------------------------- MODULE ChapterSyncProofs -------------------------
(***************************************************************************)
(* For any listings, rows, tasks and bounds: however the source renumbers, *)
(* re-uploads and drops chapters, committed rows differ in number and in   *)
(* remote id, downloads point at rows that are there, the back catalogue   *)
(* is not queued, and a listing that was committed finds nothing new.      *)
(*                                                                         *)
(* A listing is applied chapter by chapter, so its facts are shown for its *)
(* first k chapters, and the smallest k at which one fails is refuted.     *)
(***************************************************************************)
EXTENDS ChapterSync, FiniteSetTheorems, WellFoundedInduction, TLAPS

Entries == [remote : Remotes, number : Numbers, date : Dates]
Chapter == [remote : Remotes, number : Numbers, date : Dates, fetched : Nat]

(* Rows with ids that were given out, each with a remote id of its own.    *)
Stored(rs, last) ==
    /\ last \in Nat
    /\ rs \in [DOMAIN rs -> Chapter]
    /\ DOMAIN rs \subseteq 1 .. last
    /\ \A i, j \in DOMAIN rs : rs[i].remote = rs[j].remote => i = j

(* What sync_chapters keeps while it goes through a listing.               *)
Indexed(st) ==
    /\ st.byNumber \in [Numbers -> Nat \cup {None}]
    /\ \A n \in Numbers : st.byNumber[n] # None =>
          st.byNumber[n] \in DOMAIN st.rows /\ st.rows[st.byNumber[n]].number = n

Fields(st) == DOMAIN st = {"rows", "byNumber", "new", "lastId"}

Taken(rs, last, st) ==
    /\ Fields(st) /\ Stored(st.rows, st.lastId) /\ Indexed(st)
    /\ DOMAIN rs \subseteq DOMAIN st.rows
    /\ last <= st.lastId
    /\ st.new \subseteq (last + 1) .. st.lastId

-----------------------------------------------------------------------------
(* A set of numbers has a smallest.                                        *)
LEMMA SmallestNumber ==
    ASSUME NEW P \in SUBSET Nat, P # {}
    PROVE  \E m \in P : \A k \in 0 .. m - 1 : k \notin P
<1>1. PICK m \in P : \A k \in P : ~(<<k, m>> \in OpToRel(<, Nat))
  BY NatLessThanWellFounded, WFMin
<1>2. \A k \in 0 .. m - 1 : k \in Nat /\ k < m
  OBVIOUS
<1> QED BY <1>1, <1>2 DEF OpToRel

(* compare_freshness orders the rows, so a group has a freshest one.       *)
LEMMA FreshestIsThere ==
    ASSUME NEW rs, NEW last, Stored(rs, last), NEW G \in SUBSET DOMAIN rs, G # {}
    PROVE  Freshest(rs, G) \in G
<1> DEFINE Best(H, i) == \A j \in H \ {i} : Fresher(rs, i, j)
           P == {m \in Nat : \E H \in SUBSET G : H # {} /\ H \subseteq 1 .. m
                                /\ \A i \in H : ~Best(H, i)}
<1>1. \A i \in DOMAIN rs : i \in Nat /\ rs[i].date \in Nat /\ rs[i].fetched \in Nat
  BY DatesAreOrdered DEF Stored, Chapter
<1>2. \A i, j, k \in DOMAIN rs : Fresher(rs, i, j) /\ Fresher(rs, j, k) => Fresher(rs, i, k)
  BY <1>1 DEF Fresher
<1>3. \A i, j \in DOMAIN rs : i # j => Fresher(rs, i, j) \/ Fresher(rs, j, i)
  BY <1>1 DEF Fresher
<1>4. ASSUME NEW m \in P, \A k \in 0 .. m - 1 : k \notin P PROVE FALSE
  <2>1. PICK H \in SUBSET G : H # {} /\ H \subseteq 1 .. m /\ \A i \in H : ~Best(H, i)
    BY <1>4
  <2>2. m \in Nat
    BY <1>4
  <2>3. m # 0
    BY <2>1
  <2>4. m - 1 \in 0 .. m - 1 /\ m - 1 \in Nat
    BY <2>2, <2>3
  <2>5. m - 1 \notin P
    BY <1>4, <2>4
  <2>6. m \in H
    <3> SUFFICES ASSUME m \notin H PROVE FALSE
      OBVIOUS
    <3>1. H \subseteq 1 .. m - 1
      BY <2>1, <2>2
    <3> QED BY <2>1, <2>4, <2>5, <3>1
  <2> DEFINE K == H \ {m}
  <2>7. K # {}
    <3> SUFFICES ASSUME K = {} PROVE FALSE
      OBVIOUS
    <3> QED BY <2>1, <2>6
  <2>8. K \in SUBSET G /\ K \subseteq 1 .. m - 1
    BY <2>1, <2>2
  <2>9. PICK x \in K : Best(K, x)
    <3> HIDE DEF K, Best
    <3> QED BY <2>4, <2>5, <2>7, <2>8
  <2>10. x \in DOMAIN rs /\ m \in DOMAIN rs /\ x # m /\ \A j \in K : j \in DOMAIN rs
    BY <2>6, <2>8
  <2>11. CASE Fresher(rs, m, x)
    <3>1. \A j \in H \ {m} : Fresher(rs, m, j)
      BY <1>2, <2>9, <2>10, <2>11
    <3> QED BY <2>1, <2>6, <3>1
  <2>12. CASE Fresher(rs, x, m)
    <3>1. \A j \in H \ {x} : Fresher(rs, x, j)
      BY <2>9, <2>12
    <3> QED BY <2>1, <3>1
  <2> QED BY <1>3, <2>10, <2>11, <2>12
<1>5. P = {}
  <2> SUFFICES ASSUME P # {} PROVE FALSE
    OBVIOUS
  <2>1. P \in SUBSET Nat
    OBVIOUS
  <2> HIDE DEF P
  <2> QED BY <1>4, <2>1, SmallestNumber
<1>6. last \in Nat /\ G \subseteq 1 .. last
  BY DEF Stored
<1>7. last \notin P
  BY <1>5
<1>8. \E i \in G : Best(G, i)
  <2> HIDE DEF Best
  <2> QED BY <1>6, <1>7
<1> QED BY <1>8 DEF Freshest

-----------------------------------------------------------------------------
(* What each way of taking a chapter does to the fields.                   *)
IsUpdated(st, e, i, nt) ==
    /\ Fields(nt) /\ nt.new = st.new /\ nt.lastId = st.lastId
    /\ nt.byNumber = [n \in Numbers |->
           IF n = e.number THEN i
           ELSE IF n = st.rows[i].number /\ st.byNumber[n] = i THEN None
           ELSE st.byNumber[n]]
    /\ nt.rows \in [DOMAIN st.rows -> Chapter]
    /\ \A j \in DOMAIN st.rows :
          /\ nt.rows[j].remote = st.rows[j].remote
          /\ nt.rows[j].number = IF j = i THEN e.number ELSE st.rows[j].number

IsReplaced(st, e, i, nt) ==
    /\ Fields(nt) /\ nt.new = st.new /\ nt.lastId = st.lastId
    /\ nt.byNumber = st.byNumber
    /\ nt.rows \in [DOMAIN st.rows -> Chapter]
    /\ \A j \in DOMAIN st.rows :
          /\ nt.rows[j].number = st.rows[j].number
          /\ nt.rows[j].remote = IF j = i THEN e.remote ELSE st.rows[j].remote

IsCreated(st, e, i, nt) ==
    /\ i = st.lastId + 1 /\ i \in Nat /\ i \notin DOMAIN st.rows
    /\ Fields(nt) /\ nt.new = st.new \cup {i} /\ nt.lastId = i
    /\ nt.byNumber = [st.byNumber EXCEPT ![e.number] = i]
    /\ nt.rows \in [{i} \cup DOMAIN st.rows -> Chapter]
    /\ nt.rows[i].remote = e.remote /\ nt.rows[i].number = e.number
    /\ \A j \in DOMAIN st.rows :
          nt.rows[j].number = st.rows[j].number /\ nt.rows[j].remote = st.rows[j].remote

LEMMA UpdateKnownDoes ==
    ASSUME NEW rs, NEW last \in Nat, NEW st, Taken(rs, last, st),
           NEW e \in Entries, NEW i \in DOMAIN st.rows
    PROVE  IsUpdated(st, e, i, UpdateKnown(st, e, i))
<1> DEFINE nt == UpdateKnown(st, e, i)
<1>0. /\ Fields(st) /\ st.rows \in [DOMAIN st.rows -> Chapter] /\ st.lastId \in Nat
      /\ DOMAIN st.rows \subseteq 1 .. st.lastId
      /\ st.byNumber \in [Numbers -> Nat \cup {None}]
  BY DEF Taken, Stored, Indexed
<1> DEFINE row == [st.rows[i] EXCEPT !.number = e.number, !.date = e.date]
<1>1. Fields(nt) /\ nt.new = st.new /\ nt.lastId = st.lastId
  BY <1>0 DEF UpdateKnown, Fields
<1>2. nt.byNumber = [n \in Numbers |->
                  IF n = e.number THEN i
                  ELSE IF n = st.rows[i].number /\ st.byNumber[n] = i THEN None
                  ELSE st.byNumber[n]]
  BY <1>0 DEF UpdateKnown, Fields
<1>3. nt.rows = [st.rows EXCEPT ![i] = row]
  BY <1>0 DEF UpdateKnown, Fields
<1>4. row \in Chapter /\ row.remote = st.rows[i].remote /\ row.number = e.number
  BY <1>0 DEF Chapter, Entries
<1> HIDE DEF row, nt
<1>5. IsUpdated(st, e, i, nt)
  BY <1>0, <1>1, <1>2, <1>3, <1>4 DEF IsUpdated
<1> QED BY <1>5 DEF nt

LEMMA ReplaceRemoteDoes ==
    ASSUME NEW rs, NEW last \in Nat, NEW st, Taken(rs, last, st),
           NEW e \in Entries, NEW i \in DOMAIN st.rows
    PROVE  IsReplaced(st, e, i, ReplaceRemote(st, e, i))
<1> DEFINE nt == ReplaceRemote(st, e, i)
<1>0. /\ Fields(st) /\ st.rows \in [DOMAIN st.rows -> Chapter] /\ st.lastId \in Nat
      /\ DOMAIN st.rows \subseteq 1 .. st.lastId
      /\ st.byNumber \in [Numbers -> Nat \cup {None}]
  BY DEF Taken, Stored, Indexed
<1> DEFINE row == [st.rows[i] EXCEPT !.remote = e.remote, !.date = e.date]
<1>1. Fields(nt) /\ nt.new = st.new /\ nt.lastId = st.lastId /\ nt.byNumber = st.byNumber
  BY <1>0 DEF ReplaceRemote, Fields
<1>3. nt.rows = [st.rows EXCEPT ![i] = row]
  BY <1>0 DEF ReplaceRemote, Fields
<1>4. row \in Chapter /\ row.number = st.rows[i].number /\ row.remote = e.remote
  BY <1>0 DEF Chapter, Entries
<1> HIDE DEF row, nt
<1>5. IsReplaced(st, e, i, nt)
  BY <1>0, <1>1, <1>3, <1>4 DEF IsReplaced
<1> QED BY <1>5 DEF nt

LEMMA CreateDoes ==
    ASSUME NEW rs, NEW last \in Nat, NEW st, Taken(rs, last, st), NEW e \in Entries
    PROVE  IsCreated(st, e, st.lastId + 1, Create(st, e))
<1> DEFINE nt == Create(st, e)
           i == st.lastId + 1
<1>0. /\ Fields(st) /\ st.rows \in [DOMAIN st.rows -> Chapter] /\ st.lastId \in Nat
      /\ DOMAIN st.rows \subseteq 1 .. st.lastId
      /\ st.byNumber \in [Numbers -> Nat \cup {None}]
  BY DEF Taken, Stored, Indexed
<1> DEFINE row == [remote |-> e.remote, number |-> e.number, date |-> e.date, fetched |-> i]
<1>1. Fields(nt) /\ nt.new = st.new \cup {i} /\ nt.lastId = i
  BY <1>0 DEF Create, Fields
<1>2. nt.byNumber = [st.byNumber EXCEPT ![e.number] = i]
  BY <1>0 DEF Create, Fields
<1>3. nt.rows = [j \in {i} \cup DOMAIN st.rows |-> IF j = i THEN row ELSE st.rows[j]]
  BY <1>0 DEF Create, Fields
<1>4. row \in Chapter /\ row.number = e.number /\ row.remote = e.remote
  BY <1>0 DEF Chapter, Entries
<1>6. i = st.lastId + 1 /\ i \in Nat /\ i \notin DOMAIN st.rows
  BY <1>0
<1> HIDE DEF row, nt, i
<1>5. IsCreated(st, e, i, nt)
  BY <1>0, <1>1, <1>2, <1>3, <1>4, <1>6 DEF IsCreated
<1> QED BY <1>5 DEF nt, i

(* How apply_entry of a listed chapter goes.                               *)
LEMMA OneOfThree ==
    ASSUME NEW st, NEW e, Indexed(st), e.number \in Numbers
    PROVE  \/ \E i \in DOMAIN st.rows :
                 st.rows[i].remote = e.remote /\ ApplyEntry(st, e) = UpdateKnown(st, e, i)
           \/ /\ \A i \in DOMAIN st.rows : st.rows[i].remote # e.remote
              /\ \E i \in DOMAIN st.rows :
                    /\ st.rows[i].number = e.number /\ st.byNumber[e.number] = i
                    /\ ApplyEntry(st, e) = ReplaceRemote(st, e, i)
           \/ /\ \A i \in DOMAIN st.rows : st.rows[i].remote # e.remote
              /\ st.byNumber[e.number] = None
              /\ ApplyEntry(st, e) = Create(st, e)
<1> DEFINE known == {i \in DOMAIN st.rows : st.rows[i].remote = e.remote}
<1>1. CASE known # {}
  <2>1. (CHOOSE i \in known : TRUE) \in known
    BY <1>1
  <2>2. ApplyEntry(st, e) = UpdateKnown(st, e, CHOOSE i \in known : TRUE)
    BY <1>1 DEF ApplyEntry
  <2> QED BY <2>1, <2>2
<1>2. CASE known = {} /\ st.byNumber[e.number] # None
  <2>1. ApplyEntry(st, e) = ReplaceRemote(st, e, st.byNumber[e.number])
    BY <1>2 DEF ApplyEntry
  <2> QED BY <1>2, <2>1 DEF Indexed
<1>3. CASE known = {} /\ st.byNumber[e.number] = None
  <2>1. ApplyEntry(st, e) = Create(st, e)
    BY <1>3 DEF ApplyEntry
  <2> QED BY <1>3, <2>1
<1> QED BY <1>1, <1>2, <1>3

LEMMA TakenStep ==
    ASSUME NEW rs, NEW last \in Nat, NEW st, Taken(rs, last, st), NEW e \in Entries,
           NEW nt, nt = ApplyEntry(st, e)
    PROVE  Taken(rs, last, nt)
<1> USE NoneIsNoId
<1>0. /\ Fields(st) /\ Indexed(st) /\ st.lastId \in Nat /\ e.number \in Numbers
      /\ st.rows \in [DOMAIN st.rows -> Chapter] /\ DOMAIN st.rows \subseteq 1 .. st.lastId
      /\ \A i, j \in DOMAIN st.rows : st.rows[i].remote = st.rows[j].remote => i = j
      /\ DOMAIN rs \subseteq DOMAIN st.rows /\ last <= st.lastId
      /\ st.new \subseteq (last + 1) .. st.lastId
      /\ st.byNumber \in [Numbers -> Nat \cup {None}]
  BY DEF Taken, Stored, Indexed, Entries
<1>1. ASSUME NEW i \in DOMAIN st.rows, st.rows[i].remote = e.remote, nt = UpdateKnown(st, e, i)
      PROVE  Taken(rs, last, nt)
  <2>1. IsUpdated(st, e, i, nt)
    BY <1>1, UpdateKnownDoes
  <2> USE DEF IsUpdated
  <2>2. Stored(nt.rows, nt.lastId)
    BY <1>0, <2>1 DEF Stored
  <2>3. Indexed(nt)
    BY <1>0, <2>1 DEF Indexed
  <2> QED BY <1>0, <2>1, <2>2, <2>3 DEF Taken
<1>2. ASSUME NEW i \in DOMAIN st.rows, nt = ReplaceRemote(st, e, i),
             \A j \in DOMAIN st.rows : st.rows[j].remote # e.remote
      PROVE  Taken(rs, last, nt)
  <2>1. IsReplaced(st, e, i, nt)
    BY <1>2, ReplaceRemoteDoes
  <2> USE DEF IsReplaced
  <2>2. Stored(nt.rows, nt.lastId)
    BY <1>0, <1>2, <2>1 DEF Stored
  <2>3. Indexed(nt)
    BY <1>0, <2>1 DEF Indexed
  <2> QED BY <1>0, <2>1, <2>2, <2>3 DEF Taken
<1>3. ASSUME nt = Create(st, e), \A j \in DOMAIN st.rows : st.rows[j].remote # e.remote
      PROVE  Taken(rs, last, nt)
  <2>0. PICK i : i = st.lastId + 1
    OBVIOUS
  <2>2. IsCreated(st, e, i, nt)
    BY <1>3, <2>0, CreateDoes
  <2> USE DEF IsCreated
  <2>3. {i} \cup DOMAIN st.rows \subseteq 1 .. i /\ last <= i /\ st.new \cup {i} \subseteq (last + 1) .. i
    BY <1>0, <2>0
  <2>4. Stored(nt.rows, nt.lastId)
    BY <1>0, <1>3, <2>2, <2>3 DEF Stored
  <2>5. Indexed(nt)
    BY <1>0, <2>2 DEF Indexed
  <2> QED BY <1>0, <2>2, <2>3, <2>4, <2>5 DEF Taken
<1> QED BY <1>0, <1>1, <1>2, <1>3, OneOfThree

-----------------------------------------------------------------------------
(* What a listing has left behind after its first k chapters: a row for    *)
(* each of their numbers, with the id of one of them; and whoever has the  *)
(* id of one of them has its number.                                       *)
Followed(st, listing, k) ==
    /\ \A p \in 1 .. k : \E i \in DOMAIN st.rows, q \in 1 .. k :
          st.rows[i].number = listing[p].number /\ st.rows[i].remote = listing[q].remote
    /\ \A p \in 1 .. k : \A i \in DOMAIN st.rows :
          st.rows[i].remote = listing[p].remote => st.rows[i].number = listing[p].number

(* A listing that the rows already follow.                                 *)
Known(st, listing) ==
    /\ st.new = {}
    /\ \A p \in DOMAIN listing : st.byNumber[listing[p].number] # None
    /\ \A p \in DOMAIN listing : \A i \in DOMAIN st.rows :
          st.rows[i].remote = listing[p].remote => st.rows[i].number = listing[p].number

LEMMA ListingIs ==
    ASSUME NEW listing \in Listings
    PROVE  /\ Len(listing) \in Nat /\ DOMAIN listing = 1 .. Len(listing)
           /\ \A p \in 1 .. Len(listing) : listing[p] \in Entries
           /\ \A p, q \in 1 .. Len(listing) : listing[p].remote = listing[q].remote => p = q
<1>1. listing \in Seq(Entries)
  BY ListingsAreListings DEF Entries
<1>2. Len(listing) \in Nat /\ DOMAIN listing = 1 .. Len(listing)
  BY <1>1
<1>3. \A p \in 1 .. Len(listing) : listing[p] \in Entries
  BY <1>1
<1> QED BY <1>2, <1>3, ListingsAreListings

LEMMA FollowedStep ==
    ASSUME NEW rs, NEW last \in Nat, NEW st, Taken(rs, last, st), NEW listing \in Listings,
           NEW k \in 1 .. Len(listing), Followed(st, listing, k - 1),
           NEW nt, nt = ApplyEntry(st, listing[k])
    PROVE  Followed(nt, listing, k)
<1> DEFINE e == listing[k]
<1>0. /\ Fields(st) /\ Indexed(st) /\ st.lastId \in Nat /\ e \in Entries /\ e.number \in Numbers
      /\ st.rows \in [DOMAIN st.rows -> Chapter] /\ DOMAIN st.rows \subseteq 1 .. st.lastId
      /\ \A i, j \in DOMAIN st.rows : st.rows[i].remote = st.rows[j].remote => i = j
      /\ st.byNumber \in [Numbers -> Nat \cup {None}]
  BY ListingIs DEF Taken, Stored, Indexed, Entries
<1>4. /\ Len(listing) \in Nat /\ k \in Nat
      /\ \A p \in 1 .. k : p # k => p \in 1 .. k - 1
      /\ \A p \in 1 .. k - 1 : p \in 1 .. k
      /\ k \in 1 .. k
  BY ListingIs
<1>5. \A p \in 1 .. k - 1 : listing[p].remote # e.remote
  BY ListingIs
<1>6. \A p \in 1 .. k - 1 : \E i \in DOMAIN st.rows, q \in 1 .. k - 1 :
          st.rows[i].number = listing[p].number /\ st.rows[i].remote = listing[q].remote
  BY DEF Followed
<1>8. \A p \in 1 .. k - 1 : \A i \in DOMAIN st.rows :
          st.rows[i].remote = listing[p].remote => st.rows[i].number = listing[p].number
  BY DEF Followed
<1> HIDE DEF e
<1>7. e = listing[k] /\ e \in Entries
  BY <1>0 DEF e
<1>1. ASSUME NEW i \in DOMAIN st.rows, st.rows[i].remote = e.remote, nt = UpdateKnown(st, e, i)
      PROVE  Followed(nt, listing, k)
  <2>1. IsUpdated(st, e, i, nt)
    BY <1>1, <1>7, UpdateKnownDoes
  <2> USE DEF IsUpdated
  <2>2. ASSUME NEW p \in 1 .. k
        PROVE  \E j \in DOMAIN nt.rows, q \in 1 .. k :
                  nt.rows[j].number = listing[p].number /\ nt.rows[j].remote = listing[q].remote
    <3>1. CASE p = k
      BY <1>1, <1>4, <1>7, <2>1, <3>1
    <3>2. CASE p # k
      <4>1. PICK j \in DOMAIN st.rows, q \in 1 .. k - 1 :
              st.rows[j].number = listing[p].number /\ st.rows[j].remote = listing[q].remote
        BY <1>4, <1>6, <3>2
      <4>2. j # i
        BY <1>1, <1>5, <4>1
      <4> QED BY <1>4, <2>1, <4>1, <4>2
    <3> QED BY <3>1, <3>2
  <2>3. ASSUME NEW p \in 1 .. k, NEW j \in DOMAIN nt.rows, nt.rows[j].remote = listing[p].remote
        PROVE  nt.rows[j].number = listing[p].number
    <3>1. CASE p = k
      BY <1>0, <1>1, <1>7, <2>1, <2>3, <3>1
    <3>2. CASE p # k
      <4>1. p \in 1 .. k - 1 /\ j \in DOMAIN st.rows /\ st.rows[j].remote = listing[p].remote
        BY <1>4, <2>1, <2>3, <3>2
      <4>2. j # i /\ st.rows[j].number = listing[p].number
        BY <1>1, <1>4, <1>5, <1>8, <4>1
      <4> QED BY <2>1, <4>1, <4>2
    <3> QED BY <3>1, <3>2
  <2> QED BY <2>2, <2>3 DEF Followed
<1>2. ASSUME NEW i \in DOMAIN st.rows, nt = ReplaceRemote(st, e, i), st.rows[i].number = e.number,
             \A j \in DOMAIN st.rows : st.rows[j].remote # e.remote
      PROVE  Followed(nt, listing, k)
  <2>1. IsReplaced(st, e, i, nt)
    BY <1>2, <1>7, ReplaceRemoteDoes
  <2> USE DEF IsReplaced
  <2>2. ASSUME NEW p \in 1 .. k
        PROVE  \E j \in DOMAIN nt.rows, q \in 1 .. k :
                  nt.rows[j].number = listing[p].number /\ nt.rows[j].remote = listing[q].remote
    <3>1. CASE p = k
      BY <1>2, <1>4, <1>7, <2>1, <3>1
    <3>2. CASE p # k
      <4>1. PICK j \in DOMAIN st.rows, q \in 1 .. k - 1 :
              st.rows[j].number = listing[p].number /\ st.rows[j].remote = listing[q].remote
        BY <1>4, <1>6, <3>2
      <4>2. nt.rows[j].remote = listing[IF j = i THEN k ELSE q].remote
        BY <1>7, <2>1, <4>1
      <4> QED BY <1>4, <2>1, <4>1, <4>2
    <3> QED BY <3>1, <3>2
  <2>3. ASSUME NEW p \in 1 .. k, NEW j \in DOMAIN nt.rows, nt.rows[j].remote = listing[p].remote
        PROVE  nt.rows[j].number = listing[p].number
    <3>1. CASE p = k
      BY <1>2, <1>7, <2>1, <2>3, <3>1
    <3>2. CASE p # k
      <4>1. p \in 1 .. k - 1 /\ j # i /\ j \in DOMAIN st.rows
        BY <1>4, <1>5, <1>7, <2>1, <2>3, <3>2
      <4>2. st.rows[j].number = listing[p].number
        BY <1>4, <1>8, <2>1, <2>3, <4>1
      <4> QED BY <2>1, <4>1, <4>2
    <3> QED BY <3>1, <3>2
  <2> QED BY <2>2, <2>3 DEF Followed
<1>3. ASSUME nt = Create(st, e), \A j \in DOMAIN st.rows : st.rows[j].remote # e.remote
      PROVE  Followed(nt, listing, k)
  <2>0. PICK i : i = st.lastId + 1
    OBVIOUS
  <2>2. IsCreated(st, e, i, nt)
    BY <1>3, <1>7, <2>0, CreateDoes
  <2> USE DEF IsCreated
  <2>5. DOMAIN nt.rows = {i} \cup DOMAIN st.rows
    BY <2>2
  <2>3. ASSUME NEW p \in 1 .. k
        PROVE  \E j \in DOMAIN nt.rows, q \in 1 .. k :
                  nt.rows[j].number = listing[p].number /\ nt.rows[j].remote = listing[q].remote
    <3>1. CASE p = k
      BY <1>4, <1>7, <2>2, <2>5, <3>1
    <3>2. CASE p # k
      <4>1. PICK j \in DOMAIN st.rows, q \in 1 .. k - 1 :
              st.rows[j].number = listing[p].number /\ st.rows[j].remote = listing[q].remote
        BY <1>4, <1>6, <3>2
      <4> QED BY <1>4, <2>2, <2>5, <4>1
    <3> QED BY <3>1, <3>2
  <2>4. ASSUME NEW p \in 1 .. k, NEW j \in DOMAIN nt.rows, nt.rows[j].remote = listing[p].remote
        PROVE  nt.rows[j].number = listing[p].number
    <3>1. CASE p = k
      BY <1>3, <1>7, <2>2, <2>5, <2>4, <3>1
    <3>2. CASE p # k
      <4>1. p \in 1 .. k - 1 /\ j # i /\ j \in DOMAIN st.rows
        BY <1>4, <1>5, <2>2, <2>5, <2>4, <3>2
      <4>2. st.rows[j].number = listing[p].number
        BY <1>4, <1>8, <2>2, <2>4, <4>1
      <4> QED BY <2>2, <4>1, <4>2
    <3> QED BY <3>1, <3>2
  <2> QED BY <2>3, <2>4 DEF Followed
<1> QED BY <1>0, <1>1, <1>2, <1>3, <1>7, OneOfThree

(* A listing the rows follow creates nothing, and they follow it still.    *)
LEMMA KnownStep ==
    ASSUME NEW rs, NEW last \in Nat, NEW st, Taken(rs, last, st), NEW listing \in Listings,
           NEW k \in 1 .. Len(listing), Known(st, listing),
           NEW nt, nt = ApplyEntry(st, listing[k])
    PROVE  Known(nt, listing)
<1> DEFINE e == listing[k]
<1> USE NoneIsNoId
<1>0. /\ Fields(st) /\ Indexed(st) /\ st.lastId \in Nat /\ e \in Entries /\ e.number \in Numbers
      /\ st.rows \in [DOMAIN st.rows -> Chapter] /\ DOMAIN st.rows \subseteq 1 .. st.lastId
      /\ \A i, j \in DOMAIN st.rows : st.rows[i].remote = st.rows[j].remote => i = j
      /\ st.byNumber \in [Numbers -> Nat \cup {None}]
  BY ListingIs DEF Taken, Stored, Indexed, Entries
<1>4. k \in DOMAIN listing /\ \A p \in DOMAIN listing : listing[p].remote = e.remote => p = k
  BY ListingIs
<1>5. /\ st.new = {}
      /\ \A p \in DOMAIN listing : st.byNumber[listing[p].number] # None
      /\ \A p \in DOMAIN listing : \A i \in DOMAIN st.rows :
            st.rows[i].remote = listing[p].remote => st.rows[i].number = listing[p].number
  BY DEF Known
<1>6. \A p \in DOMAIN listing : listing[p].number \in Numbers
  BY ListingIs DEF Entries
<1> HIDE DEF e
<1>7. e = listing[k] /\ e \in Entries
  BY <1>0 DEF e
<1>1. ASSUME NEW i \in DOMAIN st.rows, st.rows[i].remote = e.remote, nt = UpdateKnown(st, e, i)
      PROVE  Known(nt, listing)
  <2>1. IsUpdated(st, e, i, nt)
    BY <1>1, <1>7, UpdateKnownDoes
  <2> USE DEF IsUpdated
  <2>2. st.rows[i].number = e.number /\ i # None
    BY <1>0, <1>1, <1>4, <1>5, <1>7
  <2> QED BY <1>5, <1>6, <2>1, <2>2 DEF Known
<1>2. ASSUME NEW i \in DOMAIN st.rows, nt = ReplaceRemote(st, e, i), st.rows[i].number = e.number
      PROVE  Known(nt, listing)
  <2>1. IsReplaced(st, e, i, nt)
    BY <1>2, <1>7, ReplaceRemoteDoes
  <2> USE DEF IsReplaced
  <2> QED BY <1>2, <1>4, <1>5, <1>7, <2>1 DEF Known
<1>3. st.byNumber[e.number] # None
  BY <1>4, <1>5, <1>7
<1> QED BY <1>0, <1>1, <1>2, <1>3, <1>7, OneOfThree

-----------------------------------------------------------------------------
(* The states of sync_chapters after each chapter of a listing.            *)
Course(g, rs, last, listing, m) ==
    g = [k \in 0 .. m |->
            IF k = 0 THEN Unapplied(rs, last) ELSE ApplyEntry(g[k - 1], listing[k])]

LEMMA CoursesExist ==
    ASSUME NEW rs, NEW last, NEW listing, NEW m \in Nat
    PROVE  \E g : Course(g, rs, last, listing, m)
<1> DEFINE P == {k \in Nat : ~ \E g : Course(g, rs, last, listing, k)}
<1>1. ASSUME NEW n \in P, \A k \in 0 .. n - 1 : k \notin P PROVE FALSE
  <2>1. CASE n = 0
    <3> DEFINE g == [k \in 0 .. 0 |-> Unapplied(rs, last)]
    <3>1. \A k \in 0 .. 0 : k = 0
      OBVIOUS
    <3>2. g = [k \in 0 .. 0 |->
                 IF k = 0 THEN Unapplied(rs, last) ELSE ApplyEntry(g[k - 1], listing[k])]
      BY <3>1
    <3> HIDE DEF g
    <3> QED BY <1>1, <2>1, <3>2 DEF Course
  <2>2. CASE n # 0
    <3>1. n \in Nat /\ n - 1 \in 0 .. n - 1 /\ n - 1 \in Nat
      BY <2>2
    <3>2. PICK g : Course(g, rs, last, listing, n - 1)
      BY <1>1, <3>1
    <3>3. \A k \in 0 .. n - 1 :
            g[k] = IF k = 0 THEN Unapplied(rs, last) ELSE ApplyEntry(g[k - 1], listing[k])
      BY <3>2 DEF Course
    <3> DEFINE h == [k \in 0 .. n |-> IF k = n THEN ApplyEntry(g[n - 1], listing[n]) ELSE g[k]]
    <3>4. \A k \in 0 .. n : k # n => k \in 0 .. n - 1 /\ (k # 0 => k - 1 \in 0 .. n - 1)
      BY <3>1
    <3>5. h[n - 1] = g[n - 1]
      BY <3>1
    <3>6. ASSUME NEW k \in 0 .. n
          PROVE  h[k] = IF k = 0 THEN Unapplied(rs, last) ELSE ApplyEntry(h[k - 1], listing[k])
      <4>1. CASE k = n
        BY <2>2, <3>5, <4>1
      <4>2. CASE k # n
        <5>1. h[k] = g[k] /\ (k # 0 => h[k - 1] = g[k - 1])
          BY <3>1, <3>4, <4>2
        <5> QED BY <3>3, <3>4, <4>2, <5>1
      <4> QED BY <4>1, <4>2
    <3>7. h = [k \in 0 .. n |-> h[k]]
      OBVIOUS
    <3> HIDE DEF h
    <3>8. Course(h, rs, last, listing, n)
      BY <3>6, <3>7 DEF Course
    <3> QED BY <1>1, <3>8
  <2> QED BY <2>1, <2>2
<1>2. P = {}
  <2> SUFFICES ASSUME P # {} PROVE FALSE
    OBVIOUS
  <2>1. P \in SUBSET Nat
    OBVIOUS
  <2> HIDE DEF P
  <2> QED BY <1>1, <2>1, SmallestNumber
<1> QED BY <1>2

Passes(g, rs, last, listing) ==
    /\ Applied(rs, last, listing) = g[Len(listing)]
    /\ g[0] = Unapplied(rs, last)
    /\ \A k \in 1 .. Len(listing) : g[k] = ApplyEntry(g[k - 1], listing[k])

LEMMA AppliedIsLast ==
    ASSUME NEW rs, NEW last, NEW listing \in Listings
    PROVE  \E g : Passes(g, rs, last, listing)
<1> DEFINE Is(g) == Course(g, rs, last, listing, Len(listing))
<1>1. Len(listing) \in Nat
  BY ListingIs
<1>2. \E g : Is(g)
  BY <1>1, CoursesExist
<1>3. Applied(rs, last, listing) = (CHOOSE g : Is(g))[Len(listing)]
  BY Zenon DEF Applied, Course
<1> DEFINE after == CHOOSE g : Is(g)
<1>4. Is(after)
  BY <1>2
<1> HIDE DEF after
<1>5. \A k \in 0 .. Len(listing) :
        after[k] = IF k = 0 THEN Unapplied(rs, last) ELSE ApplyEntry(after[k - 1], listing[k])
  BY <1>4 DEF Course
<1>6. after[0] = Unapplied(rs, last)
  BY <1>1, <1>5
<1>7. \A k \in 1 .. Len(listing) : after[k] = ApplyEntry(after[k - 1], listing[k])
  BY <1>1, <1>5
<1>8. Applied(rs, last, listing) = after[Len(listing)]
  BY <1>3 DEF after
<1> QED BY <1>6, <1>7, <1>8 DEF Passes

LEMMA UnappliedIsTaken ==
    ASSUME NEW rs, NEW last, Stored(rs, last)
    PROVE  Taken(rs, last, Unapplied(rs, last)) /\ last \in Nat
<1> DEFINE st == Unapplied(rs, last)
<1>1. st.rows = rs /\ st.lastId = last /\ st.new = {} /\ st.byNumber = ByNumber(rs) /\ Fields(st)
  BY DEF Unapplied, Fields
<1>2. last \in Nat /\ DOMAIN rs \subseteq Nat
  BY DEF Stored
<1>3. Indexed(st)
  <2>1. ASSUME NEW n \in Numbers
        PROVE  ByNumber(rs)[n] \in Nat \cup {None}
               /\ (ByNumber(rs)[n] # None =>
                     ByNumber(rs)[n] \in DOMAIN rs /\ rs[ByNumber(rs)[n]].number = n)
    BY <1>2 DEF ByNumber
  <2>2. ByNumber(rs) \in [Numbers -> Nat \cup {None}]
    BY <2>1 DEF ByNumber
  <2> QED BY <1>1, <2>1, <2>2 DEF Indexed
<1> QED BY <1>1, <1>2, <1>3 DEF Taken

(* A whole listing.                                                        *)
LEMMA AppliedIsTaken ==
    ASSUME NEW rs, NEW last, Stored(rs, last), NEW listing \in Listings
    PROVE  /\ Taken(rs, last, Applied(rs, last, listing))
           /\ Followed(Applied(rs, last, listing), listing, Len(listing))
<1>1. PICK g : Passes(g, rs, last, listing)
  BY AppliedIsLast
<1>2. Len(listing) \in Nat /\ \A k \in 1 .. Len(listing) : listing[k] \in Entries
  BY ListingIs
<1>3. Taken(rs, last, g[0]) /\ last \in Nat
  BY <1>1, UnappliedIsTaken DEF Passes
<1>4. Followed(g[0], listing, 0)
  BY DEF Followed
<1> DEFINE P == {k \in 0 .. Len(listing) : ~(Taken(rs, last, g[k]) /\ Followed(g[k], listing, k))}
<1>5. ASSUME NEW n \in P, \A k \in 0 .. n - 1 : k \notin P PROVE FALSE
  <2>1. n # 0
    BY <1>3, <1>4
  <2>2. n \in 1 .. Len(listing) /\ n - 1 \in 0 .. n - 1 /\ n - 1 \in 0 .. Len(listing)
    BY <1>2, <2>1
  <2>3. Taken(rs, last, g[n - 1]) /\ Followed(g[n - 1], listing, n - 1)
    BY <1>5, <2>2
  <2>4. g[n] = ApplyEntry(g[n - 1], listing[n]) /\ listing[n] \in Entries
    BY <1>1, <1>2, <2>2 DEF Passes
  <2>5. Taken(rs, last, g[n])
    BY <1>3, <2>3, <2>4, TakenStep
  <2>6. Followed(g[n], listing, n)
    BY <1>3, <2>2, <2>3, <2>4, FollowedStep
  <2> QED BY <2>5, <2>6
<1>6. P = {}
  <2> SUFFICES ASSUME P # {} PROVE FALSE
    OBVIOUS
  <2>1. P \in SUBSET Nat
    BY <1>2
  <2> HIDE DEF P
  <2> QED BY <1>5, <2>1, SmallestNumber
<1>7. Len(listing) \in 0 .. Len(listing)
  BY <1>2
<1> QED BY <1>1, <1>6, <1>7 DEF Passes

(* Rows that a listing has left behind are not changed by it again in      *)
(* number.                                                                 *)
LEMMA FollowedIsKnown ==
    ASSUME NEW rs, NEW last, Stored(rs, last), NEW listing \in Listings,
           \A p \in DOMAIN listing : \E i \in DOMAIN rs : rs[i].number = listing[p].number,
           \A p \in DOMAIN listing : \A i \in DOMAIN rs :
              rs[i].remote = listing[p].remote => rs[i].number = listing[p].number
    PROVE  Applied(rs, last, listing).new = {}
<1>1. PICK g : Passes(g, rs, last, listing)
  BY AppliedIsLast
<1>2. /\ Len(listing) \in Nat /\ DOMAIN listing = 1 .. Len(listing)
      /\ \A k \in 1 .. Len(listing) : listing[k] \in Entries
  BY ListingIs
<1>3. Taken(rs, last, g[0]) /\ last \in Nat
  BY <1>1, UnappliedIsTaken DEF Passes
<1>4. Known(g[0], listing)
  <2>1. g[0].rows = rs /\ g[0].new = {} /\ g[0].byNumber = ByNumber(rs)
    BY <1>1 DEF Unapplied, Passes
  <2>2. ASSUME NEW p \in DOMAIN listing PROVE ByNumber(rs)[listing[p].number] # None
    <3> DEFINE holders == {i \in DOMAIN rs : rs[i].number = listing[p].number}
    <3>1. holders # {}
      OBVIOUS
    <3>2. listing[p].number \in Numbers
      BY <1>2 DEF Entries
    <3>3. ByNumber(rs)[listing[p].number] = CHOOSE i \in holders : TRUE
      BY <3>1, <3>2 DEF ByNumber
    <3>4. ByNumber(rs)[listing[p].number] \in DOMAIN rs
      BY <3>1, <3>3
    <3> QED BY <3>4, NoneIsNoId DEF Stored
  <2> QED BY <2>1, <2>2 DEF Known
<1> DEFINE P == {k \in 0 .. Len(listing) : ~(Taken(rs, last, g[k]) /\ Known(g[k], listing))}
<1>5. ASSUME NEW n \in P, \A k \in 0 .. n - 1 : k \notin P PROVE FALSE
  <2>1. n # 0
    BY <1>3, <1>4
  <2>2. n \in 1 .. Len(listing) /\ n - 1 \in 0 .. n - 1 /\ n - 1 \in 0 .. Len(listing)
    BY <1>2, <2>1
  <2>3. Taken(rs, last, g[n - 1]) /\ Known(g[n - 1], listing)
    BY <1>5, <2>2
  <2>4. g[n] = ApplyEntry(g[n - 1], listing[n]) /\ listing[n] \in Entries
    BY <1>1, <1>2, <2>2 DEF Passes
  <2>5. Taken(rs, last, g[n])
    BY <1>3, <2>3, <2>4, TakenStep
  <2>6. Known(g[n], listing)
    BY <1>3, <2>2, <2>3, <2>4, KnownStep
  <2> QED BY <2>5, <2>6
<1>6. P = {}
  <2> SUFFICES ASSUME P # {} PROVE FALSE
    OBVIOUS
  <2>1. P \in SUBSET Nat
    BY <1>2
  <2> HIDE DEF P
  <2> QED BY <1>5, <2>1, SmallestNumber
<1>7. Len(listing) \in 0 .. Len(listing)
  BY <1>2
<1> QED BY <1>1, <1>6, <1>7 DEF Known, Passes

-----------------------------------------------------------------------------
(* reconcile_duplicate_chapters: a row stays in its group, and if nothing  *)
(* is refused the row that stays is the freshest.                          *)
LEMMA HomeIsInGroup ==
    ASSUME NEW rs, NEW last, Stored(rs, last), NEW i \in DOMAIN rs
    PROVE  /\ Home(rs, i) \in Group(rs, rs[i].number)
           /\ Freshest(rs, Group(rs, rs[i].number)) \in Group(rs, rs[i].number)
<1> DEFINE group == Group(rs, rs[i].number)
           backed == group \cap WithDownload
<1>1. group \in SUBSET DOMAIN rs /\ i \in group
  BY DEF Group
<1>2. Freshest(rs, group) \in group
  <2> HIDE DEF group
  <2>1. group # {}
    BY <1>1
  <2> QED BY <1>1, <2>1, FreshestIsThere
<1>3. CASE backed = {}
  BY <1>2, <1>3 DEF Home, Canonical
<1>4. CASE backed # {}
  <2>1. backed \in SUBSET DOMAIN rs
    BY <1>1
  <2>2. Freshest(rs, backed) \in backed
    <3> HIDE DEF backed
    <3> QED BY <1>4, <2>1, FreshestIsThere
  <2>3. Home(rs, i) = Freshest(rs, backed)
    BY <1>4 DEF Home, Canonical
  <2> QED BY <1>2, <2>2, <2>3
<1> QED BY <1>3, <1>4

LEMMA HomeIsFreshest ==
    ASSUME NEW rs, NEW last, Stored(rs, last), ~Refused(rs), NEW i \in DOMAIN rs
    PROVE  Home(rs, i) = Freshest(rs, Group(rs, rs[i].number))
<1> DEFINE group == Group(rs, rs[i].number)
<1>1. Home(rs, i) \in group /\ Freshest(rs, group) \in group
  BY HomeIsInGroup
<1>2. rs[i].number \in Numbers
  BY DEF Stored, Chapter
<1>3. CASE Cardinality(group) > 1
  BY <1>2, <1>3 DEF Refused, Home
<1>4. CASE ~(Cardinality(group) > 1)
  <2> DEFINE two == {Home(rs, i), Freshest(rs, group)}
  <2>1. IsFiniteSet(group)
    <3>1. last \in Nat /\ group \subseteq 1 .. last
      BY DEF Group, Stored
    <3>2. IsFiniteSet(1 .. last)
      BY <3>1, FS_Interval
    <3> QED BY <3>1, <3>2, FS_Subset
  <2>2. two \subseteq group
    BY <1>1
  <2> SUFFICES ASSUME Home(rs, i) # Freshest(rs, group) PROVE FALSE
    OBVIOUS
  <2>3. Cardinality(two) = 2
    <3>1. \A a, b : a # b => Cardinality({a, b}) = 2
      <4> TAKE a, b
      <4> HAVE a # b
      <4>1. IsFiniteSet({a}) /\ Cardinality({a}) = 1
        BY FS_Singleton
      <4>2. {a, b} = {a} \cup {b} /\ b \notin {a}
        OBVIOUS
      <4> QED BY <4>1, <4>2, FS_AddElement
    <3> QED BY <3>1
  <2>4. Cardinality(two) <= Cardinality(group) /\ Cardinality(group) \in Nat
    <3> HIDE DEF two, group
    <3> QED BY <2>1, <2>2, FS_Subset, FS_CardinalityType
  <2> QED BY <1>4, <2>3, <2>4
<1> QED BY <1>3, <1>4

IsMerged(rs, new) ==
    /\ DOMAIN new = {Home(rs, j) : j \in DOMAIN rs}
    /\ DOMAIN new \subseteq DOMAIN rs
    /\ new \in [DOMAIN new -> Chapter]
    /\ \A i \in DOMAIN new :
          new[i].number = rs[i].number /\ \E j \in DOMAIN rs : new[i] = rs[j]

LEMMA MergedIs ==
    ASSUME NEW rs, NEW last, Stored(rs, last)
    PROVE  IsMerged(rs, Merged(rs))
<1>1. DOMAIN Merged(rs) = {Home(rs, j) : j \in DOMAIN rs}
  BY DEF Merged
<1>2. \A j \in DOMAIN rs : Home(rs, j) \in DOMAIN rs
  BY HomeIsInGroup DEF Group
<1>3. DOMAIN Merged(rs) \subseteq DOMAIN rs
  BY <1>1, <1>2
<1>4. ASSUME NEW i \in DOMAIN Merged(rs)
      PROVE  /\ Merged(rs)[i] = rs[Freshest(rs, Group(rs, rs[i].number))]
             /\ Freshest(rs, Group(rs, rs[i].number)) \in DOMAIN rs
             /\ rs[Freshest(rs, Group(rs, rs[i].number))].number = rs[i].number
  <2>1. Merged(rs)[i] = rs[Freshest(rs, Group(rs, rs[i].number))]
    BY DEF Merged
  <2>2. Freshest(rs, Group(rs, rs[i].number)) \in Group(rs, rs[i].number)
    BY <1>3, HomeIsInGroup
  <2> QED BY <2>1, <2>2 DEF Group
<1>5. \A j \in DOMAIN rs : rs[j] \in Chapter
  BY DEF Stored
<1>6. Merged(rs) = [i \in DOMAIN Merged(rs) |-> Merged(rs)[i]]
  BY DEF Merged
<1> QED BY <1>1, <1>3, <1>4, <1>5, <1>6 DEF IsMerged

LEMMA MergedIsStored ==
    ASSUME NEW rs, NEW last, Stored(rs, last), ~Refused(rs)
    PROVE  /\ Stored(Merged(rs), last)
           /\ \A i, j \in DOMAIN Merged(rs) :
                 Merged(rs)[i].number = Merged(rs)[j].number => i = j
<1>1. /\ DOMAIN Merged(rs) = {Home(rs, j) : j \in DOMAIN rs}
      /\ DOMAIN Merged(rs) \subseteq DOMAIN rs
      /\ Merged(rs) \in [DOMAIN Merged(rs) -> Chapter]
      /\ \A i \in DOMAIN Merged(rs) : Merged(rs)[i].number = rs[i].number
  <2>1. IsMerged(rs, Merged(rs))
    BY MergedIs
  <2> QED BY <2>1 DEF IsMerged
<1>2. ASSUME NEW i \in DOMAIN Merged(rs)
      PROVE  i = Freshest(rs, Group(rs, rs[i].number)) /\ Merged(rs)[i] = rs[i]
  <2>1. PICK j \in DOMAIN rs : i = Home(rs, j)
    BY <1>1
  <2>2. i = Freshest(rs, Group(rs, rs[j].number)) /\ i \in Group(rs, rs[j].number)
    BY <2>1, HomeIsFreshest, HomeIsInGroup
  <2>3. rs[i].number = rs[j].number
    BY <2>2 DEF Group
  <2> QED BY <2>2, <2>3 DEF Merged
<1>3. \A i, j \in DOMAIN Merged(rs) : Merged(rs)[i].number = Merged(rs)[j].number => i = j
  BY <1>1, <1>2
<1>4. \A i, j \in DOMAIN Merged(rs) : Merged(rs)[i].remote = Merged(rs)[j].remote => i = j
  BY <1>1, <1>2 DEF Stored
<1>5. last \in Nat /\ DOMAIN Merged(rs) \subseteq 1 .. last
  BY <1>1 DEF Stored
<1> QED BY <1>1, <1>3, <1>4, <1>5 DEF Stored

(* A listing that was committed finds nothing new.                         *)
LEMMA MergedIsKnown ==
    ASSUME NEW rs, NEW last, Stored(rs, last), NEW listing \in Listings,
           NEW new, NEW next, Stored(new, next), new = Merged(Applied(rs, last, listing).rows)
    PROVE  Applied(new, next, listing).new = {}
<1> DEFINE st == Applied(rs, last, listing)
<1>1. Taken(rs, last, st) /\ Followed(st, listing, Len(listing)) /\ DOMAIN listing = 1 .. Len(listing)
  BY AppliedIsTaken, ListingIs
<1> HIDE DEF st
<1>2. Stored(st.rows, st.lastId) /\ new = Merged(st.rows)
  BY <1>1 DEF Taken, st
<1>3. /\ DOMAIN new = {Home(st.rows, j) : j \in DOMAIN st.rows}
      /\ DOMAIN new \subseteq DOMAIN st.rows
      /\ \A i \in DOMAIN new :
            /\ new[i].number = st.rows[i].number
            /\ \E j \in DOMAIN st.rows : new[i] = st.rows[j]
  <2>1. IsMerged(st.rows, Merged(st.rows))
    BY <1>2, MergedIs
  <2> QED BY <1>2, <2>1 DEF IsMerged
<1>4. ASSUME NEW p \in DOMAIN listing PROVE \E i \in DOMAIN new : new[i].number = listing[p].number
  <2>1. PICK j \in DOMAIN st.rows : st.rows[j].number = listing[p].number
    BY <1>1 DEF Followed
  <2>2. Home(st.rows, j) \in DOMAIN new /\ Home(st.rows, j) \in Group(st.rows, st.rows[j].number)
    BY <1>2, <1>3, HomeIsInGroup
  <2> QED BY <1>3, <2>1, <2>2 DEF Group
<1>5. ASSUME NEW p \in DOMAIN listing, NEW i \in DOMAIN new, new[i].remote = listing[p].remote
      PROVE  new[i].number = listing[p].number
  <2>1. PICK j \in DOMAIN st.rows : new[i] = st.rows[j]
    BY <1>3
  <2> QED BY <1>1, <1>5, <2>1 DEF Followed
<1> QED BY <1>4, <1>5, FollowedIsKnown

-----------------------------------------------------------------------------
Shapes ==
    /\ pc \in [Tasks -> {"idle", "fetch", "baseline", "mark", "enqueue"}]
    /\ initial \in [Tasks -> BOOLEAN]
    /\ newIds \in [Tasks -> SUBSET Nat]
    /\ syncs \in Nat

(* Until a listing was committed the series is not initialized, and every  *)
(* task that fetches knows it.                                             *)
FirstSyncIsInitial ==
    syncs = 0 =>
        /\ ~initialized
        /\ \A t \in Tasks : pc[t] = "idle" \/ (pc[t] = "fetch" /\ initial[t])

FirstIsStored == first \subseteq 1 .. lastId

RowsAreStored == Stored(rows, lastId)

IInv ==
    /\ Shapes /\ RowsAreStored /\ ChaptersAreDistinct /\ DownloadsHaveChapter
    /\ FirstSyncIsInitial /\ FirstIsStored /\ BackCatalogueIsNotQueued

-----------------------------------------------------------------------------
LEMMA InitIInv == Init => IInv
<1> SUFFICES ASSUME Init PROVE IInv
  OBVIOUS
<1>1. rows \in [{} -> Chapter] /\ DOMAIN rows = {}
  BY DEF Init
<1>2. Shapes /\ FirstSyncIsInitial /\ FirstIsStored /\ BackCatalogueIsNotQueued
  BY DEF Init, Shapes, FirstSyncIsInitial, FirstIsStored, BackCatalogueIsNotQueued
<1>3. RowsAreStored /\ ChaptersAreDistinct /\ DownloadsHaveChapter
  BY <1>1 DEF Init, RowsAreStored, Stored, ChaptersAreDistinct, DownloadsHaveChapter, WithDownload
<1> QED BY <1>2, <1>3 DEF IInv

(* What keeps the rows apart keeps the facts about rows.                   *)
LEMMA SameRows ==
    ASSUME IInv, UNCHANGED <<rows, lastId>>, (WithDownload \subseteq DOMAIN rows)'
    PROVE  RowsAreStored' /\ ChaptersAreDistinct' /\ DownloadsHaveChapter'
<1>1. RowsAreStored'
  BY DEF IInv, RowsAreStored, Stored
<1>2. ChaptersAreDistinct'
  BY DEF IInv, ChaptersAreDistinct
<1> QED BY <1>1, <1>2 DEF DownloadsHaveChapter

LEMMA Baselines ==
    ASSUME IInv, NEW chapters, rows' = Baselined(chapters), UNCHANGED <<lastId, active, settled>>
    PROVE  RowsAreStored' /\ ChaptersAreDistinct' /\ DownloadsHaveChapter'
<1>1. Stored(rows, lastId)
  BY DEF IInv, RowsAreStored
<1>2. ASSUME NEW i \in DOMAIN rows
      PROVE  rows'[i] \in Chapter /\ rows'[i].number = rows[i].number
             /\ rows'[i].remote = rows[i].remote
  <2>1. rows[i] \in Chapter
    BY <1>1 DEF Stored
  <2>2. rows'[i] = IF i \in chapters THEN [rows[i] EXCEPT !.fetched = 0] ELSE rows[i]
    BY DEF Baselined
  <2> QED BY <2>1, <2>2 DEF Chapter
<1>3. DOMAIN rows' = DOMAIN rows /\ rows' = [i \in DOMAIN rows |-> rows'[i]]
  BY DEF Baselined
<1>4. RowsAreStored'
  BY <1>1, <1>2, <1>3 DEF RowsAreStored, Stored
<1>5. ChaptersAreDistinct'
  BY <1>2, <1>3 DEF IInv, ChaptersAreDistinct
<1>6. DownloadsHaveChapter'
  BY <1>3 DEF IInv, DownloadsHaveChapter, WithDownload
<1> QED BY <1>4, <1>5, <1>6

(* A task that ends.                                                       *)
LEMMA Ends ==
    ASSUME IInv, NEW t \in Tasks, End(t), UNCHANGED <<syncs, first, lastId>>,
           syncs = 0 => ~initialized'
    PROVE  Shapes' /\ FirstSyncIsInitial' /\ FirstIsStored' /\ BackCatalogueIsNotQueued'
<1>1. Shapes'
  BY DEF IInv, Shapes, End
<1>2. FirstSyncIsInitial'
  BY DEF IInv, Shapes, FirstSyncIsInitial, End
<1>3. FirstIsStored'
  BY DEF IInv, FirstIsStored
<1>4. BackCatalogueIsNotQueued'
  BY DEF IInv, Shapes, BackCatalogueIsNotQueued, End
<1> QED BY <1>1, <1>2, <1>3, <1>4

LEMMA Commits ==
    ASSUME IInv, NEW t \in Tasks, pc[t] = "fetch", NEW listing \in Listings,
           NEW st, st = Applied(rows, lastId, listing), ~Refused(st.rows), Commit(t, st),
           UNCHANGED <<inLibrary, initialized>>
    PROVE  IInv'
<1>1. Taken(rows, lastId, st) /\ lastId \in Nat
  BY AppliedIsTaken DEF IInv, RowsAreStored, Stored
<1>2. /\ Stored(st.rows, st.lastId) /\ DOMAIN rows \subseteq DOMAIN st.rows
      /\ lastId <= st.lastId /\ st.lastId \in Nat /\ st.new \subseteq (lastId + 1) .. st.lastId
  BY <1>1 DEF Taken, Stored
<1>3. rows' = Merged(st.rows) /\ lastId' = st.lastId
  BY DEF Commit
<1>4. RowsAreStored' /\ ChaptersAreDistinct'
  <2>1. PICK r, l : r = st.rows /\ l = st.lastId
    OBVIOUS
  <2>2. Stored(r, l) /\ ~Refused(r) /\ rows' = Merged(r) /\ lastId' = l
    BY <1>2, <1>3, <2>1
  <2>3. /\ Stored(rows', lastId')
        /\ \A i, j \in DOMAIN rows' : rows'[i].number = rows'[j].number => i = j
    BY <2>2, MergedIsStored
  <2> QED BY <2>3 DEF RowsAreStored, ChaptersAreDistinct, Stored
<1>5. DownloadsHaveChapter'
  <2>1. WithDownload \subseteq DOMAIN st.rows
    BY <1>2 DEF IInv, DownloadsHaveChapter
  <2>2. DOMAIN rows' = {Home(st.rows, j) : j \in DOMAIN st.rows}
    BY <1>3 DEF Merged
  <2>3. active' = MoveDownloads(st.rows, active) /\ settled' = MoveDownloads(st.rows, settled)
    BY DEF Commit
  <2>4. active' \subseteq DOMAIN rows' /\ settled' \subseteq DOMAIN rows'
    BY <2>1, <2>2, <2>3 DEF MoveDownloads, WithDownload
  <2> QED BY <2>4 DEF DownloadsHaveChapter, WithDownload
<1>6. syncs' = syncs + 1 /\ syncs' # 0 /\ syncs' \in Nat
  BY DEF Commit, IInv, Shapes
<1>7. first' \subseteq 1 .. lastId'
  <2>1. st.new \subseteq 1 .. st.lastId /\ 1 .. lastId \subseteq 1 .. st.lastId
    BY <1>1, <1>2
  <2> QED BY <1>3, <2>1 DEF Commit, IInv, FirstIsStored
<1>8. st.new \subseteq Nat
  BY <1>1, <1>2
<1>9. Shapes'
  BY <1>6, <1>8 DEF Commit, End, IInv, Shapes
<1>10. ASSUME NEW u \in Tasks, pc'[u] = "enqueue" PROVE newIds'[u] \cap first' = {}
  <2>1. CASE u = t
    <3>1. ~initial[t] /\ newIds'[t] = st.new
      BY <1>10, <2>1 DEF Commit, End, IInv, Shapes
    <3>2. syncs # 0
      BY <3>1 DEF IInv, FirstSyncIsInitial
    <3>3. first' = first
      BY <3>2 DEF Commit
    <3>4. first \subseteq 1 .. lastId
      BY DEF IInv, FirstIsStored
    <3> QED BY <1>1, <1>2, <2>1, <3>1, <3>3, <3>4
  <2>2. CASE u # t
    <3>1. pc[u] = "enqueue" /\ newIds'[u] = newIds[u]
      BY <1>10, <2>2 DEF Commit, End, IInv, Shapes
    <3>2. syncs # 0
      BY <3>1 DEF IInv, FirstSyncIsInitial
    <3> QED BY <3>1, <3>2 DEF Commit, IInv, BackCatalogueIsNotQueued
  <2> QED BY <2>1, <2>2
<1> QED BY <1>4, <1>5, <1>6, <1>7, <1>9, <1>10
        DEF IInv, FirstSyncIsInitial, FirstIsStored, BackCatalogueIsNotQueued

LEMMA NextIInv == IInv /\ [Next]_vars => IInv'
<1> SUFFICES ASSUME IInv, [Next]_vars PROVE IInv'
  OBVIOUS
<1> USE DEF dbVars, taskVars, historyVars
<1>1. ASSUME NEW t \in Tasks, Begin(t) PROVE IInv'
  <2>1. UNCHANGED <<rows, active, settled, lastId, syncs, first, newIds, initialized>>
    BY <1>1 DEF Begin
  <2>2. RowsAreStored' /\ ChaptersAreDistinct' /\ DownloadsHaveChapter'
    BY <2>1, SameRows DEF IInv, DownloadsHaveChapter, WithDownload
  <2>3. Shapes'
    BY <1>1, <2>1 DEF IInv, Shapes, Begin
  <2>4. FirstSyncIsInitial'
    <3>1. syncs = 0 => ~initialized
      BY DEF IInv, FirstSyncIsInitial
    <3>2. initial'[t] = ~initialized /\ pc'[t] = "fetch"
      BY <1>1, Zenon DEF Begin, IInv, Shapes
    <3>3. \A u \in Tasks : u # t => initial'[u] = initial[u] /\ pc'[u] = pc[u]
      BY <1>1 DEF Begin, IInv, Shapes
    <3> QED BY <2>1, <3>1, <3>2, <3>3, Zenon DEF IInv, FirstSyncIsInitial
  <2>5. FirstIsStored' /\ BackCatalogueIsNotQueued'
    BY <1>1, <2>1 DEF IInv, Shapes, FirstIsStored, BackCatalogueIsNotQueued, Begin
  <2> QED BY <2>2, <2>3, <2>4, <2>5 DEF IInv
<1>2. ASSUME NEW t \in Tasks, Sync(t) PROVE IInv'
  <2>1. PICK listing \in Listings :
          LET st == Applied(rows, lastId, listing)
          IN \/ ~Refused(st.rows) /\ Commit(t, st)
             \/ /\ Refused(st.rows)
                /\ End(t)
                /\ UNCHANGED <<rows, active, settled, lastId, historyVars>>
    BY <1>2 DEF Sync
  <2>2. pc[t] = "fetch" /\ UNCHANGED <<inLibrary, initialized>>
    BY <1>2 DEF Sync
  <2>3. CASE ~Refused(Applied(rows, lastId, listing).rows) /\ Commit(t, Applied(rows, lastId, listing))
    BY <2>2, <2>3, Commits
  <2>4. CASE End(t) /\ UNCHANGED <<rows, active, settled, lastId, historyVars>>
    <3>1. RowsAreStored' /\ ChaptersAreDistinct' /\ DownloadsHaveChapter'
      BY <2>4, SameRows DEF IInv, DownloadsHaveChapter, WithDownload
    <3>2. Shapes' /\ FirstSyncIsInitial' /\ FirstIsStored' /\ BackCatalogueIsNotQueued'
      BY <2>2, <2>4, Ends DEF IInv, FirstSyncIsInitial
    <3> QED BY <3>1, <3>2 DEF IInv
  <2> QED BY <2>1, <2>3, <2>4
<1>3. ASSUME NEW t \in Tasks, Baseline(t) PROVE IInv'
  <2>1. RowsAreStored' /\ ChaptersAreDistinct' /\ DownloadsHaveChapter'
    BY <1>3, Baselines DEF Baseline
  <2>2. Shapes' /\ FirstSyncIsInitial' /\ FirstIsStored' /\ BackCatalogueIsNotQueued'
    BY <1>3 DEF Baseline, IInv, Shapes, FirstSyncIsInitial, FirstIsStored, BackCatalogueIsNotQueued
  <2> QED BY <2>1, <2>2 DEF IInv
<1>4. ASSUME NEW t \in Tasks, Mark(t) PROVE IInv'
  <2>1. RowsAreStored' /\ ChaptersAreDistinct' /\ DownloadsHaveChapter'
    BY <1>4, SameRows DEF Mark, IInv, DownloadsHaveChapter, WithDownload
  <2>2. syncs # 0
    BY <1>4 DEF Mark, IInv, FirstSyncIsInitial
  <2>3. Shapes' /\ FirstSyncIsInitial' /\ FirstIsStored' /\ BackCatalogueIsNotQueued'
    BY <1>4, <2>2, Ends DEF Mark
  <2> QED BY <2>1, <2>3 DEF IInv
<1>5. ASSUME NEW t \in Tasks, Enqueue(t) PROVE IInv'
  <2>1. (WithDownload \subseteq DOMAIN rows)'
    BY <1>5 DEF Enqueue, IInv, DownloadsHaveChapter, WithDownload
  <2>2. RowsAreStored' /\ ChaptersAreDistinct' /\ DownloadsHaveChapter'
    BY <1>5, <2>1, SameRows DEF Enqueue
  <2>3. Shapes' /\ FirstSyncIsInitial' /\ FirstIsStored' /\ BackCatalogueIsNotQueued'
    BY <1>5, Ends DEF Enqueue, IInv, FirstSyncIsInitial
  <2> QED BY <2>2, <2>3 DEF IInv
<1>6. ASSUME NEW t \in Tasks, GiveUp(t) PROVE IInv'
  <2>1. PICK done : rows' = Baselined(done)
    BY <1>6 DEF GiveUp
  <2>2. RowsAreStored' /\ ChaptersAreDistinct' /\ DownloadsHaveChapter'
    BY <1>6, <2>1, Baselines DEF GiveUp
  <2>3. Shapes' /\ FirstSyncIsInitial' /\ FirstIsStored' /\ BackCatalogueIsNotQueued'
    BY <1>6, Ends DEF GiveUp, IInv, FirstSyncIsInitial
  <2> QED BY <2>2, <2>3 DEF IInv
<1>7. ASSUME NEW i \in DOMAIN rows, Download(i) \/ SettleDownload(i) \/ DeleteDownload(i)
      PROVE IInv'
  <2>1. (WithDownload \subseteq DOMAIN rows)' /\ UNCHANGED <<rows, lastId, initialized, taskVars, historyVars>>
    BY <1>7 DEF Download, SettleDownload, DeleteDownload, IInv, DownloadsHaveChapter, WithDownload
  <2>2. RowsAreStored' /\ ChaptersAreDistinct' /\ DownloadsHaveChapter'
    BY <2>1, SameRows
  <2>3. Shapes' /\ FirstSyncIsInitial' /\ FirstIsStored' /\ BackCatalogueIsNotQueued'
    BY <2>1 DEF IInv, Shapes, FirstSyncIsInitial, FirstIsStored, BackCatalogueIsNotQueued
  <2> QED BY <2>2, <2>3 DEF IInv
<1>8. ASSUME RemoveFromLibrary PROVE IInv'
  <2>1. rows' \in [{} -> Chapter] /\ DOMAIN rows' = {} /\ lastId' = lastId
    BY <1>8 DEF RemoveFromLibrary
  <2>2. RowsAreStored' /\ ChaptersAreDistinct'
    BY <2>1 DEF IInv, RowsAreStored, Stored, ChaptersAreDistinct
  <2>3. DownloadsHaveChapter'
    BY <1>8 DEF RemoveFromLibrary, DownloadsHaveChapter, WithDownload
  <2>4. Shapes' /\ FirstSyncIsInitial' /\ FirstIsStored' /\ BackCatalogueIsNotQueued'
    BY <1>8 DEF RemoveFromLibrary, IInv, Shapes, FirstSyncIsInitial, FirstIsStored,
                BackCatalogueIsNotQueued
  <2> QED BY <2>2, <2>3, <2>4 DEF IInv
<1>9. CASE UNCHANGED vars
  <2>1. UNCHANGED <<rows, active, settled, lastId, initialized, pc, initial, newIds, syncs, first>>
    BY <1>9 DEF vars
  <2>2. RowsAreStored' /\ ChaptersAreDistinct' /\ DownloadsHaveChapter'
    BY <2>1, SameRows DEF IInv, DownloadsHaveChapter, WithDownload
  <2>3. Shapes' /\ FirstSyncIsInitial' /\ FirstIsStored' /\ BackCatalogueIsNotQueued'
    BY <2>1 DEF IInv, Shapes, FirstSyncIsInitial, FirstIsStored, BackCatalogueIsNotQueued
  <2> QED BY <2>2, <2>3 DEF IInv
<1> QED BY <1>1, <1>2, <1>3, <1>4, <1>5, <1>6, <1>7, <1>8, <1>9 DEF Next, TaskStep

(* No chapter is stored twice, after any number of syncs of any listings:  *)
(* a row is matched by remote id before number, and what then shares a     *)
(* number is merged into the freshest row or refused (sync_chapters,       *)
(* reconcile_duplicate_chapters).                                          *)
THEOREM ChaptersStayDistinct == Spec => []ChaptersAreDistinct
<1>1. IInv => ChaptersAreDistinct
  BY DEF IInv
<1> QED BY <1>1, InitIInv, NextIInv, PTL DEF Spec

(* No download points at a row that a reconciliation merged away: each     *)
(* moves to the canonical row of its group, which stays.                   *)
THEOREM DownloadsKeepTheirChapter == Spec => []DownloadsHaveChapter
<1>1. IInv => DownloadsHaveChapter
  BY DEF IInv
<1> QED BY <1>1, InitIInv, NextIInv, PTL DEF Spec

(* What the first sync has stored is never queued by an update run: until  *)
(* a listing was committed every task in flight is an initial one, and     *)
(* later ones announce younger ids (check_manga_updates,                   *)
(* sync_local_library_chapters).                                           *)
THEOREM BackCatalogueIsLeftAlone == Spec => []BackCatalogueIsNotQueued
<1>1. IInv => BackCatalogueIsNotQueued
  BY DEF IInv
<1> QED BY <1>1, InitIInv, NextIInv, PTL DEF Spec

(* The action of SyncIsIdempotent.                                         *)
Repeats ==
    lastId' # lastId =>
         \A listing \in Listings :
            \/ Applied(rows', lastId', listing).new = {}
            \/ rows' # Merged(Applied(rows, lastId, listing).rows)

(* Applied again, a listing that was just committed creates no chapter:    *)
(* the rows follow it, and taking a chapter they follow keeps them so.     *)
THEOREM SyncsAreIdempotent == Spec => SyncIsIdempotent
<1>1. IInv /\ IInv' => Repeats
  <2> SUFFICES ASSUME IInv, IInv', NEW listing \in Listings,
                      rows' = Merged(Applied(rows, lastId, listing).rows)
               PROVE  Applied(rows', lastId', listing).new = {}
    BY DEF Repeats
  <2>1. Stored(rows, lastId) /\ Stored(rows', lastId')
    BY DEF IInv, RowsAreStored, Stored
  <2> QED BY <2>1, MergedIsKnown
<1>2. Init /\ [][Next]_vars => []IInv
  BY InitIInv, NextIInv, PTL
<1>3. Init /\ [][Next]_vars => [][Repeats]_vars
  BY <1>1, <1>2, PTL
<1> QED BY <1>3 DEF Spec, SyncIsIdempotent, Repeats
=============================================================================
