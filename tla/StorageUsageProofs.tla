------------------------- MODULE StorageUsageProofs -------------------------
(* Proofs about StorageUsage: that the count is exact whenever no scan and *)
(* no removal has missed a change, and that the cap is kept.               *)
EXTENDS StorageUsage, TLAPS, FiniteSetTheorems, WellFoundedInduction

-----------------------------------------------------------------------------
(* Sums over finite sets.                                                  *)

(* Total(w, S): the sum of the weights w of a finite set, as MapThenSumSet *)
(* takes it: g has the sums of the subsets.                                *)
Sums(g, w, S) ==
    g = [s \in SUBSET S |->
            IF s = {} THEN 0
            ELSE w[CHOOSE x \in s : TRUE] + g[s \ {CHOOSE x \in s : TRUE}]]
Total(w, S) == (CHOOSE g : Sums(g, w, S))[S]

LEMMA SmallestSet ==
    ASSUME NEW S, IsFiniteSet(S), NEW P \in SUBSET (SUBSET S), P # {}
    PROVE  \E s \in P : \A t \in SUBSET s : t \in P => t = s
<1>1. P \subseteq FiniteSubsetsOf(S)
  BY FS_Subset DEF FiniteSubsetsOf
<1>2. PICK s \in P : \A t \in P : ~(<<t, s>> \in StrictSubsetOrdering(S))
  BY <1>1, FS_StrictSubsetOrderingWellFounded, WFMin
<1>3. ASSUME NEW t \in SUBSET s, t \in P PROVE t = s
  BY <1>2, <1>3 DEF StrictSubsetOrdering
<1> QED BY <1>2, <1>3

LEMMA SumsAreUnique ==
    ASSUME NEW S, IsFiniteSet(S), NEW w, NEW g, NEW h, Sums(g, w, S), Sums(h, w, S)
    PROVE  g = h
<1> DEFINE P == {s \in SUBSET S : g[s] # h[s]}
<1>1. ASSUME NEW s \in P, \A t \in SUBSET s : t \in P => t = s PROVE FALSE
  <2> DEFINE x == CHOOSE x \in s : TRUE
  <2>1. s # {} /\ x \in s
    BY DEF Sums
  <2>2. s \ {x} \in SUBSET S /\ s \ {x} \notin P
    BY <1>1, <2>1
  <2>3. g[s] = w[x] + g[s \ {x}] /\ h[s] = w[x] + h[s \ {x}]
    BY <2>1 DEF Sums
  <2> QED BY <2>2, <2>3
<1>2. P \in SUBSET (SUBSET S)
  OBVIOUS
<1>3. P = {}
  <2> SUFFICES ASSUME P # {} PROVE FALSE
    OBVIOUS
  <2> HIDE DEF P
  <2>1. PICK s \in P : \A t \in SUBSET s : t \in P => t = s
    BY <1>2, SmallestSet
  <2> QED BY <1>1, <2>1
<1>4. \A s \in SUBSET S : g[s] = h[s]
  BY <1>3
<1>5. g = [s \in SUBSET S |-> g[s]] /\ h = [s \in SUBSET S |-> h[s]]
  BY DEF Sums
<1> QED BY <1>4, <1>5

LEMMA SumsOfFewer ==
    ASSUME NEW S, NEW T \in SUBSET S, NEW w, NEW g, Sums(g, w, S),
           NEW h, h = [s \in SUBSET T |-> g[s]]
    PROVE  Sums(h, w, T)
<1>1. ASSUME NEW s \in SUBSET T
      PROVE  g[s] = IF s = {} THEN 0
                    ELSE w[CHOOSE x \in s : TRUE] + h[s \ {CHOOSE x \in s : TRUE}]
  BY DEF Sums
<1> QED BY <1>1 DEF Sums

LEMMA SumsExist ==
    ASSUME NEW D, NEW w \in [D -> Nat], NEW S \in SUBSET D, IsFiniteSet(S)
    PROVE  \E g \in [SUBSET S -> Nat] : Sums(g, w, S)
<1> DEFINE P == {s \in SUBSET S : ~ \E g \in [SUBSET s -> Nat] : Sums(g, w, s)}
<1>1. ASSUME NEW s \in P, \A t \in SUBSET s : t \in P => t = s PROVE FALSE
  <2> DEFINE G(t) == CHOOSE g \in [SUBSET t -> Nat] : Sums(g, w, t)
             c(t) == CHOOSE x \in t : TRUE
             all == IF s = {} THEN 0 ELSE w[c(s)] + G(s \ {c(s)})[s \ {c(s)}]
             h == [t \in SUBSET s |-> IF t = s THEN all ELSE G(t)[t]]
  <2>1. ASSUME NEW t \in SUBSET s, t # s PROVE G(t) \in [SUBSET t -> Nat] /\ Sums(G(t), w, t)
    BY <1>1, <2>1
  <2>2. \A t \in SUBSET s : t # {} => c(t) \in t /\ w[c(t)] \in Nat
    OBVIOUS
  <2>3. \A t \in SUBSET s : t # {} => t \ {c(t)} # s /\ t \ {c(t)} \in SUBSET s
    BY <2>2
  <2>4. ASSUME NEW t \in SUBSET s, t # s, t # {}
        PROVE  G(t)[t] = w[c(t)] + G(t \ {c(t)})[t \ {c(t)}]
    <3> DEFINE u == t \ {c(t)}
               gt == G(t)
               gu == G(u)
    <3>1. u \in SUBSET t /\ u \in SUBSET s /\ u # s
      BY <2>2, <2>3, <2>4
    <3>2. Sums(gu, w, u) /\ Sums(gt, w, t)
      BY <2>1, <2>4, <3>1
    <3> HIDE DEF gt, gu
    <3>3. IsFiniteSet(u)
      BY <3>1, FS_Subset
    <3>4. gt[t] = w[c(t)] + gt[u]
      BY <2>4, <3>2 DEF Sums
    <3> HIDE DEF u
    <3> DEFINE less == [r \in SUBSET u |-> gt[r]]
    <3>6. less = [r \in SUBSET u |-> gt[r]] /\ less[u] = gt[u]
      OBVIOUS
    <3> HIDE DEF less
    <3>5. Sums(less, w, u)
      BY <3>1, <3>2, <3>6, SumsOfFewer
    <3>7. less = gu
      BY <3>2, <3>3, <3>5, SumsAreUnique
    <3> QED BY <3>4, <3>6, <3>7 DEF u, gt, gu
  <2>8. ASSUME NEW t \in SUBSET s, t = {}, t # s PROVE G(t)[t] = 0
    <3>1. Sums(G(t), w, t)
      BY <2>1, <2>8
    <3> HIDE DEF G
    <3> QED BY <2>8, <3>1 DEF Sums
  <2> HIDE DEF G
  <2>5. ASSUME NEW t \in SUBSET s, t # s PROVE G(t)[t] \in Nat
    <3>1. G(t) \in [SUBSET t -> Nat] /\ t \in SUBSET t
      BY <2>1, <2>5
    <3> QED BY <3>1
  <2>6. all \in Nat
    BY <2>2, <2>3, <2>5
  <2>7. h \in [SUBSET s -> Nat]
    BY <2>5, <2>6
  <2>9. ASSUME NEW t \in SUBSET s
        PROVE  h[t] = IF t = {} THEN 0 ELSE w[c(t)] + h[t \ {c(t)}]
    <3>1. CASE t = s
      BY <2>3, <3>1
    <3>2. CASE t # s
      BY <2>3, <2>4, <2>8, <3>2
    <3> QED BY <3>1, <3>2
  <2>10. h = [t \in SUBSET s |-> h[t]]
    BY <2>7
  <2> HIDE DEF h
  <2>11. h = [t \in SUBSET s |-> IF t = {} THEN 0 ELSE w[c(t)] + h[t \ {c(t)}]]
    BY <2>9, <2>10
  <2>12. Sums(h, w, s)
    BY <2>11 DEF Sums
  <2> QED BY <2>7, <2>12
<1>2. P \in SUBSET (SUBSET S)
  OBVIOUS
<1>3. P = {}
  <2> SUFFICES ASSUME P # {} PROVE FALSE
    OBVIOUS
  <2> HIDE DEF P
  <2>1. PICK s \in P : \A t \in SUBSET s : t \in P => t = s
    BY <1>2, SmallestSet
  <2> QED BY <1>1, <2>1
<1> QED BY <1>3

LEMMA TotalIs ==
    ASSUME NEW D, NEW w \in [D -> Nat], NEW S \in SUBSET D, IsFiniteSet(S),
           NEW g, Sums(g, w, S)
    PROVE  Total(w, S) = g[S] /\ Total(w, S) \in Nat
<1>1. PICK h \in [SUBSET S -> Nat] : Sums(h, w, S)
  BY SumsExist
<1>2. Sums(CHOOSE k : Sums(k, w, S), w, S)
  BY <1>1
<1>3. (CHOOSE k : Sums(k, w, S)) = g /\ h = g
  BY <1>1, <1>2, SumsAreUnique
<1> QED BY <1>1, <1>3 DEF Total

LEMMA TotalOfNone == ASSUME NEW D, NEW w \in [D -> Nat] PROVE Total(w, {}) = 0
<1>1. PICK g : Sums(g, w, {})
  BY SumsExist, FS_EmptySet
<1>2. Total(w, {}) = g[{}]
  BY <1>1, TotalIs, FS_EmptySet
<1>3. g[{}] = 0
  BY <1>1 DEF Sums
<1> QED BY <1>2, <1>3

LEMMA TotalChosen ==
    ASSUME NEW D, NEW w \in [D -> Nat], NEW S \in SUBSET D, IsFiniteSet(S), S # {}
    PROVE  LET x == CHOOSE x \in S : TRUE IN
           /\ x \in S /\ w[x] \in Nat /\ Total(w, S \ {x}) \in Nat
           /\ Total(w, S) = w[x] + Total(w, S \ {x})
<1> DEFINE x == CHOOSE x \in S : TRUE
           T == S \ {x}
<1>1. x \in S /\ w[x] \in Nat /\ T \in SUBSET S /\ T \in SUBSET D /\ IsFiniteSet(T)
  BY FS_Subset
<1>2. PICK g \in [SUBSET S -> Nat] : Sums(g, w, S)
  BY SumsExist
<1>3. g[S] = w[x] + g[T]
  BY <1>2 DEF Sums
<1> HIDE DEF T, x
<1> DEFINE h == [t \in SUBSET T |-> g[t]]
<1>7. h = [t \in SUBSET T |-> g[t]] /\ h[T] = g[T]
  OBVIOUS
<1> HIDE DEF h
<1>4. Sums(h, w, T) /\ h[T] = g[T]
  BY <1>1, <1>2, <1>7, SumsOfFewer
<1>5. Total(w, T) = g[T] /\ Total(w, T) \in Nat
  BY <1>1, <1>4, TotalIs
<1>6. Total(w, S) = g[S]
  BY <1>2, TotalIs
<1> QED BY <1>1, <1>3, <1>5, <1>6 DEF T, x

LEMMA TotalIsNat ==
    ASSUME NEW D, NEW w \in [D -> Nat], NEW S \in SUBSET D, IsFiniteSet(S)
    PROVE  Total(w, S) \in Nat
<1>1. PICK g \in [SUBSET S -> Nat] : Sums(g, w, S)
  BY SumsExist
<1> QED BY <1>1, TotalIs

(* The order does not matter.                                              *)
LEMMA TotalWithout ==
    ASSUME NEW D, NEW w \in [D -> Nat], NEW S \in SUBSET D, IsFiniteSet(S), NEW y \in S
    PROVE  Total(w, S) = w[y] + Total(w, S \ {y})
<1> DEFINE P == {s \in SUBSET S : \E z \in s : Total(w, s) # w[z] + Total(w, s \ {z})}
<1>1. ASSUME NEW s \in P, \A t \in SUBSET s : t \in P => t = s PROVE FALSE
  <2>1. PICK z \in s : Total(w, s) # w[z] + Total(w, s \ {z})
    OBVIOUS
  <2> DEFINE x == CHOOSE x \in s : TRUE
  <2>2. s \in SUBSET D /\ IsFiniteSet(s) /\ s # {}
    BY FS_Subset
  <2>3. /\ x \in s /\ w[x] \in Nat /\ w[z] \in Nat
        /\ Total(w, s) = w[x] + Total(w, s \ {x})
    BY <2>2, TotalChosen
  <2> HIDE DEF x
  <2>4. x # z
    BY <2>1, <2>3
  <2> DEFINE rest == s \ {x, z}
  <2>5. s \ {x} \notin P /\ z \in s \ {x} /\ (s \ {x}) \ {z} = rest
    BY <1>1, <2>3, <2>4
  <2>6. s \ {z} \notin P /\ x \in s \ {z} /\ (s \ {z}) \ {x} = rest
    BY <1>1, <2>3, <2>4
  <2>7. Total(w, s \ {x}) = w[z] + Total(w, rest)
    BY <2>5
  <2>8. Total(w, s \ {z}) = w[x] + Total(w, rest)
    BY <2>6
  <2>9. Total(w, rest) \in Nat
    BY <2>2, TotalIsNat, FS_Subset
  <2> QED BY <2>1, <2>3, <2>7, <2>8, <2>9
<1>2. P \in SUBSET (SUBSET S)
  OBVIOUS
<1>3. P = {}
  <2> SUFFICES ASSUME P # {} PROVE FALSE
    OBVIOUS
  <2> HIDE DEF P
  <2>1. PICK s \in P : \A t \in SUBSET s : t \in P => t = s
    BY <1>2, SmallestSet
  <2> QED BY <1>1, <2>1
<1> QED BY <1>3

(* Only the weights of the members count.                                  *)
LEMMA TotalOfEqual ==
    ASSUME NEW D, NEW v \in [D -> Nat], NEW w \in [D -> Nat], NEW S \in SUBSET D, IsFiniteSet(S),
           \A x \in S : v[x] = w[x]
    PROVE  Total(v, S) = Total(w, S)
<1> DEFINE P == {s \in SUBSET S : Total(v, s) # Total(w, s)}
<1>1. ASSUME NEW s \in P, \A t \in SUBSET s : t \in P => t = s PROVE FALSE
  <2> DEFINE x == CHOOSE x \in s : TRUE
  <2>1. s \in SUBSET D /\ IsFiniteSet(s)
    BY FS_Subset
  <2>2. s # {}
    BY TotalOfNone
  <2>3. /\ x \in s /\ Total(v, s) = v[x] + Total(v, s \ {x})
        /\ Total(w, s) = w[x] + Total(w, s \ {x})
    BY <2>1, <2>2, TotalChosen
  <2> HIDE DEF x
  <2>4. s \ {x} \notin P /\ s \ {x} \in SUBSET S
    BY <1>1, <2>3
  <2> QED BY <2>3, <2>4
<1>2. P \in SUBSET (SUBSET S)
  OBVIOUS
<1>3. P = {}
  <2> SUFFICES ASSUME P # {} PROVE FALSE
    OBVIOUS
  <2> HIDE DEF P
  <2>1. PICK s \in P : \A t \in SUBSET s : t \in P => t = s
    BY <1>2, SmallestSet
  <2> QED BY <1>1, <2>1
<1> QED BY <1>3

(* One weight changes.                                                     *)
LEMMA TotalChanges ==
    ASSUME NEW D, NEW v \in [D -> Nat], NEW w \in [D -> Nat], IsFiniteSet(D), NEW y \in D,
           \A x \in D \ {y} : v[x] = w[x]
    PROVE  Total(v, D) + w[y] = Total(w, D) + v[y]
<1>1. D \ {y} \in SUBSET D /\ IsFiniteSet(D \ {y}) /\ D \in SUBSET D
  BY FS_Subset
<1>2. Total(v, D \ {y}) = Total(w, D \ {y})
  BY <1>1, TotalOfEqual
<1>3. Total(v, D) = v[y] + Total(v, D \ {y}) /\ Total(w, D) = w[y] + Total(w, D \ {y})
  BY <1>1, TotalWithout
<1>4. Total(v, D \ {y}) \in Nat /\ v[y] \in Nat /\ w[y] \in Nat
  BY <1>1, TotalIsNat
<1> QED BY <1>2, <1>3, <1>4

LEMMA TotalOfZeros ==
    ASSUME NEW D, NEW w \in [D -> Nat], IsFiniteSet(D), \A x \in D : w[x] = 0
    PROVE  Total(w, D) = 0
<1> DEFINE P == {s \in SUBSET D : Total(w, s) # 0}
<1>1. ASSUME NEW s \in P, \A t \in SUBSET s : t \in P => t = s PROVE FALSE
  <2> DEFINE x == CHOOSE x \in s : TRUE
  <2>1. IsFiniteSet(s) /\ s # {}
    BY FS_Subset, TotalOfNone
  <2>2. x \in s /\ Total(w, s) = w[x] + Total(w, s \ {x})
    BY <2>1, TotalChosen
  <2> HIDE DEF x
  <2>3. s \ {x} \notin P /\ s \ {x} \in SUBSET D
    BY <1>1, <2>2
  <2> QED BY <2>2, <2>3
<1>2. P \in SUBSET (SUBSET D)
  OBVIOUS
<1>3. P = {}
  <2> SUFFICES ASSUME P # {} PROVE FALSE
    OBVIOUS
  <2> HIDE DEF P
  <2>1. PICK s \in P : \A t \in SUBSET s : t \in P => t = s
    BY <1>2, SmallestSet
  <2> QED BY <1>1, <2>1
<1> QED BY <1>3

-----------------------------------------------------------------------------
(* The invariant.                                                          *)

File == [size : Nat, hash : Nat]
Usage == [known : BOOLEAN, bytes : Nat, fresh : BOOLEAN, scanning : BOOLEAN]
Steps == {"idle", "build", "reserved", "published", "undo", "refresh", "rescan", "forget",
          "upscale", "appended", "grow"}
Task == [pc : Steps, chapter : Chapters \cup {None}, id : Nat, add : Nat, old : Nat, hash : Nat]
Scan == [pc : {"idle", "scan"}, left : SUBSET Chapters, sum : Nat, clean : BOOLEAN]

Shapes ==
    /\ disk \in [Chapters -> File] /\ usage \in Usage
    /\ task \in [Tasks -> Task] /\ scan \in [Scans -> Scan]
    /\ ops \in Nat /\ exact \in BOOLEAN

AtChapter == Steps \ {"idle", "refresh", "rescan"}

(* Where an operation is, and what it knows of the size of its archive as  *)
(* long as nobody has missed a change.                                     *)
Placed(t) == task[t].pc \in AtChapter => task[t].chapter \in Chapters

Sized(t) ==
    /\ task[t].pc = "reserved" => task[t].add > 0
    /\ task[t].pc = "reserved" /\ exact => disk[task[t].chapter].size = task[t].old
    /\ task[t].pc = "grow" /\ exact => task[t].add = Growth

Operations == \A t \in Tasks : Placed(t) /\ Sized(t)

DiskWeights == [c \in Chapters |-> disk[c].size]
AheadWeights == [t \in Tasks |-> Ahead(t)]
BehindWeights == [t \in Tasks |-> Behind(t)]

(* A scan that nothing has come between has the sum of what it has seen.   *)
CleanScans ==
    \A s \in Scans : scan[s].pc = "scan" /\ scan[s].clean =>
        Settled /\ scan[s].sum + Total(DiskWeights, scan[s].left) = DiskBytes

UsageInv == Shapes /\ Operations /\ CleanScans /\ CountIsExact

-----------------------------------------------------------------------------
(* The sums of the model.                                                  *)

LEMMA WeightsAreNats ==
    Shapes => /\ DiskWeights \in [Chapters -> Nat]
              /\ AheadWeights \in [Tasks -> Nat] /\ BehindWeights \in [Tasks -> Nat]
BY SomeBytes DEF Shapes, File, Task, DiskWeights, AheadWeights, BehindWeights, Ahead, Behind

LEMMA DiskBytesAre ==
    Shapes => DiskBytes = Total(DiskWeights, Chapters) /\ DiskBytes \in Nat
<1> SUFFICES ASSUME Shapes PROVE DiskBytes = Total(DiskWeights, Chapters) /\ DiskBytes \in Nat
  OBVIOUS
<1> DEFINE Is(g) == g = [s \in SUBSET Chapters |->
               IF s = {} THEN 0
               ELSE disk[CHOOSE x \in s : TRUE].size + g[s \ {CHOOSE x \in s : TRUE}]]
<1>0. DiskWeights \in [Chapters -> Nat] /\ IsFiniteSet(Chapters)
  BY WeightsAreNats, SomeBytes
<1>1. DiskBytes = (CHOOSE g : Is(g))[Chapters]
  BY Zenon DEF DiskBytes, MapThenSumSet, MapThenFoldSet
<1>2. ASSUME NEW g, NEW s \in SUBSET Chapters
      PROVE  (IF s = {} THEN 0
              ELSE disk[CHOOSE x \in s : TRUE].size + g[s \ {CHOOSE x \in s : TRUE}])
           = (IF s = {} THEN 0
              ELSE DiskWeights[CHOOSE x \in s : TRUE] + g[s \ {CHOOSE x \in s : TRUE}])
  BY DEF DiskWeights
<1>3. ASSUME NEW g PROVE Is(g) <=> Sums(g, DiskWeights, Chapters)
  <2>1. [s \in SUBSET Chapters |->
           IF s = {} THEN 0
           ELSE disk[CHOOSE x \in s : TRUE].size + g[s \ {CHOOSE x \in s : TRUE}]]
      = [s \in SUBSET Chapters |->
           IF s = {} THEN 0
           ELSE DiskWeights[CHOOSE x \in s : TRUE] + g[s \ {CHOOSE x \in s : TRUE}]]
    BY <1>2
  <2> QED BY <2>1 DEF Sums
<1>4. PICK g : Sums(g, DiskWeights, Chapters)
  BY <1>0, SumsExist
<1> HIDE DEF Is
<1>5. Is(CHOOSE h : Is(h))
  BY <1>3, <1>4
<1>6. Sums(CHOOSE h : Is(h), DiskWeights, Chapters)
  BY <1>3, <1>5
<1> QED BY <1>0, <1>1, <1>6, TotalIs

LEMMA AheadBytesAre ==
    Shapes => AheadBytes = Total(AheadWeights, Tasks) /\ AheadBytes \in Nat
<1> SUFFICES ASSUME Shapes PROVE AheadBytes = Total(AheadWeights, Tasks) /\ AheadBytes \in Nat
  OBVIOUS
<1> DEFINE Is(g) == g = [s \in SUBSET Tasks |->
               IF s = {} THEN 0
               ELSE Ahead(CHOOSE x \in s : TRUE) + g[s \ {CHOOSE x \in s : TRUE}]]
<1>0. AheadWeights \in [Tasks -> Nat] /\ IsFiniteSet(Tasks)
  BY WeightsAreNats, SomeBytes
<1>1. AheadBytes = (CHOOSE g : Is(g))[Tasks]
  BY Zenon DEF AheadBytes, MapThenSumSet, MapThenFoldSet
<1>2. ASSUME NEW g, NEW s \in SUBSET Tasks
      PROVE  (IF s = {} THEN 0
              ELSE Ahead(CHOOSE x \in s : TRUE) + g[s \ {CHOOSE x \in s : TRUE}])
           = (IF s = {} THEN 0
              ELSE AheadWeights[CHOOSE x \in s : TRUE] + g[s \ {CHOOSE x \in s : TRUE}])
  BY DEF AheadWeights
<1>3. ASSUME NEW g PROVE Is(g) <=> Sums(g, AheadWeights, Tasks)
  <2>1. [s \in SUBSET Tasks |->
           IF s = {} THEN 0
           ELSE Ahead(CHOOSE x \in s : TRUE) + g[s \ {CHOOSE x \in s : TRUE}]]
      = [s \in SUBSET Tasks |->
           IF s = {} THEN 0
           ELSE AheadWeights[CHOOSE x \in s : TRUE] + g[s \ {CHOOSE x \in s : TRUE}]]
    BY <1>2
  <2> QED BY <2>1 DEF Sums
<1>4. PICK g : Sums(g, AheadWeights, Tasks)
  BY <1>0, SumsExist
<1> HIDE DEF Is
<1>5. Is(CHOOSE h : Is(h))
  BY <1>3, <1>4
<1>6. Sums(CHOOSE h : Is(h), AheadWeights, Tasks)
  BY <1>3, <1>5
<1> QED BY <1>0, <1>1, <1>6, TotalIs

LEMMA BehindBytesAre ==
    Shapes => BehindBytes = Total(BehindWeights, Tasks) /\ BehindBytes \in Nat
<1> SUFFICES ASSUME Shapes PROVE BehindBytes = Total(BehindWeights, Tasks) /\ BehindBytes \in Nat
  OBVIOUS
<1> DEFINE Is(g) == g = [s \in SUBSET Tasks |->
               IF s = {} THEN 0
               ELSE Behind(CHOOSE x \in s : TRUE) + g[s \ {CHOOSE x \in s : TRUE}]]
<1>0. BehindWeights \in [Tasks -> Nat] /\ IsFiniteSet(Tasks)
  BY WeightsAreNats, SomeBytes
<1>1. BehindBytes = (CHOOSE g : Is(g))[Tasks]
  BY Zenon DEF BehindBytes, MapThenSumSet, MapThenFoldSet
<1>2. ASSUME NEW g, NEW s \in SUBSET Tasks
      PROVE  (IF s = {} THEN 0
              ELSE Behind(CHOOSE x \in s : TRUE) + g[s \ {CHOOSE x \in s : TRUE}])
           = (IF s = {} THEN 0
              ELSE BehindWeights[CHOOSE x \in s : TRUE] + g[s \ {CHOOSE x \in s : TRUE}])
  BY DEF BehindWeights
<1>3. ASSUME NEW g PROVE Is(g) <=> Sums(g, BehindWeights, Tasks)
  <2>1. [s \in SUBSET Tasks |->
           IF s = {} THEN 0
           ELSE Behind(CHOOSE x \in s : TRUE) + g[s \ {CHOOSE x \in s : TRUE}]]
      = [s \in SUBSET Tasks |->
           IF s = {} THEN 0
           ELSE BehindWeights[CHOOSE x \in s : TRUE] + g[s \ {CHOOSE x \in s : TRUE}]]
    BY <1>2
  <2> QED BY <2>1 DEF Sums
<1>4. PICK g : Sums(g, BehindWeights, Tasks)
  BY <1>0, SumsExist
<1> HIDE DEF Is
<1>5. Is(CHOOSE h : Is(h))
  BY <1>3, <1>4
<1>6. Sums(CHOOSE h : Is(h), BehindWeights, Tasks)
  BY <1>3, <1>5
<1> QED BY <1>0, <1>1, <1>6, TotalIs

(* A step of one operation changes the sums by its own terms.              *)
LEMMA OneTaskChanges ==
    ASSUME Shapes, Shapes', NEW t \in Tasks, \A u \in Tasks \ {t} : task'[u] = task[u]
    PROVE  /\ AheadBytes' + Ahead(t) = AheadBytes + Ahead(t)'
           /\ BehindBytes' + Behind(t) = BehindBytes + Behind(t)'
<1>1. (Shapes => AheadBytes = Total(AheadWeights, Tasks))'
  BY AheadBytesAre, PTL
<1>2. (Shapes => BehindBytes = Total(BehindWeights, Tasks))'
  BY BehindBytesAre, PTL
<1>3. (Shapes => AheadWeights \in [Tasks -> Nat] /\ BehindWeights \in [Tasks -> Nat])'
  BY WeightsAreNats, PTL
<1>4. /\ AheadWeights \in [Tasks -> Nat] /\ BehindWeights \in [Tasks -> Nat]
      /\ AheadBytes = Total(AheadWeights, Tasks) /\ BehindBytes = Total(BehindWeights, Tasks)
  BY AheadBytesAre, BehindBytesAre, WeightsAreNats
<1>5. \A u \in Tasks \ {t} :
        AheadWeights'[u] = AheadWeights[u] /\ BehindWeights'[u] = BehindWeights[u]
  BY DEF AheadWeights, BehindWeights, Ahead, Behind
<1>6. /\ AheadWeights[t] = Ahead(t) /\ BehindWeights[t] = Behind(t)
      /\ AheadWeights'[t] = Ahead(t)' /\ BehindWeights'[t] = Behind(t)'
  BY DEF AheadWeights, BehindWeights
<1>7. /\ Total(AheadWeights', Tasks) + AheadWeights[t]
           = Total(AheadWeights, Tasks) + AheadWeights'[t]
      /\ Total(BehindWeights', Tasks) + BehindWeights[t]
           = Total(BehindWeights, Tasks) + BehindWeights'[t]
  BY <1>3, <1>4, <1>5, SomeBytes, TotalChanges
<1> QED BY <1>1, <1>2, <1>4, <1>6, <1>7

LEMMA OneFileChanges ==
    ASSUME Shapes, Shapes', NEW c \in Chapters, \A d \in Chapters \ {c} : disk'[d] = disk[d]
    PROVE  DiskBytes' + disk[c].size = DiskBytes + disk'[c].size
<1>1. (Shapes => DiskBytes = Total(DiskWeights, Chapters))'
  BY DiskBytesAre, PTL
<1>2. (Shapes => DiskWeights \in [Chapters -> Nat])'
  BY WeightsAreNats, PTL
<1>3. DiskWeights \in [Chapters -> Nat] /\ DiskBytes = Total(DiskWeights, Chapters)
  BY DiskBytesAre, WeightsAreNats
<1>4. /\ \A d \in Chapters \ {c} : DiskWeights'[d] = DiskWeights[d]
      /\ DiskWeights[c] = disk[c].size /\ DiskWeights'[c] = disk'[c].size
  BY DEF DiskWeights
<1>5. Total(DiskWeights', Chapters) + DiskWeights[c]
        = Total(DiskWeights, Chapters) + DiskWeights'[c]
  BY <1>2, <1>3, <1>4, SomeBytes, TotalChanges
<1> QED BY <1>1, <1>3, <1>4, <1>5

LEMMA SameBytes ==
    /\ UNCHANGED disk => UNCHANGED DiskBytes /\ UNCHANGED DiskWeights
    /\ UNCHANGED task => UNCHANGED <<AheadBytes, BehindBytes, Settled>>
<1>1. UNCHANGED disk => UNCHANGED DiskBytes /\ UNCHANGED DiskWeights
  BY DEF DiskBytes, DiskWeights, MapThenSumSet, MapThenFoldSet
<1>2. UNCHANGED task => UNCHANGED AheadBytes
  BY DEF AheadBytes, MapThenSumSet, MapThenFoldSet, Ahead
<1>3. UNCHANGED task => UNCHANGED BehindBytes
  BY DEF BehindBytes, MapThenSumSet, MapThenFoldSet, Behind
<1>4. UNCHANGED task => UNCHANGED Settled
  BY DEF Settled, Ahead, Behind
<1> QED BY <1>1, <1>2, <1>3, <1>4

LEMMA SettledBytes ==
    ASSUME Shapes, Settled
    PROVE  AheadBytes = 0 /\ BehindBytes = 0
<1>1. /\ \A t \in Tasks : AheadWeights[t] = 0 /\ BehindWeights[t] = 0
  BY DEF Settled, AheadWeights, BehindWeights
<1> QED BY <1>1, SomeBytes, AheadBytesAre, BehindBytesAre, WeightsAreNats, TotalOfZeros

-----------------------------------------------------------------------------
(* What a step leaves of the invariant to be shown.                        *)

LEMMA SettledRests ==
    ASSUME Shapes, Operations, Settled, NEW t \in Tasks
    PROVE  task[t].pc \notin {"reserved", "appended", "grow"}
BY SomeBytes DEF Operations, Sized, Settled, Ahead, Behind, Shapes, Task

LEMMA OthersStay ==
    ASSUME Shapes, Operations, Shapes', NEW t \in Tasks, \A u \in Tasks \ {t} : task'[u] = task[u],
           exact' => exact \/ Settled,
           \A c \in Chapters : \/ disk'[c] = disk[c]
                               \/ exact' => ~Reserved(t, c),
           Placed(t)', Sized(t)'
    PROVE  Operations'
<1>1. ASSUME NEW u \in Tasks, u # t PROVE Placed(u)' /\ Sized(u)'
  <2>1. task'[u] = task[u] /\ Placed(u) /\ Sized(u) /\ task[u] \in Task
    BY <1>1 DEF Operations, Shapes
  <2>2. Placed(u)'
    BY <2>1 DEF Placed
  <2>3. task[u].pc \in {"reserved", "grow"} /\ exact' => exact
    BY SettledRests
  <2>4. task[u].pc = "reserved" => task[u].chapter \in Chapters
    BY <2>1 DEF Placed, AtChapter, Steps
  <2>5. task[u].pc = "reserved" /\ exact' => disk'[task[u].chapter].size = task[u].old
    <3> SUFFICES ASSUME task[u].pc = "reserved", exact'
                 PROVE  disk'[task[u].chapter].size = task[u].old
      OBVIOUS
    <3>1. disk[task[u].chapter].size = task[u].old
      BY <2>1, <2>3 DEF Sized
    <3>2. Reserved(t, task[u].chapter)
      BY <1>1 DEF Reserved
    <3> QED BY <2>4, <3>1, <3>2
  <2>6. Sized(u)'
    BY <2>1, <2>3, <2>5 DEF Sized
  <2> QED BY <2>2, <2>6
<1> QED BY <1>1 DEF Operations

(* An operation moves on and changes no file.                              *)
LEMMA MovesOn ==
    ASSUME Shapes, Operations, Shapes', NEW t \in Tasks, NEW to \in Task,
           task' = [task EXCEPT ![t] = to], UNCHANGED disk, exact' => exact \/ Settled,
           to.pc \in AtChapter => to.chapter \in Chapters, Sized(t)'
    PROVE  Operations'
<1>1. task'[t] = to /\ \A u \in Tasks \ {t} : task'[u] = task[u]
  BY DEF Shapes
<1>2. Placed(t)'
  BY <1>1 DEF Placed
<1> QED BY <1>1, <1>2, OthersStay

(* An operation rests, or has only the count to refresh.                   *)
LEMMA IsOver ==
    ASSUME Shapes, Operations, Shapes', NEW t \in Tasks, NEW pc \in {"idle", "refresh"},
           task' = [task EXCEPT ![t] = [Resting EXCEPT !.pc = pc]],
           UNCHANGED disk, exact' => exact \/ Settled
    PROVE  Operations'
<1> DEFINE to == [Resting EXCEPT !.pc = pc]
<1>1. to \in Task /\ to.pc = pc
  BY DEF Resting, Task, Steps
<1>2. task'[t] = to
  BY DEF Shapes
<1>3. Sized(t)'
  BY <1>1, <1>2 DEF Sized
<1> HIDE DEF to
<1>4. task' = [task EXCEPT ![t] = to]
  BY DEF to
<1> QED BY <1>1, <1>3, <1>4, MovesOn DEF AtChapter

(* An operation begins.                                                    *)
LEMMA Begins ==
    ASSUME Shapes, Operations, Shapes', NEW t \in Tasks, NEW to \in Task,
           task' = [task EXCEPT ![t] = to], UNCHANGED disk, exact' => exact \/ Settled,
           to.chapter \in Chapters, to.pc \in {"build", "upscale"}
    PROVE  Operations'
<1>1. task'[t] = to
  BY DEF Shapes
<1>2. Sized(t)'
  BY <1>1 DEF Sized
<1> QED BY <1>2, MovesOn

-----------------------------------------------------------------------------
(* The count and the scans.                                                *)

NatBytes ==
    /\ DiskBytes \in Nat /\ AheadBytes \in Nat /\ BehindBytes \in Nat
    /\ \A t \in Tasks : Ahead(t) \in Nat /\ Behind(t) \in Nat

LEMMA BytesAreNats == Shapes => NatBytes
<1>1. Shapes => \A t \in Tasks : Ahead(t) \in Nat /\ Behind(t) \in Nat
  BY SomeBytes DEF Shapes, Task, Ahead, Behind
<1> QED BY <1>1, DiskBytesAre, AheadBytesAre, BehindBytesAre DEF NatBytes

LEMMA CountedIs ==
    ASSUME Shapes, NEW add \in Nat, NEW less \in Nat
    PROVE  /\ Counted(add, less) \in Usage /\ Counted(add, less).known = usage.known
           /\ usage.known /\ ~Loses(add, less) =>
                 Counted(add, less).bytes + less = usage.bytes + add
<1>1. usage \in Usage /\ usage.bytes \in Nat
  BY DEF Shapes, Usage
<1>2. CASE ~usage.known
  BY <1>1, <1>2 DEF Counted
<1>3. CASE usage.known
  <2> DEFINE n == IF add >= less THEN usage.bytes + (add - less)
                  ELSE Saturating(usage.bytes, less - add)
  <2>1. Counted(add, less) = [usage EXCEPT !.bytes = n, !.fresh = TRUE]
    BY <1>3 DEF Counted
  <2>2. n \in Nat /\ (~Loses(add, less) => n + less = usage.bytes + add)
    <3>1. CASE add >= less
      BY <1>1, <3>1
    <3>2. CASE ~(add >= less)
      BY <1>1, <1>3, <3>2 DEF Saturating, Loses
    <3> QED BY <3>1, <3>2
  <2> HIDE DEF n
  <2> QED BY <1>1, <1>3, <2>1, <2>2 DEF Usage
<1> QED BY <1>2, <1>3

LEMMA RefreshedIs ==
    ASSUME UsageInv
    PROVE  /\ Refreshed \in Usage /\ Refreshed.known /\ ExactWhenRefreshed \in BOOLEAN
           /\ ExactWhenRefreshed =>
                /\ exact \/ Settled
                /\ Refreshed.bytes + BehindBytes = DiskBytes + AheadBytes
<1> USE DEF UsageInv
<1>1. usage \in Usage /\ exact \in BOOLEAN /\ DiskBytes \in Nat
  BY BytesAreNats DEF Shapes, NatBytes
<1>2. CASE ShouldRefresh
  <2>1. Refreshed = Scanned /\ Scanned \in Usage /\ Scanned.known /\ Scanned.bytes = DiskBytes
    BY <1>1, <1>2 DEF Refreshed, Scanned, Usage
  <2>2. ExactWhenRefreshed = Settled /\ Settled \in BOOLEAN
    BY <1>2 DEF ExactWhenRefreshed, Settled
  <2> QED BY <1>1, <2>1, <2>2, SettledBytes
<1>3. CASE ~ShouldRefresh
  BY <1>1, <1>3 DEF Refreshed, ExactWhenRefreshed, ShouldRefresh, CountIsExact
<1> QED BY <1>2, <1>3

(* The balance of the count after a step of one operation.                 *)
LEMMA Balances ==
    ASSUME NEW b \in Nat, NEW now \in Nat, NEW there \in Nat,
           NEW ahead \in Nat, NEW behind \in Nat, NEW ahead2 \in Nat, NEW behind2 \in Nat,
           NEW x \in Nat, NEW y \in Nat, NEW x2 \in Nat, NEW y2 \in Nat,
           ahead2 + x = ahead + x2, behind2 + y = behind + y2,
           b + behind = there + ahead, now + x + y2 = b + x2 + y
    PROVE  now + behind2 = there + ahead2
OBVIOUS

LEMMA CountGoes ==
    ASSUME Shapes, Shapes', NEW t \in Tasks, \A u \in Tasks \ {t} : task'[u] = task[u],
           UNCHANGED disk, NEW b \in Nat,
           usage'.known /\ exact' =>
              /\ b + BehindBytes = DiskBytes + AheadBytes
              /\ usage'.bytes + Ahead(t) + Behind(t)' = b + Ahead(t)' + Behind(t)
    PROVE  CountIsExact'
<1>1. (Shapes => NatBytes)'
  BY BytesAreNats, PTL
<1>2. /\ AheadBytes' + Ahead(t) = AheadBytes + Ahead(t)'
      /\ BehindBytes' + Behind(t) = BehindBytes + Behind(t)'
  BY OneTaskChanges
<1>3. DiskBytes' = DiskBytes
  BY SameBytes
<1>4. usage'.bytes \in Nat
  BY DEF Shapes, Usage
<1>5. /\ DiskBytes \in Nat /\ AheadBytes \in Nat /\ BehindBytes \in Nat
      /\ DiskBytes' \in Nat /\ AheadBytes' \in Nat /\ BehindBytes' \in Nat
  BY <1>1, BytesAreNats DEF NatBytes
<1>6. Ahead(t) \in Nat /\ Behind(t) \in Nat /\ Ahead(t)' \in Nat /\ Behind(t)' \in Nat
  BY <1>1, BytesAreNats DEF NatBytes
<1>7. SUFFICES ASSUME usage'.known, exact'
      PROVE  usage'.bytes + BehindBytes' = DiskBytes' + AheadBytes'
  BY DEF CountIsExact
<1>8. /\ b + BehindBytes = DiskBytes + AheadBytes
      /\ usage'.bytes + Ahead(t) + Behind(t)' = b + Ahead(t)' + Behind(t)
  BY <1>7
<1>9. b \in Nat
  OBVIOUS
<1> QED BY <1>2, <1>3, <1>4, <1>5, <1>6, <1>8, <1>9, Balances

LEMMA FileBalances ==
    ASSUME NEW b \in Nat, NEW there \in Nat, NEW there2 \in Nat,
           NEW ahead \in Nat, NEW behind \in Nat, NEW ahead2 \in Nat, NEW behind2 \in Nat,
           NEW x \in Nat, NEW y \in Nat, NEW x2 \in Nat, NEW y2 \in Nat,
           NEW f \in Nat, NEW f2 \in Nat,
           ahead2 + x = ahead + x2, behind2 + y = behind + y2, there2 + f = there + f2,
           b + behind = there + ahead, x + y2 + f = x2 + y + f2
    PROVE  b + behind2 = there2 + ahead2
OBVIOUS

LEMMA FileCountGoes ==
    ASSUME Shapes, Shapes', CountIsExact,
           NEW t \in Tasks, \A u \in Tasks \ {t} : task'[u] = task[u],
           NEW c \in Chapters, \A d \in Chapters \ {c} : disk'[d] = disk[d], UNCHANGED usage,
           usage.known /\ exact' =>
              exact /\ Ahead(t) + Behind(t)' + disk[c].size = Ahead(t)' + Behind(t) + disk'[c].size
    PROVE  CountIsExact'
<1>1. (Shapes => NatBytes)'
  BY BytesAreNats, PTL
<1>2. /\ AheadBytes' + Ahead(t) = AheadBytes + Ahead(t)'
      /\ BehindBytes' + Behind(t) = BehindBytes + Behind(t)'
  BY OneTaskChanges
<1>3. DiskBytes' + disk[c].size = DiskBytes + disk'[c].size
  BY OneFileChanges
<1>4. usage.bytes \in Nat /\ disk[c].size \in Nat /\ disk'[c].size \in Nat
  BY DEF Shapes, Usage, File
<1>5. /\ DiskBytes \in Nat /\ AheadBytes \in Nat /\ BehindBytes \in Nat
      /\ DiskBytes' \in Nat /\ AheadBytes' \in Nat /\ BehindBytes' \in Nat
  BY <1>1, BytesAreNats DEF NatBytes
<1>6. Ahead(t) \in Nat /\ Behind(t) \in Nat /\ Ahead(t)' \in Nat /\ Behind(t)' \in Nat
  BY <1>1, BytesAreNats DEF NatBytes
<1>7. SUFFICES ASSUME usage'.known, exact'
      PROVE  usage'.bytes + BehindBytes' = DiskBytes' + AheadBytes'
  BY DEF CountIsExact
<1>8. usage'.bytes = usage.bytes /\ usage.bytes + BehindBytes = DiskBytes + AheadBytes
  BY <1>7 DEF CountIsExact
<1>9. Ahead(t) + Behind(t)' + disk[c].size = Ahead(t)' + Behind(t) + disk'[c].size
  BY <1>7
<1>10. usage.bytes + BehindBytes' = DiskBytes' + AheadBytes'
  BY <1>2, <1>3, <1>4, <1>5, <1>6, <1>8, <1>9, FileBalances
<1> QED BY <1>8, <1>10

LEMMA DisturbedScans ==
    ASSUME Shapes, Disturb
    PROVE  CleanScans' /\ scan' \in [Scans -> Scan]
<1>1. \A s \in Scans : /\ scan'[s] = [scan[s] EXCEPT !.clean = scan[s].pc = "idle"]
                       /\ scan[s] \in Scan
  BY DEF Disturb, Shapes
<1>2. \A s \in Scans : scan'[s].pc = scan[s].pc /\ scan'[s].clean = (scan[s].pc = "idle")
                       /\ scan'[s] \in Scan
  BY <1>1 DEF Scan
<1>3. scan' \in [Scans -> Scan]
  BY <1>2 DEF Disturb
<1> QED BY <1>2, <1>3 DEF CleanScans

LEMMA QuietScans ==
    ASSUME Shapes, CleanScans, UNCHANGED <<disk, scan>>, NEW t \in Tasks,
           \A u \in Tasks \ {t} : task'[u] = task[u], Ahead(t)' = 0, Behind(t)' = 0
    PROVE  CleanScans'
<1>1. Settled => Settled'
  BY DEF Settled, Ahead, Behind
<1>2. DiskBytes' = DiskBytes /\ DiskWeights' = DiskWeights
  BY SameBytes
<1> QED BY <1>1, <1>2 DEF CleanScans

(* Nobody moves: the count is scanned, ages or is forgotten.               *)
LEMMA NobodyMoves ==
    ASSUME Shapes, Operations, UNCHANGED <<disk, task>>, exact' => exact \/ Settled
    PROVE  Operations'
<1>1. ASSUME NEW t \in Tasks PROVE Placed(t)' /\ Sized(t)'
  <2>1. Placed(t) /\ Sized(t)
    BY DEF Operations
  <2>2. task[t].pc \in {"reserved", "grow"} /\ exact' => exact
    BY SettledRests
  <2>3. Placed(t)'
    BY <2>1 DEF Placed
  <2>4. Sized(t)'
    BY <2>1, <2>2 DEF Sized
  <2> QED BY <2>3, <2>4
<1> QED BY <1>1 DEF Operations

-----------------------------------------------------------------------------
(* The steps of an operation.                                              *)

LEMMA RestingIs ==
    /\ Resting \in Task /\ Resting.pc = "idle"
    /\ [Resting EXCEPT !.pc = "idle"] = Resting
    /\ [Resting EXCEPT !.pc = "refresh"] \in Task
    /\ [Resting EXCEPT !.pc = "refresh"].pc = "refresh"
BY DEF Resting, Task, Steps

LEMMA AtIs ==
    ASSUME Shapes, NEW c \in Chapters, NEW pc \in Steps
    PROVE  /\ At(pc, c) \in Task /\ At(pc, c).pc = pc /\ At(pc, c).chapter = c
           /\ At(pc, c).id = ops + 1
<1> DEFINE n == ops + 1
<1>1. At(pc, c) = [Resting EXCEPT !.pc = pc, !.chapter = c, !.id = n]
  BY DEF At
<1>2. n \in Nat
  BY DEF Shapes
<1> HIDE DEF n
<1>3. /\ At(pc, c) \in Task /\ At(pc, c).pc = pc /\ At(pc, c).chapter = c
      /\ At(pc, c).id = n
  <2>1. At(pc, c) = [pc |-> pc, chapter |-> c, id |-> n, add |-> 0, old |-> 0, hash |-> 0]
    BY <1>1 DEF Resting
  <2> QED BY <1>2, <2>1 DEF Task
<1> QED BY <1>3 DEF n

LEMMA TaskGoes ==
    ASSUME Shapes, NEW t \in Tasks, NEW to \in Task, task' = [task EXCEPT ![t] = to]
    PROVE  /\ task' \in [Tasks -> Task] /\ task'[t] = to
           /\ \A u \in Tasks \ {t} : task'[u] = task[u]
           /\ to.pc \in {"idle", "build", "published", "refresh", "rescan", "upscale"} =>
                 Ahead(t)' = 0 /\ Behind(t)' = 0
           /\ to.pc = "reserved" => Ahead(t)' = to.add /\ Behind(t)' = to.old
           /\ to.pc \in {"undo", "forget"} => Ahead(t)' = to.add /\ Behind(t)' = 0
           /\ to.pc \in {"appended", "grow"} => Ahead(t)' = 0 /\ Behind(t)' = Growth
BY DEF Shapes, Ahead, Behind

LEMMA TaskRests ==
    ASSUME Shapes, NEW t \in Tasks, Rest(t)
    PROVE  /\ task' \in [Tasks -> Task] /\ task'[t] = Resting
           /\ \A u \in Tasks \ {t} : task'[u] = task[u]
           /\ task' = [task EXCEPT ![t] = [Resting EXCEPT !.pc = "idle"]]
           /\ Ahead(t)' = 0 /\ Behind(t)' = 0
BY RestingIs, TaskGoes DEF Rest

LEMMA TaskWas ==
    ASSUME Shapes, Operations, NEW t \in Tasks
    PROVE  /\ task[t] \in Task /\ task[t].add \in Nat /\ task[t].old \in Nat
           /\ task[t].id \in Nat /\ task[t].hash \in Nat
           /\ task[t].pc \in AtChapter => task[t].chapter \in Chapters
           /\ task[t].pc \in {"idle", "build", "published", "refresh", "rescan", "upscale"} =>
                 Ahead(t) = 0 /\ Behind(t) = 0
           /\ task[t].pc = "reserved" => Ahead(t) = task[t].add /\ Behind(t) = task[t].old
           /\ task[t].pc \in {"undo", "forget"} => Ahead(t) = task[t].add /\ Behind(t) = 0
           /\ task[t].pc \in {"appended", "grow"} => Ahead(t) = 0 /\ Behind(t) = Growth
BY DEF Shapes, Operations, Placed, Task, Ahead, Behind

LEMMA FileIs ==
    ASSUME Shapes, NEW c \in Chapters
    PROVE  /\ disk[c] \in File /\ disk[c].size \in Nat /\ disk[c].hash \in Nat
           /\ \A f \in File : disk' = [disk EXCEPT ![c] = f] =>
                 /\ disk' \in [Chapters -> File] /\ disk'[c] = f
                 /\ \A d \in Chapters \ {c} : disk'[d] = disk[d]
BY DEF Shapes, File

(* The exact count of before, for a step that leaves it.                   *)
LEMMA CountWas ==
    ASSUME Shapes, CountIsExact
    PROVE  /\ usage.bytes \in Nat /\ usage \in Usage /\ exact \in BOOLEAN
           /\ usage.known /\ exact => usage.bytes + BehindBytes = DiskBytes + AheadBytes
BY DEF Shapes, Usage, CountIsExact

LEMMA EnforceKeeps ==
    ASSUME UsageInv, NEW t \in Tasks, NEW c \in Chapters, Enforce(t, c)
    PROVE  UsageInv'
<1> USE DEF UsageInv
<1> DEFINE to == At("build", c)
<1>1. /\ Refreshed \in Usage /\ Refreshed.bytes \in Nat /\ ExactWhenRefreshed \in BOOLEAN
      /\ ExactWhenRefreshed =>
           /\ exact \/ Settled
           /\ Refreshed.bytes + BehindBytes = DiskBytes + AheadBytes
  BY RefreshedIs DEF Usage
<1>2. /\ task[t].pc = "idle" /\ ops' = ops + 1 /\ ops \in Nat /\ UNCHANGED <<disk, scan>>
      /\ usage' = Refreshed /\ exact' = ExactWhenRefreshed
      /\ task' = [task EXCEPT ![t] = to] \/ UNCHANGED task
  BY DEF Enforce, Start, Shapes
<1>3. to \in Task /\ to.pc = "build" /\ to.chapter = c /\ to.id = ops + 1
  BY AtIs DEF Steps
<1> HIDE DEF to
<1>4. Ahead(t) = 0 /\ Behind(t) = 0
  BY <1>2, TaskWas
<1>5. CASE task' = [task EXCEPT ![t] = to]
  <2>1. /\ task' \in [Tasks -> Task] /\ \A u \in Tasks \ {t} : task'[u] = task[u]
        /\ Ahead(t)' = 0 /\ Behind(t)' = 0
    BY <1>3, <1>5, TaskGoes
  <2>2. Shapes'
    BY <1>1, <1>2, <2>1 DEF Shapes
  <2>3. Operations'
    BY <1>1, <1>2, <1>3, <1>5, <2>2, Begins
  <2>4. CleanScans'
    BY <1>2, <2>1, QuietScans
  <2>5. CountIsExact'
    BY <1>1, <1>2, <1>4, <2>1, <2>2, CountGoes
  <2> QED BY <2>2, <2>3, <2>4, <2>5
<1>6. CASE UNCHANGED task
  <2>1. Ahead(t)' = 0 /\ Behind(t)' = 0
    BY <1>4, <1>6 DEF Ahead, Behind
  <2>2. Shapes'
    BY <1>1, <1>2, <1>6 DEF Shapes
  <2>3. Operations'
    BY <1>1, <1>2, <1>6, <2>2, NobodyMoves
  <2>4. CleanScans'
    BY <1>2, <1>6, <2>1, QuietScans
  <2>5. CountIsExact'
    BY <1>1, <1>2, <1>4, <1>6, <2>1, <2>2, CountGoes
  <2> QED BY <2>2, <2>3, <2>4, <2>5
<1> QED BY <1>2, <1>5, <1>6

(* What Reserve books, and that the count is known then.                   *)
LEMMA ReserveKeeps ==
    ASSUME UsageInv, NEW t \in Tasks, Reserve(t)
    PROVE  UsageInv' /\ (task'[t].pc = "reserved" => usage'.known /\ usage'.bytes <= Cap)
<1> USE DEF UsageInv
<1>1. /\ Refreshed \in Usage /\ Refreshed.known /\ Refreshed.bytes \in Nat
      /\ ExactWhenRefreshed \in BOOLEAN
      /\ ExactWhenRefreshed =>
           /\ exact \/ Settled
           /\ Refreshed.bytes + BehindBytes = DiskBytes + AheadBytes
  BY RefreshedIs DEF Usage
<1>2. task[t].pc = "build" /\ UNCHANGED <<disk, ops>>
  BY DEF Reserve
<1> DEFINE c == task[t].chapter
           old == disk[c].size
<1>3. /\ Ahead(t) = 0 /\ Behind(t) = 0 /\ c \in Chapters /\ old \in Nat
      /\ task[t] \in Task
  BY <1>2, TaskWas, FileIs DEF AtChapter, Steps
<1>4. PICK size \in Sizes :
        LET next == Saturating(Refreshed.bytes, old) + size
        IN IF Fits(next)
           THEN /\ usage' = [Refreshed EXCEPT !.bytes = next, !.fresh = TRUE]
                /\ task' = [task EXCEPT ![t].pc = "reserved", ![t].add = size, ![t].old = old]
                /\ exact' = (ExactWhenRefreshed /\ old <= Refreshed.bytes)
                /\ Disturb
           ELSE /\ usage' = Refreshed
                /\ exact' = ExactWhenRefreshed
                /\ Rest(t)
                /\ UNCHANGED scan
  BY DEF Reserve
<1> DEFINE next == Saturating(Refreshed.bytes, old) + size
           to == [task[t] EXCEPT !.pc = "reserved", !.add = size, !.old = old]
<1>5. size \in Nat \ {0}
  BY SomeBytes
<1>6. next \in Nat /\ (old <= Refreshed.bytes => next + old = Refreshed.bytes + size)
  BY <1>1, <1>3, <1>5 DEF Saturating
<1>7. CASE Fits(next)
  <2>1. /\ usage' = [Refreshed EXCEPT !.bytes = next, !.fresh = TRUE]
        /\ task' = [task EXCEPT ![t].pc = "reserved", ![t].add = size, ![t].old = old]
        /\ exact' = (ExactWhenRefreshed /\ old <= Refreshed.bytes) /\ Disturb
    BY <1>4, <1>7
  <2>2. /\ to \in Task /\ to.pc = "reserved" /\ to.add = size /\ to.old = old
        /\ to.id = task[t].id /\ to.chapter = c
    BY <1>3, <1>5 DEF Task, Steps
  <2>3. task' = [task EXCEPT ![t] = to]
    BY <2>1 DEF Shapes
  <2> HIDE DEF to, next
  <2>4. usage' \in Usage /\ usage'.known /\ usage'.bytes = next
    BY <1>1, <1>6, <2>1 DEF Usage
  <2>5. /\ task' \in [Tasks -> Task] /\ \A u \in Tasks \ {t} : task'[u] = task[u]
        /\ task'[t] = to /\ Ahead(t)' = size /\ Behind(t)' = old
    BY <2>2, <2>3, TaskGoes
  <2>6. CleanScans' /\ scan' \in [Scans -> Scan]
    BY <2>1, DisturbedScans
  <2>7. Shapes'
    BY <1>1, <1>2, <2>1, <2>4, <2>5, <2>6 DEF Shapes
  <2>8. Sized(t)'
    BY <1>2, <1>5, <2>2, <2>5 DEF Sized
  <2>9. Operations'
    <3>1. (exact' => exact \/ Settled) /\ UNCHANGED disk /\ to.chapter \in Chapters
      BY <1>1, <1>2, <1>3, <2>1, <2>2
    <3> HIDE DEF c, old
    <3> QED BY <2>2, <2>3, <2>7, <2>8, <3>1, MovesOn
  <2>10. CountIsExact'
    <3>1. exact' => ExactWhenRefreshed /\ next + old = Refreshed.bytes + size
      BY <1>6, <2>1
    <3>2. usage'.known /\ exact' =>
             /\ Refreshed.bytes + BehindBytes = DiskBytes + AheadBytes
             /\ usage'.bytes + Ahead(t) + Behind(t)' = Refreshed.bytes + Ahead(t)' + Behind(t)
      BY <1>1, <1>3, <1>5, <1>6, <2>4, <2>5, <3>1
    <3> QED BY <1>1, <1>2, <2>5, <2>7, <3>2, CountGoes
  <2> QED BY <1>7, <2>4, <2>6, <2>7, <2>9, <2>10 DEF Fits
<1>8. CASE ~Fits(next)
  <2>1. usage' = Refreshed /\ exact' = ExactWhenRefreshed /\ Rest(t) /\ UNCHANGED scan
    BY <1>4, <1>8
  <2>2. /\ task' \in [Tasks -> Task] /\ \A u \in Tasks \ {t} : task'[u] = task[u]
        /\ task'[t].pc = "idle" /\ Ahead(t)' = 0 /\ Behind(t)' = 0
        /\ task' = [task EXCEPT ![t] = [Resting EXCEPT !.pc = "idle"]]
    BY <2>1, TaskRests, RestingIs
  <2>3. Shapes'
    BY <1>1, <1>2, <2>1, <2>2 DEF Shapes
  <2>4. Operations'
    BY <1>1, <1>2, <2>1, <2>2, <2>3, IsOver
  <2>5. CleanScans'
    BY <1>2, <2>1, <2>2, QuietScans
  <2>6. CountIsExact'
    BY <1>1, <1>2, <1>3, <2>1, <2>2, <2>3, CountGoes
  <2> QED BY <2>2, <2>3, <2>4, <2>5, <2>6
<1> QED BY <1>7, <1>8

(* An operation ends: the count gains and loses what it is behind and      *)
(* ahead by.                                                               *)
LEMMA Settles ==
    ASSUME UsageInv, NEW t \in Tasks, NEW add \in Nat, NEW less \in Nat,
           usage' = Counted(add, less), exact' \in BOOLEAN,
           exact' => exact /\ ~Loses(add, less) /\ add + Ahead(t) = less + Behind(t),
           Rest(t), Disturb, UNCHANGED <<disk, ops>>
    PROVE  UsageInv'
<1> USE DEF UsageInv
<1>1. /\ usage' \in Usage /\ usage'.known = usage.known
      /\ usage.known /\ ~Loses(add, less) => usage'.bytes + less = usage.bytes + add
  BY CountedIs
<1>2. /\ task' \in [Tasks -> Task] /\ \A u \in Tasks \ {t} : task'[u] = task[u]
      /\ Ahead(t)' = 0 /\ Behind(t)' = 0
      /\ task' = [task EXCEPT ![t] = [Resting EXCEPT !.pc = "idle"]]
  BY TaskRests
<1>3. CleanScans' /\ scan' \in [Scans -> Scan]
  BY DisturbedScans
<1>4. Shapes'
  BY <1>1, <1>2, <1>3 DEF Shapes
<1>5. Operations'
  BY <1>2, <1>4, IsOver
<1>6. CountIsExact'
  <2>1. /\ usage.bytes \in Nat /\ usage'.bytes \in Nat
        /\ usage.known /\ exact => usage.bytes + BehindBytes = DiskBytes + AheadBytes
    BY <1>1, CountWas DEF Usage
  <2>2. Ahead(t) \in Nat /\ Behind(t) \in Nat
    BY BytesAreNats DEF NatBytes
  <2>3. usage'.known /\ exact' =>
           /\ usage.bytes + BehindBytes = DiskBytes + AheadBytes
           /\ usage'.bytes + Ahead(t) + Behind(t)' = usage.bytes + Ahead(t)' + Behind(t)
    BY <1>1, <1>2, <2>1, <2>2
  <2> QED BY <1>2, <1>4, <2>1, <2>3, CountGoes
<1> QED BY <1>3, <1>4, <1>5, <1>6

LEMMA RollBackKeeps ==
    ASSUME UsageInv, NEW t \in Tasks, RollBack(t) PROVE UsageInv'
<1> USE DEF UsageInv
<1>1. /\ task[t].add \in Nat /\ task[t].old \in Nat
      /\ Ahead(t) = task[t].add /\ Behind(t) = task[t].old
  BY TaskWas DEF RollBack
<1>2. /\ usage' = Counted(task[t].old, task[t].add) /\ Rest(t) /\ Disturb /\ UNCHANGED <<disk, ops>>
      /\ exact' = (exact /\ ~Loses(task[t].old, task[t].add))
  BY DEF RollBack, RolledBack
<1>3. exact' \in BOOLEAN /\ (exact' => exact /\ ~Loses(task[t].old, task[t].add))
  BY <1>2 DEF Loses
<1> QED BY <1>1, <1>2, <1>3, Settles

LEMMA UndoKeeps ==
    ASSUME UsageInv, NEW t \in Tasks, Undo(t) PROVE UsageInv'
<1> USE DEF UsageInv
<1>1. task[t].add \in Nat /\ Ahead(t) = task[t].add /\ Behind(t) = 0
  BY TaskWas DEF Undo
<1>2. /\ usage' = Counted(0, task[t].add) /\ Rest(t) /\ Disturb /\ UNCHANGED <<disk, ops>>
      /\ exact' = (exact /\ ~Loses(0, task[t].add))
  BY DEF Undo
<1>3. exact' \in BOOLEAN /\ (exact' => exact /\ ~Loses(0, task[t].add))
  BY <1>2 DEF Loses
<1> QED BY <1>1, <1>2, <1>3, Settles

LEMMA GrowKeeps ==
    ASSUME UsageInv, NEW t \in Tasks, Grow(t) PROVE UsageInv'
<1> USE DEF UsageInv
<1>1. task[t].add \in Nat /\ Ahead(t) = 0 /\ Behind(t) = Growth
  BY TaskWas DEF Grow
<1>2. exact => task[t].add = Growth
  BY DEF Grow, Operations, Sized
<1>3. ~Loses(task[t].add, 0)
  BY <1>1, CountWas DEF Loses
<1>4. exact \in BOOLEAN /\ exact' = exact
  BY CountWas DEF Grow
<1> QED BY <1>1, <1>2, <1>3, <1>4, Settles DEF Grow

LEMMA ForgetKeeps ==
    ASSUME UsageInv, NEW t \in Tasks, Forget(t) PROVE UsageInv'
<1> USE DEF UsageInv
<1>1. task[t].add \in Nat /\ Ahead(t) = task[t].add /\ Behind(t) = 0
  BY TaskWas DEF Forget
<1>2. CASE usage' = Counted(0, task[t].add) /\ exact' = (exact /\ ~Loses(0, task[t].add))
  <2>1. exact' \in BOOLEAN /\ (exact' => exact /\ ~Loses(0, task[t].add))
    BY <1>2 DEF Loses
  <2> QED BY <1>1, <1>2, <2>1, Settles DEF Forget
<1>3. CASE exact' = FALSE /\ UNCHANGED usage
  <2>1. /\ task' \in [Tasks -> Task] /\ \A u \in Tasks \ {t} : task'[u] = task[u]
        /\ task' = [task EXCEPT ![t] = [Resting EXCEPT !.pc = "idle"]]
    BY TaskRests DEF Forget
  <2>2. CleanScans' /\ scan' \in [Scans -> Scan]
    BY DisturbedScans DEF Forget
  <2>3. Shapes'
    BY <1>3, <2>1, <2>2 DEF Shapes, Forget
  <2>4. Operations'
    BY <1>3, <2>1, <2>3, IsOver DEF Forget
  <2> QED BY <1>3, <2>2, <2>3, <2>4 DEF CountIsExact
<1> QED BY <1>2, <1>3 DEF Forget

(* A file is written, removed or replaced, and its operation goes on.      *)
LEMMA FileGoes ==
    ASSUME UsageInv, NEW t \in Tasks, NEW c \in Chapters, NEW f \in File, NEW to \in Task,
           disk' = [disk EXCEPT ![c] = f], task' = [task EXCEPT ![t] = to], Disturb,
           UNCHANGED usage, ops' \in {ops, ops + 1}, exact' \in BOOLEAN,
           exact' => exact /\ ~Reserved(t, c),
           to.pc \notin {"reserved", "grow"}, to.pc \in AtChapter => to.chapter \in Chapters,
           exact' => Ahead(t) + Behind(t)' + disk[c].size = Ahead(t)' + Behind(t) + f.size
    PROVE  UsageInv'
<1> USE DEF UsageInv
<1>1. /\ disk' \in [Chapters -> File] /\ disk'[c] = f
      /\ \A d \in Chapters \ {c} : disk'[d] = disk[d]
  BY FileIs
<1>2. /\ task' \in [Tasks -> Task] /\ task'[t] = to
      /\ \A u \in Tasks \ {t} : task'[u] = task[u]
  BY TaskGoes
<1>3. CleanScans' /\ scan' \in [Scans -> Scan]
  BY DisturbedScans
<1>4. Shapes'
  BY <1>1, <1>2, <1>3 DEF Shapes
<1>5. Placed(t)' /\ Sized(t)'
  BY <1>2 DEF Placed, Sized
<1>6. Operations'
  BY <1>1, <1>2, <1>4, <1>5, OthersStay
<1>7. CountIsExact'
  BY <1>1, <1>2, <1>4, FileCountGoes
<1> QED BY <1>3, <1>4, <1>6, <1>7

LEMMA PublishKeeps ==
    ASSUME UsageInv, NEW t \in Tasks, Publish(t) PROVE UsageInv'
<1> USE DEF UsageInv
<1> DEFINE c == task[t].chapter
           f == [size |-> task[t].add, hash |-> task[t].id]
           to == [task[t] EXCEPT !.pc = "published", !.old = 0]
<1>1. /\ task[t].pc = "reserved" /\ disk' = [disk EXCEPT ![c] = f]
      /\ task' = [task EXCEPT ![t].pc = "published", ![t].old = 0]
      /\ exact' = (exact /\ ~Reserved(t, c)) /\ Disturb /\ UNCHANGED <<usage, ops>>
  BY DEF Publish
<1>2. /\ task[t] \in Task /\ task[t].add \in Nat /\ task[t].old \in Nat /\ c \in Chapters
      /\ Ahead(t) = task[t].add /\ Behind(t) = task[t].old /\ f \in File
      /\ f.size = task[t].add /\ disk[c].size \in Nat
  BY <1>1, TaskWas, FileIs DEF AtChapter, Steps, File
<1>3. task' = [task EXCEPT ![t] = to]
  BY <1>1 DEF Shapes
<1>4. to \in Task /\ to.pc = "published" /\ to.chapter = c
  BY <1>2 DEF Task, Steps
<1> HIDE DEF to, f
<1>5. Ahead(t)' = 0 /\ Behind(t)' = 0
  BY <1>3, <1>4, TaskGoes
<1>6. exact => disk[c].size = task[t].old
  BY <1>1 DEF Operations, Sized
<1>7. exact' \in BOOLEAN /\ (exact' => exact /\ ~Reserved(t, c))
  BY <1>1 DEF Reserved
<1>8. exact' => Ahead(t) + Behind(t)' + disk[c].size = Ahead(t)' + Behind(t) + f.size
  BY <1>2, <1>5, <1>6, <1>7
<1>9. UNCHANGED usage /\ ops' \in {ops, ops + 1}
  BY <1>1
<1> QED BY <1>1, <1>2, <1>3, <1>4, <1>7, <1>8, <1>9, FileGoes

LEMMA LateCancelKeeps ==
    ASSUME UsageInv, NEW t \in Tasks, LateCancel(t) PROVE UsageInv'
<1> USE DEF UsageInv
<1> DEFINE c == task[t].chapter
           f == [size |-> 0, hash |-> 0]
           to == [task[t] EXCEPT !.pc = "undo"]
<1>1. /\ task[t].pc = "published" /\ disk' = [disk EXCEPT ![c] = f]
      /\ task' = [task EXCEPT ![t].pc = "undo"]
      /\ exact' = (exact /\ disk[c].size = task[t].add /\ ~Reserved(t, c))
      /\ Disturb /\ UNCHANGED <<usage, ops>>
  BY DEF LateCancel, Goto
<1>2. /\ task[t] \in Task /\ task[t].add \in Nat /\ c \in Chapters
      /\ Ahead(t) = 0 /\ Behind(t) = 0 /\ f \in File /\ f.size = 0
  BY <1>1, TaskWas DEF AtChapter, Steps, File
<1>3. task' = [task EXCEPT ![t] = to]
  BY <1>1 DEF Shapes
<1>4. to \in Task /\ to.pc = "undo" /\ to.chapter = c /\ to.add = task[t].add
  BY <1>2 DEF Task, Steps
<1> HIDE DEF to, f
<1>5. Ahead(t)' = task[t].add /\ Behind(t)' = 0
  BY <1>3, <1>4, TaskGoes
<1>6. exact' \in BOOLEAN /\ (exact' => exact /\ disk[c].size = task[t].add /\ ~Reserved(t, c))
  BY <1>1 DEF Reserved
<1>7. exact' => Ahead(t) + Behind(t)' + disk[c].size = Ahead(t)' + Behind(t) + f.size
  BY <1>2, <1>5, <1>6
<1>8. UNCHANGED usage /\ ops' \in {ops, ops + 1}
  BY <1>1
<1> QED BY <1>1, <1>2, <1>3, <1>4, <1>6, <1>7, <1>8, FileGoes

LEMMA RemoveKeeps ==
    ASSUME UsageInv, NEW t \in Tasks, NEW c \in Chapters, Remove(t, c) PROVE UsageInv'
<1> USE DEF UsageInv
<1> DEFINE f == [size |-> 0, hash |-> 0]
           to == [At("forget", c) EXCEPT !.add = disk[c].size]
<1>1. /\ task[t].pc = "idle" /\ ops' = ops + 1 /\ disk' = [disk EXCEPT ![c] = f]
      /\ task' = [task EXCEPT ![t] = to] /\ exact' = (exact /\ ~Reserved(t, c))
      /\ Disturb /\ UNCHANGED usage
  BY DEF Remove, Start
<1>2. /\ disk[c].size \in Nat /\ f \in File /\ f.size = 0
      /\ Ahead(t) = 0 /\ Behind(t) = 0
  BY <1>1, TaskWas, FileIs DEF File
<1>3. to \in Task /\ to.pc = "forget" /\ to.chapter = c /\ to.add = disk[c].size
  <2>1. At("forget", c) \in Task /\ At("forget", c).pc = "forget" /\ At("forget", c).chapter = c
    BY AtIs DEF Steps
  <2> QED BY <1>2, <2>1 DEF Task
<1> HIDE DEF to, f
<1>4. Ahead(t)' = disk[c].size /\ Behind(t)' = 0
  BY <1>1, <1>3, TaskGoes
<1>5. exact' \in BOOLEAN /\ (exact' => exact /\ ~Reserved(t, c))
  BY <1>1 DEF Reserved
<1>6. exact' => Ahead(t) + Behind(t)' + disk[c].size = Ahead(t)' + Behind(t) + f.size
  BY <1>2, <1>4
<1> QED BY <1>1, <1>2, <1>3, <1>5, <1>6, FileGoes

(* What an append, whole or broken off, makes of a file.                   *)
LEMMA LongerIs ==
    ASSUME Shapes, NEW c \in Chapters, NEW h \in Nat, Longer(c, h)
    PROVE  \E f \in File : disk' = [disk EXCEPT ![c] = f] /\ f.size = disk[c].size + Growth
<1> DEFINE n == disk[c].size + Growth
           f == [size |-> n, hash |-> h]
<1>1. disk' = [disk EXCEPT ![c] = f]
  BY DEF Longer, Shapes
<1>2. n \in Nat
  BY SomeBytes, FileIs
<1> HIDE DEF n
<1>3. f \in File /\ f.size = n
  BY <1>2 DEF File
<1> QED BY <1>1, <1>3 DEF n

LEMMA AppendKeeps ==
    ASSUME UsageInv, NEW t \in Tasks, Append(t) PROVE UsageInv'
<1> USE DEF UsageInv
<1> DEFINE c == task[t].chapter
<1>1. task[t].pc = "upscale" /\ UNCHANGED <<usage, ops>>
  BY DEF Append
<1>2. /\ task[t] \in Task /\ task[t].id \in Nat /\ task[t].hash \in Nat /\ c \in Chapters
      /\ Ahead(t) = 0 /\ Behind(t) = 0 /\ disk[c].size \in Nat /\ Growth \in Nat
  BY <1>1, TaskWas, FileIs, SomeBytes DEF AtChapter, Steps
<1>3. CASE /\ Longer(c, task[t].id) /\ exact' = (exact /\ ~Reserved(t, c))
           /\ task' = [task EXCEPT ![t].pc = "appended"] /\ Disturb
  <2>1. PICK f \in File : disk' = [disk EXCEPT ![c] = f] /\ f.size = disk[c].size + Growth
    BY <1>2, <1>3, LongerIs
  <2> DEFINE to == [task[t] EXCEPT !.pc = "appended"]
  <2>2. task' = [task EXCEPT ![t] = to]
    BY <1>3 DEF Shapes
  <2>3. to \in Task /\ to.pc = "appended" /\ to.chapter = c
    BY <1>2 DEF Task, Steps
  <2> HIDE DEF to
  <2>4. Ahead(t)' = 0 /\ Behind(t)' = Growth
    BY <2>2, <2>3, TaskGoes
  <2>5. exact' \in BOOLEAN /\ (exact' => exact /\ ~Reserved(t, c))
    BY <1>3 DEF Reserved
  <2>6. exact' => Ahead(t) + Behind(t)' + disk[c].size = Ahead(t)' + Behind(t) + f.size
    BY <1>2, <2>1, <2>4
  <2>7. UNCHANGED usage /\ ops' \in {ops, ops + 1}
    BY <1>1
  <2> QED BY <1>2, <1>3, <2>1, <2>2, <2>3, <2>5, <2>6, <2>7, FileGoes
<1>4. CASE /\ \E h \in {task[t].hash, task[t].id} : Longer(c, h)
           /\ exact' = FALSE /\ Rest(t) /\ Disturb
  <2>1. PICK f \in File : disk' = [disk EXCEPT ![c] = f] /\ f.size = disk[c].size + Growth
    BY <1>2, <1>4, LongerIs
  <2>2. task' = [task EXCEPT ![t] = Resting]
    BY <1>4 DEF Rest
  <2>3. Resting \in Task /\ Resting.pc = "idle"
    BY RestingIs
  <2>4. UNCHANGED usage /\ ops' \in {ops, ops + 1} /\ exact' \in BOOLEAN /\ ~exact'
    BY <1>1, <1>4
  <2> QED BY <1>2, <1>4, <2>1, <2>2, <2>3, <2>4, FileGoes DEF AtChapter
<1>5. CASE Rest(t) /\ UNCHANGED <<disk, scan, exact>>
  <2>1. /\ task' \in [Tasks -> Task] /\ \A u \in Tasks \ {t} : task'[u] = task[u]
        /\ Ahead(t)' = 0 /\ Behind(t)' = 0
        /\ task' = [task EXCEPT ![t] = [Resting EXCEPT !.pc = "idle"]]
    BY <1>5, TaskRests
  <2>2. Shapes'
    BY <1>1, <1>5, <2>1 DEF Shapes
  <2>3. Operations'
    BY <1>1, <1>5, <2>1, <2>2, IsOver
  <2>4. CleanScans'
    BY <1>5, <2>1, QuietScans
  <2>5. CountIsExact'
    BY <1>1, <1>2, <1>5, <2>1, <2>2, CountWas, CountGoes
  <2> QED BY <2>2, <2>3, <2>4, <2>5
<1> QED BY <1>3, <1>4, <1>5 DEF Append

LEMMA InspectAppendedKeeps ==
    ASSUME UsageInv, NEW t \in Tasks, InspectAppended(t) PROVE UsageInv'
<1> USE DEF UsageInv
<1> DEFINE c == task[t].chapter
<1>1. task[t].pc = "appended" /\ UNCHANGED <<disk, usage, ops>> /\ Disturb
  BY DEF InspectAppended
<1>2. /\ task[t] \in Task /\ task[t].old \in Nat /\ c \in Chapters
      /\ Ahead(t) = 0 /\ Behind(t) = Growth
      /\ disk[c].size \in Nat /\ disk[c].hash \in Nat
  BY <1>1, TaskWas, FileIs DEF AtChapter, Steps
<1>3. CleanScans' /\ scan' \in [Scans -> Scan]
  BY <1>1, DisturbedScans
<1> DEFINE n == Saturating(disk[c].size, task[t].old)
           to == [task[t] EXCEPT !.pc = "grow", !.add = n]
<1>4. CASE /\ task' = [task EXCEPT ![t].pc = "grow", ![t].add = n]
           /\ exact' = (exact /\ disk[c].size = task[t].old + Growth)
  <2>1. n \in Nat /\ Growth \in Nat
    BY <1>2, SomeBytes DEF Saturating
  <2>2. disk[c].size = task[t].old + Growth => n = Growth
    BY <1>2, <2>1 DEF Saturating
  <2> HIDE DEF n
  <2>3. to \in Task /\ to.pc = "grow" /\ to.chapter = c /\ to.add = n
    BY <1>2, <2>1 DEF Task, Steps
  <2>4. task' = [task EXCEPT ![t] = to]
    BY <1>4 DEF Shapes
  <2> HIDE DEF to
  <2>5. /\ task' \in [Tasks -> Task] /\ task'[t] = to /\ Ahead(t)' = 0 /\ Behind(t)' = Growth
        /\ \A u \in Tasks \ {t} : task'[u] = task[u]
    BY <2>3, <2>4, TaskGoes
  <2>6. exact' \in BOOLEAN /\ (exact' => exact /\ n = Growth)
    BY <1>4, <2>2
  <2>7. Shapes'
    BY <1>1, <1>3, <2>5, <2>6 DEF Shapes
  <2>8. Sized(t)'
    BY <2>3, <2>5, <2>6 DEF Sized
  <2>9. Operations'
    BY <1>1, <1>2, <2>3, <2>4, <2>6, <2>7, <2>8, MovesOn
  <2>10. CountIsExact'
    BY <1>1, <1>2, <2>1, <2>5, <2>6, <2>7, CountWas, CountGoes
  <2> QED BY <1>3, <2>7, <2>9, <2>10
<1>5. CASE Rest(t) /\ exact' = FALSE
  <2>1. /\ task' \in [Tasks -> Task] /\ \A u \in Tasks \ {t} : task'[u] = task[u]
        /\ task' = [task EXCEPT ![t] = [Resting EXCEPT !.pc = "idle"]]
    BY <1>5, TaskRests
  <2>2. Shapes'
    BY <1>1, <1>3, <1>5, <2>1 DEF Shapes
  <2>3. Operations'
    BY <1>1, <1>5, <2>1, <2>2, IsOver
  <2> QED BY <1>3, <1>5, <2>2, <2>3 DEF CountIsExact
<1> QED BY <1>4, <1>5 DEF InspectAppended

LEMMA ChangeMetadataKeeps ==
    ASSUME UsageInv, NEW t \in Tasks, NEW c \in Chapters, ChangeMetadata(t, c) PROVE UsageInv'
<1> USE DEF UsageInv
<1>1. /\ \E h \in {disk[c].hash, ops + 1} : Longer(c, h)
      /\ exact' = FALSE /\ Disturb /\ UNCHANGED usage /\ ops' = ops + 1
      /\ \/ task' = [task EXCEPT ![t] = [Resting EXCEPT !.pc = "refresh"]]
         \/ UNCHANGED task
      /\ task[t].pc = "idle"
  BY DEF ChangeMetadata, Start
<1>2. ops + 1 \in Nat /\ disk[c].hash \in Nat
  BY FileIs DEF Shapes
<1>3. PICK f \in File : disk' = [disk EXCEPT ![c] = f] /\ f.size = disk[c].size + Growth
  BY <1>1, <1>2, LongerIs
<1>4. exact' \in BOOLEAN /\ ~exact' /\ ops' \in {ops, ops + 1}
  BY <1>1
<1>5. CASE task' = [task EXCEPT ![t] = [Resting EXCEPT !.pc = "refresh"]]
  <2> DEFINE to == [Resting EXCEPT !.pc = "refresh"]
  <2>1. to \in Task /\ to.pc = "refresh" /\ task' = [task EXCEPT ![t] = to]
    BY <1>5, RestingIs
  <2> HIDE DEF to
  <2> QED BY <1>1, <1>3, <1>4, <2>1, FileGoes DEF AtChapter
<1>6. CASE UNCHANGED task
  <2>1. task[t] \in Task /\ task' = [task EXCEPT ![t] = task[t]]
    BY <1>6 DEF Shapes
  <2> QED BY <1>1, <1>3, <1>4, <2>1, FileGoes DEF AtChapter
<1> QED BY <1>1, <1>5, <1>6

LEMMA InspectKeeps ==
    ASSUME UsageInv, NEW t \in Tasks, NEW c \in Chapters, Inspect(t, c) PROVE UsageInv'
<1> USE DEF UsageInv
<1> DEFINE to == [At("upscale", c) EXCEPT !.old = disk[c].size, !.hash = disk[c].hash]
<1>1. /\ task[t].pc = "idle" /\ ops' = ops + 1 /\ ops \in Nat
      /\ task' = [task EXCEPT ![t] = to] /\ UNCHANGED <<disk, usage, scan, exact>>
  BY DEF Inspect, Start, Shapes
<1>2. /\ Ahead(t) = 0 /\ Behind(t) = 0 /\ disk[c].size \in Nat /\ disk[c].hash \in Nat
  BY <1>1, TaskWas, FileIs
<1>3. /\ to \in Task /\ to.pc = "upscale" /\ to.chapter = c /\ to.id = ops + 1
      /\ to.old = disk[c].size /\ to.hash = disk[c].hash
  <2>1. /\ At("upscale", c) \in Task /\ At("upscale", c).pc = "upscale"
        /\ At("upscale", c).chapter = c /\ At("upscale", c).id = ops + 1
    BY AtIs DEF Steps
  <2> QED BY <1>2, <2>1 DEF Task
<1> HIDE DEF to
<1>4. /\ task' \in [Tasks -> Task] /\ \A u \in Tasks \ {t} : task'[u] = task[u]
      /\ Ahead(t)' = 0 /\ Behind(t)' = 0
  BY <1>1, <1>3, TaskGoes
<1>5. Shapes'
  BY <1>1, <1>4 DEF Shapes
<1>6. Operations'
  BY <1>1, <1>3, <1>5, Begins
<1>7. CleanScans'
  BY <1>1, <1>4, QuietScans
<1>8. CountIsExact'
  BY <1>1, <1>2, <1>4, <1>5, CountWas, CountGoes
<1> QED BY <1>5, <1>6, <1>7, <1>8

(* An operation that has the count to refresh, or nothing more to do.      *)
LEMMA CompleteKeeps ==
    ASSUME UsageInv, NEW t \in Tasks, Complete(t) PROVE UsageInv'
<1> USE DEF UsageInv
<1>1. task[t].pc = "published" /\ UNCHANGED <<disk, usage, scan, ops, exact>>
  BY DEF Complete
<1>2. PICK pc \in {"idle", "refresh"} : task' = [task EXCEPT ![t] = [Resting EXCEPT !.pc = pc]]
  BY RestingIs DEF Complete, Rest
<1>3. /\ task' \in [Tasks -> Task] /\ \A u \in Tasks \ {t} : task'[u] = task[u]
      /\ Ahead(t)' = 0 /\ Behind(t)' = 0
  <2> DEFINE to == [Resting EXCEPT !.pc = pc]
  <2>1. to \in Task /\ to.pc = pc
    BY DEF Resting, Task, Steps
  <2> HIDE DEF to
  <2>2. task' = [task EXCEPT ![t] = to]
    BY <1>2 DEF to
  <2> QED BY <2>1, <2>2, TaskGoes
<1>4. Shapes'
  BY <1>1, <1>3 DEF Shapes
<1>5. Operations'
  BY <1>1, <1>2, <1>4, IsOver
<1>6. CleanScans'
  BY <1>1, <1>3, QuietScans
<1>7. Ahead(t) = 0 /\ Behind(t) = 0
  BY <1>1, TaskWas
<1>8. CountIsExact'
  BY <1>1, <1>3, <1>4, <1>7, CountWas, CountGoes
<1> QED BY <1>4, <1>5, <1>6, <1>8

LEMMA InvalidateKeeps ==
    ASSUME UsageInv, NEW t \in Tasks, Invalidate(t) PROVE UsageInv'
<1> USE DEF UsageInv
<1> DEFINE to == [task[t] EXCEPT !.pc = "rescan"]
<1>1. /\ task[t].pc = "refresh" /\ UNCHANGED <<disk, scan, ops, exact>>
      /\ usage' = Unknown /\ task' = [task EXCEPT ![t].pc = "rescan"]
  BY DEF Invalidate, Goto
<1>2. task' = [task EXCEPT ![t] = to]
  BY <1>1 DEF Shapes
<1>3. to \in Task /\ to.pc = "rescan"
  BY DEF Shapes, Task, Steps
<1> HIDE DEF to
<1>4. /\ task' \in [Tasks -> Task] /\ \A u \in Tasks \ {t} : task'[u] = task[u]
      /\ task'[t] = to /\ Ahead(t)' = 0 /\ Behind(t)' = 0
  BY <1>2, <1>3, TaskGoes
<1>5. usage' \in Usage /\ ~usage'.known
  BY <1>1 DEF Unknown, Usage
<1>6. Shapes'
  BY <1>1, <1>4, <1>5 DEF Shapes
<1>7. Sized(t)'
  BY <1>3, <1>4 DEF Sized
<1>8. Operations'
  BY <1>1, <1>2, <1>3, <1>6, <1>7, MovesOn DEF AtChapter
<1>9. CleanScans'
  BY <1>1, <1>4, QuietScans
<1> QED BY <1>5, <1>6, <1>8, <1>9 DEF CountIsExact

LEMMA RescanKeeps ==
    ASSUME UsageInv, NEW t \in Tasks, Rescan(t) PROVE UsageInv'
<1> USE DEF UsageInv
<1>1. /\ Refreshed \in Usage /\ Refreshed.bytes \in Nat /\ ExactWhenRefreshed \in BOOLEAN
      /\ ExactWhenRefreshed =>
           /\ exact \/ Settled
           /\ Refreshed.bytes + BehindBytes = DiskBytes + AheadBytes
  BY RefreshedIs DEF Usage
<1>2. /\ task[t].pc = "rescan" /\ usage' = Refreshed /\ exact' = ExactWhenRefreshed
      /\ Rest(t) /\ UNCHANGED <<disk, scan, ops>>
  BY DEF Rescan
<1>3. /\ task' \in [Tasks -> Task] /\ \A u \in Tasks \ {t} : task'[u] = task[u]
      /\ Ahead(t)' = 0 /\ Behind(t)' = 0
      /\ task' = [task EXCEPT ![t] = [Resting EXCEPT !.pc = "idle"]]
  BY <1>2, TaskRests
<1>4. Shapes'
  BY <1>1, <1>2, <1>3 DEF Shapes
<1>5. Operations'
  BY <1>1, <1>2, <1>3, <1>4, IsOver
<1>6. CleanScans'
  BY <1>2, <1>3, QuietScans
<1>7. Ahead(t) = 0 /\ Behind(t) = 0
  BY <1>2, TaskWas
<1>8. CountIsExact'
  BY <1>1, <1>2, <1>3, <1>4, <1>7, CountGoes
<1> QED BY <1>4, <1>5, <1>6, <1>8

-----------------------------------------------------------------------------
(* The scans, time and the setting.                                        *)

(* A step that touches no file, no operation and no scan.                  *)
LEMMA OnlyTheCount ==
    ASSUME UsageInv, UNCHANGED <<disk, task, scan, exact>>, ops' \in {ops, ops + 1},
           usage' \in Usage, usage'.known => usage.known /\ usage'.bytes = usage.bytes
    PROVE  UsageInv'
<1> USE DEF UsageInv
<1>1. Shapes'
  BY DEF Shapes
<1>2. Operations'
  BY <1>1, NobodyMoves
<1>3. UNCHANGED <<DiskBytes, AheadBytes, BehindBytes, Settled, DiskWeights>>
  BY SameBytes
<1>4. CleanScans'
  BY <1>3 DEF CleanScans
<1>5. CountIsExact'
  BY <1>3, CountWas DEF CountIsExact
<1> QED BY <1>1, <1>2, <1>4, <1>5

(* A scan starts, goes on, or is over.                                     *)
LEMMA ScanGoes ==
    ASSUME UsageInv, NEW s \in Scans, NEW to \in Scan, scan' = [scan EXCEPT ![s] = to],
           UNCHANGED <<disk, task>>, ops' \in {ops, ops + 1}, usage' \in Usage,
           exact' \in BOOLEAN, exact' => exact \/ Settled,
           to.pc = "scan" /\ to.clean =>
              Settled /\ to.sum + Total(DiskWeights, to.left) = DiskBytes,
           usage'.known /\ exact' => usage'.bytes + BehindBytes = DiskBytes + AheadBytes
    PROVE  UsageInv'
<1> USE DEF UsageInv
<1>1. /\ scan' \in [Scans -> Scan] /\ scan'[s] = to
      /\ \A r \in Scans \ {s} : scan'[r] = scan[r]
  BY DEF Shapes
<1>2. Shapes'
  BY <1>1 DEF Shapes
<1>3. Operations'
  BY <1>2, NobodyMoves
<1>4. UNCHANGED <<DiskBytes, AheadBytes, BehindBytes, Settled, DiskWeights>>
  BY SameBytes
<1>5. CleanScans'
  <2> SUFFICES ASSUME NEW r \in Scans, scan'[r].pc = "scan", scan'[r].clean
      PROVE  Settled' /\ scan'[r].sum + Total(DiskWeights', scan'[r].left) = DiskBytes'
    BY DEF CleanScans
  <2> QED BY <1>1, <1>4 DEF CleanScans
<1>6. CountIsExact'
  BY <1>4 DEF CountIsExact
<1> QED BY <1>2, <1>3, <1>5, <1>6

LEMMA ScanStartKeeps ==
    ASSUME UsageInv, NEW s \in Scans, ScanStart(s) PROVE UsageInv'
<1> USE DEF UsageInv
<1> DEFINE to == [pc |-> "scan", left |-> Chapters, sum |-> 0, clean |-> Settled]
<1>1. /\ usage' = [usage EXCEPT !.scanning = TRUE] /\ scan' = [scan EXCEPT ![s] = to]
      /\ UNCHANGED <<disk, task, ops, exact>>
  BY DEF ScanStart
<1>2. to \in Scan
  BY DEF Scan, Settled
<1>3. to.sum + Total(DiskWeights, to.left) = DiskBytes
  BY DiskBytesAre
<1>4. usage' \in Usage /\ usage'.known = usage.known /\ usage'.bytes = usage.bytes
  BY <1>1, CountWas DEF Usage
<1>5. to.clean => Settled
  OBVIOUS
<1> HIDE DEF to
<1> QED BY <1>1, <1>2, <1>3, <1>4, <1>5, CountWas, ScanGoes

LEMMA ScanFileKeeps ==
    ASSUME UsageInv, NEW s \in Scans, ScanFile(s) PROVE UsageInv'
<1> USE DEF UsageInv
<1>1. PICK c \in scan[s].left :
        scan' = [scan EXCEPT ![s].left = @ \ {c}, ![s].sum = @ + disk[c].size]
  BY DEF ScanFile
<1>2. scan[s].pc = "scan" /\ UNCHANGED <<disk, usage, task, ops, exact>> /\ scan[s] \in Scan
  BY DEF ScanFile, Shapes
<1>3. c \in Chapters /\ scan[s].left \in SUBSET Chapters /\ scan[s].sum \in Nat
  BY <1>1, <1>2 DEF Scan
<1> DEFINE n == scan[s].sum + disk[c].size
           rest == scan[s].left \ {c}
           to == [scan[s] EXCEPT !.left = rest, !.sum = n]
<1>4. scan' = [scan EXCEPT ![s] = to]
  BY <1>1 DEF Shapes
<1>5. n \in Nat /\ rest \in SUBSET Chapters /\ disk[c].size \in Nat
  BY <1>3, FileIs
<1>6. scan[s].clean =>
        Settled /\ scan[s].sum + Total(DiskWeights, scan[s].left) = DiskBytes
  BY <1>2 DEF CleanScans
<1>7. DiskWeights \in [Chapters -> Nat] /\ DiskWeights[c] = disk[c].size
  BY <1>3, WeightsAreNats DEF DiskWeights
<1>8. IsFiniteSet(scan[s].left) /\ IsFiniteSet(rest)
  BY <1>3, <1>5, SomeBytes, FS_Subset
<1>9. /\ Total(DiskWeights, scan[s].left) = DiskWeights[c] + Total(DiskWeights, rest)
  BY <1>1, <1>3, <1>7, <1>8, TotalWithout
<1>10. Total(DiskWeights, rest) \in Nat
  BY <1>5, <1>7, <1>8, TotalIsNat
<1>11. scan[s].clean => Settled /\ n + Total(DiskWeights, rest) = DiskBytes
  BY <1>3, <1>5, <1>6, <1>7, <1>9, <1>10
<1> HIDE DEF n, rest
<1>12. to \in Scan /\ to.clean = scan[s].clean /\ to.sum = n /\ to.left = rest
  BY <1>2, <1>5 DEF Scan
<1> HIDE DEF to
<1> QED BY <1>2, <1>4, <1>11, <1>12, CountWas, ScanGoes

LEMMA ScanWriteKeeps ==
    ASSUME UsageInv, NEW s \in Scans, ScanWrite(s) PROVE UsageInv'
<1> USE DEF UsageInv
<1>1. /\ scan[s].pc = "scan" /\ scan[s].left = {} /\ UNCHANGED <<disk, task, ops>>
      /\ usage' = [known |-> TRUE, bytes |-> scan[s].sum, fresh |-> TRUE, scanning |-> FALSE]
      /\ exact' = scan[s].clean /\ scan' = [scan EXCEPT ![s] = NoScan] /\ scan[s] \in Scan
  BY DEF ScanWrite, Shapes
<1>2. /\ scan[s].sum \in Nat /\ scan[s].clean \in BOOLEAN
      /\ usage' \in Usage /\ usage'.bytes = scan[s].sum
  BY <1>1 DEF Scan, Usage
<1>3. NoScan \in Scan /\ NoScan.pc = "idle"
  BY DEF NoScan, Scan
<1>4. scan[s].clean => Settled /\ scan[s].sum = DiskBytes
  <2>1. Total(DiskWeights, {}) = 0
    BY WeightsAreNats, TotalOfNone
  <2>2. Total(DiskWeights, scan[s].left) = 0
    BY <1>1, <2>1
  <2>3. scan[s].clean =>
          Settled /\ scan[s].sum + Total(DiskWeights, scan[s].left) = DiskBytes
    BY <1>1 DEF CleanScans
  <2> QED BY <1>2, <2>2, <2>3
<1>5. scan[s].clean => scan[s].sum + BehindBytes = DiskBytes + AheadBytes
  BY <1>2, <1>4, SettledBytes
<1> QED BY <1>1, <1>2, <1>3, <1>4, <1>5, ScanGoes

LEMMA ScanFailsKeeps ==
    ASSUME UsageInv, NEW s \in Scans, ScanFails(s) PROVE UsageInv'
<1> USE DEF UsageInv
<1>1. /\ usage' = [usage EXCEPT !.scanning = FALSE] /\ scan' = [scan EXCEPT ![s] = NoScan]
      /\ UNCHANGED <<disk, task, exact>> /\ ops' = ops + 1
  BY DEF ScanFails, ScanMark
<1>2. NoScan \in Scan /\ NoScan.pc = "idle"
  BY DEF NoScan, Scan
<1>3. usage' \in Usage /\ usage'.known = usage.known /\ usage'.bytes = usage.bytes
  BY <1>1, CountWas DEF Usage
<1> QED BY <1>1, <1>2, <1>3, CountWas, ScanGoes

LEMMA AgeKeeps ==
    ASSUME UsageInv, Age PROVE UsageInv'
<1> USE DEF UsageInv
<1>1. usage' \in Usage /\ usage'.known = usage.known /\ usage'.bytes = usage.bytes
  BY CountWas DEF Age, Usage
<1> QED BY <1>1, OnlyTheCount DEF Age

LEMMA ChangeDirectoryKeeps ==
    ASSUME UsageInv, ChangeDirectory PROVE UsageInv'
<1> USE DEF UsageInv
<1>1. usage' \in Usage /\ ~usage'.known
  BY DEF ChangeDirectory, Unknown, Usage
<1> QED BY <1>1, OnlyTheCount DEF ChangeDirectory

-----------------------------------------------------------------------------
(* The invariant holds, and what follows.                                  *)

LEMMA InitUsageInv == Init => UsageInv
<1> SUFFICES ASSUME Init PROVE UsageInv
  OBVIOUS
<1>1. /\ \A t \in Tasks : task[t] = Resting
      /\ \A s \in Scans : scan[s].pc = "idle" /\ scan[s] \in Scan
      /\ \A c \in Chapters : disk[c] \in File /\ disk[c].hash = 0
      /\ ops = 0 /\ usage \in Usage /\ ~usage.known
  BY SomeBytes DEF Init, NoScan, Scan, File, Unknown, Usage
<1>2. Shapes
  BY <1>1, SomeBytes, RestingIs DEF Init, Shapes, File, NoScan, Scan
<1>3. Operations
  BY <1>1, RestingIs DEF Operations, Placed, Sized, AtChapter
<1>4. CleanScans /\ CountIsExact
  BY <1>1 DEF CleanScans, CountIsExact
<1> QED BY <1>2, <1>3, <1>4 DEF UsageInv

LEMMA TaskStepKeeps ==
    ASSUME UsageInv, NEW t \in Tasks, TaskStep(t) PROVE UsageInv'
BY ReserveKeeps, RollBackKeeps, PublishKeeps, LateCancelKeeps, UndoKeeps, CompleteKeeps,
   InvalidateKeeps, RescanKeeps, ForgetKeeps, AppendKeeps, InspectAppendedKeeps, GrowKeeps
   DEF TaskStep

LEMMA UsageInvStep == UsageInv /\ [Next]_vars => UsageInv'
<1> SUFFICES ASSUME UsageInv, [Next]_vars PROVE UsageInv'
  OBVIOUS
<1>1. ASSUME NEW t \in Tasks, TaskStep(t) PROVE UsageInv'
  BY <1>1, TaskStepKeeps
<1>2. ASSUME NEW t \in Tasks, NEW c \in Chapters,
             Enforce(t, c) \/ Remove(t, c) \/ Inspect(t, c) \/ ChangeMetadata(t, c)
      PROVE  UsageInv'
  BY <1>2, EnforceKeeps, RemoveKeeps, InspectKeeps, ChangeMetadataKeeps
<1>3. ASSUME NEW s \in Scans, ScanStep(s) \/ ScanFails(s) PROVE UsageInv'
  BY <1>3, ScanStartKeeps, ScanFileKeeps, ScanWriteKeeps, ScanFailsKeeps DEF ScanStep
<1>4. CASE Age \/ ChangeDirectory
  BY <1>4, AgeKeeps, ChangeDirectoryKeeps
<1>5. CASE UNCHANGED vars
  BY <1>5, OnlyTheCount DEF vars, UsageInv, Shapes
<1> QED BY <1>1, <1>2, <1>3, <1>4, <1>5 DEF Next

LEMMA UsageInvHolds == Spec => []UsageInv
BY InitUsageInv, UsageInvStep, PTL DEF Spec

(* The cached count is the directory, plus what is reserved or is being    *)
(* forgotten, less what is being appended, for any number of archives,     *)
(* operations and scans of any sizes, in every order: until a scan runs    *)
(* beside an operation, an append fails half-way, a file is changed under  *)
(* a reservation (as a second attempt at the chapter does), or a           *)
(* subtraction saturates (DownloadStorageUsage, storage/src/lib.rs and     *)
(* server/src/downloader/storage_usage.rs).                                *)
THEOREM CountStaysExact == Spec => []CountIsExact
<1>1. UsageInv => CountIsExact
  BY DEF UsageInv
<1> QED BY <1>1, UsageInvHolds, PTL

LEMMA WithinCap ==
    ASSUME NEW count \in Nat, NEW cap \in Nat, NEW there \in Nat, NEW ahead \in Nat,
           NEW behind \in Nat, count <= cap, count + behind = there + ahead
    PROVE  there + ahead <= cap + behind
OBVIOUS

(* Only Reserve takes an operation from the build to a reservation.        *)
LEMMA OnlyReserve ==
    ASSUME Shapes, [Next]_vars, NEW t \in Tasks,
           task[t].pc = "build", task'[t].pc = "reserved"
    PROVE  Reserve(t)
<1>0. \A u \in Tasks : \A to : u # t /\ task' = [task EXCEPT ![u] = to] => task'[t] = task[t]
  BY DEF Shapes
<1>1. ASSUME NEW u \in Tasks, TaskStep(u) PROVE Reserve(t)
  <2>1. CASE u = t
    BY <1>1, <2>1
    DEF TaskStep, RollBack, Publish, LateCancel, Undo, Complete, Invalidate, Rescan, Forget,
        Append, InspectAppended, Grow
  <2>2. CASE u # t
    <3>1. Reserve(u) \/ InspectAppended(u) => task'[t].pc = task[t].pc
      BY <2>2 DEF Reserve, InspectAppended, Rest, Shapes
    <3>2. RollBack(u) \/ Undo(u) \/ Rescan(u) \/ Forget(u) \/ Grow(u) => task'[t].pc = task[t].pc
      BY <2>2 DEF RollBack, Undo, Rescan, Forget, Grow, Rest, Shapes
    <3>3. Publish(u) \/ LateCancel(u) \/ Invalidate(u) => task'[t].pc = task[t].pc
      BY <2>2 DEF Publish, LateCancel, Invalidate, Goto, Shapes
    <3>4. Complete(u) \/ Append(u) => task'[t].pc = task[t].pc
      BY <2>2 DEF Complete, Append, Rest, Shapes
    <3> QED BY <1>1, <3>1, <3>2, <3>3, <3>4 DEF TaskStep
  <2> QED BY <2>1, <2>2
<1>2. ASSUME NEW u \in Tasks, NEW c \in Chapters,
             Enforce(u, c) \/ Remove(u, c) \/ Inspect(u, c) \/ ChangeMetadata(u, c)
      PROVE  Reserve(t)
  <2>1. task[u].pc = "idle" /\ u # t
    BY <1>2 DEF Enforce, Remove, Inspect, ChangeMetadata, Start
  <2>2. task'[t].pc = task[t].pc
    BY <1>0, <1>2, <2>1 DEF Enforce, Remove, Inspect, ChangeMetadata
  <2> QED BY <2>2
<1>3. ASSUME \/ \E s \in Scans : ScanStep(s) \/ ScanFails(s)
             \/ Age \/ ChangeDirectory \/ UNCHANGED vars
      PROVE  Reserve(t)
  BY <1>3 DEF ScanStep, ScanStart, ScanFile, ScanWrite, ScanFails, Age, ChangeDirectory, vars
<1> QED BY <1>1, <1>2, <1>3 DEF Next

(* No reservation takes the directory over the cap together with all that  *)
(* is reserved or being forgotten, as long as the count is exact           *)
(* (reserve_download_storage_for_archive).                                 *)
THEOREM ReservationsFit == Spec => ReservationsFitCap
<1> DEFINE Fitting(t) ==
             task[t].pc = "build" /\ task'[t].pc = "reserved" /\ exact' =>
                (DiskBytes + AheadBytes)' <= Cap + BehindBytes'
<1>1. ASSUME UsageInv, [Next]_vars, NEW t \in Tasks,
             task[t].pc = "build", task'[t].pc = "reserved", exact'
      PROVE  (DiskBytes + AheadBytes)' <= Cap + BehindBytes'
  <2>1. Reserve(t)
    BY <1>1, OnlyReserve DEF UsageInv
  <2>2. UsageInv' /\ usage'.known /\ usage'.bytes <= Cap
    BY <1>1, <2>1, ReserveKeeps
  <2>3. usage'.bytes + BehindBytes' = DiskBytes' + AheadBytes'
    BY <1>1, <2>2 DEF UsageInv, CountIsExact
  <2>4. (Shapes => NatBytes)'
    BY BytesAreNats, PTL
  <2>5. /\ usage'.bytes \in Nat /\ Cap \in Nat
        /\ DiskBytes' \in Nat /\ AheadBytes' \in Nat /\ BehindBytes' \in Nat
    BY <2>2, <2>4, SomeBytes DEF UsageInv, Shapes, Usage, NatBytes
  <2>6. DiskBytes' + AheadBytes' <= Cap + BehindBytes'
    BY <2>2, <2>3, <2>5, WithinCap
  <2> QED BY <2>6
<1>2. UsageInv /\ [Next]_vars => \A t \in Tasks : Fitting(t)
  BY <1>1
<1> QED BY <1>2, UsageInvHolds, PTL DEF Spec, ReservationsFitCap
=============================================================================
