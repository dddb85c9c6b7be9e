------------------------------- MODULE Accounts -------------------------------
(***************************************************************************)
(* Who a request comes from: the sign-in through an OIDC issuer, sessions, *)
(* reader tokens and public shares.  A request reads the configuration and *)
(* then each thing it needs in a call of its own, while other requests     *)
(* sign out, revoke, stop sharing and change the configuration.  Pending   *)
(* sign-ins are kept in memory, everything else in the database.           *)
(*                                                                         *)
(* The configured key is left out: whoever has it is let in by the read of *)
(* the configuration alone.                                                *)
(***************************************************************************)
EXTENDS Naturals, FiniteSets

CONSTANTS
    Browsers, Requests, Series,
    MaxPending,  \* MAX_PENDING_LOGINS
    LoginTTL,    \* LOGIN_TTL
    SessionTTL,  \* SESSION_SECONDS
    MaxClock,     \* bound: the clock
    MaxAsked,    \* bound: requests
    MaxMade      \* bound: sign-ins, tokens and shares

VARIABLES
    config,    \* the authentication settings
    clock,
    pending,   \* OidcRuntime.pending
    sessions, tokens, shares,  \* the tables
    cookies,   \* what each browser keeps
    request,   \* what each request does
    made,      \* identifiers given so far
    asked,     \* requests so far
    granted,   \* history: the sign-ins that were turned into a session
    again,     \* history: one of them was turned into a second
    during     \* history: what has been valid since each request began

vars == <<config, clock, pending, sessions, tokens, shares, cookies, request, made, granted,
          again, during, asked>>

tableVars == <<sessions, tokens, shares>>
historyVars == <<granted, again>>

(* Settings that differ have different fingerprints, and settings that     *)
(* come back have theirs again.  The open ones have neither a sign-in nor  *)
(* a key: a server that is started by its command line makes itself a key. *)
Configs == {"open", "first", "second"}
Protected(c) == c # "open"
OidcConfigured(c) == c # "open"

NoCookies == [login |-> 0, session |-> 0, share |-> 0]
Idle == [op |-> "none", at |-> "idle", from |-> "none", sent |-> NoCookies, about |-> 0,
         config |-> "none", by |-> "none"]

Init ==
    /\ config \in Configs /\ clock = 0
    /\ pending = {} /\ sessions = {} /\ tokens = {} /\ shares = {}
    /\ cookies = [b \in Browsers |-> NoCookies]
    /\ request = [r \in Requests |-> Idle]
    /\ made = 0 /\ asked = 0 /\ granted = {} /\ again = FALSE
    /\ during = [r \in Requests |-> {}]

-----------------------------------------------------------------------------
Unexpired(rows) == {x \in rows : x.expires > clock}

Set(r, changes) == request' = [request EXCEPT ![r] = changes]
Goto(r, at) == request' = [request EXCEPT ![r].at = at]
End(r) == Set(r, Idle)
Admit(r, by) == Set(r, [request[r] EXCEPT !.at = "admitted", !.by = by])

(* A request: what is asked for, with the cookies of the browser and a     *)
(* reader's token, or about which sign-in.  All that is under /v1 passes   *)
(* authorize, whatever it changes; what the owner does outside of it asks  *)
(* for a session itself.                                                   *)
Guarded == {"read", "configure", "mint", "revoke"}
Owned == {"share", "unshare", "aidoku"}
Operations == Guarded \cup Owned \cup {"login", "callback", "logout", "open"}

(* Of the cookies only those the operation looks at.                       *)
Sent(op, kept) ==
    [login |-> IF op = "callback" THEN kept.login ELSE 0,
     session |-> IF op \in Guarded \cup Owned \cup {"logout"} THEN kept.session ELSE 0,
     share |-> IF op = "read" THEN kept.share ELSE 0]

Start(r) ==
    /\ request[r].at = "idle" /\ asked < MaxAsked /\ asked' = asked + 1
    /\ \E op \in Operations, b \in Browsers, about \in 0 .. made :
        /\ about # 0 => op \in Guarded \cup {"callback"}
        /\ Set(r, [Idle EXCEPT !.op = op, !.at = "config", !.from = b, !.sent = Sent(op, cookies[b]),
                               !.about = about])
    /\ UNCHANGED <<config, clock, pending, tableVars, cookies, made, historyVars>>

(* AuthConfig::read, and what follows from it alone.                       *)
ReadConfig(r) ==
    /\ request[r].at = "config"
    /\ LET q == request[r]
           Then(at, by) == Set(r, [q EXCEPT !.at = at, !.config = config, !.by = by])
           Forget(at) == Set(r, [q EXCEPT !.at = at, !.config = config, !.sent = NoCookies]) IN
       CASE q.op = "login" -> IF OidcConfigured(config) THEN Forget("begin") ELSE End(r)
         [] q.op = "callback" ->
                IF OidcConfigured(config) /\ q.sent.login # 0 THEN Then("finish", "none")
                ELSE End(r)
         [] q.op = "logout" -> Goto(r, "erase") \/ End(r)
         [] q.op = "open" -> Goto(r, "open")
         [] q.op \in Guarded /\ q.about # 0 -> Then("token", "none")
         [] OTHER ->
                IF Protected(config) THEN Then("session", "none")
                ELSE Then("admitted", "open") \/ (q.op \in {"share", "unshare"} /\ End(r))
    /\ UNCHANGED <<config, clock, pending, tableVars, cookies, made, asked, historyVars>>

-----------------------------------------------------------------------------
(* authorize and require_owner.                                            *)

(* consume_api_token: the row is read, and its use is recorded later.      *)
FindToken(r) ==
    /\ request[r].at = "token"
    /\ IF request[r].about \in tokens THEN Goto(r, "use")
       ELSE IF Protected(request[r].config) THEN Goto(r, "session") ELSE Admit(r, "open")
    /\ UNCHANGED <<config, clock, pending, tableVars, cookies, made, asked, historyVars>>

UseToken(r) ==
    /\ request[r].at = "use"
    /\ Admit(r, "token") \/ End(r)
    /\ UNCHANGED <<config, clock, pending, tableVars, cookies, made, asked, historyVars>>

(* session_user, and the origin a change must come from.                   *)
IsSignedIn(q) ==
    \E s \in Unexpired(sessions) : s.id = q.sent.session /\ s.config = q.config

FindSession(r) ==
    /\ request[r].at = "session"
    /\ IF IsSignedIn(request[r]) THEN Admit(r, "session") \/ End(r)
       ELSE IF request[r].op = "read" /\ request[r].sent.share # 0 THEN Goto(r, "share")
       ELSE End(r)
    /\ UNCHANGED <<config, clock, pending, tableVars, cookies, made, asked, historyVars>>

(* shared_request_allowed: some paths of the shared series.                *)
FindShare(r) ==
    /\ request[r].at = "share"
    /\ \/ (\E s \in shares : s.id = request[r].sent.share) /\ Admit(r, "share")
       \/ End(r)
    /\ UNCHANGED <<config, clock, pending, tableVars, cookies, made, asked, historyVars>>

-----------------------------------------------------------------------------
(* What an admitted request does.                                          *)

Share(r) ==
    /\ \E s \in Series :
        IF \E x \in shares : x.of = s THEN UNCHANGED <<shares, made>>
        ELSE /\ made < MaxMade /\ made' = made + 1
             /\ shares' = shares \cup {[id |-> made + 1, of |-> s]}
    /\ UNCHANGED tokens

Unshare(r) ==
    /\ \E s \in Series : shares' = {x \in shares : x.of # s}
    /\ UNCHANGED <<tokens, made>>

(* create_api_token and aidoku_login.                                      *)
Mint(r) ==
    /\ made < MaxMade /\ made' = made + 1
    /\ tokens' = tokens \cup {made + 1}
    /\ UNCHANGED shares

Revoke(r) ==
    /\ \E t \in tokens : tokens' = tokens \ {t}
    /\ UNCHANGED <<shares, made>>

(* The settings are written, or the key is replaced.                       *)
Configure(r) == config' \in Configs \ {config}

Perform(r) ==
    /\ request[r].at = "admitted"
    /\ IF request[r].op = "configure" THEN Configure(r) ELSE UNCHANGED config
    /\ CASE request[r].op = "share" -> Share(r)
         [] request[r].op = "unshare" -> Unshare(r)
         [] request[r].op \in {"mint", "aidoku"} -> Mint(r)
         [] request[r].op = "revoke" /\ tokens # {} -> Revoke(r)
         [] OTHER -> UNCHANGED <<tokens, shares, made>>
    /\ End(r)
    /\ UNCHANGED <<clock, pending, sessions, cookies, asked, historyVars>>

-----------------------------------------------------------------------------
(* The sign-in.                                                            *)

(* begin: the metadata of the issuer, then the pending sign-in, unless     *)
(* there are too many.                                                     *)
Begin(r) ==
    /\ request[r].at = "begin"
    /\ \/ UNCHANGED <<pending, cookies, made>>
       \/ /\ pending' = Unexpired(pending)
          /\ Cardinality(Unexpired(pending)) >= MaxPending
          /\ UNCHANGED <<cookies, made>>
       \/ /\ Cardinality(Unexpired(pending)) < MaxPending
          /\ made < MaxMade /\ made' = made + 1
          /\ pending' = Unexpired(pending) \cup
                {[id |-> made + 1, from |-> request[r].from, config |-> request[r].config,
                  expires |-> clock + LoginTTL]}
          /\ cookies' = [cookies EXCEPT ![request[r].from].login = made + 1]
    /\ End(r)
    /\ UNCHANGED <<config, clock, tableVars, asked, historyVars>>

(* A slip: a sign-in stays pending until it expires.                       *)
StillPending(l) == pending

(* A sign-in is taken out before anything of it is checked.                *)
WithoutLogin(l) == pending \ {l}

Finish(r) ==
    /\ request[r].at = "finish"
    /\ LET q == request[r] IN
       \/ /\ \A l \in pending : l.id # q.about
          /\ End(r)
          /\ UNCHANGED pending
       \/ \E l \in pending :
          /\ l.id = q.about
          /\ pending' = WithoutLogin(l)
          /\ IF l.expires > clock /\ q.sent.login = l.id /\ l.config = q.config
             THEN Set(r, [q EXCEPT !.at = "exchange", !.sent = NoCookies]) ELSE End(r)
    /\ UNCHANGED <<config, clock, tableVars, cookies, made, asked, historyVars>>

(* The code is exchanged and the token of the issuer verified, if need be  *)
(* with refreshed keys; then the session is written.  Its identifier here  *)
(* is that of its sign-in.                                                 *)
CreateSession(r) ==
    /\ request[r].at = "exchange"
    /\ \/ UNCHANGED <<sessions, cookies, historyVars>>
       \/ /\ sessions' = Unexpired(sessions) \cup
                {[id |-> request[r].about, config |-> request[r].config,
                  expires |-> clock + SessionTTL]}
          /\ cookies' = [cookies EXCEPT ![request[r].from] =
                            [@ EXCEPT !.session = request[r].about, !.login = 0]]
          /\ granted' = granted \cup {request[r].about}
          /\ again' = (again \/ request[r].about \in granted)
    /\ End(r)
    /\ UNCHANGED <<config, clock, pending, tokens, shares, made, asked>>

Logout(r) ==
    /\ request[r].at = "erase"
    /\ sessions' = {s \in sessions : s.id # request[r].sent.session}
    /\ cookies' = [cookies EXCEPT ![request[r].from] = NoCookies]
    /\ End(r)
    /\ UNCHANGED <<config, clock, pending, tokens, shares, made, asked, historyVars>>

OpenShare(r) ==
    /\ request[r].at = "open"
    /\ \/ \E s \in shares : cookies' = [cookies EXCEPT ![request[r].from].share = s.id]
       \/ UNCHANGED cookies
    /\ End(r)
    /\ UNCHANGED <<config, clock, pending, tableVars, made, asked, historyVars>>

-----------------------------------------------------------------------------
(* The surroundings.                                                       *)

Tick ==
    /\ clock < MaxClock /\ clock' = clock + 1
    /\ UNCHANGED <<config, pending, tableVars, cookies, request, made, asked, historyVars>>

(* The process restarts: what was pending is gone, and the environment may *)
(* override the settings.                                                  *)
Restart ==
    /\ pending' = {}
    /\ request' = [r \in Requests |-> Idle]
    /\ config' \in Configs
    /\ UNCHANGED <<clock, tableVars, cookies, made, asked, historyVars>>

Steps ==
    \/ \E r \in Requests :
        \/ Start(r) \/ ReadConfig(r) \/ FindToken(r) \/ UseToken(r) \/ FindSession(r)
        \/ FindShare(r) \/ Perform(r) \/ Begin(r) \/ Finish(r) \/ CreateSession(r)
        \/ Logout(r) \/ OpenShare(r)
    \/ Tick \/ Restart

(* History: what a request may rely on that is valid.                      *)
Valid(q) ==
    {q.about, q.sent.session, q.sent.share} \cap
        (tokens \cup {s.id : s \in shares} \cup {s.id : s \in Unexpired(sessions)})

Observe ==
    during' = [r \in Requests |->
        IF request'[r].op \notin Guarded \cup Owned THEN {}
        ELSE during[r] \cup Valid(request'[r]) \cup Valid(request[r])']

Next == Steps /\ Observe

Spec == Init /\ [][Next]_vars

-----------------------------------------------------------------------------
TypeOK ==
    /\ config \in Configs /\ clock \in 0 .. MaxClock
    /\ pending \subseteq [id : 1 .. made, from : Browsers, config : Configs,
                          expires : 0 .. MaxClock + LoginTTL]
    /\ sessions \subseteq [id : 1 .. made, config : Configs, expires : 0 .. MaxClock + SessionTTL]
    /\ tokens \subseteq 1 .. made /\ shares \subseteq [id : 1 .. made, of : Series]
    /\ granted \subseteq 1 .. made /\ again \in BOOLEAN
    /\ \A r \in Requests : request[r].at \in
        {"idle", "config", "token", "use", "session", "share", "admitted", "begin", "finish",
         "exchange", "erase", "open"}

(* A request is admitted by something that was valid at some moment since  *)
(* it began; a share lets nobody change anything, a reader's token lets    *)
(* its holder do all that is under /v1, other tokens and the settings      *)
(* included, and nothing that asks for the owner; and a sign-in makes one  *)
(* session, however often its callback arrives.                            *)
AccessIsEarned ==
    /\ ~again /\ Cardinality(pending) <= MaxPending
    /\ \A r \in Requests : request[r].at = "admitted" =>
        LET q == request[r] IN
        CASE q.by = "open" -> ~Protected(q.config)
          [] q.by = "token" -> q.op \in Guarded /\ q.about \in during[r]
          [] q.by = "session" -> q.sent.session \in during[r]
          [] q.by = "share" -> q.op = "read" /\ q.sent.share \in during[r]
=============================================================================
