------------------------------- MODULE Auth -------------------------------
(***************************************************************************)
(* Who may call the API: UI sessions, API tokens and the master            *)
(* credentials, and the two per-client rate limiters, of failed            *)
(* authentications and of unlock, grow and keyslot attempts.               *)
(*                                                                         *)
(* Requests run concurrently; each map has a mutex of its own and each     *)
(* database statement is atomic, so a request is cut where it leaves one   *)
(* of them.  Time passes in ticks; ages stop one past the limit they are   *)
(* compared with.  A restart is a new behaviour: it empties the maps.      *)
(***************************************************************************)
EXTENDS Naturals, FiniteSets

CONSTANTS
    Tasks,         \* concurrent requests
    IPs,           \* clients, as clientIP tells them apart
    Burst,         \* of both limiters, 5
    EveryAuth,     \* ticks for one more failed authentication, 1 min
    EveryUnlock,   \* ticks for one more unlock attempt, 30 s
    IdleEntry,     \* an entry idle for longer is dropped, 10 min
    SessionIds,    \* bound: the sessions that are ever created
    SessionIdle,   \* SESSION_IDLE_HOURS
    SessionMaxAge, \* SESSION_MAX_AGE_HOURS
    Names,         \* names of API tokens
    MaxTokens,     \* bound: tokens ever created
    NoCookie,
    NoRow

Clients == {"auth", "unlock"} \X IPs
Every   == [k \in Clients |-> IF k[1] = "auth" THEN EveryAuth ELSE EveryUnlock]
Full(k) == Burst * Every[k]

\* The table api_tokens.
TokenRows == [id : 1..MaxTokens, hash : 1..MaxTokens, name : Names, used : BOOLEAN]

ASSUME AuthAssumption ==
    /\ Burst \in Nat \ {0} /\ EveryAuth \in Nat \ {0} /\ EveryUnlock \in Nat \ {0}
    /\ IdleEntry \in Nat
    /\ IdleEntry >= Burst * EveryAuth /\ IdleEntry >= Burst * EveryUnlock
    /\ SessionIdle \in Nat /\ SessionMaxAge \in Nat
    /\ MaxTokens \in Nat
    /\ IPs # {}
    /\ NoCookie \notin SessionIds /\ NoRow \notin TokenRows

VARIABLES
    limiters,  \* authLimiters and unlockLimiters: the credit and idle time of an entry
    sessions,  \* of each id: not created yet, live, or ended; its age and idle time
    tokens,    \* the rows of api_tokens
    nextId,    \* AUTOINCREMENT of api_tokens
    pc,
    req        \* of each request: its client, its cookie, the token row it read

vars == <<limiters, sessions, tokens, nextId, pc, req>>

NoReq == [ip |-> CHOOSE ip \in IPs : TRUE, cookie |-> NoCookie, row |-> NoRow]

-----------------------------------------------------------------------------
(* The limiters.                                                           *)

Credit(k) == IF k \in DOMAIN limiters THEN limiters[k].credit ELSE Full(k)

\* Bug: lastSeen is set only when the entry is made.
SeenOnce(k, credit) ==
    [j \in DOMAIN limiters \cup {k} |->
        IF j = k
        THEN [credit |-> credit, idle |-> IF k \in DOMAIN limiters THEN limiters[k].idle ELSE 0]
        ELSE limiters[j]]

\* The entry with its lastSeen set to now.
Seen(k, credit) ==
    [j \in DOMAIN limiters \cup {k} |->
        IF j = k THEN [credit |-> credit, idle |-> 0] ELSE limiters[j]]

\* Bug: the attempt is let through, and paid for, without asking.
AllowUnchecked(k) == limiters' = Seen(k, Credit(k) - Every[k])

\* unlockAllowed and authAllowed: an entry is made when there is none, and
\* Allow takes a token; a refusal only marks the entry as seen.
Allow(k) ==
    /\ Credit(k) >= Every[k]
    /\ limiters' = Seen(k, Credit(k) - Every[k])

Deny(k) ==
    /\ Credit(k) < Every[k]
    /\ limiters' = Seen(k, Credit(k))

Drop(gone) == limiters' = [k \in DOMAIN limiters \ gone |-> limiters[k]]

\* Bug: every entry is dropped at each run.
CleanupLimitersAll ==
    /\ Drop(DOMAIN limiters)
    /\ UNCHANGED <<sessions, tokens, nextId, pc, req>>

\* cleanupLimiters, on both maps.
CleanupLimiters ==
    /\ Drop({k \in DOMAIN limiters : limiters[k].idle > IdleEntry})
    /\ UNCHANGED <<sessions, tokens, nextId, pc, req>>

-----------------------------------------------------------------------------
(* The requests.                                                           *)

Goto(t, from, to) == pc[t] = from /\ pc' = [pc EXCEPT ![t] = to]

End(t) == req' = [req EXCEPT ![t] = NoReq]

Live(s)    == s \in SessionIds /\ sessions[s].state = "live"
Expired(s) == sessions[s].idle > SessionIdle \/ sessions[s].age > SessionMaxAge

SetSession(s, state, age) ==
    sessions' = [sessions EXCEPT ![s] = [state |-> state, age |-> age, idle |-> 0]]

\* Bug: the refresh replaces the session by a new one.
RefreshRenews(s) == SetSession(s, "live", 0)

\* The sliding expiry: lastSeen, not createdAt.
Refresh(s) == SetSession(s, "live", sessions[s].age)

\* The request comes in with a cookie, or none: validSession.
ValidSession(t, ip, s) ==
    /\ req' = [req EXCEPT ![t] = [ip |-> ip, cookie |-> s, row |-> NoRow]]
    /\ \/ Live(s) /\ ~Expired(s) /\ Refresh(s) /\ Goto(t, "idle", "clear")
       \/ Live(s) /\ Expired(s) /\ SetSession(s, "ended", 0) /\ Goto(t, "idle", "api")
       \/ ~Live(s) /\ UNCHANGED sessions /\ Goto(t, "idle", "api")
    /\ UNCHANGED <<limiters, tokens, nextId>>

\* validAPICredentials: the master pair, or a token found by its hash.
MasterCredentials(t) ==
    /\ Goto(t, "api", "clear")
    /\ UNCHANGED <<limiters, sessions, tokens, nextId, req>>

TokenCredentials(t, row) ==
    /\ row \in tokens
    /\ Goto(t, "api", "clear")
    /\ req' = [req EXCEPT ![t].row = row]
    /\ UNCHANGED <<limiters, sessions, tokens, nextId>>

\* No valid credentials: 401 (or the login page) while the limiter allows it,
\* then 429.
Unauthorized(t) ==
    /\ Goto(t, "api", "idle") /\ End(t)
    /\ LET k == <<"auth", req[t].ip>> IN Allow(k) \/ Deny(k)
    /\ UNCHANGED <<sessions, tokens, nextId>>

\* clearAuthFailures after valid credentials.
ClearAuthFailures(t) ==
    /\ Drop({<<"auth", req[t].ip>>})
    /\ \/ Goto(t, "clear", "touch") /\ req[t].row # NoRow
       \/ Goto(t, "clear", "serve") /\ req[t].row = NoRow
    /\ UNCHANGED <<sessions, tokens, nextId, req>>

\* TouchAPIToken by id: the row may be gone by now; its failure is ignored.
TouchAPIToken(t) ==
    /\ Goto(t, "touch", "serve")
    /\ \/ tokens' = {IF r.id = req[t].row.id THEN [r EXCEPT !.used = TRUE] ELSE r : r \in tokens}
       \/ UNCHANGED tokens
    /\ req' = [req EXCEPT ![t].row = NoRow]
    /\ UNCHANGED <<limiters, sessions, nextId>>

\* login: the limiter comes first, for a valid login too.
LoginAllowed(t, ip) ==
    /\ LET k == <<"auth", ip>> IN
       \/ /\ Allow(k) /\ Goto(t, "idle", "login")
          /\ req' = [req EXCEPT ![t].ip = ip]
       \/ /\ Allow(k) \/ Deny(k)   \* wrong credentials, or throttled
          /\ pc[t] = "idle"
          /\ UNCHANGED <<pc, req>>
    /\ UNCHANGED <<sessions, tokens, nextId>>

LoginClear(t) ==
    /\ Goto(t, "login", "session")
    /\ Drop({<<"auth", req[t].ip>>})
    /\ UNCHANGED <<sessions, tokens, nextId, req>>

\* The new session, under a random id; or no random number can be had.
LoginSession(t) ==
    /\ Goto(t, "session", "idle") /\ End(t)
    /\ \/ \E s \in SessionIds : sessions[s].state = "new" /\ SetSession(s, "live", 0)
       \/ UNCHANGED sessions
    /\ UNCHANGED <<limiters, tokens, nextId>>

(* The handlers behind auth.                                               *)

\* logout ends the session of the cookie, however the request got in.
Logout(t) ==
    /\ Goto(t, "serve", "idle") /\ End(t)
    /\ \/ Live(req[t].cookie) /\ SetSession(req[t].cookie, "ended", 0)
       \/ ~Live(req[t].cookie) /\ UNCHANGED sessions
    /\ UNCHANGED <<limiters, tokens, nextId>>

\* unlock, grow, keyslot add and remove: unlockAllowed, then the vault; or a
\* handler without a limiter.
UnlockAllowed(t) ==
    /\ Goto(t, "serve", "idle") /\ End(t)
    /\ LET k == <<"unlock", req[t].ip>> IN Allow(k) \/ Deny(k) \/ UNCHANGED limiters
    /\ UNCHANGED <<sessions, tokens, nextId>>

\* Bug: without AUTOINCREMENT the id of a deleted row is given out again.
CreateTokenReusesId(t, name) ==
    /\ Goto(t, "serve", "idle") /\ End(t)
    /\ \A r \in tokens : r.name # name
    /\ nextId <= MaxTokens
    /\ nextId' = nextId + 1
    /\ tokens' = tokens \cup {[id |-> Cardinality(tokens) + 1, hash |-> nextId,
                               name |-> name, used |-> FALSE]}
    /\ UNCHANGED <<limiters, sessions>>

\* createToken: name and hash are UNIQUE, the id is a new one.
CreateToken(t, name) ==
    /\ Goto(t, "serve", "idle") /\ End(t)
    /\ \A r \in tokens : r.name # name
    /\ nextId <= MaxTokens
    /\ nextId' = nextId + 1
    /\ tokens' = tokens \cup {[id |-> nextId, hash |-> nextId, name |-> name, used |-> FALSE]}
    /\ UNCHANGED <<limiters, sessions>>

\* listTokens: the user picks a row to revoke; deleteToken comes with its id
\* when the row may be another one or none.
ListTokens(t, row) ==
    /\ row \in tokens
    /\ Goto(t, "serve", "revoke")
    /\ req' = [req EXCEPT ![t].row = row]
    /\ UNCHANGED <<limiters, sessions, tokens, nextId>>

DeleteToken(t) ==
    /\ Goto(t, "revoke", "idle") /\ End(t)
    /\ tokens' = {r \in tokens : r.id # req[t].row.id}
    /\ UNCHANGED <<limiters, sessions, nextId>>

-----------------------------------------------------------------------------
\* cleanupSessions.
CleanupSessions ==
    /\ sessions' = [s \in SessionIds |->
           IF Live(s) /\ Expired(s) THEN [state |-> "ended", age |-> 0, idle |-> 0]
                                   ELSE sessions[s]]
    /\ UNCHANGED <<limiters, tokens, nextId, pc, req>>

UpTo(n, limit) == IF n < limit THEN n + 1 ELSE limit

Tick ==
    /\ limiters' = [k \in DOMAIN limiters |->
           [credit |-> UpTo(limiters[k].credit, Full(k)),
            idle   |-> UpTo(limiters[k].idle, IdleEntry + 1)]]
    /\ sessions' = [s \in SessionIds |->
           IF Live(s) THEN [state |-> "live",
                            age   |-> UpTo(sessions[s].age, SessionMaxAge + 1),
                            idle  |-> UpTo(sessions[s].idle, SessionIdle + 1)]
                      ELSE sessions[s]]
    /\ UNCHANGED <<tokens, nextId, pc, req>>

Init ==
    /\ limiters = << >>
    /\ sessions = [s \in SessionIds |-> [state |-> "new", age |-> 0, idle |-> 0]]
    /\ tokens = {} /\ nextId = 1
    /\ pc = [t \in Tasks |-> "idle"]
    /\ req = [t \in Tasks |-> NoReq]

Authenticate(t) ==
    \/ \E ip \in IPs, s \in SessionIds \cup {NoCookie} : ValidSession(t, ip, s)
    \/ MasterCredentials(t)
    \/ \E row \in tokens : TokenCredentials(t, row)
    \/ Unauthorized(t)
    \/ ClearAuthFailures(t) \/ TouchAPIToken(t)

Login(t) ==
    \/ \E ip \in IPs : LoginAllowed(t, ip)
    \/ LoginClear(t) \/ LoginSession(t)

Serve(t) ==
    \/ Logout(t) \/ UnlockAllowed(t)
    \/ \E name \in Names : CreateToken(t, name)
    \/ \E row \in tokens : ListTokens(t, row)
    \/ DeleteToken(t)

Next ==
    \/ \E t \in Tasks : Authenticate(t) \/ Login(t) \/ Serve(t)
    \/ CleanupLimiters \/ CleanupSessions
    \/ Tick

\* Time passes and the tickers fire; nothing is assumed of the clients.
Fairness == WF_vars(Tick) /\ WF_vars(CleanupSessions)

Spec == Init /\ [][Next]_vars /\ Fairness

-----------------------------------------------------------------------------
TypeOK ==
    /\ DOMAIN limiters \subseteq Clients
    /\ \A k \in DOMAIN limiters :
          limiters[k].credit \in 0..Full(k) /\ limiters[k].idle \in 0..IdleEntry + 1
    /\ sessions \in [SessionIds -> [state : {"new", "live", "ended"},
                                    age : 0..SessionMaxAge + 1, idle : 0..SessionIdle + 1]]
    /\ tokens \subseteq TokenRows /\ nextId \in 1..MaxTokens + 1
    /\ pc \in [Tasks -> {"idle", "api", "clear", "touch", "login", "session", "serve", "revoke"}]
    /\ req \in [Tasks -> [ip : IPs, cookie : SessionIds \cup {NoCookie},
                           row : TokenRows \cup {NoRow}]]

\* An entry's bucket has refilled at least as long as the entry was idle: why
\* cleanupLimiters only drops entries as good as new.
RefilledWhileIdle ==
    \A k \in DOMAIN limiters :
        limiters[k].credit >= limiters[k].idle \/ limiters[k].credit = Full(k)

\* The requests with valid credentials whose client is about to be cleared.
Verified ==
    {<<t, <<"auth", req[t].ip>>>> : t \in {t \in Tasks : pc[t] \in {"clear", "login"}}}

Bucket == INSTANCE TokenBucket WITH
              Visits   <- Tasks,
              credit   <- [k \in Clients |-> Credit(k)],
              verified <- Verified

\* Entries are made on demand and dropped by the clean-up of both maps and by
\* valid credentials, all concurrently: still no client gets an attempt more
\* than from a bucket that is kept for ever (api.go:1039-1055, 1205-1229).
LimitersKeepTheirPromise == Bucket!Spec

\* SESSION_MAX_AGE_HOURS is an absolute cap (api.go:90): a session ends whether
\* it is in constant use, never used again, or its owner never comes back.
SessionsEnd == \A s \in SessionIds : Live(s) ~> ~Live(s)

\* A row is touched or deleted only by a request that means that token: the id
\* a request read before the row was deleted never names a later token.
StaleIdsHarmless ==
    [][\A r \in tokens : r \notin tokens' =>
        \E t \in Tasks : pc[t] \in {"touch", "revoke"} /\ req[t].row.hash = r.hash]_vars

=============================================================================
