---------------------------- MODULE Auth_proofs ----------------------------
(* Theorems about Auth, for any clients, requests, sessions, tokens and     *)
(* limits: the limiters implement TokenBucket.                              *)
EXTENDS Auth, Integers, TLAPS

-----------------------------------------------------------------------------
(* The limiters.                                                           *)

\* The bucket of every client as TokenBucket sees it.
Credits == [k \in Clients |-> Credit(k)]

LimitersOK ==
    /\ DOMAIN limiters \subseteq Clients
    /\ \A k \in DOMAIN limiters :
          limiters[k].credit \in 0..Full(k) /\ limiters[k].idle \in 0..IdleEntry + 1

\* An entry that is dropped for being idle had the time to fill its bucket.
LEMMA FullTypes ==
    ASSUME NEW k \in Clients
    PROVE  Every[k] \in Nat \ {0} /\ Full(k) \in Nat /\ Full(k) <= IdleEntry
  <1>1. Every[k] \in {EveryAuth, EveryUnlock}
    BY DEF Every
  <1>2. Burst * EveryAuth \in Nat /\ Burst * EveryUnlock \in Nat
    BY AuthAssumption, Z3
  <1> QED
    BY <1>1, <1>2, AuthAssumption DEF Full

LEMMA CreditTypes ==
    ASSUME LimitersOK, NEW k \in Clients
    PROVE  Credit(k) \in 0..Full(k)
  BY FullTypes DEF LimitersOK, Credit

\* An entry is made or seen.
LEMMA SeenStep ==
    ASSUME LimitersOK, RefilledWhileIdle, NEW k \in Clients, NEW c \in 0..Full(k),
           limiters' = Seen(k, c)
    PROVE  /\ LimitersOK' /\ RefilledWhileIdle'
           /\ Credits' = [Credits EXCEPT ![k] = c]
  <1>1. DOMAIN limiters' = DOMAIN limiters \cup {k}
    BY DEF Seen
  <1>2. \A j \in DOMAIN limiters' :
           limiters'[j] = IF j = k THEN [credit |-> c, idle |-> 0] ELSE limiters[j]
    BY DEF Seen
  <1>3. LimitersOK'
    BY <1>1, <1>2, AuthAssumption DEF LimitersOK, Full
  <1>4. RefilledWhileIdle'
    BY <1>1, <1>2, FullTypes DEF RefilledWhileIdle, Full
  <1>5. \A j \in Clients : Credit(j)' = IF j = k THEN c ELSE Credit(j)
    BY <1>1, <1>2 DEF Credit, Full
  <1> QED
    BY <1>3, <1>4, <1>5 DEF Credits

\* Entries are dropped.
LEMMA DropStep ==
    ASSUME LimitersOK, RefilledWhileIdle, NEW gone, Drop(gone)
    PROVE  /\ LimitersOK' /\ RefilledWhileIdle'
           /\ \A k \in Clients : Credit(k)' = IF k \in gone THEN Full(k) ELSE Credit(k)
  <1>1. DOMAIN limiters' = DOMAIN limiters \ gone
    BY DEF Drop
  <1>2. \A j \in DOMAIN limiters' : limiters'[j] = limiters[j]
    BY DEF Drop
  <1> QED
    BY <1>1, <1>2 DEF LimitersOK, RefilledWhileIdle, Credit, Full

\* An attempt: the limiter takes a token, or refuses and takes none.
LEMMA AttemptStep ==
    ASSUME LimitersOK, RefilledWhileIdle, NEW k \in Clients, Allow(k) \/ Deny(k)
    PROVE  /\ LimitersOK' /\ RefilledWhileIdle'
           /\ \/ /\ Credits[k] >= Every[k]
                 /\ Credits' = [Credits EXCEPT ![k] = Credits[k] - Every[k]]
              \/ Credits' = Credits /\ ~Allow(k)
  <1>1. Credit(k) \in 0..Full(k) /\ Every[k] \in Nat \ {0} /\ Full(k) \in Nat
    BY CreditTypes, FullTypes
  <1>2. Credits[k] = Credit(k)
    BY DEF Credits
  <1>3. CASE Allow(k)
    <2>1. Credit(k) - Every[k] \in 0..Full(k)
      BY <1>1, <1>3 DEF Allow
    <2> QED
      BY <1>1, <1>2, <1>3, <2>1, SeenStep DEF Allow
  <1>4. CASE Deny(k)
    <2>1. [Credits EXCEPT ![k] = Credit(k)] = Credits
      BY <1>2 DEF Credits
    <2>2. ~Allow(k)
      BY <1>1, <1>4 DEF Allow, Deny
    <2> QED
      BY <1>1, <1>4, <2>1, <2>2, SeenStep DEF Deny
  <1> QED
    BY <1>3, <1>4

\* Time passes: every bucket, kept or not, fills as TokenBucket's do.
LEMMA TickStep ==
    ASSUME LimitersOK, RefilledWhileIdle, Tick
    PROVE  /\ LimitersOK' /\ RefilledWhileIdle'
           /\ Credits' = [k \in Clients |->
                             IF Credits[k] < Full(k) THEN Credits[k] + 1 ELSE Full(k)]
  <1>1. DOMAIN limiters' = DOMAIN limiters
    BY DEF Tick
  <1>2. \A k \in DOMAIN limiters :
           limiters'[k] = [credit |-> UpTo(limiters[k].credit, Full(k)),
                           idle   |-> UpTo(limiters[k].idle, IdleEntry + 1)]
    BY DEF Tick
  <1>3. \A k \in DOMAIN limiters :
           /\ k \in Clients
           /\ limiters[k].credit \in 0..Full(k) /\ limiters[k].idle \in 0..IdleEntry + 1
           /\ Full(k) \in Nat /\ Full(k) <= IdleEntry
    BY FullTypes DEF LimitersOK
  <1>4. LimitersOK'
    BY <1>1, <1>2, <1>3, AuthAssumption DEF LimitersOK, UpTo, Full
  <1>5. RefilledWhileIdle'
    BY <1>1, <1>2, <1>3, AuthAssumption DEF RefilledWhileIdle, UpTo, Full
  <1>6. \A k \in Clients : Credit(k)' = IF Credit(k) < Full(k) THEN Credit(k) + 1 ELSE Full(k)
    <2> TAKE k \in Clients
    <2>1. CASE k \in DOMAIN limiters
      BY <1>1, <1>2, <1>3, <2>1 DEF Credit, UpTo
    <2>2. CASE k \notin DOMAIN limiters
      BY <1>1, <2>2, FullTypes DEF Credit
    <2> QED
      BY <2>1, <2>2
  <1> QED
    BY <1>4, <1>5, <1>6 DEF Credits

\* The clean-up drops full buckets only.
LEMMA CleanupStep ==
    ASSUME LimitersOK, RefilledWhileIdle, CleanupLimiters
    PROVE  LimitersOK' /\ RefilledWhileIdle' /\ Credits' = Credits
  <1> DEFINE gone == {k \in DOMAIN limiters : limiters[k].idle > IdleEntry}
  <1>1. Drop(gone)
    BY DEF CleanupLimiters
  <1>2. ASSUME NEW k \in gone PROVE Credit(k) = Full(k)
    BY FullTypes, AuthAssumption DEF LimitersOK, RefilledWhileIdle, Credit
  <1> HIDE DEF gone
  <1>3. \A k \in Clients : Credit(k)' = Credit(k)
    BY <1>1, <1>2, DropStep
  <1> QED
    BY <1>1, <1>3, DropStep DEF Credits

-----------------------------------------------------------------------------
(* Type correctness.                                                       *)

Pcs  == {"idle", "api", "clear", "touch", "login", "session", "serve", "revoke"}
Reqs == [ip : IPs, cookie : SessionIds \cup {NoCookie}, row : TokenRows \cup {NoRow}]

SessionsOK ==
    sessions \in [SessionIds -> [state : {"new", "live", "ended"},
                                 age : 0..SessionMaxAge + 1, idle : 0..SessionIdle + 1]]
TokensOK   == tokens \subseteq TokenRows /\ nextId \in 1..MaxTokens + 1
RequestsOK == pc \in [Tasks -> Pcs] /\ req \in [Tasks -> Reqs]

LEMMA TypeParts == TypeOK <=> LimitersOK /\ SessionsOK /\ TokensOK /\ RequestsOK
  BY DEF TypeOK, LimitersOK, SessionsOK, TokensOK, RequestsOK, Pcs, Reqs

Inv == TypeOK /\ RefilledWhileIdle

LEMMA ClientTypes ==
    ASSUME NEW ip \in IPs
    PROVE  <<"auth", ip>> \in Clients /\ <<"unlock", ip>> \in Clients
  BY DEF Clients

LEMMA InitInv == Init => Inv
  <1> SUFFICES ASSUME Init PROVE Inv
    OBVIOUS
  <1>1. DOMAIN limiters = {}
    BY DEF Init
  <1>2. LimitersOK /\ RefilledWhileIdle
    BY <1>1 DEF LimitersOK, RefilledWhileIdle
  <1>3. SessionsOK
    BY AuthAssumption DEF Init, SessionsOK
  <1>4. TokensOK
    BY AuthAssumption DEF Init, TokensOK
  <1>5. NoReq \in Reqs
    BY AuthAssumption DEF NoReq, Reqs
  <1>6. RequestsOK
    BY <1>5 DEF Init, RequestsOK, Pcs
  <1> QED
    BY <1>2, <1>3, <1>4, <1>6, TypeParts DEF Inv

\* A session is set to a new state, idle for no time.
LEMMA SetSessionStep ==
    ASSUME SessionsOK, NEW s \in SessionIds, NEW state \in {"new", "live", "ended"},
           NEW age \in 0..SessionMaxAge + 1, SetSession(s, state, age)
    PROVE  SessionsOK'
  BY AuthAssumption DEF SessionsOK, SetSession

\* What the steps of a request do to sessions, tokens and the request itself.
LEMMA RequestTypes ==
    ASSUME SessionsOK, TokensOK, RequestsOK, NEW t \in Tasks,
           Authenticate(t) \/ Login(t) \/ Serve(t)
    PROVE  SessionsOK' /\ TokensOK' /\ RequestsOK'
  <1> DEFINE Goal == SessionsOK' /\ TokensOK' /\ RequestsOK'
  <1> USE DEF RequestsOK, Pcs, Goto
  <1>0. NoReq \in Reqs
    BY AuthAssumption DEF NoReq, Reqs
  <1>a. ASSUME UNCHANGED <<sessions, tokens, nextId>>
        PROVE  SessionsOK' /\ TokensOK'
    BY <1>a DEF SessionsOK, TokensOK
  <1>z. 0 \in 0..SessionMaxAge + 1
    BY AuthAssumption
  <1>1. ASSUME NEW ip \in IPs, NEW s \in SessionIds \cup {NoCookie}, ValidSession(t, ip, s)
        PROVE  Goal
    <2>1. [ip |-> ip, cookie |-> s, row |-> NoRow] \in Reqs
      BY DEF Reqs
    <2>2. RequestsOK'
      BY <1>1, <2>1 DEF ValidSession
    <2>3. TokensOK'
      BY <1>1 DEF ValidSession, TokensOK
    <2>4. SessionsOK'
      <3>1. CASE Live(s) /\ Refresh(s)
        <4>1. s \in SessionIds /\ sessions[s].age \in 0..SessionMaxAge + 1
          BY <3>1 DEF Live, SessionsOK
        <4> QED
          BY <3>1, <4>1, SetSessionStep DEF Refresh
      <3>2. CASE Live(s) /\ SetSession(s, "ended", 0)
        BY <1>z, <3>2, SetSessionStep DEF Live
      <3>3. CASE UNCHANGED sessions
        BY <3>3 DEF SessionsOK
      <3> QED
        BY <1>1, <3>1, <3>2, <3>3 DEF ValidSession
    <2> QED
      BY <2>2, <2>3, <2>4
  <1>2. CASE MasterCredentials(t)
    BY <1>2, <1>a DEF MasterCredentials
  <1>3. ASSUME NEW row \in tokens, TokenCredentials(t, row) \/ ListTokens(t, row) PROVE Goal
    <2>1. [req[t] EXCEPT !.row = row] \in Reqs
      BY DEF TokensOK, Reqs
    <2> QED
      BY <1>3, <1>a, <2>1 DEF TokenCredentials, ListTokens
  <1>4. CASE Unauthorized(t)
    BY <1>0, <1>4, <1>a DEF Unauthorized, End
  <1>5. CASE ClearAuthFailures(t)
    BY <1>5, <1>a DEF ClearAuthFailures
  <1>6. CASE TouchAPIToken(t)
    <2>1. [req[t] EXCEPT !.row = NoRow] \in Reqs
      BY DEF Reqs
    <2>2. \A r \in TokenRows : [r EXCEPT !.used = TRUE] \in TokenRows
      BY DEF TokenRows
    <2>3. tokens' \subseteq TokenRows
      BY <1>6, <2>2 DEF TouchAPIToken, TokensOK
    <2> QED
      BY <1>6, <2>1, <2>3 DEF TouchAPIToken, TokensOK, SessionsOK
  <1>7. ASSUME NEW ip \in IPs, LoginAllowed(t, ip) PROVE Goal
    <2>1. [req[t] EXCEPT !.ip = ip] \in Reqs
      BY DEF Reqs
    <2> QED
      BY <1>7, <1>a, <2>1 DEF LoginAllowed
  <1>8. CASE LoginClear(t)
    BY <1>8, <1>a DEF LoginClear
  <1>9. CASE LoginSession(t)
    <2>1. SessionsOK'
      <3>1. CASE UNCHANGED sessions
        BY <3>1 DEF SessionsOK
      <3>2. CASE \E s \in SessionIds : SetSession(s, "live", 0)
        BY <1>z, <3>2, SetSessionStep
      <3> QED
        BY <1>9, <3>1, <3>2 DEF LoginSession
    <2> QED
      BY <1>0, <1>9, <2>1 DEF LoginSession, End, TokensOK
  <1>10. CASE Logout(t)
    <2>1. SessionsOK'
      <3>1. CASE UNCHANGED sessions
        BY <3>1 DEF SessionsOK
      <3>2. CASE Live(req[t].cookie) /\ SetSession(req[t].cookie, "ended", 0)
        BY <1>z, <3>2, SetSessionStep DEF Live
      <3> QED
        BY <1>10, <3>1, <3>2 DEF Logout
    <2> QED
      BY <1>0, <1>10, <2>1 DEF Logout, End, TokensOK
  <1>11. CASE UnlockAllowed(t)
    BY <1>0, <1>11, <1>a DEF UnlockAllowed, End
  <1>12. ASSUME NEW name \in Names, CreateToken(t, name) PROVE Goal
    <2>1. nextId \in 1..MaxTokens
      BY <1>12, AuthAssumption DEF CreateToken, TokensOK
    <2> DEFINE row == [id |-> nextId, hash |-> nextId, name |-> name, used |-> FALSE]
    <2>2. row \in TokenRows
      BY <2>1 DEF TokenRows
    <2>3. tokens' = tokens \cup {row} /\ nextId' = nextId + 1
      BY <1>12 DEF CreateToken
    <2> HIDE DEF row
    <2>4. TokensOK'
      BY <2>1, <2>2, <2>3, AuthAssumption DEF TokensOK
    <2> QED
      BY <1>0, <1>12, <2>4 DEF CreateToken, End, SessionsOK
  <1>13. CASE DeleteToken(t)
    BY <1>0, <1>13 DEF DeleteToken, End, TokensOK, SessionsOK
  <1> QED
    BY <1>1, <1>2, <1>3, <1>4, <1>5, <1>6, <1>7, <1>8, <1>9, <1>10, <1>11, <1>12, <1>13
    DEF Authenticate, Login, Serve

-----------------------------------------------------------------------------
(* The refinement.                                                         *)

\* The steps of TokenBucket, in terms of Credits and Verified.
Attempts(v, k) ==
    /\ Credits[k] >= Every[k]
    /\ Credits' = [Credits EXCEPT ![k] = Credits[k] - Every[k]]
    /\ Verified' \in {Verified, Verified \cup {<<v, k>>}}
Verifies(v, k) == Verified' = Verified \cup {<<v, k>>} /\ Credits' = Credits
Forgives(v, k) ==
    /\ <<v, k>> \in Verified
    /\ Credits' = [Credits EXCEPT ![k] = Full(k)]
    /\ Verified' = Verified \ {<<v, k>>}
Refills ==
    /\ Credits' = [k \in Clients |-> IF Credits[k] < Full(k) THEN Credits[k] + 1 ELSE Full(k)]
    /\ Verified' = Verified
Stutters == Credits' = Credits /\ Verified' = Verified

BucketStep ==
    \/ \E v \in Tasks, k \in Clients : Attempts(v, k) \/ Verifies(v, k) \/ Forgives(v, k)
    \/ Refills
    \/ Stutters

LEMMA BucketStepRefines ==
    BucketStep <=> [Bucket!Next]_<<[k \in Clients |-> Credit(k)], Verified>>
  BY DEF BucketStep, Attempts, Verifies, Forgives, Refills, Stutters, Credits, Full,
         Bucket!Next, Bucket!Attempt, Bucket!Verify, Bucket!Forgive, Bucket!Refill, Bucket!Full

\* A step of one request and the set of verified ones.
OthersStay(t) ==
    \A u \in Tasks : u # t => pc'[u] = pc[u] /\ req'[u].ip = req[u].ip

VerifiedPcs == {"clear", "login"}

LEMMA VerifiedSame ==
    ASSUME NEW t \in Tasks, OthersStay(t), pc[t] \notin VerifiedPcs, pc'[t] \notin VerifiedPcs
    PROVE  Verified' = Verified
  BY DEF Verified, VerifiedPcs, OthersStay

LEMMA VerifiedMore ==
    ASSUME NEW t \in Tasks, OthersStay(t), pc[t] \notin VerifiedPcs, pc'[t] \in VerifiedPcs
    PROVE  Verified' = Verified \cup {<<t, <<"auth", req'[t].ip>>>>}
  BY DEF Verified, VerifiedPcs, OthersStay

LEMMA VerifiedLess ==
    ASSUME NEW t \in Tasks, OthersStay(t), pc[t] \in VerifiedPcs, pc'[t] \notin VerifiedPcs
    PROVE  /\ <<t, <<"auth", req[t].ip>>>> \in Verified
           /\ Verified' = Verified \ {<<t, <<"auth", req[t].ip>>>>}
  BY DEF Verified, VerifiedPcs, OthersStay

\* A request that leaves the limiters alone, and is or becomes no verified one.
LEMMA QuietStep ==
    ASSUME LimitersOK, RefilledWhileIdle, UNCHANGED limiters, NEW t \in Tasks, OthersStay(t),
           pc[t] \notin VerifiedPcs
    PROVE  /\ LimitersOK' /\ RefilledWhileIdle' /\ Credits' = Credits
           /\ pc'[t] \notin VerifiedPcs => Stutters
           /\ pc'[t] \in VerifiedPcs => Verifies(t, <<"auth", req'[t].ip>>)
  <1>1. LimitersOK' /\ RefilledWhileIdle' /\ Credits' = Credits
    BY DEF LimitersOK, RefilledWhileIdle, Credits, Credit, Full
  <1> QED
    BY <1>1, VerifiedSame, VerifiedMore DEF Stutters, Verifies

\* An attempt that is let through or refused.
LEMMA LimitedStep ==
    ASSUME LimitersOK, RefilledWhileIdle, NEW t \in Tasks, OthersStay(t), NEW k \in Clients,
           pc[t] \notin VerifiedPcs, Allow(k) \/ Deny(k),
           \/ pc'[t] \notin VerifiedPcs
           \/ Allow(k) /\ pc'[t] \in VerifiedPcs /\ k = <<"auth", req'[t].ip>>
    PROVE  LimitersOK' /\ RefilledWhileIdle' /\ (Attempts(t, k) \/ Stutters)
  BY AttemptStep, VerifiedSame, VerifiedMore DEF Attempts, Stutters

\* Valid credentials reset the client's bucket.
LEMMA ClearingStep ==
    ASSUME LimitersOK, RefilledWhileIdle, NEW t \in Tasks, OthersStay(t), req[t].ip \in IPs,
           pc[t] \in VerifiedPcs, pc'[t] \notin VerifiedPcs, Drop({<<"auth", req[t].ip>>})
    PROVE  LimitersOK' /\ RefilledWhileIdle' /\ Forgives(t, <<"auth", req[t].ip>>)
  <1> DEFINE k == <<"auth", req[t].ip>>
  <1>1. k \in Clients
    BY ClientTypes
  <1> HIDE DEF k
  <1>2. \A j \in Clients : Credit(j)' = IF j \in {k} THEN Full(j) ELSE Credit(j)
    BY DropStep DEF k
  <1>3. Credits' = [Credits EXCEPT ![k] = Full(k)]
    BY <1>1, <1>2 DEF Credits
  <1> QED
    BY <1>3, DropStep, VerifiedLess DEF Forgives, k

LEMMA RequestRefines ==
    ASSUME Inv, NEW t \in Tasks, Authenticate(t) \/ Login(t) \/ Serve(t)
    PROVE  LimitersOK' /\ RefilledWhileIdle' /\ BucketStep
  <1> DEFINE Goal == LimitersOK' /\ RefilledWhileIdle' /\ BucketStep
  <1>0. LimitersOK /\ RefilledWhileIdle /\ RequestsOK
    BY TypeParts DEF Inv
  <1>i. req[t].ip \in IPs /\ <<"auth", req[t].ip>> \in Clients /\ <<"unlock", req[t].ip>> \in Clients
    BY <1>0, ClientTypes DEF RequestsOK, Reqs
  <1> USE DEF RequestsOK, Goto, VerifiedPcs, OthersStay, End
  <1>1. ASSUME NEW ip \in IPs, NEW s \in SessionIds \cup {NoCookie}, ValidSession(t, ip, s)
        PROVE  Goal
    <2>1. OthersStay(t) /\ pc[t] = "idle" /\ req'[t].ip = ip
      BY <1>0, <1>1 DEF ValidSession
    <2>2. UNCHANGED limiters
      BY <1>1 DEF ValidSession
    <2> QED
      BY <1>0, <2>1, <2>2, QuietStep, ClientTypes DEF BucketStep
  <1>2. CASE MasterCredentials(t)
    <2>1. OthersStay(t) /\ pc[t] = "api" /\ req'[t].ip = req[t].ip /\ UNCHANGED limiters
      BY <1>0, <1>2 DEF MasterCredentials
    <2> QED
      BY <1>0, <1>i, <2>1, QuietStep DEF BucketStep
  <1>3. ASSUME NEW row \in tokens, TokenCredentials(t, row) \/ ListTokens(t, row) PROVE Goal
    <2>1. OthersStay(t) /\ pc[t] \in {"api", "serve"} /\ req'[t].ip = req[t].ip
      BY <1>0, <1>3 DEF TokenCredentials, ListTokens, Reqs
    <2>2. UNCHANGED limiters
      BY <1>3 DEF TokenCredentials, ListTokens
    <2> QED
      BY <1>0, <1>i, <2>1, <2>2, QuietStep DEF BucketStep
  <1>4. CASE Unauthorized(t)
    <2>1. OthersStay(t) /\ pc[t] = "api" /\ pc'[t] = "idle"
      BY <1>0, <1>4 DEF Unauthorized
    <2>2. Allow(<<"auth", req[t].ip>>) \/ Deny(<<"auth", req[t].ip>>)
      BY <1>4 DEF Unauthorized
    <2> QED
      BY <1>0, <1>i, <2>1, <2>2, LimitedStep DEF BucketStep
  <1>5. CASE ClearAuthFailures(t)
    <2>1. OthersStay(t) /\ pc[t] = "clear" /\ pc'[t] \in {"touch", "serve"}
      BY <1>0, <1>5 DEF ClearAuthFailures
    <2>2. Drop({<<"auth", req[t].ip>>})
      BY <1>5 DEF ClearAuthFailures
    <2> QED
      BY <1>0, <1>i, <2>1, <2>2, ClearingStep DEF BucketStep
  <1>6. CASE TouchAPIToken(t)
    <2>1. OthersStay(t) /\ pc[t] = "touch" /\ pc'[t] = "serve" /\ UNCHANGED limiters
      BY <1>0, <1>6 DEF TouchAPIToken
    <2> QED
      BY <1>0, <2>1, QuietStep DEF BucketStep
  <1>7. ASSUME NEW ip \in IPs, LoginAllowed(t, ip) PROVE Goal
    <2>1. <<"auth", ip>> \in Clients
      BY ClientTypes
    <2>2. pc[t] = "idle" /\ OthersStay(t)
      BY <1>0, <1>7 DEF LoginAllowed
    <2>3. Allow(<<"auth", ip>>) \/ Deny(<<"auth", ip>>)
      BY <1>7 DEF LoginAllowed
    <2>4. \/ pc'[t] = "idle"
          \/ Allow(<<"auth", ip>>) /\ pc'[t] = "login" /\ req'[t].ip = ip
      BY <1>0, <1>7 DEF LoginAllowed, Reqs
    <2> QED
      BY <1>0, <2>1, <2>2, <2>3, <2>4, LimitedStep DEF BucketStep
  <1>8. CASE LoginClear(t)
    <2>1. OthersStay(t) /\ pc[t] = "login" /\ pc'[t] = "session"
      BY <1>0, <1>8 DEF LoginClear
    <2>2. Drop({<<"auth", req[t].ip>>})
      BY <1>8 DEF LoginClear
    <2> QED
      BY <1>0, <1>i, <2>1, <2>2, ClearingStep DEF BucketStep
  <1>9. CASE LoginSession(t) \/ Logout(t) \/ DeleteToken(t) \/ \E name \in Names : CreateToken(t, name)
    <2>1. OthersStay(t) /\ pc[t] \in {"session", "serve", "revoke"} /\ pc'[t] = "idle"
      BY <1>0, <1>9 DEF LoginSession, Logout, DeleteToken, CreateToken
    <2>2. UNCHANGED limiters
      BY <1>9 DEF LoginSession, Logout, DeleteToken, CreateToken
    <2> QED
      BY <1>0, <2>1, <2>2, QuietStep DEF BucketStep
  <1>10. CASE UnlockAllowed(t)
    <2>1. OthersStay(t) /\ pc[t] = "serve" /\ pc'[t] = "idle"
      BY <1>0, <1>10 DEF UnlockAllowed
    <2>2. CASE UNCHANGED limiters
      BY <1>0, <2>1, <2>2, QuietStep DEF BucketStep
    <2>3. CASE Allow(<<"unlock", req[t].ip>>) \/ Deny(<<"unlock", req[t].ip>>)
      BY <1>0, <1>i, <2>1, <2>3, LimitedStep DEF BucketStep
    <2> QED
      BY <1>10, <2>2, <2>3 DEF UnlockAllowed
  <1> QED
    BY <1>1, <1>2, <1>3, <1>4, <1>5, <1>6, <1>7, <1>8, <1>9, <1>10
    DEF Authenticate, Login, Serve

\* Every step keeps the invariant and is one of TokenBucket's, or none.
LEMMA NextInv ==
    ASSUME Inv, [Next]_vars
    PROVE  Inv' /\ BucketStep
  <1>0. LimitersOK /\ RefilledWhileIdle /\ SessionsOK /\ TokensOK /\ RequestsOK
    BY TypeParts DEF Inv
  <1> DEFINE Goal == /\ LimitersOK' /\ RefilledWhileIdle' /\ BucketStep
                     /\ SessionsOK' /\ TokensOK' /\ RequestsOK'
  <1>a. ASSUME UNCHANGED <<tokens, nextId, pc, req>>
        PROVE  TokensOK' /\ RequestsOK' /\ Verified' = Verified
    BY <1>0, <1>a DEF TokensOK, RequestsOK, Verified
  <1>1. ASSUME NEW t \in Tasks, Authenticate(t) \/ Login(t) \/ Serve(t) PROVE Goal
    BY <1>0, <1>1, RequestTypes, RequestRefines
  <1>2. ASSUME CleanupLimiters PROVE Goal
    <2>1. SessionsOK'
      BY <1>0, <1>2 DEF CleanupLimiters, SessionsOK
    <2> QED
      BY <1>0, <1>2, <1>a, <2>1, CleanupStep DEF CleanupLimiters, BucketStep, Stutters
  <1>3. ASSUME CleanupSessions PROVE Goal
    <2>1. SessionsOK'
      BY <1>0, <1>3, AuthAssumption DEF CleanupSessions, SessionsOK
    <2>2. LimitersOK' /\ RefilledWhileIdle' /\ Credits' = Credits
      BY <1>0, <1>3 DEF CleanupSessions, LimitersOK, RefilledWhileIdle, Credits, Credit, Full
    <2> QED
      BY <1>3, <1>a, <2>1, <2>2 DEF CleanupSessions, BucketStep, Stutters
  <1>4. ASSUME Tick PROVE Goal
    <2>1. SessionsOK'
      <3>1. \A s \in SessionIds :
               /\ UpTo(sessions[s].age, SessionMaxAge + 1) \in 0..SessionMaxAge + 1
               /\ UpTo(sessions[s].idle, SessionIdle + 1) \in 0..SessionIdle + 1
        BY <1>0, AuthAssumption DEF SessionsOK, UpTo
      <3> QED
        BY <1>0, <1>4, <3>1 DEF Tick, SessionsOK
    <2> QED
      BY <1>0, <1>4, <1>a, <2>1, TickStep DEF Tick, BucketStep, Refills
  <1>5. ASSUME UNCHANGED vars PROVE Goal
    BY <1>0, <1>5, <1>a DEF vars, LimitersOK, RefilledWhileIdle, SessionsOK, Credits, Credit, Full,
                            BucketStep, Stutters
  <1>6. Goal
    BY <1>1, <1>2, <1>3, <1>4, <1>5 DEF Next
  <1>7. TypeOK'
    BY <1>6 DEF TypeOK, LimitersOK, SessionsOK, TokensOK, RequestsOK, Pcs, Reqs
  <1> QED
    BY <1>6, <1>7 DEF Inv

-----------------------------------------------------------------------------
\* Every variable has its type: in particular no bucket is overdrawn or fuller
\* than full, whatever requests race for it.
THEOREM AuthTypes == Spec => []TypeOK
  <1>1. Inv => TypeOK
    BY DEF Inv
  <1> QED
    BY <1>1, InitInv, NextInv, PTL DEF Spec

\* An entry's bucket has refilled at least as long as the entry was idle.
THEOREM BucketsRefill == Spec => []RefilledWhileIdle
  <1>1. Inv => RefilledWhileIdle
    BY DEF Inv
  <1> QED
    BY <1>1, InitInv, NextInv, PTL DEF Spec

\* The limiters, with their entries made and dropped at any time by concurrent
\* requests and by the clean-up, implement buckets that are kept for ever.
THEOREM LimitersRefine == Spec => LimitersKeepTheirPromise
  <1>1. Init => Bucket!Init
    <2> SUFFICES ASSUME Init PROVE Bucket!Init
      OBVIOUS
    <2>1. DOMAIN limiters = {}
      BY DEF Init
    <2>2. \A k \in Clients : Credit(k) = Full(k)
      BY <2>1 DEF Credit
    <2>3. Verified = {}
      BY DEF Init, Verified
    <2> QED
      BY <2>2, <2>3 DEF Bucket!Init, Bucket!Full, Full
  <1>2. ASSUME Inv, [Next]_vars
        PROVE  [Bucket!Next]_<<[k \in Clients |-> Credit(k)], Verified>>
    BY <1>2, NextInv, BucketStepRefines
  <1> QED
    BY <1>1, <1>2, InitInv, NextInv, PTL DEF Spec, LimitersKeepTheirPromise, Bucket!Spec

-----------------------------------------------------------------------------
(* Token ids.                                                              *)

\* An id names one token for ever: the one with the hash it was created with.
TokenInv ==
    /\ \A r \in tokens : r.id = r.hash
    /\ \A t \in Tasks : /\ req[t].row # NoRow => req[t].row.id = req[t].row.hash
                        /\ pc[t] \in {"touch", "revoke"} => req[t].row # NoRow

LEMMA InitTokens == Init => TokenInv
  BY DEF Init, TokenInv, NoReq

\* Only the use or the revocation of a token replaces or removes its row.
LEMMA NextTokens ==
    ASSUME TypeOK, TokenInv, [Next]_vars
    PROVE  /\ TokenInv'
           /\ \A r \in tokens : r \notin tokens' =>
                 \E t \in Tasks : pc[t] \in {"touch", "revoke"} /\ req[t].row.hash = r.hash
  <1> DEFINE Goal == /\ TokenInv'
                     /\ \A r \in tokens : r \notin tokens' =>
                           \E t \in Tasks : /\ pc[t] \in {"touch", "revoke"}
                                            /\ req[t].row.hash = r.hash
  <1>0. TokensOK /\ RequestsOK
    BY TypeParts
  <1> USE DEF TokenInv, RequestsOK, Goto, End
  <1>n. NoReq.row = NoRow
    BY DEF NoReq
  <1>1. ASSUME NEW t \in Tasks, NEW ip \in IPs, NEW s \in SessionIds \cup {NoCookie},
               ValidSession(t, ip, s)
        PROVE  Goal
    BY <1>0, <1>1 DEF ValidSession
  <1>2. ASSUME NEW t \in Tasks, MasterCredentials(t) PROVE Goal
    BY <1>0, <1>2 DEF MasterCredentials
  <1>3. ASSUME NEW t \in Tasks, NEW row \in tokens,
               TokenCredentials(t, row) \/ ListTokens(t, row)
        PROVE  Goal
    <2>1. row # NoRow
      BY <1>0, AuthAssumption DEF TokensOK
    <2> QED
      BY <1>0, <1>3, <2>1 DEF TokenCredentials, ListTokens, Reqs
  <1>4. ASSUME NEW t \in Tasks, Unauthorized(t) PROVE Goal
    BY <1>0, <1>4, <1>n DEF Unauthorized
  <1>5. ASSUME NEW t \in Tasks, ClearAuthFailures(t) PROVE Goal
    BY <1>0, <1>5 DEF ClearAuthFailures
  <1>6. ASSUME NEW t \in Tasks, TouchAPIToken(t) PROVE Goal
    <2>1. \A r \in tokens : LET q == [r EXCEPT !.used = TRUE] IN q.id = r.id /\ q.hash = r.hash
      BY <1>0 DEF TokensOK, TokenRows
    <2>2. pc[t] = "touch" /\ req[t].row # NoRow /\ req[t].row.id = req[t].row.hash
      BY <1>6 DEF TouchAPIToken
    <2>3. \A q \in tokens' : q \in tokens \/ \E r \in tokens : q = [r EXCEPT !.used = TRUE]
      BY <1>6 DEF TouchAPIToken
    <2>4. \A r \in tokens : r \notin tokens' => r.id = req[t].row.id
      BY <1>6 DEF TouchAPIToken
    <2>5. \A u \in Tasks : /\ req'[u].row \in {req[u].row, NoRow}
                           /\ pc'[u] \in {"touch", "revoke"} => pc'[u] = pc[u] /\ req'[u] = req[u]
      BY <1>0, <1>6 DEF TouchAPIToken, Reqs
    <2>6. ASSUME NEW q \in tokens' PROVE q.id = q.hash
      <3>1. CASE q \in tokens
        BY <3>1
      <3>2. ASSUME NEW r \in tokens, q = [r EXCEPT !.used = TRUE] PROVE q.id = q.hash
        <4>1. [r EXCEPT !.used = TRUE].id = r.id /\ [r EXCEPT !.used = TRUE].hash = r.hash
          BY <2>1
        <4> QED
          BY <3>2, <4>1
      <3> QED
        BY <2>3, <3>1, <3>2
    <2> QED
      BY <2>2, <2>4, <2>5, <2>6
  <1>7. ASSUME NEW t \in Tasks, NEW ip \in IPs, LoginAllowed(t, ip) PROVE Goal
    <2>1. UNCHANGED tokens
      BY <1>7 DEF LoginAllowed
    <2>2. \A u \in Tasks : /\ req'[u].row = req[u].row
                           /\ pc'[u] \in {"touch", "revoke"} => pc'[u] = pc[u]
      BY <1>0, <1>7 DEF LoginAllowed, Reqs
    <2> QED
      BY <2>1, <2>2
  <1>8. ASSUME NEW t \in Tasks, LoginClear(t) PROVE Goal
    BY <1>0, <1>8 DEF LoginClear
  <1>9. ASSUME NEW t \in Tasks, LoginSession(t) \/ Logout(t) \/ UnlockAllowed(t) PROVE Goal
    BY <1>0, <1>9, <1>n DEF LoginSession, Logout, UnlockAllowed
  <1>10. ASSUME NEW t \in Tasks, NEW name \in Names, CreateToken(t, name) PROVE Goal
    BY <1>0, <1>10, <1>n DEF CreateToken
  <1>11. ASSUME NEW t \in Tasks, DeleteToken(t) PROVE Goal
    <2>1. pc[t] = "revoke" /\ req[t].row.id = req[t].row.hash
      BY <1>11 DEF DeleteToken
    <2>2. \A r \in tokens : r \notin tokens' => r.id = req[t].row.id
      BY <1>11 DEF DeleteToken
    <2>3. TokenInv'
      BY <1>0, <1>11, <1>n DEF DeleteToken
    <2> QED
      BY <2>1, <2>2, <2>3
  <1>12. ASSUME UNCHANGED <<tokens, pc, req>> PROVE Goal
    BY <1>12
  <1> QED
    BY <1>1, <1>2, <1>3, <1>4, <1>5, <1>6, <1>7, <1>8, <1>9, <1>10, <1>11, <1>12
    DEF Next, Authenticate, Login, Serve, CleanupLimiters, CleanupSessions, Tick, vars

\* A stale id is harmless: a request that read a row before it was deleted never
\* touches or deletes a token created since.
THEOREM StaleIdsAreHarmless == Spec => StaleIdsHarmless
  BY InitTokens, NextTokens, AuthTypes, PTL DEF Spec, StaleIdsHarmless

=============================================================================
