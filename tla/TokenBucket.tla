---------------------------- MODULE TokenBucket ----------------------------
(***************************************************************************)
(* What the rate limiters promise, as one bucket for each client that is   *)
(* never thrown away: Burst attempts at once, then one for every Every[k]  *)
(* units of time.  credit[k] counts time: an attempt costs Every[k] of it. *)
(* Only valid credentials fill a bucket before its time, once for each     *)
(* request that presents them.                                             *)
(***************************************************************************)
EXTENDS Naturals

CONSTANTS
    Clients,
    Visits,    \* requests in progress
    Burst,
    Every

VARIABLES
    credit,
    verified   \* visits, with their client, that showed valid credentials

Full(k) == Burst * Every[k]

Init == credit = [k \in Clients |-> Full(k)] /\ verified = {}

\* An attempt that is paid for; the credentials that come with it may be valid.
Attempt(v, k) ==
    /\ credit[k] >= Every[k]
    /\ credit' = [credit EXCEPT ![k] = credit[k] - Every[k]]
    /\ verified' \in {verified, verified \cup {<<v, k>>}}

\* Valid credentials that are not paid for.
Verify(v, k) == verified' = verified \cup {<<v, k>>} /\ UNCHANGED credit

Forgive(v, k) ==
    /\ <<v, k>> \in verified
    /\ credit' = [credit EXCEPT ![k] = Full(k)]
    /\ verified' = verified \ {<<v, k>>}

Refill ==
    /\ credit' = [k \in Clients |-> IF credit[k] < Full(k) THEN credit[k] + 1 ELSE Full(k)]
    /\ UNCHANGED verified

Next ==
    \/ \E v \in Visits, k \in Clients : Attempt(v, k) \/ Verify(v, k) \/ Forgive(v, k)
    \/ Refill

Spec == Init /\ [][Next]_<<credit, verified>>

=============================================================================
