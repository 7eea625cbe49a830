------------------------------ MODULE Shutdown ------------------------------
(***************************************************************************)
(* Graceful shutdown: main cancels the server context, lets net/http drain *)
(* the requests for at most 30 seconds, locks every unlocked vault without *)
(* opMu and exits.  It is composed with what may still run then: a         *)
(* creation and its SSE streams (Progress), a request on a vault, and the  *)
(* auto-lock sweep.                                                        *)
(*                                                                         *)
(* Two vaults: "old", registered from the start, and "new", which the      *)
(* creation makes.                                                         *)
(***************************************************************************)
EXTENDS Progress

CONSTANT MaxWaiting   \* requests on vaults that wait for opMu

ASSUME WaitingAssumption == MaxWaiting \in Nat

VARIABLES
    old,       \* the old vault's device: "closed", "open" or "mounted"
    waiting,   \* requests on a vault that came and wait for opMu
    op,        \* the one that has it, or the sweep's lock of a vault
    main,      \* where main is
    todo,      \* vaults LockAllUnlocked has yet to look at
    cur,       \* the vault it unmounted and has yet to close
    drainErr,  \* srv.Shutdown timed out
    failures   \* LockAllUnlocked returned failures

mainVars == <<main, todo, cur, drainErr, failures>>
osVars   == <<dev, old>>
vars     == <<jobVars, old, waiting, op, mainVars>>

\* What a step that is not the creation's leaves of Progress's variables, but
\* for the device.
jobFrame == <<channel, job, pc, outcome, fate, record, leaked, streams>>

Vaults     == {"old", "new"}
Registered == {"old"} \cup (IF record THEN {"new"} ELSE {})

Device(v) == IF v = "new" THEN dev ELSE old

SetDevice(v, s) ==
    IF v = "new" THEN dev' = s /\ UNCHANGED old ELSE old' = s /\ UNCHANGED dev

Idle == [at |-> "idle", vault |-> "old", http |-> FALSE]

Init ==
    /\ JobInit
    /\ old \in {"closed", "mounted"}
    /\ waiting = 0 /\ op = Idle
    /\ main = "serve" /\ todo = {} /\ cur = "old"
    /\ drainErr = FALSE /\ failures = FALSE

-----------------------------------------------------------------------------
(* Requests on vaults and the sweep's locks, one at a time under opMu.     *)

OpTo(s) == op' = [op EXCEPT !.at = s]
OpFrame == UNCHANGED <<jobFrame, stop, mainVars>>

\* Until srv.Shutdown closes the listener.
Listening == main \in {"serve", "cancelled"}

Request ==
    /\ Listening
    /\ waiting < MaxWaiting /\ waiting' = waiting + 1
    /\ UNCHANGED <<osVars, op>> /\ OpFrame

\* opMu is free, which may be long after the listener was closed.
Arrive(what, v) ==
    /\ waiting > 0 /\ waiting' = waiting - 1
    /\ op.at = "idle" /\ v \in Registered
    /\ op' = [at |-> what, vault |-> v, http |-> TRUE]
    /\ UNCHANGED osVars /\ OpFrame

\* A sweep that began before the shutdown runs on.
SweepBegin(v) ==
    /\ ~stop
    /\ op.at = "idle" /\ v \in Registered
    /\ op' = [at |-> "lock", vault |-> v, http |-> FALSE]
    /\ UNCHANGED <<osVars, waiting>> /\ OpFrame

\* Bug: luksOpen is not bounded by the server context.
UnlockOpenUnbounded ==
    /\ op.at = "unlock"
    /\ Device(op.vault) = "closed"
    /\ SetDevice(op.vault, "open") /\ OpTo("opened")
    /\ OpFrame

\* luksOpen and mount are bounded by the server context.
UnlockOpen ==
    /\ op.at = "unlock"
    /\ Device(op.vault) = "closed" /\ ~stop
    /\ SetDevice(op.vault, "open") /\ OpTo("opened")
    /\ OpFrame

UnlockMount ==
    /\ op.at = "opened"
    /\ \/ ~stop /\ SetDevice(op.vault, "mounted") /\ op' = Idle
       \/ OpTo("unmountable") /\ UNCHANGED osVars
    /\ OpFrame

UnlockClose ==
    /\ op.at = "unmountable" /\ op' = Idle
    /\ \E s \in {"closed", Device(op.vault)} : SetDevice(op.vault, s)
    /\ OpFrame

\* A manual lock, like a mount, is bounded by nothing; the sweep's lock is.
LockUmount ==
    /\ op.at = "lock"
    /\ Device(op.vault) # "closed" /\ (stop => op.http)
    /\ SetDevice(op.vault, "open") /\ OpTo("umounted")
    /\ OpFrame

LockClose ==
    /\ op.at = "umounted" /\ op' = Idle
    /\ \/ SetDevice(op.vault, "closed") /\ (stop => op.http)
       \/ UNCHANGED osVars
    /\ OpFrame

MountVault ==
    /\ op.at = "mount" /\ op' = Idle
    /\ Device(op.vault) = "open"
    /\ SetDevice(op.vault, "mounted")
    /\ OpFrame

OpFails ==
    /\ op.at \in {"unlock", "lock", "mount"} /\ op' = Idle
    /\ UNCHANGED osVars /\ OpFrame

Op ==
    /\ \/ UnlockOpen \/ UnlockMount \/ UnlockClose \/ LockUmount \/ LockClose
       \/ MountVault \/ OpFails
    /\ UNCHANGED waiting

-----------------------------------------------------------------------------
(* main.                                                                   *)

MainTo(from, to) == main = from /\ main' = to
MainFrame        == UNCHANGED <<jobFrame, op, waiting>>

\* SIGTERM or SIGINT, then serverCancel.
MainSignal ==
    /\ MainTo("serve", "cancelled") /\ stop' = TRUE
    /\ UNCHANGED <<osVars, todo, cur, drainErr, failures>> /\ MainFrame

\* srv.Shutdown closes the listener and waits.
MainShutdown ==
    /\ MainTo("cancelled", "drain")
    /\ UNCHANGED <<osVars, stop, todo, cur, drainErr, failures>> /\ MainFrame

Drained ==
    /\ ~op.http /\ waiting = 0
    /\ \A r \in Readers : rd[r] \in {"away", "ended", "gone"}

\* Bug: main waits without a limit.
MainDrainForEver ==
    /\ MainTo("drain", "list") /\ Drained
    /\ UNCHANGED <<osVars, stop, todo, cur, drainErr, failures>> /\ MainFrame

MainDrain ==
    /\ MainTo("drain", "list")
    /\ drainErr' = ~Drained
    /\ UNCHANGED <<osVars, stop, todo, cur, failures>> /\ MainFrame

\* LockAllUnlocked lists the vaults; a failure to list is its only result then.
LockAllList ==
    /\ \/ MainTo("list", "each") /\ todo' = Registered /\ UNCHANGED failures
       \/ MainTo("list", "each") /\ failures' = TRUE /\ UNCHANGED todo
    /\ UNCHANGED <<osVars, stop, cur, drainErr>> /\ MainFrame

\* For each vault that is unlocked: umount, then luksClose.  opMu is not taken.
LockAllUmount(v) ==
    /\ MainTo("each", "close") /\ v \in todo
    /\ Device(v) # "closed" /\ SetDevice(v, "open")
    /\ todo' = todo \ {v} /\ cur' = v
    /\ UNCHANGED <<stop, drainErr, failures>> /\ MainFrame

LockAllClose ==
    /\ MainTo("close", "each")
    /\ Device(cur) = "open" /\ SetDevice(cur, "closed")
    /\ UNCHANGED <<stop, todo, cur, drainErr, failures>> /\ MainFrame

LockAllSkip(v) ==
    /\ MainTo("each", "each") /\ v \in todo
    /\ Device(v) = "closed"
    /\ todo' = todo \ {v}
    /\ UNCHANGED <<osVars, stop, cur, drainErr, failures>> /\ MainFrame

\* Busy, out of time, or locked by the sweep meanwhile.
LockAllFails ==
    /\ \/ main = "each" /\ \E v \in todo : todo' = todo \ {v}
       \/ main = "close" /\ UNCHANGED todo
    /\ main' = "each" /\ failures' = TRUE
    /\ UNCHANGED <<osVars, stop, cur, drainErr>> /\ MainFrame

MainExit ==
    /\ MainTo("each", "exit") /\ todo = {}
    /\ UNCHANGED <<osVars, stop, todo, cur, drainErr, failures>> /\ MainFrame

\* "exiting immediately, skipping vault locking"
SecondSignal ==
    /\ main \notin {"serve", "exit", "killed"} /\ main' = "killed"
    /\ UNCHANGED <<osVars, stop, todo, cur, drainErr, failures>> /\ MainFrame

Main ==
    \/ MainShutdown \/ MainDrain \/ LockAllList
    \/ \E v \in Vaults : LockAllUmount(v) \/ LockAllSkip(v)
    \/ LockAllClose \/ LockAllFails \/ MainExit

-----------------------------------------------------------------------------
Alive == main \notin {"exit", "killed"}

Job == Alive /\ JobStep /\ UNCHANGED <<old, waiting, op, mainVars>>

Connect(r) ==
    /\ Listening /\ VaultEvents(r)
    /\ UNCHANGED <<old, waiting, op, mainVars>>

Next ==
    \/ Job
    \/ \E r \in Readers : Connect(r)
    \/ /\ Alive
       /\ \/ \E v \in Vaults : \/ \E what \in {"unlock", "lock", "mount"} : Arrive(what, v)
                               \/ SweepBegin(v)
          \/ Request \/ Op \/ MainSignal \/ Main \/ SecondSignal

\* main runs when it can.  Nothing is assumed of anybody else.
Fairness == WF_vars(Alive /\ Main)

Spec == Init /\ [][Next]_vars /\ Fairness

-----------------------------------------------------------------------------
TypeOK ==
    /\ JobTypeOK
    /\ old \in {"closed", "open", "mounted"}
    /\ waiting \in 0..MaxWaiting
    /\ op \in [at : {"idle", "unlock", "lock", "mount", "opened", "unmountable",
                     "umounted"}, vault : Vaults, http : BOOLEAN]
    /\ main \in {"serve", "cancelled", "drain", "list", "each", "close", "exit",
                 "killed"}
    /\ todo \subseteq Vaults /\ cur \in Vaults
    /\ drainErr \in BOOLEAN /\ failures \in BOOLEAN

\* When main reports no failure ("all vaults locked", main.go:150-153), a vault
\* registered before the shutdown is locked, although LockAllUnlocked takes no
\* mutex, the sweep is not awaited, and the drain may have timed out with
\* requests still running, or waiting for opMu (main.go:133-137).
LogTruthful == main = "exit" /\ ~failures => old = "closed"

\* "shutdown complete - all vaults locked" is logged: the drain was clean too.
SaysAllLocked == main = "exit" /\ ~failures /\ ~drainErr

\* A creation somebody watched is settled by then: the drain waits for the SSE
\* handlers, which wait for the channel to be closed, even after their client
\* left (api.go:391-401).  Its device is closed, unless a clean-up failed.
WatchedCreationSettled ==
    SaysAllLocked /\ (\E r \in Readers : rd[r] # "away") => dev = "closed" \/ leaked

\* After the first signal main exits, whatever the clients, the requests and the
\* mounts do (main.go:124-131, vault.go:386-387).
ShutdownEnds == stop ~> ~Alive

=============================================================================
