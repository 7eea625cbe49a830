-------------------------- MODULE Shutdown_proofs --------------------------
(* Theorems about Shutdown, for any number of SSE clients and any capacity   *)
(* of the channel.                                                           *)
EXTENDS Shutdown, Progress_proofs

-----------------------------------------------------------------------------
(* The inductive invariant.                                                  *)

\* Only a registered vault is asked for, listed or locked, and a record stays.
RefersInv ==
    /\ op.vault = "new" => record
    /\ "new" \in todo => record
    /\ cur = "new" => record

Locking == main \in {"each", "close", "exit"}

\* LockAllUnlocked is through with v.
Visited(v) == Locking /\ v \notin todo /\ ~(main = "close" /\ cur = v)

\* main locks after it cancelled the context: then nobody opens a registered vault
\* again, and what LockAllUnlocked closed without a failure stays closed.
OldInv ==
    /\ main # "serve" => stop
    /\ main = "exit" => todo = {}
    /\ Visited("old") /\ ~failures => old = "closed"

\* The drain was clean: every SSE handler that came is through.
Watched == \E r \in Readers : rd[r] # "away"

CleanDrain == (main = "list" \/ Locking) /\ ~drainErr

\* A creation that was watched ended before a clean drain did, so its record is
\* there when LockAllUnlocked lists the vaults.
NewInv ==
    /\ CleanDrain => \A r \in Readers : rd[r] \in {"away", "ended", "gone"}
    /\ CleanDrain /\ Watched /\ record /\ Visited("new") /\ ~failures => dev = "closed"

ShutdownInv == TypeOK /\ JobInv /\ RefersInv /\ OldInv /\ NewInv

-----------------------------------------------------------------------------
(* What the three kinds of steps do: the job's, a request's, main's.         *)

DevStates == {"closed", "open", "mounted"}
OpStates  == [at : {"idle", "unlock", "lock", "mount", "opened", "unmountable", "umounted"},
              vault : Vaults, http : BOOLEAN]
MainTypes ==
    /\ main \in {"serve", "cancelled", "drain", "list", "each", "close", "exit", "killed"}
    /\ todo \subseteq Vaults /\ cur \in Vaults
    /\ drainErr \in BOOLEAN /\ failures \in BOOLEAN

Waits == 0..MaxWaiting

LEMMA ShutdownTypeParts ==
    TypeOK <=> JobTypeOK /\ old \in DevStates /\ waiting \in Waits /\ op \in OpStates /\ MainTypes
  BY DEF TypeOK, DevStates, Waits, OpStates, MainTypes

\* Requests, the sweep's locks and their steps.
OpStep ==
    \/ \E v \in Vaults : \/ \E what \in {"unlock", "lock", "mount"} : Arrive(what, v)
                         \/ SweepBegin(v)
    \/ Request
    \/ Op

MainStep == MainSignal \/ Main \/ SecondSignal

\* A record stays, and a device whose vault is not the creation's business any
\* more is left alone.
LEMMA JobKeeps ==
    ASSUME JobTypeOK, JobNext
    PROVE  /\ record => record'
           /\ pc = "end" => UNCHANGED <<pc, dev, record, leaked>>
           /\ \A r \in Readers : rd[r] \in {"ended", "gone"} => rd'[r] = rd[r]
           /\ JobStep => \A r \in Readers : rd[r] = "away" => rd'[r] = "away"
  <1> USE DEF JobTypeOK
  <1>1. CASE Creation \/ AllocProgress \/ CreatePanic
    BY <1>1, StageNames DEF Creation, CreateStep, CreateSave, CreateFail, CreateUndo,
       SendTerminal, CloseChannel, AllocProgress, CreatePanic, creation, streams
  <1>2. CASE CleanupJobs \/ Cancel
    BY <1>2 DEF CleanupJobs, Cancel, creation, streams
  <1>3. ASSUME NEW r \in Readers, Streaming(r) \/ WriteEvent(r) \/ Disconnect(r)
        PROVE  /\ UNCHANGED creation
               /\ \A q \in Readers : rd[q] \in {"ended", "gone", "away"} => rd'[q] = rd[q]
    BY <1>3 DEF Streaming, ReadEvent, StreamEnds, DrainChannel, WriteEvent, Disconnect, Move
  <1>4. CASE \E r \in Readers : Streaming(r) \/ WriteEvent(r) \/ Disconnect(r)
    BY <1>3, <1>4 DEF creation
  <1>5. ASSUME NEW r \in Readers, VaultEvents(r)
        PROVE  /\ UNCHANGED creation
               /\ \A q \in Readers : rd[q] \in {"ended", "gone"} => rd'[q] = rd[q]
    BY <1>5 DEF VaultEvents, Move
  <1>6. CASE JobStep
    BY <1>1, <1>2, <1>4, <1>6 DEF JobStep
  <1>7. CASE ~JobStep
    BY <1>2, <1>5, <1>7 DEF JobNext, creation
  <1> QED
    BY <1>6, <1>7

LEMMA SetDeviceTypes ==
    ASSUME old \in DevStates, dev \in DevStates, NEW v \in Vaults, NEW s \in DevStates,
           SetDevice(v, s)
    PROVE  /\ old' \in DevStates /\ dev' \in DevStates
           /\ v = "new" => dev' = s /\ old' = old
           /\ v = "old" => old' = s /\ dev' = dev
  BY DEF SetDevice, Vaults

\* A request takes its vault from the database, and once the context is cancelled
\* none opens a device.
LEMMA OpKeeps ==
    ASSUME TypeOK, RefersInv, OpStep
    PROVE  /\ UNCHANGED <<jobFrame, stop, mainVars>>
           /\ op' \in OpStates /\ (op'.vault = "new" => record)
           /\ waiting' \in Waits
           /\ old' \in DevStates /\ dev' \in DevStates
           /\ dev' = dev \/ record
           /\ stop => (old = "closed" => old' = "closed") /\ (dev = "closed" => dev' = "closed")
  <1>0. /\ old \in DevStates /\ dev \in DevStates /\ op \in OpStates
        /\ op.vault \in Vaults /\ (op.vault = "new" => record)
        /\ waiting \in Waits
    BY ShutdownTypeParts DEF JobTypeOK, DevStates, OpStates, RefersInv
  <1>1. CASE \E v \in Vaults : \/ \E what \in {"unlock", "lock", "mount"} : Arrive(what, v)
                               \/ SweepBegin(v)
    <2>1. OpFrame /\ UNCHANGED osVars
      BY <1>1 DEF Arrive, SweepBegin
    <2>2. \E what \in {"unlock", "lock", "mount"}, v \in Vaults, h \in BOOLEAN :
             v \in Registered /\ op' = [at |-> what, vault |-> v, http |-> h]
      BY <1>1 DEF Arrive, SweepBegin
    <2>3. op' \in OpStates /\ (op'.vault = "new" => record)
      BY <2>2 DEF OpStates, Registered
    <2>4. waiting' \in Waits
      BY <1>0, <1>1, WaitingAssumption DEF Arrive, SweepBegin, Waits
    <2> QED
      BY <1>0, <2>1, <2>3, <2>4 DEF OpFrame, osVars
  <1>r. CASE Request
    <2>1. waiting' \in Waits
      BY <1>0, <1>r, WaitingAssumption DEF Request, Waits
    <2> QED
      BY <1>0, <1>r, <2>1 DEF Request, OpFrame, osVars
  <1>2. ASSUME Op
        PROVE  /\ UNCHANGED <<jobFrame, stop, mainVars>> /\ waiting' \in Waits
               /\ op' \in OpStates /\ op'.vault \in {"old", op.vault}
    <2>1. OpFrame
      BY <1>2 DEF Op, UnlockOpen, UnlockMount, UnlockClose, LockUmount, LockClose,
         MountVault, OpFails
    <2>2. op' = Idle \/ \E s \in {"opened", "unmountable", "umounted"} : OpTo(s)
      BY <1>2 DEF Op, UnlockOpen, UnlockMount, UnlockClose, LockUmount, LockClose,
         MountVault, OpFails
    <2>3. op' \in OpStates /\ op'.vault \in {"old", op.vault}
      <3>1. CASE op' = Idle
        BY <3>1 DEF Idle, OpStates, Vaults
      <3>2. ASSUME NEW s \in {"opened", "unmountable", "umounted"}, OpTo(s)
            PROVE  op' \in OpStates /\ op'.vault = op.vault
        BY <1>0, <3>2 DEF OpTo, OpStates
      <3> QED
        BY <2>2, <3>1, <3>2
    <2> QED
      BY <1>0, <1>2, <2>1, <2>3 DEF OpFrame, Op
  <1>3. ASSUME Op
        PROVE  \/ UNCHANGED osVars
               \/ \E s \in DevStates :
                    /\ SetDevice(op.vault, s)
                    /\ stop /\ Device(op.vault) = "closed" => s = "closed"
    <2>0. Device(op.vault) \in DevStates
      BY <1>0 DEF Device
    <2> QED
      BY <1>0, <1>3, <2>0 DEF Op, UnlockOpen, UnlockMount, UnlockClose, LockUmount, LockClose,
         MountVault, OpFails, DevStates
  <1>4. CASE Op
    <2>1. CASE UNCHANGED osVars
      BY <1>0, <1>2, <1>4, <2>1 DEF osVars
    <2>2. ASSUME NEW s \in DevStates, SetDevice(op.vault, s),
                 stop /\ Device(op.vault) = "closed" => s = "closed"
          PROVE  /\ old' \in DevStates /\ dev' \in DevStates
                 /\ dev' = dev \/ record
                 /\ stop => (old = "closed" => old' = "closed")
                            /\ (dev = "closed" => dev' = "closed")
      BY <1>0, <2>2, SetDeviceTypes DEF Device, Vaults
    <2> QED
      BY <1>0, <1>2, <1>3, <1>4, <2>1, <2>2
  <1> QED
    BY <1>1, <1>r, <1>4 DEF OpStep

\* main locks only what it listed, and never opens.
LEMMA MainKeeps ==
    ASSUME TypeOK, RefersInv, MainStep
    PROVE  /\ UNCHANGED <<jobFrame, op, waiting>> /\ MainTypes' /\ stop' \in BOOLEAN
           /\ old' \in DevStates /\ dev' \in DevStates
           /\ dev' = dev \/ record
           /\ "new" \in todo' => record
           /\ cur' = "new" => record
  <1>0. /\ old \in DevStates /\ dev \in DevStates /\ MainTypes /\ stop \in BOOLEAN
        /\ ("new" \in todo => record) /\ (cur = "new" => record)
    BY ShutdownTypeParts DEF JobTypeOK, DevStates, RefersInv
  <1>1. UNCHANGED <<jobFrame, op, waiting>>
    BY DEF MainStep, MainSignal, Main, SecondSignal, MainShutdown, MainDrain, LockAllList,
       LockAllUmount, LockAllSkip, LockAllClose, LockAllFails, MainExit, MainFrame
  <1>2. CASE MainSignal \/ MainShutdown \/ MainExit \/ SecondSignal
    BY <1>0, <1>1, <1>2 DEF MainSignal, MainShutdown, MainExit, SecondSignal, MainTo,
       MainTypes, osVars
  <1>3. CASE MainDrain
    <2>1. drainErr' \in BOOLEAN
      BY <1>3 DEF MainDrain
    <2> QED
      BY <1>0, <1>1, <1>3, <2>1 DEF MainDrain, MainTo, MainTypes, osVars
  <1>4. CASE LockAllList
    <2>1. todo' \subseteq Vaults /\ ("new" \in todo' => record) /\ failures' \in BOOLEAN
      BY <1>0, <1>4 DEF LockAllList, MainTypes, Registered, Vaults
    <2> QED
      BY <1>0, <1>1, <1>4, <2>1 DEF LockAllList, MainTo, MainTypes, osVars
  <1>5. CASE LockAllFails
    <2>1. todo' \subseteq todo
      BY <1>5 DEF LockAllFails
    <2> QED
      BY <1>0, <1>1, <1>5, <2>1 DEF LockAllFails, MainTypes, osVars
  <1>6. CASE \E v \in Vaults : LockAllSkip(v)
    <2>1. todo' \subseteq todo
      BY <1>6 DEF LockAllSkip
    <2> QED
      BY <1>0, <1>1, <1>6, <2>1 DEF LockAllSkip, MainTo, MainTypes, osVars
  <1>7. ASSUME NEW v \in Vaults, LockAllUmount(v)
        PROVE  /\ MainTypes' /\ stop' \in BOOLEAN
               /\ old' \in DevStates /\ dev' \in DevStates
               /\ dev' = dev \/ record
               /\ "new" \in todo' => record
               /\ cur' = "new" => record
    <2>1. old' \in DevStates /\ dev' \in DevStates /\ (v = "old" => dev' = dev)
      <3>1. SetDevice(v, "open") /\ "open" \in DevStates
        BY <1>7 DEF LockAllUmount, DevStates
      <3> QED
        BY <1>0, <3>1, SetDeviceTypes
    <2>2. v \in todo /\ todo' \subseteq todo /\ cur' = v
      BY <1>7 DEF LockAllUmount
    <2> QED
      BY <1>0, <1>7, <2>1, <2>2 DEF LockAllUmount, MainTo, MainTypes, Vaults
  <1>8. CASE LockAllClose
    <2>1. old' \in DevStates /\ dev' \in DevStates /\ (cur = "old" => dev' = dev)
      <3>1. SetDevice(cur, "closed") /\ "closed" \in DevStates /\ cur \in Vaults
        BY <1>0, <1>8 DEF LockAllClose, DevStates, MainTypes
      <3> QED
        BY <1>0, <3>1, SetDeviceTypes
    <2> QED
      BY <1>0, <1>1, <1>8, <2>1 DEF LockAllClose, MainTo, MainTypes, Vaults
  <1> QED
    BY <1>1, <1>2, <1>3, <1>4, <1>5, <1>6, <1>7, <1>8 DEF MainStep, Main

\* A step of somebody else keeps what the job's proofs need: it moves the new
\* device only once the vault is registered.
LEMMA OtherKeepsJob ==
    ASSUME JobInv, UNCHANGED jobFrame, dev' \in DevStates, dev' = dev \/ record,
           stop' \in BOOLEAN
    PROVE  JobInv'
  <1>1. JobTypeOK' /\ OutcomeInv'
    BY DEF JobInv, JobTypeOK, OutcomeInv, jobFrame, channel, streams, DevStates
  <1>2. EventInv' /\ EndInv'
    BY DEF JobInv, EventInv, EndInv, NobodySaw, OneSaw, OneDrained, jobFrame, channel, streams
  <1>3. DeviceInv'
    BY StageNames DEF JobInv, OutcomeInv, DeviceInv, jobFrame
  <1> QED
    BY <1>1, <1>2, <1>3 DEF JobInv

LEMMA NextCases ==
    ASSUME Next
    PROVE  \/ JobStep /\ Alive /\ UNCHANGED <<old, waiting, op, mainVars>>
           \/ \E r \in Readers : VaultEvents(r) /\ Listening /\ UNCHANGED <<old, waiting, op, mainVars>>
           \/ OpStep
           \/ MainStep
  BY DEF Next, Job, Connect, OpStep, MainStep

LEMMA InitShutdown == Init => ShutdownInv
  <1> SUFFICES ASSUME Init PROVE ShutdownInv
    OBVIOUS
  <1>1. JobInv
    BY InitJob DEF Init
  <1>2. TypeOK
    <2>1. op \in OpStates
      BY DEF Init, Idle, OpStates, Vaults
    <2>2. waiting \in Waits
      BY WaitingAssumption DEF Init, Waits
    <2>3. old \in DevStates /\ MainTypes
      BY DEF Init, DevStates, MainTypes, Vaults
    <2> QED
      BY <1>1, <2>1, <2>2, <2>3, ShutdownTypeParts DEF JobInv
  <1>3. RefersInv /\ OldInv /\ NewInv
    BY DEF Init, Idle, RefersInv, OldInv, NewInv, Visited, Locking, CleanDrain
  <1> QED
    BY <1>1, <1>2, <1>3 DEF ShutdownInv

\* Types, the job's invariant and the references to the new vault.
LEMMA StepBase ==
    ASSUME TypeOK, JobInv, RefersInv, Next
    PROVE  TypeOK' /\ JobInv' /\ RefersInv'
  <1>0. JobTypeOK /\ old \in DevStates /\ waiting \in Waits /\ op \in OpStates /\ MainTypes
    BY ShutdownTypeParts
  <1> DEFINE Goal == /\ JobInv' /\ old' \in DevStates /\ waiting' \in Waits /\ op' \in OpStates
                     /\ MainTypes' /\ RefersInv'
  <1>1. ASSUME JobNext, UNCHANGED <<old, waiting, op, mainVars>> PROVE Goal
    <2>1. JobInv'
      BY <1>1, JobInvStep
    <2>2. record => record'
      BY <1>0, <1>1, JobKeeps
    <2> QED
      BY <1>0, <1>1, <2>1, <2>2 DEF RefersInv, MainTypes, mainVars
  <1>2. ASSUME OpStep PROVE Goal
    <2>1. /\ UNCHANGED <<jobFrame, stop, mainVars>>
          /\ op' \in OpStates /\ (op'.vault = "new" => record)
          /\ waiting' \in Waits
          /\ old' \in DevStates /\ dev' \in DevStates
          /\ dev' = dev \/ record
      BY <1>2, OpKeeps
    <2>2. JobInv'
      BY <2>1, OtherKeepsJob DEF JobInv, JobTypeOK
    <2> QED
      BY <1>0, <2>1, <2>2 DEF RefersInv, MainTypes, mainVars, jobFrame
  <1>3. ASSUME MainStep PROVE Goal
    <2>1. /\ UNCHANGED <<jobFrame, op, waiting>> /\ MainTypes' /\ stop' \in BOOLEAN
          /\ old' \in DevStates /\ dev' \in DevStates
          /\ dev' = dev \/ record
          /\ "new" \in todo' => record
          /\ cur' = "new" => record
      BY <1>3, MainKeeps
    <2>2. JobInv'
      BY <2>1, OtherKeepsJob
    <2> QED
      BY <1>0, <2>1, <2>2 DEF RefersInv, jobFrame
  <1>4. Goal
    BY <1>1, <1>2, <1>3, NextCases DEF JobNext
  <1> QED
    BY <1>4, ShutdownTypeParts DEF JobInv, TypeOK, DevStates, Waits, OpStates, MainTypes

-----------------------------------------------------------------------------
(* What LockAllUnlocked closed stays closed.                                 *)

LEMMA JobKeepsStop == JobNext => (stop => stop')
  BY DEF JobNext, JobStep, Creation, CreateStep, CreateSave, CreateFail, CreateUndo,
     SendTerminal, CloseChannel, AllocProgress, CreatePanic, Streaming, ReadEvent, StreamEnds,
     DrainChannel, WriteEvent, Disconnect, CleanupJobs, Cancel, VaultEvents

\* What a step of main does to a vault it is through with: it gets there by
\* finding the device closed, by closing it, or with a failure.
LEMMA MainVisits ==
    ASSUME TypeOK, MainStep, NEW v \in Registered, Visited(v)', ~failures'
    PROVE  /\ ~failures
           /\ Device(v)' = "closed" \/ (Visited(v) /\ Device(v)' = Device(v))
  <1>0. v \in Vaults /\ UNCHANGED record /\ MainTypes
    BY ShutdownTypeParts DEF Registered, Vaults, MainStep, MainSignal, Main, SecondSignal, MainShutdown,
       MainDrain, LockAllList, LockAllUmount, LockAllSkip, LockAllClose, LockAllFails, MainExit,
       MainFrame, jobFrame
  <1>1. ~(MainSignal \/ MainShutdown \/ MainDrain \/ SecondSignal \/ LockAllFails)
    BY DEF Visited, Locking, MainSignal, MainShutdown, MainDrain, SecondSignal, LockAllFails,
       MainTo
  <1>2. ~LockAllList
    BY DEF Visited, LockAllList
  <1>3. CASE MainExit
    BY <1>3 DEF MainExit, MainTo, Visited, Locking, Device, osVars
  <1>4. CASE LockAllClose
    <2>1. CASE v = cur
      BY <1>0, <1>4, <2>1 DEF LockAllClose, SetDevice, Device, Vaults
    <2>2. CASE v # cur
      <3>1. Device(v)' = Device(v)
        BY <1>0, <1>4, <2>2 DEF LockAllClose, SetDevice, Device, Vaults, MainTypes
      <3> QED
        BY <1>4, <2>2, <3>1 DEF LockAllClose, MainTo, Visited, Locking
    <2> QED
      BY <2>1, <2>2
  <1>5. ASSUME NEW w \in Vaults, LockAllSkip(w)
        PROVE  /\ ~failures
               /\ Device(v)' = "closed" \/ (Visited(v) /\ Device(v)' = Device(v))
    <2>1. CASE v = w
      BY <1>5, <2>1 DEF LockAllSkip, Device, osVars
    <2>2. CASE v # w
      BY <1>5, <2>2 DEF LockAllSkip, Device, osVars, Visited, Locking, MainTo
    <2> QED
      BY <2>1, <2>2
  <1>6. ASSUME NEW w \in Vaults, LockAllUmount(w)
        PROVE  /\ ~failures
               /\ Device(v)' = "closed" \/ (Visited(v) /\ Device(v)' = Device(v))
    <2>1. v # w
      BY <1>6 DEF LockAllUmount, Visited, MainTo
    <2>2. Device(v)' = Device(v)
      BY <1>0, <1>6, <2>1 DEF LockAllUmount, SetDevice, Device, Vaults
    <2> QED
      BY <1>6, <2>1, <2>2 DEF LockAllUmount, Visited, Locking, MainTo
  <1> QED
    BY <1>1, <1>2, <1>3, <1>4, <1>5, <1>6 DEF MainStep, Main

LEMMA StepOld ==
    ASSUME ShutdownInv, Next
    PROVE  OldInv'
  <1>1. ASSUME JobNext, UNCHANGED <<old, waiting, op, mainVars>> PROVE OldInv'
    BY <1>1, JobKeepsStop DEF ShutdownInv, OldInv, Visited, Locking, mainVars
  <1>2. CASE OpStep
    <2>1. UNCHANGED <<stop, mainVars>> /\ (stop => (old = "closed" => old' = "closed"))
      BY <1>2, OpKeeps DEF ShutdownInv
    <2> QED
      BY <2>1 DEF ShutdownInv, OldInv, Visited, Locking, mainVars
  <1>3. CASE MainStep
    <2>1. main' # "serve" => stop'
      BY <1>3 DEF ShutdownInv, OldInv, MainStep, MainSignal, Main, SecondSignal, MainShutdown, MainDrain,
         LockAllList, LockAllUmount, LockAllSkip, LockAllClose, LockAllFails, MainExit, MainTo
    <2>0. main' = "exit" => todo' = {}
      BY <1>3 DEF MainStep, MainSignal, Main, SecondSignal, MainShutdown, MainDrain,
         LockAllList, LockAllUmount, LockAllSkip, LockAllClose, LockAllFails, MainExit, MainTo
    <2>2. ASSUME Visited("old")', ~failures' PROVE old' = "closed"
      <3>1. ~failures /\ (Device("old")' = "closed"
                          \/ (Visited("old") /\ Device("old")' = Device("old")))
        BY <1>3, <2>2, MainVisits DEF ShutdownInv, Registered
      <3>2. Device("old") = old /\ Device("old")' = old'
        BY DEF Device
      <3> QED
        BY <3>1, <3>2 DEF ShutdownInv, OldInv
    <2> QED
      BY <2>0, <2>1, <2>2 DEF OldInv
  <1> QED
    BY <1>1, <1>2, <1>3, NextCases DEF JobNext

\* With a clean drain behind it, a watched creation is at its end.
LEMMA WatchedEnded ==
    ASSUME ShutdownInv, CleanDrain, Watched
    PROVE  pc = "end"
  BY DEF ShutdownInv, NewInv, Watched, JobInv, EndInv, OutcomeInv

LEMMA StepNew ==
    ASSUME ShutdownInv, Next
    PROVE  NewInv'
  <1>0. JobTypeOK /\ (main # "serve" => stop)
    BY ShutdownTypeParts DEF ShutdownInv, OldInv
  <1>1. CASE JobStep /\ UNCHANGED <<old, waiting, op, mainVars>>
    <2>1. CleanDrain' <=> CleanDrain
      BY <1>1 DEF CleanDrain, Locking, mainVars
    <2>2. CleanDrain => \A r \in Readers : rd'[r] = rd[r]
      BY <1>0, <1>1, JobKeeps DEF ShutdownInv, NewInv, JobNext
    <2>3. CleanDrain /\ Watched' => UNCHANGED <<dev, record>>
      <3>1. CleanDrain /\ Watched' => Watched
        BY <2>2 DEF Watched
      <3> QED
        BY <1>0, <1>1, <3>1, WatchedEnded, JobKeeps DEF JobNext
    <2>4. CleanDrain /\ Watched' => Watched
      BY <2>2 DEF Watched
    <2>5. (Visited("new")' <=> Visited("new")) /\ failures' = failures
      BY <1>1 DEF Visited, Locking, mainVars
    <2> QED
      BY <2>1, <2>2, <2>3, <2>4, <2>5 DEF ShutdownInv, NewInv
  <1>2. CASE Listening /\ UNCHANGED mainVars
    BY <1>2 DEF NewInv, CleanDrain, Listening, Locking, mainVars
  <1>3. CASE OpStep
    <2>1. /\ UNCHANGED <<rd, record, stop, mainVars>>
          /\ stop => (dev = "closed" => dev' = "closed")
      BY <1>3, OpKeeps DEF ShutdownInv, jobFrame, streams
    <2>2. Visited("new")' => stop
      BY <1>0, <2>1 DEF Visited, Locking, mainVars
    <2> QED
      BY <2>1, <2>2 DEF ShutdownInv, NewInv, CleanDrain, Watched, Visited, Locking, mainVars
  <1>4. CASE MainStep
    <2>0. UNCHANGED <<rd, record>>
      BY <1>4, MainKeeps DEF ShutdownInv, jobFrame, streams
    <2>1. CleanDrain' => CleanDrain \/ (MainDrain /\ Drained)
      BY <1>4 DEF CleanDrain, Locking, MainStep, MainSignal, Main, SecondSignal, MainShutdown, MainDrain,
         LockAllList, LockAllUmount, LockAllSkip, LockAllClose, LockAllFails, MainExit, MainTo
    <2>2. CleanDrain' => \A r \in Readers : rd'[r] \in {"away", "ended", "gone"}
      BY <2>0, <2>1 DEF ShutdownInv, NewInv, Drained
    <2>3. ASSUME CleanDrain', Watched', record', Visited("new")', ~failures'
          PROVE  dev' = "closed"
      <3>1. CleanDrain /\ Watched
        BY <2>0, <2>1, <2>3 DEF Watched, MainDrain, MainTo, Visited, Locking
      <3>2. ~failures /\ (Device("new")' = "closed"
                          \/ (Visited("new") /\ Device("new")' = Device("new")))
        BY <1>4, <2>0, <2>3, MainVisits DEF ShutdownInv, Registered
      <3>3. Device("new") = dev /\ Device("new")' = dev'
        BY DEF Device
      <3> QED
        BY <2>0, <2>3, <3>1, <3>2, <3>3 DEF ShutdownInv, NewInv
    <2> QED
      BY <2>2, <2>3 DEF NewInv
  <1> QED
    BY <1>1, <1>2, <1>3, <1>4, NextCases

LEMMA ShutdownInvStep == ShutdownInv /\ [Next]_vars => ShutdownInv'
  <1>1. CASE ShutdownInv /\ Next
    BY <1>1, StepBase, StepOld, StepNew DEF ShutdownInv
  <1>2. ASSUME ShutdownInv, UNCHANGED vars PROVE ShutdownInv'
    <2>1. JobInv'
      BY <1>2, JobInvStep DEF ShutdownInv, vars
    <2>2. TypeOK'
      BY <1>2, <2>1 DEF ShutdownInv, TypeOK, JobInv, vars, mainVars
    <2>3. RefersInv' /\ OldInv' /\ NewInv'
      BY <1>2 DEF ShutdownInv, RefersInv, OldInv, NewInv, CleanDrain, Watched, Visited, Locking,
         vars, mainVars, jobVars, creation, streams
    <2> QED
      BY <2>1, <2>2, <2>3 DEF ShutdownInv
  <1> QED
    BY <1>1, <1>2

\* What the theorems below rest on holds in every state of a shutdown.
THEOREM ShutdownInvariant == Spec => []ShutdownInv
  BY InitShutdown, ShutdownInvStep, PTL DEF Spec

\* The composition of main, the requests, the sweep and the creation with its
\* streams keeps its state well formed.
THEOREM ShutdownTypes == Spec => []TypeOK
  <1>1. ShutdownInv => TypeOK
    BY DEF ShutdownInv
  <1> QED
    BY <1>1, ShutdownInvariant, PTL

\* "all vaults locked" (main.go:150-153) is true of every vault that was there
\* before: nothing opens it again behind LockAllUnlocked, which takes no mutex.
THEOREM LogIsTruthful == Spec => []LogTruthful
  <1>1. ShutdownInv => LogTruthful
    <2> SUFFICES ASSUME ShutdownInv, main = "exit", ~failures
                 PROVE  old = "closed"
      BY DEF LogTruthful
    <2> QED
      BY DEF ShutdownInv, OldInv, Visited, Locking
  <1> QED
    BY <1>1, ShutdownInvariant, PTL

\* After "shutdown complete" (main.go:150) a creation somebody watched has left no
\* open device behind, unless its own clean-up failed: a clean drain waited for
\* the streams, these for the closed channel, and the new record was in the list.
THEOREM WatchedCreationIsSettled == Spec => []WatchedCreationSettled
  <1>1. ShutdownInv => WatchedCreationSettled
    <2> SUFFICES ASSUME ShutdownInv, SaysAllLocked, Watched
                 PROVE  dev = "closed" \/ leaked
      BY DEF WatchedCreationSettled, Watched
    <2>1. CleanDrain /\ Visited("new") /\ ~failures
      BY DEF ShutdownInv, OldInv, SaysAllLocked, CleanDrain, Visited, Locking
    <2>2. pc = "end"
      BY <2>1, WatchedEnded
    <2>3. CASE record
      BY <2>1, <2>3 DEF ShutdownInv, NewInv
    <2>4. CASE ~record
      BY <2>2, <2>4 DEF ShutdownInv, JobInv, JobTypeOK, OutcomeInv, DeviceInv
    <2> QED
      BY <2>3, <2>4
  <1> QED
    BY <1>1, ShutdownInvariant, PTL

=============================================================================
