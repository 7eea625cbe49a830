------------------------ MODULE VaultServer_proofs ------------------------
(* Theorems about VaultServer, for every value of its constants.           *)
EXTENDS VaultServer, TLAPS

\* The blank argument is a row: there is a name and a path to put in it.
LEMMA BlankIsRow == Blank \in Rows
  <1>1. PICK n \in Names, d \in Dirs : TRUE
    BY ConstantsAssumption
  <1>2. <<d, n>> \in Paths
    BY <1>1 DEF Paths
  <1> QED
    BY <1>1, <1>2, ConstantsAssumption DEF Blank, Rows

\* What the subprocesses do to the devices and mounts is well typed.
LEMMA DeviceTypes ==
    ASSUME TypeOK, NEW n \in Names, NEW p \in Paths
    PROVE  /\ LuksOpen(n, p) => /\ dev' \in [Names -> Paths \cup {Closed, Orphan}]
                                /\ nodes' \subseteq Names
           /\ LuksClose(n) => /\ dev' \in [Names -> Paths \cup {Closed, Orphan}]
                              /\ nodes' \subseteq Names
           /\ MountDevice(n) => mounted' \subseteq Names
           /\ Umount(n) => mounted' \subseteq Names
           /\ Unlink(p) => /\ image' \in [Paths -> {"none", "raw", "luks", "ext4"}]
                           /\ dev' \in [Names -> Paths \cup {Closed, Orphan}]
  BY DEF TypeOK, LuksOpen, LuksClose, MountDevice, Umount, Unlink

\* A task's argument is a row, so its name and path are.
LEMMA ArgTypes ==
    ASSUME TypeOK, NEW t \in Tasks
    PROVE  /\ arg[t] \in Rows
           /\ arg[t].name \in Names /\ arg[t].path \in Paths
           /\ arg[t].id \in 0..MaxVaults
           /\ cur.name \in Names /\ cur.path \in Paths
  BY DEF TypeOK, Rows

\* A window that is set or cleared stays between zero and now.
LEMMA WindowTypes ==
    ASSUME TypeOK, NEW i
    PROVE  MarkUnlocked(i) \/ ClearUnlocked(i) => unlockedAt' \in [Ids -> 0..now]
  BY DEF TypeOK, MarkUnlocked, ClearUnlocked

\* The row that is inserted is one, and the counter stays in its bound.
LEMMA InsertTypes ==
    ASSUME TypeOK, NEW n \in Names, NEW p \in Paths, InsertVault(n, p)
    PROVE  db' \subseteq Rows /\ nextId' \in 1..MaxVaults + 1
  BY ConstantsAssumption DEF TypeOK, InsertVault, Rows

\* Every handler step keeps the types.
LEMMA RequestTypes ==
    ASSUME TypeOK, NEW t \in Tasks, Request(t)
    PROVE  TypeOK'
  <1> USE BlankIsRow, ArgTypes DEF Goto, Acquire, Finish, dbVars, osVars, pending,
          taskVars, sweepVars, envVars
  <1>1. ASSUME NEW op \in WaitPcs, LookupVault(t, op) PROVE TypeOK'
    BY <1>1 DEF LookupVault, TypeOK, TaskPcs, WaitPcs
  <1>2. CASE RequestFails(t)
    BY <1>2 DEF RequestFails, TypeOK, TaskPcs
  <1>3. CASE UnlockOpen(t)
    BY <1>3, DeviceTypes DEF UnlockOpen, TypeOK, TaskPcs, HoldPcs
  <1>4. CASE UnlockMount(t)
    BY <1>4, DeviceTypes, WindowTypes DEF UnlockMount, TypeOK, TaskPcs, HoldPcs
  <1>5. CASE UnlockClose(t)
    BY <1>5, DeviceTypes DEF UnlockClose, TypeOK, TaskPcs
  <1>6. CASE LockUmount(t)
    BY <1>6, DeviceTypes DEF LockUmount, TypeOK, TaskPcs, HoldPcs
  <1>7. CASE LockClose(t)
    BY <1>7, DeviceTypes, WindowTypes DEF LockClose, TypeOK, TaskPcs
  <1>8. CASE MountVault(t)
    BY <1>8, DeviceTypes DEF MountVault, TypeOK, TaskPcs
  <1>9. CASE DeleteCheck(t) \/ DeleteRecord(t)
    BY <1>9 DEF DeleteCheck, DeleteRecord, TypeOK, TaskPcs, HoldPcs
  <1>13. CASE DeleteClear(t)
    BY <1>13, WindowTypes DEF DeleteClear, TypeOK, TaskPcs, HoldPcs
  <1>10. CASE DeleteFiles(t)
    BY <1>10, DeviceTypes DEF DeleteFiles, TypeOK, TaskPcs
  <1>11. ASSUME NEW n \in Names, NEW p \in Paths, ImportProbe(t, n, p) PROVE TypeOK'
    BY <1>11, ConstantsAssumption DEF ImportProbe, TypeOK, TaskPcs, HoldPcs, Rows
  <1>12. CASE ImportInsert(t)
    BY <1>12, InsertTypes DEF ImportInsert, TypeOK, TaskPcs
  <1> QED
    BY <1>1, <1>2, <1>3, <1>4, <1>5, <1>6, <1>7, <1>8, <1>9, <1>10, <1>11, <1>12,
       <1>13
    DEF Request

\* So does every step of the creation pipeline,
LEMMA CreateTypes ==
    ASSUME TypeOK, NEW t \in Tasks, Pipeline(t) \/ CreateRelease(t)
    PROVE  TypeOK'
  <1> USE BlankIsRow, ArgTypes DEF Goto, Finish, dbVars, osVars, pending, taskVars,
          sweepVars, envVars, TaskPcs, CreatePcs, OwnerPcs
  <1>1. CASE CreateCheck(t)
    BY <1>1 DEF CreateCheck, TypeOK
  <1>2. CASE CreateAlloc(t)
    BY <1>2 DEF CreateAlloc, TypeOK
  <1>3. CASE CreateFormat(t)
    BY <1>3 DEF CreateFormat, TypeOK
  <1>4. CASE CreateOpen(t)
    BY <1>4, DeviceTypes DEF CreateOpen, TypeOK
  <1>5. CASE CreateMkfs(t)
    BY <1>5 DEF CreateMkfs, TypeOK
  <1>6. CASE CreateMount(t)
    BY <1>6, DeviceTypes DEF CreateMount, TypeOK
  <1>7. CASE CreateSave(t)
    BY <1>7, InsertTypes DEF CreateSave, TypeOK
  <1>8. CASE CreateUmount(t)
    BY <1>8, DeviceTypes DEF CreateUmount, TypeOK
  <1>9. CASE CreateClose(t)
    BY <1>9, DeviceTypes DEF CreateClose, TypeOK
  <1>10. CASE CreateRemove(t)
    BY <1>10, DeviceTypes DEF CreateRemove, TypeOK
  <1>11. CASE CreateTrack(t)
    BY <1>11 DEF CreateTrack, TypeOK, Rows
  <1>12. CASE CreateMark(t)
    BY <1>12, WindowTypes DEF CreateMark, TypeOK
  <1>13. CASE CreateRelease(t)
    BY <1>13 DEF CreateRelease, TypeOK
  <1> QED
    BY <1>1, <1>2, <1>3, <1>4, <1>5, <1>6, <1>7, <1>8, <1>9, <1>10, <1>11, <1>12,
       <1>13
    DEF Pipeline

\* and of the auto-lock goroutine.
LEMMA AutoLockTypes ==
    ASSUME TypeOK, AutoLock
    PROVE  TypeOK'
  <1> USE BlankIsRow DEF SweepGoto, SweepPcs, dbVars, osVars, pending, taskVars,
          sweepVars, envVars
  <1>n. cur.name \in Names /\ cur.path \in Paths
    BY DEF TypeOK, Rows
  <1>1. CASE ScanList
    BY <1>1 DEF ScanList, TypeOK
  <1>2. CASE ScanCheck
    BY <1>2 DEF ScanCheck, TypeOK
  <1>3. CASE ScanMark
    BY <1>3, WindowTypes DEF ScanMark, TypeOK
  <1>4. CASE SweepCollect
    BY <1>4 DEF SweepCollect, TypeOK
  <1>5. CASE SweepPick
    BY <1>5, WindowTypes DEF SweepPick, TypeOK
  <1>6. CASE SweepSkip
    BY <1>6 DEF SweepSkip, TypeOK
  <1>7. CASE SweepUmount
    BY <1>7, <1>n, DeviceTypes DEF SweepUmount, Acquire, TypeOK
  <1>8. CASE SweepClose
    BY <1>8, <1>n, DeviceTypes DEF SweepClose, TypeOK
  <1>9. CASE SweepClear
    BY <1>9, WindowTypes DEF SweepClear, TypeOK
  <1> QED
    BY <1>1, <1>2, <1>3, <1>4, <1>5, <1>6, <1>7, <1>8, <1>9 DEF AutoLock

\* The types hold at first and are kept by every step.
LEMMA InitTypes == Init => TypeOK
  BY BlankIsRow, ConstantsAssumption
  DEF Init, TypeOK, TaskPcs, SweepPcs, Ids

LEMMA NextTypes ==
    ASSUME TypeOK, [Next]_vars
    PROVE  TypeOK'
  <1> USE BlankIsRow DEF dbVars, osVars, pending, taskVars, sweepVars, envVars
  <1>1. ASSUME NEW t \in Tasks, NEW n \in Names, NEW d \in Dirs, CreateReserve(t, n, d)
        PROVE  TypeOK'
    <2>1. PICK p \in Paths : p = <<d, n>>
      BY DEF Paths
    <2>2. [id |-> 0, name |-> n, path |-> p] \in Rows
      BY ConstantsAssumption DEF Rows
    <2>3. arg' \in [Tasks -> Rows] /\ pc' \in [Tasks -> TaskPcs]
      BY <1>1, <2>1, <2>2 DEF CreateReserve, Goto, TypeOK, TaskPcs, CreatePcs
    <2>4. pendingNames' \subseteq Names /\ pendingPaths' \subseteq Paths
      BY <1>1, <2>1 DEF CreateReserve, TypeOK
    <2> QED
      BY <1>1, <2>3, <2>4 DEF CreateReserve, TypeOK
  <1>2. CASE Crash
    BY <1>2, ConstantsAssumption DEF Crash, TypeOK, TaskPcs, SweepPcs
  <1>3. CASE Tick
    BY <1>3, ConstantsAssumption DEF Tick, TypeOK
  <1>4. CASE UNCHANGED vars
    BY <1>4 DEF vars, TypeOK
  <1> QED
    BY <1>1, <1>2, <1>3, <1>4, RequestTypes, CreateTypes, AutoLockTypes DEF Next

\* Type correctness: whatever interleaves, fails or crashes, every variable keeps
\* its type and no auto-lock window starts in the future.
THEOREM TypeCorrect == Spec => []TypeOK
  BY InitTypes, NextTypes, PTL DEF Spec

-----------------------------------------------------------------------------
(* The sweep and the clock touch neither records, images, reservations nor *)
(* tasks.                                                                  *)
LEMMA SweepFrame ==
    ASSUME AutoLock \/ Tick \/ UNCHANGED vars
    PROVE  UNCHANGED <<dbVars, image, pending, pc, arg>>
  BY DEF AutoLock, ScanList, ScanCheck, ScanMark, SweepCollect, SweepPick, SweepSkip,
         SweepUmount, SweepClose, SweepClear, Tick, vars, dbVars, osVars, pending,
         taskVars

\* opMu: one step per action, for it is what they all take and give back.
LEMMA NextMutex ==
    ASSUME TypeOK, MutexDiscipline, [Next]_vars
    PROVE  MutexDiscipline'
  <1> USE ConstantsAssumption DEF MutexDiscipline, HoldPcs
  <1>1. ASSUME NEW t \in Tasks, Request(t) PROVE MutexDiscipline'
    <2> USE DEF Goto, Acquire, Finish, TypeOK, sweepVars
    <2>1. ASSUME NEW op \in WaitPcs, LookupVault(t, op) PROVE MutexDiscipline'
      BY <2>1 DEF LookupVault, WaitPcs
    <2>2. CASE RequestFails(t)
      BY <2>2 DEF RequestFails, WaitPcs
    <2>3. CASE UnlockOpen(t)
      BY <2>3 DEF UnlockOpen
    <2>4. CASE UnlockMount(t)
      BY <2>4 DEF UnlockMount
    <2>5. CASE UnlockClose(t)
      BY <2>5 DEF UnlockClose
    <2>6. CASE LockUmount(t)
      BY <2>6 DEF LockUmount
    <2>7. CASE LockClose(t)
      BY <2>7 DEF LockClose
    <2>8. CASE MountVault(t)
      BY <2>8 DEF MountVault
    <2>9. CASE DeleteCheck(t)
      BY <2>9 DEF DeleteCheck
    <2>13. CASE DeleteRecord(t)
      BY <2>13 DEF DeleteRecord
    <2>14. CASE DeleteClear(t)
      BY <2>14 DEF DeleteClear
    <2>10. CASE DeleteFiles(t)
      BY <2>10 DEF DeleteFiles
    <2>11. ASSUME NEW n \in Names, NEW p \in Paths, ImportProbe(t, n, p)
           PROVE  MutexDiscipline'
      BY <2>11 DEF ImportProbe
    <2>12. CASE ImportInsert(t)
      BY <2>12 DEF ImportInsert
    <2> QED
      BY <1>1, <2>1, <2>2, <2>3, <2>4, <2>5, <2>6, <2>7, <2>8, <2>9, <2>10, <2>11,
         <2>12, <2>13, <2>14
      DEF Request
  <1>2. ASSUME NEW t \in Tasks, NEW n \in Names, NEW d \in Dirs, CreateReserve(t, n, d)
        PROVE  MutexDiscipline'
    BY <1>2 DEF CreateReserve, Goto, TypeOK, sweepVars
  <1>3. ASSUME NEW t \in Tasks, Pipeline(t) PROVE MutexDiscipline'
    <2>1. \E from, to \in CreatePcs : Goto(t, from, to)
      BY <1>3 DEF Pipeline, CreateCheck, CreateAlloc, CreateFormat, CreateOpen,
         CreateMkfs, CreateMount, CreateSave, CreateUmount, CreateClose, CreateRemove,
         CreateTrack, CreateMark, CreatePcs, OwnerPcs, Goto
    <2>2. UNCHANGED <<opMu, sweepPc>>
      BY <1>3 DEF Pipeline, CreateCheck, CreateAlloc, CreateFormat, CreateOpen,
         CreateMkfs, CreateMount, CreateSave, CreateUmount, CreateClose, CreateRemove,
         CreateTrack, CreateMark, sweepVars
    <2> QED
      BY <2>1, <2>2 DEF Goto, TypeOK, CreatePcs, OwnerPcs
  <1>4. ASSUME NEW t \in Tasks, CreateRelease(t) PROVE MutexDiscipline'
    BY <1>4 DEF CreateRelease, Goto, Finish, TypeOK, sweepVars
  <1>5. CASE AutoLock
    <2> USE DEF SweepGoto, taskVars, TypeOK
    <2>1. CASE ScanList \/ ScanCheck \/ ScanMark \/ SweepCollect \/ SweepPick
      BY <2>1 DEF ScanList, ScanCheck, ScanMark, SweepCollect, SweepPick
    <2>2. CASE SweepSkip \/ SweepClear
      BY <2>2 DEF SweepSkip, SweepClear
    <2>3. CASE SweepUmount
      BY <2>3 DEF SweepUmount, Acquire
    <2>4. CASE SweepClose
      BY <2>4 DEF SweepClose
    <2> QED
      BY <1>5, <2>1, <2>2, <2>3, <2>4 DEF AutoLock
  <1>6. CASE Crash
    BY <1>6 DEF Crash
  <1>7. CASE Tick \/ UNCHANGED vars
    BY <1>7 DEF Tick, vars, taskVars, sweepVars
  <1> QED
    BY <1>1, <1>2, <1>3, <1>4, <1>5, <1>6, <1>7 DEF Next

\* opMu is held exactly between the first and the last step of an operation:
\* every path out of a handler, the error paths included, gives it back.
THEOREM MutexCorrect == Spec => []MutexDiscipline
  <1>1. Init => MutexDiscipline
    BY ConstantsAssumption DEF Init, MutexDiscipline, HoldPcs
  <1> QED
    BY <1>1, TypeCorrect, NextMutex, PTL DEF Spec

-----------------------------------------------------------------------------
(* Reservations.                                                           *)

\* A request on a registered vault or an import moves its own slot only, never
\* into or out of a pipeline, and leaves the reservations alone.
LEMMA RequestFrame ==
    ASSUME TypeOK, NEW t \in Tasks, Request(t)
    PROVE  /\ UNCHANGED pending
           /\ pc[t] \notin CreatePcs /\ pc'[t] \notin CreatePcs
           /\ \A u \in Tasks : u # t => pc'[u] = pc[u] /\ arg'[u] = arg[u]
  <1> USE DEF Goto, Acquire, Finish, TypeOK, CreatePcs, OwnerPcs, WaitPcs
  <1>1. ASSUME NEW op \in WaitPcs, LookupVault(t, op)
        PROVE  /\ UNCHANGED pending /\ pc[t] = "idle" /\ pc'[t] \in WaitPcs
               /\ \A u \in Tasks : u # t => pc'[u] = pc[u] /\ arg'[u] = arg[u]
    BY <1>1 DEF LookupVault
  <1>2. ASSUME NEW n \in Names, NEW p \in Paths, ImportProbe(t, n, p)
        PROVE  /\ UNCHANGED pending /\ pc[t] = "idle" /\ pc'[t] = "import"
               /\ \A u \in Tasks : u # t => pc'[u] = pc[u] /\ arg'[u] = arg[u]
    BY <1>2 DEF ImportProbe
  <1>3. CASE RequestFails(t) \/ UnlockOpen(t) \/ UnlockMount(t) \/ UnlockClose(t)
    BY <1>3 DEF RequestFails, UnlockOpen, UnlockMount, UnlockClose
  <1>4. CASE LockUmount(t) \/ LockClose(t) \/ MountVault(t)
    BY <1>4 DEF LockUmount, LockClose, MountVault
  <1>5. CASE DeleteCheck(t) \/ DeleteRecord(t) \/ DeleteClear(t)
    BY <1>5 DEF DeleteCheck, DeleteRecord, DeleteClear
  <1>6. CASE DeleteFiles(t) \/ ImportInsert(t)
    BY <1>6 DEF DeleteFiles, ImportInsert
  <1> QED
    BY <1>1, <1>2, <1>3, <1>4, <1>5, <1>6 DEF Request

\* A pipeline moves its own slot, keeps its name and path, and leaves the
\* reservations alone.
LEMMA PipelineFrame ==
    ASSUME TypeOK, NEW t \in Tasks, Pipeline(t)
    PROVE  /\ UNCHANGED pending
           /\ pc[t] \in CreatePcs /\ pc'[t] \in CreatePcs
           /\ arg'[t].name = arg[t].name /\ arg'[t].path = arg[t].path
           /\ \A u \in Tasks : u # t => pc'[u] = pc[u] /\ arg'[u] = arg[u]
  <1> USE DEF Goto, TypeOK, CreatePcs, OwnerPcs
  <1>1. CASE CreateCheck(t) \/ CreateAlloc(t) \/ CreateFormat(t) \/ CreateOpen(t)
    BY <1>1 DEF CreateCheck, CreateAlloc, CreateFormat, CreateOpen
  <1>2. CASE CreateMkfs(t) \/ CreateMount(t) \/ CreateSave(t) \/ CreateUmount(t)
    BY <1>2 DEF CreateMkfs, CreateMount, CreateSave, CreateUmount
  <1>3. CASE CreateClose(t) \/ CreateRemove(t) \/ CreateMark(t)
    BY <1>3 DEF CreateClose, CreateRemove, CreateMark
  <1>4. CASE CreateTrack(t)
    BY <1>4 DEF CreateTrack, Rows
  <1> QED
    BY <1>1, <1>2, <1>3, <1>4 DEF Pipeline

\* Only a reservation, a release and a crash change who is creating what, and
\* each changes the maps with it.
LEMMA NextReservations ==
    ASSUME TypeOK, ReservationsExact, [Next]_vars
    PROVE  ReservationsExact'
  <1> USE DEF ReservationsExact, Creating
  <1>1. ASSUME NEW t \in Tasks, Request(t) PROVE ReservationsExact'
    BY <1>1, RequestFrame DEF pending
  <1>2. ASSUME NEW t \in Tasks, NEW n \in Names, NEW d \in Dirs, CreateReserve(t, n, d)
        PROVE  ReservationsExact'
    <2>1. <<d, n>> \in Paths
      BY DEF Paths
    <2>2. PICK p \in Paths : p = <<d, n>>
      BY <2>1
    <2>3. /\ n \notin pendingNames /\ p \notin pendingPaths
          /\ pendingNames' = pendingNames \cup {n}
          /\ pendingPaths' = pendingPaths \cup {p}
          /\ pc[t] = "idle" /\ pc'[t] = "c.check"
          /\ arg'[t].name = n /\ arg'[t].path = p
          /\ \A u \in Tasks : u # t => pc'[u] = pc[u] /\ arg'[u] = arg[u]
      BY <1>2, <2>2 DEF CreateReserve, InFlight, Goto, TypeOK
    <2>4. "c.check" \in CreatePcs /\ "idle" \notin CreatePcs
      BY DEF CreatePcs, OwnerPcs
    <2> QED
      BY <2>3, <2>4
  <1>3. ASSUME NEW t \in Tasks, Pipeline(t) PROVE ReservationsExact'
    BY <1>3, PipelineFrame DEF pending
  <1>4. ASSUME NEW t \in Tasks, CreateRelease(t) PROVE ReservationsExact'
    <2>1. /\ pendingNames' = pendingNames \ {arg[t].name}
          /\ pendingPaths' = pendingPaths \ {arg[t].path}
          /\ pc[t] = "c.release" /\ pc'[t] = "idle"
          /\ \A u \in Tasks : u # t => pc'[u] = pc[u] /\ arg'[u] = arg[u]
      BY <1>4 DEF CreateRelease, Finish, Goto, TypeOK
    <2>2. "c.release" \in CreatePcs /\ "idle" \notin CreatePcs
      BY DEF CreatePcs, OwnerPcs
    <2> QED
      BY <2>1, <2>2
  <1>5. CASE AutoLock \/ Tick \/ UNCHANGED vars
    BY <1>5, SweepFrame DEF pending
  <1>6. CASE Crash
    BY <1>6 DEF Crash, CreatePcs, OwnerPcs
  <1> QED
    BY <1>1, <1>2, <1>3, <1>4, <1>5, <1>6 DEF Next

\* pendingNames and pendingPaths say exactly which creations are in flight, and
\* no two of them share a name or an image path.
THEOREM ReservationsCorrect == Spec => []ReservationsExact
  <1>1. Init => ReservationsExact
    BY DEF Init, ReservationsExact, Creating, CreatePcs, OwnerPcs
  <1> QED
    BY <1>1, TypeCorrect, NextReservations, PTL DEF Spec

-----------------------------------------------------------------------------
(* Records and the copies of them that requests work from.                 *)

\* What a step can do to the vaults table.
LEMMA RecordSteps ==
    ASSUME TypeOK, [Next]_vars
    PROVE  \/ UNCHANGED dbVars
           \/ \E t \in Tasks : DeleteRecord(t)
           \/ \E t \in Tasks : ImportInsert(t) /\ InsertVault(arg[t].name, arg[t].path)
           \/ \E t \in Tasks : /\ CreateSave(t) /\ pc[t] = "c.save" /\ pc'[t] = "c.track"
                               /\ InsertVault(arg[t].name, arg[t].path)
  <1>1. ASSUME NEW t \in Tasks, Request(t)
        PROVE  \/ UNCHANGED dbVars
               \/ DeleteRecord(t)
               \/ ImportInsert(t) /\ InsertVault(arg[t].name, arg[t].path)
    BY <1>1 DEF Request, LookupVault, RequestFails, UnlockOpen, UnlockMount, UnlockClose,
       LockUmount, LockClose, MountVault, DeleteCheck, DeleteClear, DeleteFiles,
       ImportProbe, ImportInsert
  <1>2. ASSUME NEW t \in Tasks, Pipeline(t)
        PROVE  \/ UNCHANGED dbVars
               \/ /\ CreateSave(t) /\ pc[t] = "c.save" /\ pc'[t] = "c.track"
                  /\ InsertVault(arg[t].name, arg[t].path)
    BY <1>2 DEF Pipeline, CreateCheck, CreateAlloc, CreateFormat, CreateOpen,
       CreateMkfs, CreateMount, CreateSave, CreateUmount, CreateClose, CreateRemove,
       CreateTrack, CreateMark, Goto, TypeOK
  <1>3. ASSUME NEW t \in Tasks, NEW n \in Names, NEW d \in Dirs, CreateReserve(t, n, d)
        PROVE  UNCHANGED dbVars
    BY <1>3 DEF CreateReserve
  <1>4. ASSUME NEW t \in Tasks, CreateRelease(t) PROVE UNCHANGED dbVars
    BY <1>4 DEF CreateRelease
  <1>5. CASE Crash
    BY <1>5 DEF Crash
  <1> QED
    BY <1>1, <1>2, <1>3, <1>4, <1>5, SweepFrame DEF Next

\* A slot that waits for opMu after the step either waited before with the same
\* copy, or has just read a row.
LEMMA WaitSteps ==
    ASSUME TypeOK, [Next]_vars, NEW t \in Tasks, pc'[t] \in WaitPcs
    PROVE  \/ pc[t] = pc'[t] /\ arg'[t] = arg[t]
           \/ /\ arg'[t] \in db /\ UNCHANGED <<dbVars, osVars, pending>>
              /\ pc'[t] = "delete" => t \in Deleters
  <1>1. ASSUME NEW u \in Tasks, Request(u)
        PROVE  \/ pc[t] = pc'[t] /\ arg'[t] = arg[t]
               \/ /\ arg'[t] \in db /\ UNCHANGED <<dbVars, osVars, pending>>
                  /\ pc'[t] = "delete" => t \in Deleters
    <2>1. ASSUME NEW op \in WaitPcs, LookupVault(u, op)
          PROVE  \/ pc[t] = pc'[t] /\ arg'[t] = arg[t]
                 \/ /\ arg'[t] \in db /\ UNCHANGED <<dbVars, osVars, pending>>
                    /\ pc'[t] = "delete" => t \in Deleters
      BY <2>1 DEF LookupVault, Goto, TypeOK
    <2>2. ASSUME NEW n \in Names, NEW p \in Paths, ImportProbe(u, n, p)
          PROVE  pc[t] = pc'[t] /\ arg'[t] = arg[t]
      BY <2>2 DEF ImportProbe, Goto, TypeOK, WaitPcs
    <2>3. CASE RequestFails(u) \/ UnlockOpen(u) \/ UnlockMount(u) \/ UnlockClose(u)
      BY <2>3 DEF RequestFails, UnlockOpen, UnlockMount, UnlockClose, Goto, Finish,
         TypeOK, WaitPcs
    <2>4. CASE LockUmount(u) \/ LockClose(u) \/ MountVault(u)
      BY <2>4 DEF LockUmount, LockClose, MountVault, Goto, Finish, TypeOK, WaitPcs
    <2>5. CASE DeleteCheck(u) \/ DeleteRecord(u) \/ DeleteClear(u)
      BY <2>5 DEF DeleteCheck, DeleteRecord, DeleteClear, Goto, Finish, TypeOK, WaitPcs
    <2>6. CASE DeleteFiles(u) \/ ImportInsert(u)
      BY <2>6 DEF DeleteFiles, ImportInsert, Goto, Finish, TypeOK, WaitPcs
    <2> QED
      BY <1>1, <2>1, <2>2, <2>3, <2>4, <2>5, <2>6 DEF Request
  <1>2. ASSUME NEW u \in Tasks, NEW n \in Names, NEW d \in Dirs, CreateReserve(u, n, d)
        PROVE  pc[t] = pc'[t] /\ arg'[t] = arg[t]
    BY <1>2 DEF CreateReserve, Goto, TypeOK, WaitPcs
  <1>3. ASSUME NEW u \in Tasks, Pipeline(u)
        PROVE  pc[t] = pc'[t] /\ arg'[t] = arg[t]
    BY <1>3, PipelineFrame DEF WaitPcs, CreatePcs, OwnerPcs
  <1>4. ASSUME NEW u \in Tasks, CreateRelease(u)
        PROVE  pc[t] = pc'[t] /\ arg'[t] = arg[t]
    BY <1>4 DEF CreateRelease, Goto, Finish, TypeOK, WaitPcs
  <1>5. CASE Crash
    BY <1>5 DEF Crash, WaitPcs
  <1> QED
    BY <1>1, <1>2, <1>3, <1>4, <1>5, SweepFrame DEF Next

\* Rows are only inserted with a new id.
LEMMA NewIds ==
    ASSUME TypeOK, TypeOK', [Next]_vars
    PROVE  /\ nextId' \in Nat /\ nextId <= nextId'
           /\ \A r \in db' : r \in db \/ (r.id = nextId /\ nextId' = nextId + 1)
  <1>1. nextId \in Nat /\ nextId' \in Nat
    BY ConstantsAssumption DEF TypeOK
  <1>2. ASSUME NEW n, NEW p, InsertVault(n, p)
        PROVE  /\ nextId' = nextId + 1
               /\ \A r \in db' : r \in db \/ r.id = nextId
    BY <1>2 DEF InsertVault
  <1>3. ASSUME NEW t \in Tasks, DeleteRecord(t)
        PROVE  nextId' = nextId /\ db' \subseteq db
    BY <1>3 DEF DeleteRecord
  <1>4. CASE \E t \in Tasks : InsertVault(arg[t].name, arg[t].path)
    <2>1. PICK t \in Tasks : InsertVault(arg[t].name, arg[t].path)
      BY <1>4
    <2> QED
      BY <1>1, <1>2, <2>1
  <1>5. CASE \E t \in Tasks : DeleteRecord(t)
    BY <1>1, <1>3, <1>5
  <1>6. CASE UNCHANGED dbVars
    BY <1>1, <1>6 DEF dbVars
  <1> QED
    BY <1>4, <1>5, <1>6, RecordSteps

\* So no copy is of another row.
LEMMA NextCopies ==
    ASSUME TypeOK, TypeOK', CopiesCurrent, [Next]_vars
    PROVE  CopiesCurrent'
  <1>1. /\ nextId' \in Nat /\ nextId <= nextId'
        /\ \A r \in db' : r \in db \/ (r.id = nextId /\ nextId' = nextId + 1)
    BY NewIds
  <1>2. /\ \A r \in db' : r.id < nextId'
        /\ \A r, s \in db' : r.id = s.id => r = s
    <2>1. \A r \in db' : r.id \in Nat
      BY ConstantsAssumption DEF TypeOK, Rows
    <2>2. \A r, s \in db' \ db : r = s
      BY RecordSteps DEF DeleteRecord, InsertVault, dbVars
    <2> QED
      BY <1>1, <2>1, <2>2 DEF CopiesCurrent, TypeOK
  <1>3. ASSUME NEW t \in Tasks, pc'[t] \in WaitPcs
        PROVE  /\ arg'[t].id < nextId'
               /\ \A r \in db' : r.id = arg'[t].id => r = arg'[t]
    <2>1. arg'[t].id \in Nat /\ nextId \in Nat
      BY ConstantsAssumption DEF TypeOK, Rows
    <2>2. CASE pc[t] = pc'[t] /\ arg'[t] = arg[t]
      BY <1>1, <1>3, <2>1, <2>2 DEF CopiesCurrent
    <2>3. CASE arg'[t] \in db /\ UNCHANGED dbVars
      BY <1>2, <2>3 DEF dbVars
    <2> QED
      BY <1>3, <2>2, <2>3, WaitSteps
  <1> QED
    BY <1>2, <1>3 DEF CopiesCurrent

\* The row a request read before opMu is, under opMu, still the row of its id or
\* the row of no record at all.
THEOREM CopiesCorrect == Spec => []CopiesCurrent
  <1>1. Init => CopiesCurrent
    BY DEF Init, CopiesCurrent, WaitPcs
  <1> QED
    BY <1>1, TypeCorrect, NextCopies, PTL DEF Spec

-----------------------------------------------------------------------------
(* Auto-lock windows outside the sweep.                                    *)

\* A manual lock that unmounted a vault works on the row of its id, or on none;
\* a DELETE that removed its record works on none.
LockCopies ==
    /\ \A r \in db : r.id \in Ids
    /\ \A t \in Tasks :
        /\ pc[t] \in {"lock.close", "delete.record", "delete.clear"} =>
                arg[t].id < nextId
        /\ pc[t] = "lock.close" => \A r \in db : r.id = arg[t].id => r = arg[t]
        /\ pc[t] = "delete.clear" => \A r \in db : r.id # arg[t].id

\* A slot comes to the later steps of a lock or a DELETE from the first, with the
\* same row.
LEMMA LockSteps ==
    ASSUME TypeOK, [Next]_vars, NEW t \in Tasks,
           pc'[t] \in {"lock.close", "delete.record", "delete.clear"}
    PROVE  /\ arg'[t] = arg[t]
           /\ \/ pc[t] = pc'[t]
              \/ pc[t] = "lock" /\ pc'[t] = "lock.close"
              \/ pc[t] = "delete" /\ pc'[t] = "delete.record"
              \/ /\ pc[t] = "delete.record" /\ pc'[t] = "delete.clear"
                 /\ DeleteRecord(t)
  <1> DEFINE Goal == /\ arg'[t] = arg[t]
                     /\ \/ pc[t] = pc'[t]
                        \/ pc[t] = "lock" /\ pc'[t] = "lock.close"
                        \/ pc[t] = "delete" /\ pc'[t] = "delete.record"
                        \/ /\ pc[t] = "delete.record" /\ pc'[t] = "delete.clear"
                           /\ DeleteRecord(t)
  <1>1. ASSUME NEW u \in Tasks, u # t, Request(u) PROVE Goal
    BY <1>1, RequestFrame
  <1>2. CASE Request(t)
    <2> USE DEF Goto, TypeOK
    <2>1. CASE DeleteRecord(t)
      <3>1. pc[t] = "delete.record" /\ pc'[t] = "delete.clear" /\ arg' = arg
        BY <2>1 DEF DeleteRecord
      <3> QED
        BY <2>1, <3>1
    <2>2. CASE LockUmount(t) \/ DeleteCheck(t)
      BY <2>2 DEF LockUmount, DeleteCheck
    <2>3. CASE ~(DeleteRecord(t) \/ LockUmount(t) \/ DeleteCheck(t))
      BY <1>2, <2>3 DEF Request, LookupVault, RequestFails, UnlockOpen, UnlockMount,
         UnlockClose, LockClose, MountVault, DeleteClear, DeleteFiles, ImportProbe,
         ImportInsert, WaitPcs
    <2> QED
      BY <2>1, <2>2, <2>3
  <1>3. ASSUME NEW u \in Tasks, NEW n \in Names, NEW d \in Dirs, CreateReserve(u, n, d)
        PROVE  Goal
    BY <1>3 DEF CreateReserve, Goto, TypeOK
  <1>4. ASSUME NEW u \in Tasks, Pipeline(u) PROVE Goal
    BY <1>4, PipelineFrame DEF CreatePcs, OwnerPcs
  <1>5. ASSUME NEW u \in Tasks, CreateRelease(u) PROVE Goal
    BY <1>5 DEF CreateRelease, Goto, Finish, TypeOK
  <1>6. CASE Crash
    BY <1>6 DEF Crash
  <1> QED
    BY <1>1, <1>2, <1>3, <1>4, <1>5, <1>6, SweepFrame DEF Next

LEMMA NextLockCopies ==
    ASSUME TypeOK, TypeOK', CopiesCurrent, LockCopies, [Next]_vars
    PROVE  LockCopies'
  <1>1. /\ nextId \in Nat \ {0} /\ nextId' \in Nat /\ nextId <= nextId'
        /\ \A r \in db' : r \in db \/ (r.id = nextId /\ nextId' = nextId + 1)
    BY NewIds, ConstantsAssumption DEF TypeOK
  <1>2. ASSUME NEW r \in db' PROVE r.id \in Ids
    <2>1. r.id \in 0..MaxVaults
      BY DEF TypeOK, Rows
    <2> QED
      BY <1>1, <2>1, ConstantsAssumption DEF LockCopies, Ids
  <1>3. ASSUME NEW t \in Tasks, pc'[t] \in {"lock.close", "delete.record", "delete.clear"}
        PROVE  /\ arg'[t] = arg[t]
               /\ arg[t].id \in Nat /\ arg[t].id < nextId /\ arg'[t].id < nextId'
    <2>1. /\ arg'[t] = arg[t]
          /\ pc[t] \in {"lock", "delete", "lock.close", "delete.record", "delete.clear"}
      BY <1>3, LockSteps
    <2>2. arg[t].id < nextId
      BY <2>1 DEF CopiesCurrent, LockCopies, WaitPcs
    <2>3. arg[t].id \in Nat
      BY ConstantsAssumption DEF TypeOK, Rows
    <2> QED
      BY <1>1, <2>1, <2>2, <2>3
  <1>4. ASSUME NEW t \in Tasks, pc'[t] = "lock.close"
        PROVE  \A r \in db' : r.id = arg'[t].id => r = arg'[t]
    <2>1. pc[t] \in {"lock", "lock.close"}
      BY <1>4, LockSteps
    <2>2. \A r \in db : r.id = arg[t].id => r = arg[t]
      BY <2>1 DEF CopiesCurrent, LockCopies, WaitPcs
    <2> QED
      BY <1>1, <1>3, <1>4, <2>2
  <1>5. ASSUME NEW t \in Tasks, pc'[t] = "delete.clear"
        PROVE  \A r \in db' : r.id # arg'[t].id
    <2>1. CASE pc[t] = "delete.clear"
      BY <1>1, <1>3, <1>5, <2>1 DEF LockCopies
    <2>2. CASE DeleteRecord(t)
      <3>1. db' = {r \in db : r.id # arg[t].id}
        BY <1>5, <2>2 DEF DeleteRecord, Goto, TypeOK
      <3> QED
        BY <1>3, <1>5, <3>1
    <2> QED
      BY <1>5, <2>1, <2>2, LockSteps
  <1> QED
    BY <1>2, <1>3, <1>4, <1>5 DEF LockCopies

\* Which steps end a running window.
LEMMA WindowSteps ==
    ASSUME TypeOK, [Next]_vars, NEW i \in Ids, unlockedAt[i] # 0, unlockedAt'[i] = 0
    PROVE  \/ \E t \in Tasks : /\ LockClose(t) /\ LuksClose(arg[t].name)
                               /\ arg[t].id = i
           \/ \E t \in Tasks : DeleteClear(t) /\ arg[t].id = i
           \/ sweepPc' # sweepPc \/ expired' # expired \/ crashes' # crashes
  <1> DEFINE Goal == \/ \E t \in Tasks : /\ LockClose(t) /\ LuksClose(arg[t].name)
                                         /\ arg[t].id = i
                     \/ \E t \in Tasks : DeleteClear(t) /\ arg[t].id = i
                     \/ sweepPc' # sweepPc \/ expired' # expired \/ crashes' # crashes
  <1>0. unlockedAt' # unlockedAt /\ now # 0
    BY DEF TypeOK
  <1>m. ASSUME NEW j, MarkUnlocked(j) PROVE FALSE
    BY <1>0, <1>m DEF MarkUnlocked, TypeOK
  <1>c. ASSUME NEW j, ClearUnlocked(j) PROVE j = i
    BY <1>c DEF ClearUnlocked, TypeOK
  <1>1. ASSUME NEW t \in Tasks, Request(t) PROVE Goal
    <2>1. CASE UnlockMount(t)
      BY <1>0, <1>m, <2>1 DEF UnlockMount
    <2>2. CASE LockClose(t)
      <3>1. LuksClose(arg[t].name) /\ ClearUnlocked(arg[t].id)
        BY <1>0, <2>2 DEF LockClose
      <3> QED
        BY <1>c, <2>2, <3>1
    <2>3. CASE DeleteClear(t)
      <3>1. ClearUnlocked(arg[t].id)
        BY <2>3 DEF DeleteClear
      <3> QED
        BY <1>c, <2>3, <3>1
    <2>4. CASE ~(UnlockMount(t) \/ LockClose(t) \/ DeleteClear(t))
      BY <1>0, <1>1, <2>4 DEF Request, LookupVault, RequestFails, UnlockOpen, UnlockClose,
         LockUmount, MountVault, DeleteCheck, DeleteRecord, DeleteFiles, ImportProbe,
         ImportInsert
    <2> QED
      BY <2>1, <2>2, <2>3, <2>4
  <1>2. ASSUME NEW t \in Tasks, Pipeline(t) \/ CreateRelease(t) PROVE FALSE
    BY <1>0, <1>m, <1>2 DEF Pipeline, CreateCheck, CreateAlloc, CreateFormat, CreateOpen,
       CreateMkfs, CreateMount, CreateSave, CreateUmount, CreateClose, CreateRemove,
       CreateTrack, CreateMark, CreateRelease
  <1>3. ASSUME NEW t \in Tasks, NEW n \in Names, NEW d \in Dirs, CreateReserve(t, n, d)
        PROVE  FALSE
    BY <1>0, <1>3 DEF CreateReserve
  <1>4. CASE AutoLock
    <2>1. CASE ScanMark
      BY <1>m, <2>1 DEF ScanMark
    <2>2. CASE SweepPick
      <3>1. PICK j \in expired : expired' = expired \ {j}
        BY <1>0, <2>2 DEF SweepPick
      <3> QED
        BY <3>1
    <2>3. CASE SweepClear
      BY <2>3 DEF SweepClear, SweepGoto
    <2>4. CASE ~(ScanMark \/ SweepPick \/ SweepClear)
      BY <1>0, <1>4, <2>4 DEF AutoLock, ScanList, ScanCheck, SweepCollect, SweepSkip,
         SweepUmount, SweepClose
    <2> QED
      BY <2>1, <2>2, <2>3, <2>4
  <1>5. CASE Crash
    <2>1. crashes' # crashes
      BY <1>5, ConstantsAssumption DEF Crash, TypeOK
    <2> QED
      BY <2>1
  <1>6. CASE Tick \/ UNCHANGED vars
    BY <1>0, <1>6 DEF Tick, vars
  <1> QED
    BY <1>1, <1>2, <1>3, <1>4, <1>5, <1>6 DEF Next

\* A handler forgets a window only for a vault it closed or whose record it
\* removed: lockVault clears after luksClose succeeded, of the row it looked up
\* before opMu, and that row is still the one of the id (api.go:474-505).
THEOREM WindowsEndLocked == Spec => HandlersEndWindowsLocked
  <1> DEFINE A == \A r \in db : unlockedAt[r.id] # 0 /\ unlockedAt'[r.id] = 0
                      /\ UNCHANGED <<sweepPc, expired, crashes>> =>
                          r \notin db' \/ dev'[r.name] # r.path
  <1>1. ASSUME TypeOK, LockCopies, [Next]_vars PROVE [A]_vars
    <2> SUFFICES ASSUME NEW r \in db, unlockedAt[r.id] # 0, unlockedAt'[r.id] = 0,
                        UNCHANGED <<sweepPc, expired, crashes>>
                 PROVE  r \notin db' \/ dev'[r.name] # r.path
      OBVIOUS
    <2>1. r.id \in Ids /\ r.name \in Names /\ r.path \in Paths
      BY <1>1 DEF LockCopies, TypeOK, Rows
    <2>2. ASSUME NEW t \in Tasks, DeleteClear(t), arg[t].id = r.id PROVE FALSE
      BY <1>1, <2>2 DEF DeleteClear, Goto, LockCopies
    <2>3. ASSUME NEW t \in Tasks, LockClose(t), LuksClose(arg[t].name), arg[t].id = r.id
          PROVE  dev'[r.name] # r.path
      <3>1. pc[t] = "lock.close" /\ dev' = [dev EXCEPT ![arg[t].name] = Closed]
        BY <2>3 DEF LockClose, LuksClose, Goto
      <3>2. r = arg[t]
        BY <1>1, <2>3, <3>1 DEF LockCopies
      <3> QED
        BY <1>1, <2>1, <3>1, <3>2, ConstantsAssumption DEF TypeOK
    <2> QED
      BY <1>1, <2>1, <2>2, <2>3, WindowSteps
  <1>2. Init => LockCopies
    BY DEF Init, LockCopies
  <1>3. Spec => []LockCopies
    BY <1>2, TypeCorrect, CopiesCorrect, NextLockCopies, PTL DEF Spec
  <1> QED
    BY <1>1, <1>3, TypeCorrect, PTL DEF Spec, HandlersEndWindowsLocked

-----------------------------------------------------------------------------
(* Images: who can make one disappear.                                     *)

PresentPcs == {"c.open", "c.mkfs", "c.mount", "c.save"}

\* An image disappears only under the pipeline that owns it, on its way out, or
\* under a DELETE at its last step.
LEMMA ImageSteps ==
    ASSUME TypeOK, [Next]_vars, NEW p \in Paths, image[p] # "none", image'[p] = "none"
    PROVE  \E t \in Tasks :
              /\ arg[t].path = p
              /\ \/ Owner(t) /\ pc'[t] \in {"c.remove", "c.track"}
                 \/ pc[t] = "delete.files" /\ pc'[t] = "idle"
  <1> USE DEF TypeOK, Goto, Owner, OwnerPcs
  <1>1. ASSUME NEW t \in Tasks, Request(t)
        PROVE  UNCHANGED image \/ DeleteFiles(t)
    BY <1>1 DEF Request, LookupVault, RequestFails, UnlockOpen, UnlockMount, UnlockClose,
       LockUmount, LockClose, MountVault, DeleteCheck, DeleteRecord, DeleteClear,
       ImportProbe, ImportInsert, osVars
  <1>2. ASSUME NEW t \in Tasks, DeleteFiles(t)
        PROVE  arg[t].path = p /\ pc[t] = "delete.files" /\ pc'[t] = "idle"
    BY <1>2, ArgTypes DEF DeleteFiles, Unlink
  <1>3. ASSUME NEW t \in Tasks, Pipeline(t)
        PROVE  \/ UNCHANGED image
               \/ CreateAlloc(t) \/ CreateFormat(t) \/ CreateMkfs(t) \/ CreateRemove(t)
    BY <1>3 DEF Pipeline, CreateCheck, CreateOpen, CreateMount, CreateSave, CreateUmount,
       CreateClose, CreateTrack, CreateMark, osVars
  <1>4. ASSUME NEW t \in Tasks, CreateAlloc(t) \/ CreateRemove(t)
        PROVE  arg[t].path = p /\ Owner(t) /\ pc'[t] \in {"c.remove", "c.track"}
    BY <1>4, ArgTypes DEF CreateAlloc, CreateRemove, Unlink
  <1>5. ASSUME NEW t \in Tasks, CreateFormat(t) \/ CreateMkfs(t) PROVE FALSE
    BY <1>5, ArgTypes DEF CreateFormat, CreateMkfs
  <1>6. ASSUME NEW t \in Tasks, NEW n \in Names, NEW d \in Dirs, CreateReserve(t, n, d)
        PROVE  UNCHANGED image
    BY <1>6 DEF CreateReserve, osVars
  <1>7. ASSUME NEW t \in Tasks, CreateRelease(t) PROVE UNCHANGED image
    BY <1>7 DEF CreateRelease, osVars
  <1>8. CASE Crash
    BY <1>8 DEF Crash
  <1> QED
    BY <1>1, <1>2, <1>3, <1>4, <1>5, <1>6, <1>7, <1>8, SweepFrame DEF Next

\* A pipeline that touches its image after a step did so before, or has just
\* found that no such file exists; it exists once luksFormat is past.
LEMMA OwnerSteps ==
    ASSUME TypeOK, [Next]_vars, NEW t \in Tasks, pc'[t] \in OwnerPcs
    PROVE  /\ arg'[t].path = arg[t].path /\ Creating(t)
           /\ \/ Owner(t)
              \/ /\ image[arg[t].path] = "none" /\ pc'[t] = "c.alloc"
                 /\ UNCHANGED <<dbVars, image>>
           /\ pc'[t] \in PresentPcs =>
                \/ pc[t] \in PresentPcs
                \/ image'[arg[t].path] # "none"
  <1> USE DEF Owner, Creating, OwnerPcs, CreatePcs, PresentPcs
  <1>1. ASSUME NEW u \in Tasks, Request(u) PROVE pc'[t] = pc[t] /\ arg'[t] = arg[t]
    BY <1>1, RequestFrame
  <1>2. ASSUME NEW u \in Tasks, NEW n \in Names, NEW d \in Dirs, CreateReserve(u, n, d)
        PROVE  pc'[t] = pc[t] /\ arg'[t] = arg[t]
    BY <1>2 DEF CreateReserve, Goto, TypeOK
  <1>3. ASSUME NEW u \in Tasks, CreateRelease(u) PROVE pc'[t] = pc[t] /\ arg'[t] = arg[t]
    BY <1>3 DEF CreateRelease, Goto, Finish, TypeOK
  <1>4. ASSUME NEW u \in Tasks, u # t, Pipeline(u)
        PROVE  pc'[t] = pc[t] /\ arg'[t] = arg[t]
    BY <1>4, PipelineFrame
  <1>5. CASE Pipeline(t)
    <2> USE ArgTypes DEF Goto, TypeOK
    <2>1. CASE CreateCheck(t)
      BY <2>1 DEF CreateCheck, osVars
    <2>2. CASE CreateAlloc(t) \/ CreateFormat(t)
      BY <2>2 DEF CreateAlloc, CreateFormat
    <2>3. CASE CreateOpen(t) \/ CreateMkfs(t) \/ CreateMount(t) \/ CreateSave(t)
      BY <2>3 DEF CreateOpen, CreateMkfs, CreateMount, CreateSave
    <2>4. CASE CreateUmount(t) \/ CreateClose(t) \/ CreateRemove(t)
      BY <2>4 DEF CreateUmount, CreateClose, CreateRemove
    <2>5. CASE CreateTrack(t) \/ CreateMark(t)
      BY <2>5 DEF CreateTrack, CreateMark
    <2> QED
      BY <1>5, <2>1, <2>2, <2>3, <2>4, <2>5 DEF Pipeline
  <1>6. CASE Crash
    BY <1>6 DEF Crash
  <1> QED
    BY <1>1, <1>2, <1>3, <1>4, <1>5, <1>6, SweepFrame DEF Next

\* How a slot comes to be inside an import or a DELETE.
LEMMA HoldSteps ==
    ASSUME TypeOK, [Next]_vars, NEW t \in Tasks,
           pc'[t] \in {"import", "delete.record", "delete.clear", "delete.files"}
    PROVE  \/ pc[t] = pc'[t] /\ arg'[t] = arg[t]
           \/ pc'[t] = "delete.record" /\ DeleteCheck(t)
           \/ pc'[t] = "delete.clear" /\ DeleteRecord(t)
           \/ pc'[t] = "delete.files" /\ DeleteClear(t)
           \/ /\ pc'[t] = "import"
              /\ \E n \in Names, p \in Paths : ImportProbe(t, n, p)
  <1> DEFINE Goal == \/ pc[t] = pc'[t] /\ arg'[t] = arg[t]
                     \/ pc'[t] = "delete.record" /\ DeleteCheck(t)
                     \/ pc'[t] = "delete.clear" /\ DeleteRecord(t)
                     \/ pc'[t] = "delete.files" /\ DeleteClear(t)
                     \/ /\ pc'[t] = "import"
                        /\ \E n \in Names, p \in Paths : ImportProbe(t, n, p)
  <1>1. ASSUME NEW u \in Tasks, u # t, Request(u) PROVE Goal
    BY <1>1, RequestFrame
  <1>2. CASE Request(t)
    <2> USE DEF Goto, TypeOK
    <2>1. ASSUME NEW op \in WaitPcs, LookupVault(t, op) PROVE Goal
      BY <2>1 DEF LookupVault, WaitPcs
    <2>2. ASSUME NEW n \in Names, NEW p \in Paths, ImportProbe(t, n, p) PROVE Goal
      <3>1. pc'[t] = "import"
        BY <2>2 DEF ImportProbe
      <3> QED
        BY <2>2, <3>1
    <2>3. CASE DeleteCheck(t)
      <3>1. pc'[t] = "delete.record"
        BY <2>3 DEF DeleteCheck
      <3> QED
        BY <2>3, <3>1
    <2>6. CASE DeleteRecord(t)
      <3>1. pc'[t] = "delete.clear"
        BY <2>6 DEF DeleteRecord
      <3> QED
        BY <2>6, <3>1
    <2>7. CASE DeleteClear(t)
      <3>1. pc'[t] = "delete.files"
        BY <2>7 DEF DeleteClear
      <3> QED
        BY <2>7, <3>1
    <2>4. CASE RequestFails(t) \/ UnlockOpen(t) \/ UnlockMount(t) \/ UnlockClose(t)
      BY <2>4 DEF RequestFails, UnlockOpen, UnlockMount, UnlockClose
    <2>5. CASE LockUmount(t) \/ LockClose(t) \/ MountVault(t) \/ DeleteFiles(t)
               \/ ImportInsert(t)
      BY <2>5 DEF LockUmount, LockClose, MountVault, DeleteFiles, ImportInsert
    <2> QED
      BY <1>2, <2>1, <2>2, <2>3, <2>4, <2>5, <2>6, <2>7 DEF Request
  <1>3. ASSUME NEW u \in Tasks, NEW n \in Names, NEW d \in Dirs, CreateReserve(u, n, d)
        PROVE  Goal
    BY <1>3 DEF CreateReserve, Goto, TypeOK
  <1>4. ASSUME NEW u \in Tasks, Pipeline(u) PROVE Goal
    BY <1>4, PipelineFrame DEF CreatePcs, OwnerPcs
  <1>5. ASSUME NEW u \in Tasks, CreateRelease(u) PROVE Goal
    BY <1>5 DEF CreateRelease, Goto, Finish, TypeOK
  <1>6. CASE Crash
    BY <1>6 DEF Crash
  <1> QED
    BY <1>1, <1>2, <1>3, <1>4, <1>5, <1>6, SweepFrame DEF Next

\* Reservations only grow while nobody holds opMu.
LEMMA ReserveSteps ==
    ASSUME TypeOK, [Next]_vars, opMu # Free
    PROVE  pendingNames' \subseteq pendingNames /\ pendingPaths' \subseteq pendingPaths
  <1>1. ASSUME NEW t \in Tasks, NEW n \in Names, NEW d \in Dirs, CreateReserve(t, n, d)
        PROVE  FALSE
    BY <1>1 DEF CreateReserve
  <1>2. ASSUME NEW t \in Tasks, CreateRelease(t)
        PROVE  /\ pendingNames' \subseteq pendingNames
               /\ pendingPaths' \subseteq pendingPaths
    BY <1>2 DEF CreateRelease
  <1>3. CASE Crash
    BY <1>3 DEF Crash
  <1> QED
    BY <1>1, <1>2, <1>3, RequestFrame, PipelineFrame, SweepFrame DEF Next, pending

\* An import and a reservation exclude each other for as long as the import runs.
LEMMA NextImportUnreserved ==
    ASSUME TypeOK, MutexDiscipline, ImportUnreserved, [Next]_vars
    PROVE  ImportUnreserved'
  <1> SUFFICES ASSUME NEW t \in Tasks, pc'[t] = "import"
               PROVE  /\ arg'[t].name \notin pendingNames'
                      /\ arg'[t].path \notin pendingPaths'
    BY DEF ImportUnreserved
  <1>1. CASE pc[t] = "import" /\ arg'[t] = arg[t]
    <2>1. opMu # Free
      BY <1>1, ConstantsAssumption DEF MutexDiscipline, HoldPcs
    <2> QED
      BY <1>1, <2>1, ReserveSteps DEF ImportUnreserved
  <1>2. ASSUME NEW n \in Names, NEW p \in Paths, ImportProbe(t, n, p)
        PROVE  /\ arg'[t].name \notin pendingNames'
               /\ arg'[t].path \notin pendingPaths'
    BY <1>2 DEF ImportProbe, InFlight, TypeOK, pending
  <1> QED
    BY <1>1, <1>2, HoldSteps

\* No record is ever inserted for a name or an image path that a creation in
\* flight, other than the one inserting it, will clean up.
THEOREM NoDoomedRecords == Spec => NoDoomedRegistration
  <1> DEFINE Fine(r, t) == r.name # arg[t].name /\ r.path # arg[t].path
  <1>1. ASSUME TypeOK, ReservationsExact, ImportUnreserved, [Next]_vars
        PROVE  \A r \in db' \ db : \A t \in Tasks :
                  Creating(t) /\ pc'[t] # "c.track" => Fine(r, t)
    <2> SUFFICES ASSUME NEW r \in db' \ db, NEW t \in Tasks, Creating(t),
                        pc'[t] # "c.track"
                 PROVE  Fine(r, t)
      OBVIOUS
    <2>r. arg[t].name \in pendingNames /\ arg[t].path \in pendingPaths
      BY <1>1, ArgTypes DEF ReservationsExact
    <2>1. ASSUME NEW u \in Tasks, InsertVault(arg[u].name, arg[u].path)
          PROVE  r.name = arg[u].name /\ r.path = arg[u].path
      BY <2>1 DEF InsertVault
    <2>2. ASSUME NEW u \in Tasks, ImportInsert(u), InsertVault(arg[u].name, arg[u].path)
          PROVE  Fine(r, t)
      <3>1. pc[u] = "import"
        BY <2>2 DEF ImportInsert, Goto
      <3> QED
        BY <1>1, <2>r, <2>1, <2>2, <3>1 DEF ImportUnreserved
    <2>3. ASSUME NEW u \in Tasks, pc[u] = "c.save", pc'[u] = "c.track",
                 InsertVault(arg[u].name, arg[u].path)
          PROVE  Fine(r, t)
      <3>1. u # t /\ Creating(u)
        BY <2>3 DEF Creating, CreatePcs, OwnerPcs
      <3> QED
        BY <1>1, <2>1, <2>3, <3>1 DEF ReservationsExact
    <2>4. ASSUME NEW u \in Tasks, DeleteRecord(u) PROVE FALSE
      BY <2>4 DEF DeleteRecord
    <2> QED
      BY <1>1, <2>2, <2>3, <2>4, RecordSteps DEF dbVars
  <1>2. Init => ImportUnreserved
    BY DEF Init, ImportUnreserved
  <1>3. Spec => []ImportUnreserved
    BY <1>2, TypeCorrect, MutexCorrect, NextImportUnreserved, PTL DEF Spec
  <1> QED
    BY <1>1, <1>3, TypeCorrect, ReservationsCorrect, PTL DEF Spec, NoDoomedRegistration

-----------------------------------------------------------------------------
(* The inductive invariant.                                                *)

\* The record a step adds, if any, was checked by an import that holds opMu or
\* belongs to the pipeline that made the image; either way the image is there
\* and no record, pipeline or DELETE has it.
LEMMA InsertedRecord ==
    ASSUME TypeOK, IInv, [Next]_vars, NEW r \in db' \ db
    PROVE  \E t \in Tasks :
              /\ r.path = arg[t].path /\ r.path \in Paths
              /\ UNCHANGED image /\ image[r.path] # "none"
              /\ \A s \in db : s.path # r.path
              /\ \/ pc[t] = "import" /\ pc'[t] = "idle" /\ r.path \notin pendingPaths
                 \/ Owner(t) /\ pc'[t] = "c.track"
  <1>1. ASSUME NEW t \in Tasks, ImportInsert(t), InsertVault(arg[t].name, arg[t].path)
        PROVE  /\ r.path = arg[t].path
               /\ UNCHANGED image /\ pc[t] = "import" /\ pc'[t] = "idle"
    BY <1>1 DEF ImportInsert, InsertVault, Goto, osVars, TypeOK
  <1>2. ASSUME NEW t \in Tasks, CreateSave(t), pc[t] = "c.save",
               InsertVault(arg[t].name, arg[t].path)
        PROVE  r.path = arg[t].path /\ UNCHANGED image
    BY <1>2 DEF CreateSave, InsertVault, osVars
  <1>3. ASSUME NEW t \in Tasks, DeleteRecord(t) PROVE FALSE
    BY <1>3 DEF DeleteRecord
  <1>4. CASE UNCHANGED dbVars
    BY <1>4 DEF dbVars
  <1>5. ASSUME NEW t \in Tasks, pc[t] = "import"
        PROVE  /\ arg[t].path \in Paths /\ image[arg[t].path] # "none"
               /\ arg[t].path \notin pendingPaths
               /\ \A s \in db : s.path # arg[t].path
    BY <1>5, ArgTypes DEF IInv, ImportChecksHold, ImportUnreserved
  <1>6. ASSUME NEW t \in Tasks, pc[t] = "c.save"
        PROVE  /\ arg[t].path \in Paths /\ image[arg[t].path] # "none"
               /\ Owner(t) /\ \A s \in db : s.path # arg[t].path
    BY <1>6, ArgTypes DEF IInv, PipelineOwnsImage, Owner, OwnerPcs
  <1> QED
    BY <1>1, <1>2, <1>3, <1>4, <1>5, <1>6, RecordSteps

\* No two tasks hold opMu; an owner's path is reserved and its own.
LEMMA Exclusion ==
    ASSUME TypeOK, IInv
    PROVE  /\ \A t, u \in Tasks : pc[t] \in HoldPcs /\ pc[u] \in HoldPcs => t = u
           /\ \A t \in Tasks : pc[t] \in HoldPcs => opMu # Free
           /\ \A t \in Tasks : Creating(t) => arg[t].path \in pendingPaths
           /\ \A t, u \in Tasks : Creating(t) /\ Creating(u) /\ t # u =>
                    arg[t].path # arg[u].path
           /\ \A t \in Tasks : Owner(t) => Creating(t)
  <1>1. \A t, u \in Tasks : pc[t] \in HoldPcs /\ pc[u] \in HoldPcs => t = u
    BY DEF IInv, MutexDiscipline
  <1>2. \A t \in Tasks : pc[t] \in HoldPcs => opMu # Free
    BY ConstantsAssumption DEF IInv, MutexDiscipline
  <1>3. \A t \in Tasks : Creating(t) => arg[t].path \in pendingPaths
    BY ArgTypes DEF IInv, ReservationsExact
  <1>4. \A t, u \in Tasks : Creating(t) /\ Creating(u) /\ t # u =>
            arg[t].path # arg[u].path
    BY DEF IInv, ReservationsExact
  <1>5. \A t \in Tasks : Owner(t) => Creating(t)
    BY DEF Owner, Creating, CreatePcs
  <1> QED
    BY <1>1, <1>2, <1>3, <1>4, <1>5

\* No step takes away the image of a record or gives two records one image.
LEMMA NextGhosts ==
    ASSUME TypeOK, IInv, [Next]_vars
    PROVE  NoGhostRecord' /\ OneRecordPerImage'
  <1>1. ASSUME NEW r \in db, image'[r.path] = "none" PROVE FALSE
    <2>1. r.path \in Paths /\ image[r.path] # "none"
      BY DEF IInv, NoGhostRecord, TypeOK, Rows
    <2>2. PICK t \in Tasks : arg[t].path = r.path /\ (Owner(t) \/ pc[t] = "delete.files")
      BY <1>1, <2>1, ImageSteps
    <2> QED
      BY <2>2 DEF IInv, PipelineOwnsImage, DeleteOwnsImage
  <1>2. NoGhostRecord'
    BY <1>1, InsertedRecord DEF NoGhostRecord
  <1>3. \A r, s \in db' \ db : r = s
    BY RecordSteps DEF DeleteRecord, InsertVault, dbVars
  <1>4. OneRecordPerImage'
    BY <1>3, InsertedRecord DEF OneRecordPerImage, IInv
  <1> QED
    BY <1>2, <1>4

\* The image a pipeline may delete stays out of every record until it is saved.
LEMMA NextPipelineOwns ==
    ASSUME TypeOK, IInv, [Next]_vars
    PROVE  PipelineOwnsImage'
  <1> SUFFICES ASSUME NEW t \in Tasks, Owner(t)'
               PROVE  /\ \A r \in db' : r.path # arg'[t].path
                      /\ pc'[t] \in PresentPcs => image'[arg'[t].path] # "none"
    BY DEF PipelineOwnsImage, PresentPcs
  <1> DEFINE p == arg[t].path
  <1>p. p \in Paths /\ pc'[t] \in OwnerPcs
    BY ArgTypes DEF Owner
  <1>s. arg'[t].path = p /\ Creating(t)
    BY <1>p, OwnerSteps
  <1>1. CASE Owner(t)
    <2>1. \A r \in db : r.path # p
      BY <1>1 DEF IInv, PipelineOwnsImage
    <2>2. ASSUME NEW r \in db' \ db, r.path = p PROVE FALSE
      <3>1. PICK u \in Tasks :
                /\ arg[u].path = p
                /\ \/ pc[u] = "import" /\ p \notin pendingPaths
                   \/ Owner(u) /\ pc'[u] = "c.track"
        BY <2>2, InsertedRecord
      <3>2. u = t /\ pc'[t] = "c.track"
        BY <1>s, <3>1, Exclusion
      <3> QED
        BY <1>p, <3>2 DEF OwnerPcs
    <2>3. ASSUME pc'[t] \in PresentPcs, image'[p] = "none" PROVE FALSE
      <3>1. pc[t] \in PresentPcs
        BY <1>p, <2>3, OwnerSteps
      <3>2. image[p] # "none"
        BY <1>1, <3>1 DEF IInv, PipelineOwnsImage, PresentPcs
      <3>3. PICK u \in Tasks :
                /\ arg[u].path = p
                /\ \/ Owner(u) /\ pc'[u] \in {"c.remove", "c.track"}
                   \/ pc[u] = "delete.files"
        BY <1>p, <2>3, <3>2, ImageSteps
      <3>4. pc[u] # "delete.files"
        BY <1>1, <3>3 DEF IInv, DeleteOwnsImage
      <3>5. u = t
        BY <1>s, <3>3, <3>4, Exclusion
      <3> QED
        BY <2>3, <3>3, <3>4, <3>5 DEF PresentPcs
    <2> QED
      BY <1>s, <2>1, <2>2, <2>3
  <1>2. CASE ~Owner(t)
    <2>1. image[p] = "none" /\ pc'[t] = "c.alloc" /\ UNCHANGED <<dbVars, image>>
      BY <1>p, <1>2, OwnerSteps
    <2> QED
      BY <1>s, <2>1 DEF IInv, NoGhostRecord, dbVars, PresentPcs
  <1> QED
    BY <1>1, <1>2

\* Nothing undoes an import's checks before it inserts.
LEMMA NextImportChecks ==
    ASSUME TypeOK, IInv, [Next]_vars
    PROVE  ImportChecksHold'
  <1> SUFFICES ASSUME NEW t \in Tasks, pc'[t] = "import"
               PROVE  /\ image'[arg'[t].path] # "none"
                      /\ \A r \in db' : r.path # arg'[t].path
    BY DEF ImportChecksHold
  <1>1. CASE pc[t] = "import" /\ arg'[t] = arg[t]
    <2> DEFINE p == arg[t].path
    <2>p. /\ p \in Paths /\ image[p] # "none" /\ p \notin pendingPaths
          /\ \A r \in db : r.path # p
      BY <1>1, ArgTypes DEF IInv, ImportChecksHold, ImportUnreserved
    <2>h. pc[t] \in HoldPcs /\ "import" \in HoldPcs /\ "delete.files" \in HoldPcs
      BY <1>1 DEF HoldPcs
    <2>1. image'[p] # "none"
      <3>1. ASSUME NEW u \in Tasks, Owner(u), arg[u].path = p PROVE FALSE
        BY <2>p, <3>1, Exclusion
      <3>2. ASSUME NEW u \in Tasks, pc[u] = "delete.files" PROVE FALSE
        BY <1>1, <2>h, <3>2, Exclusion
      <3> QED
        BY <2>p, <3>1, <3>2, ImageSteps
    <2>2. ASSUME NEW r \in db' \ db, r.path = p PROVE FALSE
      <3>1. PICK u \in Tasks : /\ arg[u].path = p
                               /\ \/ pc[u] = "import" /\ pc'[u] = "idle"
                                  \/ Owner(u)
        BY <2>2, InsertedRecord
      <3>2. ~Owner(u)
        BY <2>p, <3>1, Exclusion
      <3>3. u = t
        BY <2>h, <3>1, <3>2, Exclusion
      <3> QED
        BY <3>1, <3>2, <3>3
    <2> QED
      BY <1>1, <2>p, <2>1, <2>2
  <1>2. ASSUME NEW n \in Names, NEW p \in Paths, ImportProbe(t, n, p)
        PROVE  /\ image'[arg'[t].path] # "none"
               /\ \A r \in db' : r.path # arg'[t].path
    BY <1>2 DEF ImportProbe, Registered, TypeOK, osVars, dbVars
  <1> QED
    BY <1>1, <1>2, HoldSteps

\* With one deleter, the file a DELETE removes is its own record's, then nobody's.
LEMMA NextDeleteOwns ==
    ASSUME SingleDeleter, TypeOK, IInv, [Next]_vars
    PROVE  DeleteOwnsImage'
  <1>r. ASSUME NEW u \in Tasks, DeleteRecord(u)
        PROVE  pc[u] = "delete.record" /\ pc'[u] \in {"delete.clear", "idle"}
    BY <1>r DEF DeleteRecord, Goto, TypeOK
  <1>1. ASSUME NEW t \in Tasks, pc'[t] \in {"delete", "delete.record"}
        PROVE  t \in Deleters /\ arg'[t] \in db'
    <2>1. CASE pc[t] \in {"delete", "delete.record"} /\ arg'[t] = arg[t]
      <3>1. t \in Deleters /\ arg[t] \in db
        BY <2>1 DEF IInv, DeleteOwnsImage
      <3>2. ASSUME NEW u \in Tasks, DeleteRecord(u) PROVE FALSE
        <4>1. u \in Deleters
          BY <1>r, <3>2 DEF IInv, DeleteOwnsImage
        <4> QED
          BY <1>1, <1>r, <3>1, <3>2, <4>1 DEF SingleDeleter
      <3>3. db \subseteq db'
        BY <3>2, RecordSteps DEF InsertVault, dbVars
      <3> QED
        BY <2>1, <3>1, <3>3
    <2>2. CASE pc'[t] = "delete"
      <3>1. CASE /\ arg'[t] \in db /\ UNCHANGED dbVars
                 /\ pc'[t] = "delete" => t \in Deleters
        BY <2>2, <3>1 DEF dbVars
      <3> QED
        BY <2>1, <2>2, <3>1, WaitSteps DEF WaitPcs
    <2>3. CASE pc'[t] = "delete.record"
      <3>1. CASE DeleteCheck(t)
        BY <2>1, <3>1 DEF DeleteCheck, Goto
      <3> QED
        BY <2>1, <2>3, <3>1, HoldSteps
    <2> QED
      BY <1>1, <2>2, <2>3
  <1>2. ASSUME NEW t \in Tasks, pc'[t] \in {"delete.clear", "delete.files"}
        PROVE  /\ t \in Deleters
               /\ image'[arg'[t].path] # "none"
               /\ \A r \in db' : r.path # arg'[t].path
               /\ \A u \in Tasks : Owner(u)' => arg'[u].path # arg'[t].path
    <2> DEFINE p == arg[t].path
    <2>p. p \in Paths
      BY ArgTypes
    <2>1. CASE pc[t] \in {"delete.clear", "delete.files"} /\ arg'[t] = arg[t]
      <3>1. /\ t \in Deleters /\ image[p] # "none"
            /\ \A r \in db : r.path # p
            /\ \A u \in Tasks : Owner(u) => arg[u].path # p
        BY <2>1 DEF IInv, DeleteOwnsImage
      <3>h. pc[t] \in HoldPcs /\ "import" \in HoldPcs /\ "delete.files" \in HoldPcs
        BY <2>1 DEF HoldPcs
      <3>2. image'[p] # "none"
        <4>1. ASSUME NEW u \in Tasks, pc[u] = "delete.files", pc'[u] = "idle" PROVE FALSE
          BY <1>2, <3>h, <4>1, Exclusion
        <4> QED
          BY <2>p, <3>1, <4>1, ImageSteps
      <3>3. ASSUME NEW r \in db' \ db, r.path = p PROVE FALSE
        <4>1. PICK u \in Tasks : arg[u].path = p /\ (pc[u] = "import" \/ Owner(u))
          BY <3>3, InsertedRecord
        <4>2. pc[u] = "import"
          BY <3>1, <4>1
        <4> QED
          BY <2>1, <3>h, <4>2, Exclusion
      <3>4. ASSUME NEW u \in Tasks, Owner(u)' PROVE arg'[u].path # p
        <4>1. pc'[u] \in OwnerPcs
          BY <3>4 DEF Owner
        <4> QED
          BY <3>1, <4>1, OwnerSteps
      <3> QED
        BY <2>1, <3>1, <3>2, <3>3, <3>4
    <2>2. CASE pc'[t] = "delete.clear" /\ DeleteRecord(t)
      <3>1. /\ pc[t] = "delete.record" /\ arg' = arg /\ image' = image
            /\ db' = {r \in db : r.id # arg[t].id}
            /\ \A u \in Tasks : u # t => pc'[u] = pc[u]
        BY <2>2 DEF DeleteRecord, Goto, TypeOK, osVars
      <3>2. t \in Deleters /\ arg[t] \in db
        BY <3>1 DEF IInv, DeleteOwnsImage
      <3>3. image[p] # "none" /\ \A r \in db' : r.path # p
        BY <3>1, <3>2 DEF IInv, NoGhostRecord, OneRecordPerImage
      <3>4. ASSUME NEW u \in Tasks, Owner(u)' PROVE arg'[u].path # p
        <4>1. u # t
          BY <1>2, <3>4 DEF Owner, OwnerPcs
        <4>2. Owner(u)
          BY <3>1, <3>4, <4>1 DEF Owner
        <4> QED
          BY <3>1, <3>2, <4>2 DEF IInv, PipelineOwnsImage
      <3> QED
        BY <3>1, <3>2, <3>3, <3>4
    <2>3. CASE pc'[t] = "delete.files" /\ DeleteClear(t)
      <3>1. pc[t] = "delete.clear" /\ arg' = arg
        BY <2>3 DEF DeleteClear, Goto, TypeOK
      <3> QED
        BY <2>1, <3>1
    <2> QED
      BY <1>2, <2>1, <2>2, <2>3, HoldSteps
  <1> QED
    BY <1>1, <1>2 DEF DeleteOwnsImage

\* What a step can do to devices, nodes and mounts; only a pipeline opens a
\* device, its own image's, while opMu is held.
LEMMA DeviceSteps ==
    ASSUME TypeOK, [Next]_vars
    PROVE  \/ UNCHANGED <<dev, nodes, mounted>>
           \/ \E n \in Names, p \in Paths :
                /\ LuksOpen(n, p) /\ UNCHANGED mounted
                /\ opMu = Free \/ \E t \in Tasks : Owner(t) /\ arg[t].path = p
           \/ \E n \in Names : LuksClose(n) /\ UNCHANGED mounted
           \/ \E n \in Names : MountDevice(n) /\ UNCHANGED <<dev, nodes>>
           \/ \E n \in Names : Umount(n) /\ UNCHANGED <<dev, nodes>>
           \/ \E p \in Paths : Unlink(p) /\ UNCHANGED <<nodes, mounted>>
           \/ nodes' \subseteq nodes /\ UNCHANGED <<dev, mounted>>
  <1> DEFINE Opens(n, p) == /\ LuksOpen(n, p) /\ UNCHANGED mounted
                            /\ \/ opMu = Free
                               \/ \E t \in Tasks : Owner(t) /\ arg[t].path = p
             Goal == \/ UNCHANGED <<dev, nodes, mounted>>
                     \/ \E n \in Names, p \in Paths : Opens(n, p)
                     \/ \E n \in Names : LuksClose(n) /\ UNCHANGED mounted
                     \/ \E n \in Names : MountDevice(n) /\ UNCHANGED <<dev, nodes>>
                     \/ \E n \in Names : Umount(n) /\ UNCHANGED <<dev, nodes>>
                     \/ \E p \in Paths : Unlink(p) /\ UNCHANGED <<nodes, mounted>>
                     \/ nodes' \subseteq nodes /\ UNCHANGED <<dev, mounted>>
  <1>1. ASSUME NEW t \in Tasks, Request(t) PROVE Goal
    <2>0. arg[t].name \in Names /\ arg[t].path \in Paths
      BY ArgTypes
    <2>1. CASE UnlockOpen(t)
      <3>1. Opens(arg[t].name, arg[t].path)
        BY <2>1 DEF UnlockOpen, Acquire
      <3> QED
        BY <2>0, <3>1
    <2>2. CASE UnlockMount(t) \/ LockUmount(t) \/ MountVault(t)
      BY <2>0, <2>2 DEF UnlockMount, LockUmount, MountVault, osVars
    <2>3. CASE UnlockClose(t) \/ LockClose(t)
      BY <2>0, <2>3 DEF UnlockClose, LockClose
    <2>4. CASE DeleteFiles(t)
      BY <2>0, <2>4 DEF DeleteFiles
    <2>5. CASE ~(\/ UnlockOpen(t) \/ UnlockMount(t) \/ LockUmount(t) \/ MountVault(t)
                 \/ UnlockClose(t) \/ LockClose(t) \/ DeleteFiles(t))
      BY <1>1, <2>5 DEF Request, LookupVault, RequestFails, DeleteCheck, DeleteRecord,
         DeleteClear, ImportProbe, ImportInsert, osVars
    <2> QED
      BY <2>1, <2>2, <2>3, <2>4, <2>5
  <1>2. ASSUME NEW t \in Tasks, Pipeline(t) PROVE Goal
    <2>0. arg[t].name \in Names /\ arg[t].path \in Paths
      BY ArgTypes
    <2>1. CASE CreateOpen(t)
      <3>1. Owner(t)
        BY <2>1 DEF CreateOpen, Goto, Owner, OwnerPcs
      <3>2. Opens(arg[t].name, arg[t].path) \/ UNCHANGED <<dev, nodes, mounted>>
        BY <2>1, <3>1 DEF CreateOpen
      <3> QED
        BY <2>0, <3>2
    <2>2. CASE CreateMount(t) \/ CreateUmount(t)
      BY <2>0, <2>2 DEF CreateMount, CreateUmount
    <2>3. CASE CreateClose(t) \/ CreateRemove(t)
      BY <2>0, <2>3 DEF CreateClose, CreateRemove
    <2>4. CASE ~(CreateOpen(t) \/ CreateMount(t) \/ CreateUmount(t) \/ CreateClose(t)
                 \/ CreateRemove(t))
      BY <1>2, <2>4 DEF Pipeline, CreateCheck, CreateAlloc, CreateFormat, CreateMkfs,
         CreateSave, CreateTrack, CreateMark, osVars
    <2> QED
      BY <2>1, <2>2, <2>3, <2>4
  <1>3. ASSUME NEW t \in Tasks, NEW n \in Names, NEW d \in Dirs, CreateReserve(t, n, d)
        PROVE  Goal
    BY <1>3 DEF CreateReserve, osVars
  <1>4. ASSUME NEW t \in Tasks, CreateRelease(t) PROVE Goal
    BY <1>4 DEF CreateRelease, osVars
  <1>5. ASSUME AutoLock PROVE Goal
    <2>0. cur.name \in Names
      BY DEF TypeOK, Rows
    <2>1. CASE SweepUmount
      BY <2>0, <2>1 DEF SweepUmount
    <2>2. CASE SweepClose
      BY <2>0, <2>2 DEF SweepClose
    <2>3. CASE ~(SweepUmount \/ SweepClose)
      BY <1>5, <2>3 DEF AutoLock, ScanList, ScanCheck, ScanMark, SweepCollect, SweepPick,
         SweepSkip, SweepClear, osVars
    <2> QED
      BY <2>1, <2>2, <2>3
  <1>6. ASSUME Crash \/ Tick \/ UNCHANGED vars PROVE Goal
    BY <1>6 DEF Crash, Tick, vars, osVars
  <1> QED
    BY <1>1, <1>2, <1>3, <1>4, <1>5, <1>6 DEF Next

\* A node or a mount goes before its device, never after it.
LEMMA NextDevicesOpen ==
    ASSUME TypeOK, DevicesOpen, [Next]_vars
    PROVE  DevicesOpen'
  <1> USE ConstantsAssumption DEF DevicesOpen, TypeOK
  <1>1. ASSUME NEW n \in Names, NEW p \in Paths, LuksOpen(n, p), UNCHANGED mounted
        PROVE  DevicesOpen'
    BY <1>1 DEF LuksOpen
  <1>2. ASSUME NEW n \in Names, LuksClose(n), UNCHANGED mounted PROVE DevicesOpen'
    BY <1>2 DEF LuksClose
  <1>3. ASSUME NEW n \in Names, MountDevice(n) \/ Umount(n), UNCHANGED <<dev, nodes>>
        PROVE  DevicesOpen'
    BY <1>3 DEF MountDevice, Umount
  <1>4. ASSUME NEW p \in Paths, Unlink(p), UNCHANGED <<nodes, mounted>>
        PROVE  DevicesOpen'
    BY <1>4 DEF Unlink
  <1>5. CASE nodes' \subseteq nodes /\ UNCHANGED <<dev, mounted>>
    BY <1>5
  <1> QED
    BY <1>1, <1>2, <1>3, <1>4, <1>5, DeviceSteps

\* Between a DELETE's check and its DB delete no step opens or mounts the record's
\* image: other handlers need opMu, and no pipeline owns a record's image.
LEMMA NextDeleteChecked ==
    ASSUME TypeOK, IInv, [Next]_vars
    PROVE  DeleteChecked'
  <1> SUFFICES ASSUME NEW t \in Tasks, pc'[t] = "delete.record",
                      dev'[arg'[t].name] = arg'[t].path
               PROVE  arg'[t].name \notin nodes' \cup mounted'
    BY DEF DeleteChecked
  <1> DEFINE n == arg[t].name
             p == arg[t].path
  <1>0. n \in Names /\ p \in Paths
    BY ArgTypes
  <1>1. CASE DeleteCheck(t)
    BY <1>1 DEF DeleteCheck, IsUnlocked, osVars
  <1>2. CASE pc[t] = "delete.record" /\ arg'[t] = arg[t]
    <2>1. opMu # Free
      BY <1>2, Exclusion DEF HoldPcs
    <2>2. arg[t] \in db
      BY <1>2 DEF IInv, DeleteOwnsImage
    <2>3. \A u \in Tasks : Owner(u) => arg[u].path # p
      BY <2>2 DEF IInv, PipelineOwnsImage
    <2>4. dev[n] = p => n \notin nodes \cup mounted
      BY <1>2 DEF IInv, DeleteChecked
    <2>5. dev'[n] = p
      BY <1>2
    <2> HIDE DEF n, p
    <2>6. ASSUME NEW m \in Names, NEW q \in Paths, LuksOpen(m, q), q # p, UNCHANGED mounted
          PROVE  n \notin nodes' \cup mounted'
      BY <1>0, <2>4, <2>5, <2>6, ConstantsAssumption DEF LuksOpen, TypeOK
    <2>7. ASSUME NEW m \in Names, LuksClose(m), UNCHANGED mounted
          PROVE  n \notin nodes' \cup mounted'
      BY <1>0, <2>4, <2>5, <2>7, ConstantsAssumption DEF LuksClose, TypeOK
    <2>8. ASSUME NEW m \in Names, MountDevice(m) \/ Umount(m), UNCHANGED <<dev, nodes>>
          PROVE  n \notin nodes' \cup mounted'
      BY <1>0, <2>4, <2>5, <2>8 DEF MountDevice, Umount
    <2>9. ASSUME NEW q \in Paths, Unlink(q), UNCHANGED <<nodes, mounted>>
          PROVE  n \notin nodes' \cup mounted'
      BY <1>0, <2>4, <2>5, <2>9, ConstantsAssumption DEF Unlink, TypeOK
    <2>10. ASSUME nodes' \subseteq nodes, UNCHANGED <<dev, mounted>>
           PROVE  n \notin nodes' \cup mounted'
      BY <2>4, <2>5, <2>10
    <2>11. n \notin nodes' \cup mounted'
      BY <2>1, <2>3, <2>4, <2>5, <2>6, <2>7, <2>8, <2>9, <2>10, DeviceSteps
    <2> QED
      BY <1>2, <2>11 DEF n
  <1> QED
    BY <1>1, <1>2, HoldSteps

\* As long as DELETEs are served one at a time, every check a handler makes is
\* still true when it acts on it.
THEOREM Inductive == ASSUME SingleDeleter PROVE Spec => []IInv
  <1>1. Init => IInv
    BY ConstantsAssumption
    DEF Init, IInv, MutexDiscipline, ReservationsExact, CopiesCurrent, NoGhostRecord,
        OneRecordPerImage, PipelineOwnsImage, ImportUnreserved, ImportChecksHold, DeleteOwnsImage,
        DeleteChecked, DevicesOpen, Creating, Owner, HoldPcs, WaitPcs, OwnerPcs, CreatePcs
  <1>2. ASSUME TypeOK, TypeOK', IInv, [Next]_vars PROVE IInv'
    <2>1. MutexDiscipline' /\ ReservationsExact' /\ CopiesCurrent' /\ ImportUnreserved'
      BY <1>2, NextMutex, NextReservations, NextCopies, NextImportUnreserved DEF IInv
    <2> QED
      BY <1>2, <2>1, NextGhosts, NextPipelineOwns, NextImportChecks, NextDeleteOwns,
         NextDeleteChecked, NextDevicesOpen
      DEF IInv
  <1> QED
    BY <1>1, <1>2, TypeCorrect, PTL DEF Spec

\* No ghost records: every registered vault has its image, and its image alone,
\* as long as DELETEs are served one at a time.
THEOREM NoGhosts ==
    ASSUME SingleDeleter PROVE Spec => [](NoGhostRecord /\ OneRecordPerImage)
  <1>1. IInv => NoGhostRecord /\ OneRecordPerImage
    BY DEF IInv
  <1> QED
    BY <1>1, Inductive, PTL

\* No two records share an image although the database lets them: path is not
\* UNIQUE, the checks of createVault and importVault keep them apart.
THEOREM ImagesUnshared == ASSUME SingleDeleter PROVE Spec => []OneRecordPerImage
  <1>1. NoGhostRecord /\ OneRecordPerImage => OneRecordPerImage
    OBVIOUS
  <1> QED
    BY <1>1, NoGhosts, PTL

\* A DELETE never removes the record of a mounted vault, as long as DELETEs are
\* served one at a time: the check is made on the copied row, which under opMu is
\* still the record, and although a creation of the same name may open and mount
\* its own image after the check, nothing can the record's.
THEOREM DeleteSafe == ASSUME SingleDeleter PROVE Spec => NeverVanishMounted
  <1>1. ASSUME TypeOK, IInv, [Next]_vars
        PROVE  \A r \in db \ db' : ~(r.name \in mounted /\ dev[r.name] = r.path)
    <2>1. ASSUME NEW t \in Tasks, DeleteRecord(t), NEW r \in db \ db'
          PROVE  ~(r.name \in mounted /\ dev[r.name] = r.path)
      <3>1. pc[t] = "delete.record" /\ r.id = arg[t].id
        BY <2>1 DEF DeleteRecord, Goto
      <3>2. r = arg[t]
        BY <1>1, <3>1 DEF IInv, DeleteOwnsImage, CopiesCurrent
      <3> QED
        BY <1>1, <3>1, <3>2 DEF IInv, DeleteChecked
    <2> QED
      BY <1>1, <2>1, RecordSteps DEF InsertVault, dbVars
  <1> QED
    BY <1>1, TypeCorrect, Inductive, PTL DEF Spec, NeverVanishMounted

-----------------------------------------------------------------------------
(* The registry as the outside sees it.                                    *)

\* A step changes records, a device, one mount or one image, and no two of these,
\* but that removing an image may orphan devices.
LEMMA OneThing ==
    ASSUME TypeOK, [Next]_vars
    PROVE  \/ UNCHANGED <<image, dev, mounted>>
           \/ /\ UNCHANGED <<dbVars, image, mounted>>
              /\ \E n \in Names : LuksClose(n) \/ \E p \in Paths : LuksOpen(n, p)
           \/ /\ UNCHANGED <<dbVars, image, dev>>
              /\ \E n \in Names : mounted' = mounted \cup {n} \/ mounted' = mounted \ {n}
           \/ /\ UNCHANGED <<dbVars, mounted>>
              /\ \E p \in Paths, c \in {"none", "raw", "luks", "ext4"} :
                    /\ image' = [image EXCEPT ![p] = c]
                    /\ UNCHANGED dev \/ (c = "none" /\ Unlink(p))
                    /\ c = "none" => \E t \in Tasks : /\ arg[t].path = p
                                                      /\ Owner(t) \/ pc[t] = "delete.files"
  <1> DEFINE Opens  == /\ UNCHANGED <<dbVars, image, mounted>>
                       /\ \E n \in Names : LuksClose(n) \/ \E p \in Paths : LuksOpen(n, p)
             Mounts == /\ UNCHANGED <<dbVars, image, dev>>
                       /\ \E n \in Names : mounted' = mounted \cup {n} \/ mounted' = mounted \ {n}
             Write(p, c) ==
                /\ image' = [image EXCEPT ![p] = c]
                /\ UNCHANGED dev \/ (c = "none" /\ Unlink(p))
                /\ c = "none" => \E t \in Tasks : /\ arg[t].path = p
                                                  /\ Owner(t) \/ pc[t] = "delete.files"
             Writes == /\ UNCHANGED <<dbVars, mounted>>
                       /\ \E p \in Paths, c \in {"none", "raw", "luks", "ext4"} : Write(p, c)
             Goal   == UNCHANGED <<image, dev, mounted>> \/ Opens \/ Mounts \/ Writes
  <1>1. ASSUME NEW t \in Tasks, Request(t) PROVE Goal
    <2>0. arg[t].name \in Names /\ arg[t].path \in Paths
      BY ArgTypes
    <2>1. CASE UnlockMount(t) \/ LockUmount(t) \/ MountVault(t)
      BY <2>0, <2>1 DEF UnlockMount, LockUmount, MountVault, MountDevice, Umount, osVars
    <2>2. CASE UnlockOpen(t)
      BY <2>0, <2>2 DEF UnlockOpen
    <2>3. CASE UnlockClose(t) \/ LockClose(t)
      BY <2>0, <2>3 DEF UnlockClose, LockClose
    <2>4. CASE DeleteFiles(t)
      <3>1. pc[t] = "delete.files" /\ UNCHANGED <<dbVars, mounted>>
        BY <2>4 DEF DeleteFiles, Goto
      <3>2. Write(arg[t].path, "none") \/ UNCHANGED <<image, dev>>
        BY <2>4, <3>1 DEF DeleteFiles, Unlink
      <3> QED
        BY <2>0, <3>1, <3>2
    <2>5. CASE ~(\/ UnlockOpen(t) \/ UnlockMount(t) \/ LockUmount(t) \/ MountVault(t)
                 \/ UnlockClose(t) \/ LockClose(t) \/ DeleteFiles(t))
      BY <1>1, <2>5 DEF Request, LookupVault, RequestFails, DeleteCheck, DeleteRecord,
         DeleteClear, ImportProbe, ImportInsert, osVars
    <2> QED
      BY <2>1, <2>2, <2>3, <2>4, <2>5
  <1>2. ASSUME NEW t \in Tasks, Pipeline(t) PROVE Goal
    <2>0. arg[t].name \in Names /\ arg[t].path \in Paths
      BY ArgTypes
    <2>1. CASE CreateMount(t) \/ CreateUmount(t)
      BY <2>0, <2>1 DEF CreateMount, CreateUmount, MountDevice, Umount, osVars
    <2>2. CASE CreateAlloc(t)
      <3>1. Owner(t) /\ UNCHANGED <<dbVars, mounted, dev>>
        BY <2>2 DEF CreateAlloc, Goto, Owner, OwnerPcs
      <3>2. \E c \in {"none", "raw"} : image' = [image EXCEPT ![arg[t].path] = c]
        BY <2>2 DEF CreateAlloc
      <3> QED
        BY <2>0, <3>1, <3>2
    <2>3. CASE CreateFormat(t)
      BY <2>0, <2>3 DEF CreateFormat
    <2>4. CASE CreateMkfs(t)
      BY <2>0, <2>4 DEF CreateMkfs, TypeOK, osVars
    <2>5. CASE CreateRemove(t)
      <3>1. Owner(t) /\ UNCHANGED <<dbVars, mounted>>
        BY <2>5 DEF CreateRemove, Goto, Owner, OwnerPcs
      <3>2. Write(arg[t].path, "none") \/ UNCHANGED <<image, dev>>
        BY <2>5, <3>1 DEF CreateRemove, Unlink
      <3> QED
        BY <2>0, <3>1, <3>2
    <2>6. CASE CreateOpen(t) \/ CreateClose(t)
      BY <2>0, <2>6 DEF CreateOpen, CreateClose
    <2>7. CASE CreateCheck(t) \/ CreateSave(t) \/ CreateTrack(t) \/ CreateMark(t)
      BY <2>7 DEF CreateCheck, CreateSave, CreateTrack, CreateMark, osVars
    <2> QED
      BY <1>2, <2>1, <2>2, <2>3, <2>4, <2>5, <2>6, <2>7 DEF Pipeline
  <1>3. ASSUME NEW t \in Tasks, NEW n \in Names, NEW d \in Dirs, CreateReserve(t, n, d)
        PROVE  UNCHANGED <<image, dev, mounted>>
    BY <1>3 DEF CreateReserve, osVars
  <1>4. ASSUME NEW t \in Tasks, CreateRelease(t) PROVE UNCHANGED <<image, dev, mounted>>
    BY <1>4 DEF CreateRelease, osVars
  <1>5. ASSUME AutoLock PROVE Goal
    <2>0. cur.name \in Names
      BY DEF TypeOK, Rows
    <2>1. CASE SweepUmount
      BY <2>0, <2>1 DEF SweepUmount, Umount
    <2>2. CASE SweepClose
      BY <2>0, <2>2 DEF SweepClose
    <2>3. CASE ~(SweepUmount \/ SweepClose)
      BY <1>5, <2>3 DEF AutoLock, ScanList, ScanCheck, ScanMark, SweepCollect, SweepPick,
         SweepSkip, SweepClear, osVars
    <2> QED
      BY <2>1, <2>2, <2>3
  <1>6. ASSUME Crash \/ Tick \/ UNCHANGED vars PROVE UNCHANGED <<image, dev, mounted>>
    BY <1>6 DEF Crash, Tick, vars, osVars
  <1> QED
    BY <1>1, <1>2, <1>3, <1>4, <1>5, <1>6 DEF Next

\* VaultServer implements Registry as long as DELETEs are served one at a time: a
\* registration finds its image there and unshared, and what is removed, record
\* or file, is at that moment not in use and not registered.
THEOREM RegistryImplemented == ASSUME SingleDeleter PROVE Spec => RegistryKept
  <1> DEFINE files == {p \in Paths : image[p] # "none"}
             inUse == {u \in Names \X Paths : u[1] \in mounted /\ dev[u[1]] = u[2]}
             view  == <<db, nextId, files, inUse>>
  <1>1. Init => Reg!Init
    <2> SUFFICES ASSUME Init PROVE Reg!Init
      OBVIOUS
    <2>1. \A p \in Paths : image[p] # "none" <=> p \in Preexisting
      BY DEF Init
    <2>2. files = Preexisting
      BY <2>1, ConstantsAssumption
    <2>3. inUse = {}
      BY DEF Init
    <2> QED
      BY <2>2, <2>3 DEF Init, Reg!Init
  <1>2. ASSUME TypeOK, IInv, [Next]_vars PROVE [Reg!Next]_view
    <2>1. ASSUME UNCHANGED <<dbVars, image, mounted>>, NEW n \in Names \ mounted,
                 \A m \in Names \ {n} : dev'[m] = dev[m]
          PROVE  [Reg!Next]_view
      <3>1. inUse' = inUse
        BY <2>1
      <3> QED
        BY <2>1, <3>1 DEF dbVars
    <2>2. ASSUME UNCHANGED <<dbVars, image, dev>>, NEW n \in Names,
                 mounted' = mounted \cup {n} \/ mounted' = mounted \ {n}
          PROVE  [Reg!Next]_view
      <3>0. UNCHANGED <<db, nextId, files>>
        BY <2>2 DEF dbVars
      <3>1. CASE dev[n] \in Paths
        <4>1. inUse' = inUse \cup {<<n, dev[n]>>} \/ inUse' = inUse \ {<<n, dev[n]>>}
          BY <2>2, <3>1
        <4> QED
          BY <3>0, <3>1, <4>1 DEF Reg!Next, Reg!Mount, Reg!Unmount
      <3>2. CASE dev[n] \notin Paths
        <4>1. inUse' = inUse
          BY <2>2, <3>2
        <4> QED
          BY <3>0, <4>1
      <3> QED
        BY <3>1, <3>2
    <2>3. ASSUME UNCHANGED <<dbVars, mounted>>, NEW p \in Paths,
                 NEW c \in {"none", "raw", "luks", "ext4"}, image' = [image EXCEPT ![p] = c],
                 UNCHANGED dev \/ (c = "none" /\ Unlink(p)),
                 c = "none" => \E t \in Tasks : /\ arg[t].path = p
                                                /\ Owner(t) \/ pc[t] = "delete.files"
          PROVE  [Reg!Next]_view
      <3>0. image'[p] = c /\ \A q \in Paths : q # p => image'[q] = image[q]
        BY <1>2, <2>3 DEF TypeOK
      <3>1. CASE c # "none"
        <4>1. files' = files \cup {p}
          BY <3>0, <3>1
        <4>2. inUse' = inUse
          BY <2>3, <3>1
        <4> QED
          BY <2>3, <4>1, <4>2 DEF Reg!Next, Reg!MakeFile, dbVars
      <3>2. CASE c = "none"
        <4>1. files' = files \ {p}
          BY <3>0, <3>2
        <4>2. PICK t \in Tasks : arg[t].path = p /\ (Owner(t) \/ pc[t] = "delete.files")
          BY <2>3, <3>2
        <4>3. \A r \in db : r.path # p
          BY <1>2, <4>2 DEF IInv, PipelineOwnsImage, DeleteOwnsImage
        <4>4. inUse' \in {inUse, {u \in inUse : u[2] # p}}
          <5>1. CASE UNCHANGED dev
            BY <2>3, <5>1
          <5>2. CASE Unlink(p)
            <6>1. \A n \in Names : dev'[n] = IF dev[n] = p THEN Orphan ELSE dev[n]
              BY <5>2 DEF Unlink
            <6>2. \A n \in Names, q \in Paths : dev'[n] = q <=> dev[n] = q /\ q # p
              BY <6>1, ConstantsAssumption
            <6>3. inUse' = {u \in inUse : u[2] # p}
              BY <2>3, <6>2
            <6> QED
              BY <6>3
          <5> QED
            BY <2>3, <5>1, <5>2
        <4> QED
          BY <2>3, <4>1, <4>3, <4>4 DEF Reg!Next, Reg!RemoveFile, dbVars
      <3> QED
        BY <3>1, <3>2
    <2>4. ASSUME UNCHANGED <<image, dev, mounted>> PROVE [Reg!Next]_view
      <3>0. files' = files /\ inUse' = inUse
        BY <2>4
      <3>1. CASE UNCHANGED dbVars
        BY <3>0, <3>1 DEF dbVars
      <3>2. ASSUME NEW t \in Tasks, DeleteRecord(t) PROVE [Reg!Next]_view
        <4>1. pc[t] = "delete.record" /\ nextId' = nextId
          BY <3>2 DEF DeleteRecord, Goto
        <4>2. arg[t] \in db /\ ~(arg[t].name \in mounted /\ dev[arg[t].name] = arg[t].path)
          BY <1>2, <4>1 DEF IInv, DeleteOwnsImage, DeleteChecked
        <4>3. CASE db' = db
          BY <3>0, <4>1, <4>3
        <4>4. CASE db' = {r \in db : r.id # arg[t].id}
          <5>1. db' = db \ {arg[t]}
            BY <1>2, <4>2, <4>4 DEF IInv, CopiesCurrent
          <5>2. <<arg[t].name, arg[t].path>> \notin inUse
            BY <4>2
          <5> QED
            BY <3>0, <4>1, <4>2, <5>1, <5>2 DEF Reg!Next, Reg!Unregister
        <4> QED
          BY <3>2, <4>3, <4>4 DEF DeleteRecord
      <3>3. ASSUME NEW t \in Tasks, InsertVault(arg[t].name, arg[t].path),
                   pc[t] \in {"import", "c.save"}
            PROVE  Reg!Next
        <4>1. arg[t].name \in Names /\ arg[t].path \in Paths
          BY <1>2, ArgTypes
        <4>2. /\ image[arg[t].path] # "none"
              /\ \A r \in db : r.path # arg[t].path
          BY <1>2, <3>3 DEF IInv, ImportChecksHold, PipelineOwnsImage, Owner, OwnerPcs
        <4>3. Reg!Register(arg[t].name, arg[t].path)
          BY <3>0, <3>3, <4>1, <4>2 DEF InsertVault, Reg!Register
        <4> QED
          BY <4>1, <4>3 DEF Reg!Next
      <3> QED
        BY <1>2, <3>1, <3>2, <3>3, RecordSteps DEF ImportInsert, Goto
    <2>5. ASSUME NEW n \in Names, LuksClose(n) \/ \E p \in Paths : LuksOpen(n, p)
          PROVE  n \notin mounted /\ \A m \in Names \ {n} : dev'[m] = dev[m]
      BY <1>2, <2>5 DEF LuksOpen, LuksClose, IInv, DevicesOpen, TypeOK
    <2> QED
      BY <1>2, <2>1, <2>2, <2>3, <2>4, <2>5, OneThing
  <1> QED
    BY <1>1, <1>2, TypeCorrect, Inductive, PTL DEF Spec, RegistryKept, Reg!Spec

=============================================================================
