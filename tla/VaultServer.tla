---------------------------- MODULE VaultServer ----------------------------
(***************************************************************************)
(* The vault operations of the lukscrypt server: the HTTP handlers that    *)
(* create, import, unlock, lock, mount and delete vaults, the background   *)
(* creation pipeline, and the auto-lock sweep, running concurrently over   *)
(* the database, the image files and the kernel's device-mapper and mount  *)
(* tables.                                                                 *)
(*                                                                         *)
(* An action is the work a handler does between two points at which        *)
(* another goroutine can interfere: a subprocess, a database statement, a  *)
(* mutex.  Handlers hold opMu from their first such step to their last;    *)
(* the creation pipeline does not.  An early return that changes nothing   *)
(* is RequestFails.                                                        *)
(***************************************************************************)
EXTENDS Naturals

CONSTANTS
    Names,          \* vault names; the mapper and the mount point share them
    Dirs,           \* allowlisted storage directories
    Tasks,          \* request slots: a handler, or a creation goroutine
    Deleters,       \* the slots that may serve DELETE requests
    Preexisting,    \* image files placed on disk by the operator
    MaxVaults,      \* bound: database rows ever inserted
    MaxCrashes,     \* bound: times the process is killed and restarted
    MaxTime,        \* bound: the clock stops here
    AutoLockWindow, \* AUTO_LOCK_HOURS in clock units; 0 disables the sweep
    DBFaults,       \* whether the sweep's database reads can fail
    Closed,         \* dev[n] when no mapper device n exists
    Orphan,         \* dev[n] when the backing image was unlinked
    Free,           \* opMu is not held
    Sweeper         \* opMu is held by the auto-lock sweep

Paths == Dirs \X Names
Ids   == 1..MaxVaults

\* A row of the vaults table.  size_gb is the business of the grow model and
\* created_at is display only; mapper_name and mount_point are the name.
Rows == [id : 0..MaxVaults, name : Names, path : Paths]

ASSUME ConstantsAssumption ==
    /\ Names # {} /\ Dirs # {}
    /\ Deleters \subseteq Tasks
    /\ Preexisting \subseteq Paths
    /\ MaxVaults \in Nat /\ MaxCrashes \in Nat /\ MaxTime \in Nat \ {0}
    /\ AutoLockWindow \in Nat
    /\ DBFaults \in BOOLEAN
    /\ Closed \notin Paths /\ Orphan \notin Paths /\ Closed # Orphan
    /\ Free \notin Tasks /\ Sweeper \notin Tasks /\ Free # Sweeper

VARIABLES
    db,             \* the vaults table, a set of rows
    nextId,         \* the AUTOINCREMENT counter
    image,          \* contents of the file at each path
    dev,            \* the image behind each open mapper device
    nodes,          \* names whose /dev/mapper node this container can see
    mounted,        \* names whose mount point is in /proc/mounts
    pendingNames,   \* handler.pendingNames
    pendingPaths,   \* handler.pendingPaths
    unlockedAt,     \* handler.unlockedAt; 0 is Go's zero time, no entry
    opMu,           \* handler.opMu: its holder, or Free
    pc,             \* where each task is
    arg,            \* the row each task read, or its own name and path
    sweepPc,        \* where the auto-lock goroutine is
    scan,           \* rows the startup scan has yet to examine
    expired,        \* ids this sweep has yet to process
    cur,            \* the row the sweep is working on
    since,          \* the window start the sweep read for it
    now,            \* the clock
    crashes         \* how often the process was killed

dbVars    == <<db, nextId>>
osVars    == <<image, dev, nodes, mounted>>
pending   == <<pendingNames, pendingPaths>>
taskVars  == <<pc, arg, opMu>>
sweepVars == <<sweepPc, scan, expired, cur, since>>
envVars   == <<now, crashes>>
vars == <<dbVars, osVars, pending, unlockedAt, taskVars, sweepVars, envVars>>

Blank == [id   |-> 0,
          name |-> CHOOSE n \in Names : TRUE,
          path |-> CHOOSE p \in Paths : TRUE]

WaitPcs   == {"unlock", "lock", "mount", "delete"}
HoldPcs   == {"unlock.mount", "unlock.close", "lock.close", "delete.record",
              "delete.clear", "delete.files", "import"}
OwnerPcs  == {"c.alloc", "c.format", "c.open", "c.mkfs", "c.mount", "c.save",
              "c.umount", "c.close", "c.remove"}
CreatePcs == OwnerPcs \cup {"c.check", "c.track", "c.mark", "c.release"}
TaskPcs   == {"idle"} \cup WaitPcs \cup HoldPcs \cup CreatePcs
SweepPcs  == {"start", "scan", "scan.mark", "sleep", "each", "lock", "close",
              "clear"}

\* A slot whose creation pipeline runs, and one past the "file already exists"
\* check: only the latter touches the image, and its cleanup deletes it.
Creating(t) == pc[t] \in CreatePcs
Owner(t)    == pc[t] \in OwnerPcs

Init ==
    /\ db = {} /\ nextId = 1
    /\ image = [p \in Paths |-> IF p \in Preexisting THEN "ext4" ELSE "none"]
    /\ dev = [n \in Names |-> Closed]
    /\ nodes = {} /\ mounted = {}
    /\ pendingNames = {} /\ pendingPaths = {}
    /\ unlockedAt = [i \in Ids |-> 0]
    /\ opMu = Free
    /\ pc = [t \in Tasks |-> "idle"]
    /\ arg = [t \in Tasks |-> Blank]
    /\ sweepPc = "start" /\ scan = {} /\ expired = {}
    /\ cur = Blank /\ since = 0
    /\ now = 1 /\ crashes = 0

-----------------------------------------------------------------------------
(* What vault.go reads from the OS, and the subprocesses it runs.  Each    *)
(* operator is the subprocess succeeding; a caller adds what it does when  *)
(* the subprocess fails, which it may at any time.                         *)

\* Without the /proc/mounts fallback a vault whose node did not survive a
\* container restart looks locked.
IsUnlockedByNodeOnly(n) == n \in nodes

IsUnlocked(n) == n \in nodes \/ n \in mounted

\* cryptsetup luksOpen: the image is a LUKS container and no device-mapper
\* device has the name, visible in this container or not.
LuksOpen(n, p) ==
    /\ image[p] \in {"luks", "ext4"}
    /\ dev[n] = Closed
    /\ dev' = [dev EXCEPT ![n] = p]
    /\ nodes' = nodes \cup {n}

\* cryptsetup luksClose: it names a device, whatever backs it.
LuksClose(n) ==
    /\ dev[n] # Closed
    /\ n \notin mounted
    /\ dev' = [dev EXCEPT ![n] = Closed]
    /\ nodes' = nodes \ {n}

\* mount /dev/mapper/<n>
MountDevice(n) ==
    /\ n \in nodes \ mounted
    /\ dev[n] \in Paths => image[dev[n]] = "ext4"
    /\ mounted' = mounted \cup {n}

\* umount <n>, skipped when nothing is mounted there.
Umount(n) == mounted' = mounted \ {n}

\* os.Remove of an image: an open device keeps the unlinked file alive.
Unlink(p) ==
    /\ image' = [image EXCEPT ![p] = "none"]
    /\ dev' = [n \in Names |-> IF dev[n] = p THEN Orphan ELSE dev[n]]

-----------------------------------------------------------------------------
(* The handler's bookkeeping.                                              *)

Goto(t, from, to) == pc[t] = from /\ pc' = [pc EXCEPT ![t] = to]

\* The handler takes opMu, or returns and drops it.
Acquire(t)  == opMu = Free /\ opMu' = t
Finish(t)   == opMu' = Free /\ arg' = [arg EXCEPT ![t] = Blank]

\* Bug: the window is recorded as its deadline.
MarkDeadline(i) == unlockedAt' = [unlockedAt EXCEPT ![i] = now + AutoLockWindow]

MarkUnlocked(i)  == unlockedAt' = [unlockedAt EXCEPT ![i] = now]
ClearUnlocked(i) == unlockedAt' = [unlockedAt EXCEPT ![i] = 0]

\* Bugs: no reservation is consulted; only the name's is.
NothingInFlight(n, p) == FALSE
InFlightByName(n, p) == n \in pendingNames

InFlight(n, p) == n \in pendingNames \/ p \in pendingPaths

\* Bug: only the name is compared with the registered vaults.
RegisteredByName(n, p) == \E r \in db : r.name = n

Registered(n, p) == \E r \in db : r.name = n \/ r.path = p

\* Bug: without AUTOINCREMENT the id of a deleted row is given out again.
InsertVaultReusesIds(n, p) ==
    /\ nextId <= MaxVaults
    /\ \A r \in db : r.name # n
    /\ \E i \in Ids : /\ \A r \in db : r.id # i
                      /\ \A j \in 1..i - 1 : \E r \in db : r.id = j
                      /\ db' = db \cup {[id |-> i, name |-> n, path |-> p]}
    /\ nextId' = nextId + 1

\* INSERT INTO vaults: the name is UNIQUE, the path is not.
InsertVault(n, p) ==
    /\ nextId <= MaxVaults
    /\ \A r \in db : r.name # n
    /\ db' = db \cup {[id |-> nextId, name |-> n, path |-> p]}
    /\ nextId' = nextId + 1

-----------------------------------------------------------------------------
(* Requests on a registered vault: lookupVault reads the row before opMu   *)
(* is taken, and the handler works from that copy.                         *)

LookupVault(t, op) ==
    /\ Goto(t, "idle", op)
    /\ op = "delete" => t \in Deleters
    /\ \E r \in db : arg' = [arg EXCEPT ![t] = r]
    /\ UNCHANGED <<dbVars, osVars, pending, unlockedAt, opMu, sweepVars, envVars>>

\* Every way out that changes nothing: the vault is in the wrong state, the
\* credential is wrong, the first subprocess or statement fails.
RequestFails(t) ==
    /\ pc[t] \in WaitPcs /\ opMu = Free
    /\ pc' = [pc EXCEPT ![t] = "idle"]
    /\ arg' = [arg EXCEPT ![t] = Blank]
    /\ UNCHANGED <<dbVars, osVars, pending, unlockedAt, opMu, sweepVars, envVars>>

UnlockOpen(t) ==
    /\ Goto(t, "unlock", "unlock.mount") /\ Acquire(t)
    /\ ~IsUnlocked(arg[t].name)
    /\ LuksOpen(arg[t].name, arg[t].path)
    /\ UNCHANGED <<dbVars, image, mounted, pending, unlockedAt, arg, sweepVars, envVars>>

\* Mounted: the auto-lock window starts.  Not mounted: the device is closed.
UnlockMount(t) ==
    \/ /\ Goto(t, "unlock.mount", "idle") /\ Finish(t)
       /\ MountDevice(arg[t].name)
       /\ MarkUnlocked(arg[t].id)
       /\ UNCHANGED <<dbVars, image, dev, nodes, pending, sweepVars, envVars>>
    \/ /\ Goto(t, "unlock.mount", "unlock.close")
       /\ UNCHANGED <<dbVars, osVars, pending, unlockedAt, opMu, arg, sweepVars, envVars>>

\* Bug: the error path forgets to unlock opMu.
UnlockCloseKeepsMutex(t) ==
    /\ Goto(t, "unlock.close", "idle")
    /\ LuksClose(arg[t].name) \/ UNCHANGED <<dev, nodes>>
    /\ arg' = [arg EXCEPT ![t] = Blank]
    /\ UNCHANGED <<dbVars, image, mounted, pending, unlockedAt, opMu, sweepVars, envVars>>

\* Bug: a failed mount is retried without end, under opMu.
UnlockCloseRetries(t) ==
    /\ Goto(t, "unlock.close", "unlock.mount")
    /\ UNCHANGED <<dbVars, osVars, pending, unlockedAt, opMu, arg, sweepVars, envVars>>

\* The error of the cleaning luksClose is ignored.
UnlockClose(t) ==
    /\ Goto(t, "unlock.close", "idle") /\ Finish(t)
    /\ LuksClose(arg[t].name) \/ UNCHANGED <<dev, nodes>>
    /\ UNCHANGED <<dbVars, image, mounted, pending, unlockedAt, sweepVars, envVars>>

LockUmount(t) ==
    /\ Goto(t, "lock", "lock.close") /\ Acquire(t)
    /\ IsUnlocked(arg[t].name)
    /\ Umount(arg[t].name)
    /\ UNCHANGED <<dbVars, image, dev, nodes, pending, unlockedAt, arg, sweepVars, envVars>>

\* Bug: the window is cleared even when luksClose failed.
LockCloseAlwaysClears(t) ==
    /\ Goto(t, "lock.close", "idle") /\ Finish(t)
    /\ LuksClose(arg[t].name) \/ UNCHANGED <<dev, nodes>>
    /\ ClearUnlocked(arg[t].id)
    /\ UNCHANGED <<dbVars, image, mounted, pending, sweepVars, envVars>>

LockClose(t) ==
    /\ Goto(t, "lock.close", "idle") /\ Finish(t)
    /\ \/ LuksClose(arg[t].name) /\ ClearUnlocked(arg[t].id)
       \/ UNCHANGED <<dev, nodes, unlockedAt>>
    /\ UNCHANGED <<dbVars, image, mounted, pending, sweepVars, envVars>>

MountVault(t) ==
    /\ Goto(t, "mount", "idle") /\ opMu = Free /\ Finish(t)
    /\ IsUnlocked(arg[t].name)
    /\ MountDevice(arg[t].name)
    /\ UNCHANGED <<dbVars, image, dev, nodes, pending, unlockedAt, sweepVars, envVars>>

\* opMu keeps other handlers out from here on, but not a creation pipeline.
DeleteCheck(t) ==
    /\ Goto(t, "delete", "delete.record") /\ Acquire(t)
    /\ ~IsUnlocked(arg[t].name)
    /\ UNCHANGED <<dbVars, osVars, pending, unlockedAt, arg, sweepVars, envVars>>

\* The record goes first; the request's id decides, not the copied row.
DeleteRecord(t) ==
    /\ \/ /\ Goto(t, "delete.record", "delete.clear")
          /\ db' = {r \in db : r.id # arg[t].id}
          /\ UNCHANGED <<opMu, arg>>
       \/ /\ Goto(t, "delete.record", "idle") /\ Finish(t)
          /\ UNCHANGED db
    /\ UNCHANGED <<nextId, osVars, pending, unlockedAt, sweepVars, envVars>>

\* The window is forgotten, and vault.Delete checks the device again: when it
\* is open by now, the files stay.
DeleteClear(t) ==
    /\ \/ /\ Goto(t, "delete.clear", "delete.files")
          /\ ~IsUnlocked(arg[t].name)
          /\ UNCHANGED <<opMu, arg>>
       \/ /\ Goto(t, "delete.clear", "idle") /\ Finish(t)
          /\ IsUnlocked(arg[t].name)
    /\ ClearUnlocked(arg[t].id)
    /\ UNCHANGED <<dbVars, osVars, pending, sweepVars, envVars>>

\* The error of removing the image is only logged.
DeleteFiles(t) ==
    /\ Goto(t, "delete.files", "idle") /\ Finish(t)
    /\ Unlink(arg[t].path) \/ UNCHANGED <<image, dev>>
    /\ UNCHANGED <<dbVars, nodes, mounted, pending, unlockedAt, sweepVars, envVars>>

-----------------------------------------------------------------------------
(* Import: checked and inserted under one hold of opMu.                    *)

ImportProbe(t, n, p) ==
    /\ Goto(t, "idle", "import") /\ Acquire(t)
    /\ ~InFlight(n, p) /\ ~Registered(n, p)
    /\ n \notin nodes
    /\ image[p] \in {"luks", "ext4"}
    /\ arg' = [arg EXCEPT ![t] = [id |-> 0, name |-> n, path |-> p]]
    /\ UNCHANGED <<dbVars, osVars, pending, unlockedAt, sweepVars, envVars>>

ImportInsert(t) ==
    /\ Goto(t, "import", "idle") /\ Finish(t)
    /\ InsertVault(arg[t].name, arg[t].path) \/ UNCHANGED dbVars
    /\ UNCHANGED <<osVars, pending, unlockedAt, sweepVars, envVars>>

-----------------------------------------------------------------------------
(* Create: opMu only guards the reservation and its release; in between    *)
(* the pipeline runs beside every other request.                           *)

CreateReserve(t, n, d) ==
    /\ Goto(t, "idle", "c.check") /\ opMu = Free
    /\ ~InFlight(n, <<d, n>>)
    /\ pendingNames' = pendingNames \cup {n}
    /\ pendingPaths' = pendingPaths \cup {<<d, n>>}
    /\ arg' = [arg EXCEPT ![t] = [id |-> 0, name |-> n, path |-> <<d, n>>]]
    /\ UNCHANGED <<dbVars, osVars, unlockedAt, opMu, sweepVars, envVars>>

\* Bug: only the mapper device is checked, not the image file.
CreateCheckMapperOnly(t) ==
    /\ \/ Goto(t, "c.check", "c.alloc") /\ arg[t].name \notin nodes
       \/ Goto(t, "c.check", "c.track")
    /\ UNCHANGED <<dbVars, osVars, pending, unlockedAt, opMu, arg, sweepVars, envVars>>

\* No job id: the handler releases at once.  Otherwise the fail-fast checks;
\* directory, space and loop support may fail any time.
CreateCheck(t) ==
    /\ \/ Goto(t, "c.check", "c.release")
       \/ /\ Goto(t, "c.check", "c.alloc")
          /\ image[arg[t].path] = "none"
          /\ arg[t].name \notin nodes
       \/ Goto(t, "c.check", "c.track")
    /\ UNCHANGED <<dbVars, osVars, pending, unlockedAt, opMu, arg, sweepVars, envVars>>

\* fallocate, else dd; a failed dd may leave a partial file.
CreateAlloc(t) ==
    /\ \/ /\ Goto(t, "c.alloc", "c.format")
          /\ image' = [image EXCEPT ![arg[t].path] = "raw"]
       \/ /\ Goto(t, "c.alloc", "c.remove")
          /\ \E left \in {"none", "raw"} :
                image' = [image EXCEPT ![arg[t].path] = left]
    /\ UNCHANGED <<dbVars, dev, nodes, mounted, pending, unlockedAt, opMu, arg,
                   sweepVars, envVars>>

CreateFormat(t) ==
    /\ \/ /\ Goto(t, "c.format", "c.open")
          /\ image[arg[t].path] # "none"
          /\ image' = [image EXCEPT ![arg[t].path] = "luks"]
       \/ /\ Goto(t, "c.format", "c.remove")
          /\ UNCHANGED image
    /\ UNCHANGED <<dbVars, dev, nodes, mounted, pending, unlockedAt, opMu, arg,
                   sweepVars, envVars>>

CreateOpen(t) ==
    /\ \/ /\ Goto(t, "c.open", "c.mkfs")
          /\ LuksOpen(arg[t].name, arg[t].path)
       \/ /\ Goto(t, "c.open", "c.remove")
          /\ UNCHANGED <<dev, nodes>>
    /\ UNCHANGED <<dbVars, image, mounted, pending, unlockedAt, opMu, arg,
                   sweepVars, envVars>>

\* mkfs.ext4 /dev/mapper/<name> formats whatever backs the device by then.
CreateMkfs(t) ==
    /\ \/ /\ Goto(t, "c.mkfs", "c.mount")
          /\ arg[t].name \in nodes \ mounted
          /\ image' = [p \in Paths |-> IF p = dev[arg[t].name] THEN "ext4"
                                                               ELSE image[p]]
       \/ /\ Goto(t, "c.mkfs", "c.close")
          /\ UNCHANGED image
    /\ UNCHANGED <<dbVars, dev, nodes, mounted, pending, unlockedAt, opMu, arg,
                   sweepVars, envVars>>

CreateMount(t) ==
    /\ \/ Goto(t, "c.mount", "c.save") /\ MountDevice(arg[t].name)
       \/ Goto(t, "c.mount", "c.close") /\ UNCHANGED mounted
    /\ UNCHANGED <<dbVars, image, dev, nodes, pending, unlockedAt, opMu, arg,
                   sweepVars, envVars>>

CreateSave(t) ==
    /\ \/ /\ Goto(t, "c.save", "c.track")
          /\ InsertVault(arg[t].name, arg[t].path)
       \/ /\ Goto(t, "c.save", "c.umount")
          /\ UNCHANGED dbVars
    /\ UNCHANGED <<osVars, pending, unlockedAt, opMu, arg, sweepVars, envVars>>

\* The clean-up of a failed creation: every error is ignored.
CreateUmount(t) ==
    /\ Goto(t, "c.umount", "c.close")
    /\ Umount(arg[t].name) \/ UNCHANGED mounted
    /\ UNCHANGED <<dbVars, image, dev, nodes, pending, unlockedAt, opMu, arg,
                   sweepVars, envVars>>

CreateClose(t) ==
    /\ Goto(t, "c.close", "c.remove")
    /\ LuksClose(arg[t].name) \/ UNCHANGED <<dev, nodes>>
    /\ UNCHANGED <<dbVars, image, mounted, pending, unlockedAt, opMu, arg,
                   sweepVars, envVars>>

CreateRemove(t) ==
    /\ Goto(t, "c.remove", "c.track")
    /\ Unlink(arg[t].path) \/ UNCHANGED <<image, dev>>
    /\ UNCHANGED <<dbVars, nodes, mounted, pending, unlockedAt, opMu, arg,
                   sweepVars, envVars>>

\* After vault.Create returned, however it went: a vault of that name that is
\* registered and unlocked gets its window.
CreateTrack(t) ==
    /\ \/ /\ Goto(t, "c.track", "c.mark")
          /\ \E r \in db : /\ r.name = arg[t].name
                           /\ IsUnlocked(r.name)
                           /\ arg' = [arg EXCEPT ![t].id = r.id]
       \/ /\ Goto(t, "c.track", "c.release")
          /\ \/ DBFaults
             \/ \A r \in db : r.name = arg[t].name => ~IsUnlocked(r.name)
          /\ UNCHANGED arg
    /\ UNCHANGED <<dbVars, osVars, pending, unlockedAt, opMu, sweepVars, envVars>>

CreateMark(t) ==
    /\ Goto(t, "c.mark", "c.release")
    /\ MarkUnlocked(arg[t].id)
    /\ UNCHANGED <<dbVars, osVars, pending, opMu, arg, sweepVars, envVars>>

\* Bug: the image path stays reserved.
CreateReleaseNameOnly(t) ==
    /\ Goto(t, "c.release", "idle") /\ opMu = Free /\ Finish(t)
    /\ pendingNames' = pendingNames \ {arg[t].name}
    /\ UNCHANGED <<dbVars, osVars, pendingPaths, unlockedAt, sweepVars, envVars>>

\* releasePending
CreateRelease(t) ==
    /\ Goto(t, "c.release", "idle") /\ opMu = Free /\ Finish(t)
    /\ pendingNames' = pendingNames \ {arg[t].name}
    /\ pendingPaths' = pendingPaths \ {arg[t].path}
    /\ UNCHANGED <<dbVars, osVars, unlockedAt, sweepVars, envVars>>

-----------------------------------------------------------------------------
(* autoLockLoop: the startup scan, then a sweep per tick.                  *)

SweepGoto(from, to) == sweepPc = from /\ sweepPc' = to

ScanList ==
    /\ \/ SweepGoto("start", "scan") /\ scan' = db
       \/ DBFaults /\ SweepGoto("start", "sleep") /\ UNCHANGED scan
    /\ UNCHANGED <<dbVars, osVars, pending, unlockedAt, taskVars, expired, cur,
                   since, envVars>>

ScanCheck ==
    /\ \/ \E r \in scan :
            /\ scan' = scan \ {r}
            /\ \/ IsUnlocked(r.name) /\ SweepGoto("scan", "scan.mark") /\ cur' = r
               \/ ~IsUnlocked(r.name) /\ SweepGoto("scan", "scan") /\ UNCHANGED cur
       \/ scan = {} /\ SweepGoto("scan", "sleep") /\ UNCHANGED <<scan, cur>>
    /\ UNCHANGED <<dbVars, osVars, pending, unlockedAt, taskVars, expired, since,
                   envVars>>

ScanMark ==
    /\ SweepGoto("scan.mark", "scan")
    /\ MarkUnlocked(cur.id)
    /\ cur' = Blank
    /\ UNCHANGED <<dbVars, osVars, pending, taskVars, scan, expired, since, envVars>>

Expired(i) == unlockedAt[i] # 0 /\ now - unlockedAt[i] >= AutoLockWindow

SweepCollect ==
    /\ AutoLockWindow > 0
    /\ SweepGoto("sleep", "each")
    /\ expired' = {i \in Ids : Expired(i)} /\ expired' # {}
    /\ UNCHANGED <<dbVars, osVars, pending, unlockedAt, taskVars, scan, cur, since,
                   envVars>>

\* Bug: the window of a vault whose record is gone is kept.
SweepPickSkipsMissing ==
    \/ \E i \in expired :
        /\ expired' = expired \ {i}
        /\ \/ \E r \in db : /\ r.id = i
                            /\ SweepGoto("each", "lock")
                            /\ cur' = r /\ since' = unlockedAt[i]
                            /\ UNCHANGED unlockedAt
           \/ /\ \A r \in db : r.id # i
              /\ SweepGoto("each", "each")
              /\ UNCHANGED <<cur, since, unlockedAt>>
        /\ UNCHANGED <<dbVars, osVars, pending, taskVars, scan, envVars>>
    \/ /\ expired = {} /\ SweepGoto("each", "sleep")
       /\ UNCHANGED <<dbVars, osVars, pending, unlockedAt, taskVars, scan, expired,
                      cur, since, envVars>>

\* autoLockVault up to opMu.  Any error of GetVault counts as a deleted vault.
SweepPick ==
    \/ \E i \in expired :
        /\ expired' = expired \ {i}
        /\ \/ \E r \in db : /\ r.id = i
                            /\ SweepGoto("each", "lock")
                            /\ cur' = r /\ since' = unlockedAt[i]
                            /\ UNCHANGED unlockedAt
           \/ /\ DBFaults \/ \A r \in db : r.id # i
              /\ SweepGoto("each", "each")
              /\ ClearUnlocked(i)
              /\ UNCHANGED <<cur, since>>
        /\ UNCHANGED <<dbVars, osVars, pending, taskVars, scan, envVars>>
    \/ /\ expired = {} /\ SweepGoto("each", "sleep")
       /\ UNCHANGED <<dbVars, osVars, pending, unlockedAt, taskVars, scan, expired,
                      cur, since, envVars>>

WindowRestarted == unlockedAt[cur.id] # since

\* Under opMu, the ways out that leave the vault as it was: the window was
\* restarted, umount reports busy, or the vault turns out to be locked.
SweepSkip ==
    /\ opMu = Free
    /\ \/ /\ SweepGoto("lock", "each")
          /\ WindowRestarted \/ IsUnlocked(cur.name)
          /\ cur' = Blank /\ since' = 0
       \/ /\ SweepGoto("lock", "clear")
          /\ ~WindowRestarted /\ ~IsUnlocked(cur.name)
          /\ UNCHANGED <<cur, since>>
    /\ UNCHANGED <<dbVars, osVars, pending, unlockedAt, taskVars, scan, expired,
                   envVars>>

SweepUmount ==
    /\ SweepGoto("lock", "close") /\ Acquire(Sweeper)
    /\ ~WindowRestarted
    /\ IsUnlocked(cur.name)
    /\ Umount(cur.name)
    /\ UNCHANGED <<dbVars, image, dev, nodes, pending, unlockedAt, pc, arg, scan,
                   expired, cur, since, envVars>>

\* luksClose, and opMu is released before the window is cleared.
SweepClose ==
    /\ opMu' = Free
    /\ \/ /\ SweepGoto("close", "clear") /\ LuksClose(cur.name)
          /\ UNCHANGED <<cur, since>>
       \/ /\ SweepGoto("close", "each") /\ cur' = Blank /\ since' = 0
          /\ UNCHANGED <<dev, nodes>>
    /\ UNCHANGED <<dbVars, image, mounted, pending, unlockedAt, pc, arg, scan,
                   expired, envVars>>

SweepClear ==
    /\ SweepGoto("clear", "each")
    /\ ClearUnlocked(cur.id)
    /\ cur' = Blank /\ since' = 0
    /\ UNCHANGED <<dbVars, osVars, pending, taskVars, scan, expired, envVars>>

-----------------------------------------------------------------------------
(* The process is killed (SIGKILL, power of the container) and restarted:  *)
(* the handler's maps are gone; the database, the files and the kernel's   *)
(* devices and mounts remain, but the new container may not see a node.    *)

Crash ==
    /\ crashes < MaxCrashes
    /\ crashes' = crashes + 1
    /\ nodes' \in SUBSET nodes
    /\ pendingNames' = {} /\ pendingPaths' = {}
    /\ unlockedAt' = [i \in Ids |-> 0]
    /\ opMu' = Free
    /\ pc' = [t \in Tasks |-> "idle"]
    /\ arg' = [t \in Tasks |-> Blank]
    /\ sweepPc' = "start" /\ scan' = {} /\ expired' = {}
    /\ cur' = Blank /\ since' = 0
    /\ UNCHANGED <<dbVars, image, dev, mounted, now>>

Tick ==
    /\ now < MaxTime
    /\ now' = now + 1
    /\ UNCHANGED <<dbVars, osVars, pending, unlockedAt, taskVars, sweepVars, crashes>>

Request(t) ==
    \/ \E op \in WaitPcs : LookupVault(t, op)
    \/ RequestFails(t)
    \/ UnlockOpen(t) \/ UnlockMount(t) \/ UnlockClose(t)
    \/ LockUmount(t) \/ LockClose(t)
    \/ MountVault(t)
    \/ DeleteCheck(t) \/ DeleteRecord(t) \/ DeleteClear(t) \/ DeleteFiles(t)
    \/ \E n \in Names, p \in Paths : ImportProbe(t, n, p)
    \/ ImportInsert(t)

Pipeline(t) ==
    \/ CreateCheck(t) \/ CreateAlloc(t) \/ CreateFormat(t) \/ CreateOpen(t)
    \/ CreateMkfs(t) \/ CreateMount(t) \/ CreateSave(t)
    \/ CreateUmount(t) \/ CreateClose(t) \/ CreateRemove(t)
    \/ CreateTrack(t) \/ CreateMark(t)

AutoLock ==
    \/ ScanList \/ ScanCheck \/ ScanMark
    \/ SweepCollect \/ SweepPick \/ SweepSkip \/ SweepUmount \/ SweepClose
    \/ SweepClear

Next ==
    \/ \E t \in Tasks :
        \/ Request(t)
        \/ \E n \in Names, d \in Dirs : CreateReserve(t, n, d)
        \/ Pipeline(t)
        \/ CreateRelease(t)
    \/ AutoLock
    \/ Crash
    \/ Tick

Spec == Init /\ [][Next]_vars

\* A goroutine that can run does.  One that waits for opMu gets it in the end
\* although others keep taking it: Go's mutex hands itself to the longest
\* waiter once it has starved for a millisecond.  A mount is not busy at every
\* sweep for ever, and luksClose does not fail for ever.
Waiting(t) ==
    \/ RequestFails(t) \/ UnlockOpen(t) \/ LockUmount(t) \/ MountVault(t)
    \/ DeleteCheck(t)

Holding(t) ==
    \/ UnlockMount(t) \/ UnlockClose(t) \/ LockClose(t)
    \/ DeleteRecord(t) \/ DeleteClear(t) \/ DeleteFiles(t)
    \/ ImportInsert(t)

Fairness ==
    /\ \A t \in Tasks : /\ WF_vars(Holding(t)) /\ SF_vars(Waiting(t))
                        /\ WF_vars(Pipeline(t)) /\ SF_vars(CreateRelease(t))
    /\ WF_vars(ScanList) /\ WF_vars(ScanCheck) /\ WF_vars(ScanMark)
    /\ WF_vars(SweepCollect) /\ WF_vars(SweepPick) /\ SF_vars(SweepSkip)
    /\ SF_vars(SweepUmount) /\ WF_vars(SweepClose) /\ WF_vars(SweepClear)
    /\ SF_vars(SweepClose /\ sweepPc' = "clear")

LiveSpec == Spec /\ Fairness

-----------------------------------------------------------------------------
(* Invariants.                                                             *)

\* Every variable has its type; a window never starts in the future.
TypeOK ==
    /\ db \subseteq Rows /\ nextId \in 1..MaxVaults + 1
    /\ image \in [Paths -> {"none", "raw", "luks", "ext4"}]
    /\ dev \in [Names -> Paths \cup {Closed, Orphan}]
    /\ nodes \subseteq Names /\ mounted \subseteq Names
    /\ pendingNames \subseteq Names /\ pendingPaths \subseteq Paths
    /\ unlockedAt \in [Ids -> 0..now]
    /\ opMu \in Tasks \cup {Free, Sweeper}
    /\ pc \in [Tasks -> TaskPcs] /\ arg \in [Tasks -> Rows]
    /\ sweepPc \in SweepPcs /\ scan \subseteq Rows /\ expired \subseteq Ids
    /\ cur \in Rows /\ since \in 0..now
    /\ now \in 1..MaxTime /\ crashes \in 0..MaxCrashes

\* While a creation is in flight its name and image path are reserved, nobody
\* else's creation has either, and nothing else is reserved: pendingNames and
\* pendingPaths say exactly whose pipelines run (api.go:71-74).
ReservationsExact ==
    /\ \A n \in Names : n \in pendingNames <=>
            \E t \in Tasks : Creating(t) /\ arg[t].name = n
    /\ \A p \in Paths : p \in pendingPaths <=>
            \E t \in Tasks : Creating(t) /\ arg[t].path = p
    /\ \A t, u \in Tasks : Creating(t) /\ Creating(u) /\ t # u =>
            arg[t].name # arg[u].name /\ arg[t].path # arg[u].path

\* No registered vault lacks its image: "there is no ghost entry in the DB"
\* (api.go:971-974), whatever fails or is killed, and although a failing
\* creation deletes the image it made.
NoGhostRecord == \A r \in db : image[r.path] # "none"

\* Two records never share an image (the database does not enforce it:
\* db.go:66-74 makes only the name UNIQUE).
OneRecordPerImage == \A r, s \in db : r.path = s.path => r = s

\* opMu is held by the task, or the sweep, that is between its first and last
\* step, and by nobody otherwise: no path returns with the mutex held, and no
\* two operations are inside it (api.go:65-70).
MutexDiscipline ==
    /\ \A t \in Tasks : pc[t] \in HoldPcs <=> opMu = t
    /\ sweepPc = "close" <=> opMu = Sweeper

-----------------------------------------------------------------------------
(* Why there are no ghosts: the inductive invariant.  It needs DELETEs one *)
(* at a time; without that NoGhostRecord fails.                            *)

SingleDeleter == \A t, u \in Deleters : t = u

\* Ids are never reused, so a copied row is the row of its id, or stale.
CopiesCurrent ==
    /\ \A r \in db : r.id < nextId
    /\ \A r, s \in db : r.id = s.id => r = s
    /\ \A t \in Tasks : pc[t] \in WaitPcs =>
            /\ arg[t].id < nextId
            /\ \A r \in db : r.id = arg[t].id => r = arg[t]

\* The image a pipeline will delete if it fails belongs to no record, and from
\* luksFormat on it exists.
PipelineOwnsImage ==
    \A t \in Tasks : Owner(t) =>
        /\ \A r \in db : r.path # arg[t].path
        /\ pc[t] \in {"c.open", "c.mkfs", "c.mount", "c.save"} =>
                image[arg[t].path] # "none"

\* An import that passed its checks keeps them true until it inserts: nobody
\* reserves its name or path, the image is there, and no record has it.
ImportUnreserved ==
    \A t \in Tasks : pc[t] = "import" =>
        arg[t].name \notin pendingNames /\ arg[t].path \notin pendingPaths

ImportChecksHold ==
    \A t \in Tasks : pc[t] = "import" =>
        /\ image[arg[t].path] # "none"
        /\ \A r \in db : r.path # arg[t].path

\* The file a DELETE removes belongs to its own record, then to nobody.
DeleteOwnsImage ==
    \A t \in Tasks :
        /\ pc[t] \in {"delete", "delete.record"} => t \in Deleters /\ arg[t] \in db
        /\ pc[t] \in {"delete.clear", "delete.files"} =>
                /\ t \in Deleters
                /\ image[arg[t].path] # "none"
                /\ \A r \in db : r.path # arg[t].path
                /\ \A u \in Tasks : Owner(u) => arg[u].path # arg[t].path

\* A DELETE found its vault locked before it removes the record: a creation of
\* the same name may have opened and mounted its own image since, but not the
\* record's.
DeleteChecked ==
    \A t \in Tasks : pc[t] = "delete.record" /\ dev[arg[t].name] = arg[t].path =>
        arg[t].name \notin nodes \cup mounted

\* A node, and a mounted filesystem, has its device.
DevicesOpen == \A n \in nodes \cup mounted : dev[n] # Closed

\* The conjunction is inductive: each handler's checks, made under opMu or
\* against the reservations, still hold when it acts on them.
IInv ==
    /\ MutexDiscipline /\ ReservationsExact /\ CopiesCurrent
    /\ NoGhostRecord /\ OneRecordPerImage
    /\ PipelineOwnsImage /\ ImportUnreserved /\ ImportChecksHold
    /\ DeleteOwnsImage /\ DeleteChecked /\ DevicesOpen

-----------------------------------------------------------------------------
(* Action properties.                                                      *)

\* "no record can be inserted for a name or image path that an in-flight
\* create will later clean up" (api.go:71-74): a record that appears is either
\* the creation's own or for a name and path nobody is creating.
NoDoomedRegistration ==
    [][\A r \in db' \ db : \A t \in Tasks :
            Creating(t) /\ pc'[t] # "c.track" =>
                r.name # arg[t].name /\ r.path # arg[t].path]_vars

\* A record is never removed while its vault is mounted: it "would vanish from
\* the UI while its image and mounted filesystem stay live" (api.go:964-966).
NeverVanishMounted ==
    [][\A r \in db \ db' : ~(r.name \in mounted /\ dev[r.name] = r.path)]_vars

\* A window that was running ends only when its vault is locked, its record is
\* gone, or the process dies; otherwise an unlocked vault would be out of the
\* sweep's reach (api.go:91-92, 1105-1107).
WindowEndsWithLock ==
    [][\A r \in db : unlockedAt[r.id] # 0 /\ unlockedAt'[r.id] = 0 =>
            \/ r \notin db'
            \/ crashes' # crashes
            \/ ~(r.name \in mounted' /\ dev'[r.name] = r.path)]_vars

\* The same of the steps that are not the sweep's: a manual lock or a deletion
\* forgets a window only when the device is closed or the record gone.
HandlersEndWindowsLocked ==
    [][\A r \in db : unlockedAt[r.id] # 0 /\ unlockedAt'[r.id] = 0
                      /\ UNCHANGED <<sweepPc, expired, crashes>> =>
            r \notin db' \/ dev'[r.name] # r.path]_vars

\* mkfs in a creation formats the image the creation allocated and no other.
CreateFormatsOnlyItsOwnImage ==
    [][\A t \in Tasks : pc[t] = "c.mkfs" /\ pc'[t] = "c.mount" =>
            dev[arg[t].name] = arg[t].path]_vars

-----------------------------------------------------------------------------
(* The abstract specification.                                             *)

Reg == INSTANCE Registry WITH
    Existing <- Preexisting,
    vaults   <- db,
    files    <- {p \in Paths : image[p] # "none"},
    inUse    <- {u \in Names \X Paths : u[1] \in mounted /\ dev[u[1]] = u[2]}

\* Seen from outside, handlers, pipelines, the sweep and crashes only register,
\* unregister, mount, unmount, and make or remove files, each as one step that is
\* right when it is taken (api.go:65-74, 964-974).
RegistryKept == Reg!Spec

-----------------------------------------------------------------------------
(* Liveness.                                                               *)

\* Every request and every creation comes to an end, with opMu and the
\* reservations given back.
TasksFinish == \A t \in Tasks : pc[t] # "idle" ~> pc[t] = "idle"

\* An expired window does not stay: the vault is locked, found locked or
\* deleted, or its window is restarted.
ExpiredWindowsEnd ==
    AutoLockWindow > 0 => \A i \in Ids : Expired(i) ~> ~Expired(i)

=============================================================================
