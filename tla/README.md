# A formal model of lukscrypt

lukscrypt is a web service for a NAS that keeps LUKS-encrypted vaults: image
files it creates, opens with `cryptsetup`, mounts, grows, locks after a time, and
deletes. It is one Go process in a privileged container. What makes it hard is
not any one request but what requests, creation goroutines, the auto-lock sweep
and restarts do to each other through state none of them owns alone: a SQLite
table, files, the kernel's device-mapper and mount tables.

This directory holds TLA+ models of that, TLC configurations that check them on
small instances, and TLAPS proofs for every instance.

## Inventory

| Component | State | Operations | Code |
|---|---|---|---|
| vault handlers | `opMu`, `pendingNames`, `pendingPaths`, `unlockedAt` | create, import, unlock, lock, mount, delete | `internal/api/api.go` |
| vault operations | image files, `/dev/mapper`, `/proc/mounts` | `Create`, `unlockWith`, `LockContext`, `Mount`, `Delete`, `IsUnlocked` | `internal/vault/vault.go` |
| auto-lock | `unlockedAt` | startup scan, sweep each minute | `api.go:1055-1180` |
| grow | `size_gb`, image, device and filesystem sizes | `growVault`, `Grow`, `appendFile` | `api.go:797-888`, `vault/resize.go` |
| database | tables `vaults`, `api_tokens` | insert, get, list, delete, update size | `internal/db/db.go` |
| creation progress | `jobs`, a 64-event channel per job | progress events, SSE stream, expiry | `api.go:364-419,1186-1203`, `vault.go:36-62` |
| keyslots | LUKS header | add, remove, details | `api.go:514-691`, `vault/keys.go`, `vault/luksdump.go` |
| rate limiters | `authLimiters`, `unlockLimiters`: a token bucket for each client | allow, clear, expiry | `api.go:1039-1055,1205-1250,1687-1710` |
| auth, sessions, tokens | `sessions`, `api_tokens` | login, logout, Basic Auth, bearer tokens, expiry | `api.go:1384-1685`, `db.go` |
| shutdown | server context, HTTP drain | cancel, drain, `LockAllUnlocked` | `main.go:105-158`, `vault.go:388-406` |
| the rest | none | configuration, disk usage, middleware, web UI | |

How they interact:

* Handlers on a vault read its row first (`lookupVault`), then take `opMu`, and
  work under it on the copy they read. Only `growVault` reads the row again.
* `createVault` takes `opMu` just to reserve the name and the image path. Its
  goroutine runs the pipeline without the mutex and deletes the image it made
  when a step fails. Import asks for the reservations under `opMu`.
* The sweep takes `opMu` for each vault it locks, but keeps its list of expired
  windows, and clears a window, outside it.
* `IsUnlocked` derives the state from the OS: the mapper node, or, because a
  node may be invisible after a container restart, the mount table.
* A restart loses the handler's maps and nothing else.
* A creation reports on a channel that any number of SSE handlers read. A handler
  whose client left goes on emptying it, so at shutdown the HTTP drain waits for
  every creation somebody watched, and for no other.
* At shutdown `main` cancels the server context, which kills the subprocesses of
  creations, unlocks and the sweep, but not those of a manual lock or mount; it
  then locks the vaults without `opMu`.
* Every handler sits behind `auth`; each limiter, session and token step has a
  mutex or a statement of its own, and a request crosses several of them.

What is hard: rows read before a lock and used under it; the pipeline running
beside everything; clean-ups that ignore their errors; a kill between any two
steps; windows restarted while a sweep is under way; a grow in four steps that
each fail alone. `PROJECT.json` lists these under `hazards`, line by line.

What makes each component correct:

* registry (handlers, pipeline, database): every record has an image, no two
  records share one, nothing registered is deleted by somebody else's clean-up,
  a mounted vault keeps its record;
* `opMu` and the reservations: held by exactly the operations that are inside,
  always given back, every request ends;
* auto-lock: an unlocked vault has a window, a window ends with a lock, an
  expired one does end, a fresh one is left alone;
* grow: nothing shrinks, the sizes stay nested, data is not overwritten, the
  size recorded is the size delivered;
* progress: the terminal event is not lost and says what is so, and no goroutine
  and no stream stays for ever;
* keyslots: never the last slot, never the remover's own way in, an added
  credential opens the vault in the form it was given, no key material left on disk but by a
  kill or a double failure;
* limiters: no more attempts than from a bucket that is never thrown away;
* sessions and tokens: every session ends, a stale token id hits no other token;
* shutdown: main exits, and what it reports of the vaults is so.

## Modules

| Module | What it is |
|---|---|
| `Registry` | what the server promises of its set of vaults (abstract) |
| `VaultServer` | handlers, creation pipeline, auto-lock, database, OS tables, crash and clock; implements `Registry` |
| `MCVaultServer` | `VaultServer` for TLC: a pre-existing image, symmetry |
| `VaultServer_proofs` | theorems about `VaultServer` |
| `Grow` | growing one vault, with concurrent requests |
| `Grow_proofs` | theorems about `Grow` |
| `Progress` | one creation's job: its channel, its SSE streams, its entry |
| `Progress_proofs` | theorems about `Progress` |
| `Shutdown` | extends `Progress` with main, the requests on vaults and the sweep |
| `Shutdown_proofs` | theorems about `Shutdown`; extends `Progress_proofs` |
| `Keyslots` | adding and removing the keyslots of one header |
| `MCKeyslots` | `Keyslots` for TLC: which credential is the first or second line of which, symmetry |
| `Keyslots_proofs` | theorems about `Keyslots` |
| `TokenBucket` | what a rate limiter promises (abstract) |
| `Auth` | limiters, sessions, tokens and the requests that use them; implements `TokenBucket` |
| `Auth_proofs` | theorems about `Auth` |

Modules without an `MC` module are run by TLC as they are.

Definitions whose comment begins with "Bug" are not part of any specification.
Each is a wrong version of the definition that follows it; with it in place the
property named in `PROJECT.json` fails, which shows that the property can fail.

### VaultServer

A task is a request or a creation goroutine; `pc[t]` says which of its steps is
next and `arg[t]` is the row it copied or the identity it works for. An action
is what runs between two points where another goroutine can come in: a
subprocess, a database statement, a mutex.

| Code | Actions |
|---|---|
| `lookupVault` | `LookupVault` |
| early returns of the handlers | `RequestFails` |
| `unlockVault`, `unlockWith` | `UnlockOpen`, `UnlockMount`, `UnlockClose` |
| `lockVault`, `LockContext` | `LockUmount`, `LockClose` |
| `mountVault` | `MountVault` |
| `deleteVault`, `vault.Delete` | `DeleteCheck`, `DeleteRecord`, `DeleteClear`, `DeleteFiles` |
| `importVault` | `ImportProbe`, `ImportInsert` |
| `createVault` | `CreateReserve`; in its goroutine `CreateTrack`, `CreateMark`, `CreateRelease` |
| `vault.Create` | `CreateCheck`, `CreateAlloc`, `CreateFormat`, `CreateOpen`, `CreateMkfs`, `CreateMount`, `CreateSave`; clean-up `CreateUmount`, `CreateClose`, `CreateRemove` |
| `autoLockLoop` | `ScanList`, `ScanCheck`, `ScanMark` |
| `autoLockSweep`, `autoLockVault` | `SweepCollect`, `SweepPick`, `SweepSkip`, `SweepUmount`, `SweepClose`, `SweepClear` |
| SIGKILL and restart | `Crash` |

`dev[n]` is the image behind device-mapper device `n` (`Orphan` when the file was
unlinked while open), `nodes` the names visible in this container's
`/dev/mapper`, `mounted` the mount points in `/proc/mounts`. `image[p]` is
`none`, `raw`, `luks` or `ext4`.

Abstractions, and why they are sound for the properties:

* One mount directory, so a mount point is a name, as a mapper name is.
* The status check of a step and the subprocess it precedes are one action. Under
  `opMu` only a pipeline for the same name could come in between, and the subprocess
  itself refuses what the check would have refused (an open device, a mounted one).
  A SQL statement refuses nothing, so the check of a DELETE, the removal of the
  record and the second check, in `vault.Delete`, are steps of their own. What comes
  in between is a creation of the same name in another directory, which can open and
  mount its device there.
* A subprocess succeeds or changes nothing, except `dd`, which may leave a partial
  file. Any subprocess may fail at any time.
* `since := unlockedSince(id)` and `GetVault(id)` are one step: rows do not change
  and ids are not reused, so a step between the two is as if before or after both.
* Credentials, names and sizes are checked before any state changes, so a refused
  request is no step. `size_gb` is the business of `Grow`, a recovered panic in
  `vault.Create` that of `Progress`.
* `CreateTrack` may read nothing although the row exists when `DBFaults` holds: a
  database read can fail. So can the sweep's.
* An image file is only made or removed by the server. An operator's files exist
  at first (`Preexisting`).

`Registry` is the view from outside: a set of vaults, the files that are there and
the mounts. The refinement mapping reads the files off `image` and the mounts off
`mounted`; all else (tasks, mutex, reservations, devices, windows, the sweep) is
hidden. A step of `Registry` is atomic and right when it is taken: `Register` wants
the file there and nobody else's, `Unregister` wants the vault not mounted,
`RemoveFile` a file that is no vault's, and an id is used once. A mount is a pair of a
name and the image behind it, so another image under a vault's name is not that
vault in use. `RemoveFile` may end the mounts of its file: an image unlinked while it
is open stays mounted, but is no file any more. `RegistryKept` says
that the handlers, which do each of these in several steps, look like that.

### Grow

One vault. Four sizes: the record in GB; the image, the device and the filesystem
in units of which there are `UnitsPerMiB` to a MiB. `FallocateImage` and
`AppendFile` are the two ways to extend the image; dd may stop anywhere. Lock and
unlock, which also take `opMu`, come between requests; unlock maps the image as
large as it then is. `fallocates`, one of `Storages`, says whether the storage has
`fallocate` at all; where it has, it can still fail and dd then runs.

`DataIntact` is stated for storage without `fallocate`. Where both ways are mixed
it is false: a dd that was cut short leaves an image that is off a MiB, a later
`fallocate` to a smaller size than that succeeds and lets the filesystem grow onto
it, and the dd of a third grow starts before its end.

### Progress

One creation. Its pipeline is reduced to stages that succeed or fail: what it does
to files beside other requests is in `VaultServer`. What is kept is what is
reported, in which order with the clean-up, and who takes it.

| Code | Actions |
|---|---|
| `vault.Create` and its `send` | `CreateStep`, `AllocProgress`, `CreateSave`, `CreateFail`, `CreateUndo`, `CreatePanic` |
| `sendTerminal`, deferred `close(ch)` | `SendTerminal`, `CloseChannel` |
| `vaultEvents` | `VaultEvents`, `ReadEvent`, `WriteEvent`, `StreamEnds`, `Disconnect`, `DrainChannel` |
| `cleanupJobs` | `CleanupJobs` |
| `serverCancel` | `Cancel` |

The minute of `sendTerminal` can only run out while no handler is about to receive
(`NobodyReceives`): one that is takes an event within microseconds. A client that
stalls keeps its handler in `writing`, for ever if it likes: the server has no
write timeout. A subprocess killed by the cancellation has done nothing. Removing
the image after a failure is left out: it is in `VaultServer`. There is no time, so a
job entry may be 30 minutes old whenever `CleanupJobs` looks, as a creation with dd may
take that long; nothing makes it look.

### Shutdown

`Progress` with one more vault (`old`), one operation at a time under `opMu` (`op`:
a request, or the sweep's lock), requests that came and wait for it (`waiting`) and
`main`. A request that waits when the listener is closed is still served, before or
after `main` locks the vaults, and a clean drain waits for it.

| Code | Actions |
|---|---|
| handlers and sweep, as in `VaultServer` | `Request`, `Arrive`, `SweepBegin`, `UnlockOpen`, `UnlockMount`, `UnlockClose`, `LockUmount`, `LockClose`, `MountVault`, `OpFails` |
| `main` | `MainSignal`, `MainShutdown`, `MainDrain`, `MainExit`, `SecondSignal` |
| `LockAllUnlocked` | `LockAllList`, `LockAllUmount`, `LockAllClose`, `LockAllSkip`, `LockAllFails` |

Timers are nondeterministic: the drain can end at any time, cleanly only if
nothing is left (`Drained`); a lock can run out of time at any step.

### Keyslots

The header at one path, `slots`, of either version, and what makes and removes it. A
credential is a `content` and a kind: `AsRead` is what `cryptsetup` makes of it, its
first line if it is piped as a password and all of it if it is a key file. Contents
may have several lines, for the API checks nothing else than their length.

| Code | Actions |
|---|---|
| `lookupVault`, early returns under `opMu` | `Lookup`, `Refused` |
| `keyslotAdd` | `AddStart`, `Reread` |
| `AddKey` | `AddKey` |
| `AddKeyFile` | `WriteTemp`, `AddKeyFile`, `WipeTemp`, `RemoveTemp` |
| `keyslotRemove`, `ValidateKillSlot` | `RemoveStart`, `Reread` |
| `KillSlot`, `KillSlotKeyFile` | `KillSlot` |
| delete, create, import beside it | `DeleteImage`, `CreateReserve`, `CreateImage`, `CreateSave`, `CreateFail`, `ImportImage` |
| SIGKILL and restart | `Crash` |

* Parameters are chosen when the request has `opMu`: it does not look at them
  earlier in a way that another request could see.
* `cryptsetup` is external. `LuksKillSlot` wants a credential of another slot; for
  the last slot it accepts the slot's own, so that `ValidateKillSlot` is what
  stands between a request and the loss of the vault.
* A creation reserves the path under `opMu` and does the rest without. `CreateFail`
  unlinks its image under whatever request has `opMu`, so what a request knows of the
  header holds only as long as there is one (`StillOrGone`). That nothing else can be
  there instead needs the reservation, which nobody makes while the request runs.
* `AddKey` pipes two lines. Of an old password with a newline, its own second line is
  taken for the new one (`ReadAfter`).
* `tmp` is the latest temporary file. The errors of overwriting and of removing it are
  ignored, and a kill leaves it as it is; `faults` records these three, so
  `NoKeyLeftBehind` says that nothing else keeps key material on disk, and that one of
  the two clean-ups is enough.
* A header that cannot be read again makes the answer a 500 although the slot was
  written. `AddGrantsAccess` is about the answer that confirms.

### Auth and TokenBucket

`Auth` has the two limiter maps (`limiters`, keyed by map and client), sessions
with their age and idle time, token rows and requests in steps.

| Code | Actions |
|---|---|
| `auth`, `validSession`, `validAPICredentials` | `ValidSession`, `MasterCredentials`, `TokenCredentials`, `Unauthorized`, `ClearAuthFailures`, `TouchAPIToken` |
| `login`, `logout` | `LoginAllowed`, `LoginClear`, `LoginSession`, `Logout` |
| `unlockAllowed` in the vault handlers | `UnlockAllowed` |
| `createToken`, `listTokens`, `deleteToken` | `CreateToken`, `ListTokens`, `DeleteToken` |
| `cleanupLimiters`, `cleanupSessions` | `CleanupLimiters`, `CleanupSessions` |
| the clock | `Tick` |

A bucket's `credit` is time: `Every[k]` ticks of it pay for an attempt, `Burst`
attempts fill it. That is `rate.Limiter` without fractions. Ages saturate one past
the limit they are compared with. A hash of a token is the number it was created
under. A restart empties the maps, and is a new behaviour.

`TokenBucket` has a bucket for each client that is never dropped. The refinement
maps a missing entry to a full bucket, so it holds only if an entry is dropped
when its bucket is full, or by valid credentials: `RefilledWhileIdle` with
`IdleEntry >= Burst * Every` is why the clean-up may. The code has 10 minutes
against 5 attempts of one minute, and of half a minute.

## Runs

| Run | Expect | Shows |
|---|---|---|
| `recovery` | pass | registry and reservations (and the mutex, in `IInv`), two tasks of any kind, all failures, one crash; no mounted vault vanishes; the server implements `Registry` |
| `registration` | pass | creations and imports racing for names and images |
| `autolock` | pass | the mutex with the sweep running; liveness of requests and of windows; handlers forget a window only with a lock |
| `grow` | pass | two grows of an image of whole GB, with and without `fallocate`: sizes nested, nothing shrinks, dd alone damages nothing, a recorded size is delivered |
| `progress` | pass | the terminal event reaches exactly one client and is true when it does; goroutine and streams end |
| `shutdown` | pass | main exits, an old vault is locked when main reports no failure, a watched creation is settled |
| `keyslots` | pass | never the last slot, remover and adder keep their access, the new credential works, a key file left only by a kill or a double failure |
| `auth` | pass | the limiters implement `TokenBucket`, every session ends, stale token ids are harmless |
| `sweep_clears_late` | violation | an unlock between the sweep's release of `opMu` and its `clearUnlocked` loses its window |
| `stale_delete` | violation | two DELETEs of one vault, the late one removes a re-registered image |
| `create_formats_other` | violation | a creation formats the vault of the same name in another directory |
| `grow_tail` | violation | dd overwrites the last partial MiB |

Each violation is a disagreement between the code and one of its own comments,
quoted under `findings` in `PROJECT.json`.

More disagreements came up and have no run of their own:

* A creation marks the window of the vault it finds under its name after it failed
  too (`api.go:344`): one that fails because the name is taken restarts the window
  of the unlocked vault that has it.
* The sweep reads the start of a window after it collected the expired ones
  (`api.go:1127`), each lock of which may take 15 s. A vault locked and unlocked
  again in between is locked although its window is fresh.
* A grow whose resize failed leaves the image extended and the record as it was;
  with dd, repeating it appends the same delta again (`resize.go:84`).
* An unlock whose mount fails and whose cleaning `luksClose` fails too leaves the
  device open and starts no window (`vault.go:336-338`); the mount endpoint
  (`api.go:507`) then mounts it, again without a window, and the sweep never locks
  it.
* An imported image is recorded with its size rounded up to GB
  (`api.go:777-779`). The dd fallback appends the difference of the recorded
  sizes (`resize.go:35`), so image and filesystem end up smaller than the size then
  recorded: `grow` with `ImageSizes = {5}` violates `GrowDelivers`.
* Two SSE clients of one job share its channel: `TerminalDelivered` says that one
  of them gets the terminal event, and the other's stream ends without it. A
  client that reloads the page gets a 404, as its first handler removed the entry.
  One that stalls for more than a minute with a full channel loses the event.
* A creation nobody watches holds up no drain, and is not in the database yet: its
  device can be open when main logs that all vaults are locked. Without the
  condition that somebody watched, `WatchedCreationSettled` fails. The repository's
  README says that the server then "unmounts + `luksClose`s every unlocked vault"
  (`README.md:97-98`).
* A password with a newline is not what `cryptsetup` reads: `AddKey` and unlock take
  lines, `AddKeyFile` all of it. An add can succeed with a credential that then does
  not open the vault: without `Plain`, `AddGrantsAccess` fails. The repository's README
  takes single lines for granted (`README.md:274`), the handlers do not ask for them
  (`api.go:543-554`, `api.go:648`).
* `auth` asks its limiter only after the credentials were found wrong
  (`api.go:1529-1549`), so what `LimitersKeepTheirPromise` bounds is the failed answers
  that are not a 429; every attempt is looked at.
* A login takes a token of the limiter before it looks at the credentials, valid
  ones too (`api.go:1599-1620`), where the comment of `authAllowed` says that
  "successful logins never touch the limiter" (`api.go:1687-1689`). `auth` asks the limiter after, as its tests want.

### Bounds

* `recovery`: one name in two directories, so that a name's device is fought over
  by two images; two tasks, which suffices for every pair of handlers; two rows, so
  that a row is deleted and its path registered again; one crash. The clock stands
  still, so after the startup scan the sweep sleeps: it changes neither records nor
  images, and the proofs cover it (`SweepFrame`). One slot deletes (see Proofs).
* `registration`: two names and one directory, which gives imports under another
  name than the image's, hence path clashes without name clashes. Deletion is left
  to `recovery`. Tasks are symmetric.
* `autolock`: one vault, two clock ticks and a window of one, so that a window
  expires, is restarted and need not expire again. Small, because it checks
  liveness.
* `stale_delete` needs a third task: two DELETEs and the request that registers
  the path again.
* `grow`, `grow_tail`: two units to a MiB and two MiB to a GB, the least with which
  an image can be off a MiB and off a GB; sizes up to 3 GB give two different
  increases from the smallest; `MaxImage` (5 GB) leaves room for a delta appended
  twice.
* `progress`: a channel of two, so that it is empty, partly and completely filled
  by a handful of events; two readers, which share it. The system may stop: no
  deadlock check.
* `shutdown`: a channel of one and one reader, as sharing is settled by `progress`;
  one operation at a time, because `opMu` lets no second one in; one old and one new
  vault, so that main has both a vault it lists and one it may miss; one request that
  waits behind the operation.
* `keyslots`: three slots of LUKS2 and two of LUKS1, so that a header can be full,
  have one slot left, and have a slot beside the one removed and the one that
  verified; three credentials, one of which (`k`) has another (`b`) as its first
  line and the third as its second; two requests, which are symmetric.
* `auth`: two requests of one client and both maps; a burst of one that takes two
  ticks to come back, against an `IdleEntry` of two, the tightest the assumption
  allows; one session that can be idle for one tick and live for two; two tokens of
  one name, so that a name is revoked and given out again.

### Fairness

`autolock` uses `LiveSpec`. A goroutine that can run does (weak fairness
of every step that needs no lock). A goroutine that waits for `opMu` gets it
although others keep taking it (strong fairness): Go's `sync.Mutex` hands itself
to the longest waiter after a millisecond of starvation. The sweep's `umount` and
`luksClose` succeed in the end if tried for ever (strong fairness): the code's own
reading of a busy mount is that it "defers the lock to the next sweep"
(`api.go:1060-1063`), which helps only if it is not busy for ever. No fairness is
assumed of requests that arrive, of crashes or of the clock.

`progress`: weak fairness of the creation goroutine and of each SSE handler while it
waits on the channel. Nothing of the ticker of `cleanupJobs`, nor of the clients:
`WriteEvent`, which needs the client to read, is not fair.

`shutdown`: weak fairness of `main` alone. Every wait of it has a time limit, so it
needs nobody else to run.

`auth`: time passes and the ticker of `cleanupSessions` fires.

## Proofs

Every invariant, action property and refinement that a passing run checks is also a
theorem, for every value of the constants. Two kinds of hypotheses appear beside the
named `ASSUME`s, and each has a run that shows why: `SingleDeleter`
(`stale_delete`), and images of whole MiB or GB (`grow_tail`).

### VaultServer_proofs

For any names, directories, tasks, bounds and crashes, from `ConstantsAssumption`
alone:

* `TypeCorrect`, `MutexCorrect`, `ReservationsCorrect`, `CopiesCorrect`, each by
  induction with the ones before it;
* `NoDoomedRecords`: no record is inserted for what another creation may still
  delete, from the reservations being exact and an import's checks still standing
  when it inserts (`ImportUnreserved`);
* `WindowsEndLocked`: outside the sweep a window ends only with the device closed or
  the record gone. `WindowSteps` finds the two handler steps that end one. A lock
  clears the window of its row's id and closes the device of its row's name, so
  `LockCopies` carries `CopiesCurrent` into the hold of `opMu`. Of the sweep the
  same is false: `sweep_clears_late`.

With `SingleDeleter` (at most one slot serves DELETEs) as an assumption:

* `Inductive`, and from it `NoGhosts` and `ImagesUnshared`: every record has an
  image and no two share one. `NoGhostRecord` is not inductive: a failing pipeline
  deletes its image, so nobody may have registered it (`PipelineOwnsImage`, which
  needs the reservations and that imports respect them: `ImportUnreserved`,
  `ImportChecksHold`), and a DELETE removes a file under opMu, so that file must
  still be its own (`DeleteOwnsImage`). The last is where one deleter is needed:
  with two, the second's copy is stale, and the run `stale_delete` shows the ghost.
  The conjunction, `IInv`, is checked by `recovery` and proved inductive;
* `DeleteSafe`: no record is removed while its image is mounted. The check and the
  removal are two steps, and a creation of the same name may come in between. It mounts
  an image of its own, so the proof needs that the row's image stays closed after the
  check (`DeleteChecked`), which rests on `opMu`, on the reservations and on the row
  still being there (`DeleteOwnsImage`), and that what is visible in `/dev/mapper` or
  mounted is open (`DevicesOpen`);
* `RegistryImplemented`: `VaultServer` implements `Registry`. A step changes
  records, one image or one mount and no two of these (`OneThing`); `IInv` gives
  the guard of the abstract action that each of them is.

### Grow_proofs

For any sizes, units and number of requests, from `GrowAssumption`:

* `GrowInvariant` (a request past its checks holds `opMu`, the vault is open, the
  record is the one it read), and from it `NestedSizes` and `NeverShrinks`;
* `DataSafe`, if every image starts out as whole MiB (`WholeMiB`): on storage without
  `fallocate`, dd overwrites nothing. A dd that was cut short does leave an image that
  is off a MiB, so "images stay whole" is not an invariant. `DataInv` says that the
  filesystem ends on a whole MiB, and so does the size it is about to be given: the
  dd of a grow that goes on to resize ended on one;
* `SizeDelivered`, if every image starts out as whole GB (`WholeGB`, with which
  `importVault`'s rounding is exact): a size is recorded only when image, device and
  filesystem agree and have it, with `fallocate` and without.

`createVault` makes images of whole GB. Imported ones need be neither: `grow_tail` is
the first theorem without its hypothesis, and `grow` with `ImageSizes = {5}` the
second.

### Keyslots_proofs

For any number of slots, credentials and requests and any way to split a credential
into lines, from `KeyslotsAssumption`: `KeyslotsInvariant`, and from it `KeyslotTypes`,
`LastSlotSafe`, `TempFilesWiped`, `RemovalSafe` and `AddingGrants`. But for the
types none of these is inductive. `KeyslotInv` adds, for each request past its
checks, that it holds `opMu`, that a removal's other slot is still there and that an
add that went well left its two credentials able to open, or that the image is gone and
no reservation can put another in its place (`StillOrGone`). Two lemmas carry the rest:
what `ValidateKillSlot` finds in a dump of either version is so in the header
(`ValidatedSlots`), and a single-line password is read after another the way it is
read alone (`ReadAfterPlain`). `AddingGrants` is restricted to key files and such
passwords, as its property is; the other theorems are about any.

### Auth_proofs

For any clients, sessions, tokens, requests, burst and rates, from `AuthAssumption`:

* `AuthTypes` and `BucketsRefill`, by one induction: the credit of an entry is at least
  the time since it was last seen, or the bucket is full;
* `LimitersRefine`: `Auth` implements `TokenBucket`. Each step is an attempt, a
  verification, a forgiving, a refill or a stutter of the abstract buckets
  (`BucketStep`). The clean-up must be a stutter: an entry idle for `IdleEntry` is,
  by `BucketsRefill` and `IdleEntry >= Burst * Every`, a full bucket, which is what a
  missing entry stands for;
* `StaleIdsAreHarmless`: `TokenInv` says that a row, in the table or read from it, has
  the id it was hashed under, so an id that is used late finds its own row or none.

### Progress_proofs

For any number of readers and any capacity of the channel, from
`ProgressAssumption`: `JobTypes`; `JobInvariant`, and from it `TerminalDelivery` and
`TerminalTruth`. `JobInv` adds

* `OutcomeInv`: what the goroutine's place says of outcome, record and event, and that
  nobody sends on a closed channel;
* `EventInv`: where the terminal event is. It is not sent, or last in the channel with
  nobody having seen it, or at exactly one client with the channel empty, or lost to a
  handler that drains;
* `EndInv`: a handler ends only on a channel that is closed and empty;
* `DeviceInv`: after a failure the device is closed, or leaked, before anything is
  reported.

### Shutdown_proofs

For any number of streams: `ShutdownInvariant`, and from it `ShutdownTypes`,
`LogIsTruthful` and `WatchedCreationIsSettled`. The lemmas about `JobNext` are reused:
a step of somebody else moves the new device only when the vault is registered
(`RefersInv`), which is all `JobInv` needs (`OtherKeepsJob`). Then

* `OldInv`: once main has cancelled the context, no request opens a device that is
  closed (`OpKeeps`), so what `LockAllUnlocked` is through with (`Visited`) stays
  closed although it takes no mutex;
* `NewInv`: after a clean drain every stream that began is through, so by `EndInv` the
  creation is at its end. Its record, if there is one, was therefore there when
  `LockAllUnlocked` made its list, and the argument for the old vault applies; without
  a record, `DeviceInv` does.

`JobInv` and `ShutdownInv` were checked with TLC, on the instances of `progress` and
`shutdown`, before they were proved; `shutdown` also with two readers.

### Only model-checked

Liveness (`TasksFinish`, `ExpiredWindowsEnd`, `CreationEnds`, `StreamsEnd`,
`ShutdownEnds`, `SessionsEnd`): the provers handle neither fairness nor
`ENABLED`. The four violations are counterexamples and need no proof.

## Plan

Done: the registry with its handlers, pipeline and sweep and its abstract
specification; grow; creation progress; shutdown; keyslots; limiters, sessions and
tokens, with the abstract bucket; the proofs above.

Left open:

1. Under which conditions the properties the violation runs refute do hold:
   `WindowEndsWithLock` for every step but the sweep's late clear and its failed
   database reads, `CreateFormatsOnlyItsOwnImage` where each name has one image path.
   Neither condition has been checked yet.
2. The safety half of `SessionsEnd`: a session is never valid past its absolute limit.

## Not modelled

* Input validation (`pathInStorageDir`, `isValidVaultName`, `csrfGuard`,
  `procMountsEscape`): predicates on strings without state. A refused request takes
  no step.
* Configuration parsing: environment variables, read once into what are constants
  here.
* Disk usage and space: one `statfs` call each; a failing check is a failing step.
* HTTP plumbing, the web UI, build files: no state of their own.
