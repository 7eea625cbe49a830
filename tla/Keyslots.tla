----------------------------- MODULE Keyslots -----------------------------
(***************************************************************************)
(* Adding and removing the keyslots of one vault's LUKS header:            *)
(* POST /api/vaults/{id}/keyslot/add and .../keyslot/remove.  Each slot    *)
(* wraps the master key with one credential; when the last slot is gone    *)
(* the data is lost.                                                       *)
(*                                                                         *)
(* A credential reaches cryptsetup either as a password, a line of its     *)
(* standard input, or verbatim, as a key file.  The two agree on a         *)
(* single-line credential and differ on any other; the API takes both      *)
(* kinds of either.  The row a request works on was read before opMu was   *)
(* taken: the image may since have been deleted, or replaced by another    *)
(* creation or import at the same path, and a creation that fails unlinks  *)
(* its image without opMu.  A request looks at its parameters only under   *)
(* opMu, so they are chosen there.                                         *)
(***************************************************************************)
EXTENDS Integers

CONSTANTS
    Tasks,        \* concurrent requests
    MaxKeySlot,   \* the highest slot of a LUKS2 header, 31
    MaxKeySlot1,  \* the highest slot of a LUKS1 header, 7
    Creds,        \* contents of passphrases and key files
    FirstLine,    \* what cryptsetup reads of each when it reads a line
    SecondLine,   \* and when it reads another: of single-line ones, nothing
    NoKey,        \* the slot is free
    NoReq,        \* the request has not looked at its parameters
    Free          \* opMu is not held

Slots == 0..MaxKeySlot

ASSUME KeyslotsAssumption ==
    /\ MaxKeySlot1 \in Nat /\ MaxKeySlot \in Nat /\ MaxKeySlot1 <= MaxKeySlot
    /\ FirstLine \in [Creds -> Creds]
    /\ \A c \in Creds : FirstLine[FirstLine[c]] = FirstLine[c]
    /\ SecondLine \in [Creds -> Creds]
    /\ NoKey \notin Creds
    /\ Free \notin Tasks

Passwords == {[kind |-> "password", content |-> c] : c \in Creds}
KeyFiles  == {[kind |-> "keyfile", content |-> c] : c \in Creds}
Secrets   == Passwords \cup KeyFiles

\* existing, or the remaining credential of a removal; new; -1 is "any slot".
AddRequests    == [op : {"add"}, cred : Secrets, new : Secrets, slot : Slots \cup {-1}]
RemoveRequests == [op : {"remove"}, cred : Secrets, slot : Slots]

VARIABLES
    exists,    \* there is a LUKS image at the path
    version,   \* of the header
    slots,     \* the credential each slot is wrapped with
    row,       \* a record has the path
    creating,  \* the creation that has the path reserved: how far it is
    opMu,
    pc,
    req,
    answer,    \* of the request under opMu, as far as it is known, or of the last
    tmp,       \* what the latest temporary key file holds
    faults     \* what went wrong since it was made, while it is there

header == <<exists, version, slots>>
server == <<row, creating>>
files  == <<tmp, faults>>
vars   == <<header, server, opMu, pc, req, answer, files>>

-----------------------------------------------------------------------------
(* The header and cryptsetup.                                              *)

Used == {s \in Slots : slots[s] # NoKey}

Capacity == IF version = 1 THEN 0..MaxKeySlot1 ELSE Slots

Headers(v) ==
    {h \in [Slots -> Creds \cup {NoKey}] :
        /\ \E s \in Slots : h[s] # NoKey
        /\ v = 1 => \A s \in Slots : s > MaxKeySlot1 => h[s] = NoKey}

\* A line of standard input, or --key-file with an exact size.
AsRead(secret) ==
    IF secret.kind = "password" THEN FirstLine[secret.content] ELSE secret.content

\* The second line of AddKey's standard input, "old\nnew\n": of the old password
\* itself when that is not a single line.
ReadAfter(old, new) ==
    IF FirstLine[old.content] = old.content THEN FirstLine[new.content]
                                            ELSE SecondLine[old.content]

\* Read alike as a password and verbatim.
Plain(secret) == AsRead(secret) = secret.content

\* Unlock or UnlockKeyFile with this secret would succeed.
Opens(secret) == exists /\ \E s \in Slots : slots[s] = AsRead(secret)

\* luksAddKey: old must open the header; the slot named, or the first free one.
LuksAddKey(old, new, slot) ==
    /\ exists
    /\ \E s \in Slots : slots[s] = old
    /\ \E s \in Capacity \ Used :
        /\ slot \in {-1, s}
        /\ slot = -1 => \A u \in Capacity \ Used : s <= u
        /\ slots' = [slots EXCEPT ![s] = new]

\* luksKillSlot: the credential must open another slot; of the last slot that
\* cannot be asked, so its own is accepted.  ValidateKillSlot has to refuse it.
LuksKillSlot(cred, slot) ==
    /\ exists
    /\ slot \in Used
    /\ \/ \E s \in Slots \ {slot} : slots[s] = cred
       \/ slots[slot] = cred /\ Used = {slot}
    /\ slots' = [slots EXCEPT ![slot] = NoKey]

\* DumpDetails: LUKS2 lists the slots in use, LUKS1 every slot and its state.
Dump ==
    IF version = 2
    THEN {[index |-> s, status |-> "valid"] : s \in Used}
    ELSE {[index |-> s, status |-> IF s \in Used THEN "enabled" ELSE "disabled"] :
             s \in 0..MaxKeySlot1}

\* Bug: every slot listed counts, a disabled one of LUKS1 too.
ValidateKillSlotAnyStatus(d, slot) ==
    /\ \E k \in d : k.index = slot
    /\ \E k \in d : k.index # slot

\* The slot is a valid one and there is at least one more.
ValidateKillSlot(d, slot) ==
    LET valid == {k \in d : k.status \in {"valid", "enabled"}} IN
    /\ \E k \in valid : k.index = slot
    /\ \E k \in valid : k.index # slot

-----------------------------------------------------------------------------
\* The image goes, and the header with it.
Unlink == exists' = FALSE /\ version' = 2 /\ slots' = [s \in Slots |-> NoKey]

Goto(t, from, to) == pc[t] = from /\ pc' = [pc EXCEPT ![t] = to]

\* Bug: the requests share opMu, as with RLock.
AcquireShared(t) == opMu' = t

Acquire(t) == opMu = Free /\ opMu' = t

\* The handler answers, and its deferred unlock runs.
Return(t, a) ==
    /\ opMu' = Free
    /\ req' = [req EXCEPT ![t] = NoReq]
    /\ answer' = a

\* The row is found; the request waits for opMu.
Lookup(t) ==
    /\ row
    /\ Goto(t, "idle", "wait")
    /\ UNCHANGED <<header, server, opMu, req, answer, files>>

\* A request refused under opMu before it changed anything.
Refused(t) ==
    /\ opMu = Free
    /\ Goto(t, "wait", "idle") /\ Return(t, "error")
    /\ UNCHANGED <<header, server, files>>

\* Bug: the upper end of key_slot is not checked.
AddStartAnySlot(t, old, new, slot) ==
    /\ Acquire(t)
    /\ Goto(t, "wait", IF {old, new} \subseteq Passwords THEN "addkey" ELSE "temp")
    /\ req' = [req EXCEPT ![t] = [op |-> "add", cred |-> old, new |-> new, slot |-> slot]]
    /\ answer' = "none"
    /\ UNCHANGED <<header, server, files>>

\* keyslotAdd: two passwords take the standard input path, a key file on either
\* side the one with a temporary file.
AddStart(t, old, new, slot) ==
    /\ slot <= MaxKeySlot
    /\ Acquire(t)
    /\ Goto(t, "wait", IF {old, new} \subseteq Passwords THEN "addkey" ELSE "temp")
    /\ req' = [req EXCEPT ![t] = [op |-> "add", cred |-> old, new |-> new, slot |-> slot]]
    /\ answer' = "none"
    /\ UNCHANGED <<header, server, files>>

\* AddKey: both passwords on standard input, one after the other.
AddKey(t) ==
    /\ \/ /\ Goto(t, "addkey", "reread")
          /\ LuksAddKey(AsRead(req[t].cred), ReadAfter(req[t].cred, req[t].new),
                        req[t].slot)
          /\ UNCHANGED <<opMu, req, answer>>
       \/ Goto(t, "addkey", "idle") /\ Return(t, "error") /\ UNCHANGED slots
    /\ UNCHANGED <<exists, version, server, files>>

\* AddKeyFile: the new credential goes to a new temporary file, which may not be
\* created at all, or be written only in part.
WriteTemp(t) ==
    /\ \/ /\ \/ Goto(t, "temp", "addfile")
             \/ Goto(t, "temp", "wipe")
          /\ answer' = IF pc'[t] = "wipe" THEN "error" ELSE "none"
          /\ tmp' = "secret" /\ faults' = {}
          /\ UNCHANGED <<opMu, req>>
       \/ Goto(t, "temp", "idle") /\ Return(t, "error") /\ UNCHANGED files
    /\ UNCHANGED <<header, server>>

\* Bug: the new key file is piped as a line, like a password.
AddKeyFileByLine(t) ==
    /\ Goto(t, "addfile", "wipe")
    /\ \/ /\ LuksAddKey(req[t].cred.content, FirstLine[req[t].new.content], req[t].slot)
          /\ UNCHANGED answer
       \/ UNCHANGED slots /\ answer' = "error"
    /\ UNCHANGED <<exists, version, server, opMu, req, files>>

\* Both credentials are used verbatim, a password too.
AddKeyFile(t) ==
    /\ Goto(t, "addfile", "wipe")
    /\ \/ /\ LuksAddKey(req[t].cred.content, req[t].new.content, req[t].slot)
          /\ UNCHANGED answer
       \/ UNCHANGED slots /\ answer' = "error"
    /\ UNCHANGED <<exists, version, server, opMu, req, files>>

\* Bug: the clean-up is not deferred, an error returns before it.
WipeTempOnSuccess(t) ==
    /\ \/ /\ answer # "error"
          /\ Goto(t, "wipe", "unlink")
          /\ tmp' = "wiped"
          /\ UNCHANGED <<opMu, req, answer, faults>>
       \/ /\ answer = "error"
          /\ Goto(t, "wipe", "idle") /\ Return(t, "error") /\ UNCHANGED files
    /\ UNCHANGED <<header, server>>

\* The deferred clean-up, whatever the result: WriteFile truncates and
\* overwrites the file; its error is ignored,
WipeTemp(t) ==
    /\ Goto(t, "wipe", "unlink")
    /\ \/ tmp' = "wiped" /\ UNCHANGED faults
       \/ faults' = faults \cup {"wipe"} /\ UNCHANGED tmp
    /\ UNCHANGED <<header, server, opMu, req, answer>>

\* and so is that of the removal.
RemoveTemp(t) ==
    /\ \/ tmp' = "none" /\ faults' = {}
       \/ faults' = faults \cup {"remove"} /\ UNCHANGED tmp
    /\ \/ answer # "error" /\ Goto(t, "unlink", "reread") /\ UNCHANGED <<opMu, req, answer>>
       \/ answer = "error" /\ Goto(t, "unlink", "idle") /\ Return(t, "error")
    /\ UNCHANGED <<header, server>>

\* keyslotRemove: the header is read and the slot validated under opMu.
RemoveStart(t, cred, slot) ==
    /\ Acquire(t)
    /\ Goto(t, "wait", "kill")
    /\ exists
    /\ ValidateKillSlot(Dump, slot)
    /\ req' = [req EXCEPT ![t] = [op |-> "remove", cred |-> cred, slot |-> slot]]
    /\ answer' = "none"
    /\ UNCHANGED <<header, server, files>>

\* Bug: with --batch-mode cryptsetup removes the slot and asks for nothing.
KillSlotBatch(t) ==
    /\ \/ /\ Goto(t, "kill", "reread")
          /\ exists /\ req[t].slot \in Used
          /\ slots' = [slots EXCEPT ![req[t].slot] = NoKey]
          /\ UNCHANGED <<opMu, req, answer>>
       \/ Goto(t, "kill", "idle") /\ Return(t, "error") /\ UNCHANGED slots
    /\ UNCHANGED <<exists, version, server, files>>

\* KillSlot or KillSlotKeyFile.
KillSlot(t) ==
    /\ \/ /\ Goto(t, "kill", "reread")
          /\ LuksKillSlot(AsRead(req[t].cred), req[t].slot)
          /\ UNCHANGED <<opMu, req, answer>>
       \/ Goto(t, "kill", "idle") /\ Return(t, "error") /\ UNCHANGED slots
    /\ UNCHANGED <<exists, version, server, files>>

\* The header is read again for the answer; when that fails the answer is an
\* error although the slot was written.
Reread(t) ==
    /\ Goto(t, "reread", "idle")
    /\ \/ exists /\ Return(t, "ok")
       \/ Return(t, "error")
    /\ UNCHANGED <<header, server, files>>

-----------------------------------------------------------------------------
(* The rest of the server, as far as it makes, replaces or removes the     *)
(* image at the path.                                                      *)

\* A creation reserves the path under opMu.  The image it formats, and removes
\* when a later step fails, it writes without.
CreateReserve ==
    /\ opMu = Free /\ creating = "none"
    /\ creating' = "reserved"
    /\ UNCHANGED <<header, row, opMu, pc, req, answer, files>>

CreateImage(password) ==
    /\ creating = "reserved" /\ ~exists
    /\ creating' = "formatted"
    /\ exists' = TRUE /\ version' = 2
    /\ slots' = [s \in Slots |-> IF s = 0 THEN AsRead(password) ELSE NoKey]
    /\ UNCHANGED <<row, opMu, pc, req, answer, files>>

CreateSave ==
    /\ creating = "formatted"
    /\ creating' = "none" /\ row' = TRUE
    /\ UNCHANGED <<header, opMu, pc, req, answer, files>>

\* Its error of removing the image is ignored.
CreateFail ==
    /\ \/ creating \in {"reserved", "formatted"} /\ UNCHANGED header
       \/ creating = "formatted" /\ Unlink
    /\ creating' = "none"
    /\ UNCHANGED <<row, opMu, pc, req, answer, files>>

\* DELETE, under opMu: of the record and its image, or of a record that is gone
\* by now, which takes the image of whoever has the path; the removal of the
\* image may fail.
DeleteImage ==
    /\ opMu = Free
    /\ row' \in {row, FALSE}
    /\ UNCHANGED header \/ Unlink
    /\ UNCHANGED <<creating, opMu, pc, req, answer, files>>

\* An import under opMu of the image that lies at the path: left by a creation
\* or a deletion, or placed there by the operator.
ImportImage ==
    /\ opMu = Free /\ ~row /\ creating = "none"
    /\ row' = TRUE /\ exists' = TRUE
    /\ \/ exists /\ UNCHANGED <<version, slots>>
       \/ ~exists /\ version' \in {1, 2} /\ slots' \in Headers(version')
    /\ UNCHANGED <<creating, opMu, pc, req, answer, files>>

\* The process is killed and starts again; images and temporary files stay.
Crash ==
    /\ opMu' = Free
    /\ pc' = [t \in Tasks |-> "idle"]
    /\ req' = [t \in Tasks |-> NoReq]
    /\ answer' = "none"
    /\ creating' = "none"
    /\ faults' = IF tmp = "none" THEN {} ELSE faults \cup {"kill"}
    /\ UNCHANGED <<header, row, tmp>>

Init ==
    /\ exists = TRUE
    /\ version \in {1, 2} /\ slots \in Headers(version)
    /\ row = TRUE /\ creating = "none"
    /\ opMu = Free
    /\ pc = [t \in Tasks |-> "idle"]
    /\ req = [t \in Tasks |-> NoReq]
    /\ answer = "none"
    /\ tmp = "none" /\ faults = {}

Next ==
    \/ \E t \in Tasks :
        \/ Lookup(t) \/ Refused(t)
        \/ \E old \in Secrets, new \in Secrets, slot \in -1..MaxKeySlot + 1 :
              AddStart(t, old, new, slot)
        \/ \E cred \in Secrets, slot \in Slots : RemoveStart(t, cred, slot)
        \/ AddKey(t) \/ WriteTemp(t) \/ AddKeyFile(t) \/ WipeTemp(t) \/ RemoveTemp(t)
        \/ KillSlot(t) \/ Reread(t)
    \/ CreateReserve \/ CreateSave \/ CreateFail
    \/ \E password \in Passwords : CreateImage(password)
    \/ DeleteImage
    \/ ImportImage
    \/ Crash

Spec == Init /\ [][Next]_vars

-----------------------------------------------------------------------------
Held == {"addkey", "temp", "addfile", "wipe", "unlink", "kill", "reread"}

TypeOK ==
    /\ exists \in BOOLEAN /\ version \in {1, 2}
    /\ slots \in [Slots -> Creds \cup {NoKey}]
    /\ row \in BOOLEAN /\ creating \in {"none", "reserved", "formatted"}
    /\ opMu \in Tasks \cup {Free}
    /\ pc \in [Tasks -> {"idle", "wait"} \cup Held]
    /\ req \in [Tasks -> AddRequests \cup RemoveRequests \cup {NoReq}]
    /\ answer \in {"none", "ok", "error"}
    /\ tmp \in {"none", "secret", "wiped"}
    /\ faults \subseteq {"kill", "wipe", "remove"}

\* "killing the last valid slot would destroy the only remaining wrapped copy
\* of the master key" (keys.go:92-96): whatever requests race, and on either
\* header version, an image that exists has a slot some credential opens.
NeverLastSlot == exists => Used # {}

\* Key material is in a temporary file only while the request that needs it
\* there is under opMu, on every path out of AddKeyFile.  It outlives the request
\* only if the process was killed (keys.go:62-64), or if both the overwriting
\* and the removal of the file failed (keys.go:65-66); one of the two is enough.
NoKeyLeftBehind ==
    tmp = "secret" =>
        \/ \E t \in Tasks : opMu = t /\ pc[t] \in {"addfile", "wipe"}
        \/ \E t \in Tasks : opMu = t /\ pc[t] = "unlink" /\ "wipe" \in faults
        \/ "kill" \in faults
        \/ {"wipe", "remove"} \subseteq faults

\* The image at the path is what P was established of, or it is gone and nobody
\* can put another in its place: that takes a reservation, made under opMu.
StillOrGone(P) == (exists => P) /\ (~exists => creating # "reserved")

\* An add whose keyslot is written: what it will confirm.
Added(t) ==
    \/ pc[t] \in {"wipe", "unlink"} /\ answer # "error"
    \/ pc[t] = "reread" /\ req[t].op = "add"

\* What the request at hand was checked for, and what it did, still holds.
RequestChecked(t) ==
    /\ pc[t] \in Held => opMu = t
    /\ pc[t] \in {"addkey", "temp", "addfile", "wipe", "unlink"} => req[t] \in AddRequests
    /\ pc[t] = "addkey" => {req[t].cred, req[t].new} \subseteq Passwords
    /\ pc[t] = "kill" =>
          /\ req[t] \in RemoveRequests
          /\ StillOrGone(\E s \in Used : s # req[t].slot)
    /\ pc[t] = "reread" => req[t] \in AddRequests \cup RemoveRequests
    /\ Added(t) /\ Plain(req[t].cred) /\ Plain(req[t].new) =>
          StillOrGone(Opens(req[t].new) /\ Opens(req[t].cred))

\* The inductive invariant behind the other properties: between its first and
\* its last step nobody else writes the header a request works on; a creation
\* that fails may at most take the image away.
KeyslotInv == NeverLastSlot /\ NoKeyLeftBehind /\ \A t \in Tasks : RequestChecked(t)

\* A removal is carried out only if the credential it was made with still opens
\* the vault: it "must match a different, still-valid slot" (api.go:620-622).
RemoverKeepsAccess ==
    [][\A t \in Tasks :
        pc[t] = "kill" /\ pc'[t] = "reread" => Opens(req[t].cred)']_vars

\* A request to add a keyslot answers that it did.
Confirmed(t) ==
    /\ pc[t] = "reread" /\ req[t].op = "add"
    /\ pc'[t] = "idle" /\ answer' = "ok"

\* When an add is confirmed, the new credential opens the vault the way it was
\* given, as a password or as a key file, and the existing one still does: the
\* answer comes several steps after the slot was written.  This is so of key
\* files and of single-line passwords; of a password with a newline, which the
\* API accepts, cryptsetup is given something else than it later reads.
AddGrantsAccess ==
    [][\A t \in Tasks :
        Confirmed(t) /\ Plain(req[t].cred) /\ Plain(req[t].new)
            => Opens(req[t].new) /\ Opens(req[t].cred)]_vars

=============================================================================
