------------------------- MODULE Keyslots_proofs -------------------------
(* Theorems about Keyslots, for any slots, credentials and requests.       *)
EXTENDS Keyslots, TLAPS

Inv == TypeOK /\ KeyslotInv

LEMMA ReadTypes ==
    ASSUME NEW s \in Secrets
    PROVE  /\ AsRead(s) \in Creds /\ s.content \in Creds
           /\ \A old \in Secrets : ReadAfter(old, s) \in Creds
  BY KeyslotsAssumption DEF Secrets, Passwords, KeyFiles, AsRead, ReadAfter

\* A single-line password is read after another the way it is read alone.
LEMMA ReadAfterPlain ==
    ASSUME NEW old \in Passwords, NEW new \in Passwords, Plain(old), Plain(new)
    PROVE  ReadAfter(old, new) = AsRead(new)
  BY DEF Plain, ReadAfter, AsRead, Passwords

LEMMA SlotTypes == 0..MaxKeySlot1 \subseteq Slots /\ Capacity \subseteq Slots
  BY KeyslotsAssumption DEF Slots, Capacity

\* What ValidateKillSlot finds in a dump is so in the header.
LEMMA ValidatedSlots ==
    ASSUME TypeOK, NEW slot \in Slots, ValidateKillSlot(Dump, slot)
    PROVE  \E s \in Used : s # slot
  <1>1. PICK k \in Dump : k.status \in {"valid", "enabled"} /\ k.index # slot
    BY DEF ValidateKillSlot
  <1>2. k.index \in Used
    <2>1. CASE version = 2
      BY <1>1, <2>1 DEF Dump
    <2>2. CASE version # 2
      <3>1. PICK s \in 0..MaxKeySlot1 :
               k = [index |-> s, status |-> IF s \in Used THEN "enabled" ELSE "disabled"]
        BY <2>2 DEF Dump
      <3> QED
        BY <1>1, <3>1
    <2> QED
      BY <2>1, <2>2
  <1> QED
    BY <1>1, <1>2

\* luksAddKey leaves every credential that opened the header, and adds one.
LEMMA AddingKey ==
    ASSUME TypeOK, NEW old \in Creds, NEW new \in Creds, NEW slot,
           LuksAddKey(old, new, slot), UNCHANGED exists
    PROVE  /\ exists /\ slots' \in [Slots -> Creds \cup {NoKey}]
           /\ \E s \in Slots : slots'[s] = new
           /\ \E s \in Slots : slots'[s] = old
           /\ Used' # {}
  <1>1. PICK s \in Capacity \ Used : slots' = [slots EXCEPT ![s] = new]
    BY DEF LuksAddKey
  <1>2. PICK o \in Slots : slots[o] = old
    BY DEF LuksAddKey
  <1>3. s \in Slots /\ s \notin Used /\ o # s
    BY <1>1, <1>2, SlotTypes, KeyslotsAssumption DEF Used
  <1>4. slots'[s] = new /\ slots'[o] = old /\ slots' \in [Slots -> Creds \cup {NoKey}]
    BY <1>1, <1>2, <1>3 DEF TypeOK
  <1>5. s \in Used'
    BY <1>3, <1>4, KeyslotsAssumption DEF Used
  <1> QED
    BY <1>2, <1>3, <1>4, <1>5 DEF LuksAddKey

\* luksKillSlot, where there is another slot, leaves one that opens with the
\* credential it was given.
LEMMA KillingSlot ==
    ASSUME TypeOK, NEW cred \in Creds, NEW slot \in Slots,
           \E s \in Used : s # slot,
           LuksKillSlot(cred, slot)
    PROVE  /\ slots' \in [Slots -> Creds \cup {NoKey}]
           /\ \E s \in Slots : slots'[s] = cred
           /\ Used' # {}
  <1>1. PICK s \in Slots \ {slot} : slots[s] = cred
    BY DEF LuksKillSlot
  <1>2. slots' = [slots EXCEPT ![slot] = NoKey]
    BY DEF LuksKillSlot
  <1>3. slots'[s] = cred /\ slots' \in [Slots -> Creds \cup {NoKey}]
    BY <1>1, <1>2 DEF TypeOK
  <1>4. s \in Used'
    BY <1>1, <1>3, KeyslotsAssumption DEF Used
  <1> QED
    BY <1>1, <1>3, <1>4

-----------------------------------------------------------------------------
LEMMA InitInv == Init => Inv
  <1> SUFFICES ASSUME Init PROVE Inv
    OBVIOUS
  <1>1. slots \in [Slots -> Creds \cup {NoKey}] /\ Used # {}
    BY DEF Init, Headers, Used
  <1>2. TypeOK
    BY <1>1 DEF Init, TypeOK
  <1>3. KeyslotInv
    BY <1>1 DEF Init, KeyslotInv, NeverLastSlot, NoKeyLeftBehind, RequestChecked, Held, Added
  <1> QED
    BY <1>2, <1>3 DEF Inv

\* A step of one request, with the header as it is.
LEMMA QuietStep ==
    ASSUME Inv, UNCHANGED <<header, creating>>, NEW t \in Tasks,
           \/ Lookup(t) \/ Refused(t)
           \/ \E old \in Secrets, new \in Secrets, slot \in -1..MaxKeySlot + 1 :
                 AddStart(t, old, new, slot)
           \/ \E cred \in Secrets, slot \in Slots : RemoveStart(t, cred, slot)
           \/ WriteTemp(t) \/ WipeTemp(t) \/ RemoveTemp(t) \/ Reread(t)
    PROVE  Inv'
  <1> USE DEF Inv, KeyslotInv, NoKeyLeftBehind, RequestChecked, Held, Added, StillOrGone
  <1>0. /\ Used' = Used /\ NeverLastSlot' /\ \A s : Opens(s)' <=> Opens(s)
        /\ exists' = exists /\ creating' = creating
    BY DEF header, Used, NeverLastSlot, Opens
  <1>1. CASE Lookup(t)
    BY <1>0, <1>1 DEF Lookup, Goto, TypeOK, header, server, files
  <1>2. CASE Refused(t)
    BY <1>0, <1>2 DEF Refused, Goto, Return, TypeOK, header, server, files
  <1>3. ASSUME NEW old \in Secrets, NEW new \in Secrets, NEW slot \in -1..MaxKeySlot + 1,
               AddStart(t, old, new, slot)
        PROVE  Inv'
    <2>1. slot \in Slots \cup {-1}
      BY <1>3, KeyslotsAssumption DEF AddStart, Slots
    <2>2. req'[t] \in AddRequests /\ req'[t].cred = old /\ req'[t].new = new
      BY <1>3, <2>1 DEF AddStart, AddRequests, TypeOK
    <2>3. TypeOK'
      BY <1>3, <2>1, <2>2 DEF AddStart, Acquire, Goto, TypeOK, header, server, files, AddRequests
    <2>4. pc'[t] \in {"addkey", "temp"} /\ (pc'[t] = "addkey" => {old, new} \subseteq Passwords)
      BY <1>3 DEF AddStart, Goto, TypeOK
    <2>5. opMu = Free /\ opMu' = t /\ tmp' = tmp /\ faults' = faults
      BY <1>3 DEF AddStart, Acquire, files
    <2>6. \A u \in Tasks : u # t => pc'[u] = pc[u] /\ req'[u] = req[u] /\ pc[u] \notin Held
      BY <1>3, <2>5, KeyslotsAssumption DEF AddStart, Goto, TypeOK
    <2> QED
      BY <1>0, <2>2, <2>3, <2>4, <2>5, <2>6, KeyslotsAssumption
  <1>4. ASSUME NEW cred \in Secrets, NEW slot \in Slots, RemoveStart(t, cred, slot)
        PROVE  Inv'
    <2>1. req'[t] \in RemoveRequests /\ req'[t].slot = slot
      BY <1>4 DEF RemoveStart, RemoveRequests, TypeOK
    <2>2. TypeOK'
      BY <1>4, <2>1 DEF RemoveStart, Acquire, Goto, TypeOK, header, server, files, RemoveRequests
    <2>3. \E s \in Used : s # slot
      BY <1>4, ValidatedSlots DEF RemoveStart
    <2>4. exists /\ pc'[t] = "kill" /\ opMu = Free /\ opMu' = t /\ tmp' = tmp /\ faults' = faults
      BY <1>4 DEF RemoveStart, Acquire, Goto, TypeOK, files
    <2>5. \A u \in Tasks : u # t => pc'[u] = pc[u] /\ req'[u] = req[u] /\ pc[u] \notin Held
      BY <1>4, <2>4, KeyslotsAssumption DEF RemoveStart, Goto, TypeOK
    <2> QED
      BY <1>0, <2>1, <2>2, <2>3, <2>4, <2>5, KeyslotsAssumption
  <1>5. CASE WriteTemp(t)
    <2>1. TypeOK'
      BY <1>5 DEF WriteTemp, Goto, Return, TypeOK, header, server, files
    <2>2. CASE tmp' = tmp
      BY <1>0, <1>5, <2>1, <2>2 DEF WriteTemp, Goto, Return, TypeOK, files
    <2>3. CASE tmp' # tmp
      BY <1>0, <1>5, <2>1, <2>3 DEF WriteTemp, Goto, Return, TypeOK, files
    <2> QED
      BY <2>2, <2>3
  <1>6. CASE WipeTemp(t)
    <2>1. TypeOK'
      BY <1>6 DEF WipeTemp, Goto, TypeOK, header, server
    <2> QED
      BY <1>0, <1>6, <2>1 DEF WipeTemp, Goto, TypeOK
  <1>7. CASE RemoveTemp(t)
    <2>1. TypeOK'
      BY <1>7 DEF RemoveTemp, Goto, Return, TypeOK, header, server
    <2> QED
      BY <1>0, <1>7, <2>1 DEF RemoveTemp, Goto, Return, TypeOK
  <1>8. CASE Reread(t)
    <2>1. TypeOK'
      BY <1>8 DEF Reread, Goto, Return, TypeOK, header, server, files
    <2> QED
      BY <1>0, <1>8, <2>1 DEF Reread, Goto, Return, TypeOK, files
  <1> QED
    BY <1>1, <1>2, <1>3, <1>4, <1>5, <1>6, <1>7, <1>8

\* The steps of a request that write the header: nobody else is under opMu.
LEMMA WritingStep ==
    ASSUME Inv, NEW t \in Tasks, AddKey(t) \/ AddKeyFile(t) \/ KillSlot(t)
    PROVE  Inv'
  <1> USE DEF Inv, KeyslotInv, NoKeyLeftBehind, RequestChecked, Held, Added, StillOrGone
  <1>0. opMu = t /\ \A u \in Tasks : u # t => pc[u] \notin Held
    BY DEF AddKey, AddKeyFile, KillSlot, Goto
  <1>1. CASE AddKey(t)
    <2>1. /\ req[t] \in AddRequests /\ req[t].cred \in Secrets /\ req[t].new \in Secrets
          /\ {req[t].cred, req[t].new} \subseteq Passwords
          /\ UNCHANGED <<exists, version, row, creating, tmp, faults>>
      BY <1>1 DEF AddKey, Goto, AddRequests, server, files
    <2>2. CASE /\ Goto(t, "addkey", "reread")
               /\ LuksAddKey(AsRead(req[t].cred), ReadAfter(req[t].cred, req[t].new),
                             req[t].slot)
               /\ UNCHANGED <<opMu, req, answer>>
      <3>1. /\ exists /\ slots' \in [Slots -> Creds \cup {NoKey}]
            /\ \E s \in Slots : slots'[s] = ReadAfter(req[t].cred, req[t].new)
            /\ \E s \in Slots : slots'[s] = AsRead(req[t].cred)
            /\ Used' # {}
        BY <2>1, <2>2, AddingKey, ReadTypes
      <3>2. /\ Plain(req[t].cred) /\ Plain(req[t].new)
                  => Opens(req[t].new)' /\ Opens(req[t].cred)'
            /\ NeverLastSlot'
        BY <2>1, <2>2, <3>1, ReadAfterPlain DEF Opens, NeverLastSlot, AsRead
      <3>3. TypeOK'
        BY <2>1, <2>2, <3>1 DEF Goto, TypeOK
      <3>4. /\ pc[t] = "addkey" /\ pc' = [pc EXCEPT ![t] = "reread"]
            /\ pc \in [Tasks -> {"idle", "wait"} \cup Held]
        BY <2>2 DEF Goto, TypeOK
      <3>5. Plain(req'[t].cred) = Plain(req[t].cred) /\ Plain(req'[t].new) = Plain(req[t].new)
        BY <2>2
      <3> QED
        BY <1>0, <2>1, <2>2, <3>1, <3>2, <3>3, <3>4, <3>5
    <2>3. CASE Goto(t, "addkey", "idle") /\ Return(t, "error") /\ UNCHANGED slots
      <3>1. TypeOK' /\ NeverLastSlot'
        BY <2>1, <2>3 DEF Goto, Return, TypeOK, NeverLastSlot, Used
      <3> QED
        BY <1>0, <2>1, <2>3, <3>1 DEF Goto, Return, TypeOK
    <2> QED
      BY <1>1, <2>2, <2>3 DEF AddKey
  <1>2. CASE AddKeyFile(t)
    <2>1. /\ req[t] \in AddRequests /\ req[t].cred \in Secrets /\ req[t].new \in Secrets
          /\ UNCHANGED <<exists, version, row, creating, opMu, req, tmp, faults>>
          /\ pc[t] = "addfile" /\ pc' = [pc EXCEPT ![t] = "wipe"]
          /\ pc \in [Tasks -> {"idle", "wait"} \cup Held]
      BY <1>2 DEF AddKeyFile, Goto, AddRequests, TypeOK, server, files
    <2>2. CASE /\ LuksAddKey(req[t].cred.content, req[t].new.content, req[t].slot)
               /\ UNCHANGED answer
      <3>1. /\ exists /\ slots' \in [Slots -> Creds \cup {NoKey}]
            /\ \E s \in Slots : slots'[s] = req[t].new.content
            /\ \E s \in Slots : slots'[s] = req[t].cred.content
            /\ Used' # {}
        BY <2>1, <2>2, AddingKey, ReadTypes
      <3>2. /\ Plain(req[t].cred) /\ Plain(req[t].new)
                  => Opens(req[t].new)' /\ Opens(req[t].cred)'
            /\ NeverLastSlot'
        BY <2>1, <2>2, <3>1 DEF Opens, NeverLastSlot, AsRead, Plain
      <3>3. TypeOK'
        BY <2>1, <2>2, <3>1 DEF TypeOK
      <3>4. Plain(req'[t].cred) = Plain(req[t].cred) /\ Plain(req'[t].new) = Plain(req[t].new)
        BY <2>1
      <3> QED
        BY <1>0, <2>1, <2>2, <3>1, <3>2, <3>3, <3>4
    <2>3. CASE UNCHANGED slots /\ answer' = "error"
      <3>1. TypeOK' /\ NeverLastSlot'
        BY <2>1, <2>3 DEF TypeOK, NeverLastSlot, Used
      <3> QED
        BY <1>0, <2>1, <2>3, <3>1
    <2> QED
      BY <1>2, <2>2, <2>3 DEF AddKeyFile
  <1>3. CASE KillSlot(t)
    <2>1. /\ req[t] \in RemoveRequests /\ req[t].cred \in Secrets /\ req[t].slot \in Slots
          /\ req[t].op = "remove" /\ (exists => \E s \in Used : s # req[t].slot)
          /\ UNCHANGED <<exists, version, row, creating, tmp, faults>>
      BY <1>3 DEF KillSlot, Goto, RemoveRequests, server, files
    <2>2. CASE /\ Goto(t, "kill", "reread")
               /\ LuksKillSlot(AsRead(req[t].cred), req[t].slot)
               /\ UNCHANGED <<opMu, req, answer>>
      <3>0. AsRead(req[t].cred) \in Creds /\ \E s \in Used : s # req[t].slot
        BY <2>1, <2>2, ReadTypes DEF LuksKillSlot
      <3>1. slots' \in [Slots -> Creds \cup {NoKey}] /\ NeverLastSlot'
        BY <2>1, <2>2, <3>0, KillingSlot DEF NeverLastSlot
      <3>2. TypeOK'
        BY <2>1, <2>2, <3>1 DEF Goto, TypeOK
      <3>3. /\ pc[t] = "kill" /\ pc' = [pc EXCEPT ![t] = "reread"]
            /\ pc \in [Tasks -> {"idle", "wait"} \cup Held]
        BY <2>2 DEF Goto, TypeOK
      <3> QED
        BY <1>0, <2>1, <2>2, <3>1, <3>2, <3>3
    <2>3. CASE Goto(t, "kill", "idle") /\ Return(t, "error") /\ UNCHANGED slots
      <3>1. TypeOK' /\ NeverLastSlot'
        BY <2>1, <2>3 DEF Goto, Return, TypeOK, NeverLastSlot, Used
      <3> QED
        BY <1>0, <2>1, <2>3, <3>1 DEF Goto, Return, TypeOK
    <2> QED
      BY <1>3, <2>2, <2>3 DEF KillSlot
  <1> QED
    BY <1>1, <1>2, <1>3

\* The rest of the server.  An image appears only by a reservation or an import
\* made while no request was under opMu; a creation that fails may take it away
\* under a request, and then has no reservation to write another with.
LEMMA OtherStep ==
    ASSUME Inv,
           \/ CreateReserve \/ CreateSave \/ CreateFail \/ DeleteImage \/ ImportImage \/ Crash
           \/ \E password \in Passwords : CreateImage(password)
    PROVE  Inv'
  <1> USE DEF Inv, KeyslotInv, NoKeyLeftBehind, RequestChecked, Held, Added
  <1>0. opMu = Free => \A t \in Tasks : pc[t] \notin Held
    BY KeyslotsAssumption
  <1>1. ASSUME opMu = Free, UNCHANGED <<opMu, pc, req, answer, tmp, faults>>,
               TypeOK', NeverLastSlot'
        PROVE  Inv'
    BY <1>0, <1>1
  <1>2. UNCHANGED header \/ Unlink
            => slots' \in [Slots -> Creds \cup {NoKey}] /\ version' \in {1, 2}
               /\ exists' \in BOOLEAN /\ NeverLastSlot'
    <2>1. CASE UNCHANGED header
      <3>1. exists' = exists /\ version' = version /\ slots' = slots /\ Used' = Used
        BY <2>1 DEF header, Used
      <3> QED
        BY <3>1 DEF TypeOK, NeverLastSlot
    <2>2. CASE Unlink
      BY <2>2 DEF Unlink, NeverLastSlot
    <2> QED
      BY <2>1, <2>2
  <1>3. CASE CreateReserve
    BY <1>1, <1>2, <1>3 DEF CreateReserve, TypeOK, files
  <1>4. CASE DeleteImage
    BY <1>1, <1>2, <1>4 DEF DeleteImage, TypeOK, files
  <1>5. CASE ImportImage
    <2>1. \/ UNCHANGED <<version, slots>> /\ exists
          \/ version' \in {1, 2} /\ slots' \in Headers(version')
      BY <1>5 DEF ImportImage
    <2>2. slots' \in [Slots -> Creds \cup {NoKey}] /\ version' \in {1, 2} /\ Used' # {}
      BY <2>1 DEF TypeOK, NeverLastSlot, Headers, Used
    <2> QED
      BY <1>1, <1>5, <2>2 DEF ImportImage, TypeOK, NeverLastSlot, files
  <1>6. CASE CreateSave
    <2>1. TypeOK' /\ NeverLastSlot'
      BY <1>2, <1>6 DEF CreateSave, TypeOK, files, header
    <2>2. exists' = exists /\ slots' = slots /\ creating' = "none"
          /\ UNCHANGED <<opMu, pc, req, answer, tmp, faults>>
      BY <1>6 DEF CreateSave, header, files
    <2> QED
      BY <2>1, <2>2 DEF StillOrGone, Used, Opens
  <1>7. CASE CreateFail
    <2>1. TypeOK' /\ NeverLastSlot'
      BY <1>2, <1>7 DEF CreateFail, TypeOK, files, header
    <2>2. creating' = "none" /\ UNCHANGED <<opMu, pc, req, answer, tmp, faults>>
      BY <1>7 DEF CreateFail, files
    <2>3. CASE UNCHANGED header
      BY <2>1, <2>2, <2>3 DEF StillOrGone, Used, Opens, header
    <2>4. CASE Unlink
      BY <2>1, <2>2, <2>4 DEF StillOrGone, Unlink
    <2> QED
      BY <1>7, <2>3, <2>4 DEF CreateFail
  <1>8. ASSUME NEW password \in Passwords, CreateImage(password) PROVE Inv'
    <2>1. AsRead(password) \in Creds
      BY ReadTypes DEF Secrets
    <2>2. 0 \in Slots
      BY KeyslotsAssumption DEF Slots
    <2>3. slots' \in [Slots -> Creds \cup {NoKey}] /\ 0 \in Used'
      BY <1>8, <2>1, <2>2, KeyslotsAssumption DEF CreateImage, Used
    <2>4. TypeOK' /\ NeverLastSlot'
      BY <1>8, <2>3 DEF CreateImage, TypeOK, NeverLastSlot, files
    <2>5. ~exists /\ creating = "reserved" /\ UNCHANGED <<opMu, pc, req, answer, tmp, faults>>
      BY <1>8 DEF CreateImage, files
    <2> QED
      BY <2>4, <2>5 DEF StillOrGone
  <1>9. CASE Crash
    <2>1. TypeOK' /\ NeverLastSlot'
      BY <1>2, <1>9 DEF Crash, TypeOK, header
    <2> QED
      BY <1>9, <2>1 DEF Crash
  <1> QED
    BY <1>3, <1>4, <1>5, <1>6, <1>7, <1>8, <1>9

LEMMA NextInv == Inv /\ [Next]_vars => Inv'
  <1> SUFFICES ASSUME Inv, [Next]_vars PROVE Inv'
    OBVIOUS
  <1>1. ASSUME NEW t \in Tasks,
               \/ Lookup(t) \/ Refused(t)
               \/ \E old \in Secrets, new \in Secrets, slot \in -1..MaxKeySlot + 1 :
                     AddStart(t, old, new, slot)
               \/ \E cred \in Secrets, slot \in Slots : RemoveStart(t, cred, slot)
               \/ WriteTemp(t) \/ WipeTemp(t) \/ RemoveTemp(t) \/ Reread(t)
        PROVE  Inv'
    <2>1. UNCHANGED <<header, creating>>
      BY <1>1 DEF Lookup, Refused, AddStart, RemoveStart, WriteTemp, WipeTemp, RemoveTemp,
                  Reread, server
    <2> QED
      BY <1>1, <2>1, QuietStep
  <1>2. CASE UNCHANGED vars
    BY <1>2 DEF vars, header, server, files, Inv, KeyslotInv, NoKeyLeftBehind, RequestChecked,
                Held, Added, StillOrGone, TypeOK, NeverLastSlot, Used, Opens
  <1> QED
    BY <1>1, <1>2, WritingStep, OtherStep DEF Next

-----------------------------------------------------------------------------
RequestStep(t) ==
    \/ Lookup(t) \/ Refused(t)
    \/ \E old \in Secrets, new \in Secrets, slot \in -1..MaxKeySlot + 1 :
          AddStart(t, old, new, slot)
    \/ \E cred \in Secrets, slot \in Slots : RemoveStart(t, cred, slot)
    \/ AddKey(t) \/ WriteTemp(t) \/ AddKeyFile(t) \/ WipeTemp(t) \/ RemoveTemp(t)
    \/ KillSlot(t) \/ Reread(t)

\* Only its own steps and a kill move a request.
LEMMA MovingRequest ==
    ASSUME TypeOK, [Next]_vars, NEW t \in Tasks, pc'[t] # pc[t]
    PROVE  Crash \/ RequestStep(t)
  <1>1. ASSUME NEW u \in Tasks, RequestStep(u), u # t PROVE FALSE
    <2>1. PICK from, to : Goto(u, from, to)
      BY <1>1 DEF RequestStep, Lookup, Refused, AddStart, RemoveStart, AddKey, WriteTemp,
                  AddKeyFile, WipeTemp, RemoveTemp, KillSlot, Reread
    <2> QED
      BY <1>1, <2>1 DEF Goto, TypeOK
  <1>2. CASE \E u \in Tasks : RequestStep(u)
    BY <1>1, <1>2
  <1>3. CASE UNCHANGED pc
    BY <1>3
  <1>4. CASE \E password \in Passwords : CreateImage(password)
    BY <1>3, <1>4 DEF CreateImage
  <1>5. CASE CreateReserve \/ CreateSave \/ CreateFail \/ DeleteImage \/ ImportImage
    BY <1>3, <1>5 DEF CreateReserve, CreateSave, CreateFail, DeleteImage, ImportImage
  <1>6. CASE UNCHANGED vars
    BY <1>3, <1>6 DEF vars
  <1> QED
    BY <1>2, <1>4, <1>5, <1>6 DEF Next, RequestStep

-----------------------------------------------------------------------------
\* Every variable has its type, and what a request past its checks relies on
\* still holds, for every number of slots, credentials and requests: nobody else
\* writes the header, a failing creation may only take the image away.
THEOREM KeyslotsInvariant == Spec => [](TypeOK /\ KeyslotInv)
  <1>1. Inv <=> TypeOK /\ KeyslotInv
    BY DEF Inv
  <1> QED
    BY <1>1, InitInv, NextInv, PTL DEF Spec

\* Every variable keeps its type, the header's slots among them.
THEOREM KeyslotTypes == Spec => []TypeOK
  BY KeyslotsInvariant, PTL

\* No sequence of removals, racing or not, takes the last keyslot of an image.
THEOREM LastSlotSafe == Spec => []NeverLastSlot
  <1>1. KeyslotInv => NeverLastSlot
    BY DEF KeyslotInv
  <1> QED
    BY <1>1, KeyslotsInvariant, PTL

\* Key material stays in a temporary file only after a kill, or after both the
\* overwriting and the removal of the file failed.
THEOREM TempFilesWiped == Spec => []NoKeyLeftBehind
  <1>1. KeyslotInv => NoKeyLeftBehind
    BY DEF KeyslotInv
  <1> QED
    BY <1>1, KeyslotsInvariant, PTL

\* Whoever removes a keyslot can still open the vault.
THEOREM RemovalSafe == Spec => RemoverKeepsAccess
  <1> DEFINE A == \A t \in Tasks : pc[t] = "kill" /\ pc'[t] = "reread" => Opens(req[t].cred)'
  <1>1. ASSUME Inv, [Next]_vars PROVE [A]_vars
    <2> SUFFICES ASSUME NEW t \in Tasks, pc[t] = "kill", pc'[t] = "reread"
                 PROVE  Opens(req[t].cred)'
      OBVIOUS
    <2>1. KillSlot(t)
      <3>1. TypeOK /\ RequestStep(t)
        BY <1>1, MovingRequest DEF Inv, Crash
      <3> QED
        BY <3>1 DEF RequestStep, Lookup, Refused, AddStart, RemoveStart, AddKey, WriteTemp,
                    AddKeyFile, WipeTemp, RemoveTemp, Reread, Goto, TypeOK
    <2>2. /\ LuksKillSlot(AsRead(req[t].cred), req[t].slot)
          /\ UNCHANGED <<exists, req>>
      BY <1>1, <2>1 DEF KillSlot, Goto, Inv, TypeOK
    <2>3. /\ TypeOK /\ exists /\ req[t].cred \in Secrets /\ req[t].slot \in Slots
          /\ \E s \in Used : s # req[t].slot
      BY <1>1, <2>2 DEF Inv, KeyslotInv, RequestChecked, RemoveRequests, StillOrGone, Held,
                        LuksKillSlot
    <2>4. \E s \in Slots : slots'[s] = AsRead(req[t].cred)
      BY <2>2, <2>3, KillingSlot, ReadTypes
    <2> QED
      BY <2>2, <2>3, <2>4 DEF Opens, AsRead
  <1> QED
    BY <1>1, InitInv, NextInv, PTL DEF Spec, RemoverKeepsAccess

\* A confirmed add left a vault that the new credential, and the old one, open,
\* where both are key files or single-line passwords.
THEOREM AddingGrants == Spec => AddGrantsAccess
  <1> DEFINE A == \A t \in Tasks :
                    Confirmed(t) /\ Plain(req[t].cred) /\ Plain(req[t].new)
                        => Opens(req[t].new) /\ Opens(req[t].cred)
  <1>1. ASSUME Inv, [Next]_vars PROVE [A]_vars
    <2> SUFFICES ASSUME NEW t \in Tasks, Confirmed(t), Plain(req[t].cred), Plain(req[t].new)
                 PROVE  Opens(req[t].new) /\ Opens(req[t].cred)
      OBVIOUS
    <2>0. exists
      <3>1. RequestStep(t)
        BY <1>1, MovingRequest DEF Confirmed, Inv, Crash
      <3>2. Reread(t)
        BY <3>1 DEF Confirmed, RequestStep, Lookup, Refused, AddStart, RemoveStart, AddKey,
                    WriteTemp, AddKeyFile, WipeTemp, RemoveTemp, KillSlot, Goto
      <3> QED
        BY <3>2 DEF Confirmed, Reread, Return
    <2>1. exists => Opens(req[t].new) /\ Opens(req[t].cred)
      BY <1>1 DEF Inv, KeyslotInv, RequestChecked, Added, Confirmed, StillOrGone
    <2> QED
      BY <2>0, <2>1
  <1> QED
    BY <1>1, InitInv, NextInv, PTL DEF Spec, AddGrantsAccess

=============================================================================
