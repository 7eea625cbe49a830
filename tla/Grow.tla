------------------------------- MODULE Grow -------------------------------
(***************************************************************************)
(* Growing a vault: POST /api/vaults/{id}/grow.  Four sizes have to move   *)
(* together: the image file, the device cryptsetup maps on it, the ext4    *)
(* filesystem in the device, and the size_gb of the record.  Each step may *)
(* fail on its own and the request is then simply repeated.                *)
(*                                                                         *)
(* One vault; sizes are in units, UnitsPerMiB to a MiB, so that an image   *)
(* need not be a whole number of MiB.  The LUKS header is not counted.     *)
(***************************************************************************)
EXTENDS Naturals

CONSTANTS
    Tasks,          \* concurrent grow requests
    MaxGB,          \* VAULT_MAX_SIZE_GB
    UnitsPerMiB,
    MiBPerGB,
    ImageSizes,     \* the sizes, in units, the image may have at first
    Storages,       \* of TRUE and FALSE: does the storage support fallocate
    MaxImage,       \* bound: no image grows past this many units
    Free            \* opMu is not held

GB == UnitsPerMiB * MiBPerGB

ASSUME GrowAssumption ==
    /\ MaxGB \in Nat \ {0} /\ UnitsPerMiB \in Nat \ {0} /\ MiBPerGB \in Nat \ {0}
    /\ ImageSizes \subseteq Nat \ {0}
    /\ Storages \subseteq BOOLEAN
    /\ MaxImage \in Nat
    /\ Free \notin Tasks

VARIABLES
    fallocates, \* the storage filesystem supports fallocate; never changes
    record,   \* size_gb of the record, in GB
    image,    \* size of the image file, in units
    device,   \* size of the mapped device when the vault is open
    fs,       \* size of the filesystem
    open,     \* the vault is unlocked and mounted
    damaged,  \* part of the filesystem was overwritten
    opMu,     \* handler.opMu
    pc,
    req,      \* size_gb of each request
    copy      \* v.SizeGB as each request read it

sizes == <<record, image, device, fs>>
tasks == <<opMu, pc, req, copy>>
vars  == <<fallocates, sizes, open, damaged, tasks>>

Larger(a, b) == IF a >= b THEN a ELSE b

\* importVault's size: the file rounded up to GB.
CeilGB(units) == (units + GB - 1) \div GB

Init ==
    /\ fallocates \in Storages
    /\ image \in ImageSizes
    /\ record = CeilGB(image)
    /\ device = image /\ fs = image
    /\ open \in BOOLEAN
    /\ damaged = FALSE
    /\ opMu = Free
    /\ pc = [t \in Tasks |-> "idle"]
    /\ req = [t \in Tasks |-> 0]
    /\ copy = [t \in Tasks |-> 0]

-----------------------------------------------------------------------------
Goto(t, from, to) == pc[t] = from /\ pc' = [pc EXCEPT ![t] = to]

\* The handler returns: its deferred unlock runs.
Return(t) ==
    /\ opMu' = Free
    /\ req' = [req EXCEPT ![t] = 0]
    /\ copy' = [copy EXCEPT ![t] = 0]

\* The size cap is checked, and the row read, before opMu is taken.
GrowLookup(t, gb) ==
    /\ Goto(t, "idle", "wait")
    /\ gb <= MaxGB
    /\ req' = [req EXCEPT ![t] = gb]
    /\ copy' = [copy EXCEPT ![t] = record]
    /\ UNCHANGED <<sizes, open, damaged, opMu>>

\* Bug: the row read before opMu is used under it.
GrowCheckStale(t) ==
    /\ Goto(t, "wait", "extend")
    /\ opMu = Free /\ opMu' = t
    /\ open
    /\ req[t] > copy[t]
    /\ UNCHANGED <<sizes, open, damaged, req, copy>>

\* The row is read again under opMu; grow only.
GrowCheck(t) ==
    /\ Goto(t, "wait", "extend")
    /\ opMu = Free /\ opMu' = t
    /\ open
    /\ req[t] > record
    /\ copy' = [copy EXCEPT ![t] = record]
    /\ UNCHANGED <<sizes, open, damaged, req>>

\* Not open, not larger, too little space, or a database error.
GrowRefused(t) ==
    /\ Goto(t, "wait", "idle") /\ opMu = Free /\ Return(t)
    /\ UNCHANGED <<sizes, open, damaged>>

\* fallocate -l never shrinks a file.
FallocateImage(t) ==
    /\ fallocates
    /\ Goto(t, "extend", "resize")
    /\ image' = Larger(image, req[t] * GB)
    /\ image' <= MaxImage
    /\ UNCHANGED <<record, device, fs, open, damaged, opMu, req, copy>>

\* Bug: dd starts where the record says the image ends.
DdStartFromRecord == record * GB

\* Where dd starts and, if it is not cut short, ends.
DdStart == (image \div UnitsPerMiB) * UnitsPerMiB

DdEnd(t) == DdStart + (req[t] - copy[t]) * GB

\* Bug: without conv=notrunc dd cuts the file off where it starts.
AppendFileTruncates(t) ==
    /\ \E end \in DdStart..DdEnd(t) :
        /\ end <= MaxImage
        /\ image' = end
        /\ damaged' = (damaged \/ DdStart < fs)
        /\ \/ /\ end = DdEnd(t)
              /\ Goto(t, "extend", "resize")
              /\ UNCHANGED <<opMu, req, copy>>
           \/ Goto(t, "extend", "idle") /\ Return(t)
    /\ UNCHANGED <<record, device, fs, open>>

\* fallocate failed, as it may even where it is supported: appendFile writes
\* zeros from DdStart, up to DdEnd, or to anywhere before it when dd fails or
\* is killed.
AppendFile(t) ==
    /\ \E end \in DdStart..DdEnd(t) :
        /\ end <= MaxImage
        /\ image' = Larger(image, end)
        /\ damaged' = (damaged \/ (DdStart < fs /\ DdStart < end))
        /\ \/ /\ end = DdEnd(t)
              /\ Goto(t, "extend", "resize")
              /\ UNCHANGED <<opMu, req, copy>>
           \/ Goto(t, "extend", "idle") /\ Return(t)
    /\ UNCHANGED <<record, device, fs, open>>

\* Bug: resize2fs is started although cryptsetup resize failed.
GrowDeviceIgnoringErrors(t) ==
    /\ Goto(t, "resize", "fs")
    /\ device' = image \/ UNCHANGED device
    /\ UNCHANGED <<record, image, fs, open, damaged, opMu, req, copy>>

\* cryptsetup resize makes the device as large as the image.
GrowDevice(t) ==
    /\ \/ Goto(t, "resize", "fs") /\ device' = image /\ UNCHANGED <<opMu, req, copy>>
       \/ Goto(t, "resize", "idle") /\ Return(t) /\ UNCHANGED device
    /\ UNCHANGED <<record, image, fs, open, damaged>>

GrowFilesystem(t) ==
    /\ \/ Goto(t, "fs", "record") /\ fs' = device /\ UNCHANGED <<opMu, req, copy>>
       \/ Goto(t, "fs", "idle") /\ Return(t) /\ UNCHANGED fs
    /\ UNCHANGED <<record, image, device, open, damaged>>

\* UpdateVaultSize; its failure is reported and the request still over.
GrowRecord(t) ==
    /\ Goto(t, "record", "idle") /\ Return(t)
    /\ record' = req[t] \/ UNCHANGED record
    /\ UNCHANGED <<image, device, fs, open, damaged>>

\* The other handlers, which hold opMu throughout: lock, and unlock, which maps
\* the image as large as it is then.
LockVault ==
    /\ open /\ opMu = Free
    /\ open' = FALSE
    /\ UNCHANGED <<sizes, damaged, tasks>>

UnlockVault ==
    /\ ~open /\ opMu = Free
    /\ open' = TRUE
    /\ device' = image
    /\ UNCHANGED <<record, image, fs, damaged, tasks>>

Next ==
    /\ UNCHANGED fallocates
    /\ \/ \E t \in Tasks :
           \/ \E gb \in 1..MaxGB : GrowLookup(t, gb)
           \/ GrowCheck(t) \/ GrowRefused(t)
           \/ FallocateImage(t) \/ AppendFile(t)
           \/ GrowDevice(t) \/ GrowFilesystem(t) \/ GrowRecord(t)
       \/ LockVault
       \/ UnlockVault

Spec == Init /\ [][Next]_vars

-----------------------------------------------------------------------------
GrowPcs == {"extend", "resize", "fs", "record"}

TypeOK ==
    /\ record \in Nat /\ image \in Nat /\ device \in Nat /\ fs \in Nat
    /\ open \in BOOLEAN /\ damaged \in BOOLEAN
    /\ opMu \in Tasks \cup {Free}
    /\ pc \in [Tasks -> {"idle", "wait"} \cup GrowPcs]
    /\ req \in [Tasks -> 0..MaxGB] /\ copy \in [Tasks -> Nat]

\* The filesystem always fits the device and the device the image, whichever
\* steps of however many grows failed: resize.go:29-33 calls every failure
\* state recoverable.
SizesNested == fs <= device /\ device <= image

\* dd only writes after the current content (resize.go:71-72): where dd is the
\* only way to extend an image, no byte of the filesystem is overwritten.
DataIntact == ~fallocates => ~damaged

\* The inductive invariant behind SizesNested and GrowOnly: a request past its
\* checks holds opMu, the vault is open, and the record is still the one it read.
GrowInv ==
    /\ TypeOK
    /\ SizesNested
    /\ \A t \in Tasks : pc[t] \in GrowPcs =>
            opMu = t /\ open /\ copy[t] = record /\ req[t] > record

\* Grow only (api.go:868-871, resize.go:25-27): no size ever shrinks, the
\* recorded one included, although requests with different sizes race.
GrowOnly ==
    [][/\ record' >= record /\ image' >= image /\ fs' >= fs]_vars

\* When the record is updated, all three sizes agree and the filesystem has
\* the size the record announces.
GrowDelivers ==
    [][record' # record => /\ image' = device' /\ device' = fs'
                           /\ fs' >= record' * GB]_vars

=============================================================================
