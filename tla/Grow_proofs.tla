--------------------------- MODULE Grow_proofs ---------------------------
(* Theorems about Grow, for every image size, unit and number of requests. *)
EXTENDS Grow, Integers, TLAPS

LEMMA UnitTypes == GB \in Nat
  BY GrowAssumption DEF GB

\* Neither way of extending the image makes it shorter.
LEMMA LargerTypes ==
    ASSUME NEW a \in Nat, NEW b \in Int
    PROVE  Larger(a, b) \in Nat /\ Larger(a, b) >= a
  BY DEF Larger

LEMMA DdTypes ==
    ASSUME TypeOK
    PROVE  DdStart \in Int /\ \A t \in Tasks : DdEnd(t) \in Int
  BY UnitTypes, GrowAssumption DEF TypeOK, DdStart, DdEnd

LEMMA InitGrow == Init => GrowInv
  <1> SUFFICES ASSUME Init PROVE GrowInv
    OBVIOUS
  <1>1. GB \in Nat /\ GB > 0
    BY GrowAssumption DEF GB
  <1>2. image \in Nat
    BY GrowAssumption DEF Init
  <1>3. record \in Nat
    BY <1>1, <1>2 DEF Init, CeilGB
  <1>4. TypeOK
    <2>1. open \in BOOLEAN /\ damaged \in BOOLEAN
      BY Zenon DEF Init
    <2>2. pc \in [Tasks -> {"idle", "wait"} \cup GrowPcs]
      BY DEF Init
    <2>3. req \in [Tasks -> 0..MaxGB] /\ copy \in [Tasks -> Nat]
      BY GrowAssumption DEF Init
    <2> QED
      BY <1>2, <1>3, <2>1, <2>2, <2>3 DEF Init, TypeOK
  <1> QED
    BY <1>2, <1>4 DEF Init, GrowInv, SizesNested, GrowPcs

\* One step of any request, or a lock or unlock between them, preserves the
\* invariant and shrinks nothing.
LEMMA NextGrow ==
    ASSUME GrowInv, [Next]_vars
    PROVE  GrowInv' /\ record' >= record /\ image' >= image /\ fs' >= fs
  <1> DEFINE Goal == GrowInv' /\ record' >= record /\ image' >= image /\ fs' >= fs
  <1> USE GrowAssumption DEF GrowInv, TypeOK, SizesNested, GrowPcs, sizes, tasks
  <1>1. ASSUME NEW t \in Tasks, NEW gb \in 1..MaxGB, GrowLookup(t, gb) PROVE Goal
    BY <1>1 DEF GrowLookup, Goto
  <1>2. ASSUME NEW t \in Tasks, GrowCheck(t) PROVE Goal
    BY <1>2 DEF GrowCheck, Goto
  <1>3. ASSUME NEW t \in Tasks, GrowRefused(t) PROVE Goal
    BY <1>3 DEF GrowRefused, Goto, Return
  <1>4. ASSUME NEW t \in Tasks, FallocateImage(t) PROVE Goal
    <2>1. req[t] * GB \in Int
      BY UnitTypes
    <2>2. image' \in Nat /\ image' >= image
      BY <1>4, <2>1, LargerTypes DEF FallocateImage
    <2> QED
      BY <1>4, <2>2 DEF FallocateImage, Goto
  <1>5. ASSUME NEW t \in Tasks, AppendFile(t) PROVE Goal
    <2>1. image' \in Nat /\ image' >= image
      BY <1>5, DdTypes, LargerTypes DEF AppendFile
    <2>2. damaged' \in BOOLEAN
      BY <1>5 DEF AppendFile
    <2> QED
      BY <1>5, <2>1, <2>2 DEF AppendFile, Goto, Return
  <1>6. ASSUME NEW t \in Tasks, GrowDevice(t) PROVE Goal
    BY <1>6 DEF GrowDevice, Goto, Return
  <1>7. ASSUME NEW t \in Tasks, GrowFilesystem(t) PROVE Goal
    BY <1>7 DEF GrowFilesystem, Goto, Return
  <1>8. ASSUME NEW t \in Tasks, GrowRecord(t) PROVE Goal
    BY <1>8 DEF GrowRecord, Goto, Return
  <1>9. CASE LockVault
    <2>1. open' \in BOOLEAN /\ opMu = Free /\ UNCHANGED <<sizes, damaged, tasks>>
      BY <1>9, Zenon DEF LockVault
    <2>2. \A t \in Tasks : pc'[t] \notin GrowPcs
      BY <2>1
    <2> QED
      BY <2>1, <2>2
  <1>10. CASE UnlockVault
    BY <1>10 DEF UnlockVault
  <1>11. CASE UNCHANGED vars
    BY <1>11 DEF vars
  <1> QED
    BY <1>1, <1>2, <1>3, <1>4, <1>5, <1>6, <1>7, <1>8, <1>9, <1>10, <1>11 DEF Next

\* The inductive invariant holds: a request past its checks works, under opMu,
\* on an open vault whose record nobody changed since it was read.
THEOREM GrowInvariant == Spec => []GrowInv
  BY InitGrow, NextGrow, PTL DEF Spec

\* The filesystem fits the device and the device the image after any sequence of
\* grows, however they fail.
THEOREM NestedSizes == Spec => []SizesNested
  <1>1. GrowInv => SizesNested
    BY DEF GrowInv
  <1> QED
    BY <1>1, GrowInvariant, PTL

\* Grow never shrinks an image, a filesystem or a recorded size.
THEOREM NeverShrinks == Spec => GrowOnly
  BY InitGrow, NextGrow, PTL DEF Spec, GrowOnly

-----------------------------------------------------------------------------
(* Whole MiB.                                                              *)

\* The images this server makes are whole GB.  An imported one need not be a
\* whole MiB, and then dd does overwrite its end.
WholeMiB == \A i \in ImageSizes : \E k \in Nat : i = k * UnitsPerMiB
WholeGB  == \A i \in ImageSizes : \E k \in Nat : i = k * GB

Whole(n) == \E k \in Nat : n = k * UnitsPerMiB

LEMMA DivFloor ==
    ASSUME NEW n \in Nat
    PROVE  /\ n \div UnitsPerMiB \in Nat
           /\ (n \div UnitsPerMiB) * UnitsPerMiB <= n
           /\ n < (n \div UnitsPerMiB) * UnitsPerMiB + UnitsPerMiB
  BY GrowAssumption, Z3

\* dd starts at the last whole MiB of the image, not before what ends on one.
LEMMA WholeBelowStart ==
    ASSUME NEW k \in Nat, NEW n \in Nat, k * UnitsPerMiB <= n
    PROVE  k * UnitsPerMiB <= (n \div UnitsPerMiB) * UnitsPerMiB
  <1> DEFINE q == n \div UnitsPerMiB
  <1>1. q \in Nat /\ n < q * UnitsPerMiB + UnitsPerMiB
    BY DivFloor
  <1> HIDE DEF q
  <1>2. ASSUME k >= q + 1 PROVE FALSE
    <2>1. (q + 1) * UnitsPerMiB <= k * UnitsPerMiB
      BY <1>1, <1>2, GrowAssumption, Z3
    <2>2. (q + 1) * UnitsPerMiB = q * UnitsPerMiB + UnitsPerMiB
      BY <1>1, GrowAssumption, Z3
    <2> QED
      BY <1>1, <2>1, <2>2, GrowAssumption
  <1>3. k <= q
    BY <1>1, <1>2
  <1>4. k * UnitsPerMiB <= q * UnitsPerMiB
    BY <1>1, <1>3, GrowAssumption, Z3
  <1> QED
    BY <1>4 DEF q

LEMMA GBWhole == GB \in Nat /\ GB >= UnitsPerMiB /\ GB = MiBPerGB * UnitsPerMiB
  BY GrowAssumption, Z3 DEF GB

\* Where dd starts, and where a dd that is not cut short ends: on a whole MiB,
\* past the image, with every GB of the difference after what was there.
LEMMA DdWhole ==
    ASSUME TypeOK, NEW t \in Tasks, req[t] > copy[t]
    PROVE  /\ DdStart \in Nat /\ DdStart <= image
           /\ DdEnd(t) \in Nat /\ Whole(DdEnd(t)) /\ DdEnd(t) > image
  <1> DEFINE q == image \div UnitsPerMiB
             d == req[t] - copy[t]
  <1>1. q \in Nat /\ q * UnitsPerMiB <= image /\ image < q * UnitsPerMiB + UnitsPerMiB
    BY DivFloor DEF TypeOK
  <1>2. DdStart = q * UnitsPerMiB /\ DdEnd(t) = q * UnitsPerMiB + d * GB
    BY DEF DdStart, DdEnd
  <1>3. d \in Nat /\ d >= 1
    BY GrowAssumption DEF TypeOK
  <1> HIDE DEF q, d
  <1>4. q * UnitsPerMiB \in Nat /\ d * GB \in Nat /\ d * GB >= GB
    BY <1>1, <1>3, GBWhole, GrowAssumption, Z3
  <1>5. d * GB = (d * MiBPerGB) * UnitsPerMiB /\ d * MiBPerGB \in Nat
    BY <1>3, GBWhole, GrowAssumption, Z3
  <1>6. DdEnd(t) = (q + d * MiBPerGB) * UnitsPerMiB /\ q + d * MiBPerGB \in Nat
    <2> DEFINE m == d * MiBPerGB
    <2> HIDE DEF m
    <2>1. (q + m) * UnitsPerMiB = q * UnitsPerMiB + m * UnitsPerMiB
      BY <1>1, <1>5, GrowAssumption, Z3 DEF m
    <2> QED
      BY <1>1, <1>2, <1>5, <2>1 DEF m
  <1>7. Whole(DdEnd(t))
    BY <1>6 DEF Whole
  <1> QED
    BY <1>1, <1>2, <1>4, <1>7, GBWhole, GrowAssumption DEF TypeOK

-----------------------------------------------------------------------------
(* dd overwrites nothing.                                                  *)

\* The filesystem ends on a whole MiB, and what it is about to grow to does.  A
\* dd that was cut short leaves an image that does not: a filesystem never grows
\* to that, as the dd of the grow that succeeds ends on a whole MiB again.
DataInv ==
    ~fallocates =>
        /\ ~damaged /\ Whole(fs)
        /\ \A t \in Tasks : /\ pc[t] = "resize" => Whole(image)
                            /\ pc[t] = "fs" => Whole(device)

LEMMA InitData == ASSUME WholeMiB PROVE Init => DataInv
  BY DEF WholeMiB, Init, DataInv, Whole

LEMMA NextData == GrowInv /\ DataInv /\ [Next]_vars => DataInv'
  <1> SUFFICES ASSUME GrowInv, DataInv, [Next]_vars, ~fallocates PROVE DataInv'
    BY DEF DataInv, Next, vars
  <1> USE DEF DataInv
  <1>0. UNCHANGED fallocates /\ TypeOK /\ SizesNested
    BY DEF Next, vars, GrowInv
  <1>1. ASSUME NEW t \in Tasks, NEW gb \in 1..MaxGB, GrowLookup(t, gb) PROVE DataInv'
    BY <1>0, <1>1 DEF GrowLookup, Goto, TypeOK, sizes
  <1>2. ASSUME NEW t \in Tasks, GrowCheck(t) PROVE DataInv'
    BY <1>0, <1>2 DEF GrowCheck, Goto, TypeOK, sizes
  <1>3. ASSUME NEW t \in Tasks, GrowRefused(t) PROVE DataInv'
    BY <1>0, <1>3 DEF GrowRefused, Goto, TypeOK, sizes
  <1>4. ASSUME NEW t \in Tasks, AppendFile(t) PROVE DataInv'
    <2>1. pc[t] = "extend" /\ UNCHANGED <<record, device, fs, open>>
      BY <1>4 DEF AppendFile, Goto
    <2>2. opMu = t /\ req[t] > copy[t] /\ \A u \in Tasks : u # t => pc[u] \notin GrowPcs
      BY <2>1 DEF GrowInv, GrowPcs
    <2>3. /\ DdStart \in Nat /\ DdEnd(t) \in Nat
          /\ Whole(DdEnd(t)) /\ DdEnd(t) > image
      BY <1>0, <2>2, DdWhole
    <2>4. fs <= DdStart
      BY <1>0, WholeBelowStart DEF Whole, TypeOK, SizesNested, DdStart
    <2>5. PICK end \in DdStart..DdEnd(t) :
             /\ image' = Larger(image, end)
             /\ damaged' = (damaged \/ (DdStart < fs /\ DdStart < end))
             /\ \/ end = DdEnd(t) /\ Goto(t, "extend", "resize")
                \/ Goto(t, "extend", "idle")
      BY <1>4 DEF AppendFile
    <2>6. ~damaged'
      BY <1>0, <2>3, <2>4, <2>5 DEF TypeOK
    <2>7. pc'[t] = "resize" => image' = DdEnd(t)
      BY <1>0, <2>3, <2>5 DEF Goto, TypeOK, Larger
    <2>8. pc'[t] \in {"resize", "idle"} /\ \A u \in Tasks : u # t => pc'[u] = pc[u]
      BY <1>0, <2>5 DEF Goto, TypeOK
    <2> QED
      BY <1>0, <2>1, <2>2, <2>3, <2>6, <2>7, <2>8 DEF GrowPcs
  <1>5. ASSUME NEW t \in Tasks, GrowDevice(t) PROVE DataInv'
    BY <1>0, <1>5 DEF GrowDevice, Goto, TypeOK, GrowInv, GrowPcs
  <1>6. ASSUME NEW t \in Tasks, GrowFilesystem(t) PROVE DataInv'
    BY <1>0, <1>6 DEF GrowFilesystem, Goto, TypeOK
  <1>7. ASSUME NEW t \in Tasks, GrowRecord(t) PROVE DataInv'
    BY <1>0, <1>7 DEF GrowRecord, Goto, TypeOK
  <1>8. CASE LockVault
    BY <1>0, <1>8 DEF LockVault, sizes, tasks
  <1>9. CASE UnlockVault
    BY <1>0, <1>9, GrowAssumption DEF UnlockVault, tasks, GrowInv, GrowPcs
  <1>10. CASE UNCHANGED vars
    BY <1>10 DEF vars, sizes, tasks
  <1> QED
    BY <1>1, <1>2, <1>3, <1>4, <1>5, <1>6, <1>7, <1>8, <1>9, <1>10 DEF Next, FallocateImage

\* Where the images were whole MiB to begin with, no sequence of grows that
\* extend with dd, cut short or not, overwrites a byte of a filesystem.
THEOREM DataSafe == ASSUME WholeMiB PROVE Spec => []DataIntact
  <1>1. DataInv => DataIntact
    BY DEF DataInv, DataIntact
  <1> QED
    BY <1>1, InitData, NextData, GrowInvariant, PTL DEF Spec

-----------------------------------------------------------------------------
(* What is recorded is delivered.                                          *)

\* The image is never smaller than recorded, and after each of its steps a grow
\* has brought one more of the sizes to what was asked for.
SizedInv ==
    /\ image >= record * GB
    /\ \A t \in Tasks :
          /\ pc[t] \in {"resize", "fs", "record"} => image >= req[t] * GB
          /\ pc[t] \in {"fs", "record"} => device = image
          /\ pc[t] = "record" => fs = device

\* An image of whole GB is recorded with its own size.
LEMMA CeilWhole == ASSUME NEW k \in Nat PROVE CeilGB(k * GB) = k
  <1>1. GB \in Nat /\ GB >= 1
    BY GBWhole, GrowAssumption
  <1>2. k * GB \in Nat
    BY <1>1, Z3
  <1> DEFINE q == (k * GB + GB - 1) \div GB
  <1>3. q \in Int /\ q * GB <= k * GB + GB - 1 /\ k * GB + GB - 1 < q * GB + GB
    BY <1>1, <1>2, Z3
  <1> HIDE DEF q
  <1>4. ASSUME q <= k - 1 PROVE FALSE
    <2>1. q * GB + GB <= k * GB
      BY <1>1, <1>3, <1>4, Z3
    <2> QED
      BY <1>1, <1>2, <1>3, <2>1
  <1>5. ASSUME q >= k + 1 PROVE FALSE
    <2>1. q * GB >= k * GB + GB
      BY <1>1, <1>3, <1>5, Z3
    <2> QED
      BY <1>1, <1>2, <1>3, <2>1
  <1>6. q = k
    BY <1>3, <1>4, <1>5
  <1> QED
    BY <1>6 DEF q, CeilGB

LEMMA InitSized == ASSUME WholeGB PROVE Init => SizedInv
  <1> SUFFICES ASSUME Init PROVE SizedInv
    OBVIOUS
  <1>1. PICK k \in Nat : image = k * GB
    BY DEF Init, WholeGB
  <1>2. record = k
    BY <1>1, CeilWhole DEF Init
  <1>3. k * GB \in Nat
    BY <1>1, GBWhole, Z3
  <1> QED
    BY <1>1, <1>2, <1>3 DEF Init, SizedInv

\* A step keeps SizedInv, and updates the record only when all is delivered.
LEMMA NextSized ==
    ASSUME GrowInv, SizedInv, [Next]_vars
    PROVE  /\ SizedInv'
           /\ record' # record => /\ image' = device' /\ device' = fs'
                                  /\ fs' >= record' * GB
  <1> DEFINE Goal == /\ SizedInv'
                     /\ record' # record => /\ image' = device' /\ device' = fs'
                                            /\ fs' >= record' * GB
  <1> USE DEF SizedInv
  <1>0. TypeOK /\ SizesNested /\ GB \in Nat
    BY GBWhole DEF GrowInv
  <1>a. record * GB \in Nat /\ \A t \in Tasks : req[t] * GB \in Nat
    BY <1>0, Z3 DEF TypeOK
  <1>1. ASSUME NEW t \in Tasks, NEW gb \in 1..MaxGB, GrowLookup(t, gb) PROVE Goal
    BY <1>0, <1>1 DEF GrowLookup, Goto, TypeOK, sizes
  <1>2. ASSUME NEW t \in Tasks, GrowCheck(t) PROVE Goal
    BY <1>0, <1>2 DEF GrowCheck, Goto, TypeOK, sizes
  <1>3. ASSUME NEW t \in Tasks, GrowRefused(t) PROVE Goal
    BY <1>0, <1>3 DEF GrowRefused, Goto, Return, TypeOK, sizes
  <1>4. ASSUME NEW t \in Tasks, FallocateImage(t) PROVE Goal
    <2>1. pc[t] = "extend" /\ pc' = [pc EXCEPT ![t] = "resize"]
          /\ UNCHANGED <<record, device, fs, opMu, req, copy>>
      BY <1>4 DEF FallocateImage, Goto
    <2>2. image' >= image /\ image' >= req[t] * GB /\ image' \in Nat
      BY <1>0, <1>4, <1>a DEF FallocateImage, Larger, TypeOK
    <2>3. \A u \in Tasks : u # t => pc'[u] \notin GrowPcs
      BY <1>0, <2>1 DEF GrowInv, GrowPcs, TypeOK
    <2>4. pc'[t] = "resize"
      BY <1>0, <2>1 DEF TypeOK
    <2> QED
      BY <1>0, <1>a, <2>1, <2>2, <2>3, <2>4 DEF GrowPcs, TypeOK
  <1>5. ASSUME NEW t \in Tasks, AppendFile(t) PROVE Goal
    <2>1. pc[t] = "extend" /\ UNCHANGED <<record, device, fs>>
      BY <1>5 DEF AppendFile, Goto
    <2>2. /\ req[t] > record /\ copy[t] = record
          /\ \A u \in Tasks : u # t => pc[u] \notin GrowPcs
      BY <2>1 DEF GrowInv, GrowPcs
    <2>3. DdStart \in Nat /\ DdEnd(t) \in Nat /\ DdEnd(t) > image
      BY <1>0, <2>2, DdWhole
    <2>4. DdStart >= record * GB
      <3>1. record * GB = (record * MiBPerGB) * UnitsPerMiB /\ record * MiBPerGB \in Nat
        BY <1>0, GBWhole, GrowAssumption, Z3 DEF TypeOK
      <3> QED
        BY <1>0, <1>a, <3>1, WholeBelowStart DEF DdStart, TypeOK
    <2>5. DdEnd(t) >= req[t] * GB
      <3>1. DdEnd(t) = DdStart + (req[t] - record) * GB
        BY <2>2 DEF DdEnd
      <3>2. (req[t] - record) * GB = req[t] * GB - record * GB
        BY <1>0, <2>2, GrowAssumption, Z3 DEF TypeOK
      <3> QED
        BY <1>a, <2>3, <2>4, <3>1, <3>2
    <2>6. PICK end \in DdStart..DdEnd(t) :
             /\ image' = Larger(image, end)
             /\ \/ end = DdEnd(t) /\ Goto(t, "extend", "resize") /\ UNCHANGED req
                \/ Goto(t, "extend", "idle") /\ Return(t)
      BY <1>5 DEF AppendFile
    <2>7. image' >= image /\ image' \in Nat
      BY <1>0, <2>3, <2>6 DEF Larger, TypeOK
    <2>8. /\ pc'[t] \in {"resize", "idle"}
          /\ pc'[t] = "resize" => image' = DdEnd(t) /\ req'[t] = req[t]
      BY <1>0, <2>3, <2>6 DEF Goto, Larger, TypeOK
    <2>9. \A u \in Tasks : u # t => pc'[u] \notin GrowPcs
      BY <1>0, <2>2, <2>6 DEF Goto, TypeOK
    <2> QED
      BY <1>0, <1>a, <2>1, <2>5, <2>7, <2>8, <2>9 DEF GrowPcs, TypeOK
  <1>6. ASSUME NEW t \in Tasks, GrowDevice(t) PROVE Goal
    BY <1>0, <1>6 DEF GrowDevice, Goto, Return, TypeOK, GrowInv, GrowPcs
  <1>7. ASSUME NEW t \in Tasks, GrowFilesystem(t) PROVE Goal
    BY <1>0, <1>7 DEF GrowFilesystem, Goto, Return, TypeOK, GrowInv, GrowPcs
  <1>8. ASSUME NEW t \in Tasks, GrowRecord(t) PROVE Goal
    BY <1>0, <1>8 DEF GrowRecord, Goto, Return, TypeOK, GrowInv, GrowPcs
  <1>9. CASE LockVault
    BY <1>0, <1>9 DEF LockVault, sizes, tasks
  <1>10. CASE UnlockVault
    BY <1>0, <1>10, GrowAssumption DEF UnlockVault, tasks, GrowInv, GrowPcs
  <1>11. CASE UNCHANGED vars
    BY <1>11 DEF vars, sizes, tasks
  <1> QED
    BY <1>1, <1>2, <1>3, <1>4, <1>5, <1>6, <1>7, <1>8, <1>9, <1>10, <1>11 DEF Next

\* For the images this server makes, a size is recorded only when image, device
\* and filesystem have it, whichever steps of earlier grows failed and whether
\* fallocate or dd extended the image.
THEOREM SizeDelivered == ASSUME WholeGB PROVE Spec => GrowDelivers
  BY InitGrow, NextGrow, InitSized, NextSized, PTL DEF Spec, GrowDelivers

=============================================================================
