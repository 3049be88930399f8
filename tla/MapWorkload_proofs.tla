------------------------- MODULE MapWorkload_proofs -------------------------
(***************************************************************************)
(* What the drivers of the map report is right: proofs about MapWorkload,   *)
(* for any keys, any data of gen_data and tables of any size.               *)
(***************************************************************************)
EXTENDS MapWorkload, EmplaceBatchFull_proofs

USE TableAssumption, HashAssumption

-----------------------------------------------------------------------------
(***************************************************************************)
(* The map's own invariant holds for every caller.                          *)
(***************************************************************************)
(* The drivers whose report is about all of their rows. *)
Counting == {"hashmap_only", "plus_serialize", "insert_probe", "empty_row"}

CallsFrom ==
    /\ driver \in Counting \cup {"any", "probe_only"}
    /\ driver # "any" => data \in Seq(Keys) /\ batch_idx \in Nat

CInv == BInv /\ CallsFrom

(* All rows of a slice are keys. *)
LEMMA SliceOfKeys ==
    ASSUME data \in Seq(Keys), NEW b \in Nat, b < NumBatches(Len(data))
    PROVE  BatchOf(data, b) \in Seq(Keys)
BY SliceFacts

LEMMA DataOfKeys ==
    ASSUME NEW B \in Seq(Keys), NEW num_hits \in 0 .. NUM_PROBE_ROWS,
           NEW D, D \in GenData(B, num_hits, Keys)
    PROVE  D \in Seq(Keys)
BY GenDataKeys

LEMMA InitCInv == WorkInit => CInv
<1> SUFFICES ASSUME WorkInit PROVE CInv
  OBVIOUS
<1>1. BInv /\ batch_idx = 0
  BY InitBInv DEF WorkInit
<1>2. CASE StartPipelineCases
  <2>1. PICK B \in Builds, num_hits \in 0 .. NUM_PROBE_ROWS : data \in GenData(B, num_hits, Keys)
    BY <1>2 DEF StartPipelineCases
  <2>2. B \in Seq(Keys)
    BY DriverAssumption
  <2> QED
    BY <1>1, <1>2, <2>1, <2>2, DataOfKeys DEF CInv, CallsFrom, Counting, StartPipelineCases
<1>3. CASE StartInsertProbe
  <2>1. PICK B \in Builds : data \in GenData(B, NUM_PROBE_ROWS, Keys)
    BY <1>3 DEF StartInsertProbe
  <2>2. B \in Seq(Keys) /\ NUM_PROBE_ROWS \in 0 .. NUM_PROBE_ROWS
    BY DriverAssumption, WorkloadAssumption
  <2> QED
    BY <1>1, <1>3, <2>1, <2>2, DataOfKeys DEF CInv, CallsFrom, Counting, StartInsertProbe
<1>4. CASE StartEmptyRow \/ StartProbeOnly
  <2>1. data \in Seq(Keys)
    BY <1>4, DriverAssumption DEF StartEmptyRow, StartProbeOnly
  <2> QED
    BY <1>1, <1>4, <2>1 DEF CInv, CallsFrom, Counting, StartEmptyRow, StartProbeOnly
<1>5. CASE driver = "any"
  BY <1>1, <1>5 DEF CInv, CallsFrom, Counting
<1> QED
  BY <1>2, <1>3, <1>4, <1>5 DEF WorkInit

(* Every step is one of the map. *)
LEMMA WorkIsBatch ==
    ASSUME CInv, [WorkNext]_workVars
    PROVE  /\ \/ \E B \in Seq(Keys) : EmplaceBatch(B)
              \/ BatchStep
              \/ UNCHANGED allVars
           /\ UNCHANGED <<driver, data>> /\ batch_idx' \in {batch_idx, batch_idx + 1}
<1>1. ASSUME NEW B \in Batches, AnyCall(B)
      PROVE  (\E C \in Seq(Keys) : EmplaceBatch(C)) /\ UNCHANGED <<driver, data, batch_idx>>
  <2>1. B \in Seq(Keys)
    BY BatchAssumption
  <2> QED
    BY <1>1, <2>1 DEF AnyCall, driverVars
<1>2. CASE RunHashmapOnly \/ RunInsertProbe \/ RunHashmapPlusEmptyRow \/ RunHashmapProbeOnly
  <2>1. PICK d \in {"hashmap_only", "insert_probe", "empty_row", "probe_only"} : OneCall(d)
    BY <1>2 DEF RunHashmapOnly, RunInsertProbe, RunHashmapPlusEmptyRow, RunHashmapProbeOnly
  <2>2. data \in Seq(Keys) /\ EmplaceBatch(data)
    BY <2>1 DEF OneCall, CInv, CallsFrom
  <2> QED
    BY <2>1, <2>2 DEF OneCall
<1>3. CASE RunHashmapPlusSerialize
  <2>1. /\ driver # "any" /\ batch_idx < NumBatches(Len(data))
        /\ EmplaceBatch(BatchOf(data, batch_idx))
    BY <1>3 DEF RunHashmapPlusSerialize
  <2>2. BatchOf(data, batch_idx) \in Seq(Keys)
    BY <2>1, SliceOfKeys DEF CInv, CallsFrom, Counting
  <2> QED
    BY <1>3, <2>1, <2>2 DEF RunHashmapPlusSerialize
<1>4. CASE CountedStep
  BY <1>4 DEF CountedStep
<1>5. CASE UNCHANGED workVars
  BY <1>5 DEF workVars, driverVars
<1> QED
  BY <1>1, <1>2, <1>3, <1>4, <1>5 DEF WorkNext, DriverStep

LEMMA NextCInv == CInv /\ [WorkNext]_workVars => CInv'
<1> SUFFICES ASSUME CInv, [WorkNext]_workVars PROVE CInv'
  OBVIOUS
<1>1. BInv'
  <2>1. ASSUME NEW B \in Seq(Keys), EmplaceBatch(B) PROVE BKept
    BY <2>1, CallKept DEF CInv, BInv, AInv
  <2>2. BatchStep \/ UNCHANGED allVars => BKept
    BY BatchStepKept, SameAllVars DEF CInv, BInv
  <2> QED
    BY <2>1, <2>2, WorkIsBatch DEF CInv, BInv, BKept
<1> QED
  BY <1>1, WorkIsBatch DEF CInv, CallsFrom, Counting

LEMMA CInvCorrect == WorkSpec => []CInv
<1> QED
  BY InitCInv, NextCInv, PTL DEF WorkSpec

(***************************************************************************)
(* The batches of a driver meet the same promises as anyone's: every row    *)
(* has its place or was dropped, every position lies on the row's path, and *)
(* there is one group per key.                                              *)
(***************************************************************************)
THEOREM CallersServed ==
    WorkSpec => [](BatchTypeOK /\ RowsAccounted /\ ServedOwn /\ WaitingOnPath /\ OneGroupPerKey)
<1>1. CInv => BInv
  BY DEF CInv
<1> QED
  BY <1>1, CInvCorrect, BInvPromises, PTL

-----------------------------------------------------------------------------
(***************************************************************************)
(* A driver's count.  Before the batch under way lie full slices, all of    *)
(* whose rows were counted; of the batch, the rows that have been served.   *)
(***************************************************************************)
DataKeys == {data[i] : i \in DOMAIN data}
HasGroup(k) == \E v \in DOMAIN rows : rows[v] = k
RowsBefore == IF driver = "plus_serialize" /\ batch_idx # 0 THEN (batch_idx - 1) * BATCH_SIZE ELSE 0
Passed == IF driver = "plus_serialize" THEN BatchOf(data, batch_idx - 1) ELSE data
LastBatch == IF driver = "plus_serialize" THEN NumBatches(Len(data)) ELSE 1

ReportInv ==
    /\ batch_idx <= LastBatch
    /\ \E K : K = DataKeys /\ KeptFor(K)
    /\ batch_idx # 0 => batch = Passed
    /\ batch_idx = 0 => rows = <<>> /\ batch = <<>> /\ phase = "none"
    /\ sum \in Nat
    /\ size + sum = RowsBefore + Cardinality(Served)
    /\ \A i \in DOMAIN data : i <= RowsBefore => HasGroup(data[i])

CountsRight == driver \in Counting => ReportInv

(* After a call every row of its batch has been counted. *)
LEMMA BatchFacts ==
    ASSUME BInv
    PROVE  /\ DOMAIN batch = 1 .. Len(batch) /\ Len(batch) \in Nat /\ batch \in Seq(Keys)
           /\ Served \subseteq DOMAIN batch /\ IsFiniteSet(Served) /\ Cardinality(Served) \in Nat
           /\ rows \in Seq(Keys) /\ DOMAIN rows = 1 .. Len(rows) /\ Len(rows) \in Nat
<1>1. batch \in Seq(Keys) /\ rows \in Seq(Keys)
  BY DEF BInv, AInv, BatchTypeOK, TypeOK
<1>2. DOMAIN batch = 1 .. Len(batch) /\ Len(batch) \in Nat
  BY <1>1
<1>3. DOMAIN rows = 1 .. Len(rows) /\ Len(rows) \in Nat
  BY <1>1
<1>4. Served \subseteq DOMAIN batch
  BY DEF Served
<1>5. IsFiniteSet(1 .. Len(batch))
  BY <1>2, FS_Interval
<1>6. IsFiniteSet(Served)
  BY <1>2, <1>4, <1>5, FS_Subset
<1> QED
  BY <1>1, <1>2, <1>3, <1>4, <1>6, FS_CardinalityType

LEMMA ServedAll ==
    ASSUME BInv, ReportInv, phase = "none"
    PROVE  Served = DOMAIN batch /\ Cardinality(Served) = Len(batch)
<1>1. Served \cup dropped = DOMAIN batch /\ dropped = {}
  BY DEF ReportInv, KeptFor, BInv, AInv, Parts
<1>2. DOMAIN batch = 1 .. Len(batch) /\ Len(batch) \in Nat
  BY BatchFacts
<1>3. Cardinality(1 .. Len(batch)) = Len(batch)
  BY <1>2, FS_Interval
<1> QED
  BY <1>1, <1>2, <1>3

(* The group a row was given is that of its key. *)
LEMMA ServedKey ==
    ASSUME BInv, NEW r \in Served
    PROVE  HasGroup(batch[r])
<1>1. served[r] \in DOMAIN rows /\ HashOf[rows[served[r]]] = HashOf[batch[r]] /\ r \in DOMAIN batch
  BY DEF BInv, AInv, ServedRight, H, Served
<1>2. rows[served[r]] \in Keys /\ batch[r] \in Keys
  BY <1>1, BatchFacts
<1>3. rows[served[r]] = batch[r]
  BY <1>1, <1>2, DriverAssumption
<1> QED
  BY <1>1, <1>3 DEF HasGroup

(* Where a batch lies in the rows. *)
LEMMA PassedLies ==
    ASSUME CInv, ReportInv, driver \in Counting, batch_idx # 0
    PROVE  /\ RowsBefore \in Nat /\ RowsBefore + Len(batch) <= Len(data) /\ Len(data) \in Nat
           /\ DOMAIN data = 1 .. Len(data)
           /\ batch_idx = LastBatch => RowsBefore + Len(batch) = Len(data)
           /\ batch_idx # LastBatch => RowsBefore + Len(batch) = batch_idx * BATCH_SIZE
                                       /\ driver = "plus_serialize"
           /\ \A i \in 1 .. Len(batch) : batch[i] = data[RowsBefore + i]
<1>1. data \in Seq(Keys) /\ batch_idx \in Nat \ {0} /\ batch = Passed
  BY DEF CInv, CallsFrom, ReportInv, Counting
<1>2. Len(data) \in Nat /\ DOMAIN data = 1 .. Len(data) /\ NumBatches(Len(data)) \in Nat
  BY <1>1, NumBatchesFacts
<1>3. CASE driver = "plus_serialize"
  <2> DEFINE b == batch_idx - 1
             s == b * BATCH_SIZE
             nb == NumBatches(Len(data))
  <2>1. /\ b \in Nat /\ b < nb /\ b + 1 = batch_idx /\ RowsBefore = s /\ LastBatch = nb
        /\ batch = BatchOf(data, b)
    BY <1>1, <1>2, <1>3 DEF RowsBefore, LastBatch, ReportInv, Passed
  <2>0. s = b * BATCH_SIZE /\ nb = NumBatches(Len(data))
    OBVIOUS
  <2> HIDE DEF b, s, nb
  <2>2. /\ s \in Nat /\ Len(batch) \in Nat /\ s + Len(batch) <= Len(data)
        /\ b + 1 < nb => Len(batch) = BATCH_SIZE
        /\ b + 1 = nb => s + Len(batch) = Len(data)
        /\ \A i \in 1 .. Len(batch) : batch[i] = data[s + i]
    <3>1. SliceIs(Keys, data, b, s, batch)
      BY <1>1, <2>0, <2>1, SliceLies
    <3> QED
      BY <2>0, <3>1 DEF SliceIs
  <2>3. s + BATCH_SIZE = batch_idx * BATCH_SIZE
    BY <2>0, <2>1, WorkloadAssumption
  <2> DEFINE l == Len(batch)
             L == Len(data)
  <2>4. l \in Nat /\ L \in Nat /\ nb \in Nat /\ batch_idx \in Nat
    BY <1>1, <1>2, <2>2 DEF nb
  <2>5. \A i \in 1 .. Len(batch) : batch[i] = data[RowsBefore + i]
    BY <2>1, <2>2
  <2> HIDE DEF l, L
  <2>6. batch_idx = nb => s + l = L
    BY <2>1, <2>2, <2>4 DEF l, L
  <2>7. batch_idx # nb => s + l = batch_idx * BATCH_SIZE
    <3>1. batch_idx # nb => b + 1 < nb
      BY <2>1, <2>4
    <3> QED
      BY <3>1, <2>2, <2>3 DEF l
  <2>8. RowsBefore \in Nat /\ RowsBefore + l <= L
    BY <2>1, <2>2 DEF l, L
  <2> QED
    BY <1>2, <1>3, <2>1, <2>5, <2>6, <2>7, <2>8 DEF l, L
<1>4. CASE driver # "plus_serialize"
  BY <1>1, <1>2, <1>4 DEF RowsBefore, LastBatch, Passed, ReportInv
<1> QED
  BY <1>3, <1>4

(* Between two calls the rows passed so far are counted and have groups. *)
LEMMA Covered ==
    ASSUME CInv, ReportInv, driver \in Counting, phase = "none", batch_idx # 0
    PROVE  /\ size + sum = RowsBefore + Len(batch)
           /\ \A i \in DOMAIN data : i <= RowsBefore + Len(batch) => HasGroup(data[i])
<1>1. BInv /\ Served = DOMAIN batch /\ Cardinality(Served) = Len(batch)
  BY ServedAll DEF CInv
<1>2. DOMAIN batch = 1 .. Len(batch) /\ Len(batch) \in Nat /\ RowsBefore \in Nat
      /\ DOMAIN data = 1 .. Len(data) /\ Len(data) \in Nat
      /\ \A i \in 1 .. Len(batch) : batch[i] = data[RowsBefore + i]
  BY <1>1, BatchFacts, PassedLies
<1>3. ASSUME NEW i \in DOMAIN data, i <= RowsBefore + Len(batch) PROVE HasGroup(data[i])
  <2>1. CASE i <= RowsBefore
    BY <2>1 DEF ReportInv
  <2>2. CASE ~(i <= RowsBefore)
    <3>1. i - RowsBefore \in 1 .. Len(batch) /\ RowsBefore + (i - RowsBefore) = i
      BY <1>2, <1>3, <2>2
    <3>2. batch[i - RowsBefore] = data[i] /\ i - RowsBefore \in Served
      BY <1>1, <1>2, <3>1
    <3> QED
      BY <1>1, <3>2, ServedKey
  <2> QED
    BY <2>1, <2>2
<1> QED
  BY <1>1, <1>3 DEF ReportInv

(* ... up to where the next batch begins. *)
NextStart == IF driver = "plus_serialize" THEN batch_idx * BATCH_SIZE ELSE 0

LEMMA NextBegins ==
    ASSUME CInv, ReportInv, driver \in Counting, phase = "none", batch_idx < LastBatch
    PROVE  /\ size + sum = NextStart /\ NextStart \in Nat
           /\ \A i \in DOMAIN data : i <= NextStart => HasGroup(data[i])
<1>1. /\ data \in Seq(Keys) /\ batch_idx \in Nat /\ BATCH_SIZE \in Nat
      /\ DOMAIN data = 1 .. Len(data) /\ Len(data) \in Nat
  BY WorkloadAssumption DEF CInv, CallsFrom, Counting
<1>2. CASE batch_idx = 0
  <2>1. rows = <<>> /\ batch = <<>> /\ RowsBefore = 0
    BY <1>2 DEF ReportInv, RowsBefore
  <2>2. Served = {}
    BY <2>1 DEF Served
  <2>3. Cardinality(Served) = 0
    BY <2>2, FS_EmptySet
  <2>4. NextStart = 0
    BY <1>1, <1>2 DEF NextStart
  <2> QED
    BY <1>1, <2>1, <2>3, <2>4 DEF ReportInv
<1>3. CASE batch_idx # 0
  <2>1. /\ batch_idx # LastBatch
        /\ batch_idx # LastBatch => RowsBefore + Len(batch) = batch_idx * BATCH_SIZE
                                    /\ driver = "plus_serialize"
    <3>1. LastBatch \in Nat
      BY <1>1, NumBatchesFacts DEF LastBatch
    <3>2. batch_idx # LastBatch
      BY <1>1, <3>1
    <3> QED
      BY <1>3, <3>2, PassedLies
  <2>2. RowsBefore + Len(batch) = NextStart
    BY <2>1 DEF NextStart
  <2>3. NextStart \in Nat
    BY <1>1 DEF NextStart
  <2> QED
    BY <1>3, <2>2, <2>3, Covered
<1> QED
  BY <1>2, <1>3

(* A call of a driver: its batch begins where the one before has ended. *)
LEMMA CountedCall ==
    ASSUME CInv, ReportInv, driver \in Counting, NEW B, EmplaceBatch(B),
           UNCHANGED <<driver, data, sum>>, batch_idx' = batch_idx + 1, batch_idx < LastBatch,
           B = (IF driver = "plus_serialize" THEN BatchOf(data, batch_idx) ELSE data)
    PROVE  ReportInv'
<1>1. /\ phase = "none" /\ phase' \in {"direct", "first"} /\ dropped' = {} /\ batch' = B
      /\ served' = [i \in DOMAIN B |-> 0] /\ UNCHANGED vars
  BY DEF EmplaceBatch
<1>2. UNCHANGED <<num_chunks, size, rows, pc>>
  BY <1>1 DEF vars, tableVars, emplaceVars
<1>3. data \in Seq(Keys) /\ batch_idx \in Nat
  BY DEF CInv, CallsFrom, Counting
<1>4. LastBatch' = LastBatch /\ LastBatch \in Nat
  BY <1>3, NumBatchesFacts DEF LastBatch
<1>5. Cardinality(Served') = 0
  <2>1. Served' = {}
    BY <1>1 DEF Served
  <2> QED
    BY <2>1, FS_EmptySet
<1>6. batch_idx' - 1 = batch_idx /\ batch_idx' # 0 /\ batch_idx' <= LastBatch
  BY <1>3, <1>4
<1>7. RowsBefore' = NextStart /\ batch' = Passed'
  BY <1>1, <1>6 DEF RowsBefore, NextStart, Passed
<1>8. PICK K : K = DataKeys /\ KeptFor(K)
  BY DEF ReportInv
<1>9. K = DataKeys' /\ KeptFor(K)'
  BY <1>1, <1>2, <1>8 DEF DataKeys, KeptFor
<1>10. /\ size + sum = NextStart /\ NextStart \in Nat
       /\ \A i \in DOMAIN data : i <= NextStart => HasGroup(data[i])
  BY <1>1, NextBegins
<1>11. size' + sum' = RowsBefore' + Cardinality(Served')
  BY <1>2, <1>5, <1>7, <1>10
<1>12. \A i \in DOMAIN data' : i <= RowsBefore' => HasGroup(data[i])'
  BY <1>2, <1>7, <1>10 DEF HasGroup
<1>13. sum' \in Nat
  BY DEF ReportInv
<1> QED
  BY <1>4, <1>6, <1>7, <1>9, <1>11, <1>12, <1>13 DEF ReportInv

(* The rows of a batch are rows of the data. *)
LEMMA BatchInData ==
    ASSUME CInv, ReportInv, driver \in Counting
    PROVE  \A r \in DOMAIN batch : batch[r] \in DataKeys
<1>1. CASE batch_idx = 0
  BY <1>1 DEF ReportInv
<1>2. CASE batch_idx # 0
  <2>1. /\ DOMAIN batch = 1 .. Len(batch) /\ Len(batch) \in Nat /\ RowsBefore \in Nat
        /\ RowsBefore + Len(batch) <= Len(data) /\ Len(data) \in Nat /\ DOMAIN data = 1 .. Len(data)
        /\ \A i \in 1 .. Len(batch) : batch[i] = data[RowsBefore + i]
    BY <1>2, PassedLies, BatchFacts DEF CInv
  <2>2. \A r \in DOMAIN batch : RowsBefore + r \in DOMAIN data
    BY <2>1
  <2> QED
    BY <2>1, <2>2 DEF DataKeys
<1> QED
  BY <1>1, <1>2

(* A row given a group is one more row served. *)
LEMMA ServedGrows ==
    ASSUME BInv, NEW r \in DOMAIN batch, GroupGiven(r), batch' = batch
    PROVE  Cardinality(Served') = Cardinality(Served) + 1 /\ Cardinality(Served) \in Nat
<1>1. r \notin Served /\ Served' = Served \cup {r}
  BY DEF GroupGiven, Served
<1>2. IsFiniteSet(Served) /\ Cardinality(Served) \in Nat
  BY BatchFacts
<1> QED
  BY <1>1, <1>2, FS_AddElement

LEMMA OneMoreOf ==
    ASSUME NEW a \in Nat, NEW b \in Nat, NEW c \in Nat, NEW d \in Nat, a + b = c + d
    PROVE  (a + 1) + b = c + (d + 1) /\ a + (b + 1) = c + (d + 1)
OBVIOUS

(* A step of a call counts the row it serves, as a new group or as a hit. *)
LEMMA CountedServe ==
    ASSUME CInv, ReportInv, driver \in Counting, CountedStep
    PROVE  ReportInv'
<1>1. /\ BatchStep /\ UNCHANGED <<driver, data, batch_idx>> /\ driver # "any"
      /\ sum' = IF rows' = rows /\ served' # served THEN sum + 1 ELSE sum
  BY DEF CountedStep, Counting
<1>2. BInv /\ AInv /\ PathsInv
  BY DEF CInv, BInv
<1>3. PICK K : K = DataKeys /\ KeptFor(K)
  BY DEF ReportInv
<1>4. KeptFor(K)' /\ K = DataKeys'
  <2>1. \A r \in DOMAIN batch : batch[r] \in K
    BY <1>3, BatchInData
  <2> QED
    BY <1>1, <1>2, <1>3, <2>1, KeptForStep DEF DataKeys
<1>5. batch' = batch /\ (NoGroupGiven \/ \E r \in DOMAIN batch : GroupGiven(r))
  BY <1>1, <1>2, StepGives
<1>6. size = Len(rows) /\ size' = Len(rows') /\ rows \in Seq(Keys) /\ Len(rows) \in Nat /\ sum \in Nat
  BY <1>2, <1>3, <1>4, BatchFacts DEF KeptFor, ReportInv
<1>7. /\ size' + sum' = RowsBefore + Cardinality(Served') /\ sum' \in Nat
      /\ \A v \in DOMAIN rows : v \in DOMAIN rows' /\ rows'[v] = rows[v]
  <2>1. CASE NoGroupGiven
    <3>1. Served' = Served /\ sum' = sum /\ rows' = rows
      BY <1>1, <1>5, <2>1 DEF NoGroupGiven, Served
    <3> QED
      BY <1>6, <3>1 DEF ReportInv
  <2>2. ASSUME NEW r \in DOMAIN batch, GroupGiven(r)
        PROVE  /\ size' + sum' = RowsBefore + Cardinality(Served') /\ sum' \in Nat
               /\ \A v \in DOMAIN rows : v \in DOMAIN rows' /\ rows'[v] = rows[v]
    <3>1. Cardinality(Served') = Cardinality(Served) + 1 /\ Cardinality(Served) \in Nat
      BY <1>2, <1>5, <2>2, ServedGrows
    <3>2. served' # served /\ batch[r] \in Keys
      BY <1>2, <2>2, BatchFacts DEF GroupGiven
    <3>3. size + sum = RowsBefore + Cardinality(Served) /\ RowsBefore \in Nat
      <4>1. batch_idx # 0
        BY <2>2 DEF ReportInv
      <4> QED
        BY <4>1, PassedLies DEF ReportInv
    <3>4. CASE rows' = rows
      <4>1. sum' = sum + 1 /\ size' = size
        BY <1>1, <1>6, <3>2, <3>4
      <4> QED
        BY <1>6, <3>1, <3>3, <3>4, <4>1, OneMoreOf
    <3>5. CASE rows' = Append(rows, batch[r])
      <4>1. Len(rows') = Len(rows) + 1 /\ \A v \in DOMAIN rows : v \in DOMAIN rows' /\ rows'[v] = rows[v]
        BY <1>6, <3>2, <3>5
      <4>2. sum' = sum
        BY <1>1, <1>6, <4>1
      <4>3. size' = size + 1
        BY <1>6, <4>1
      <4> QED
        BY <1>6, <3>1, <3>3, <4>1, <4>2, <4>3, OneMoreOf
    <3> QED
      BY <2>2, <3>4, <3>5 DEF GroupGiven
  <2> QED
    BY <1>5, <2>1, <2>2
<1>8. UNCHANGED <<RowsBefore, Passed, LastBatch>>
  BY <1>1 DEF RowsBefore, Passed, LastBatch
<1>9. \A i \in DOMAIN data' : i <= RowsBefore' => HasGroup(data[i])'
  BY <1>1, <1>7, <1>8 DEF ReportInv, HasGroup
<1>10. batch_idx # 0
  <2>1. phase # "none"
    BY <1>1 DEF BatchStep, DirectCall, DirectStep, DirectReturn, PassServe, PassCollide, PassExpand,
         ExpandInBatch, RetryStart, RetryServe, RetryDrop, RetryEnd, NextRound, BatchReturn, InPass
  <2> QED
    BY <2>1 DEF ReportInv
<1> QED
  BY <1>1, <1>4, <1>5, <1>7, <1>8, <1>9, <1>10 DEF ReportInv

(* It starts with an empty table that has room for all keys of the data. *)
LEMMA StartCount ==
    ASSUME WorkInit, CInv, driver \in Counting, IsFiniteSet(DataKeys),
           NEW d \in Nat, Cardinality(DataKeys) <= d,
           \A sz \in 0 .. d : ~ShouldExpand(num_chunks, sz)
    PROVE  ReportInv
<1>1. /\ batch_idx = 0 /\ sum = 0 /\ rows = <<>> /\ batch = <<>> /\ phase = "none"
      /\ pc = "idle" /\ dropped = {} /\ size = 0
  BY DEF WorkInit, BatchInit, Init, ExpandInit
<1>2. \E K : K = DataKeys /\ KeptFor(K)
  <2>1. HoldsAll(DataKeys, num_chunks)
    <3>1. Cardinality(DataKeys) \in Nat
      BY FS_CardinalityType
    <3>2. \A sz \in 0 .. Cardinality(DataKeys) : sz \in 0 .. d
      BY <3>1
    <3> QED
      BY <3>2 DEF HoldsAll
  <2> QED
    BY <1>1, <2>1 DEF KeptFor
<1>3. data \in Seq(Keys) /\ RowsBefore = 0
  BY <1>1 DEF CInv, CallsFrom, Counting, RowsBefore
<1>4. Len(data) \in Nat /\ DOMAIN data = 1 .. Len(data)
  BY <1>3
<1>5. 0 <= LastBatch
  BY <1>4, NumBatchesFacts DEF LastBatch
<1>6. Cardinality(Served) = 0
  <2>1. Served = {}
    BY <1>1 DEF Served
  <2> QED
    BY <2>1, FS_EmptySet
<1>7. \A i \in DOMAIN data : ~(i <= RowsBefore)
  BY <1>3, <1>4
<1> QED
  BY <1>1, <1>2, <1>3, <1>5, <1>6, <1>7 DEF ReportInv

(* Doubled until it has a slot for every row as well, or not. *)
LEMMA MicroHoldsKeys ==
    ASSUME RoomForKeys, NEW d \in Nat, NEW total_rows \in Nat,
           MaxSlots((d * FILL_DEN) \div FILL_NUM, total_rows) # 0,
           ChunksFor(MaxSlots((d * FILL_DEN) \div FILL_NUM, total_rows)) <= MOST_CHUNKS,
           NEW sz \in 0 .. d
    PROVE  ~ShouldExpand(WithCapacity(MicroChunks(d, total_rows)), sz)
<1> DEFINE f == (d * FILL_DEN) \div FILL_NUM
           slots == MaxSlots(f, total_rows)
<1>1. f \in Nat
  BY WorkloadAssumption, QuotientBounds
<1>2. slots = (IF f > total_rows THEN f ELSE total_rows)
  BY DEF MaxSlots
<1> HIDE DEF f
<1>3. slots \in Nat \ {0} /\ f <= slots
  BY <1>1, <1>2 DEF f
<1> HIDE DEF slots
<1> QED
  BY <1>3, SlotsHoldKeys DEF MicroChunks, RoomForKeys, slots, f

(* n different names. *)
LEMMA NamedAll ==
    ASSUME NEW n \in Nat, NEW f, NEW T,
           \A i \in 1 .. n : f[i] \in T, \A t \in T : \E i \in 1 .. n : f[i] = t,
           \A i, j \in 1 .. n : f[i] = f[j] => i = j
    PROVE  Cardinality(T) = n /\ IsFiniteSet(T)
<1> DEFINE S == 1 .. n
           g == [i \in S |-> f[i]]
<1>1. IsFiniteSet(S) /\ Cardinality(S) = n
  BY FS_Interval
<1> HIDE DEF S
<1>2. g \in [S -> T] /\ (\A i, j \in S : g[i] = g[j] => i = j) /\ \A t \in T : \E i \in S : g[i] = t
  <2>1. \A i \in S : g[i] = f[i]
    OBVIOUS
  <2>2. g \in [S -> T]
    BY DEF S
  <2> HIDE DEF g
  <2> QED
    BY <2>1, <2>2 DEF S
<1> HIDE DEF g
<1>3. g \in Bijection(S, T)
  BY <1>2 DEF Bijection, Injection, Surjection, IsInjective
<1>4. ExistsBijection(S, T)
  BY <1>3 DEF ExistsBijection
<1> QED
  BY <1>1, <1>4, FS_Bijection, Zenon

LEMMA StartKeys ==
    ASSUME NEW B \in Seq(Keys), NEW num_hits \in 0 .. NUM_PROBE_ROWS,
           data \in GenData(B, num_hits, Keys)
    PROVE  /\ IsFiniteSet(DataKeys) /\ Cardinality(DataKeys) <= DistinctKeys(Len(B), num_hits)
           /\ DistinctKeys(Len(B), num_hits) \in Nat
<1>1. ASSUME NEW D, D \in GenData(B, num_hits, Keys)
      PROVE  LET K == {D[i] : i \in DOMAIN D} IN
             /\ D \in Seq(Keys) /\ K \subseteq Keys /\ IsFiniteSet(K)
             /\ Cardinality(K) <= DistinctKeys(Len(B), num_hits)
             /\ DistinctKeys(Len(B), num_hits) \in Nat
  BY <1>1, GenDataKeys, Zenon
<1> QED
  BY <1>1 DEF DataKeys

LEMMA InitReport ==
    ASSUME RoomForKeys, WorkInit, CInv, driver \in Counting
    PROVE  ReportInv
<1>1. CASE StartPipelineCases
  <2>1. PICK B \in Builds, num_hits \in 0 .. NUM_PROBE_ROWS :
           /\ num_chunks = WithCapacity(MainChunks(DistinctKeys(Len(B), num_hits)))
           /\ data \in GenData(B, num_hits, Keys)
    BY <1>1 DEF StartPipelineCases
  <2> DEFINE d == DistinctKeys(Len(B), num_hits)
  <2>2. B \in Seq(Keys) /\ ChunksFor(MinSlots(d)) <= MOST_CHUNKS
    BY DriverAssumption
  <2>3. IsFiniteSet(DataKeys) /\ Cardinality(DataKeys) <= d /\ d \in Nat
    BY <2>1, <2>2, StartKeys
  <2>4. num_chunks = WithCapacity(MainChunks(d))
    BY <2>1
  <2> HIDE DEF d
  <2>5. \A sz \in 0 .. d : ~ShouldExpand(num_chunks, sz)
    BY <2>2, <2>3, <2>4, TableHoldsKeys DEF RoomForKeys
  <2> QED
    BY <2>3, <2>5, StartCount
<1>2. CASE StartInsertProbe
  <2>1. PICK B \in Builds :
           /\ num_chunks = WithCapacity(MicroChunks(Len(B), Len(B) + NUM_PROBE_ROWS))
           /\ data \in GenData(B, NUM_PROBE_ROWS, Keys)
    BY <1>2 DEF StartInsertProbe
  <2> DEFINE d == Len(B)
             total_rows == d + NUM_PROBE_ROWS
             f == (d * FILL_DEN) \div FILL_NUM
  <2>2. /\ B \in Seq(Keys) /\ d \in Nat /\ total_rows \in Nat /\ NUM_PROBE_ROWS \in 0 .. NUM_PROBE_ROWS
        /\ NUM_PROBE_ROWS \in Nat \ {0} /\ ChunksFor(MaxSlots(f, total_rows)) <= MOST_CHUNKS
    BY DriverAssumption, WorkloadAssumption
  <2>3. IsFiniteSet(DataKeys) /\ Cardinality(DataKeys) <= DistinctKeys(Len(B), NUM_PROBE_ROWS)
    BY <2>1, <2>2, StartKeys
  <2>4. DistinctKeys(Len(B), NUM_PROBE_ROWS) = d
    BY <2>2 DEF DistinctKeys
  <2>5. MaxSlots(f, total_rows) # 0
    <3>1. total_rows \in Nat \ {0} /\ f \in Nat
      BY <2>2, WorkloadAssumption, QuotientBounds
    <3> HIDE DEF f, total_rows
    <3> QED
      BY <3>1 DEF MaxSlots
  <2>6. num_chunks = WithCapacity(MicroChunks(d, total_rows))
    BY <2>1
  <2> HIDE DEF d, total_rows
  <2>7. \A sz \in 0 .. d : ~ShouldExpand(num_chunks, sz)
    BY <2>2, <2>5, <2>6, MicroHoldsKeys DEF f
  <2> QED
    BY <2>2, <2>3, <2>4, <2>7, StartCount
<1>3. CASE StartEmptyRow
  <2> DEFINE d == Len(data)
             f == (d * FILL_DEN) \div FILL_NUM
  <2>1. /\ data \in Builds /\ data \in Seq(Keys) /\ data # <<>>
        /\ num_chunks = WithCapacity(MicroChunks(d, 0))
        /\ \A i, j \in DOMAIN data : data[i] = data[j] => i = j
        /\ ChunksFor(MaxSlots(f, 0)) <= MOST_CHUNKS
    BY <1>3, DriverAssumption DEF StartEmptyRow
  <2>2. d \in Nat \ {0} /\ DOMAIN data = 1 .. d
    BY <2>1
  <2>3. IsFiniteSet(DataKeys) /\ Cardinality(DataKeys) = d
    <3>1. (\A i \in 1 .. d : data[i] \in DataKeys) /\ \A t \in DataKeys : \E i \in 1 .. d : data[i] = t
      BY <2>2 DEF DataKeys
    <3>3. \A i, j \in 1 .. d : data[i] = data[j] => i = j
      BY <2>1, <2>2
    <3>4. d \in Nat
      BY <2>2
    <3> HIDE DEF d
    <3> QED
      BY <3>1, <3>3, <3>4, NamedAll
  <2>4. MaxSlots(f, 0) # 0
    <3>1. FILL_NUM \in Nat \ {0} /\ FILL_DEN \in Nat /\ FILL_NUM <= FILL_DEN
      BY WorkloadAssumption
    <3> HIDE DEF d
    <3>2. d * FILL_DEN \in Nat /\ FILL_DEN <= d * FILL_DEN
      BY <2>2, <3>1, Z3
    <3>3. f \in Nat /\ d * FILL_DEN < FILL_NUM * f + FILL_NUM
      BY <3>1, <3>2, QuotientBounds
    <3>4. f # 0
      BY <3>1, <3>2, <3>3
    <3> HIDE DEF f
    <3> QED
      BY <3>3, <3>4 DEF MaxSlots
  <2>5. num_chunks = WithCapacity(MicroChunks(d, 0))
    BY <2>1
  <2> HIDE DEF d
  <2>6. \A sz \in 0 .. d : ~ShouldExpand(num_chunks, sz)
    BY <2>1, <2>2, <2>4, <2>5, MicroHoldsKeys DEF f
  <2> QED
    BY <2>2, <2>3, <2>6, StartCount
<1> QED
  BY <1>1, <1>2, <1>3 DEF WorkInit, StartProbeOnly, Counting

LEMMA NextReport ==
    ASSUME CInv, CountsRight, [WorkNext]_workVars
    PROVE  CountsRight'
<1> SUFFICES ASSUME driver \in Counting PROVE ReportInv'
  <2>1. driver' = driver
    BY WorkIsBatch
  <2> QED
    BY <2>1 DEF CountsRight
<1>0. ReportInv /\ CInv
  BY DEF CountsRight
<1>1. CASE RunHashmapOnly \/ RunInsertProbe \/ RunHashmapPlusEmptyRow
  <2>1. PICK c \in {"hashmap_only", "insert_probe", "empty_row"} : OneCall(c)
    BY <1>1 DEF RunHashmapOnly, RunInsertProbe, RunHashmapPlusEmptyRow
  <2>2. batch_idx < LastBatch /\ batch_idx' = batch_idx + 1 /\ driver # "plus_serialize"
    BY <2>1 DEF OneCall, LastBatch
  <2> QED
    BY <1>0, <2>1, <2>2, CountedCall DEF OneCall
<1>2. CASE RunHashmapPlusSerialize
  <2>1. /\ driver = "plus_serialize" /\ batch_idx < LastBatch /\ batch_idx' = batch_idx + 1
        /\ EmplaceBatch(BatchOf(data, batch_idx)) /\ UNCHANGED <<driver, data, sum>>
    BY <1>2 DEF RunHashmapPlusSerialize, LastBatch
  <2> QED
    BY <1>0, <2>1, CountedCall
<1>3. CASE CountedStep
  BY <1>0, <1>3, CountedServe
<1>4. ~(\E B \in Batches : AnyCall(B)) /\ ~RunHashmapProbeOnly
  BY DEF AnyCall, RunHashmapProbeOnly, OneCall, Counting
<1>5. CASE UNCHANGED workVars
  <2>1. UNCHANGED <<num_chunks, size, rows, pc, batch, phase, served, dropped, driver, data, batch_idx, sum>>
    BY <1>5 DEF workVars, allVars, vars, tableVars, emplaceVars, batchVars, driverVars
  <2>2. PICK K : K = DataKeys /\ KeptFor(K)
    BY <1>0 DEF ReportInv
  <2>3. K = DataKeys' /\ KeptFor(K)'
    BY <2>1, <2>2 DEF DataKeys, KeptFor
  <2>4. UNCHANGED <<RowsBefore, Passed, LastBatch, Served>>
    BY <2>1 DEF RowsBefore, Passed, LastBatch, Served
  <2>5. \A i \in DOMAIN data' : i <= RowsBefore' => HasGroup(data[i])'
    BY <1>0, <2>1, <2>4 DEF ReportInv, HasGroup
  <2> QED
    BY <1>0, <2>1, <2>3, <2>4, <2>5 DEF ReportInv
<1> QED
  BY <1>1, <1>2, <1>3, <1>4, <1>5 DEF WorkNext, DriverStep

LEMMA ReportCorrect ==
    ASSUME RoomForKeys
    PROVE  WorkSpec => []CountsRight
<1>1. WorkInit => CountsRight
  BY InitCInv, InitReport DEF CountsRight
<1>2. CInv /\ CountsRight /\ [WorkNext]_workVars => CountsRight'
  BY NextReport
<1> QED
  BY <1>1, <1>2, CInvCorrect, PTL DEF WorkSpec

(***************************************************************************)
(* The number a driver reports, the slots and the hits together, is the     *)
(* number of the rows it passed, and there is one slot per hash: the        *)
(* driver's table never grows, and so forgets no row.                       *)
(***************************************************************************)
THEOREM ReportsCounted ==
    ASSUME RoomForKeys
    PROVE  WorkSpec => []RowsCounted
<1>1. CInv /\ CountsRight => RowsCounted
  <2> SUFFICES ASSUME CInv, CountsRight, Finished, driver # "probe_only"
               PROVE  /\ size + sum = Len(data)
                      /\ size = Cardinality({HashOf[data[i]] : i \in DOMAIN data})
    BY DEF RowsCounted
  <2>1. /\ driver \in Counting /\ ReportInv /\ phase = "none" /\ batch_idx = LastBatch
        /\ data \in Seq(Keys) /\ batch_idx \in Nat
    BY DEF Finished, CInv, CallsFrom, CountsRight, Counting, LastBatch
  <2>2. Len(data) \in Nat /\ DOMAIN data = 1 .. Len(data)
    BY <2>1
  <2>3. size + sum = Len(data) /\ \A i \in DOMAIN data : HasGroup(data[i])
    <3>1. CASE batch_idx = 0
      <4>1. Len(data) = 0
        BY <2>1, <2>2, <3>1, NumBatchesFacts, WorkloadAssumption DEF LastBatch
      <4>2. Served = {} /\ RowsBefore = 0
        BY <2>1, <3>1 DEF ReportInv, Served, RowsBefore
      <4>3. Cardinality(Served) = 0
        BY <4>2, FS_EmptySet
      <4> QED
        BY <2>1, <2>2, <4>1, <4>2, <4>3 DEF ReportInv
    <3>2. CASE batch_idx # 0
      <4>1. RowsBefore + Len(batch) = Len(data)
        BY <2>1, <3>2, PassedLies
      <4>2. \A i \in DOMAIN data : i <= RowsBefore + Len(batch)
        BY <2>2, <4>1
      <4> QED
        BY <2>1, <3>2, <4>1, <4>2, Covered
    <3> QED
      BY <3>1, <3>2
  <2>4. PICK K : K = DataKeys /\ KeptFor(K)
    BY <2>1 DEF ReportInv
  <2>5. /\ rows \in Seq(Keys) /\ DOMAIN rows = 1 .. Len(rows) /\ Len(rows) \in Nat
        /\ KeysDistinct
    BY BatchFacts DEF CInv, BInv, PathsInv, IInv
  <2>6. size = Len(rows) /\ \A v \in DOMAIN rows : rows[v] \in K
    BY <2>4 DEF KeptFor
  <2> DEFINE f == [v \in DOMAIN rows |-> HashOf[rows[v]]]
             T == {HashOf[data[i]] : i \in DOMAIN data}
  <2>7. (\A v \in 1 .. Len(rows) : f[v] \in T) /\ \A t \in T : \E v \in 1 .. Len(rows) : f[v] = t
    <3>1. ASSUME NEW i \in DOMAIN data PROVE \E v \in DOMAIN rows : f[v] = HashOf[data[i]]
      BY <2>3 DEF HasGroup
    <3>2. ASSUME NEW v \in DOMAIN rows PROVE \E i \in DOMAIN data : f[v] = HashOf[data[i]]
      BY <2>4, <2>6 DEF DataKeys
    <3>3. DOMAIN rows = 1 .. Len(rows)
      BY <2>5
    <3> HIDE DEF f
    <3> QED
      BY <3>1, <3>2, <3>3
  <2>8. \A v, w \in 1 .. Len(rows) : f[v] = f[w] => v = w
    <3> SUFFICES ASSUME NEW v \in 1 .. Len(rows), NEW w \in 1 .. Len(rows), f[v] = f[w]
                 PROVE  v = w
      OBVIOUS
    <3>1. rows[v] \in Keys /\ rows[w] \in Keys /\ HashOf[rows[v]] = HashOf[rows[w]]
      BY <2>5
    <3>2. rows[v] = rows[w]
      BY <3>1, DriverAssumption
    <3> QED
      BY <2>5, <3>2 DEF KeysDistinct
  <2> HIDE DEF f, T
  <2>9. Cardinality(T) = Len(rows)
    <3> DEFINE n == Len(rows)
    <3>1. /\ n \in Nat /\ (\A v \in 1 .. n : f[v] \in T) /\ (\A t \in T : \E v \in 1 .. n : f[v] = t)
          /\ \A v, w \in 1 .. n : f[v] = f[w] => v = w
      BY <2>5, <2>7, <2>8
    <3> HIDE DEF n
    <3>2. Cardinality(T) = n
      BY <3>1, NamedAll
    <3> QED
      BY <3>2 DEF n
  <2> QED
    BY <2>3, <2>6, <2>9 DEF T
<1> QED
  BY <1>1, CInvCorrect, ReportCorrect, PTL
=============================================================================
