--------------------------- MODULE XMLTrainerProofs ---------------------------
(***************************************************************************)
(* Proofs about the trainer, for every number of keys: the watermarks stay *)
(* together, a model covers its snapshot, and only reports that come       *)
(* during a training can be lost.                                          *)
(***************************************************************************)
EXTENDS XMLTrainer, TLAPS

\* The range covers the reported keys.
RangeInv == \A k \in reported : start_key <= k /\ k <= end_key

\* The walk has collected the keys of the snapshot that it has passed.
ScanInv ==
  /\ tpc = "scan" => \A k \in due : k \in there /\ k <= e_key /\ (k <= cur => k \in train_set)
  /\ tpc = "done" => due \subseteq model

\* The reports that are not late are in the snapshot of a running training.
LateInv == OnlyLateReportsLost /\ (tpc \in {"scan", "done"} => reported \subseteq due \cup late)

IInv == TypeOK /\ WatermarksClose /\ RangeInv /\ ScanInv /\ LateInv

-----------------------------------------------------------------------------
\* The inductive invariant of the trainer holds.
THEOREM Invariance == Spec => []IInv
<1> USE TrainerAssumption DEF Key, need_train, WatermarksClose
<1>1. Init => IInv
  BY DEF Init, IInv, TypeOK, RangeInv, ScanInv, LateInv, OnlyLateReportsLost
<1>2. IInv /\ [Next]_vars => IInv'
  <2> SUFFICES ASSUME IInv, [Next]_vars PROVE IInv'
    OBVIOUS
  <2> USE DEF IInv
  <2>1. ASSUME NEW k \in Key, InsertKey(k) PROVE IInv'
    BY <2>1 DEF InsertKey, trainv, TypeOK, RangeInv, ScanInv, LateInv, OnlyLateReportsLost
  <2>2. ASSUME NEW k \in Key, update_key(k) PROVE IInv'
    <3> USE <2>2 DEF update_key, trainv, Min2, Max2, Late
    <3>1. TypeOK' /\ WatermarksClose'
      BY DEF TypeOK
    <3>2. RangeInv'
      BY DEF TypeOK, RangeInv
    <3>3. ScanInv'
      BY DEF ScanInv
    <3>4. LateInv'
      BY DEF LateInv, OnlyLateReportsLost, TypeOK
    <3>5. QED
      BY <3>1, <3>2, <3>3, <3>4
  <2>3. CASE TrainBegin
    BY <2>3 DEF TrainBegin, keysv, TypeOK, RangeInv, ScanInv, LateInv, OnlyLateReportsLost
  <2>4. CASE Snapshot
    <3> USE <2>4 DEF Snapshot, keysv
    <3>1. TypeOK' /\ WatermarksClose'
      BY DEF TypeOK
    <3>2. RangeInv'
      BY DEF RangeInv
    <3>3. ScanInv'
      BY DEF ScanInv, RangeInv, TypeOK
    <3>4. LateInv'
      BY DEF LateInv, OnlyLateReportsLost
    <3>5. QED
      BY <3>1, <3>2, <3>3, <3>4
  <2>5. ASSUME NEW k \in Key, ScanKey(k) PROVE IInv'
    <3> USE <2>5 DEF ScanKey, keysv, Ahead
    <3>1. TypeOK' /\ WatermarksClose'
      BY DEF TypeOK
    <3>2. RangeInv'
      BY DEF RangeInv
    <3>3. ScanInv'
      BY DEF ScanInv, TypeOK
    <3>4. LateInv'
      BY DEF LateInv, OnlyLateReportsLost
    <3>5. QED
      BY <3>1, <3>2, <3>3, <3>4
  <2>6. CASE ScanEnd
    <3> USE <2>6 DEF ScanEnd, keysv, Ahead
    <3>1. TypeOK' /\ WatermarksClose'
      BY DEF TypeOK
    <3>2. RangeInv'
      BY DEF RangeInv
    <3>3. ScanInv'
      BY DEF ScanInv, TypeOK
    <3>4. LateInv'
      BY DEF LateInv, OnlyLateReportsLost
    <3>5. QED
      BY <3>1, <3>2, <3>3, <3>4
  <2>7. CASE TrainDone
    <3> USE <2>7 DEF TrainDone, keysv
    <3>1. TypeOK' /\ WatermarksClose'
      BY DEF TypeOK
    <3>2. RangeInv' /\ ScanInv'
      BY DEF RangeInv, ScanInv
    <3>3. LateInv'
      BY DEF LateInv, ScanInv, OnlyLateReportsLost
    <3>4. QED
      BY <3>1, <3>2, <3>3
  <2>8. CASE UNCHANGED vars
    BY <2>8 DEF vars, keysv, trainv, TypeOK, RangeInv, ScanInv, LateInv, OnlyLateReportsLost
  <2>9. QED
    BY <2>1, <2>2, <2>3, <2>4, <2>5, <2>6, <2>7, <2>8 DEF Next, Train
<1>3. QED
  BY <1>1, <1>2, PTL DEF Spec

\* One training is owed at most, although the watermarks are written under
\* different locking.
THEOREM OneTrainingOwed == Spec => []WatermarksClose
BY Invariance, PTL DEF IInv

\* A model covers all keys reported before its snapshot, whatever is inserted
\* and reported while the index is walked.
THEOREM SnapshotIsCovered == Spec => []ModelCoversSnapshot
<1>1. IInv => ModelCoversSnapshot
  BY DEF IInv, ScanInv, ModelCoversSnapshot
<1>2. QED
  BY <1>1, Invariance, PTL

\* A report is trained on or notified, unless it came during a training.
THEOREM ReportsInTimeAreKept == Spec => []OnlyLateReportsLost
<1>1. IInv => OnlyLateReportsLost
  BY DEF IInv, LateInv
<1>2. QED
  BY <1>1, Invariance, PTL

=============================================================================
