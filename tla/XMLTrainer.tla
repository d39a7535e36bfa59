------------------------------ MODULE XMLTrainer ------------------------------
(***************************************************************************)
(* The trainer of one second-layer model, xcache/src/submodel_trainer.hh.  *)
(* Threads insert keys into the index and then report them with            *)
(* update_key, under a mutex; one thread trains, and "may be trained in a  *)
(* (background) thread".  A training reads the watermarks without the      *)
(* mutex, takes a snapshot of the key range under it, walks the index from *)
(* key to key, and counts itself done by l_watermark += 1, again without   *)
(* the mutex.                                                              *)
(*                                                                         *)
(* A trained model is the set of keys it was trained on.  Watermarks do    *)
(* not overflow (the FIXME at their declaration).                          *)
(***************************************************************************)
EXTENDS Integers, FiniteSets

CONSTANT MaxKey   \* keys are 1..MaxKey; each is inserted once

ASSUME TrainerAssumption == MaxKey \in Nat

VARIABLES
  kv,                           \* keys in the index
  reported,                     \* keys update_key was called for
  start_key, end_key,
  l_watermark, h_watermark,
  nkeys_update,
  tpc,                          \* place of the training thread
  e_key, cur,                   \* end of its snapshot, the iterator's last key
  there,                        \* keys in the index when the walk began
  train_set,                    \* keys added to the training set
  model,                        \* keys of the last model trained
  due,                          \* ghost: keys reported before the snapshot
  late                          \* ghost: keys reported after the snapshot of a
                                \* training that was still running

keysv == <<kv, reported, start_key, end_key, h_watermark, nkeys_update, late>>
trainv == <<l_watermark, tpc, e_key, cur, there, train_set, model, due>>
vars == <<keysv, trainv>>

Key == 1..MaxKey

Init ==
  /\ kv = {} /\ reported = {} /\ nkeys_update = 0
  /\ start_key = MaxKey + 1 /\ end_key = 0      \* KeyType::max(), ::min()
  /\ l_watermark = 0 /\ h_watermark = 0
  /\ tpc = "idle" /\ e_key = 0 /\ cur = 0 /\ there = {}
  /\ train_set = {} /\ model = {} /\ due = {} /\ late = {}

need_train == h_watermark > l_watermark

-----------------------------------------------------------------------------
\* The index gets a key that nobody has reported yet.
InsertKey(k) ==
  /\ k \notin kv
  /\ kv' = kv \cup {k}
  /\ UNCHANGED <<reported, start_key, end_key, h_watermark, nkeys_update, late, trainv>>

Min2(x, y) == IF x < y THEN x ELSE y
Max2(x, y) == IF x > y THEN x ELSE y

\* The ghost of late reports.
Late(k) == late' = IF tpc \in {"scan", "done"} THEN late \cup {k} ELSE late

\* Faulty variant: every report raises the watermark.
update_key_Always(k) ==
  /\ k \in kv \ reported
  /\ reported' = reported \cup {k}
  /\ Late(k)
  /\ nkeys_update' = nkeys_update + 1
  /\ start_key' = Min2(start_key, k) /\ end_key' = Max2(end_key, k)
  /\ h_watermark' = h_watermark + 1
  /\ UNCHANGED <<kv, trainv>>

\* Faulty variant: only the first report raises the watermark.
update_key_Once(k) ==
  /\ k \in kv \ reported
  /\ reported' = reported \cup {k}
  /\ Late(k)
  /\ nkeys_update' = nkeys_update + 1
  /\ start_key' = Min2(start_key, k) /\ end_key' = Max2(end_key, k)
  /\ h_watermark' = Max2(h_watermark, 1)
  /\ UNCHANGED <<kv, trainv>>

\* update_key.
update_key(k) ==
  /\ k \in kv \ reported
  /\ reported' = reported \cup {k}
  /\ Late(k)
  /\ nkeys_update' = nkeys_update + 1
  /\ start_key' = Min2(start_key, k) /\ end_key' = Max2(end_key, k)
  /\ h_watermark' = IF need_train THEN h_watermark ELSE h_watermark + 1
  /\ UNCHANGED <<kv, trainv>>

-----------------------------------------------------------------------------
\* train_w_it_w_shrink passes the test of the watermarks; without news it
\* returns an untrained model and changes nothing.
TrainBegin ==
  /\ tpc = "idle" /\ need_train
  /\ tpc' = "begin"
  /\ UNCHANGED <<keysv, l_watermark, e_key, cur, there, train_set, model, due>>

\* Faulty variant: the walk may begin behind start_key.
Snapshot_Behind ==
  /\ tpc = "begin"
  /\ e_key' = end_key
  /\ cur' \in 0..start_key
  /\ there' = kv
  /\ train_set' = {}
  /\ due' = reported
  /\ tpc' = "scan"
  /\ UNCHANGED <<keysv, l_watermark, model>>

\* snapshpot_train_labels, up to the end of the guarded block and the seek.  The
\* iterator starts at the first key of the leaf that answers for start_key.
Snapshot ==
  /\ tpc = "begin"
  /\ e_key' = end_key
  /\ cur' \in 0..(start_key - 1)
  /\ there' = kv
  /\ train_set' = {}
  /\ due' = reported
  /\ tpc' = "scan"
  /\ UNCHANGED <<keysv, l_watermark, model>>

\* Faulty variant: the last key of the snapshot is left out.
Ahead_Open(K) == {k \in K : k > cur /\ k < e_key}

\* Keys of K before the iterator, up to the last one of the snapshot.
Ahead(K) == {k \in K : k > cur /\ k <= e_key}

\* One round of the loop over the index.  The iterator works on a copy of the
\* leaf (see XTreeIter): it skips no key that was there when the walk began, and
\* may or may not return one inserted since.
ScanKey(k) ==
  /\ tpc = "scan" /\ k \in Ahead(kv)
  /\ \A j \in Ahead(there) : k <= j
  /\ cur' = k
  /\ train_set' = train_set \cup {k}
  /\ UNCHANGED <<keysv, l_watermark, tpc, e_key, there, model, due>>

\* The loop ends; train_ml and cal_error.
ScanEnd ==
  /\ tpc = "scan" /\ Ahead(there) = {}
  /\ model' = train_set
  /\ tpc' = "done"
  /\ UNCHANGED <<keysv, l_watermark, e_key, cur, there, train_set, due>>

\* l_watermark += 1, and the model is returned.
TrainDone ==
  /\ tpc = "done"
  /\ l_watermark' = l_watermark + 1
  /\ tpc' = "idle"
  /\ UNCHANGED <<keysv, e_key, cur, there, train_set, model, due>>

Train == TrainBegin \/ Snapshot \/ (\E k \in Key : ScanKey(k)) \/ ScanEnd \/ TrainDone

Next == (\E k \in Key : InsertKey(k) \/ update_key(k)) \/ Train

Spec == Init /\ [][Next]_vars

(***************************************************************************)
(* A training that was started runs to its end, and whoever owns the       *)
(* trainer starts one when need_train says so.                             *)
(***************************************************************************)
FairSpec == Spec /\ WF_vars(Train)

-----------------------------------------------------------------------------
TypeOK ==
  /\ kv \subseteq Key /\ reported \subseteq kv
  /\ start_key \in 1..(MaxKey + 1) /\ end_key \in 0..MaxKey
  /\ l_watermark \in Nat /\ h_watermark \in Nat /\ nkeys_update \in Nat
  /\ tpc \in {"idle", "begin", "scan", "done"}
  /\ e_key \in 0..MaxKey /\ cur \in 0..MaxKey /\ there \subseteq kv
  /\ train_set \subseteq Key /\ model \subseteq Key /\ due \subseteq Key
  /\ late \subseteq reported

\* The watermarks never drift apart, although the two are read and written
\* under different locking: one training answers all reports so far, so the
\* owner never trains again and again for nothing, and never runs behind.
WatermarksClose ==
  /\ h_watermark - l_watermark \in {0, 1}
  /\ tpc # "idle" => need_train

\* A trained model covers every key reported before its snapshot, although keys
\* are inserted before, behind and at the iterator while it walks.
ModelCoversSnapshot == tpc = "done" => due \subseteq model

\* A key that was reported is in the model, or the model is going to be trained
\* again, unless the report came during a training, after its snapshot.  So none
\* is lost where trainings and reports alternate, as in train_db.
OnlyLateReportsLost == reported \subseteq model \cup late \/ need_train

\* The same without the exception: update_key raises the watermark "to notify
\* retrain", and "the trainer may be trained in a (background) thread".
NoLostRetrain == reported \subseteq model \/ need_train

\* Every key reported in time comes to be in the model.
ReportedIsTrained == \A k \in Key : (k \in reported \ late) ~> (k \in model)

=============================================================================
