------------------------------- MODULE AtomicRW -------------------------------
(***************************************************************************)
(* The sequence-number protocol of xcomm/src/atomic_rw: one writer updates *)
(* a WrappedType in place (begin_write, stores to the payload, done_write) *)
(* while readers copy the whole object word by word, locally or by a       *)
(* one-sided RDMA READ, and AtomicRW::atomic_read retries until the copy   *)
(* is consistent().                                                        *)
(*                                                                         *)
(* Every store of the writer and every load of a reader is one step: both  *)
(* seqs are volatile and x86 keeps stores in order.  The payload is Words  *)
(* machine words; a word is abstracted to the number of the write that     *)
(* stored it, so a copy is torn when its words carry two numbers.  A       *)
(* sequence number is a machine integer of SeqMod values (2^32 in the      *)
(* code).                                                                  *)
(***************************************************************************)
EXTENDS Integers, FiniteSets

CONSTANTS
  Readers,      \* threads that call atomic_read
  Words,        \* words of the payload
  SeqMod,       \* number of values of seq and seq_check
  Ordered,      \* TRUE: the copy loads ascending addresses (OrderedRWOp);
                \* FALSE: in any order (LocalRWOp's memcpy)
  MaxWrites,    \* bound: number of updates
  MaxRetry      \* retry_cnt limit of atomic_read (1000000 in the code)

ASSUME AtomicRWAssumption ==
  /\ Words \in Nat \ {0}
  /\ SeqMod \in Nat /\ SeqMod >= 2
  /\ Ordered \in BOOLEAN
  /\ MaxWrites \in Nat
  /\ MaxRetry \in Nat

VARIABLES
  seq, payload, seq_check,    \* the WrappedType
  wpc, wseq, todo,            \* the writer: place, begin_write's result,
                              \* payload words still to store
  ver,                        \* number of updates whose new seq is stored
  rpc, got, buf, retry_cnt,   \* a reader: place, fields copied so far,
                              \* the copy, the member retry_cnt
  asserted,                   \* ASSERT(false) of atomic_read was reached
  v0, v1                      \* ghost: ver at the first and the last load

object == <<seq, payload, seq_check>>
writer == <<wpc, wseq, todo, ver>>
reader == <<rpc, got, buf, retry_cnt, asserted, v0, v1>>
vars   == <<object, writer, reader>>

Word  == 1..Words
Field == 0..(Words + 1)       \* seq, the payload words, seq_check
Seqs  == 0..(SeqMod - 1)
kInvalidSeq == 0

\* u32 addition
Plus(s, n) == IF s + n < SeqMod THEN s + n ELSE s + n - SeqMod

Load(f) ==
  IF f = 0 THEN seq ELSE IF f = Words + 1 THEN seq_check ELSE payload[f]

\* Faulty variant: the invalid value is not rejected.
Consistent_Invalid(b) == b[0] = b[Words + 1]

\* WrappedType::consistent, on the copy b
Consistent(b) == b[0] = b[Words + 1] /\ b[0] # kInvalidSeq

-----------------------------------------------------------------------------
\* WrappedType(const T&): init() and the first payload.
Init ==
  /\ seq = kInvalidSeq + 1
  /\ seq_check = kInvalidSeq + 1
  /\ payload = [w \in Word |-> 0]
  /\ wpc = "idle" /\ wseq = kInvalidSeq /\ todo = {} /\ ver = 0
  /\ rpc = [r \in Readers |-> "idle"]
  /\ got = [r \in Readers |-> {}]
  /\ buf = [r \in Readers |-> [f \in Field |-> 0]]
  /\ retry_cnt = [r \in Readers |-> 0]
  /\ asserted = [r \in Readers |-> FALSE]
  /\ v0 = [r \in Readers |-> 0]
  /\ v1 = [r \in Readers |-> 0]

-----------------------------------------------------------------------------
\* Faulty variant: seq_check is not invalidated.
BeginWriteCheck_Kept ==
  /\ wpc = "idle" /\ ver < MaxWrites
  /\ wseq' = seq_check
  /\ wpc' = "begin"
  /\ UNCHANGED <<object, todo, ver, reader>>

\* begin_write stores kInvalidSeq to seq_check and then to seq.
BeginWriteCheck ==
  /\ wpc = "idle" /\ ver < MaxWrites
  /\ wseq' = seq_check
  /\ seq_check' = kInvalidSeq
  /\ wpc' = "begin"
  /\ UNCHANGED <<seq, payload, todo, ver, reader>>

BeginWriteSeq ==
  /\ wpc = "begin"
  /\ seq' = kInvalidSeq
  /\ wpc' = "write"
  /\ todo' = Word
  /\ UNCHANGED <<payload, seq_check, wseq, ver, reader>>

\* The caller's stores to the payload, in any order.
WriteWord(w) ==
  /\ wpc = "write" /\ w \in todo
  /\ payload' = [payload EXCEPT ![w] = ver + 1]
  /\ todo' = todo \ {w}
  /\ UNCHANGED <<seq, seq_check, wpc, wseq, ver, reader>>

\* done_write stores seq and then seq_check.
DoneWriteSeq ==
  /\ wpc = "write" /\ todo = {}
  /\ seq' = Plus(wseq, 1)
  /\ ver' = ver + 1
  /\ wpc' = "done"
  /\ UNCHANGED <<payload, seq_check, wseq, todo, reader>>

\* Faulty variant: seq_check is not restored.
DoneWriteCheck_Left ==
  /\ wpc = "done"
  /\ wpc' = "idle"
  /\ UNCHANGED <<object, wseq, todo, ver, reader>>

DoneWriteCheck ==
  /\ wpc = "done"
  /\ seq_check' = seq
  /\ wpc' = "idle"
  /\ UNCHANGED <<seq, payload, wseq, todo, ver, reader>>

Write ==
  \/ BeginWriteCheck \/ BeginWriteSeq
  \/ \E w \in Word : WriteWord(w)
  \/ DoneWriteSeq \/ DoneWriteCheck

-----------------------------------------------------------------------------
\* atomic_read up to the label retry, which clears retry_cnt.
StartRead(r) ==
  /\ rpc[r] # "read" /\ ~asserted[r]
  /\ rpc' = [rpc EXCEPT ![r] = "read"]
  /\ got' = [got EXCEPT ![r] = {}]
  /\ retry_cnt' = [retry_cnt EXCEPT ![r] = 0]
  /\ UNCHANGED <<object, writer, buf, asserted, v0, v1>>

\* op.read copies one more field.
MayLoad(r, f) ==
  /\ f \notin got[r]
  /\ Ordered => \A g \in Field : g < f => g \in got[r]

ReadField(r, f) ==
  /\ rpc[r] = "read" /\ MayLoad(r, f)
  /\ got' = [got EXCEPT ![r] = @ \cup {f}]
  /\ buf' = [buf EXCEPT ![r] = [@ EXCEPT ![f] = Load(f)]]
  /\ v0' = [v0 EXCEPT ![r] = IF got[r] = {} THEN ver ELSE @]
  /\ v1' = [v1 EXCEPT ![r] = ver]
  /\ UNCHANGED <<object, writer, rpc, retry_cnt, asserted>>

\* op.read fails (an RDMA error): atomic_read returns the error.
ReadError(r) ==
  /\ rpc[r] = "read" /\ got[r] # Field
  /\ rpc' = [rpc EXCEPT ![r] = "err"]
  /\ UNCHANGED <<object, writer, got, buf, retry_cnt, asserted, v0, v1>>

\* The copy is consistent: atomic_read returns it.
ReturnRead(r) ==
  /\ rpc[r] = "read" /\ got[r] = Field /\ Consistent(buf[r])
  /\ rpc' = [rpc EXCEPT ![r] = "ok"]
  /\ UNCHANGED <<object, writer, got, buf, retry_cnt, asserted, v0, v1>>

\* It is not: retry_cnt is incremented and compared with the limit, and the
\* jump to retry clears it again.
RetryRead(r) ==
  LET cnt == retry_cnt[r] + 1 IN
  /\ rpc[r] = "read" /\ got[r] = Field /\ ~Consistent(buf[r])
  /\ asserted' = [asserted EXCEPT ![r] = cnt > MaxRetry]
  /\ rpc' = [rpc EXCEPT ![r] = IF cnt > MaxRetry THEN "err" ELSE @]
  /\ retry_cnt' = [retry_cnt EXCEPT ![r] = IF cnt > MaxRetry THEN cnt ELSE 0]
  /\ got' = [got EXCEPT ![r] = {}]
  /\ UNCHANGED <<object, writer, buf, v0, v1>>

Read(r) ==
  \/ StartRead(r) \/ ReadError(r) \/ ReturnRead(r) \/ RetryRead(r)
  \/ \E f \in Field : ReadField(r, f)

Next == Write \/ \E r \in Readers : Read(r)

Spec == Init /\ [][Next]_vars

(***************************************************************************)
(* The writer does not stop between begin_write and done_write, and a      *)
(* thread inside atomic_read keeps running (it spins on the CPU).  Neither *)
(* has to start another operation.                                         *)
(***************************************************************************)
Fairness ==
  /\ WF_vars(wpc # "idle" /\ Write)
  /\ \A r \in Readers : WF_vars(rpc[r] = "read" /\ Read(r))

FairSpec == Spec /\ Fairness

-----------------------------------------------------------------------------
TypeOK ==
  /\ seq \in Seqs /\ seq_check \in Seqs /\ wseq \in Seqs
  /\ payload \in [Word -> Nat]
  /\ wpc \in {"idle", "begin", "write", "done"}
  /\ todo \subseteq Word
  /\ ver \in Nat
  /\ rpc \in [Readers -> {"idle", "read", "ok", "err"}]
  /\ got \in [Readers -> SUBSET Field]
  /\ buf \in [Readers -> [Field -> Nat]]
  /\ retry_cnt \in [Readers -> Nat]
  /\ asserted \in [Readers -> BOOLEAN]
  /\ v0 \in [Readers -> Nat] /\ v1 \in [Readers -> Nat]

\* A copy atomic_read returns is one whole update, and the latest one complete
\* at its last load, unless SeqMod or more updates (2^32) completed during that
\* one copy and the sequence number came round to the same value.
NoTornRead ==
  \A r \in Readers :
    rpc[r] = "ok" /\ v1[r] - v0[r] < SeqMod => \A w \in Word : buf[r][w] = v1[r]

\* A call of atomic_read returns once the updates that disturb it stop: no lost
\* or half-restored sequence number leaves a reader spinning on an object at
\* rest.  The exception is an object whose last update wrapped seq round to
\* kInvalidSeq: it stays unreadable until the next update.
ReadReturns ==
  \A r \in Readers :
    (rpc[r] = "read") ~> (rpc[r] # "read" \/ (wpc = "idle" /\ seq = kInvalidSeq))

\* The object as the linearizable register its readers take it for: the value
\* read is the one the register held at the last load of the copy.
Whole(b) == IF \A w \in Word : b[w] = b[1] THEN b[1] ELSE -1

Register == INSTANCE AtomicRegister WITH
  reg <- ver,
  st  <- [r \in Readers |-> IF rpc[r] = "read" /\ got[r] # {} THEN "sampled"
                            ELSE rpc[r]],
  val <- [r \in Readers |-> IF rpc[r] = "ok" THEN Whole(buf[r]) ELSE v1[r]]

\* Every behaviour of the protocol is one of an atomic register (for runs
\* shorter than SeqMod updates).
ImplementsRegister == Register!Spec

=============================================================================
