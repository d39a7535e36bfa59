---------------------------- MODULE AtomicRWProofs ----------------------------
(***************************************************************************)
(* Proofs about AtomicRW for every number of readers, words, updates and   *)
(* every width of the sequence number.                                     *)
(***************************************************************************)
EXTENDS AtomicRW, TLAPS

\* The sequence number of the last update whose seq was stored: begin_write
\* keeps it in wseq while both fields hold kInvalidSeq.
Committed == IF wpc \in {"idle", "done"} THEN seq ELSE wseq

\* Where the writer is determines the two sequence numbers, and the payload is
\* one whole update except between begin_write and done_write.
WriterInv ==
  /\ wpc = "idle" => seq_check = seq
  /\ wpc # "idle" => seq_check = kInvalidSeq
  /\ wpc = "begin" => wseq = seq
  /\ wpc = "write" => seq = kInvalidSeq
  /\ wpc = "write" => \A w \in Word : w \notin todo => payload[w] = ver + 1
  /\ wpc # "write" => \A w \in Word : payload[w] = ver

\* A reader in the middle of a copy that has loaded a valid seq: ...
Started(r) == 0 \in got[r] /\ buf[r][0] # kInvalidSeq /\ ver - v0[r] < SeqMod

ReaderInv(r) ==
  /\ v0[r] <= v1[r] /\ v1[r] <= ver
  /\ got[r] # {} => 0 \in got[r]
  /\ buf[r][0] \in Seqs
  \* ... the loaded seq and the committed one differ by the updates since, ...
  /\ Words + 1 \notin got[r] /\ Started(r)
       => Committed = Plus(buf[r][0], ver - v0[r])
  \* ... the words loaded so far are those of the object unless an update began.
  /\ Words + 1 \notin got[r] /\ Started(r) /\ ver = v0[r] /\ wpc \in {"idle", "done"}
       => \A w \in Word : w \in got[r] => buf[r][w] = ver
  \* A finished copy is whole if it is consistent.
  /\ got[r] = Field /\ Consistent(buf[r]) /\ v1[r] - v0[r] < SeqMod
       => \A w \in Word : buf[r][w] = v1[r]
  /\ Words + 1 \in got[r] => got[r] = Field
  /\ rpc[r] = "ok" => got[r] = Field /\ Consistent(buf[r])

IInv == TypeOK /\ WriterInv /\ \A r \in Readers : ReaderInv(r)

-----------------------------------------------------------------------------
\* Type correctness: both sequence numbers stay machine integers although they
\* are incremented without a check, and every copy keeps its shape.
THEOREM TypeCorrect == Spec => []TypeOK
<1> USE AtomicRWAssumption
<1>0. kInvalidSeq \in Seqs /\ kInvalidSeq + 1 \in Seqs
  BY DEF Seqs, kInvalidSeq
<1>1. Init => TypeOK
  BY <1>0 DEF Init, TypeOK
<1>2. TypeOK /\ [Next]_vars => TypeOK'
  <2> SUFFICES ASSUME TypeOK, [Next]_vars PROVE TypeOK'
    OBVIOUS
  <2>1. CASE Write
    <3>1. CASE BeginWriteCheck
      BY <1>0, <3>1 DEF BeginWriteCheck, TypeOK, reader
    <3>2. CASE BeginWriteSeq
      BY <1>0, <3>2 DEF BeginWriteSeq, TypeOK, reader
    <3>3. ASSUME NEW w \in Word, WriteWord(w) PROVE TypeOK'
      BY <3>3 DEF WriteWord, TypeOK, reader
    <3>4. CASE DoneWriteSeq
      <4>1. Plus(wseq, 1) \in Seqs
        BY DEF TypeOK, Plus, Seqs
      <4>2. QED
        BY <3>4, <4>1 DEF DoneWriteSeq, TypeOK, reader
    <3>5. CASE DoneWriteCheck
      BY <3>5 DEF DoneWriteCheck, TypeOK, reader
    <3>6. QED
      BY <2>1, <3>1, <3>2, <3>3, <3>4, <3>5 DEF Write
  <2>2. ASSUME NEW r \in Readers, Read(r) PROVE TypeOK'
    <3>1. CASE StartRead(r)
      BY <3>1 DEF StartRead, TypeOK, object, writer
    <3>2. CASE ReadError(r)
      BY <3>2 DEF ReadError, TypeOK, object, writer
    <3>3. CASE ReturnRead(r)
      BY <3>3 DEF ReturnRead, TypeOK, object, writer
    <3>4. CASE RetryRead(r)
      BY <3>4 DEF RetryRead, TypeOK, object, writer
    <3>5. ASSUME NEW f \in Field, ReadField(r, f) PROVE TypeOK'
      <4>1. Load(f) \in Nat
        BY DEF Load, TypeOK, Field, Word, Seqs
      <4>2. [buf[r] EXCEPT ![f] = Load(f)] \in [Field -> Nat]
        BY <4>1 DEF TypeOK
      <4>3. QED
        BY <3>5, <4>2 DEF ReadField, TypeOK, object, writer
    <3>6. QED
      BY <2>2, <3>1, <3>2, <3>3, <3>4, <3>5 DEF Read
  <2>3. CASE UNCHANGED vars
    BY <2>3 DEF vars, object, writer, reader, TypeOK
  <2>4. QED
    BY <2>1, <2>2, <2>3 DEF Next
<1>3. QED
  BY <1>1, <1>2, PTL DEF Spec

-----------------------------------------------------------------------------
\* Sequence-number arithmetic: adding n < SeqMod is injective in n ...
LEMMA PlusInjective ==
  ASSUME NEW s \in Seqs, NEW n \in Nat, n < SeqMod, Plus(s, n) = s
  PROVE  n = 0
BY AtomicRWAssumption DEF Seqs, Plus

\* ... and n + 1 steps are n steps and one more.
LEMMA PlusOne ==
  ASSUME NEW s \in Seqs, NEW n \in Nat, n + 1 < SeqMod
  PROVE  Plus(Plus(s, n), 1) = Plus(s, n + 1)
BY AtomicRWAssumption DEF Seqs, Plus

\* The writer's steps preserve what holds of the object.
LEMMA WriterStep == IInv /\ [Next]_vars => WriterInv'
<1> SUFFICES ASSUME IInv, [Next]_vars PROVE WriterInv'
  OBVIOUS
<1> USE DEF IInv, WriterInv
<1>1. CASE BeginWriteCheck
  BY <1>1 DEF BeginWriteCheck
<1>2. CASE BeginWriteSeq
  BY <1>2 DEF BeginWriteSeq
<1>3. ASSUME NEW w \in Word, WriteWord(w) PROVE WriterInv'
  BY <1>3 DEF WriteWord, TypeOK
<1>4. CASE DoneWriteSeq
  BY <1>4 DEF DoneWriteSeq
<1>5. CASE DoneWriteCheck
  BY <1>5 DEF DoneWriteCheck
<1>6. CASE UNCHANGED <<object, writer>>
  BY <1>6 DEF object, writer
<1>7. ASSUME NEW r \in Readers, Read(r) PROVE UNCHANGED <<object, writer>>
  BY <1>7 DEF Read, StartRead, ReadError, ReturnRead, RetryRead, ReadField
<1>8. QED
  BY <1>1, <1>2, <1>3, <1>4, <1>5, <1>6, <1>7 DEF Next, Write, vars

\* A step of the writer preserves what holds of a copy in progress: an update
\* that completes moves the committed seq one further.
LEMMA WriteKeepsReader ==
  ASSUME IInv, Write, NEW r \in Readers
  PROVE  ReaderInv(r)'
<1> USE AtomicRWAssumption DEF IInv
<1>0. UNCHANGED <<rpc, got, buf, v0, v1>>
  BY DEF Write, BeginWriteCheck, BeginWriteSeq, WriteWord, DoneWriteSeq,
         DoneWriteCheck, reader
<1>1. ver' \in Nat /\ v0[r] \in Nat /\ v1[r] \in Nat /\ ver \in Nat /\ buf[r][0] \in Nat
  BY DEF Write, BeginWriteCheck, BeginWriteSeq, WriteWord, DoneWriteSeq,
         DoneWriteCheck, TypeOK, Field
<1>2. CASE ~DoneWriteSeq
  <2>1. ver' = ver /\ Committed' = Committed
    BY <1>2 DEF Write, BeginWriteCheck, BeginWriteSeq, WriteWord, DoneWriteCheck,
                Committed, WriterInv
  <2>2. wpc' \in {"idle", "done"} => wpc \in {"idle", "done"}
    BY <1>2 DEF Write, BeginWriteCheck, BeginWriteSeq, WriteWord, DoneWriteCheck
  <2>3. QED
    BY <1>0, <2>1, <2>2 DEF ReaderInv, Started, Consistent
<1>3. CASE DoneWriteSeq
  <2>1. ver' = ver + 1 /\ Committed' = Plus(Committed, 1)
    BY <1>3 DEF DoneWriteSeq, Committed
  <2>2. v0'[r] <= v1'[r] /\ v1'[r] <= ver' /\ ver' # v0'[r]
    BY <1>0, <1>1, <2>1 DEF ReaderInv
  <2>3. ASSUME Words + 1 \notin got[r], Started(r)'
        PROVE  Committed' = Plus(buf[r][0], ver' - v0[r])
    <3>1. Started(r) /\ ver - v0[r] \in Nat /\ ver - v0[r] + 1 < SeqMod
      BY <1>0, <1>1, <2>1, <2>3 DEF Started, ReaderInv
    <3>2. buf[r][0] \in Seqs
      BY DEF ReaderInv
    <3>3. QED
      BY <2>1, <2>3, <3>1, <3>2, <1>1, PlusOne DEF ReaderInv
  <2>4. QED
    BY <1>0, <2>2, <2>3 DEF ReaderInv, Consistent
<1>4. QED
  BY <1>2, <1>3

\* Loading the next field preserves it: the last field, seq_check, equals the
\* loaded seq only if no update completed or began since.
LEMMA LoadKeepsReader ==
  ASSUME IInv, Ordered, NEW r \in Readers, NEW f \in Field, ReadField(r, f)
  PROVE  ReaderInv(r)'
<1> USE AtomicRWAssumption DEF IInv
<1>0. /\ UNCHANGED <<seq, payload, seq_check, wpc, wseq, ver, rpc>>
      /\ got'[r] = got[r] \cup {f}
      /\ buf'[r] = [buf[r] EXCEPT ![f] = Load(f)]
      /\ v0'[r] = IF got[r] = {} THEN ver ELSE v0[r]
      /\ v1'[r] = ver
      /\ \A g \in Field : g < f => g \in got[r]
      /\ f \notin got[r] /\ rpc[r] = "read"
  BY DEF ReadField, MayLoad, object, writer, TypeOK
<1>1. /\ ver \in Nat /\ v0[r] \in Nat /\ v1[r] \in Nat /\ seq \in Seqs
      /\ seq_check \in Seqs /\ got[r] \subseteq Field /\ buf[r] \in [Field -> Nat]
      /\ 0 \in Field /\ Words + 1 \in Field /\ \A w \in Word : w \in Field
      /\ \A w \in Word : w # 0 /\ w # Words + 1
  BY DEF TypeOK, Field, Word
<1>2. Committed' = Committed
  BY <1>0 DEF Committed
<1>3. CASE f = 0
  <2>1. got[r] = {}
    BY <1>0, <1>3 DEF ReaderInv
  <2>2. got'[r] = {0} /\ v0'[r] = ver /\ buf'[r][0] = seq /\ ver - v0'[r] = 0
    BY <1>0, <1>1, <1>3, <2>1 DEF Load
  <2>3. buf'[r][0] # kInvalidSeq => Committed = Plus(buf'[r][0], 0)
    BY <1>1, <2>2 DEF Committed, WriterInv, Plus, Seqs, TypeOK
  <2>4. Words + 1 \notin got'[r] /\ \A w \in Word : w \notin got'[r]
    BY <1>1, <2>2
  <2>5. got'[r] # Field
    BY <1>1, <2>4
  <2>6. QED
    BY <1>0, <1>1, <1>2, <2>2, <2>3, <2>4, <2>5 DEF ReaderInv, Started
<1>4. CASE f \in Word
  <2>1. 0 \in got[r] /\ v0'[r] = v0[r] /\ buf'[r][0] = buf[r][0] /\ f # Words + 1
    BY <1>0, <1>1, <1>4 DEF Word
  <2>2. buf'[r][f] = payload[f] /\ \A g \in Field : g # f => buf'[r][g] = buf[r][g]
    BY <1>0, <1>1, <1>4 DEF Load
  <2>3. Words + 1 \notin got[r]
    BY <1>0, <1>1, <1>4 DEF ReaderInv
  <2>4. Words + 1 \notin got'[r] /\ got'[r] # Field
    BY <1>0, <1>1, <2>1, <2>3
  <2>5. wpc \in {"idle", "done"} => payload[f] = ver
    BY <1>4 DEF WriterInv
  <2>6. ASSUME Started(r)', ver' = v0'[r], wpc' \in {"idle", "done"},
               NEW w \in Word, w \in got'[r]
        PROVE  buf'[r][w] = ver'
    BY <1>0, <1>1, <2>1, <2>2, <2>3, <2>5, <2>6 DEF ReaderInv, Started
  <2>7. Started(r)' => Started(r)
    BY <1>0, <2>1 DEF Started
  <2>8. QED
    BY <1>0, <1>1, <1>2, <2>1, <2>3, <2>4, <2>6, <2>7 DEF ReaderInv
<1>5. CASE f = Words + 1
  <2>1. got'[r] = Field
    BY <1>0, <1>1, <1>5 DEF Field
  <2>2. 0 \in got[r] /\ v0'[r] = v0[r] /\ buf'[r][0] = buf[r][0] /\ Words + 1 \notin got[r]
    BY <1>0, <1>1, <1>5, 0 < Words + 1
  <2>3. buf'[r][Words + 1] = seq_check /\ \A w \in Word : buf'[r][w] = buf[r][w]
    BY <1>0, <1>1, <1>5 DEF Load
  <2>4. ASSUME Consistent(buf[r])', v1'[r] - v0'[r] < SeqMod
        PROVE  \A w \in Word : buf'[r][w] = v1'[r]
    <3>1. Started(r) /\ seq_check = buf[r][0] /\ seq_check # kInvalidSeq
      BY <1>0, <2>2, <2>3, <2>4 DEF Consistent, Started
    <3>2. wpc = "idle" /\ Committed = buf[r][0]
      BY <3>1 DEF WriterInv, Committed
    <3>3. ver - v0[r] \in Nat /\ ver - v0[r] < SeqMod /\ Plus(buf[r][0], ver - v0[r]) = buf[r][0]
      BY <1>1, <2>2, <3>1, <3>2 DEF ReaderInv, Started
    <3>4. ver - v0[r] = 0
      BY <3>3, PlusInjective DEF ReaderInv
    <3>5. ver = v0[r]
      BY <1>1, <3>4
    <3>6. \A w \in Word : w \in got[r]
      BY <1>0, <1>1, <1>5 DEF Word
    <3>7. QED
      BY <1>0, <2>2, <2>3, <3>1, <3>2, <3>5, <3>6 DEF ReaderInv
  <2>5. v0'[r] <= v1'[r] /\ v1'[r] <= ver'
    BY <1>0, <1>1, <2>2 DEF ReaderInv
  <2>6. QED
    BY <1>0, <1>1, <2>1, <2>2, <2>4, <2>5 DEF ReaderInv
<1>6. QED
  BY <1>3, <1>4, <1>5 DEF Field, Word

\* The other steps of a reader touch only its own copy.
LEMMA ReadKeepsReader ==
  ASSUME IInv, Ordered, NEW p \in Readers, Read(p), NEW r \in Readers
  PROVE  ReaderInv(r)'
<1> USE AtomicRWAssumption DEF IInv
<1>0. UNCHANGED <<ver, wpc>> /\ Committed' = Committed
  BY DEF Read, StartRead, ReadError, ReturnRead, RetryRead, ReadField, object,
         writer, Committed
<1>1. CASE r # p
  <2>1. /\ rpc'[r] = rpc[r] /\ got'[r] = got[r] /\ buf'[r] = buf[r]
        /\ v0'[r] = v0[r] /\ v1'[r] = v1[r]
    BY <1>1 DEF Read, StartRead, ReadError, ReturnRead, RetryRead, ReadField, TypeOK
  <2>2. QED
    BY <1>0, <2>1 DEF ReaderInv, Started
<1>2. CASE r = p
  <2>1. CASE \E f \in Field : ReadField(r, f)
    BY <2>1, LoadKeepsReader
  <2>2. CASE StartRead(r) \/ RetryRead(r)
    <3>1. /\ got'[r] = {} /\ buf'[r] = buf[r] /\ v0'[r] = v0[r] /\ v1'[r] = v1[r]
          /\ rpc'[r] # "ok"
      BY <2>2 DEF StartRead, RetryRead, TypeOK
    <3>2. got'[r] # Field
      BY <3>1 DEF Field
    <3>3. QED
      BY <1>0, <3>1, <3>2 DEF ReaderInv, Started
  <2>3. CASE ReadError(r)
    <3>1. /\ got'[r] = got[r] /\ buf'[r] = buf[r] /\ v0'[r] = v0[r]
          /\ v1'[r] = v1[r] /\ rpc'[r] # "ok"
      BY <2>3 DEF ReadError, TypeOK
    <3>2. QED
      BY <1>0, <3>1 DEF ReaderInv, Started
  <2>4. CASE ReturnRead(r)
    <3>1. /\ got'[r] = got[r] /\ buf'[r] = buf[r] /\ v0'[r] = v0[r]
          /\ v1'[r] = v1[r] /\ got[r] = Field /\ Consistent(buf[r])
      BY <2>4 DEF ReturnRead
    <3>2. QED
      BY <1>0, <3>1 DEF ReaderInv, Started
  <2>5. QED
    BY <1>2, <2>1, <2>2, <2>3, <2>4 DEF Read
<1>3. QED
  BY <1>1, <1>2

\* The inductive invariant holds in every reachable state of a protocol whose
\* copies load ascending addresses.
LEMMA Invariance == ASSUME Ordered PROVE Spec => []IInv
<1>1. Init => IInv
  <2> SUFFICES ASSUME Init PROVE IInv
    OBVIOUS
  <2>1. TypeOK
    BY AtomicRWAssumption DEF Init, TypeOK, Seqs, kInvalidSeq
  <2>2. WriterInv
    BY DEF Init, WriterInv
  <2>3. ASSUME NEW r \in Readers PROVE ReaderInv(r)
    <3>1. got[r] = {} /\ v0[r] = 0 /\ v1[r] = 0 /\ ver = 0 /\ rpc[r] = "idle"
          /\ buf[r] = [f \in Field |-> 0]
      BY DEF Init
    <3>2. 0 \in Field /\ buf[r][0] = 0 /\ 0 \in Seqs
      BY <3>1, AtomicRWAssumption DEF Field, Seqs
    <3>3. got[r] # Field
      BY <3>1, <3>2
    <3>4. QED
      BY <3>1, <3>2, <3>3 DEF ReaderInv, Started
  <2>4. QED
    BY <2>1, <2>2, <2>3 DEF IInv
<1>2. IInv /\ TypeOK' /\ [Next]_vars => IInv'
  <2> SUFFICES ASSUME IInv, TypeOK', [Next]_vars PROVE IInv'
    OBVIOUS
  <2>1. WriterInv'
    BY WriterStep
  <2>2. ASSUME NEW r \in Readers PROVE ReaderInv(r)'
    <3>1. CASE Write
      BY <3>1, WriteKeepsReader
    <3>2. CASE \E p \in Readers : Read(p)
      BY <3>2, ReadKeepsReader
    <3>3. CASE UNCHANGED vars
      BY <3>3 DEF vars, object, writer, reader, IInv, ReaderInv, Started, Committed
    <3>4. QED
      BY <3>1, <3>2, <3>3 DEF Next
  <2>3. QED
    BY <2>1, <2>2 DEF IInv
<1>3. QED
  BY <1>1, <1>2, TypeCorrect, PTL DEF Spec

\* A copy that atomic_read returns is one whole update, the last one complete
\* when seq_check was loaded, if the copy loads ascending addresses and fewer
\* than SeqMod updates complete while it is made.
THEOREM ReadsAreAtomic == ASSUME Ordered PROVE Spec => []NoTornRead
<1>1. IInv => NoTornRead
  BY DEF IInv, ReaderInv, NoTornRead
<1>2. QED
  BY <1>1, Invariance, PTL

-----------------------------------------------------------------------------
\* The bound on the number of updates, for runs in which seq cannot come round.
VerBound == ver <= MaxWrites /\ (wpc \in {"begin", "write"} => ver < MaxWrites)

LEMMA VerBounded == Spec => []VerBound
<1> USE AtomicRWAssumption
<1>1. Init => VerBound
  BY DEF Init, VerBound
<1>2. TypeOK /\ VerBound /\ [Next]_vars => VerBound'
  BY DEF TypeOK, VerBound, Next, Write, BeginWriteCheck, BeginWriteSeq, WriteWord,
         DoneWriteSeq, DoneWriteCheck, Read, StartRead, ReadError, ReturnRead,
         RetryRead, ReadField, vars, writer, object, reader
<1>3. QED
  BY <1>1, <1>2, TypeCorrect, PTL DEF Spec

\* The values the readers hold in the abstract register.
St == [r \in Readers |-> IF rpc[r] = "read" /\ got[r] # {} THEN "sampled" ELSE rpc[r]]
Val == [r \in Readers |-> IF rpc[r] = "ok" THEN Whole(buf[r]) ELSE v1[r]]

\* With no wrap a returned copy is the last sample.
LEMMA ValIsSample ==
  ASSUME IInv, VerBound, MaxWrites < SeqMod, NEW r \in Readers, got[r] = Field,
         Consistent(buf[r])
  PROVE  Whole(buf[r]) = v1[r]
<1>1. v1[r] \in Nat /\ v0[r] \in Nat /\ v1[r] - v0[r] < SeqMod
  BY AtomicRWAssumption DEF IInv, TypeOK, ReaderInv, VerBound
<1>2. \A w \in Word : buf[r][w] = v1[r]
  BY <1>1 DEF IInv, ReaderInv
<1>3. 1 \in Word
  BY AtomicRWAssumption DEF Word
<1>4. QED
  BY <1>2, <1>3 DEF Whole

\* The sequence-number protocol implements an atomic register: every step is a
\* step of the register or leaves it unchanged, if the copy loads ascending
\* addresses and the number of updates stays below 2^32.
THEOREM RegisterRefinement ==
  ASSUME Ordered, MaxWrites < SeqMod PROVE Spec => ImplementsRegister
<1> USE AtomicRWAssumption
<1>1. Init => Register!Init
  BY DEF Init, Register!Init
<1>2. IInv /\ VerBound /\ [Next]_vars => [Register!Next]_(Register!vars)
  <2> SUFFICES ASSUME IInv, VerBound, [Next]_vars
               PROVE  [Register!Next]_(Register!vars)
    OBVIOUS
  <2> USE DEF IInv
  <2>0. Field # {}
    <3>1. 0 \in Field
      BY DEF Field
    <3>2. QED
      BY <3>1
  <2>1. CASE Write
    <3>1. UNCHANGED <<St, Val>>
      BY <2>1 DEF Write, BeginWriteCheck, BeginWriteSeq, WriteWord, DoneWriteSeq,
                  DoneWriteCheck, reader, St, Val
    <3>2. ver' = ver \/ ver' = ver + 1
      BY <2>1 DEF Write, BeginWriteCheck, BeginWriteSeq, WriteWord, DoneWriteSeq,
                  DoneWriteCheck
    <3>3. QED
      BY <3>1, <3>2 DEF St, Val, Register!Next, Register!Update, Register!vars
  <2>2. ASSUME NEW r \in Readers, Read(r) PROVE [Register!Next]_(Register!vars)
    <3>0. ver' = ver
      BY <2>2 DEF Read, StartRead, ReadError, ReturnRead, RetryRead, ReadField, writer
    <3>1. CASE StartRead(r)
      <4>1. St' = [St EXCEPT ![r] = "read"] /\ St[r] \in {"idle", "ok", "err"}
        BY <3>1 DEF StartRead, St, TypeOK
      <4>2. rpc[r] = "ok" => Whole(buf[r]) = v1[r]
        BY ValIsSample DEF ReaderInv
      <4>3. Val' = Val
        BY <3>1, <4>2 DEF StartRead, Val, TypeOK
      <4>4. QED
        BY <3>0, <4>1, <4>3 DEF St, Val, Register!Next, Register!Call
    <3>2. CASE ReadError(r)
      <4>1. St' = [St EXCEPT ![r] = "err"] /\ St[r] \in {"read", "sampled"}
        BY <3>2 DEF ReadError, St, TypeOK
      <4>2. Val' = Val
        BY <3>2 DEF ReadError, Val, TypeOK
      <4>3. QED
        BY <3>0, <4>1, <4>2 DEF St, Val, Register!Next, Register!Fail
    <3>3. CASE ReturnRead(r)
      <4>1. St' = [St EXCEPT ![r] = "ok"] /\ St[r] = "sampled"
        BY <2>0, <3>3 DEF ReturnRead, St, TypeOK
      <4>2. Whole(buf[r]) = v1[r]
        BY <3>3, ValIsSample DEF ReturnRead
      <4>3. Val' = Val
        BY <3>3, <4>2 DEF ReturnRead, Val, TypeOK
      <4>4. QED
        BY <3>0, <4>1, <4>3 DEF St, Val, Register!Next, Register!Return
    <3>4. CASE RetryRead(r)
      <4>1. St[r] = "sampled"
        BY <2>0, <3>4 DEF RetryRead, St
      <4>2. St' = [St EXCEPT ![r] = "read"] \/ St' = [St EXCEPT ![r] = "err"]
        BY <3>4 DEF RetryRead, St, TypeOK
      <4>3. Val' = Val
        BY <3>4 DEF RetryRead, Val, TypeOK
      <4>4. QED
        BY <3>0, <4>1, <4>2, <4>3 DEF St, Val, Register!Next, Register!Again, Register!Fail
    <3>5. ASSUME NEW f \in Field, ReadField(r, f) PROVE [Register!Next]_(Register!vars)
      <4>1. St' = [St EXCEPT ![r] = "sampled"] /\ St[r] \in {"read", "sampled"}
        BY <3>5 DEF ReadField, St, TypeOK
      <4>2. Val' = [Val EXCEPT ![r] = ver]
        BY <3>5 DEF ReadField, Val, TypeOK
      <4>3. QED
        BY <3>0, <4>1, <4>2 DEF St, Val, Register!Next, Register!Sample
    <3>6. QED
      BY <2>2, <3>1, <3>2, <3>3, <3>4, <3>5 DEF Read
  <2>3. CASE UNCHANGED vars
    BY <2>3 DEF vars, reader, writer, Register!vars, Whole
  <2>4. QED
    BY <2>1, <2>2, <2>3 DEF Next
<1>3. QED
  BY <1>1, <1>2, Invariance, VerBounded, PTL DEF Spec, ImplementsRegister, Register!Spec

=============================================================================
