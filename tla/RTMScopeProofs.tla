---------------------------- MODULE RTMScopeProofs ----------------------------
(***************************************************************************)
(* Proofs that an RTMScope makes its body atomic, for every number of      *)
(* threads and scopes and all abort limits.                                *)
(***************************************************************************)
EXTENDS RTMScope, TLAPS

\* A thread in the fallback section has the lock to itself.
LockInv ==
  /\ \A t \in Threads : pc[t] \in Holding => lock_
  /\ \A t, u \in Threads : pc[t] \in Holding /\ pc[u] \in Holding => t = u

\* A transaction past the check of the lock that is not doomed: the lock is in
\* its read set and free, and what it read is still there.
TxInv(t) ==
  /\ pc[t] \in {"tx_a", "tx_b", "xend"} /\ ~doomed[t] => "lock" \in rset[t] /\ ~lock_
  /\ pc[t] \in {"tx_b", "xend"} /\ ~doomed[t] => "a" \in rset[t] /\ ra[t] = a
  /\ pc[t] = "xend" /\ ~doomed[t] => "b" \in rset[t] /\ rb[t] = b

\* What a lock holder read is still there until it stores.
CsInv(t) ==
  /\ pc[t] \in {"cs_b", "cs_wa"} => ra[t] = a
  /\ pc[t] = "cs_wb" => a = ra[t] + 1
  /\ pc[t] \in {"cs_wa", "cs_wb"} => rb[t] = b

IInv ==
  /\ TypeOK
  /\ LockInv
  /\ \A t \in Threads : TxInv(t) /\ CsInv(t)
  /\ NoLostUpdate

-----------------------------------------------------------------------------
\* Type correctness of the scopes.
THEOREM TypeCorrect == Spec => []TypeOK
<1> DEFINE PCs == {"idle", "begin", "lock"} \cup InTx \cup Holding
           Zero == [k \in Kinds |-> 0]
<1>1. Init => TypeOK
  <2> SUFFICES ASSUME Init PROVE TypeOK
    OBVIOUS
  <2>1. doomed \in [Threads -> BOOLEAN] /\ lock_ \in BOOLEAN
    BY Zenon DEF Init
  <2>2. aborts \in [Threads -> [Kinds -> Nat]]
    <3>1. Zero \in [Kinds -> Nat]
      OBVIOUS
    <3>2. QED
      BY <3>1 DEF Init
  <2>3. QED
    BY <2>1, <2>2 DEF Init, TypeOK
<1>2. TypeOK /\ [Next]_vars => TypeOK'
  <2> SUFFICES ASSUME TypeOK, [Next]_vars PROVE TypeOK'
    OBVIOUS
  <2>a. ASSUME NEW t, NEW C, Conflicts(t, C) PROVE doomed' \in [Threads -> BOOLEAN]
    BY <2>a, Zenon DEF Conflicts
  <2>b. ASSUME NEW t \in Threads, NEW from, NEW to \in PCs, Goto(t, from, to)
        PROVE  pc' \in [Threads -> PCs]
    BY <2>b DEF Goto, TypeOK
  <2>c. ASSUME NEW t \in Threads, Discard(t)
        PROVE  /\ ra' \in [Threads -> Nat] /\ rb' \in [Threads -> Nat]
               /\ rset' \in [Threads -> SUBSET {"lock", "a", "b"}]
    BY <2>c DEF Discard, TypeOK
  <2>d. ASSUME NEW t \in Threads, Leave(t)
        PROVE  /\ ra' \in [Threads -> Nat] /\ rb' \in [Threads -> Nat]
               /\ rset' \in [Threads -> SUBSET {"lock", "a", "b"}]
               /\ aborts' \in [Threads -> [Kinds -> Nat]] /\ scopes' \in [Threads -> Nat]
    <3>1. Zero \in [Kinds -> Nat]
      OBVIOUS
    <3>2. QED
      BY <2>c, <2>d, <3>1 DEF Leave, TypeOK
  <2>e. /\ "lock" \in PCs /\ "idle" \in PCs /\ "begin" \in PCs /\ "check" \in PCs
        /\ "tx_a" \in PCs /\ "tx_b" \in PCs /\ "xend" \in PCs /\ "cs_a" \in PCs
        /\ "cs_b" \in PCs /\ "cs_wa" \in PCs /\ "cs_wb" \in PCs /\ "unlock" \in PCs
    BY DEF InTx, Holding
  <2>t. TypeOK <=> /\ lock_ \in BOOLEAN /\ a \in Nat /\ b \in Nat /\ commits \in Nat
                   /\ pc \in [Threads -> PCs]
                   /\ ra \in [Threads -> Nat] /\ rb \in [Threads -> Nat]
                   /\ rset \in [Threads -> SUBSET {"lock", "a", "b"}]
                   /\ doomed \in [Threads -> BOOLEAN]
                   /\ aborts \in [Threads -> [Kinds -> Nat]]
                   /\ scopes \in [Threads -> Nat]
    BY DEF TypeOK
  <2> HIDE DEF PCs, Zero
  <2>1. ASSUME NEW t \in Threads, Enter(t) \/ XBegin(t) \/ LockIsFree(t) \/ XAbort(t)
        PROVE  TypeOK'
    <3>1. pc' \in [Threads -> PCs]
      BY <2>1, <2>b, <2>e DEF Enter, XBegin, LockIsFree, XAbort
    <3>2. rset' \in [Threads -> SUBSET {"lock", "a", "b"}]
      BY <2>1 DEF Enter, XBegin, LockIsFree, XAbort, TypeOK
    <3>3. UNCHANGED <<cells, ra, rb, doomed, aborts, scopes, commits>>
      BY <2>1 DEF Enter, XBegin, LockIsFree, XAbort
    <3>4. QED
      BY <3>1, <3>2, <3>3 DEF TypeOK, cells, PCs
  <2>2. ASSUME NEW t \in Threads, TxReadA(t) \/ TxReadB(t) \/ CsReadA(t) \/ CsReadB(t)
        PROVE  TypeOK'
    <3>1. pc' \in [Threads -> PCs]
      BY <2>2, <2>b, <2>e DEF TxReadA, TxReadB, CsReadA, CsReadB
    <3>2. rset' \in [Threads -> SUBSET {"lock", "a", "b"}]
      BY <2>2 DEF TxReadA, TxReadB, CsReadA, CsReadB, TypeOK
    <3>3. ra' \in [Threads -> Nat] /\ rb' \in [Threads -> Nat]
      BY <2>2 DEF TxReadA, TxReadB, CsReadA, CsReadB, TypeOK
    <3>4. UNCHANGED <<cells, doomed, aborts, scopes, commits>>
      BY <2>2 DEF TxReadA, TxReadB, CsReadA, CsReadB
    <3>5. QED
      BY <3>1, <3>2, <3>3, <3>4 DEF TypeOK, cells, PCs
  <2>3. ASSUME NEW t \in Threads, XEnd(t) PROVE TypeOK'
    <3>1. pc' \in [Threads -> PCs] /\ doomed' \in [Threads -> BOOLEAN]
      BY <2>3, <2>a, <2>b, <2>e DEF XEnd
    <3>2. a' \in Nat /\ b' \in Nat /\ commits' \in Nat /\ lock_' = lock_
      BY <2>3 DEF XEnd, TypeOK
    <3>3. QED
      BY <2>3, <2>d, <3>1, <3>2 DEF XEnd, TypeOK, PCs
  <2>4. ASSUME NEW t \in Threads, NEW k \in Kinds, HwAbort(t, k) PROVE TypeOK'
    <3>1. pc' \in [Threads -> PCs]
      BY <2>4, <2>e, <2>t DEF HwAbort
    <3>2. aborts' \in [Threads -> [Kinds -> Nat]]
      <4> DEFINE more == [aborts[t] EXCEPT ![k] = @ + 1]
      <4>1. aborts[t] \in [Kinds -> Nat]
        BY <2>t
      <4>2. more \in [Kinds -> Nat]
        BY <4>1
      <4>3. aborts' = [aborts EXCEPT ![t] = more]
        BY <2>4 DEF HwAbort
      <4> HIDE DEF more
      <4>4. QED
        BY <2>t, <4>2, <4>3
    <3>3. doomed' \in [Threads -> BOOLEAN]
      BY <2>4, <2>t, Zenon DEF HwAbort
    <3>4. UNCHANGED <<cells, scopes, commits>> /\ Discard(t)
      BY <2>4 DEF HwAbort
    <3>5. QED
      BY <2>c, <3>1, <3>2, <3>3, <3>4 DEF TypeOK, PCs, cells
  <2>5. ASSUME NEW t \in Threads, Lock(t) \/ CsWriteA(t) \/ CsWriteB(t) PROVE TypeOK'
    <3>1. pc' \in [Threads -> PCs] /\ doomed' \in [Threads -> BOOLEAN]
      BY <2>5, <2>a, <2>b, <2>e DEF Lock, CsWriteA, CsWriteB
    <3>2. a' \in Nat /\ b' \in Nat /\ commits' \in Nat
      BY <2>5 DEF Lock, CsWriteA, CsWriteB, TypeOK
    <3>3. lock_' \in BOOLEAN
      BY <2>5, <2>t, Zenon DEF Lock, CsWriteA, CsWriteB
    <3>4. UNCHANGED <<ra, rb, rset, aborts, scopes>>
      BY <2>5 DEF Lock, CsWriteA, CsWriteB
    <3>5. QED
      BY <3>1, <3>2, <3>3, <3>4 DEF TypeOK, PCs
  <2>6. ASSUME NEW t \in Threads, Unlock(t) PROVE TypeOK'
    <3>1. pc' \in [Threads -> PCs] /\ doomed' \in [Threads -> BOOLEAN]
      BY <2>6, <2>a, <2>b, <2>e DEF Unlock
    <3>2. lock_' \in BOOLEAN
      BY <2>6, Zenon DEF Unlock
    <3>3. QED
      BY <2>6, <2>d, <3>1, <3>2 DEF Unlock, TypeOK, PCs
  <2>7. CASE UNCHANGED vars
    BY <2>7 DEF vars, cells, TypeOK
  <2>8. QED
    BY <2>1, <2>2, <2>3, <2>4, <2>5, <2>6, <2>7 DEF Next, Step
<1>3. QED
  BY <1>1, <1>2, PTL DEF Spec

-----------------------------------------------------------------------------
\* Only a thread that takes the lock or steps along the fallback section enters
\* or stays in it; the others keep what LockInv says of them.
LEMMA LockStep ==
  ASSUME TypeOK, LockInv, Next PROVE LockInv'
<1> USE DEF Holding, InTx
<1>1. PICK t \in Threads : Enter(t) \/ Step(t)
  BY DEF Next
<1>2. \A u \in Threads : u # t => pc'[u] = pc[u]
  BY <1>1 DEF TypeOK, Step, Enter, XBegin, LockIsFree, XAbort, TxReadA, TxReadB, XEnd,
       HwAbort, Lock, CsReadA, CsReadB, CsWriteA, CsWriteB, Unlock, Goto
<1>3. CASE Lock(t)
  BY <1>2, <1>3 DEF TypeOK, LockInv, Lock, Goto
<1>4. CASE Unlock(t)
  BY <1>2, <1>4 DEF TypeOK, LockInv, Unlock, Goto
<1>5. CASE CsReadA(t) \/ CsReadB(t) \/ CsWriteA(t) \/ CsWriteB(t)
  <2>1. pc[t] \in Holding /\ lock_' = lock_
    BY <1>5 DEF CsReadA, CsReadB, CsWriteA, CsWriteB, Goto, cells
  <2>2. QED
    BY <1>2, <2>1 DEF LockInv
<1>6. CASE Enter(t) \/ XBegin(t) \/ LockIsFree(t) \/ XAbort(t) \/ TxReadA(t) \/ TxReadB(t)
           \/ XEnd(t) \/ \E k \in Kinds : HwAbort(t, k)
  <2>1. pc'[t] \notin Holding /\ lock_' = lock_
    BY <1>6 DEF TypeOK, Enter, XBegin, LockIsFree, XAbort, TxReadA, TxReadB, XEnd, HwAbort,
         Goto, cells
  <2>2. QED
    BY <1>2, <2>1 DEF LockInv
<1>7. QED
  BY <1>1, <1>3, <1>4, <1>5, <1>6 DEF Step

\* What a store of thread t does to the other transactions: none is freed from
\* its doom, and the ones that read the stored cells are doomed.
LEMMA StoreDooms ==
  ASSUME NEW t, NEW C, NEW u \in Threads, Conflicts(t, C)
  PROVE  /\ doomed[u] => doomed'[u]
         /\ u # t /\ pc[u] \in InTx /\ rset[u] \cap C # {} => doomed'[u]
BY Zenon DEF Conflicts

\* With the lock taken every transaction past its check of the lock is doomed.
LEMMA LockDooms ==
  ASSUME IInv, lock_, NEW u \in Threads, pc[u] \in {"tx_a", "tx_b", "xend"} PROVE doomed[u]
BY DEF IInv, TxInv

\* A step that leaves the cells alone keeps the invariant.
LEMMA QuietStep ==
  ASSUME IInv, NEW t \in Threads,
         \/ Enter(t) \/ XBegin(t) \/ LockIsFree(t) \/ XAbort(t) \/ TxReadA(t) \/ TxReadB(t)
         \/ CsReadA(t) \/ CsReadB(t) \/ \E k \in Kinds : HwAbort(t, k)
  PROVE  (\A u \in Threads : TxInv(u)' /\ CsInv(u)') /\ NoLostUpdate'
<1> USE DEF InTx, Holding
<1>1. TypeOK
  BY DEF IInv
<1>2. UNCHANGED cells /\ UNCHANGED commits
  BY DEF Enter, XBegin, LockIsFree, XAbort, TxReadA, TxReadB, CsReadA, CsReadB, HwAbort
<1>3. ASSUME NEW u \in Threads, u # t PROVE TxInv(u)' /\ CsInv(u)'
  <2>1. pc'[u] = pc[u] /\ ra'[u] = ra[u] /\ rb'[u] = rb[u] /\ rset'[u] = rset[u]
    BY <1>1, <1>3 DEF TypeOK, Enter, XBegin, LockIsFree, XAbort, TxReadA, TxReadB, CsReadA,
         CsReadB, HwAbort, Goto, Discard
  <2>2. doomed'[u] = doomed[u]
    BY <1>1, <1>3 DEF TypeOK, Enter, XBegin, LockIsFree, XAbort, TxReadA, TxReadB, CsReadA,
         CsReadB, HwAbort
  <2>3. QED
    BY <1>2, <2>1, <2>2 DEF IInv, TxInv, CsInv, cells
<1>4. TxInv(t)'
  <2>1. CASE LockIsFree(t)
    BY <1>1, <2>1 DEF TypeOK, LockIsFree, Goto, TxInv, cells
  <2>2. CASE TxReadA(t)
    BY <1>1, <2>2 DEF IInv, TypeOK, TxReadA, Goto, TxInv, cells
  <2>3. CASE TxReadB(t)
    BY <1>1, <2>3 DEF IInv, TypeOK, TxReadB, Goto, TxInv, cells
  <2>4. CASE \/ Enter(t) \/ XBegin(t) \/ XAbort(t) \/ CsReadA(t) \/ CsReadB(t)
             \/ \E k \in Kinds : HwAbort(t, k)
    <3>1. pc'[t] \notin {"tx_a", "tx_b", "xend"}
      BY <1>1, <2>4 DEF TypeOK, Enter, XBegin, XAbort, CsReadA, CsReadB, HwAbort, Goto
    <3>2. QED
      BY <3>1 DEF TxInv
  <2>5. QED
    BY <2>1, <2>2, <2>3, <2>4
<1>5. CsInv(t)'
  <2>1. CASE CsReadA(t)
    BY <1>1, <2>1 DEF TypeOK, CsReadA, Goto, CsInv, cells
  <2>2. CASE CsReadB(t)
    BY <1>1, <2>2 DEF IInv, TypeOK, CsReadB, Goto, CsInv, cells
  <2>3. CASE \/ Enter(t) \/ XBegin(t) \/ LockIsFree(t) \/ XAbort(t) \/ TxReadA(t)
             \/ TxReadB(t) \/ \E k \in Kinds : HwAbort(t, k)
    <3>1. pc'[t] \notin {"cs_b", "cs_wa", "cs_wb"}
      BY <1>1, <2>3 DEF TypeOK, Enter, XBegin, LockIsFree, XAbort, TxReadA, TxReadB, HwAbort, Goto
    <3>2. QED
      BY <3>1 DEF CsInv
  <2>4. QED
    BY <2>1, <2>2, <2>3
<1>6. NoLostUpdate'
  <2>1. \A u \in Threads : pc'[u] = "cs_wb" <=> pc[u] = "cs_wb"
    BY <1>1 DEF TypeOK, Enter, XBegin, LockIsFree, XAbort, TxReadA, TxReadB, CsReadA,
         CsReadB, HwAbort, Goto
  <2>2. QED
    BY <1>2, <2>1 DEF IInv, NoLostUpdate, cells
<1>7. QED
  BY <1>3, <1>4, <1>5, <1>6

\* A commit finds the lock free and the cells as it read them.
LEMMA CommitStep ==
  ASSUME IInv, NEW t \in Threads, XEnd(t)
  PROVE  (\A u \in Threads : TxInv(u)' /\ CsInv(u)') /\ NoLostUpdate'
<1> USE DEF InTx, Holding
<1>1. TypeOK /\ lock_' = lock_
  BY DEF IInv, XEnd
<1>2. pc[t] = "xend" /\ ~doomed[t] /\ pc' = [pc EXCEPT ![t] = "idle"]
  BY DEF XEnd, Goto
<1>3. ~lock_ /\ ra[t] = a /\ rb[t] = b
  BY <1>2 DEF IInv, TxInv
<1>4. \A u \in Threads : pc[u] \notin Holding
  BY <1>3 DEF IInv, LockInv
<1>5. \A u \in Threads : pc'[u] \notin Holding
  BY <1>1, <1>2, <1>4 DEF TypeOK
<1>6. NoLostUpdate'
  BY <1>1, <1>3, <1>4, <1>5 DEF IInv, TypeOK, NoLostUpdate, XEnd
<1>7. ASSUME NEW u \in Threads PROVE TxInv(u)'
  <2>1. CASE u = t
    BY <1>1, <1>2, <2>1 DEF TypeOK, TxInv
  <2>2. CASE u # t
    <3>1. pc'[u] = pc[u] /\ ra'[u] = ra[u] /\ rb'[u] = rb[u] /\ rset'[u] = rset[u]
      BY <1>1, <2>2 DEF TypeOK, XEnd, Goto, Leave, Discard
    <3>2. doomed[u] => doomed'[u]
      BY StoreDooms DEF XEnd
    <3>3. pc[u] \in InTx /\ rset[u] \cap {"a", "b"} # {} => doomed'[u]
      BY <2>2, StoreDooms DEF XEnd
    <3>4. pc[u] \in {"tx_b", "xend"} /\ ~doomed[u] => "a" \in rset[u]
      BY DEF IInv, TxInv
    <3>5. QED
      BY <1>1, <3>1, <3>2, <3>3, <3>4 DEF IInv, TxInv
  <2>3. QED
    BY <2>1, <2>2
<1>8. ASSUME NEW u \in Threads PROVE CsInv(u)'
  BY <1>5 DEF CsInv
<1>9. QED
  BY <1>6, <1>7, <1>8

\* Taking the lock dooms every transaction that found it free.
LEMMA LockTaken ==
  ASSUME IInv, NEW t \in Threads, Lock(t)
  PROVE  (\A u \in Threads : TxInv(u)' /\ CsInv(u)') /\ NoLostUpdate'
<1> USE DEF InTx, Holding
<1>1. TypeOK
  BY DEF IInv
<1>2. pc[t] = "lock" /\ pc' = [pc EXCEPT ![t] = "cs_a"] /\ a' = a /\ b' = b /\ commits' = commits
  BY DEF Lock, Goto
<1>3. NoLostUpdate'
  BY <1>1, <1>2 DEF IInv, TypeOK, NoLostUpdate
<1>4. ASSUME NEW u \in Threads PROVE TxInv(u)'
  <2>1. CASE u = t
    BY <1>1, <1>2, <2>1 DEF TypeOK, TxInv
  <2>2. CASE u # t
    <3>1. pc'[u] = pc[u]
      BY <1>1, <1>2, <2>2 DEF TypeOK
    <3>2. doomed[u] => doomed'[u]
      BY StoreDooms DEF Lock
    <3>3. pc[u] \in InTx /\ rset[u] \cap {"lock"} # {} => doomed'[u]
      BY <2>2, StoreDooms DEF Lock
    <3>4. pc[u] \in {"tx_a", "tx_b", "xend"} /\ ~doomed[u] => "lock" \in rset[u]
      BY DEF IInv, TxInv
    <3>5. QED
      BY <3>1, <3>2, <3>3, <3>4 DEF TxInv
  <2>3. QED
    BY <2>1, <2>2
<1>5. ASSUME NEW u \in Threads PROVE CsInv(u)'
  <2>1. \A w \in Threads : pc[w] \notin Holding
    BY DEF IInv, LockInv, Lock
  <2>2. pc'[u] \notin {"cs_b", "cs_wa", "cs_wb"}
    BY <1>1, <1>2, <2>1 DEF TypeOK
  <2>3. QED
    BY <2>2 DEF CsInv
<1>6. QED
  BY <1>3, <1>4, <1>5

\* The stores and the release of a lock holder, which is alone with the cells.
LEMMA HolderStep ==
  ASSUME IInv, NEW t \in Threads, CsWriteA(t) \/ CsWriteB(t) \/ Unlock(t)
  PROVE  (\A u \in Threads : TxInv(u)' /\ CsInv(u)') /\ NoLostUpdate'
<1> USE DEF InTx, Holding
<1>1. TypeOK
  BY DEF IInv
<1>2. pc[t] \in Holding /\ lock_
  BY DEF IInv, LockInv, CsWriteA, CsWriteB, Unlock, Goto
<1>3. \A u \in Threads : u # t => pc[u] \notin Holding /\ pc'[u] = pc[u]
  BY <1>1, <1>2 DEF IInv, LockInv, TypeOK, CsWriteA, CsWriteB, Unlock, Goto
<1>4. ASSUME NEW u \in Threads PROVE TxInv(u)'
  <2>1. pc'[t] \notin {"tx_a", "tx_b", "xend"}
    BY <1>1 DEF TypeOK, CsWriteA, CsWriteB, Unlock, Goto
  <2>2. doomed[u] => doomed'[u]
    BY StoreDooms DEF CsWriteA, CsWriteB, Unlock
  <2>3. pc[u] \in {"tx_a", "tx_b", "xend"} => doomed[u]
    BY <1>2, LockDooms
  <2>4. QED
    BY <1>3, <2>1, <2>2, <2>3 DEF TxInv
<1>5. CsInv(t)'
  BY <1>1 DEF IInv, TypeOK, CsInv, CsWriteA, CsWriteB, Unlock, Goto
<1>6. ASSUME NEW u \in Threads, u # t PROVE CsInv(u)'
  BY <1>3, <1>6 DEF CsInv
<1>7. NoLostUpdate'
  <2>1. CASE CsWriteA(t)
    BY <1>1, <1>2, <1>3, <2>1 DEF IInv, TypeOK, NoLostUpdate, CsInv, CsWriteA, Goto
  <2>2. CASE CsWriteB(t)
    BY <1>1, <1>2, <1>3, <2>2 DEF IInv, TypeOK, NoLostUpdate, CsInv, CsWriteB, Goto
  <2>3. CASE Unlock(t)
    BY <1>1, <1>2, <1>3, <2>3 DEF IInv, TypeOK, NoLostUpdate, Unlock, Goto
  <2>4. QED
    BY <2>1, <2>2, <2>3
<1>8. QED
  BY <1>4, <1>5, <1>6, <1>7

-----------------------------------------------------------------------------
\* The inductive invariant holds.
THEOREM Invariance == Spec => []IInv
<1>1. Init => LockInv /\ (\A t \in Threads : TxInv(t) /\ CsInv(t)) /\ NoLostUpdate
  BY DEF Init, LockInv, TxInv, CsInv, NoLostUpdate, Holding, InTx
<1>2. IInv /\ TypeOK' /\ [Next]_vars => IInv'
  <2> SUFFICES ASSUME IInv, TypeOK', [Next]_vars PROVE IInv'
    OBVIOUS
  <2>1. CASE UNCHANGED vars
    BY <2>1 DEF IInv, LockInv, TxInv, CsInv, NoLostUpdate, vars, cells
  <2>2. CASE Next
    <3>1. LockInv'
      BY <2>2, LockStep DEF IInv
    <3>2. (\A u \in Threads : TxInv(u)' /\ CsInv(u)') /\ NoLostUpdate'
      BY <2>2, QuietStep, CommitStep, LockTaken, HolderStep DEF Next, Step
    <3>3. QED
      BY <3>1, <3>2 DEF IInv
  <2>3. QED
    BY <2>1, <2>2
<1>3. QED
  BY <1>1, <1>2, TypeCorrect, PTL DEF Spec, IInv

\* No update made in a scope is lost or half visible, whichever way each of any
\* number of concurrent scopes runs: transaction or fallback lock.
THEOREM UpdatesAreAtomic == Spec => []NoLostUpdate
BY Invariance, PTL DEF IInv

\* What a scope that commits has read was one state of the cells.
THEOREM ReadsAreConsistent == Spec => []ConsistentReads
<1>1. IInv => ConsistentReads
  <2> SUFFICES ASSUME IInv, NEW t \in Threads,
                      pc[t] \in {"xend", "cs_wa", "cs_wb"}, ~doomed[t]
               PROVE  ra[t] = rb[t]
    BY DEF ConsistentReads
  <2>1. TypeOK
    BY DEF IInv
  <2>2. CASE pc[t] = "xend"
    <3>1. \A u \in Threads : pc[u] # "cs_wb"
      BY <2>2 DEF IInv, TxInv, LockInv, Holding
    <3>2. QED
      BY <2>2, <3>1 DEF IInv, TxInv, NoLostUpdate
  <2>3. CASE pc[t] = "cs_wa"
    <3>1. \A u \in Threads : pc[u] # "cs_wb"
      BY <2>3 DEF IInv, LockInv, Holding
    <3>2. QED
      BY <2>3, <3>1 DEF IInv, CsInv, NoLostUpdate
  <2>4. CASE pc[t] = "cs_wb"
    BY <2>1, <2>4 DEF IInv, CsInv, NoLostUpdate, TypeOK
  <2>5. QED
    BY <2>2, <2>3, <2>4
<1>2. QED
  BY <1>1, Invariance, PTL

\* While a thread is in the fallback section no other enters it and no
\* transaction commits.
THEOREM FallbackIsExclusive == Spec => FallbackExcludes
<1>1. IInv /\ IInv' /\ [Next]_vars
        => [\A t, u \in Threads :
              t # u /\ pc[t] \in Holding => pc'[u] \notin Holding /\ ~XEnd(u)]_vars
  <2> SUFFICES ASSUME IInv, IInv', Next, NEW t \in Threads, NEW u \in Threads,
                      t # u, pc[t] \in Holding
               PROVE  pc'[u] \notin Holding /\ ~XEnd(u)
    BY DEF vars
  <2> USE DEF Holding, InTx
  <2>1. lock_ /\ TypeOK /\ pc[u] \notin Holding
    BY DEF IInv, LockInv
  <2>2. ~XEnd(u)
    BY <2>1, LockDooms DEF XEnd, Goto
  <2>3. pc'[u] \notin Holding
    <3>1. PICK w \in Threads : Enter(w) \/ Step(w)
      BY DEF Next
    <3>2. CASE w # u
      BY <2>1, <3>1, <3>2 DEF TypeOK, Step, Enter, XBegin, LockIsFree, XAbort, TxReadA, TxReadB,
           XEnd, HwAbort, Lock, CsReadA, CsReadB, CsWriteA, CsWriteB, Unlock, Goto
    <3>3. CASE w = u
      BY <2>1, <3>1, <3>3 DEF TypeOK, Step, Enter, XBegin, LockIsFree, XAbort, TxReadA, TxReadB,
           XEnd, HwAbort, Lock, CsReadA, CsReadB, CsWriteA, CsWriteB, Unlock, Goto
    <3>4. QED
      BY <3>2, <3>3
  <2>4. QED
    BY <2>2, <2>3
<1>2. QED
  BY <1>1, Invariance, PTL DEF Spec, FallbackExcludes

=============================================================================
