------------------------------- MODULE RTMScope -------------------------------
(***************************************************************************)
(* xutils/rtm.hh: a scope that runs as a hardware transaction and, after   *)
(* too many aborts, under a spin lock (xutils/spin_lock.hh).  CXTree wraps *)
(* every get and every insert_core in one.  The lock is in the read set of *)
(* every transaction, so taking it aborts them all.                        *)
(*                                                                         *)
(* The protected data, the words of the tree in CXTree, are two cells; the *)
(* body of a scope reads both and then stores both, each from what it read *)
(* (the transfers of test_rtm.cc do the same).  A transaction's stores     *)
(* appear all at once at xend; the stores of a scope under the lock appear *)
(* one by one.  A store to a cell in a transaction's read set dooms it: it *)
(* takes no further step but its abort.                                    *)
(***************************************************************************)
EXTENDS Integers, FiniteSets

CONSTANTS
  Threads,
  max_abort_conflict, max_abort_capacity, max_abort_nested, max_abort_zero,
  MaxScopes               \* bound: scopes each thread runs

ASSUME RTMAssumption ==
  /\ max_abort_conflict \in Nat /\ max_abort_capacity \in Nat
  /\ max_abort_nested \in Nat /\ max_abort_zero \in Nat
  /\ MaxScopes \in Nat

VARIABLES
  lock_,      \* the fallback lock is taken
  a, b,       \* the protected cells
  pc,         \* place of each thread
  ra, rb,     \* what its scope read of a and b
  rset,       \* read set of its transaction
  doomed,     \* its transaction conflicts and has to abort
  aborts,     \* its abort counters
  scopes,     \* scopes it completed
  commits     \* ghost: scopes whose effect is complete

cells == <<lock_, a, b>>
vars  == <<cells, pc, ra, rb, rset, doomed, aborts, scopes, commits>>

Kinds == {"conflict", "capacity", "nested", "zero"}
Limit ==
  [conflict |-> max_abort_conflict, capacity |-> max_abort_capacity,
   nested |-> max_abort_nested, zero |-> max_abort_zero]

InTx == {"check", "tx_a", "tx_b", "xend"}
Holding == {"cs_a", "cs_b", "cs_wa", "cs_wb", "unlock"}

Init ==
  /\ lock_ = FALSE /\ a = 0 /\ b = 0 /\ commits = 0
  /\ pc = [t \in Threads |-> "idle"]
  /\ ra = [t \in Threads |-> 0] /\ rb = [t \in Threads |-> 0]
  /\ rset = [t \in Threads |-> {}]
  /\ doomed = [t \in Threads |-> FALSE]
  /\ aborts = [t \in Threads |-> [k \in Kinds |-> 0]]
  /\ scopes = [t \in Threads |-> 0]

Goto(t, from, to) == pc[t] = from /\ pc' = [pc EXCEPT ![t] = to]

\* The conflicts that a store of thread t to the cells C makes.
Conflicts(t, C) ==
  doomed' = [u \in Threads |-> doomed[u] \/ (u # t /\ pc[u] \in InTx /\ rset[u] \cap C # {})]

\* What is left of a transaction or of a scope's body when it is over.
Discard(t) ==
  /\ ra' = [ra EXCEPT ![t] = 0] /\ rb' = [rb EXCEPT ![t] = 0]
  /\ rset' = [rset EXCEPT ![t] = {}]

\* The scope is left, and its abort counters with it.
Leave(t) ==
  /\ Discard(t)
  /\ aborts' = [aborts EXCEPT ![t] = [k \in Kinds |-> 0]]
  /\ scopes' = [scopes EXCEPT ![t] = @ + 1]

-----------------------------------------------------------------------------
\* The constructor starts with no aborts counted.
Enter(t) ==
  /\ scopes[t] < MaxScopes
  /\ Goto(t, "idle", "begin")
  /\ UNCHANGED <<cells, ra, rb, rset, doomed, aborts, scopes, commits>>

\* _xbegin.
XBegin(t) ==
  /\ Goto(t, "begin", "check")
  /\ UNCHANGED <<cells, ra, rb, rset, doomed, aborts, scopes, commits>>

\* Faulty variant: is_locked() is called before _xbegin, outside the read set.
LockIsFree_Outside(t) ==
  /\ ~doomed[t] /\ ~lock_
  /\ Goto(t, "check", "tx_a")
  /\ UNCHANGED <<cells, ra, rb, rset, doomed, aborts, scopes, commits>>

\* Faulty variant: the lock is read but its state ignored.
LockIsFree_Ignored(t) ==
  /\ ~doomed[t]
  /\ Goto(t, "check", "tx_a")
  /\ rset' = [rset EXCEPT ![t] = {"lock"}]
  /\ UNCHANGED <<cells, ra, rb, doomed, aborts, scopes, commits>>

\* is_locked() inside the transaction puts the lock into its read set.
LockIsFree(t) ==
  /\ ~doomed[t] /\ ~lock_
  /\ Goto(t, "check", "tx_a")
  /\ rset' = [rset EXCEPT ![t] = {"lock"}]
  /\ UNCHANGED <<cells, ra, rb, doomed, aborts, scopes, commits>>

\* _xabort(0xff) when it is taken.  No counter counts an explicit abort, and
\* the wait for the lock expects another code (magic_explict_abort_flag).
XAbort(t) ==
  /\ ~doomed[t] /\ lock_
  /\ Goto(t, "check", "begin")
  /\ UNCHANGED <<cells, ra, rb, rset, doomed, aborts, scopes, commits>>

\* The body of the scope, in the transaction.
TxReadA(t) ==
  /\ ~doomed[t]
  /\ Goto(t, "tx_a", "tx_b")
  /\ ra' = [ra EXCEPT ![t] = a]
  /\ rset' = [rset EXCEPT ![t] = @ \cup {"a"}]
  /\ UNCHANGED <<cells, rb, doomed, aborts, scopes, commits>>

TxReadB(t) ==
  /\ ~doomed[t]
  /\ Goto(t, "tx_b", "xend")
  /\ rb' = [rb EXCEPT ![t] = b]
  /\ rset' = [rset EXCEPT ![t] = @ \cup {"b"}]
  /\ UNCHANGED <<cells, ra, doomed, aborts, scopes, commits>>

\* The destructor inside the transaction: _xend makes its stores visible.
XEnd(t) ==
  /\ ~doomed[t]
  /\ Goto(t, "xend", "idle")
  /\ a' = ra[t] + 1 /\ b' = rb[t] + 1
  /\ Conflicts(t, {"a", "b"})
  /\ commits' = commits + 1
  /\ Leave(t)
  /\ UNCHANGED lock_

\* An abort by the hardware, at any time in a transaction; a doomed one has no
\* other step.  Past the limit of its kind the scope takes the lock.
HwAbort(t, k) ==
  /\ pc[t] \in InTx
  /\ aborts' = [aborts EXCEPT ![t][k] = @ + 1]
  /\ pc' = [pc EXCEPT ![t] = IF aborts[t][k] + 1 > Limit[k] THEN "lock" ELSE "begin"]
  /\ doomed' = [doomed EXCEPT ![t] = FALSE]
  /\ Discard(t)
  /\ UNCHANGED <<cells, scopes, commits>>

\* Faulty variant: the result of the exchange is not looked at.
Lock_Taken(t) ==
  /\ Goto(t, "lock", "cs_a")
  /\ lock_' = TRUE
  /\ Conflicts(t, {"lock"})
  /\ UNCHANGED <<a, b, ra, rb, rset, aborts, scopes, commits>>

\* SpinLock::lock: the exchange that finds the lock free.
Lock(t) ==
  /\ ~lock_
  /\ Goto(t, "lock", "cs_a")
  /\ lock_' = TRUE
  /\ Conflicts(t, {"lock"})
  /\ UNCHANGED <<a, b, ra, rb, rset, aborts, scopes, commits>>

\* The body of the scope, under the lock.
CsReadA(t) ==
  /\ Goto(t, "cs_a", "cs_b")
  /\ ra' = [ra EXCEPT ![t] = a]
  /\ UNCHANGED <<cells, rb, rset, doomed, aborts, scopes, commits>>

CsReadB(t) ==
  /\ Goto(t, "cs_b", "cs_wa")
  /\ rb' = [rb EXCEPT ![t] = b]
  /\ UNCHANGED <<cells, ra, rset, doomed, aborts, scopes, commits>>

CsWriteA(t) ==
  /\ Goto(t, "cs_wa", "cs_wb")
  /\ a' = ra[t] + 1
  /\ Conflicts(t, {"a"})
  /\ UNCHANGED <<lock_, b, ra, rb, rset, aborts, scopes, commits>>

CsWriteB(t) ==
  /\ Goto(t, "cs_wb", "unlock")
  /\ b' = rb[t] + 1
  /\ Conflicts(t, {"b"})
  /\ commits' = commits + 1
  /\ UNCHANGED <<lock_, a, ra, rb, rset, aborts, scopes>>

\* Faulty variant: the lock is not released.
Unlock_Forgotten(t) ==
  /\ Goto(t, "unlock", "idle")
  /\ Leave(t)
  /\ UNCHANGED <<cells, doomed, commits>>

\* The destructor outside a transaction: the lock is taken, so it is released.
Unlock(t) ==
  /\ Goto(t, "unlock", "idle")
  /\ lock_' = FALSE
  /\ Conflicts(t, {"lock"})
  /\ Leave(t)
  /\ UNCHANGED <<a, b, commits>>

Step(t) ==
  \/ XBegin(t) \/ LockIsFree(t) \/ XAbort(t) \/ TxReadA(t) \/ TxReadB(t) \/ XEnd(t)
  \/ \E k \in Kinds : HwAbort(t, k)
  \/ Lock(t) \/ CsReadA(t) \/ CsReadB(t) \/ CsWriteA(t) \/ CsWriteB(t) \/ Unlock(t)

Next == \E t \in Threads : Enter(t) \/ Step(t)

Spec == Init /\ [][Next]_vars

(***************************************************************************)
(* A thread inside a scope keeps running.  Nothing makes the hardware let  *)
(* a transaction commit, nor the spin lock serve its waiters in order.     *)
(***************************************************************************)
FairSpec == Spec /\ \A t \in Threads : WF_vars(Step(t))

-----------------------------------------------------------------------------
TypeOK ==
  /\ lock_ \in BOOLEAN /\ a \in Nat /\ b \in Nat /\ commits \in Nat
  /\ pc \in [Threads -> {"idle", "begin", "lock"} \cup InTx \cup Holding]
  /\ ra \in [Threads -> Nat] /\ rb \in [Threads -> Nat]
  /\ rset \in [Threads -> SUBSET {"lock", "a", "b"}]
  /\ doomed \in [Threads -> BOOLEAN]
  /\ aborts \in [Threads -> [Kinds -> Nat]]
  /\ scopes \in [Threads -> Nat]

\* No scope's update is lost or seen half: outside the stores of a lock holder
\* both cells count the completed scopes, whichever way each of them ran.
NoLostUpdate ==
  /\ b = commits
  /\ a = IF \E t \in Threads : pc[t] = "cs_wb" THEN commits + 1 ELSE commits

\* What a scope that goes on to commit read is one consistent state: no
\* transaction sees the stores of a lock holder one by one.
ConsistentReads ==
  \A t \in Threads :
    pc[t] \in {"xend", "cs_wa", "cs_wb"} /\ ~doomed[t] => ra[t] = rb[t]

\* Only one thread is in the fallback section, and no transaction commits while
\* it is there.
FallbackExcludes ==
  [][\A t, u \in Threads :
       t # u /\ pc[t] \in Holding => pc'[u] \notin Holding /\ ~XEnd(u)]_vars

\* Every scope that is entered is left: aborts are finitely many, as past the
\* limits the lock is taken, and no one waits for a lock nobody releases.
ScopesEnd == \A t \in Threads : (pc[t] # "idle") ~> (pc[t] = "idle")

=============================================================================
