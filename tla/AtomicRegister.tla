---------------------------- MODULE AtomicRegister ----------------------------
(***************************************************************************)
(* What a WrappedType object promises its readers: a register holding the  *)
(* number of the last update.  A read samples the register some time       *)
(* between its call and its return, possibly several times, and returns    *)
(* the last sample, or an error.                                           *)
(***************************************************************************)
EXTENDS Integers

CONSTANT Readers

VARIABLES
  reg,    \* the register
  st,     \* state of each reader's call
  val     \* its last sample, and the value returned

vars == <<reg, st, val>>

Init ==
  /\ reg = 0
  /\ st = [r \in Readers |-> "idle"]
  /\ val = [r \in Readers |-> 0]

Update == reg' = reg + 1 /\ UNCHANGED <<st, val>>

Call(r) ==
  /\ st[r] \in {"idle", "ok", "err"}
  /\ st' = [st EXCEPT ![r] = "read"]
  /\ UNCHANGED <<reg, val>>

Sample(r) ==
  /\ st[r] \in {"read", "sampled"}
  /\ st' = [st EXCEPT ![r] = "sampled"]
  /\ val' = [val EXCEPT ![r] = reg]
  /\ UNCHANGED reg

Again(r) ==
  /\ st[r] = "sampled"
  /\ st' = [st EXCEPT ![r] = "read"]
  /\ UNCHANGED <<reg, val>>

Return(r) ==
  /\ st[r] = "sampled"
  /\ st' = [st EXCEPT ![r] = "ok"]
  /\ UNCHANGED <<reg, val>>

Fail(r) ==
  /\ st[r] \in {"read", "sampled"}
  /\ st' = [st EXCEPT ![r] = "err"]
  /\ UNCHANGED <<reg, val>>

Next ==
  \/ Update
  \/ \E r \in Readers : Call(r) \/ Sample(r) \/ Again(r) \/ Return(r) \/ Fail(r)

Spec == Init /\ [][Next]_vars

=============================================================================
