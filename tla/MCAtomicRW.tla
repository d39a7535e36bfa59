------------------------------ MODULE MCAtomicRW ------------------------------
(* Instances of AtomicRW for TLC. *)
EXTENDS AtomicRW, TLC

=============================================================================
