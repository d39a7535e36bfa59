----------------------------- MODULE MCXTreeIter -----------------------------
(* Instance of XTreeIter for TLC. *)
EXTENDS XTreeIter

=============================================================================
