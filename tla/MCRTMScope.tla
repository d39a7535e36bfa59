----------------------------- MODULE MCRTMScope ------------------------------
(* Instance of RTMScope for TLC. *)
EXTENDS RTMScope

=============================================================================
