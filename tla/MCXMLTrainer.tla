---------------------------- MODULE MCXMLTrainer -----------------------------
(* Instances of XMLTrainer for TLC. *)
EXTENDS XMLTrainer

=============================================================================
