------------------------------- MODULE MCReplRx -------------------------------
(* Instances of ReplRx for TLC. *)
EXTENDS ReplRx

=============================================================================
