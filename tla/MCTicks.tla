------------------------------- MODULE MCTicks -------------------------------
(* Instances of Ticks for TLC. *)
EXTENDS Ticks

=============================================================================
