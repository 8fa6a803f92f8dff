------------------------------- MODULE MCSched -------------------------------
(* Instances of Sched for TLC. *)
EXTENDS Sched

=============================================================================
