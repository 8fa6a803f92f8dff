------------------------------- MODULE MCSpiSync -------------------------------
(* Instances of SpiSync for TLC. *)
EXTENDS SpiSync

=============================================================================
