------------------------------- MODULE MCPinIrq -------------------------------
(* Instances of PinIrq for TLC. *)
EXTENDS PinIrq

=============================================================================
