------------------------------- MODULE MCI2cSync -------------------------------
(* Instances of I2cSync for TLC. *)
EXTENDS I2cSync

=============================================================================
