-------------------------------- MODULE MCUart --------------------------------
(***************************************************************************)
(* Instances of UartRing and UartObj for TLC, in one run.  The two modules *)
(* share no variable, so that a property of one depends on the steps of    *)
(* that one alone: a behaviour takes the steps of one of them, `part', and *)
(* leaves the other in its initial state.                                  *)
(***************************************************************************)
EXTENDS UartRing, UartObj

VARIABLE part

SomeNewlines == {2, 5}

UartInit == part \in {"ring", "object"} /\ RingInit /\ Init

UartNext ==
  \/ part = "ring" /\ RingNext /\ UNCHANGED <<part, vars>>
  \/ part = "object" /\ Next /\ UNCHANGED <<part, ringVars>>

\* With the fairness of UartObj's FairSpec: none of these actions is enabled in Init.
UartSpec ==
  /\ UartInit /\ [][UartNext]_<<part, ringVars, vars>>
  /\ WF_vars(Method)
  /\ WF_vars(sci_b_uart_txi_isr) /\ WF_vars(Shift) /\ WF_vars(sci_b_uart_tei_isr)

=============================================================================
