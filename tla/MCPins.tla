-------------------------------- MODULE MCPins --------------------------------
(***************************************************************************)
(* Instances of PinIrq and Adc for TLC, in one run.  The two modules share *)
(* no variable, so that a property of one depends on the steps of that one *)
(* alone: a behaviour takes the steps of one of them, `part', and leaves   *)
(* the other in its initial state.                                         *)
(***************************************************************************)
EXTENDS PinIrq, Adc

VARIABLE part

\* DacReadsBack needs of the two scalings, for every byte, what the run's few bytes show.
ASSUME ScalingsAgree == \A v \in 0 .. 255 : scaled_value((v * 4095) \div 255) \div 256 = v

PinsInit == part \in {"irq", "analog"} /\ Init /\ AdcInit

\* The interrupt's instance ends when its bounded inputs are used up; the analog one
\* never does.
IrqEnds == part = "irq" /\ UNCHANGED <<part, vars, adcVars>>

PinsNext ==
  \/ part = "irq" /\ Next /\ UNCHANGED <<part, adcVars>>
  \/ part = "analog" /\ AdcNext /\ UNCHANGED <<part, vars>>
  \/ IrqEnds

\* With the fairness of Adc's FairSpec.
PinsSpec ==
  PinsInit /\ [][PinsNext]_<<part, vars, adcVars>> /\ WF_adcVars(Method) /\ WF_adcVars(Unit)

=============================================================================
