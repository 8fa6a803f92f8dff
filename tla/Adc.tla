---------------------------------- MODULE Adc ----------------------------------
(***************************************************************************)
(* machine.ADC and machine.DAC: one converter unit, its driver r_adc.c and *)
(* the DAC channel that shares a pin with it.                              *)
(*                                                                         *)
(* read_u16() sets the scan mask, starts a scan of the whole mask and      *)
(* polls until the unit is idle; each turn of the loop runs the poll hook, *)
(* where a scheduled Python callback may call read_u16() again on the same *)
(* unit: at most two calls are in progress.  The unit clears a data        *)
(* register that is read (ADC_CLEAR_AFTER_READ_ON).  Parameter checking is *)
(* off, so that no call of the driver fails and a scan may be configured   *)
(* while another is running.  The two units are alike and share nothing.   *)
(***************************************************************************)
EXTENDS Naturals, Sequences, FiniteSetsExt

CONSTANTS Scan,      \* the channels of the unit's generated scan mask
          Manual,    \* the channel of P014 or P015: not in the mask, driven by the DAC
          Inputs,    \* bound: the 12-bit levels other hardware puts on a pin
          Bytes,     \* bound: the arguments of DAC.write
          MaxReads   \* bound: calls of read_u16

Chans == Scan \cup {Manual}

ASSUME ChannelAssumption == Chans \subseteq 0 .. 7 /\ Manual \notin Scan
ASSUME AdcBounds ==
  Inputs \subseteq 0 .. 4095 /\ Bytes \subseteq 0 .. 255 /\ MaxReads \in Nat

VARIABLES
  g_adc_open,   \* g_adc0_open or g_adc1_open
  adansa,       \* the scan mask in the unit
  adst,         \* a scan is running
  todo,         \* the channels it still has to convert
  starter,      \* history: the call that started it
  addr,         \* the data registers, each with its history
  asel,         \* the pin of the channel is analog
  dac,          \* output enable and data of the DAC channel
  made,         \* the channels that have an ADC object
  stack,        \* the calls in progress, the running one last
  byte,         \* history: what DAC.write was last given
  pinned,       \* history: a Pin object was made for the pin after the last ADC or DAC object
  reads

unit == <<adansa, adst, todo, starter, addr>>
pins == <<asel, dac, byte, pinned>>
adcVars == <<g_adc_open, unit, pins, made, stack, reads>>

\* What a read of a data register returns after it was read.
Cleared == [scan |-> 0, value |-> 0]

\* All analog pins are analog after R_IOPORT_Open.
AdcInit ==
  /\ g_adc_open = FALSE
  /\ adansa = {}
  /\ adst = FALSE
  /\ todo = {}
  /\ starter = 0
  /\ addr = [c \in Chans |-> Cleared]
  /\ asel = [c \in Chans |-> TRUE]
  /\ dac = [on |-> FALSE, dadr |-> 0]
  /\ made = {}
  /\ stack = <<>>
  /\ byte = 0
  /\ pinned = [c \in Chans |-> FALSE]
  /\ reads = 0

-----------------------------------------------------------------------------
(* The unit *)

\* The level a conversion finds: the DAC's on an analog pin it drives.
Level(c) == IF c = Manual /\ dac.on /\ asel[c] THEN {dac.dadr} ELSE Inputs

Convert ==
  /\ adst /\ todo # {}
  /\ LET c == Min(todo) IN
       /\ todo' = todo \ {c}
       /\ \E v \in Level(c) : addr' = [addr EXCEPT ![c] = [scan |-> starter, value |-> v]]
  /\ UNCHANGED <<g_adc_open, adansa, adst, starter, pins, made, stack, reads>>

ScanEnds ==
  /\ adst /\ todo = {}
  /\ adst' = FALSE
  /\ UNCHANGED <<g_adc_open, adansa, todo, starter, addr, pins, made, stack, reads>>

-----------------------------------------------------------------------------
(* What Python code does *)

Top == stack[Len(stack)]

Running(from) == stack # <<>> /\ Top.pc = from

Become(f) == stack' = [stack EXCEPT ![Len(stack)] = f]

\* Python code runs when no method does, or in the poll hook of the outer call.
PythonRuns == stack = <<>> \/ (Len(stack) = 1 /\ Top.pc = "hook")

\* A callback may take any time, and may change what the pins carry.
Unsteady == [i \in DOMAIN stack |-> [stack[i] EXCEPT !.slow = TRUE, !.steady = FALSE]]

\* Pin(id): R_IOPORT_PinCfg writes the function register with ASEL clear.
pin_configure(c) ==
  /\ PythonRuns
  /\ asel' = [asel EXCEPT ![c] = FALSE]
  /\ pinned' = [pinned EXCEPT ![c] = TRUE]
  /\ stack' = Unsteady
  /\ UNCHANGED <<g_adc_open, unit, dac, byte, made, reads>>

RA_SETUP_ANALOG_PIN(c) == asel' = [asel EXCEPT ![c] = TRUE]

\* R_ADC_Open writes ADCSR without ADST, which stops a scan.
R_ADC_Open == adst' = FALSE /\ todo' = {}

\* Mutant: every ADC object opens the unit.
OpenAlways == g_adc_open' = TRUE /\ R_ADC_Open

\* The unit is opened once.
adc_unit_open ==
  /\ g_adc_open' = TRUE
  /\ IF g_adc_open THEN UNCHANGED <<adst, todo>> ELSE R_ADC_Open

\* ADC(pin).  Only the pin of the channel outside the generated mask is made analog.
adc_obj_make_new(c) ==
  /\ PythonRuns
  /\ made' = made \cup {c}
  /\ IF c = Manual THEN RA_SETUP_ANALOG_PIN(c) ELSE UNCHANGED asel
  /\ pinned' = [pinned EXCEPT ![c] = FALSE]
  /\ adc_unit_open
  /\ stack' = Unsteady
  /\ UNCHANGED <<adansa, starter, addr, dac, byte, reads>>

\* DAC(pin), which leaves the data register as it was.
dac_obj_make_new ==
  /\ PythonRuns
  /\ RA_SETUP_ANALOG_PIN(Manual)
  /\ dac' = [dac EXCEPT !.on = TRUE]
  /\ pinned' = [pinned EXCEPT ![Manual] = FALSE]
  /\ stack' = Unsteady
  /\ UNCHANGED <<g_adc_open, unit, byte, made, reads>>

\* Mutant: the wrong full scale.
DacWriteNarrow(v) ==
  /\ PythonRuns /\ dac.on
  /\ dac' = [dac EXCEPT !.dadr = (v * 4095) \div 256]
  /\ byte' = v
  /\ stack' = Unsteady
  /\ UNCHANGED <<g_adc_open, unit, asel, pinned, made, reads>>

\* DAC.write of a value in range, on an object, which is always initialised.
dac_obj_write(v) ==
  /\ PythonRuns /\ dac.on
  /\ dac' = [dac EXCEPT !.dadr = (v * 4095) \div 255]
  /\ byte' = v
  /\ stack' = Unsteady
  /\ UNCHANGED <<g_adc_open, unit, asel, pinned, made, reads>>

-----------------------------------------------------------------------------
(* read_u16 *)

\* The mask is written to the unit; a running scan may take up any of the change.
R_ADC_ScanCfg(mask) ==
  /\ adansa' = mask
  /\ todo' \in IF adst THEN SUBSET (todo \cup mask) ELSE {todo}

\* The unit is open, because there is an object.  The scan is of the generated mask
\* and the channel, whatever channels were read before.
adc_obj_read_u16(c) ==
  /\ PythonRuns
  /\ c \in made
  /\ reads < MaxReads
  /\ reads' = reads + 1
  /\ R_ADC_ScanCfg(Scan \cup {c})
  /\ stack' = Append([i \in DOMAIN stack |-> [Unsteady[i] EXCEPT !.alone = FALSE]],
                     [chan |-> c, id |-> reads + 1, pc |-> "start", idle |-> FALSE, slow |-> FALSE,
                      steady |-> TRUE, alone |-> TRUE, sample |-> Cleared])
  /\ UNCHANGED <<g_adc_open, adst, starter, addr, pins, made>>

\* ADCSR is written with ADST set, which a running scan does not notice.
R_ADC_ScanStart ==
  /\ Running("start")
  /\ adst' = TRUE
  /\ IF adst THEN UNCHANGED <<todo, starter>>
             ELSE todo' = adansa /\ starter' = Top.id
  /\ Become([Top EXCEPT !.pc = "status", !.alone = ~adst])
  /\ UNCHANGED <<g_adc_open, adansa, addr, pins, made, reads>>

\* Mutant: the loop waits for the unit to be busy.
StatusInverted ==
  /\ Running("status")
  /\ Become([Top EXCEPT !.pc = "hook", !.idle = adst])
  /\ UNCHANGED <<g_adc_open, unit, pins, made, reads>>

\* The state is read before the clock and before the poll hook.
R_ADC_StatusGet ==
  /\ Running("status")
  /\ Become([Top EXCEPT !.pc = "hook", !.idle = ~adst])
  /\ UNCHANGED <<g_adc_open, unit, pins, made, reads>>

\* "ADC scan timeout", even if the state just read is idle.  A scan takes microseconds:
\* 200 ms pass only in the poll hook, and all scans are then over.
ScanTimeout ==
  /\ Running("status")
  /\ Top.slow /\ ~adst
  /\ stack' = SubSeq(stack, 1, Len(stack) - 1)
  /\ UNCHANGED <<g_adc_open, unit, pins, made, reads>>

HookEnds ==
  /\ Running("hook")
  /\ Become([Top EXCEPT !.pc = IF Top.idle THEN "read" ELSE "status"])
  /\ UNCHANGED <<g_adc_open, unit, pins, made, reads>>

\* The register is read, and the unit clears it.
R_ADC_Read ==
  /\ Running("read")
  /\ Become([Top EXCEPT !.pc = "done", !.sample = addr[Top.chan]])
  /\ addr' = [addr EXCEPT ![Top.chan] = Cleared]
  /\ UNCHANGED <<g_adc_open, adansa, adst, todo, starter, pins, made, reads>>

\* Scaled from 12 to 16 bits.
scaled_value(v) == (v * 65535) \div 4095

Return ==
  /\ Running("done")
  /\ stack' = SubSeq(stack, 1, Len(stack) - 1)
  /\ UNCHANGED <<g_adc_open, unit, pins, made, reads>>

-----------------------------------------------------------------------------

Python ==
  \/ \E c \in Chans : pin_configure(c) \/ adc_obj_make_new(c) \/ adc_obj_read_u16(c)
  \/ dac_obj_make_new
  \/ \E v \in Bytes : dac_obj_write(v)

Method ==
  \/ R_ADC_ScanStart \/ R_ADC_StatusGet \/ ScanTimeout
  \/ HookEnds \/ R_ADC_Read \/ Return

Unit == Convert \/ ScanEnds

AdcNext == Python \/ Method \/ Unit

AdcSpec == AdcInit /\ [][AdcNext]_adcVars

\* A method goes on, and the unit's clock is never stopped.
FairSpec == AdcSpec /\ WF_adcVars(Method) /\ WF_adcVars(Unit)

-----------------------------------------------------------------------------
(* Properties *)

\* A read that found the unit idle and was alone on it, whatever objects were made in
\* its poll hook, returns a sample of its channel from the scan it started: neither a
\* register cleared by an earlier read, nor one its scan has not reached.
FreshSample ==
  \A i \in DOMAIN stack :
    stack[i].pc = "done" /\ stack[i].alone => stack[i].sample.scan = stack[i].id

\* What DAC.write puts on its pin is what ADC.read_u16 finds there, to 8 bits, over
\* both scalings, until a Pin object takes the pin.
DacReadsBack ==
  \A i \in DOMAIN stack :
    LET f == stack[i] IN
    f.pc = "done" /\ f.chan = Manual /\ f.alone /\ f.steady /\ dac.on /\ ~pinned[Manual] =>
      scaled_value(f.sample.value) \div 256 = byte

\* Every read_u16 returns or raises, whatever the poll hook does.
ReadsReturn == stack # <<>> ~> stack = <<>>

=============================================================================
