------------------------------- MODULE PinProofs -------------------------------
(***************************************************************************)
(* Proofs about the pins: the interrupt of machine.Pin (PinIrq), and the   *)
(* analog pins of machine.ADC and machine.DAC (Adc).                       *)
(*                                                                         *)
(* The interrupt, for any sets of Pin objects and handlers and every depth *)
(* of the scheduler's queue: IrqInv says what pin_obj_irq has done at each *)
(* of its positions; it gives HandlerIsCurrent and NoStaleEdge, and with   *)
(* TypeOK it is inductive.                                                 *)
(*                                                                         *)
(* The analog pins, for any scan mask, inputs, bytes and number of reads:  *)
(* ScanInv follows the scan of a call that is alone on the unit up to the  *)
(* sample it returns.  It needs AloneInv, because only the running call's  *)
(* scan can be followed, and PinsInv: an ADC object made in the poll hook  *)
(* finds the unit open and does not stop the scan, and the pin of the DAC  *)
(* carries the byte last written.                                          *)
(***************************************************************************)
EXTENDS PinIrq, Adc, SequenceTheorems, TLAPS

-----------------------------------------------------------------------------
(* The interrupt *)

\* The vector is enabled only outside pin_obj_irq, or before its close.
EnabledInv ==
  ICU_IRQ12 \in enabled =>
    /\ pc \in {"idle", "close"}
    /\ ctrl.irq = ICU_IRQ12
    /\ isr_context[ICU_IRQ12] = "s2"
    /\ ctrl.p_context \in Pins
    /\ irq_ctx[ctrl.p_context] \in Handlers
    /\ isel = TRUE \/ retaken = TRUE
    /\ configured = <<ctrl.p_context, irq_ctx[ctrl.p_context], irqmd>>
    /\ pending = TRUE => old = FALSE

\* What pin_obj_irq has done when it is at a position.
PositionInv ==
  /\ pc # "idle" => self \in Pins
  /\ pc \in {"pin", "open", "enable"} => handler \in Handlers /\ irq_ctx[self] = handler
  /\ pc \in {"open", "enable"} => isel = TRUE
  /\ pc = "enable" => /\ ctrl.irq = ICU_IRQ12 /\ ctrl.p_context = self
                      /\ irqmd = trigger
                      /\ isr_context[ICU_IRQ12] = "s2"

IrqInv == TypeOK /\ EnabledInv /\ PositionInv

-----------------------------------------------------------------------------

\* What one interrupt does to the scheduler's queue.
LEMMA IsrQueue ==
  ASSUME TypeOK, r_icu_isr
  PROVE  /\ queue' \in Seq(Pins \X Handlers)
         /\ Len(queue') <= Depth
  <1>1. \A item \in Pins \X Handlers :
          Len(queue) < Depth => /\ Append(queue, item) \in Seq(Pins \X Handlers)
                                /\ Len(Append(queue, item)) <= Depth
    BY DepthAssumption DEF TypeOK
  <1>2. CASE UNCHANGED queue BY <1>2 DEF TypeOK
  <1>3. CASE ~UNCHANGED queue
    <2>1. PICK item \in Pins \X Handlers : Len(queue) < Depth /\ queue' = Append(queue, item)
      <3>1. CASE WildCallback BY <1>3, <3>1 DEF WildCallback
      <3>2. CASE external_irq_callback(ctrl.p_context)
        <4>1. ctrl.p_context \in Pins /\ irq_ctx[ctrl.p_context] \in Handlers /\ Len(queue) < Depth
              /\ queue' = Append(queue, <<ctrl.p_context, irq_ctx[ctrl.p_context]>>)
          BY <1>3, <3>2 DEF external_irq_callback, TypeOK
        <4>2. QED BY <4>1
      <3>3. QED BY <3>1, <3>2 DEF r_icu_isr
    <2>2. QED BY <1>1, <2>1
  <1>4. QED BY <1>2, <1>3

\* IrqInv holds when hal_entry has opened the REPL's UART.
LEMMA IrqInit == Init => IrqInv
  <1> SUFFICES ASSUME Init PROVE IrqInv
    OBVIOUS
  <1> USE DEF Init, SCI3_RXI, ICU_IRQ12, Vectors
  <1>1. TypeOK
    <2>1. queue \in Seq(Pins \X Handlers) /\ Len(queue) <= Depth
      BY DepthAssumption
    <2>2. calls \in 0 .. MaxCalls /\ edges \in 0 .. MaxEdges /\ resets \in 0 .. MaxResets
      BY BoundsAssumption
    <2>3. ctrl \in [irq : Vectors, open : BOOLEAN, p_context : Pins \cup {None}]
      OBVIOUS
    <2>4. configured \in (Pins \cup {None}) \X (Handlers \cup {None}) \X Triggers
      BY DEF NoCall, Triggers
    <2>5. irqmd \in Triggers /\ trigger \in Triggers BY DEF Triggers, Edges
    <2>6. QED BY <2>1, <2>2, <2>3, <2>4, <2>5 DEF TypeOK
  <1>2. EnabledInv BY DEF EnabledInv
  <1>3. PositionInv BY DEF PositionInv
  <1>4. QED BY <1>1, <1>2, <1>3 DEF IrqInv

\* Every step preserves IrqInv.
LEMMA IrqNext == IrqInv /\ [Next]_vars => IrqInv'
  <1> SUFFICES ASSUME IrqInv, [Next]_vars PROVE IrqInv'
    OBVIOUS
  <1> USE NoneAssumption, BoundsAssumption
      DEF IrqInv, TypeOK, EnabledInv, PositionInv, icu, arguments, bounds, Goto,
          SCI3_RXI, ICU_IRQ12, Vectors
  <1>1. CASE UNCHANGED vars BY <1>1 DEF vars
  <1>2. ASSUME NEW e \in Edges, Edge(e) PROVE IrqInv'
    <2>1. edges' \in 0 .. MaxEdges BY <1>2 DEF Edge
    <2>2. TypeOK'
      <3>1. pending' \in BOOLEAN /\ old' \in BOOLEAN BY <1>2 DEF Edge
      <3>2. UNCHANGED <<heap, irq_ctx, ctrl, irqmd, isel, enabled, isr_context, queue, pc>>
        BY <1>2 DEF Edge
      <3>3. UNCHANGED <<self, handler, trigger, configured, retaken, wild, calls, resets>>
        BY <1>2 DEF Edge
      <3>4. QED BY <2>1, <3>1, <3>2, <3>3
    <2>3. EnabledInv' BY <1>2 DEF Edge
    <2>4. PositionInv' BY <1>2 DEF Edge
    <2>5. QED BY <2>2, <2>3, <2>4
  <1>3. CASE r_icu_isr
    <2>1. queue' \in Seq(Pins \X Handlers) /\ Len(queue') <= Depth
      BY <1>3, IsrQueue
    <2>2. QED BY <1>3, <2>1, ZenonT(60) DEF r_icu_isr
  <1>4. ASSUME NEW p \in Pins, pin_obj_make_new(p) PROVE IrqInv'
    <2>1. TypeOK'
      <3>1. heap' \in [Pins -> {"new", "held", "dropped", "freed"}] BY <1>4 DEF pin_obj_make_new
      <3>2. isel' \in BOOLEAN /\ retaken' \in BOOLEAN BY <1>4 DEF pin_obj_make_new
      <3>3. UNCHANGED <<irq_ctx, ctrl, irqmd, enabled, isr_context, pending, queue, pc>>
        BY <1>4 DEF pin_obj_make_new
      <3>4. UNCHANGED <<self, handler, trigger, configured, old, wild, calls, edges, resets>>
        BY <1>4 DEF pin_obj_make_new
      <3>5. QED BY <3>1, <3>2, <3>3, <3>4
    <2>2. EnabledInv' BY <1>4 DEF pin_obj_make_new
    <2>3. PositionInv' BY <1>4 DEF pin_obj_make_new
    <2>4. QED BY <2>1, <2>2, <2>3
  <1>5. ASSUME NEW p \in Pins, DropPin(p) PROVE IrqInv'
    BY <1>5 DEF DropPin
  <1>6. ASSUME NEW p \in Pins, NEW h \in Handlers \cup {None, NotCallable}, NEW t \in Triggers,
               pin_obj_irq(p, h, t)
        PROVE  IrqInv'
    BY <1>6 DEF pin_obj_irq
  <1>7. CASE PinIrq
    <2>1. CASE IrqClose
      <3>1. /\ isr_context' \in [Vectors -> {"NULL", "uart0", "s2"}]
            /\ ctrl' \in [irq : Vectors, open : BOOLEAN, p_context : Pins \cup {None}]
            /\ enabled' \subseteq Vectors
        BY <2>1 DEF IrqClose, R_ICU_ExternalIrqClose
      <3>2. configured' \in (Pins \cup {None}) \X (Handlers \cup {None}) \X Triggers
        BY <2>1 DEF IrqClose, NoCall, Triggers
      <3>3. TypeOK' BY <2>1, <3>1, <3>2 DEF IrqClose
      <3>4. EnabledInv' BY <2>1 DEF IrqClose, R_ICU_ExternalIrqClose
      <3>5. PositionInv' BY <2>1 DEF IrqClose
      <3>6. QED BY <3>3, <3>4, <3>5
    <2>2. CASE IrqTypeError BY <2>2 DEF IrqTypeError
    <2>3. CASE IrqNone BY <2>3 DEF IrqNone
    <2>4. CASE IrqContext BY <2>4 DEF IrqContext
    <2>5. CASE IrqPin BY <2>5, ZenonT(60) DEF IrqPin
    <2>6. CASE R_ICU_ExternalIrqOpen BY <2>6 DEF R_ICU_ExternalIrqOpen
    <2>7. CASE R_ICU_ExternalIrqEnable
      <3>1. TypeOK' BY <2>7 DEF R_ICU_ExternalIrqEnable
      <3>2. EnabledInv' BY <2>7 DEF R_ICU_ExternalIrqEnable
      <3>3. PositionInv' BY <2>7 DEF R_ICU_ExternalIrqEnable
      <3>4. QED BY <3>1, <3>2, <3>3
    <2>8. QED BY <1>7, <2>1, <2>2, <2>3, <2>4, <2>5, <2>6, <2>7 DEF PinIrq
  <1>8. CASE RunScheduled
    <2>1. TypeOK' BY <1>8, DepthAssumption DEF RunScheduled
    <2>2. EnabledInv' BY <1>8 DEF RunScheduled
    <2>3. PositionInv' BY <1>8 DEF RunScheduled
    <2>4. QED BY <2>1, <2>2, <2>3
  <1>9. CASE gc_collect BY <1>9 DEF gc_collect
  <1>10. CASE SoftReset
    <2>1. TypeOK' BY <1>10, DepthAssumption DEF SoftReset
    <2>2. EnabledInv' BY <1>10 DEF SoftReset
    <2>3. PositionInv' BY <1>10 DEF SoftReset
    <2>4. QED BY <2>1, <2>2, <2>3
  <1>11. QED
    BY <1>1, <1>2, <1>3, <1>4, <1>5, <1>6, <1>7, <1>8, <1>9, <1>10 DEF Next

\* IrqInv is an invariant.
LEMMA IrqAlways == Spec => []IrqInv
  BY IrqInit, IrqNext, PTL DEF Spec

\* For any number of Pin objects and handlers every variable keeps its type: the
\* queue never holds more than its depth.
THEOREM PinTypeCorrect == Spec => []TypeOK
  <1>1. IrqInv => TypeOK BY DEF IrqInv
  <1>2. QED BY <1>1, IrqAlways, PTL

\* For any number of Pin objects and handlers an interrupt that can be taken has a
\* control block and a context; while the Pin of that context has not been freed they
\* are the Pin, the handler and the trigger of the last irq().  None is left enabled by
\* an irq() that failed or took the handler away.
THEOREM HandlerCorrect == Spec => []HandlerIsCurrent
  <1>1. IrqInv => HandlerIsCurrent
    BY NoneAssumption DEF IrqInv, TypeOK, EnabledInv, HandlerIsCurrent, NoCall
  <1>2. QED BY <1>1, IrqAlways, PTL

\* An edge from before an irq() never reaches the handler that call installed.
THEOREM EdgeCorrect == Spec => []NoStaleEdge
  <1>1. IrqInv => NoStaleEdge BY DEF IrqInv, TypeOK, EnabledInv, NoStaleEdge
  <1>2. QED BY <1>1, IrqAlways, PTL

-----------------------------------------------------------------------------
(* The collector and the queue *)

\* Every step preserves QueuedAlive.
LEMMA QueuedNext == TypeOK /\ QueuedAlive /\ [Next]_vars => QueuedAlive'
  <1> SUFFICES ASSUME TypeOK, QueuedAlive, [Next]_vars, ~wild',
                      NEW i \in DOMAIN queue'
               PROVE  heap'[queue'[i][1]] # "freed"
    BY DEF QueuedAlive
  <1> USE DEF TypeOK, QueuedAlive
  <1>1. \A j \in DOMAIN queue : queue[j][1] \in Pins
    OBVIOUS
  <1>2. CASE UNCHANGED vars BY <1>2 DEF vars
  <1>3. ASSUME NEW e \in Edges, Edge(e) PROVE heap'[queue'[i][1]] # "freed"
    BY <1>3 DEF Edge
  <1>4. CASE r_icu_isr
    <2>1. ~wild /\ heap' = heap /\ external_irq_callback(ctrl.p_context)
          /\ (ctrl.p_context # None => heap[ctrl.p_context] # "freed")
      BY <1>4 DEF r_icu_isr
    <2>2. CASE UNCHANGED queue BY <1>1, <2>1, <2>2
    <2>3. CASE ~UNCHANGED queue
      <3>1. /\ ctrl.p_context \in Pins
            /\ queue' = Append(queue, <<ctrl.p_context, irq_ctx[ctrl.p_context]>>)
            /\ irq_ctx[ctrl.p_context] \in Handlers
        BY <2>1, <2>3 DEF external_irq_callback
      <3>2. i \in DOMAIN queue \/ queue'[i][1] = ctrl.p_context
        BY <3>1, AppendProperties
      <3>3. i \in DOMAIN queue => queue'[i] = queue[i]
        BY <3>1, AppendProperties
      <3>4. QED BY <2>1, <3>1, <3>2, <3>3, NoneAssumption
    <2>4. QED BY <2>2, <2>3
  <1>5. ASSUME NEW p \in Pins, pin_obj_make_new(p) PROVE heap'[queue'[i][1]] # "freed"
    BY <1>1, <1>5 DEF pin_obj_make_new
  <1>6. ASSUME NEW p \in Pins, DropPin(p) PROVE heap'[queue'[i][1]] # "freed"
    BY <1>1, <1>6 DEF DropPin
  <1>7. ASSUME NEW p \in Pins, NEW h \in Handlers \cup {None, NotCallable}, NEW t \in Triggers,
               pin_obj_irq(p, h, t)
        PROVE  heap'[queue'[i][1]] # "freed"
    BY <1>7 DEF pin_obj_irq
  <1>8. CASE PinIrq
    BY <1>8 DEF PinIrq, IrqClose, IrqTypeError, IrqNone, IrqContext, IrqPin,
                R_ICU_ExternalIrqOpen, R_ICU_ExternalIrqEnable
  <1>9. CASE RunScheduled
    <2>1. i \in 1 .. Len(Tail(queue)) /\ Tail(queue)[i] = queue[i + 1] /\ i + 1 \in DOMAIN queue
      BY <1>9, HeadTailProperties DEF RunScheduled
    <2>2. QED BY <1>9, <2>1 DEF RunScheduled
  <1>10. CASE gc_collect
    BY <1>1, <1>10 DEF gc_collect, Unreachable, Rooted
  <1>11. CASE SoftReset
    BY <1>11 DEF SoftReset
  <1>12. QED
    BY <1>2, <1>3, <1>4, <1>5, <1>6, <1>7, <1>8, <1>9, <1>10, <1>11 DEF Next

\* A queued call never outlives its Pin: what the collector takes and what a soft
\* reset takes is in no entry of the scheduler's queue.
THEOREM QueuedCorrect == Spec => []QueuedAlive
  <1>1. Init => QueuedAlive BY DEF Init, QueuedAlive
  <1>2. TypeOK /\ QueuedAlive /\ [Next]_vars => QueuedAlive' BY QueuedNext
  <1>3. QED BY <1>1, <1>2, PinTypeCorrect, PTL DEF Spec

-----------------------------------------------------------------------------
(* The analog pins *)

\* A register's content, with the call whose scan it is from; where a call is.
Sample == [scan : Nat, value : Nat]
ReadPcs == {"start", "status", "hook", "read", "done"}

AdcFrame == [chan : Chans, id : Nat \ {0}, pc : ReadPcs, idle : BOOLEAN, slow : BOOLEAN,
             steady : BOOLEAN, alone : BOOLEAN, sample : Sample]

\* Every variable has its type.
AdcTypeOK ==
  /\ g_adc_open \in BOOLEAN
  /\ adansa \subseteq Chans
  /\ adst \in BOOLEAN
  /\ todo \subseteq Chans
  /\ starter \in Nat
  /\ addr \in [Chans -> Sample]
  /\ asel \in [Chans -> BOOLEAN]
  /\ dac \in [on : BOOLEAN, dadr : Nat]
  /\ made \subseteq Chans
  /\ stack \in Seq(AdcFrame)
  /\ byte \in 0 .. 255
  /\ pinned \in [Chans -> BOOLEAN]
  /\ reads \in Nat

\* What the objects have done: the unit is open, the pin is the converter's or the
\* DAC's unless a Pin object took it, and the DAC holds the scaled byte.
PinsInv ==
  /\ made # {} => g_adc_open = TRUE
  /\ stack # <<>> => made # {}
  /\ pinned[Manual] = FALSE => asel[Manual] = TRUE
  /\ dac.dadr = (byte * 4095) \div 255

\* Only the running call is alone on the unit, or about to start a scan.
AloneInv ==
  \A i \in 1 .. Len(stack) :
    i # Len(stack) => stack[i].alone = FALSE /\ stack[i].pc # "start"

\* A sample of the scan that call f started, of what the DAC drives the pin with.
Fresh(f, s) ==
  /\ s.scan = f.id
  /\ (f.steady = TRUE /\ f.chan = Manual /\ dac.on = TRUE /\ pinned[Manual] = FALSE) =>
       s.value = dac.dadr

\* How far the scan of a call that is alone on the unit has come.
ScanOf(f) ==
  /\ f.pc \in {"status", "hook", "read"} => starter = f.id
  /\ f.pc \in {"status", "hook"} => (adst = TRUE /\ f.chan \in todo) \/ Fresh(f, addr[f.chan])
  /\ f.pc = "hook" /\ f.idle = TRUE => Fresh(f, addr[f.chan])
  /\ f.pc = "read" => Fresh(f, addr[f.chan])
  /\ f.pc = "done" => Fresh(f, f.sample)

ScanInv ==
  stack # <<>> => /\ Top.pc = "start" => Top.chan \in adansa
                  /\ Top.alone = TRUE => ScanOf(Top)

AdcInv == AdcTypeOK /\ PinsInv /\ AloneInv /\ ScanInv

-----------------------------------------------------------------------------

LEMMA ReadTop ==
  ASSUME AdcTypeOK, stack # <<>>
  PROVE  /\ stack \in Seq(AdcFrame) /\ Len(stack) \in Nat /\ Len(stack) \in 1 .. Len(stack)
         /\ DOMAIN stack = 1 .. Len(stack) /\ Top \in AdcFrame
  <1>1. stack \in Seq(AdcFrame) BY DEF AdcTypeOK
  <1>2. Len(stack) \in Nat /\ Len(stack) # 0 /\ DOMAIN stack = 1 .. Len(stack)
    BY <1>1, LenProperties, EmptySeq
  <1>3. Len(stack) \in 1 .. Len(stack) BY <1>2
  <1>4. QED BY <1>1, <1>2, <1>3, ElementOfSeq DEF Top

\* A step of the running call changes its frame and no other.
LEMMA ReadBecomes ==
  ASSUME AdcTypeOK, stack # <<>>, NEW f \in AdcFrame, Become(f)
  PROVE  /\ stack' \in Seq(AdcFrame) /\ stack' # <<>> /\ Len(stack') = Len(stack)
         /\ Top' = f
         /\ \A i \in 1 .. Len(stack) : i # Len(stack) => stack'[i] = stack[i]
  <1>1. stack \in Seq(AdcFrame) /\ Len(stack) \in Nat /\ Len(stack) \in 1 .. Len(stack)
    BY ReadTop
  <1>2. stack' = [stack EXCEPT ![Len(stack)] = f] BY DEF Become
  <1>3. stack' \in Seq(AdcFrame) /\ Len(stack') = Len(stack) BY <1>1, <1>2, ExceptSeq
  <1>4. \A i \in 1 .. Len(stack) : stack'[i] = IF i = Len(stack) THEN f ELSE stack[i]
    BY <1>1, <1>2, ExceptSeq
  <1>5. stack' # <<>> BY <1>1, <1>3
  <1>6. Top' = f BY <1>1, <1>3, <1>4 DEF Top
  <1>7. QED BY <1>3, <1>4, <1>5, <1>6

LEMMA UnsteadyFrames ==
  ASSUME AdcTypeOK
  PROVE  /\ Unsteady \in Seq(AdcFrame) /\ Len(Unsteady) = Len(stack) /\ Len(stack) \in Nat
         /\ DOMAIN stack = 1 .. Len(stack)
         /\ \A i \in 1 .. Len(stack) :
              Unsteady[i] = [stack[i] EXCEPT !.slow = TRUE, !.steady = FALSE]
  <1>1. stack \in Seq(AdcFrame) BY DEF AdcTypeOK
  <1>2. DOMAIN stack = 1 .. Len(stack) /\ Len(stack) \in Nat BY <1>1, LenProperties
  <1>3. \A i \in 1 .. Len(stack) : stack[i] \in AdcFrame BY <1>1, ElementOfSeq
  <1>4. ASSUME NEW f \in AdcFrame PROVE [f EXCEPT !.slow = TRUE, !.steady = FALSE] \in AdcFrame
    BY DEF AdcFrame
  <1>5. Unsteady \in [1 .. Len(stack) -> AdcFrame] BY <1>2, <1>3, <1>4 DEF Unsteady
  <1>6. Unsteady \in Seq(AdcFrame) /\ Len(Unsteady) = Len(stack)
    BY <1>2, <1>5, IsASeq, LenProperties
  <1>7. QED BY <1>2, <1>6 DEF Unsteady

\* What Python code in a poll hook does to the call that is waiting.
LEMMA UnsteadyTop ==
  ASSUME AdcTypeOK, AloneInv, stack' = Unsteady
  PROVE  /\ stack' \in Seq(AdcFrame) /\ AloneInv'
         /\ stack' # <<>> => /\ stack # <<>> /\ Top \in AdcFrame
                             /\ Top' = [Top EXCEPT !.slow = TRUE, !.steady = FALSE]
  <1>1. /\ stack' \in Seq(AdcFrame) /\ Len(stack') = Len(stack) /\ Len(stack) \in Nat
        /\ \A i \in 1 .. Len(stack) :
             stack'[i] = [stack[i] EXCEPT !.slow = TRUE, !.steady = FALSE]
    BY UnsteadyFrames
  <1>2. stack \in Seq(AdcFrame) BY DEF AdcTypeOK
  <1>3. \A i \in 1 .. Len(stack) : stack[i] \in AdcFrame BY <1>2, ElementOfSeq
  <1>4. \A i \in 1 .. Len(stack) : stack'[i].alone = stack[i].alone /\ stack'[i].pc = stack[i].pc
    BY <1>1, <1>3, ZenonT(60) DEF AdcFrame
  <1>5. AloneInv' BY <1>1, <1>4 DEF AloneInv
  <1>6. ASSUME stack' # <<>>
        PROVE  /\ stack # <<>> /\ Top \in AdcFrame
               /\ Top' = [Top EXCEPT !.slow = TRUE, !.steady = FALSE]
    <2>1. stack # <<>> BY <1>1, <1>6, <1>2, EmptySeq, LenProperties
    <2>2. Len(stack) \in 1 .. Len(stack) /\ Top \in AdcFrame BY <2>1, ReadTop
    <2>3. Top' = [Top EXCEPT !.slow = TRUE, !.steady = FALSE] BY <1>1, <2>2 DEF Top
    <2>4. QED BY <2>1, <2>2, <2>3
  <1>7. QED BY <1>1, <1>5, <1>6

\* A new call; whatever call waits in its poll hook is not alone any more.
LEMMA ReadCalls ==
  ASSUME AdcTypeOK, NEW c \in Chans, adc_obj_read_u16(c)
  PROVE  /\ stack' \in Seq(AdcFrame) /\ AloneInv' /\ stack' # <<>>
         /\ Top'.pc = "start" /\ Top'.chan = c
  <1> DEFINE f == [chan |-> c, id |-> reads + 1, pc |-> "start", idle |-> FALSE, slow |-> FALSE,
                   steady |-> TRUE, alone |-> TRUE, sample |-> Cleared]
             rest == [i \in DOMAIN stack |-> [Unsteady[i] EXCEPT !.alone = FALSE]]
  <1>1. stack' = Append(rest, f) BY DEF adc_obj_read_u16
  <1>2. Cleared \in Sample BY DEF Cleared, Sample
  <1>3. reads + 1 \in Nat \ {0} BY DEF AdcTypeOK
  <1>4. f \in AdcFrame /\ f.pc = "start" /\ f.chan = c BY <1>2, <1>3 DEF AdcFrame, ReadPcs
  <1>5. /\ DOMAIN stack = 1 .. Len(stack) /\ Len(stack) \in Nat
        /\ \A i \in 1 .. Len(stack) : Unsteady[i] \in AdcFrame
    BY UnsteadyFrames, ElementOfSeq
  <1>6. ASSUME NEW g \in AdcFrame
        PROVE  /\ [g EXCEPT !.alone = FALSE] \in AdcFrame
               /\ [g EXCEPT !.alone = FALSE].alone = FALSE
               /\ [g EXCEPT !.alone = FALSE].pc = g.pc
    BY DEF AdcFrame
  <1>7. ASSUME NEW i \in 1 .. Len(stack) PROVE Unsteady[i].pc = "hook"
    <2>1. stack[i] \in AdcFrame /\ stack # <<>>
      BY <1>5, <1>7, ElementOfSeq, EmptySeq DEF AdcTypeOK
    <2>2. Len(stack) = 1 /\ Top.pc = "hook" BY <2>1 DEF adc_obj_read_u16, PythonRuns
    <2>3. stack[i].pc = "hook" BY <1>7, <2>2 DEF Top
    <2>4. Unsteady[i] = [stack[i] EXCEPT !.slow = TRUE, !.steady = FALSE]
      BY <1>7, UnsteadyFrames
    <2>5. QED BY <2>1, <2>3, <2>4 DEF AdcFrame
  <1>8. /\ rest \in [1 .. Len(stack) -> AdcFrame]
        /\ \A i \in 1 .. Len(stack) : rest[i].alone = FALSE /\ rest[i].pc # "start"
    BY <1>5, <1>6, <1>7
  <1> HIDE DEF f, rest
  <1>9. rest \in Seq(AdcFrame) /\ Len(rest) = Len(stack) BY <1>5, <1>8, IsASeq, LenProperties
  <1>10. /\ stack' \in Seq(AdcFrame) /\ Len(stack') = Len(stack) + 1
        /\ stack'[Len(stack) + 1] = f
        /\ \A i \in 1 .. Len(stack) : stack'[i] = rest[i]
    BY <1>1, <1>4, <1>9, <1>5, AppendProperties
  <1>11. AloneInv' BY <1>5, <1>8, <1>10 DEF AloneInv
  <1>12. Top' = f /\ stack' # <<>> BY <1>5, <1>10 DEF Top
  <1>13. QED BY <1>4, <1>10, <1>11, <1>12

\* The call that a return or a timeout leaves behind is not alone.
LEMMA ReadReturns ==
  ASSUME AdcTypeOK, AloneInv, stack # <<>>, stack' = SubSeq(stack, 1, Len(stack) - 1)
  PROVE  /\ stack' \in Seq(AdcFrame) /\ AloneInv'
         /\ stack' # <<>> => Top'.alone = FALSE /\ Top'.pc # "start"
  <1>1. stack \in Seq(AdcFrame) /\ Len(stack) \in Nat /\ Len(stack) \in 1 .. Len(stack)
    BY ReadTop
  <1>2. \A i \in 1 .. Len(stack) - 1 : stack[i] \in AdcFrame BY <1>1, ElementOfSeq
  <1>3. /\ stack' \in Seq(AdcFrame)
        /\ Len(stack') = IF 1 <= Len(stack) - 1 THEN Len(stack) - 1 - 1 + 1 ELSE 0
        /\ \A i \in 1 .. Len(stack) - 1 - 1 + 1 : stack'[i] = stack[1 + i - 1]
    BY <1>1, <1>2, SubSeqProperties
  <1>4. Len(stack') = Len(stack) - 1
    <2>1. \A k \in Nat : k \in 1 .. k => (IF 1 <= k - 1 THEN k - 1 - 1 + 1 ELSE 0) = k - 1
      OBVIOUS
    <2>2. QED BY <1>1, <1>3, <2>1, Zenon
  <1>5. \A i \in 1 .. Len(stack) - 1 : stack'[i] = stack[i] BY <1>1, <1>3
  <1>6. \A i \in 1 .. Len(stack) - 1 : stack'[i].alone = FALSE /\ stack'[i].pc # "start"
    BY <1>1, <1>5 DEF AloneInv
  <1>7. AloneInv' BY <1>1, <1>4, <1>6 DEF AloneInv
  <1>8. ASSUME stack' # <<>> PROVE Top'.alone = FALSE /\ Top'.pc # "start"
    <2>1. Len(stack') # 0 BY <1>3, <1>8, EmptySeq
    <2>2. Len(stack) - 1 \in 1 .. Len(stack) - 1 BY <1>1, <1>4, <2>1
    <2>3. QED BY <1>4, <1>6, <2>2 DEF Top
  <1>9. QED BY <1>3, <1>7, <1>8

LEMMA AdcInitial == AdcInit => AdcInv
  <1> SUFFICES ASSUME AdcInit PROVE AdcInv OBVIOUS
  <1>1. Cleared \in Sample BY DEF Cleared, Sample
  <1>2. Manual \in Chans BY DEF Chans
  <1>3. AdcTypeOK
    <2>1. stack \in Seq(AdcFrame) BY EmptySeq DEF AdcInit
    <2>2. addr \in [Chans -> Sample] BY <1>1 DEF AdcInit
    <2>3. byte \in 0 .. 255 BY DEF AdcInit
    <2>4. QED BY <2>1, <2>2, <2>3 DEF AdcInit, AdcTypeOK
  <1>4. dac.dadr = 0 /\ byte = 0 /\ (0 * 4095) \div 255 = 0 BY DEF AdcInit
  <1>5. PinsInv BY <1>2, <1>4 DEF AdcInit, PinsInv
  <1>6. AloneInv /\ ScanInv BY DEF AdcInit, AloneInv, ScanInv
  <1>7. QED BY <1>3, <1>5, <1>6 DEF AdcInv

-----------------------------------------------------------------------------
(* Python code *)

\* Python code in a poll hook that leaves the unit alone only makes the call unsteady.
LEMMA UnsteadyScan ==
  ASSUME AdcTypeOK, AloneInv, ScanInv, stack' = Unsteady, stack # <<>> => UNCHANGED unit
  PROVE  ScanInv'
  <1> SUFFICES ASSUME stack' # <<>>
               PROVE  /\ Top'.pc = "start" => Top'.chan \in adansa'
                      /\ Top'.alone = TRUE => ScanOf(Top)'
    BY DEF ScanInv
  <1>1. /\ stack # <<>> /\ Top \in AdcFrame
        /\ Top' = [Top EXCEPT !.slow = TRUE, !.steady = FALSE]
    BY UnsteadyTop
  <1>2. /\ Top'.pc = Top.pc /\ Top'.chan = Top.chan /\ Top'.id = Top.id /\ Top'.idle = Top.idle
        /\ Top'.sample = Top.sample /\ Top'.alone = Top.alone /\ Top'.steady = FALSE
    BY <1>1 DEF AdcFrame
  <1>3. (Top.pc = "start" => Top.chan \in adansa) /\ (Top.alone = TRUE => ScanOf(Top))
    BY <1>1 DEF ScanInv
  <1>4. UNCHANGED <<adansa, adst, todo, starter, addr>> BY <1>1 DEF unit
  <1>5. QED BY <1>2, <1>3, <1>4 DEF ScanOf, Fresh

LEMMA AdcPython ==
  ASSUME AdcInv, Python
  PROVE  AdcInv'
  <1> USE DEF AdcInv
  <1>1. Manual \in Chans BY DEF Chans
  <1>2. ASSUME NEW c \in Chans, pin_configure(c) PROVE AdcInv'
    <2>1. /\ stack' = Unsteady /\ UNCHANGED <<g_adc_open, unit, dac, byte, made, reads>>
          /\ asel' = [asel EXCEPT ![c] = FALSE] /\ pinned' = [pinned EXCEPT ![c] = TRUE]
      BY <1>2 DEF pin_configure
    <2>2. AloneInv' /\ ScanInv' /\ stack' \in Seq(AdcFrame) /\ (stack' # <<>> => stack # <<>>)
      BY <2>1, UnsteadyTop, UnsteadyScan
    <2>3. AdcTypeOK' BY <2>1, <2>2 DEF AdcTypeOK, unit
    <2>4. pinned'[Manual] = FALSE => asel'[Manual] = TRUE
      BY <1>1, <2>1 DEF AdcTypeOK, PinsInv
    <2>5. PinsInv' BY <2>1, <2>2, <2>4 DEF PinsInv
    <2>6. QED BY <2>2, <2>3, <2>5
  <1>3. ASSUME NEW c \in Chans, adc_obj_make_new(c) PROVE AdcInv'
    <2>1. /\ stack' = Unsteady /\ UNCHANGED <<adansa, starter, addr, dac, byte, reads>>
          /\ made' = made \cup {c} /\ pinned' = [pinned EXCEPT ![c] = FALSE]
          /\ g_adc_open' = TRUE
          /\ asel' = IF c = Manual THEN [asel EXCEPT ![c] = TRUE] ELSE asel
      BY <1>3 DEF adc_obj_make_new, adc_unit_open, RA_SETUP_ANALOG_PIN
    <2>2. g_adc_open = TRUE => UNCHANGED <<adst, todo>>
      BY <1>3 DEF adc_obj_make_new, adc_unit_open
    <2>3. adst' \in BOOLEAN /\ todo' \subseteq Chans
      BY <1>3 DEF adc_obj_make_new, adc_unit_open, R_ADC_Open, AdcTypeOK
    <2>4. stack # <<>> => UNCHANGED unit BY <2>1, <2>2 DEF PinsInv, unit
    <2>5. AloneInv' /\ ScanInv' /\ stack' \in Seq(AdcFrame)
      BY <2>1, <2>4, UnsteadyTop, UnsteadyScan
    <2>6. AdcTypeOK' BY <2>1, <2>3, <2>5 DEF AdcTypeOK
    <2>7. pinned'[Manual] = FALSE => asel'[Manual] = TRUE
      BY <1>1, <2>1 DEF AdcTypeOK, PinsInv
    <2>8. PinsInv' BY <2>1, <2>7 DEF PinsInv
    <2>9. QED BY <2>5, <2>6, <2>8
  <1>4. CASE dac_obj_make_new
    <2>1. /\ stack' = Unsteady /\ UNCHANGED <<g_adc_open, unit, byte, made, reads>>
          /\ asel' = [asel EXCEPT ![Manual] = TRUE] /\ dac' = [dac EXCEPT !.on = TRUE]
          /\ pinned' = [pinned EXCEPT ![Manual] = FALSE]
      BY <1>4 DEF dac_obj_make_new, RA_SETUP_ANALOG_PIN
    <2>2. AloneInv' /\ ScanInv' /\ stack' \in Seq(AdcFrame) /\ (stack' # <<>> => stack # <<>>)
      BY <2>1, UnsteadyTop, UnsteadyScan
    <2>3. AdcTypeOK' BY <2>1, <2>2 DEF AdcTypeOK, unit
    <2>4. asel'[Manual] = TRUE /\ dac'.dadr = dac.dadr BY <1>1, <2>1 DEF AdcTypeOK
    <2>5. PinsInv' BY <2>1, <2>2, <2>4 DEF PinsInv
    <2>6. QED BY <2>2, <2>3, <2>5
  <1>5. ASSUME NEW v \in Bytes, dac_obj_write(v) PROVE AdcInv'
    <2>1. /\ stack' = Unsteady /\ UNCHANGED <<g_adc_open, unit, asel, pinned, made, reads>>
          /\ dac' = [dac EXCEPT !.dadr = (v * 4095) \div 255] /\ byte' = v
      BY <1>5 DEF dac_obj_write
    <2>2. AloneInv' /\ ScanInv' /\ stack' \in Seq(AdcFrame) /\ (stack' # <<>> => stack # <<>>)
      BY <2>1, UnsteadyTop, UnsteadyScan
    <2>3. v \in 0 .. 255 /\ (v * 4095) \div 255 \in Nat
      <3>1. v \in 0 .. 255 BY AdcBounds
      <3>2. v * 4095 \in Nat BY <3>1
      <3>3. QED BY <3>1, <3>2
    <2>4. dac'.dadr = (v * 4095) \div 255 /\ dac' \in [on : BOOLEAN, dadr : Nat]
      BY <2>1, <2>3 DEF AdcTypeOK
    <2>5. AdcTypeOK' BY <2>1, <2>2, <2>3, <2>4 DEF AdcTypeOK, unit
    <2>6. PinsInv' BY <2>1, <2>2, <2>4 DEF PinsInv
    <2>7. QED BY <2>2, <2>5, <2>6
  <1>6. ASSUME NEW c \in Chans, adc_obj_read_u16(c) PROVE AdcInv'
    <2>1. /\ stack' \in Seq(AdcFrame) /\ AloneInv' /\ stack' # <<>>
          /\ Top'.pc = "start" /\ Top'.chan = c
      BY <1>6, ReadCalls
    <2>2. /\ adansa' = Scan \cup {c} /\ reads' = reads + 1 /\ c \in made
          /\ UNCHANGED <<g_adc_open, adst, starter, addr, pins, made>>
          /\ todo' \in IF adst THEN SUBSET (todo \cup adansa') ELSE {todo}
      BY <1>6 DEF adc_obj_read_u16, R_ADC_ScanCfg
    <2>3. adansa' \subseteq Chans BY <2>2 DEF Chans
    <2>4. todo' \subseteq Chans BY <2>2, <2>3 DEF AdcTypeOK
    <2>5. AdcTypeOK' BY <2>1, <2>2, <2>3, <2>4 DEF AdcTypeOK, pins
    <2>6. PinsInv' BY <2>2 DEF PinsInv, pins
    <2>7. ScanInv' BY <2>1, <2>2 DEF ScanInv, ScanOf
    <2>8. QED BY <2>1, <2>5, <2>6, <2>7
  <1>7. QED BY <1>2, <1>3, <1>4, <1>5, <1>6 DEF Python

-----------------------------------------------------------------------------
(* The steps of read_u16 *)

\* The frame of the running call is replaced, and the others stay as they are.
LEMMA ReadStep ==
  ASSUME AdcTypeOK, AloneInv, stack # <<>>, NEW f \in AdcFrame, Become(f)
  PROVE  stack' \in Seq(AdcFrame) /\ AloneInv' /\ stack' # <<>> /\ Top' = f
  <1>1. /\ stack' \in Seq(AdcFrame) /\ stack' # <<>> /\ Len(stack') = Len(stack) /\ Top' = f
        /\ \A i \in 1 .. Len(stack) : i # Len(stack) => stack'[i] = stack[i]
    BY ReadBecomes
  <1>2. AloneInv' BY <1>1 DEF AloneInv
  <1>3. QED BY <1>1, <1>2

LEMMA AdcMethod ==
  ASSUME AdcInv, Method
  PROVE  AdcInv'
  <1> USE DEF AdcInv
  <1>1. stack # <<>> /\ Top \in AdcFrame
    BY ReadTop DEF Method, R_ADC_ScanStart, R_ADC_StatusGet, ScanTimeout, HookEnds, R_ADC_Read,
                   Return, Running
  <1>2. Top.chan \in Chans /\ addr[Top.chan] \in Sample /\ Top.alone \in BOOLEAN
    BY <1>1 DEF AdcFrame, AdcTypeOK
  <1>3. CASE R_ADC_ScanStart
    <2> DEFINE f == [Top EXCEPT !.pc = "status", !.alone = ~adst]
    <2>1. /\ Top.pc = "start" /\ Become(f) /\ adst' = TRUE
          /\ UNCHANGED <<g_adc_open, adansa, addr, pins, made, reads>>
          /\ IF adst THEN UNCHANGED <<todo, starter>> ELSE todo' = adansa /\ starter' = Top.id
      BY <1>3 DEF R_ADC_ScanStart, Running
    <2>2. f \in AdcFrame /\ f.pc = "status" /\ f.chan = Top.chan /\ f.id = Top.id
          /\ f.alone = ~adst
      BY <1>1 DEF AdcFrame, ReadPcs, AdcTypeOK
    <2> HIDE DEF f
    <2>3. stack' \in Seq(AdcFrame) /\ AloneInv' /\ stack' # <<>> /\ Top' = f
      BY <1>1, <2>1, <2>2, ReadStep
    <2>4. todo' \subseteq Chans /\ starter' \in Nat
      BY <1>1, <2>1 DEF AdcTypeOK, AdcFrame
    <2>5. AdcTypeOK' BY <2>1, <2>3, <2>4 DEF AdcTypeOK, pins
    <2>6. PinsInv' BY <1>1, <2>1 DEF PinsInv, pins
    <2>7. ScanInv'
      <3> SUFFICES ASSUME f.alone = TRUE PROVE ScanOf(Top)' BY <2>2, <2>3 DEF ScanInv
      <3>1. adst = FALSE /\ Top.chan \in adansa
        BY <1>1, <2>1, <2>2, Zenon DEF ScanInv, AdcTypeOK
      <3>2. QED BY <2>1, <2>2, <2>3, <3>1 DEF ScanOf
    <2>8. QED BY <2>3, <2>5, <2>6, <2>7
  <1>4. CASE R_ADC_StatusGet
    <2> DEFINE f == [Top EXCEPT !.pc = "hook", !.idle = ~adst]
    <2>1. Top.pc = "status" /\ Become(f) /\ UNCHANGED <<g_adc_open, unit, pins, made, reads>>
      BY <1>4 DEF R_ADC_StatusGet, Running
    <2>2. f \in AdcFrame /\ f.pc = "hook" /\ f.chan = Top.chan /\ f.id = Top.id
          /\ f.alone = Top.alone /\ f.steady = Top.steady /\ f.idle = ~adst
      BY <1>1 DEF AdcFrame, ReadPcs, AdcTypeOK
    <2> HIDE DEF f
    <2>3. stack' \in Seq(AdcFrame) /\ AloneInv' /\ stack' # <<>> /\ Top' = f
      BY <1>1, <2>1, <2>2, ReadStep
    <2>4. AdcTypeOK' BY <2>1, <2>3 DEF AdcTypeOK, unit, pins
    <2>5. PinsInv' BY <1>1, <2>1 DEF PinsInv, pins
    <2>6. ScanInv'
      BY <1>1, <2>1, <2>2, <2>3 DEF ScanInv, ScanOf, Fresh, unit, pins
    <2>7. QED BY <2>3, <2>4, <2>5, <2>6
  <1>5. CASE HookEnds
    <2> DEFINE f == [Top EXCEPT !.pc = IF Top.idle THEN "read" ELSE "status"]
    <2>1. Top.pc = "hook" /\ Become(f) /\ UNCHANGED <<g_adc_open, unit, pins, made, reads>>
      BY <1>5 DEF HookEnds, Running
    <2>2. f \in AdcFrame /\ f.pc = (IF Top.idle THEN "read" ELSE "status")
          /\ f.chan = Top.chan /\ f.id = Top.id
          /\ f.alone = Top.alone /\ f.steady = Top.steady
      BY <1>1 DEF AdcFrame, ReadPcs
    <2> HIDE DEF f
    <2>3. stack' \in Seq(AdcFrame) /\ AloneInv' /\ stack' # <<>> /\ Top' = f
      BY <1>1, <2>1, <2>2, ReadStep
    <2>4. AdcTypeOK' BY <2>1, <2>3 DEF AdcTypeOK, unit, pins
    <2>5. PinsInv' BY <1>1, <2>1 DEF PinsInv, pins
    <2>6. Top.idle \in BOOLEAN BY <1>1 DEF AdcFrame
    <2>7. ScanInv'
      BY <1>1, <2>1, <2>2, <2>3, <2>6 DEF ScanInv, ScanOf, Fresh, unit, pins
    <2>8. QED BY <2>3, <2>4, <2>5, <2>7
  <1>6. CASE R_ADC_Read
    <2> DEFINE f == [Top EXCEPT !.pc = "done", !.sample = addr[Top.chan]]
    <2>1. /\ Top.pc = "read" /\ Become(f) /\ addr' = [addr EXCEPT ![Top.chan] = Cleared]
          /\ UNCHANGED <<g_adc_open, adansa, adst, todo, starter, pins, made, reads>>
      BY <1>6 DEF R_ADC_Read, Running
    <2>2. f \in AdcFrame /\ f.pc = "done" /\ f.chan = Top.chan /\ f.id = Top.id
          /\ f.alone = Top.alone /\ f.steady = Top.steady /\ f.sample = addr[Top.chan]
      BY <1>1, <1>2 DEF AdcFrame, ReadPcs
    <2> HIDE DEF f
    <2>3. stack' \in Seq(AdcFrame) /\ AloneInv' /\ stack' # <<>> /\ Top' = f
      BY <1>1, <2>1, <2>2, ReadStep
    <2>4. addr' \in [Chans -> Sample] BY <1>2, <2>1 DEF AdcTypeOK, Cleared, Sample
    <2>5. AdcTypeOK' BY <2>1, <2>3, <2>4 DEF AdcTypeOK, pins
    <2>6. PinsInv' BY <1>1, <2>1 DEF PinsInv, pins
    <2>7. ScanInv' BY <1>1, <2>1, <2>2, <2>3 DEF ScanInv, ScanOf, Fresh, pins
    <2>8. QED BY <2>3, <2>5, <2>6, <2>7
  <1>7. CASE ScanTimeout \/ Return
    <2>1. /\ stack' = SubSeq(stack, 1, Len(stack) - 1)
          /\ UNCHANGED <<g_adc_open, unit, pins, made, reads>>
      BY <1>7 DEF ScanTimeout, Return
    <2>2. /\ stack' \in Seq(AdcFrame) /\ AloneInv'
          /\ stack' # <<>> => Top'.alone = FALSE /\ Top'.pc # "start"
      BY <1>1, <2>1, ReadReturns
    <2>3. AdcTypeOK' BY <2>1, <2>2 DEF AdcTypeOK, unit, pins
    <2>4. PinsInv' BY <1>1, <2>1 DEF PinsInv, pins
    <2>5. ScanInv' BY <2>2 DEF ScanInv
    <2>6. QED BY <2>2, <2>3, <2>4, <2>5
  <1>8. QED BY <1>3, <1>4, <1>5, <1>6, <1>7 DEF Method

-----------------------------------------------------------------------------
(* The unit *)

LEMMA AdcUnit ==
  ASSUME AdcInv, Unit
  PROVE  AdcInv'
  <1> USE DEF AdcInv
  <1>1. Manual \in Chans BY DEF Chans
  <1>2. UNCHANGED <<g_adc_open, adansa, starter, pins, made, stack, reads>>
    BY DEF Unit, Convert, ScanEnds
  <1>3. PinsInv' /\ AloneInv' BY <1>2 DEF PinsInv, AloneInv, pins
  <1>4. CASE Convert
    <2>1. PICK c : /\ todo' = todo \ {c} /\ adst = TRUE /\ adst' = adst
                   /\ \E v \in Level(c) :
                        addr' = [addr EXCEPT ![c] = [scan |-> starter, value |-> v]]
      BY <1>4, Zenon DEF Convert, AdcTypeOK
    <2>2. PICK v \in Level(c) : addr' = [addr EXCEPT ![c] = [scan |-> starter, value |-> v]]
      BY <2>1
    <2>3. v \in Nat BY AdcBounds DEF Level, AdcTypeOK
    <2>4. AdcTypeOK' BY <1>2, <2>1, <2>2, <2>3 DEF AdcTypeOK, Sample, pins
    <2>5. ASSUME stack # <<>>, Top.alone = TRUE, ScanOf(Top) PROVE ScanOf(Top)'
      <3>1. Top \in AdcFrame /\ Top.chan \in Chans BY <2>5, ReadTop DEF AdcFrame
      <3>2. Top' = Top BY <1>2 DEF Top
      <3>3. ASSUME Top.pc \in {"status", "hook", "read"}, c = Top.chan
            PROVE  Fresh(Top, addr[Top.chan])'
        <4>1. starter = Top.id BY <2>5, <3>3 DEF ScanOf
        <4>2. addr'[Top.chan] = [scan |-> starter, value |-> v]
          BY <2>2, <3>1, <3>3 DEF AdcTypeOK
        <4>3. (Top.chan = Manual /\ dac.on = TRUE /\ pinned[Manual] = FALSE) => v = dac.dadr
          BY <3>3 DEF Level, PinsInv
        <4>4. QED BY <1>2, <3>2, <4>1, <4>2, <4>3 DEF Fresh, pins
      <3>4. ASSUME c # Top.chan
            PROVE  /\ Fresh(Top, addr[Top.chan]) => Fresh(Top, addr[Top.chan])'
                   /\ Top.chan \in todo => Top.chan \in todo'
        <4>1. addr'[Top.chan] = addr[Top.chan] BY <2>2, <3>1, <3>4 DEF AdcTypeOK
        <4>2. QED BY <1>2, <2>1, <3>2, <3>4, <4>1 DEF Fresh, pins
      <3>5. Fresh(Top, Top.sample) => Fresh(Top, Top.sample)' BY <1>2, <3>2 DEF Fresh, pins
      <3>6. QED BY <1>2, <2>1, <2>5, <3>2, <3>3, <3>4, <3>5 DEF ScanOf
    <2>6. Top' = Top BY <1>2 DEF Top
    <2>7. ScanInv' BY <1>2, <2>5, <2>6 DEF ScanInv
    <2>8. QED BY <1>3, <2>4, <2>7
  <1>5. CASE ScanEnds
    <2>1. todo = {} /\ UNCHANGED <<todo, addr>> /\ adst' = FALSE BY <1>5 DEF ScanEnds
    <2>2. AdcTypeOK' BY <1>2, <2>1 DEF AdcTypeOK, pins
    <2>3. Top' = Top BY <1>2 DEF Top
    <2>4. ScanInv' BY <1>2, <2>1, <2>3 DEF ScanInv, ScanOf, Fresh, pins
    <2>5. QED BY <1>3, <2>2, <2>4
  <1>6. QED BY <1>4, <1>5 DEF Unit

LEMMA AdcAlways == AdcSpec => []AdcInv
  <1>1. AdcInit => AdcInv BY AdcInitial
  <1>2. AdcInv /\ [AdcNext]_adcVars => AdcInv'
    <2> SUFFICES ASSUME AdcInv, [AdcNext]_adcVars PROVE AdcInv' OBVIOUS
    <2>1. CASE AdcNext BY <2>1, AdcPython, AdcMethod, AdcUnit DEF AdcNext
    <2>2. CASE UNCHANGED adcVars
      BY <2>2 DEF adcVars, unit, pins, AdcInv, AdcTypeOK, PinsInv, AloneInv, ScanInv, ScanOf,
                  Fresh, Top
    <2>3. QED BY <2>1, <2>2
  <1>3. QED BY <1>1, <1>2, PTL DEF AdcSpec

\* The variables of the converter unit, its pins and the calls always have their types.
THEOREM AdcTypeCorrect == AdcSpec => []AdcTypeOK
  <1>1. AdcInv => AdcTypeOK BY DEF AdcInv
  <1>2. QED BY <1>1, AdcAlways, PTL

\* For any scan mask and any calls: a read_u16 that was alone on the unit returns a
\* sample of the scan it started, never a cleared or an unconverted register.
THEOREM FreshCorrect == AdcSpec => []FreshSample
  <1>1. ASSUME AdcInv PROVE FreshSample
    <2> SUFFICES ASSUME NEW i \in DOMAIN stack, stack[i].pc = "done", stack[i].alone
                 PROVE  stack[i].sample.scan = stack[i].id
      BY DEF FreshSample
    <2>1. stack \in Seq(AdcFrame) /\ Len(stack) \in Nat /\ DOMAIN stack = 1 .. Len(stack)
      BY <1>1, LenProperties DEF AdcInv, AdcTypeOK
    <2>2. i \in 1 .. Len(stack) /\ stack[i] \in AdcFrame /\ stack # <<>>
      BY <2>1, ElementOfSeq, EmptySeq
    <2>3. stack[i].alone = TRUE BY <2>2 DEF AdcFrame
    <2>4. i = Len(stack) BY <1>1, <2>2, <2>3 DEF AdcInv, AloneInv
    <2>5. ScanOf(Top) /\ stack[i] = Top BY <1>1, <2>2, <2>3, <2>4 DEF AdcInv, ScanInv, Top
    <2>6. QED BY <2>5 DEF ScanOf, Fresh
  <1>2. QED BY <1>1, AdcAlways, PTL

\* The two scalings, of DAC.write from 8 to 12 bits and of read_u16 from 12 to 16
\* bits, lose nothing of a byte.
LEMMA ScalingsAgree ==
  ASSUME NEW b \in 0 .. 255
  PROVE  scaled_value((b * 4095) \div 255) \div 256 = b
  <1>1. PICK q \in 0 .. 15, r \in 0 .. 16 : b = 17 * q + r
    <2>1. b \div 17 \in Int /\ 17 * (b \div 17) <= b /\ b < 17 * (b \div 17) + 17 OBVIOUS
    <2>2. b \div 17 \in 0 .. 15 /\ b - 17 * (b \div 17) \in 0 .. 16 BY <2>1
    <2>3. b = 17 * (b \div 17) + (b - 17 * (b \div 17)) BY <2>1
    <2>4. QED BY <2>2, <2>3
  <1>2. (b * 4095) \div 255 = 16 * b + q
    <2>1. b * 4095 = 255 * (16 * b + q) + 15 * r BY <1>1
    <2>2. 15 * r \in 0 .. 254 BY <1>1
    <2>3. QED BY <1>1, <2>1, <2>2
  <1>3. (16 * b + q) * 65535 = 4095 * (256 * b + 16 * q) + 15 * (16 * b + q) BY <1>1
  <1>4. 15 * (16 * b + q) \in Nat /\ 15 * (16 * b + q) < 4095 * 16 BY <1>1
  <1>5. scaled_value(16 * b + q) \in 256 * b + 16 * q .. 256 * b + 16 * q + 15
    BY <1>1, <1>3, <1>4 DEF scaled_value
  <1>6. scaled_value(16 * b + q) \in 256 * b .. 256 * b + 255 BY <1>1, <1>5
  <1>7. QED BY <1>2, <1>6

\* For any channels, bytes and inputs: what DAC.write puts on its pin is what an
\* undisturbed read_u16 of that pin returns, to 8 bits.
THEOREM ReadsBackCorrect == AdcSpec => []DacReadsBack
  <1>1. ASSUME AdcInv PROVE DacReadsBack
    <2> SUFFICES ASSUME NEW i \in DOMAIN stack, stack[i].pc = "done", stack[i].chan = Manual,
                        stack[i].alone, stack[i].steady, dac.on, ~pinned[Manual]
                 PROVE  scaled_value(stack[i].sample.value) \div 256 = byte
      BY DEF DacReadsBack
    <2>1. stack \in Seq(AdcFrame) /\ Len(stack) \in Nat /\ DOMAIN stack = 1 .. Len(stack)
      BY <1>1, LenProperties DEF AdcInv, AdcTypeOK
    <2>2. i \in 1 .. Len(stack) /\ stack[i] \in AdcFrame /\ stack # <<>>
      BY <2>1, ElementOfSeq, EmptySeq
    <2>3. /\ stack[i].alone = TRUE /\ stack[i].steady = TRUE /\ dac.on = TRUE
          /\ pinned[Manual] = FALSE
      BY <1>1, <2>2 DEF AdcFrame, AdcInv, AdcTypeOK, Chans
    <2>4. i = Len(stack) BY <1>1, <2>2, <2>3 DEF AdcInv, AloneInv
    <2>5. ScanOf(Top) /\ stack[i] = Top BY <1>1, <2>2, <2>3, <2>4 DEF AdcInv, ScanInv, Top
    <2>6. stack[i].sample.value = dac.dadr BY <2>3, <2>5 DEF ScanOf, Fresh
    <2>7. dac.dadr = (byte * 4095) \div 255 /\ byte \in 0 .. 255
      BY <1>1 DEF AdcInv, PinsInv, AdcTypeOK
    <2>8. QED BY <2>6, <2>7, ScalingsAgree
  <1>2. QED BY <1>1, AdcAlways, PTL

===============================================================================
