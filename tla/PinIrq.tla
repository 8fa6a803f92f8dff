-------------------------------- MODULE PinIrq --------------------------------
(***************************************************************************)
(* Pin interrupts: Pin.irq() of machine_pin.c over the external interrupt  *)
(* driver r_icu.c, the vector table, and external_irq_callback, which      *)
(* gives the handler to the scheduler (Sched is about its queue; here it   *)
(* is a bounded sequence).                                                 *)
(*                                                                         *)
(* Pins are the Pin objects of one pin, P008, the only one in              *)
(* pin_irq_map; irq() of any other pin raises ValueError before it changes *)
(* anything.  A Pin and its irq_ctx live in the Python heap.  The control  *)
(* block g_external_irq_s2_ctrl is static: until the first open its irq    *)
(* field is 0, which is the vector of SCI3_RXI, the receive interrupt of   *)
(* the REPL.  The parameter checks of the driver are compiled out.         *)
(***************************************************************************)
EXTENDS Naturals, Sequences

CONSTANTS Pins,       \* the Pin objects a program may create for P008
          Handlers,   \* callable objects
          None,       \* no handler: Python's None, and C's NULL
          NotCallable,
          Depth,      \* MICROPY_SCHEDULER_DEPTH
          MaxCalls,   \* bound: calls of irq()
          MaxEdges,   \* bound: edges on the pin
          MaxResets   \* bound: soft resets

ASSUME NoneAssumption == None \notin Handlers \cup Pins /\ NotCallable \notin Handlers \cup {None}
ASSUME DepthAssumption == Depth \in Nat \ {0}
ASSUME BoundsAssumption == MaxCalls \in Nat /\ MaxEdges \in Nat /\ MaxResets \in Nat

SCI3_RXI == 0
ICU_IRQ12 == 4
Vectors == {SCI3_RXI, ICU_IRQ12}

Edges == {"rising", "falling"}
Triggers == Edges \cup {"both"}

VARIABLES
  heap,            \* of every Pin: "new" (not made), "held", "dropped" or "freed"
  irq_ctx,         \* the Pin has a context, with this handler; None: irq_ctx is NULL
  ctrl,            \* g_external_irq_s2_ctrl: irq, open, p_context
  irqmd, isel,     \* IRQCR: the trigger; PFS: the pin is an interrupt input
  enabled,         \* NVIC: the vectors that are enabled
  isr_context,     \* gp_renesas_isr_context
  pending,         \* the interrupt request of vector ICU_IRQ12
  queue,           \* the scheduler's queue
  pc, self, handler, trigger,   \* pin_obj_irq: position and arguments
  configured,      \* history: the Pin, handler and trigger of the irq() call in force
  retaken,         \* history: a Pin was made for the pin after irq() made it an input
  old,             \* history: the pending edge came before that call
  wild,            \* history: a handler read a context that is no longer in the heap
  calls, edges, resets

arguments == <<self, handler, trigger>>
icu == <<ctrl, irqmd, isel, enabled, isr_context>>
bounds == <<calls, edges, resets>>
vars == <<heap, irq_ctx, icu, pending, queue, pc, arguments, configured, retaken, old, wild, bounds>>

NoCall == <<None, None, "both">>

\* After hal_entry has opened the REPL's UART.
Init ==
  /\ heap = [p \in Pins |-> "new"]
  /\ irq_ctx = [p \in Pins |-> None]
  /\ ctrl = [irq |-> 0, open |-> FALSE, p_context |-> None]
  /\ irqmd = "falling"
  /\ isel = FALSE
  /\ enabled = {SCI3_RXI}
  /\ isr_context = [v \in Vectors |-> IF v = SCI3_RXI THEN "uart0" ELSE "NULL"]
  /\ pending = FALSE
  /\ queue = <<>>
  /\ pc = "idle"
  /\ self = None
  /\ handler = None
  /\ trigger = "rising"
  /\ configured = NoCall
  /\ retaken = FALSE
  /\ old = FALSE
  /\ wild = FALSE
  /\ calls = 0
  /\ edges = 0
  /\ resets = 0

Goto(from, to) == pc = from /\ pc' = to

-----------------------------------------------------------------------------
(* The pin and its interrupt *)

\* An edge sets the request flag, whether or not the vector is enabled.
Edge(e) ==
  /\ edges < MaxEdges
  /\ edges' = edges + 1
  /\ isel
  /\ irqmd \in {e, "both"}
  /\ pending' = TRUE
  /\ old' = FALSE
  /\ UNCHANGED <<heap, irq_ctx, icu, queue, pc, arguments, configured, retaken, wild, calls, resets>>

\* external_irq_callback.  Nobody looks at the result of mp_sched_schedule.
external_irq_callback(p) ==
  IF p # None /\ irq_ctx[p] # None /\ Len(queue) < Depth
  THEN queue' = Append(queue, <<p, irq_ctx[p]>>)
  ELSE UNCHANGED queue

\* The same with a context whose memory was given to other objects: whatever is
\* there now is read as a handler and a Pin, or as no handler.
WildCallback ==
  \/ UNCHANGED queue
  \/ /\ Len(queue) < Depth
     /\ \E item \in Pins \X Handlers : queue' = Append(queue, item)

\* r_icu_isr clears the request before it calls back, so that an edge during the
\* callback is not missed.
r_icu_isr ==
  /\ pending
  /\ ICU_IRQ12 \in enabled
  /\ isr_context[ICU_IRQ12] # "NULL"
  /\ pending' = FALSE
  /\ LET p == ctrl.p_context
         freed == p # None /\ heap[p] = "freed"
     IN  /\ IF freed THEN WildCallback ELSE external_irq_callback(p)
         /\ wild' = (wild \/ freed)
  /\ UNCHANGED <<heap, irq_ctx, icu, pc, arguments, configured, retaken, old, bounds>>

-----------------------------------------------------------------------------
(* The constructor *)

\* pin_obj_make_new: pin_configure writes the pin's whole function register, which
\* turns the interrupt input off.
pin_obj_make_new(p) ==
  /\ pc = "idle"
  /\ heap[p] = "new"
  /\ heap' = [heap EXCEPT ![p] = "held"]
  /\ isel' = FALSE
  /\ retaken' = TRUE
  /\ UNCHANGED <<irq_ctx, ctrl, irqmd, enabled, isr_context, pending, queue, pc, arguments,
                 configured, old, wild, bounds>>

-----------------------------------------------------------------------------
(* irq() *)

pin_obj_irq(p, h, t) ==
  /\ Goto("idle", "close")
  /\ heap[p] = "held"
  /\ calls < MaxCalls
  /\ calls' = calls + 1
  /\ self' = p
  /\ handler' = h
  /\ trigger' = t
  /\ UNCHANGED <<heap, irq_ctx, icu, pending, queue, configured, retaken, old, wild, edges, resets>>

\* Mutant: the interrupt is not disabled.
CloseKeepsVector ==
  /\ ctrl' = [ctrl EXCEPT !.open = FALSE]
  /\ UNCHANGED <<enabled, isr_context>>

\* "Always close the IRQ instance first": the vector the control block names is
\* disabled and loses its context, whether or not the block was ever opened.
R_ICU_ExternalIrqClose ==
  /\ enabled' = enabled \ {ctrl.irq}
  /\ isr_context' = [isr_context EXCEPT ![ctrl.irq] = "NULL"]
  /\ ctrl' = [ctrl EXCEPT !.open = FALSE]

IrqClose ==
  /\ Goto("close", "context")
  /\ R_ICU_ExternalIrqClose
  /\ configured' = NoCall
  /\ old' = pending
  /\ UNCHANGED <<heap, irq_ctx, irqmd, isel, pending, queue, arguments, retaken, wild, bounds>>

\* TypeError: "handler must be callable".  The old handler is already disabled.
IrqTypeError ==
  /\ Goto("context", "idle")
  /\ handler = NotCallable
  /\ UNCHANGED <<heap, irq_ctx, icu, pending, queue, arguments, configured, retaken, old, wild, bounds>>

\* irq(None) gives the context back.
IrqNone ==
  /\ Goto("context", "idle")
  /\ handler = None
  /\ irq_ctx' = [irq_ctx EXCEPT ![self] = None]
  /\ UNCHANGED <<heap, icu, pending, queue, arguments, configured, retaken, old, wild, bounds>>

\* The context is made, or used again.
IrqContext ==
  /\ Goto("context", "pin")
  /\ handler \in Handlers
  /\ irq_ctx' = [irq_ctx EXCEPT ![self] = handler]
  /\ UNCHANGED <<heap, icu, pending, queue, arguments, configured, retaken, old, wild, bounds>>

\* The pin becomes an interrupt input.
IrqPin ==
  /\ Goto("pin", "open")
  /\ isel' = TRUE
  /\ retaken' = FALSE
  /\ UNCHANGED <<heap, irq_ctx, ctrl, irqmd, enabled, isr_context, pending, queue, arguments,
                 configured, old, wild, bounds>>

\* R_ICU_ExternalIrqOpen with the shadow configuration.
R_ICU_ExternalIrqOpen ==
  /\ Goto("open", "enable")
  /\ ctrl' = [irq |-> ICU_IRQ12, open |-> TRUE, p_context |-> self]
  /\ irqmd' = trigger
  /\ isr_context' = [isr_context EXCEPT ![ICU_IRQ12] = "s2"]
  /\ UNCHANGED <<heap, irq_ctx, isel, enabled, pending, queue, arguments, configured, retaken, old, wild, bounds>>

\* Mutant: the request flag is not cleared.
EnableNoClear ==
  /\ Goto("enable", "idle")
  /\ enabled' = enabled \cup {ctrl.irq}
  /\ configured' = <<self, handler, trigger>>
  /\ UNCHANGED <<heap, irq_ctx, ctrl, irqmd, isel, isr_context, pending, queue, arguments, retaken,
                 old, wild, bounds>>

\* R_BSP_IrqEnable clears the request and then enables the vector.
R_ICU_ExternalIrqEnable ==
  /\ Goto("enable", "idle")
  /\ pending' = FALSE
  /\ enabled' = enabled \cup {ctrl.irq}
  /\ configured' = <<self, handler, trigger>>
  /\ UNCHANGED <<heap, irq_ctx, ctrl, irqmd, isel, isr_context, queue, arguments, retaken, old, wild,
                 bounds>>

-----------------------------------------------------------------------------
(* The scheduler, the heap and the REPL *)

\* A queued call runs from a poll of the VM.
RunScheduled ==
  /\ pc = "idle"
  /\ queue # <<>>
  /\ queue' = Tail(queue)
  /\ UNCHANGED <<heap, irq_ctx, icu, pending, pc, arguments, configured, retaken, old, wild, bounds>>

\* The program loses its last reference to a Pin.
DropPin(p) ==
  /\ pc = "idle"
  /\ heap[p] = "held"
  /\ heap' = [heap EXCEPT ![p] = "dropped"]
  /\ UNCHANGED <<irq_ctx, icu, pending, queue, pc, arguments, configured, retaken, old, wild, bounds>>

\* gc_collect traces the stack and the root pointers, of which the scheduler's
\* queue is one and the control block is none.
Rooted(p) == \E i \in DOMAIN queue : queue[i][1] = p

Unreachable == {p \in Pins : heap[p] = "dropped" /\ ~Rooted(p)}

\* Mutant: the queue is not traced.
GcForgetsQueue ==
  /\ pc = "idle"
  /\ \E dead \in SUBSET {p \in Pins : heap[p] = "dropped"} :
       heap' = [p \in Pins |-> IF p \in dead THEN "freed" ELSE heap[p]]
  /\ UNCHANGED <<irq_ctx, icu, pending, queue, pc, arguments, configured, retaken, old, wild, bounds>>

\* A stale word on the stack or in a used slot of the queue may keep a Pin.
gc_collect ==
  /\ pc = "idle"
  /\ \E dead \in SUBSET Unreachable :
       /\ dead # {}
       /\ heap' = [p \in Pins |-> IF p \in dead THEN "freed" ELSE heap[p]]
  /\ UNCHANGED <<irq_ctx, icu, pending, queue, pc, arguments, configured, retaken, old, wild, bounds>>

\* Ctrl-D: gc_init and mp_init; hal_entry does nothing about the interrupt.
SoftReset ==
  /\ pc = "idle"
  /\ resets < MaxResets
  /\ resets' = resets + 1
  /\ heap' = [p \in Pins |-> IF heap[p] = "new" THEN "new" ELSE "freed"]
  /\ queue' = <<>>
  /\ UNCHANGED <<irq_ctx, icu, pending, pc, arguments, configured, retaken, old, wild, calls, edges>>

-----------------------------------------------------------------------------

PinIrq ==
  \/ IrqClose \/ IrqTypeError \/ IrqNone \/ IrqContext \/ IrqPin
  \/ R_ICU_ExternalIrqOpen \/ R_ICU_ExternalIrqEnable

Next ==
  \/ \E e \in Edges : Edge(e)
  \/ r_icu_isr
  \/ \E p \in Pins : pin_obj_make_new(p) \/ DropPin(p)
  \/ \E p \in Pins, h \in Handlers \cup {None, NotCallable}, t \in Triggers : pin_obj_irq(p, h, t)
  \/ PinIrq
  \/ RunScheduled \/ gc_collect \/ SoftReset

Spec == Init /\ [][Next]_vars

-----------------------------------------------------------------------------
(* Properties *)

\* Every variable has its type.
TypeOK ==
  /\ heap \in [Pins -> {"new", "held", "dropped", "freed"}]
  /\ irq_ctx \in [Pins -> Handlers \cup {None}]
  /\ ctrl \in [irq : Vectors, open : BOOLEAN, p_context : Pins \cup {None}]
  /\ irqmd \in Triggers /\ isel \in BOOLEAN
  /\ enabled \subseteq Vectors
  /\ isr_context \in [Vectors -> {"NULL", "uart0", "s2"}]
  /\ pending \in BOOLEAN
  /\ queue \in Seq(Pins \X Handlers) /\ Len(queue) <= Depth
  /\ pc \in {"idle", "close", "context", "pin", "open", "enable"}
  /\ self \in Pins \cup {None}
  /\ handler \in Handlers \cup {None, NotCallable}
  /\ trigger \in Triggers
  /\ configured \in (Pins \cup {None}) \X (Handlers \cup {None}) \X Triggers
  /\ retaken \in BOOLEAN
  /\ old \in BOOLEAN /\ wild \in BOOLEAN
  /\ calls \in 0 .. MaxCalls /\ edges \in 0 .. MaxEdges /\ resets \in 0 .. MaxResets

\* Whenever the pin's interrupt can be taken, its vector has the control block and
\* the control block the context of a Pin, which r_icu_isr follows without a check;
\* the pin is an interrupt input, unless a new Pin object took that from it.  As long
\* as the collector or a soft reset has not freed that Pin, the context has a handler,
\* and between two calls of irq() Pin, handler and trigger are those of the last one,
\* whichever of several Pin objects of the pin it was made on.  Of a freed Pin nothing
\* is said: r_icu_isr then reads whatever is in its memory (EdgeFindsContext).  After
\* irq(None) or an error in irq() there is no interrupt.
HandlerIsCurrent ==
  /\ ICU_IRQ12 \in enabled =>
       /\ isr_context[ICU_IRQ12] = "s2"
       /\ ctrl.p_context # None
       /\ isel \/ retaken
       /\ heap[ctrl.p_context] # "freed" =>
            /\ irq_ctx[ctrl.p_context] # None
            /\ pc = "idle" => configured = <<ctrl.p_context, irq_ctx[ctrl.p_context], irqmd>>
  /\ configured = NoCall /\ pc # "close" => ICU_IRQ12 \notin enabled

\* An edge seen before an irq() call is never reported to the handler that call
\* installed, although the request flag survives the close.
NoStaleEdge == ICU_IRQ12 \in enabled /\ pending => ~old

\* A call that waits in the queue never outlives its Pin, although the program may
\* have dropped it: the queue is a root of the collector, and a soft reset empties
\* it.  A handler that read a freed context voids this.
QueuedAlive == ~wild => \A i \in DOMAIN queue : heap[queue[i][1]] # "freed"

\* The interrupt finds the handler and the Pin that irq() gave it: r_icu_isr never
\* reads a context whose memory the collector or a soft reset has freed.  A soft reset
\* would have to take back what irq() configured, and the collector to know of it.
EdgeFindsContext == ~wild

\* Pin.irq() leaves the interrupt of the REPL alone: what it does to a channel
\* that is not open does not reach another vector.
OnlyOwnVector == SCI3_RXI \in enabled /\ isr_context[SCI3_RXI] = "uart0"

=============================================================================
