-------------------------------- MODULE UartObj --------------------------------
(***************************************************************************)
(* The life of machine.UART(1) objects and their transmissions:            *)
(* machine_uart.c over the one driver instance g_uart1 (r_sci_b_uart.c).   *)
(*                                                                         *)
(* A program may keep several objects, of which g_uart1_obj is the one the *)
(* callback serves.  The foreground is split where an interrupt between    *)
(* two of its steps matters.  Bytes are only counted; what the receive     *)
(* ring does with them is UartRing.  The parameter checks of the driver    *)
(* are compiled out: open, callbackSet and write never fail.               *)
(***************************************************************************)
EXTENDS Naturals

CONSTANTS Objs,        \* the UART objects a program may create
          NULL,
          FifoDepth,   \* BSP_FEATURE_SCI_UART_FIFO_DEPTH
          MaxLen,      \* bound: bytes of one write
          MaxWrites,   \* bound: calls of write
          MaxResets    \* bound: soft resets

ASSUME NullAssumption == NULL \notin Objs
ASSUME DepthAssumption == FifoDepth \in Nat \ {0}
ASSUME BoundsAssumption == MaxLen \in Nat /\ MaxWrites \in Nat /\ MaxResets \in Nat

VARIABLES
  state,         \* of every object: "new" (not made), "making", "live", or "lost" to the program
  rx_buf_storage,  \* the object has its receive buffer
  is_open, tx_complete,
  g_uart1_obj,
  open,          \* the driver's control block is open
  p_callback_memory,
  tie, teie,     \* CCR0: TXI and TEI enabled
  tx_src_bytes,  \* bytes the driver has still to fetch
  txfifo,        \* bytes in the transmitter
  pc, self, len, \* foreground: position, object, bytes to write
  busy,          \* history: a write was called with tx_complete = false
  discarded,     \* history: a write dropped bytes of an earlier one
  stray,         \* history: an event was written to an object that is lost or not open
  failed,        \* history: the last init() found no memory
  stolen,        \* history: init() was called while another object had the UART
  early,         \* history: the last write's end came before its flag was cleared
  writes, resets

objects == <<state, rx_buf_storage, is_open, tx_complete, g_uart1_obj>>
driver == <<open, p_callback_memory, tie, teie, tx_src_bytes, txfifo>>
history == <<busy, discarded, stray, failed, stolen, early, writes, resets>>
vars == <<objects, driver, pc, self, len, history>>

Init ==
  /\ state = [o \in Objs |-> "new"]
  /\ rx_buf_storage = [o \in Objs |-> FALSE]
  /\ is_open = [o \in Objs |-> FALSE]
  /\ tx_complete = [o \in Objs |-> FALSE]
  /\ g_uart1_obj = NULL
  /\ open = FALSE
  /\ p_callback_memory = NULL
  /\ tie = FALSE
  /\ teie = FALSE
  /\ tx_src_bytes = 0
  /\ txfifo = 0
  /\ pc = "idle"
  /\ self = NULL
  /\ len = 0
  /\ busy = FALSE
  /\ discarded = FALSE
  /\ stray = FALSE
  /\ failed = FALSE
  /\ stolen = FALSE
  /\ early = FALSE
  /\ writes = 0
  /\ resets = 0

Goto(from, to) == pc = from /\ pc' = to

Initialising(o) == pc \in {"i_open", "i_callback", "i_done"} /\ self = o

-----------------------------------------------------------------------------
(* Interrupts *)

\* The object the callback finds should be in the heap of this session, and open or
\* on its way to be.
Expects(o) == state[o] # "lost" /\ (is_open[o] \/ Initialising(o))

\* uart1_callback for UART_EVENT_RX_CHAR puts the byte into the object's ring.
uart1_callback_rx ==
  /\ open
  /\ g_uart1_obj # NULL
  /\ stray' = (stray \/ ~Expects(g_uart1_obj))
  /\ UNCHANGED <<objects, driver, pc, self, len, busy, discarded, failed, stolen, early,
                 writes, resets>>

\* Mutant: TEI is not turned on when the last byte is in the FIFO.
TxiNoTei ==
  /\ open /\ tie
  /\ txfifo = 0
  /\ LET n == IF tx_src_bytes < FifoDepth THEN tx_src_bytes ELSE FifoDepth IN
       /\ txfifo' = n
       /\ tx_src_bytes' = tx_src_bytes - n
  /\ tie' = (tx_src_bytes' > 0)
  /\ UNCHANGED <<objects, open, p_callback_memory, teie, pc, self, len, history>>

sci_b_uart_txi_isr ==
  /\ open /\ tie
  /\ txfifo = 0
  /\ LET n == IF tx_src_bytes < FifoDepth THEN tx_src_bytes ELSE FifoDepth IN
       /\ txfifo' = n
       /\ tx_src_bytes' = tx_src_bytes - n
  /\ tie' = (tx_src_bytes' > 0)
  /\ teie' = (tx_src_bytes' = 0)
  /\ UNCHANGED <<objects, open, p_callback_memory, pc, self, len, history>>

Shift ==
  /\ txfifo > 0
  /\ txfifo' = txfifo - 1
  /\ UNCHANGED <<objects, open, p_callback_memory, tie, teie, tx_src_bytes, pc, self, len, history>>

\* sci_b_uart_tei_isr, and uart1_callback for UART_EVENT_TX_COMPLETE.
sci_b_uart_tei_isr ==
  /\ open /\ teie
  /\ txfifo = 0
  /\ tie' = FALSE
  /\ teie' = FALSE
  /\ tx_complete' = [o \in Objs |-> o = g_uart1_obj \/ tx_complete[o]]
  /\ stray' = (stray \/ (g_uart1_obj # NULL /\ ~Expects(g_uart1_obj)))
  /\ early' = (early \/ pc = "w_flag")
  /\ UNCHANGED <<state, rx_buf_storage, is_open, g_uart1_obj, open, p_callback_memory, tx_src_bytes,
                 txfifo, pc, self, len, busy, discarded, failed, stolen, writes, resets>>

-----------------------------------------------------------------------------
(* make_new and init *)

\* UART(1).  "UART(1) is already in use" leaves everything as it is.
uart_obj_make_new(o) ==
  /\ Goto("idle", "i_close")
  /\ state[o] = "new"
  /\ g_uart1_obj = NULL
  /\ state' = [state EXCEPT ![o] = "making"]
  /\ tx_complete' = [tx_complete EXCEPT ![o] = TRUE]
  /\ self' = o
  /\ UNCHANGED <<rx_buf_storage, is_open, g_uart1_obj, driver, len, history>>

\* init() of an object, which does not look at g_uart1_obj.
uart_obj_init(o) ==
  /\ Goto("idle", "i_close")
  /\ state[o] = "live"
  /\ stolen' = (stolen \/ g_uart1_obj \notin {NULL, o})
  /\ self' = o
  /\ UNCHANGED <<objects, driver, len, busy, discarded, stray, failed, early, writes, resets>>

\* R_SCI_B_UART_Close.
Close ==
  /\ open' = FALSE
  /\ tie' = FALSE
  /\ teie' = FALSE
  /\ txfifo' = 0
  /\ UNCHANGED <<p_callback_memory, tx_src_bytes>>

InitClose ==
  /\ Goto("i_close", "i_open")
  /\ is_open' = [is_open EXCEPT ![self] = FALSE]
  /\ IF is_open[self] THEN Close ELSE UNCHANGED driver
  /\ UNCHANGED <<state, rx_buf_storage, tx_complete, g_uart1_obj, self, len, history>>

\* R_SCI_B_UART_Open.
InitOpen ==
  /\ Goto("i_open", "i_callback")
  /\ open' = TRUE
  /\ p_callback_memory' = NULL
  /\ tie' = FALSE
  /\ teie' = FALSE
  /\ tx_src_bytes' = 0
  /\ txfifo' = 0
  /\ UNCHANGED <<objects, self, len, history>>

\* R_SCI_B_UART_CallbackSet, and R_SCI_B_UART_BaudSet.
InitCallback ==
  /\ Goto("i_callback", "i_done")
  /\ p_callback_memory' = self
  /\ UNCHANGED <<objects, open, tie, teie, tx_src_bytes, txfifo, self, len, history>>

\* The buffer is made or the ring reset, the flags are set, and the callback gets
\* the object.
InitDone ==
  /\ Goto("i_done", "idle")
  /\ state' = [state EXCEPT ![self] = "live"]
  /\ rx_buf_storage' = [rx_buf_storage EXCEPT ![self] = TRUE]
  /\ is_open' = [is_open EXCEPT ![self] = TRUE]
  /\ tx_complete' = [tx_complete EXCEPT ![self] = TRUE]
  /\ g_uart1_obj' = self
  /\ failed' = FALSE
  /\ UNCHANGED <<driver, self, len, busy, discarded, stray, stolen, early, writes, resets>>

\* Mutant: the callback gets the object before the buffer is made.
InitNoMemoryOwned ==
  /\ Goto("i_done", "idle")
  /\ ~rx_buf_storage[self]
  /\ state' = [state EXCEPT ![self] = IF @ = "making" THEN "lost" ELSE @]
  /\ g_uart1_obj' = self
  /\ failed' = TRUE
  /\ UNCHANGED <<rx_buf_storage, is_open, tx_complete, driver, self, len, busy, discarded, stray,
                 stolen, early, writes, resets>>

\* MemoryError for rx_buf_storage or, after it, for the ring: the driver stays open
\* and keeps the object's callback memory.  A constructor gives no object.
InitNoMemory ==
  /\ Goto("i_done", "idle")
  /\ ~rx_buf_storage[self]
  /\ \E half \in BOOLEAN : rx_buf_storage' = [rx_buf_storage EXCEPT ![self] = half]
  /\ state' = [state EXCEPT ![self] = IF @ = "making" THEN "lost" ELSE @]
  /\ failed' = TRUE
  /\ UNCHANGED <<is_open, tx_complete, g_uart1_obj, driver, self, len, busy, discarded, stray,
                 stolen, early, writes, resets>>

-----------------------------------------------------------------------------
(* deinit *)

uart_obj_deinit(o) ==
  /\ Goto("idle", IF is_open[o] THEN "d_abort" ELSE "d_done")
  /\ state[o] = "live"
  /\ self' = o
  /\ UNCHANGED <<objects, driver, len, history>>

\* R_SCI_B_UART_Abort: TXI and TEI off, then a wait for the transmitter.
DeinitAbort ==
  /\ Goto("d_abort", "d_close")
  /\ tie' = FALSE
  /\ teie' = FALSE
  /\ UNCHANGED <<objects, open, p_callback_memory, tx_src_bytes, txfifo, self, len, history>>

DeinitClose ==
  /\ Goto("d_close", "d_done")
  /\ txfifo = 0
  /\ tx_src_bytes' = 0
  /\ open' = FALSE
  /\ is_open' = [is_open EXCEPT ![self] = FALSE]
  /\ UNCHANGED <<state, rx_buf_storage, tx_complete, g_uart1_obj, p_callback_memory, tie, teie,
                 txfifo, self, len, history>>

DeinitDone ==
  /\ Goto("d_done", "idle")
  /\ rx_buf_storage' = [rx_buf_storage EXCEPT ![self] = FALSE]
  /\ g_uart1_obj' = IF g_uart1_obj = self THEN NULL ELSE g_uart1_obj
  /\ UNCHANGED <<state, is_open, tx_complete, driver, self, len, history>>

-----------------------------------------------------------------------------
(* write *)

\* A closed object raises OSError, an empty buffer returns 0.
uart_obj_write(o, n) ==
  /\ Goto("idle", "w_off")
  /\ state[o] = "live"
  /\ is_open[o]
  /\ writes < MaxWrites
  /\ writes' = writes + 1
  /\ self' = o
  /\ len' = n
  /\ busy' = (busy \/ ~tx_complete[o])
  /\ early' = FALSE
  /\ UNCHANGED <<objects, driver, discarded, stray, failed, stolen, resets>>

\* R_SCI_B_UART_Write: TXI and TEI off ...
WriteIrqsOff ==
  /\ Goto("w_off", "w_src")
  /\ tie' = FALSE
  /\ teie' = FALSE
  /\ UNCHANGED <<objects, open, p_callback_memory, tx_src_bytes, txfifo, self, len, history>>

\* ... a wait for the transmitter, and the new source.
WriteSource ==
  /\ Goto("w_src", "w_on")
  /\ txfifo = 0
  /\ discarded' = (discarded \/ tx_src_bytes > 0)
  /\ tx_src_bytes' = len
  /\ UNCHANGED <<objects, open, p_callback_memory, tie, teie, txfifo, self, len, busy, stray,
                 failed, stolen, early, writes, resets>>

WriteOn ==
  /\ Goto("w_on", "w_flag")
  /\ tie' = TRUE
  /\ UNCHANGED <<objects, open, p_callback_memory, teie, tx_src_bytes, txfifo, self, len, history>>

\* Mutant: the flag is not cleared.
WriteFlagForgotten ==
  /\ Goto("w_flag", "idle")
  /\ UNCHANGED <<objects, driver, self, len, history>>

\* The flag is cleared when the transmission is under way.
WriteFlag ==
  /\ Goto("w_flag", "idle")
  /\ tx_complete' = [tx_complete EXCEPT ![self] = FALSE]
  /\ UNCHANGED <<state, rx_buf_storage, is_open, g_uart1_obj, driver, self, len, history>>

-----------------------------------------------------------------------------

\* Ctrl-D: hal_entry starts the heap again; neither the driver nor g_uart1_obj is
\* touched, so that handlers go on writing to the old object, whose memory is given
\* out again.  No Python code can reach the old objects any more.
SoftReset ==
  /\ pc = "idle"
  /\ resets < MaxResets
  /\ resets' = resets + 1
  /\ state' = [o \in Objs |-> IF state[o] = "live" THEN "lost" ELSE state[o]]
  /\ UNCHANGED <<rx_buf_storage, is_open, tx_complete, g_uart1_obj, driver, pc, self, len, busy,
                 discarded, stray, failed, stolen, early, writes>>

Handler == uart1_callback_rx \/ sci_b_uart_txi_isr \/ Shift \/ sci_b_uart_tei_isr

Python ==
  \/ \E o \in Objs : uart_obj_make_new(o) \/ uart_obj_init(o) \/ uart_obj_deinit(o)
  \/ \E o \in Objs, n \in 1 .. MaxLen : uart_obj_write(o, n)

Method ==
  \/ InitClose \/ InitOpen \/ InitCallback \/ InitDone \/ InitNoMemory
  \/ DeinitAbort \/ DeinitClose \/ DeinitDone
  \/ WriteIrqsOff \/ WriteSource \/ WriteOn \/ WriteFlag

Next == Python \/ Method \/ Handler \/ SoftReset

Spec == Init /\ [][Next]_vars

\* Methods and handlers run to their end; nothing makes the program call one.
FairSpec ==
  /\ Spec
  /\ WF_vars(Method)
  /\ WF_vars(sci_b_uart_txi_isr) /\ WF_vars(Shift) /\ WF_vars(sci_b_uart_tei_isr)

-----------------------------------------------------------------------------
(* Properties *)

\* Every variable has its type; a transmission never holds more than one write
\* and one FIFO.
TypeOK ==
  /\ state \in [Objs -> {"new", "making", "live", "lost"}]
  /\ rx_buf_storage \in [Objs -> BOOLEAN]
  /\ is_open \in [Objs -> BOOLEAN] /\ tx_complete \in [Objs -> BOOLEAN]
  /\ g_uart1_obj \in Objs \cup {NULL}
  /\ open \in BOOLEAN
  /\ p_callback_memory \in Objs \cup {NULL}
  /\ tie \in BOOLEAN /\ teie \in BOOLEAN
  /\ tx_src_bytes \in 0 .. MaxLen
  /\ txfifo \in 0 .. FifoDepth
  /\ pc \in {"idle", "i_close", "i_open", "i_callback", "i_done", "d_abort", "d_close", "d_done",
             "w_off", "w_src", "w_on", "w_flag"}
  /\ self \in Objs \cup {NULL} /\ len \in 0 .. MaxLen
  /\ busy \in BOOLEAN /\ discarded \in BOOLEAN /\ stray \in BOOLEAN
  /\ failed \in BOOLEAN /\ stolen \in BOOLEAN /\ early \in BOOLEAN
  /\ writes \in 0 .. MaxWrites /\ resets \in 0 .. MaxResets

\* Between two methods exactly the object the callback serves is open, and the
\* driver is open with it and writes its events into that object: make_new's
\* check that "UART(1) is already in use" keeps a second object away, and no event
\* is ever written to a closed object.  Only init(), which has no such check, gives
\* the UART to an object that does not own it.  A MemoryError in init leaves the
\* driver open with no owner, until the next object or init() that succeeds.  Events
\* go astray only after a soft reset took the object from under the driver; from then
\* on the UART belongs to that object for good.
OneOwner ==
  ~stolen /\ pc = "idle" =>
    /\ \A o \in Objs : is_open[o] <=> o = g_uart1_obj
    /\ g_uart1_obj # NULL => open /\ p_callback_memory = g_uart1_obj
    /\ open /\ g_uart1_obj = NULL => failed
    /\ stray => g_uart1_obj # NULL /\ state[g_uart1_obj] = "lost"

\* txdone() is never true too early: when a method has returned, a set flag means
\* that every byte has left the transmitter, unless init() took the UART away.
TxDoneNotEarly ==
  ~stolen /\ pc = "idle" /\ g_uart1_obj # NULL /\ tx_complete[g_uart1_obj] =>
    tx_src_bytes = 0 /\ txfifo = 0

\* A program that writes only when txdone() is true loses no byte of a write.
DiscardNeedsBusy == ~stolen /\ discarded => busy

\* txdone() becomes true again after every write, unless the UART is closed, with
\* one exception: the transmission ended before write() cleared the flag.
TxDoneEventually ==
  \A o \in Objs : (g_uart1_obj = o /\ ~tx_complete[o]) ~>
                    (tx_complete[o] \/ ~is_open[o] \/ early \/ stolen)

=============================================================================
