-------------------------------- MODULE ReplRx --------------------------------
(***************************************************************************)
(* Reception on the REPL UART (g_uart0, SCI3): the receive FIFO of the     *)
(* SCI, the RXI and ERI handlers of r_sci_b_uart.c, uart_callback and the  *)
(* 1024 byte ring of mp_uart.c, and the foreground, which is hal_entry and *)
(* then mp_uart_rx_chr for ever.                                           *)
(*                                                                         *)
(* The foreground is one thread; its position is fpc.  It is split at the  *)
(* accesses to the variables it shares with the handlers, because an       *)
(* interrupt is taken between any two instructions.  The SCI interrupts    *)
(* have one priority (12) and do not nest: while `isr' is not "idle" only  *)
(* the wire and the handler itself move.                                   *)
(*                                                                         *)
(* The n-th byte on the wire is the number n; no property looks at the     *)
(* value, because MICROPY_KBD_EXCEPTION is 0 in this build and             *)
(* uart_callback then puts the interrupt character into the ring like      *)
(* every other byte.  The parameter checks of the driver are compiled out  *)
(* (BSP_CFG_PARAM_CHECKING_ENABLE is 0), so that R_SCI_B_UART_Read always  *)
(* returns FSP_SUCCESS: the error branches of the two arm functions are    *)
(* never taken.                                                            *)
(***************************************************************************)
EXTENDS Naturals, Sequences

CONSTANTS RxBufSize,   \* MP_UART_RX_BUF_SIZE: slots of the ring
          FifoDepth,   \* BSP_FEATURE_SCI_UART_FIFO_DEPTH
          MaxBytes     \* bound: bytes the host sends

ASSUME RxBufSizeAssumption == RxBufSize \in Nat /\ RxBufSize >= 2
ASSUME FifoDepthAssumption == FifoDepth \in Nat \ {0}
ASSUME MaxBytesAssumption == MaxBytes \in Nat

Byte == 1 .. MaxBytes
Slot == 0 .. RxBufSize - 1

VARIABLES
  s_rx_buf, s_rx_head, s_rx_tail,     \* the ring
  s_rx_one, s_rx_armed, s_rx_need_arm,
  p_rx_dest, rx_dest_bytes,           \* the driver's control block
  fifo,                               \* the SCI's receive FIFO
  orer, eri,                          \* overrun flag; a receive error is signalled
  isr,                                \* "idle" or "rxi": the handler that runs
  fpc, ret,                           \* foreground: position; where arm_poll returns to
  c,                                  \* rb_get's local
  sent, delivered, lost               \* history: bytes on the wire, handed to the
                                      \* REPL, and given up on by a handler

ring == <<s_rx_buf, s_rx_head, s_rx_tail>>
arming == <<s_rx_armed, s_rx_need_arm>>
driver == <<p_rx_dest, rx_dest_bytes>>
hardware == <<fifo, orer, eri, sent>>
foreground == <<fpc, ret, c, delivered>>
vars == <<ring, s_rx_one, arming, driver, hardware, isr, foreground, lost>>

Init ==
  /\ s_rx_buf = [i \in Slot |-> 0]
  /\ s_rx_head = 0
  /\ s_rx_tail = 0
  /\ s_rx_one = 0
  /\ s_rx_armed = FALSE
  /\ s_rx_need_arm = TRUE
  /\ p_rx_dest = "NULL"
  /\ rx_dest_bytes = 0
  /\ fifo = <<>>
  /\ orer = FALSE
  /\ eri = FALSE
  /\ isr = "idle"
  /\ fpc = "open"
  /\ ret = "get"
  /\ c = 0
  /\ sent = 0
  /\ delivered = <<>>
  /\ lost = {}

-----------------------------------------------------------------------------
(* The ring buffer *)

\* Mutant: the index runs past the end.
RbNextNoWrap(x) == x + 1

rb_next(x) == (x + 1) % RxBufSize

rb_is_empty == s_rx_head = s_rx_tail

\* Mutant: a full ring is overwritten.
RbPutOverwrites(b) ==
  /\ s_rx_buf' = [s_rx_buf EXCEPT ![s_rx_head] = b]
  /\ s_rx_head' = rb_next(s_rx_head)
  /\ UNCHANGED <<s_rx_tail, lost>>

\* Mutant: the ring counts as full one byte early.
RbPutEarlyFull(b) ==
  /\ IF rb_next(rb_next(s_rx_head)) = s_rx_tail
     THEN lost' = lost \cup {b} /\ UNCHANGED <<s_rx_buf, s_rx_head>>
     ELSE /\ s_rx_buf' = [s_rx_buf EXCEPT ![s_rx_head] = b]
          /\ s_rx_head' = rb_next(s_rx_head)
          /\ UNCHANGED lost
  /\ UNCHANGED s_rx_tail

\* rb_put, in the handler: a full ring refuses the byte.
rb_put(b) ==
  /\ \/ /\ rb_next(s_rx_head) = s_rx_tail
        /\ lost' = lost \cup {b}
        /\ UNCHANGED <<s_rx_buf, s_rx_head>>
     \/ /\ rb_next(s_rx_head) # s_rx_tail
        /\ s_rx_buf' = [s_rx_buf EXCEPT ![s_rx_head] = b]
        /\ s_rx_head' = rb_next(s_rx_head)
        /\ UNCHANGED lost
  /\ UNCHANGED s_rx_tail

-----------------------------------------------------------------------------
(* Arming a one-byte read *)

\* mp_uart_arm_read_1_isr as uart_callback calls it: both branches of the
\* callback have cleared s_rx_armed, so that the early return is not taken, and
\* the first read succeeds.
mp_uart_arm_read_1_isr ==
  /\ p_rx_dest' = "s_rx_one"
  /\ rx_dest_bytes' = 1
  /\ s_rx_armed' = TRUE
  /\ s_rx_need_arm' = FALSE

\* uart_callback(UART_EVENT_RX_COMPLETE) with b in s_rx_one.
CallbackRxComplete(b) == rb_put(b) /\ mp_uart_arm_read_1_isr

\* Mutant: only a complete read is followed by the next one.
CallbackOtherNoArm ==
  /\ s_rx_armed' = FALSE
  /\ s_rx_need_arm' = TRUE
  /\ UNCHANGED <<ring, driver>>

\* uart_callback for every other event: what the event carries is dropped.
CallbackOther == mp_uart_arm_read_1_isr /\ UNCHANGED ring

-----------------------------------------------------------------------------
(* Interrupts.  Taking one ends the __WFI of a sleeping foreground. *)

PollPc == {"poll", "read_dest", "read_bytes", "poll_armed", "poll_need"}

InitPc == {"open", "init_tail", "init_head", "init_armed", "init_need"}

\* hal_entry has not returned from mp_uart_init yet.
Booting == fpc \in InitPc \/ (fpc \in PollPc /\ ret = "banner")

Wake == fpc' = IF fpc = "sleep" THEN "get" ELSE fpc

RxiEnter ==
  /\ isr = "idle"
  /\ fifo # <<>>
  /\ isr' = "rxi"
  /\ Wake
  /\ UNCHANGED <<ring, s_rx_one, arming, driver, hardware, ret, c, delivered, lost>>

\* One round of the loop of sci_b_uart_rxi_isr with no read armed: the byte is
\* the argument of UART_EVENT_RX_CHAR.
RxiChar ==
  /\ isr = "rxi"
  /\ fifo # <<>>
  /\ rx_dest_bytes = 0
  /\ fifo' = Tail(fifo)
  /\ lost' = lost \cup {Head(fifo)}
  /\ CallbackOther
  /\ UNCHANGED <<s_rx_one, orer, eri, sent, isr, foreground>>

\* One round with a read armed: the byte goes where p_rx_dest points, which
\* completes the one-byte read.
RxiStore ==
  /\ isr = "rxi"
  /\ fifo # <<>>
  /\ rx_dest_bytes # 0
  /\ fifo' = Tail(fifo)
  /\ s_rx_one' = IF p_rx_dest = "s_rx_one" THEN Head(fifo) ELSE s_rx_one
  /\ CallbackRxComplete(s_rx_one')
  /\ UNCHANGED <<orer, eri, sent, isr, foreground>>

RxiExit ==
  /\ isr = "rxi"
  /\ fifo = <<>>
  /\ isr' = "idle"
  /\ UNCHANGED <<ring, s_rx_one, arming, driver, hardware, foreground, lost>>

\* sci_b_uart_eri_isr reads RDR, which takes the oldest byte out of the FIFO
\* whatever byte the error is about, clears the flags and reports the error.
Eri ==
  /\ isr = "idle"
  /\ eri
  /\ eri' = FALSE
  /\ orer' = FALSE
  /\ IF fifo = <<>>
     THEN UNCHANGED <<fifo, lost>>
     ELSE fifo' = Tail(fifo) /\ lost' = lost \cup {Head(fifo)}
  /\ CallbackOther
  /\ Wake
  /\ UNCHANGED <<s_rx_one, sent, isr, ret, c, delivered>>

\* The callback for UART_EVENT_TX_DATA_EMPTY and UART_EVENT_TX_COMPLETE.  The
\* REPL writes from its banner on, after mp_uart_init.
TxEvent ==
  /\ isr = "idle"
  /\ ~Booting
  /\ CallbackOther
  /\ Wake
  /\ UNCHANGED <<s_rx_one, hardware, isr, ret, c, delivered, lost>>

\* Mutant: no periodic interrupt.
SysTickOff == FALSE

\* SysTick, every millisecond: for this component only a wake-up.
SysTick ==
  /\ isr = "idle"
  /\ fpc = "sleep"
  /\ Wake
  /\ UNCHANGED <<ring, s_rx_one, arming, driver, hardware, isr, ret, c, delivered, lost>>

-----------------------------------------------------------------------------
(* The wire.  The receiver is on once R_SCI_B_UART_Open has returned. *)

Listening == fpc # "open"

RxWire ==
  /\ Listening
  /\ sent < MaxBytes
  /\ ~orer
  /\ Len(fifo) < FifoDepth
  /\ sent' = sent + 1
  /\ fifo' = Append(fifo, sent')
  /\ UNCHANGED <<ring, s_rx_one, arming, driver, orer, eri, isr, foreground, lost>>

\* A byte that finds the FIFO full is lost and stops the reception until the
\* overrun flag is cleared.
RxOverrun ==
  /\ Listening
  /\ sent < MaxBytes
  /\ orer \/ Len(fifo) = FifoDepth
  /\ sent' = sent + 1
  /\ orer' = TRUE
  /\ eri' = TRUE
  /\ lost' = lost \cup {sent'}
  /\ UNCHANGED <<ring, s_rx_one, arming, driver, fifo, isr, foreground>>

\* A byte with a framing or parity error enters the FIFO and raises ERI.
RxWireError ==
  /\ Listening
  /\ sent < MaxBytes
  /\ ~orer
  /\ Len(fifo) < FifoDepth
  /\ sent' = sent + 1
  /\ fifo' = Append(fifo, sent')
  /\ eri' = TRUE
  /\ UNCHANGED <<ring, s_rx_one, arming, driver, orer, isr, foreground, lost>>

-----------------------------------------------------------------------------
(* The foreground *)

Goto(from, to) == isr = "idle" /\ fpc = from /\ fpc' = to

\* hal_entry opens the UART and waits 10 ms before it calls mp_uart_init.
UartOpen ==
  /\ Goto("open", "init_tail")
  /\ p_rx_dest' = "NULL"
  /\ rx_dest_bytes' = 0
  /\ UNCHANGED <<ring, s_rx_one, arming, hardware, isr, ret, c, delivered, lost>>

\* s_rx_head = s_rx_tail = 0 stores the tail first.
InitTail ==
  /\ Goto("init_tail", "init_head")
  /\ s_rx_tail' = 0
  /\ UNCHANGED <<s_rx_buf, s_rx_head, s_rx_one, arming, driver, hardware, isr, ret, c,
                 delivered, lost>>

\* The bytes received between R_SCI_B_UART_Open and here are given up.
InitHead ==
  /\ Goto("init_head", "init_armed")
  /\ s_rx_head' = 0
  /\ lost' = lost \cup {s_rx_buf[i] : i \in s_rx_tail .. s_rx_head - 1}
  /\ UNCHANGED <<s_rx_buf, s_rx_tail, s_rx_one, arming, driver, hardware, isr, ret, c,
                 delivered>>

InitArmed ==
  /\ Goto("init_armed", "init_need")
  /\ s_rx_armed' = FALSE
  /\ UNCHANGED <<ring, s_rx_one, s_rx_need_arm, driver, hardware, isr, ret, c, delivered, lost>>

InitNeed ==
  /\ Goto("init_need", "poll")
  /\ s_rx_need_arm' = TRUE
  /\ ret' = "banner"
  /\ UNCHANGED <<ring, s_rx_one, s_rx_armed, driver, hardware, isr, c, delivered, lost>>

\* mp_uart_arm_read_1_poll: its test, the two stores of R_SCI_B_UART_Read and
\* its own two stores.
PollTest ==
  /\ Goto("poll", IF s_rx_armed /\ ~s_rx_need_arm THEN ret ELSE "read_dest")
  /\ UNCHANGED <<ring, s_rx_one, arming, driver, hardware, isr, ret, c, delivered, lost>>

\* Mutant: the count is stored before the pointer.
ReadCountFirst ==
  /\ Goto("read_dest", "read_bytes")
  /\ rx_dest_bytes' = 1
  /\ UNCHANGED <<ring, s_rx_one, arming, p_rx_dest, hardware, isr, ret, c, delivered, lost>>

ReadDest ==
  /\ Goto("read_dest", "read_bytes")
  /\ p_rx_dest' = "s_rx_one"
  /\ UNCHANGED <<ring, s_rx_one, arming, rx_dest_bytes, hardware, isr, ret, c, delivered, lost>>

ReadBytes ==
  /\ Goto("read_bytes", "poll_armed")
  /\ rx_dest_bytes' = 1
  /\ UNCHANGED <<ring, s_rx_one, arming, p_rx_dest, hardware, isr, ret, c, delivered, lost>>

PollArmed ==
  /\ Goto("poll_armed", "poll_need")
  /\ s_rx_armed' = TRUE
  /\ UNCHANGED <<ring, s_rx_one, s_rx_need_arm, driver, hardware, isr, ret, c, delivered, lost>>

PollNeed ==
  /\ Goto("poll_need", ret)
  /\ s_rx_need_arm' = FALSE
  /\ UNCHANGED <<ring, s_rx_one, s_rx_armed, driver, hardware, isr, ret, c, delivered, lost>>

\* soft_reset in hal_entry: the heap and the runtime start again, the UART, the
\* ring and the armed read stay as they are.
Banner ==
  /\ Goto("banner", "get")
  /\ UNCHANGED <<ring, s_rx_one, arming, driver, hardware, isr, ret, c, delivered, lost>>

\* mp_uart_rx_chr calls rb_get: the test of an empty ring ...
GetEmpty ==
  /\ Goto("get", "poll")
  /\ rb_is_empty
  /\ ret' = "wfi"
  /\ UNCHANGED <<ring, s_rx_one, arming, driver, hardware, isr, c, delivered, lost>>

GetNonEmpty ==
  /\ Goto("get", "get_read")
  /\ ~rb_is_empty
  /\ UNCHANGED <<ring, s_rx_one, arming, driver, hardware, isr, ret, c, delivered, lost>>

\* Mutant: the load is one slot off.
GetReadOffByOne ==
  /\ Goto("get_read", "get_advance")
  /\ c' = s_rx_buf[rb_next(s_rx_tail)]
  /\ UNCHANGED <<ring, s_rx_one, arming, driver, hardware, isr, ret, delivered, lost>>

\* ... the load of the byte, then the store of the tail.
GetRead ==
  /\ Goto("get_read", "get_advance")
  /\ c' = s_rx_buf[s_rx_tail]
  /\ UNCHANGED <<ring, s_rx_one, arming, driver, hardware, isr, ret, delivered, lost>>

\* Mutant: the tail is not stored.
GetNoAdvance ==
  /\ Goto("get_advance", "poll")
  /\ ret' = "deliver"
  /\ UNCHANGED <<ring, s_rx_one, arming, driver, hardware, isr, c, delivered, lost>>

GetAdvance ==
  /\ Goto("get_advance", "poll")
  /\ s_rx_tail' = rb_next(s_rx_tail)
  /\ ret' = "deliver"
  /\ UNCHANGED <<s_rx_buf, s_rx_head, s_rx_one, arming, driver, hardware, isr, c, delivered,
                 lost>>

\* __WFI sleeps until the next interrupt, also when the ring was filled between
\* the test and the instruction.
Wfi ==
  /\ Goto("wfi", "sleep")
  /\ UNCHANGED <<ring, s_rx_one, arming, driver, hardware, isr, ret, c, delivered, lost>>

\* pyexec_event_repl_process_char(c); a character that makes it return nonzero
\* leads to soft_reset.
Deliver ==
  /\ \E to \in {"get", "banner"} : Goto("deliver", to)
  /\ delivered' = Append(delivered, c)
  /\ UNCHANGED <<ring, s_rx_one, arming, driver, hardware, isr, ret, c, lost>>

Foreground ==
  \/ UartOpen \/ InitTail \/ InitHead \/ InitArmed \/ InitNeed
  \/ PollTest \/ ReadDest \/ ReadBytes \/ PollArmed \/ PollNeed
  \/ Banner \/ GetEmpty \/ GetNonEmpty \/ GetRead \/ GetAdvance \/ Wfi \/ Deliver

Rxi == RxiEnter \/ RxiChar \/ RxiStore \/ RxiExit

Next == Foreground \/ Rxi \/ Eri \/ TxEvent \/ SysTick \/ RxWire \/ RxOverrun \/ RxWireError

Spec == Init /\ [][Next]_vars

\* Interrupts are taken, SysTick ticks, and Python code the REPL runs returns;
\* the host may stop sending.
Fairness == WF_vars(Foreground) /\ WF_vars(Rxi) /\ WF_vars(Eri) /\ WF_vars(SysTick)

FairSpec == Spec /\ Fairness

-----------------------------------------------------------------------------
(* Properties *)

\* The bytes in the ring, oldest first.
Count == IF s_rx_head >= s_rx_tail THEN s_rx_head - s_rx_tail
                                   ELSE s_rx_head + RxBufSize - s_rx_tail
SlotAt(i) == IF s_rx_tail + i < RxBufSize THEN s_rx_tail + i ELSE s_rx_tail + i - RxBufSize
Content == [i \in 1 .. Count |-> s_rx_buf[SlotAt(i - 1)]]

\* rb_get has taken c out of the ring and mp_uart_rx_chr has not returned it.
Holding == fpc = "deliver" \/ (fpc \in PollPc /\ ret = "deliver")
Taken == IF Holding THEN Append(delivered, c) ELSE delivered

Elements(s) == {s[i] : i \in DOMAIN s}

\* Every variable has its type.
TypeOK ==
  /\ s_rx_buf \in [Slot -> Byte \cup {0}]
  /\ s_rx_head \in Slot
  /\ s_rx_tail \in Slot
  /\ s_rx_one \in Byte \cup {0}
  /\ s_rx_armed \in BOOLEAN
  /\ s_rx_need_arm \in BOOLEAN
  /\ p_rx_dest \in {"NULL", "s_rx_one"}
  /\ rx_dest_bytes \in {0, 1}
  /\ fifo \in Seq(Byte)
  /\ Len(fifo) <= FifoDepth
  /\ orer \in BOOLEAN
  /\ eri \in BOOLEAN
  /\ isr \in {"idle", "rxi"}
  /\ fpc \in InitPc \cup PollPc \cup
             {"banner", "get", "get_read", "get_advance", "wfi", "sleep", "deliver"}
  /\ ret \in {"banner", "get", "wfi", "deliver"}
  /\ c \in Byte \cup {0}
  /\ sent \in 0 .. MaxBytes
  /\ delivered \in Seq(Byte \cup {0})
  /\ lost \subseteq Byte \cup {0}

\* A read that is armed always points at s_rx_one, so that the RXI handler never
\* stores a byte anywhere else (R_SCI_B_UART_Read stores the pointer before the
\* count, and the foreground can be interrupted between the two).
ReadHasTarget == rx_dest_bytes # 0 => p_rx_dest = "s_rx_one"

\* Once mp_uart_init has returned the chain of one-byte reads is never broken:
\* the driver has a read armed and the flags of mp_uart.c say so, whatever
\* events were reported in between ("avoid a permanently broken chain").
ChainUnbroken ==
  ~Booting => rx_dest_bytes = 1 /\ s_rx_armed /\ ~s_rx_need_arm

\* The slot rb_get reads is never rewritten between its load and the store of
\* the tail: the byte it returns is the oldest byte of the ring.
ReadIsStable ==
  fpc = "get_advance" => ~rb_is_empty /\ c = s_rx_buf[s_rx_tail]

\* The REPL receives bytes in the order they were sent, each at most once.
InOrder == \A i, j \in DOMAIN Taken : i < j => Taken[i] < Taken[j]

\* No byte vanishes: whatever was on the wire is in the FIFO, in the ring, with
\* the REPL, or was given up at one of the places that give bytes up (FIFO
\* overrun, a receive error, a full ring, a byte before mp_uart_init).
NothingVanishes ==
  1 .. sent \subseteq Elements(fifo) \cup Elements(Content) \cup Elements(Taken) \cup lost

\* The ring implements a bounded queue of RxBufSize - 1 bytes although the
\* handler fills it while mp_uart_rx_chr reads it.
Fifo == INSTANCE ByteFifo WITH Capacity <- RxBufSize - 1, queue <- Content, got <- Taken
RingIsFifo == Fifo!FifoSpec

\* A byte is given up only when the FIFO overruns, an error is signalled, the
\* ring is full, or the UART is not initialised: a step of a healthy receiver
\* with room in its ring loses nothing.
LossHasCause ==
  [][lost' # lost => \/ eri \/ orer' \/ Count = RxBufSize - 1 \/ Booting]_vars

\* Every byte on the wire is delivered or given up in the end, and one that reaches
\* the ring of an initialised UART is handed to the REPL, also when it arrives
\* between rb_get's test and __WFI.
EveryByteSettles ==
  \A b \in Byte :
    /\ (sent >= b) ~> (b \in Elements(delivered) \cup lost)
    /\ (~Booting /\ b \in Elements(Content)) ~> (b \in Elements(delivered))

=============================================================================
