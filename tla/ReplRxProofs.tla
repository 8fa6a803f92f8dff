----------------------------- MODULE ReplRxProofs -----------------------------
(***************************************************************************)
(* Proofs about ReplRx, for every RxBufSize >= 2, FifoDepth >= 1 and       *)
(* MaxBytes.  ArmInv strengthens ReadHasTarget and ChainUnbroken, RingInv  *)
(* strengthens ReadIsStable; with TypeOK they give the refinement.  The    *)
(* last part follows a byte from the FIFO through the ring to the REPL:    *)
(* every step is one of six (StreamStep), each keeps OrderInv, from which  *)
(* InOrder follows, and none makes a byte vanish.                          *)
(***************************************************************************)
EXTENDS ReplRx, SequenceTheorems, TLAPS

\* rb_next wraps at the end of the ring.
LEMMA RbNext ==
  ASSUME NEW x \in Slot
  PROVE  /\ rb_next(x) \in Slot
         /\ rb_next(x) = IF x = RxBufSize - 1 THEN 0 ELSE x + 1
  <1>1. CASE x = RxBufSize - 1
    <2>1. RxBufSize % RxBufSize = 0 BY RxBufSizeAssumption
    <2>2. QED BY <1>1, <2>1, RxBufSizeAssumption DEF rb_next, Slot
  <1>2. CASE x # RxBufSize - 1
    <2>1. x + 1 \in 0 .. RxBufSize - 1 BY <1>2, RxBufSizeAssumption DEF Slot
    <2>2. (x + 1) % RxBufSize = x + 1 BY <2>1, RxBufSizeAssumption
    <2>3. QED BY <1>2, <2>1, <2>2, RxBufSizeAssumption DEF rb_next, Slot
  <1>3. QED BY <1>1, <1>2

-----------------------------------------------------------------------------
(* Types *)

\* The initial state is well typed.
LEMMA TypeInit == Init => TypeOK
  <1> SUFFICES ASSUME Init PROVE TypeOK
    OBVIOUS
  <1>1. 0 \in Slot /\ 0 \in 0 .. MaxBytes
    BY RxBufSizeAssumption, MaxBytesAssumption DEF Slot
  <1>2. Len(fifo) <= FifoDepth
    BY FifoDepthAssumption DEF Init
  <1>3. QED BY <1>1, <1>2 DEF Init, TypeOK, InitPc, PollPc

\* rb_put keeps the ring well typed.
LEMMA TypeRbPut ==
  ASSUME TypeOK, NEW b \in Byte \cup {0}, rb_put(b)
  PROVE  /\ s_rx_buf' \in [Slot -> Byte \cup {0}]
         /\ s_rx_head' \in Slot
         /\ s_rx_tail' \in Slot
         /\ lost' \subseteq Byte \cup {0}
  BY RbNext DEF TypeOK, rb_put

\* Every step keeps the types.
LEMMA TypeNext == TypeOK /\ [Next]_vars => TypeOK'
  <1> SUFFICES ASSUME TypeOK, [Next]_vars PROVE TypeOK'
    OBVIOUS
  <1> USE DEF TypeOK
  <1>1. CASE UNCHANGED vars
    BY <1>1 DEF vars, ring, arming, driver, hardware, foreground
  <1>2. CASE Foreground
    <2> USE DEF ring, arming, driver, hardware, foreground, Goto, InitPc, PollPc
    <2>1. CASE UartOpen BY <2>1 DEF UartOpen
    <2>2. CASE InitTail BY <2>2, RxBufSizeAssumption DEF InitTail, Slot
    <2>3. CASE InitHead BY <2>3, RxBufSizeAssumption DEF InitHead, Slot
    <2>4. CASE InitArmed BY <2>4 DEF InitArmed
    <2>5. CASE InitNeed BY <2>5 DEF InitNeed
    <2>6. CASE PollTest BY <2>6 DEF PollTest
    <2>7. CASE ReadDest BY <2>7 DEF ReadDest
    <2>8. CASE ReadBytes BY <2>8 DEF ReadBytes
    <2>9. CASE PollArmed BY <2>9 DEF PollArmed
    <2>10. CASE PollNeed BY <2>10 DEF PollNeed
    <2>11. CASE Banner BY <2>11 DEF Banner
    <2>12. CASE GetEmpty BY <2>12 DEF GetEmpty
    <2>13. CASE GetNonEmpty BY <2>13 DEF GetNonEmpty
    <2>14. CASE GetRead BY <2>14 DEF GetRead
    <2>15. CASE GetAdvance BY <2>15, RbNext DEF GetAdvance
    <2>16. CASE Wfi BY <2>16 DEF Wfi
    <2>17. CASE Deliver BY <2>17 DEF Deliver
    <2>18. QED
      BY <1>2, <2>1, <2>2, <2>3, <2>4, <2>5, <2>6, <2>7, <2>8, <2>9, <2>10, <2>11, <2>12,
         <2>13, <2>14, <2>15, <2>16, <2>17 DEF Foreground
  <1>3. CASE Rxi
    <2> USE DEF ring, arming, driver, hardware, foreground, InitPc, PollPc, Wake
    <2>1. CASE RxiEnter BY <2>1 DEF RxiEnter
    <2>2. CASE RxiChar
      <3>1. Head(fifo) \in Byte /\ Tail(fifo) \in Seq(Byte) /\ Len(Tail(fifo)) <= FifoDepth
        BY <2>2, FifoDepthAssumption DEF RxiChar
      <3>2. fifo' \in Seq(Byte) /\ Len(fifo') <= FifoDepth BY <2>2, <3>1 DEF RxiChar
      <3>3. lost' \subseteq Byte \cup {0} BY <2>2, <3>1 DEF RxiChar
      <3>4. /\ s_rx_armed' \in BOOLEAN /\ s_rx_need_arm' \in BOOLEAN
            /\ p_rx_dest' \in {"NULL", "s_rx_one"} /\ rx_dest_bytes' \in {0, 1}
        BY <2>2 DEF RxiChar, CallbackOther, mp_uart_arm_read_1_isr
      <3>5. UNCHANGED <<s_rx_buf, s_rx_head, s_rx_tail, s_rx_one, orer, eri, sent, isr, fpc, ret,
                        c, delivered>>
        BY <2>2 DEF RxiChar, CallbackOther
      <3>6. QED BY <3>2, <3>3, <3>4, <3>5
    <2>3. CASE RxiStore
      <3>1. Head(fifo) \in Byte /\ Tail(fifo) \in Seq(Byte) /\ Len(Tail(fifo)) <= FifoDepth
        BY <2>3, FifoDepthAssumption DEF RxiStore
      <3>2. s_rx_one' \in Byte \cup {0}
        BY <2>3, <3>1 DEF RxiStore
      <3>3. rb_put(s_rx_one')
        BY <2>3 DEF RxiStore, CallbackRxComplete
      <3>4. /\ s_rx_buf' \in [Slot -> Byte \cup {0}]
            /\ s_rx_head' \in Slot
            /\ s_rx_tail' \in Slot
            /\ lost' \subseteq Byte \cup {0}
        BY <3>2, <3>3, TypeRbPut
      <3>5. QED
        BY <2>3, <3>1, <3>2, <3>4 DEF RxiStore, CallbackRxComplete, mp_uart_arm_read_1_isr
    <2>4. CASE RxiExit BY <2>4 DEF RxiExit
    <2>5. QED BY <1>3, <2>1, <2>2, <2>3, <2>4 DEF Rxi
  <1>4. CASE Eri
    <2>1. fifo # <<>> => /\ Head(fifo) \in Byte
                         /\ Tail(fifo) \in Seq(Byte)
                         /\ Len(Tail(fifo)) <= FifoDepth
      BY FifoDepthAssumption
    <2>2. QED
      BY <1>4, <2>1 DEF Eri, CallbackOther, mp_uart_arm_read_1_isr, ring, Wake, InitPc, PollPc
  <1>5. CASE TxEvent
    BY <1>5 DEF TxEvent, CallbackOther, mp_uart_arm_read_1_isr, ring, hardware, Wake, InitPc,
                PollPc
  <1>6. CASE SysTick
    BY <1>6 DEF SysTick, ring, arming, driver, hardware, Wake, InitPc, PollPc
  <1>7. CASE RxWire
    <2>1. sent' \in 0 .. MaxBytes /\ sent' \in Byte
      BY <1>7, MaxBytesAssumption DEF RxWire, Byte
    <2>2. fifo' \in Seq(Byte) /\ Len(fifo') <= FifoDepth
      BY <1>7, <2>1, FifoDepthAssumption DEF RxWire
    <2>3. QED
      BY <1>7, <2>1, <2>2 DEF RxWire, ring, arming, driver, foreground
  <1>8. CASE RxWireError
    <2>1. sent' \in 0 .. MaxBytes /\ sent' \in Byte
      BY <1>8, MaxBytesAssumption DEF RxWireError, Byte
    <2>2. fifo' \in Seq(Byte) /\ Len(fifo') <= FifoDepth
      BY <1>8, <2>1, FifoDepthAssumption DEF RxWireError
    <2>3. QED
      BY <1>8, <2>1, <2>2 DEF RxWireError, ring, arming, driver, foreground
  <1>9. CASE RxOverrun
    <2>1. sent' \in 0 .. MaxBytes /\ sent' \in Byte
      BY <1>9, MaxBytesAssumption DEF RxOverrun, Byte
    <2>2. QED
      BY <1>9, <2>1 DEF RxOverrun, ring, arming, driver, foreground
  <1>10. QED BY <1>1, <1>2, <1>3, <1>4, <1>5, <1>6, <1>7, <1>8, <1>9 DEF Next

\* Every reachable state of the receiver is well typed: the indices of mp_uart.c
\* stay inside s_rx_buf and the SCI FIFO never holds more than it can.
THEOREM TypeCorrect == Spec => []TypeOK
  BY TypeInit, TypeNext, PTL DEF Spec

-----------------------------------------------------------------------------
(* The armed read *)

\* What makes ReadHasTarget and ChainUnbroken inductive: where the foreground is
\* inside mp_uart_arm_read_1_poll and what it has stored by then.
ArmInv ==
  /\ fpc = "open" => fifo = <<>> /\ eri = FALSE /\ isr = "idle" /\ s_rx_armed = FALSE
  /\ s_rx_armed = TRUE /\ s_rx_need_arm = FALSE => rx_dest_bytes = 1
  /\ fpc = "read_bytes" => p_rx_dest = "s_rx_one"
  /\ fpc \in {"poll_armed", "poll_need"} => rx_dest_bytes = 1
  /\ fpc = "poll_need" => s_rx_armed = TRUE
  /\ rx_dest_bytes # 0 => p_rx_dest = "s_rx_one"
  /\ ~Booting => rx_dest_bytes = 1 /\ s_rx_armed = TRUE /\ s_rx_need_arm = FALSE

\* ArmInv holds before R_SCI_B_UART_Open.
LEMMA ArmInit == Init => ArmInv
  BY DEF Init, ArmInv, Booting, InitPc, PollPc

\* After a callback the read is armed, whatever was true before.
LEMMA ArmCallback ==
  ASSUME mp_uart_arm_read_1_isr, fpc' # "open"
  PROVE  ArmInv'
  BY DEF mp_uart_arm_read_1_isr, ArmInv, Booting, InitPc, PollPc

\* Every step preserves ArmInv.
LEMMA ArmNext == TypeOK /\ ArmInv /\ [Next]_vars => ArmInv'
  <1> SUFFICES ASSUME TypeOK, ArmInv, [Next]_vars PROVE ArmInv'
    OBVIOUS
  <1>1. CASE UNCHANGED vars
    BY <1>1 DEF ArmInv, Booting, InitPc, PollPc, vars, ring, arming, driver, hardware, foreground
  <1>2. CASE Foreground
    <2> USE DEF TypeOK, ArmInv, Booting, InitPc, PollPc, arming, driver, hardware, Goto
    <2>1. CASE UartOpen BY <2>1 DEF UartOpen
    <2>2. CASE InitTail BY <2>2 DEF InitTail
    <2>3. CASE InitHead BY <2>3 DEF InitHead
    <2>4. CASE InitArmed BY <2>4 DEF InitArmed
    <2>5. CASE InitNeed BY <2>5 DEF InitNeed
    <2>6. CASE PollTest
      <3>1. CASE s_rx_armed = TRUE /\ s_rx_need_arm = FALSE
        BY <2>6, <3>1 DEF PollTest
      <3>2. CASE ~(s_rx_armed = TRUE /\ s_rx_need_arm = FALSE)
        BY <2>6, <3>2 DEF PollTest
      <3>3. QED BY <3>1, <3>2
    <2>7. CASE ReadDest BY <2>7 DEF ReadDest
    <2>8. CASE ReadBytes BY <2>8 DEF ReadBytes
    <2>9. CASE PollArmed BY <2>9 DEF PollArmed
    <2>10. CASE PollNeed BY <2>10 DEF PollNeed
    <2>11. CASE Banner BY <2>11 DEF Banner
    <2>12. CASE GetEmpty BY <2>12 DEF GetEmpty
    <2>13. CASE GetNonEmpty BY <2>13 DEF GetNonEmpty
    <2>14. CASE GetRead BY <2>14 DEF GetRead
    <2>15. CASE GetAdvance BY <2>15 DEF GetAdvance
    <2>16. CASE Wfi BY <2>16 DEF Wfi
    <2>17. CASE Deliver BY <2>17 DEF Deliver
    <2>18. QED
      BY <1>2, <2>1, <2>2, <2>3, <2>4, <2>5, <2>6, <2>7, <2>8, <2>9, <2>10, <2>11, <2>12,
         <2>13, <2>14, <2>15, <2>16, <2>17 DEF Foreground
  <1>3. CASE Rxi
    <2>1. CASE RxiEnter
      BY <2>1 DEF RxiEnter, Wake, TypeOK, ArmInv, Booting, InitPc, PollPc, arming, driver, hardware
    <2>2. CASE RxiChar
      BY <2>2, ArmCallback DEF RxiChar, CallbackOther, ArmInv, foreground
    <2>3. CASE RxiStore
      BY <2>3, ArmCallback DEF RxiStore, CallbackRxComplete, ArmInv, foreground
    <2>4. CASE RxiExit
      BY <2>4 DEF RxiExit, TypeOK, ArmInv, Booting, InitPc, PollPc, arming, driver, hardware,
                  foreground
    <2>5. QED BY <1>3, <2>1, <2>2, <2>3, <2>4 DEF Rxi
  <1>4. CASE Eri
    BY <1>4, ArmCallback DEF Eri, CallbackOther, Wake, ArmInv
  <1>5. CASE TxEvent
    BY <1>5, ArmCallback DEF TxEvent, CallbackOther, Wake, Booting, InitPc
  <1>6. CASE SysTick
    BY <1>6 DEF SysTick, Wake, ArmInv, Booting, InitPc, PollPc, arming, driver, hardware
  <1>7. CASE RxWire
    BY <1>7 DEF RxWire, Listening, ArmInv, Booting, InitPc, PollPc, arming, driver, foreground
  <1>8. CASE RxWireError
    BY <1>8 DEF RxWireError, Listening, ArmInv, Booting, InitPc, PollPc, arming, driver, foreground
  <1>9. CASE RxOverrun
    BY <1>9 DEF RxOverrun, Listening, ArmInv, Booting, InitPc, PollPc, arming, driver, foreground
  <1>10. QED BY <1>1, <1>2, <1>3, <1>4, <1>5, <1>6, <1>7, <1>8, <1>9 DEF Next

\* ArmInv is an invariant.
LEMMA ArmAlways == Spec => []ArmInv
  <1>1. Init => ArmInv BY ArmInit
  <1>2. TypeOK /\ ArmInv /\ [Next]_vars => ArmInv' BY ArmNext
  <1>3. QED BY <1>1, <1>2, TypeCorrect, PTL DEF Spec

\* For every ring size and FIFO depth the RXI handler only ever stores a byte to
\* s_rx_one, also when it interrupts the foreground inside R_SCI_B_UART_Read.
THEOREM ReadTargetCorrect == Spec => []ReadHasTarget
  <1>1. ArmInv => ReadHasTarget BY DEF ArmInv, ReadHasTarget
  <1>2. QED BY <1>1, ArmAlways, PTL

\* For every ring size and FIFO depth uart_callback and mp_uart_arm_read_1_poll
\* keep a one-byte read armed from mp_uart_init on.
THEOREM ChainCorrect == Spec => []ChainUnbroken
  <1>1. ArmInv => ChainUnbroken BY DEF ArmInv, ChainUnbroken
  <1>2. QED BY <1>1, ArmAlways, PTL

-----------------------------------------------------------------------------
(* The ring as a queue *)

\* What makes ReadIsStable inductive, and what mp_uart_init finds.
RingInv ==
  /\ fpc \in {"open", "init_tail", "init_head"} => s_rx_tail = 0
  /\ fpc \in {"get_read", "get_advance"} => s_rx_head # s_rx_tail
  /\ fpc = "get_advance" => c = s_rx_buf[s_rx_tail]

\* Count, SlotAt and Content in terms of the state only.
LEMMA ContentFacts ==
  ASSUME TypeOK
  PROVE  /\ Count \in 0 .. RxBufSize - 1
         /\ Count = 0 <=> s_rx_head = s_rx_tail
         /\ \A i \in 0 .. RxBufSize - 1 : SlotAt(i) \in Slot
         /\ Content \in Seq(Byte \cup {0})
         /\ Len(Content) = Count
         /\ \A i \in 1 .. Count : Content[i] = s_rx_buf[SlotAt(i - 1)]
  <1>1. Count \in 0 .. RxBufSize - 1 /\ (Count = 0 <=> s_rx_head = s_rx_tail)
    BY RxBufSizeAssumption DEF TypeOK, Count, Slot
  <1>2. \A i \in 0 .. RxBufSize - 1 : SlotAt(i) \in Slot
    BY RxBufSizeAssumption DEF TypeOK, SlotAt, Slot
  <1>3. \A i \in 1 .. Count : s_rx_buf[SlotAt(i - 1)] \in Byte \cup {0}
    <2> TAKE i \in 1 .. Count
    <2>1. i - 1 \in 0 .. RxBufSize - 1 BY <1>1, RxBufSizeAssumption
    <2>2. SlotAt(i - 1) \in Slot BY <1>2, <2>1
    <2>3. QED BY <2>2 DEF TypeOK
  <1>4. Count \in Nat BY <1>1, RxBufSizeAssumption
  <1>5. Content \in Seq(Byte \cup {0}) /\ Len(Content) = Count
    BY <1>3, <1>4 DEF Content
  <1>6. \A i \in 1 .. Count : Content[i] = s_rx_buf[SlotAt(i - 1)]
    BY DEF Content
  <1>7. QED BY <1>1, <1>2, <1>5, <1>6

\* rb_put appends to the queue, or leaves it alone when it holds RxBufSize - 1
\* bytes.
LEMMA PutContent ==
  ASSUME TypeOK, TypeOK', NEW b \in Byte \cup {0}, rb_put(b)
  PROVE  \/ Content' = Content
         \/ Len(Content) < RxBufSize - 1 /\ Content' = Append(Content, b)
  <1>1. CASE rb_next(s_rx_head) = s_rx_tail
    BY <1>1 DEF rb_put, Content, Count, SlotAt
  <1>2. CASE rb_next(s_rx_head) # s_rx_tail
    <2>1. /\ s_rx_buf' = [s_rx_buf EXCEPT ![s_rx_head] = b]
          /\ s_rx_head' = rb_next(s_rx_head)
          /\ s_rx_tail' = s_rx_tail
      BY <1>2 DEF rb_put
    <2>2. /\ s_rx_head \in Slot /\ s_rx_tail \in Slot
          /\ rb_next(s_rx_head) = IF s_rx_head = RxBufSize - 1 THEN 0 ELSE s_rx_head + 1
      BY RbNext DEF TypeOK
    <2>3. Count < RxBufSize - 1 /\ Count' = Count + 1 /\ SlotAt(Count) = s_rx_head
      BY <1>2, <2>1, <2>2, RxBufSizeAssumption DEF Count, SlotAt, Slot
    <2>4. \A i \in 0 .. Count - 1 : SlotAt(i) # s_rx_head
      BY <2>2, <2>3, RxBufSizeAssumption DEF Count, SlotAt, Slot
    <2>5. \A i \in 0 .. RxBufSize - 1 : SlotAt(i)' = SlotAt(i)
      BY <2>1 DEF SlotAt
    <2>6. Count \in 0 .. RxBufSize - 1 /\ Content \in Seq(Byte \cup {0}) /\ Len(Content) = Count
      BY ContentFacts
    <2>7. \A i \in 1 .. Count' :
            s_rx_buf'[SlotAt(i - 1)'] = IF i = Count + 1 THEN b ELSE s_rx_buf[SlotAt(i - 1)]
      <3> TAKE i \in 1 .. Count'
      <3>1. i - 1 \in 0 .. RxBufSize - 1 /\ i - 1 \in 0 .. Count
        BY <2>3, <2>6, RxBufSizeAssumption
      <3>2. SlotAt(i - 1)' = SlotAt(i - 1) /\ SlotAt(i - 1) \in Slot
        BY <2>5, <3>1, ContentFacts
      <3>3. CASE i = Count + 1
        <4>1. i - 1 = Count BY <3>3, <2>6, RxBufSizeAssumption
        <4>2. SlotAt(i - 1) = s_rx_head BY <4>1, <2>3
        <4>3. QED BY <3>2, <3>3, <4>2, <2>1, <2>2 DEF TypeOK
      <3>4. CASE i # Count + 1
        <4>1. i - 1 \in 0 .. Count - 1 BY <3>1, <3>4, <2>6, RxBufSizeAssumption
        <4>2. SlotAt(i - 1) # s_rx_head BY <4>1, <2>4
        <4>3. QED BY <3>2, <3>4, <4>2, <2>1, <2>2 DEF TypeOK
      <3>5. QED BY <3>3, <3>4
    <2>8. Content' = [i \in 1 .. Count + 1 |->
                        IF i = Count + 1 THEN b ELSE s_rx_buf[SlotAt(i - 1)]]
      BY <2>3, <2>7 DEF Content
    <2>9. Content' \in Seq(Byte \cup {0}) /\ Len(Content') = Count + 1
      <3> DEFINE e(i) == IF i = Count + 1 THEN b ELSE s_rx_buf[SlotAt(i - 1)]
      <3>1. \A i \in 1 .. Count + 1 : i # Count + 1 => e(i) = Content[i] /\ i \in 1 .. Len(Content)
        BY <2>6, RxBufSizeAssumption, ContentFacts
      <3>2. \A i \in 1 .. Count + 1 : e(i) \in Byte \cup {0}
        BY <2>6, <3>1, ElementOfSeq
      <3>3. Count + 1 \in Nat BY <2>6, RxBufSizeAssumption
      <3>4. Content' = [i \in 1 .. Count + 1 |-> e(i)] BY <2>8
      <3> HIDE DEF e
      <3>5. QED BY <3>2, <3>3, <3>4
    <2>10. /\ Append(Content, b) \in Seq(Byte \cup {0})
           /\ Len(Append(Content, b)) = Count + 1
           /\ \A i \in 1 .. Count : Append(Content, b)[i] = Content[i]
           /\ Append(Content, b)[Count + 1] = b
      BY <2>6, AppendProperties, RxBufSizeAssumption
    <2>11. \A i \in 1 .. Count : Content[i] = s_rx_buf[SlotAt(i - 1)]
      BY ContentFacts
    <2>12. \A i \in 1 .. Len(Content') : Content'[i] = Append(Content, b)[i]
      BY <2>6, <2>8, <2>9, <2>10, <2>11, RxBufSizeAssumption
    <2>13. Content' = Append(Content, b)
      BY <2>9, <2>10, <2>12, SeqEqual
    <2>14. QED BY <2>3, <2>6, <2>13
  <1>3. QED BY <1>1, <1>2

\* rb_get's store of the tail takes the oldest byte out of the queue.
LEMMA GetContent ==
  ASSUME TypeOK, s_rx_head # s_rx_tail, UNCHANGED <<s_rx_buf, s_rx_head>>,
         s_rx_tail' = rb_next(s_rx_tail), TypeOK'
  PROVE  /\ Content # <<>>
         /\ Content' = Tail(Content)
         /\ Head(Content) = s_rx_buf[s_rx_tail]
  <1>1. /\ s_rx_head \in Slot /\ s_rx_tail \in Slot
        /\ s_rx_tail' = IF s_rx_tail = RxBufSize - 1 THEN 0 ELSE s_rx_tail + 1
    BY RbNext DEF TypeOK
  <1>2. Count \in 1 .. RxBufSize - 1 /\ Count' = Count - 1
    BY <1>1, RxBufSizeAssumption DEF Count, Slot
  <1>3. \A i \in 0 .. RxBufSize - 2 : SlotAt(i)' = SlotAt(i + 1)
    BY <1>1, RxBufSizeAssumption DEF SlotAt, Slot
  <1>4. /\ Content \in Seq(Byte \cup {0}) /\ Len(Content) = Count
        /\ \A i \in 1 .. Count : Content[i] = s_rx_buf[SlotAt(i - 1)]
    BY ContentFacts
  <1>5. Content # <<>> BY <1>2, <1>4, RxBufSizeAssumption
  <1>6. SlotAt(0) = s_rx_tail BY <1>1, RxBufSizeAssumption DEF SlotAt, Slot
  <1>7. Head(Content) = s_rx_buf[s_rx_tail]
    BY <1>2, <1>4, <1>5, <1>6, RxBufSizeAssumption
  <1>8. \A i \in 1 .. Count - 1 : s_rx_buf[SlotAt(i - 1)'] = Content[i + 1]
    <2> TAKE i \in 1 .. Count - 1
    <2>1. i - 1 \in 0 .. RxBufSize - 2 /\ i + 1 \in 1 .. Count /\ (i + 1) - 1 = i /\ (i - 1) + 1 = i
      BY <1>2, RxBufSizeAssumption
    <2>2. SlotAt(i - 1)' = SlotAt((i + 1) - 1) BY <2>1, <1>3
    <2>3. QED BY <2>1, <2>2, <1>4
  <1>9. Content' = [i \in 1 .. Count - 1 |-> Content[i + 1]]
    BY <1>2, <1>8 DEF Content
  <1>10. /\ Tail(Content) \in Seq(Byte \cup {0})
         /\ Len(Tail(Content)) = Count - 1
         /\ \A i \in 1 .. Count - 1 : Tail(Content)[i] = Content[i + 1]
    BY <1>4, <1>5, HeadTailProperties
  <1>11. Content' \in Seq(Byte \cup {0}) /\ Len(Content') = Count - 1
    BY <1>2, <1>4, <1>9, <1>10, RxBufSizeAssumption
  <1>12. \A i \in 1 .. Len(Content') : Content'[i] = Tail(Content)[i]
    BY <1>2, <1>9, <1>10, <1>11, RxBufSizeAssumption
  <1>13. Content' = Tail(Content)
    BY <1>10, <1>11, <1>12, SeqEqual
  <1>14. QED BY <1>5, <1>7, <1>13

\* RingInv holds initially.
LEMMA RingInit == Init => RingInv
  BY DEF Init, RingInv

\* A put neither empties the ring nor touches the slot at its tail.
LEMMA PutKeepsOldest ==
  ASSUME TypeOK, NEW b, rb_put(b)
  PROVE  /\ s_rx_tail' = s_rx_tail
         /\ s_rx_head # s_rx_tail => /\ s_rx_head' # s_rx_tail'
                                    /\ s_rx_buf'[s_rx_tail'] = s_rx_buf[s_rx_tail]
  BY RbNext DEF TypeOK, rb_put

\* Every step preserves RingInv.
LEMMA RingNext == TypeOK /\ RingInv /\ [Next]_vars => RingInv'
  <1> SUFFICES ASSUME TypeOK, RingInv, [Next]_vars PROVE RingInv'
    OBVIOUS
  <1> USE DEF RingInv
  <1>1. CASE UNCHANGED vars
    BY <1>1 DEF vars, ring, foreground
  <1>2. CASE Foreground
    <2> USE DEF ring, Goto
    <2>1. CASE UartOpen BY <2>1 DEF UartOpen
    <2>2. CASE InitTail BY <2>2 DEF InitTail
    <2>3. CASE InitHead BY <2>3 DEF InitHead
    <2>4. CASE InitArmed BY <2>4 DEF InitArmed
    <2>5. CASE InitNeed BY <2>5 DEF InitNeed
    <2>6. CASE PollTest BY <2>6 DEF PollTest, TypeOK
    <2>7. CASE ReadDest BY <2>7 DEF ReadDest
    <2>8. CASE ReadBytes BY <2>8 DEF ReadBytes
    <2>9. CASE PollArmed BY <2>9 DEF PollArmed
    <2>10. CASE PollNeed BY <2>10 DEF PollNeed, TypeOK
    <2>11. CASE Banner BY <2>11 DEF Banner
    <2>12. CASE GetEmpty BY <2>12 DEF GetEmpty
    <2>13. CASE GetNonEmpty BY <2>13 DEF GetNonEmpty, rb_is_empty
    <2>14. CASE GetRead BY <2>14 DEF GetRead
    <2>15. CASE GetAdvance BY <2>15 DEF GetAdvance
    <2>16. CASE Wfi BY <2>16 DEF Wfi
    <2>17. CASE Deliver BY <2>17 DEF Deliver
    <2>18. QED
      BY <1>2, <2>1, <2>2, <2>3, <2>4, <2>5, <2>6, <2>7, <2>8, <2>9, <2>10, <2>11, <2>12,
         <2>13, <2>14, <2>15, <2>16, <2>17 DEF Foreground
  <1>3. CASE Rxi
    <2>1. CASE RxiEnter BY <2>1 DEF RxiEnter, Wake, ring
    <2>2. CASE RxiChar BY <2>2 DEF RxiChar, CallbackOther, ring, foreground
    <2>3. CASE RxiStore
      <3>1. rb_put(s_rx_one') BY <2>3 DEF RxiStore, CallbackRxComplete
      <3>2. /\ s_rx_tail' = s_rx_tail
            /\ s_rx_head # s_rx_tail => /\ s_rx_head' # s_rx_tail'
                                       /\ s_rx_buf'[s_rx_tail'] = s_rx_buf[s_rx_tail]
        BY <3>1, PutKeepsOldest
      <3>3. QED BY <2>3, <3>2 DEF RxiStore, foreground
    <2>4. CASE RxiExit BY <2>4 DEF RxiExit, ring, foreground
    <2>5. QED BY <1>3, <2>1, <2>2, <2>3, <2>4 DEF Rxi
  <1>4. CASE Eri BY <1>4 DEF Eri, CallbackOther, Wake, ring
  <1>5. CASE TxEvent BY <1>5 DEF TxEvent, CallbackOther, Wake, ring
  <1>6. CASE SysTick BY <1>6 DEF SysTick, Wake, ring
  <1>7. CASE RxWire BY <1>7 DEF RxWire, ring, foreground
  <1>8. CASE RxWireError BY <1>8 DEF RxWireError, ring, foreground
  <1>9. CASE RxOverrun BY <1>9 DEF RxOverrun, ring, foreground
  <1>10. QED BY <1>1, <1>2, <1>3, <1>4, <1>5, <1>6, <1>7, <1>8, <1>9 DEF Next

\* RingInv is an invariant.
LEMMA RingAlways == Spec => []RingInv
  <1>1. Init => RingInv BY RingInit
  <1>2. TypeOK /\ RingInv /\ [Next]_vars => RingInv' BY RingNext
  <1>3. QED BY <1>1, <1>2, TypeCorrect, PTL DEF Spec

\* For every ring size rb_get returns the oldest byte of the ring although rb_put
\* runs between its load of the byte and its store of the tail.
THEOREM ReadStableCorrect == Spec => []ReadIsStable
  <1>1. RingInv => ReadIsStable BY DEF RingInv, ReadIsStable, rb_is_empty
  <1>2. QED BY <1>1, RingAlways, PTL

-----------------------------------------------------------------------------
(* The ring refines ByteFifo *)

\* The empty ring is the empty queue.
LEMMA FifoInitHolds == Init => Fifo!FifoInit
  <1> SUFFICES ASSUME Init PROVE Fifo!FifoInit
    OBVIOUS
  <1>1. TypeOK BY TypeInit
  <1>2. Content = <<>> BY <1>1, ContentFacts DEF Init
  <1>3. Taken = <<>> BY DEF Init, Taken, Holding, PollPc
  <1>4. QED BY <1>2, <1>3 DEF Fifo!FifoInit

\* A step that leaves the ring and what was taken from it alone.
LEMMA Stutter ==
  ASSUME UNCHANGED <<s_rx_buf, s_rx_head, s_rx_tail>>, Taken' = Taken
  PROVE  UNCHANGED Fifo!fifoVars
  BY DEF Content, Count, SlotAt, Fifo!fifoVars

\* Every step of the receiver is a step of the queue or leaves it alone.
LEMMA FifoStep ==
  TypeOK /\ TypeOK' /\ ArmInv /\ RingInv /\ [Next]_vars => [Fifo!FifoNext]_Fifo!fifoVars
  <1> SUFFICES ASSUME TypeOK, TypeOK', ArmInv, RingInv, [Next]_vars
               PROVE  [Fifo!FifoNext]_Fifo!fifoVars
    OBVIOUS
  <1>1. CASE UNCHANGED vars
    BY <1>1, Stutter DEF vars, ring, foreground, Taken, Holding
  <1>2. CASE Foreground
    <2> USE DEF ring, Goto, Taken, Holding, PollPc
    <2>1. CASE UartOpen BY <2>1, Stutter DEF UartOpen
    <2>2. CASE InitTail BY <2>2, Stutter DEF InitTail, RingInv
    <2>3. CASE InitHead
      <3>1. s_rx_head' = 0 /\ s_rx_tail' = 0 BY <2>3 DEF InitHead, RingInv
      <3>2. Count' = 0 BY <3>1 DEF Count
      <3>3. Content' = <<>> BY <3>2 DEF Content
      <3>4. Taken' = Taken BY <2>3 DEF InitHead
      <3>5. QED BY <3>3, <3>4 DEF Fifo!FifoNext, Fifo!Clear
    <2>4. CASE InitArmed BY <2>4, Stutter DEF InitArmed
    <2>5. CASE InitNeed BY <2>5, Stutter DEF InitNeed
    <2>6. CASE PollTest
      <3>1. Taken' = Taken
        <4>1. CASE fpc' = ret BY <2>6, <4>1 DEF PollTest, TypeOK
        <4>2. CASE fpc' = "read_dest" BY <2>6, <4>2 DEF PollTest
        <4>3. QED BY <2>6, <4>1, <4>2 DEF PollTest
      <3>2. QED BY <2>6, <3>1, Stutter DEF PollTest
    <2>7. CASE ReadDest BY <2>7, Stutter DEF ReadDest
    <2>8. CASE ReadBytes BY <2>8, Stutter DEF ReadBytes
    <2>9. CASE PollArmed BY <2>9, Stutter DEF PollArmed
    <2>10. CASE PollNeed BY <2>10, Stutter DEF PollNeed, TypeOK
    <2>11. CASE Banner BY <2>11, Stutter DEF Banner
    <2>12. CASE GetEmpty BY <2>12, Stutter DEF GetEmpty
    <2>13. CASE GetNonEmpty BY <2>13, Stutter DEF GetNonEmpty
    <2>14. CASE GetRead BY <2>14, Stutter DEF GetRead
    <2>15. CASE GetAdvance
      <3>1. s_rx_head # s_rx_tail /\ c = s_rx_buf[s_rx_tail]
        BY <2>15 DEF GetAdvance, RingInv
      <3>2. /\ Content # <<>>
            /\ Content' = Tail(Content)
            /\ Head(Content) = s_rx_buf[s_rx_tail]
        BY <2>15, <3>1, GetContent DEF GetAdvance
      <3>3. Taken' = Append(Taken, c)
        BY <2>15 DEF GetAdvance
      <3>4. QED BY <3>1, <3>2, <3>3 DEF Fifo!FifoNext, Fifo!Get
    <2>16. CASE Wfi BY <2>16, Stutter DEF Wfi
    <2>17. CASE Deliver BY <2>17, Stutter DEF Deliver
    <2>18. QED
      BY <1>2, <2>1, <2>2, <2>3, <2>4, <2>5, <2>6, <2>7, <2>8, <2>9, <2>10, <2>11, <2>12,
         <2>13, <2>14, <2>15, <2>16, <2>17 DEF Foreground
  <1>3. CASE Rxi
    <2> USE DEF Taken, Holding, PollPc
    <2>1. CASE RxiEnter BY <2>1, Stutter DEF RxiEnter, Wake, ring
    <2>2. CASE RxiChar BY <2>2, Stutter DEF RxiChar, CallbackOther, ring, foreground
    <2>3. CASE RxiStore
      <3>1. Head(fifo) \in Byte BY <2>3 DEF RxiStore, TypeOK
      <3>2. s_rx_one' = Head(fifo) BY <2>3 DEF RxiStore, ArmInv
      <3>3. rb_put(Head(fifo)) BY <2>3, <3>2 DEF RxiStore, CallbackRxComplete
      <3>4. \/ Content' = Content
            \/ Len(Content) < RxBufSize - 1 /\ Content' = Append(Content, Head(fifo))
        BY <3>1, <3>3, PutContent
      <3>5. Taken' = Taken BY <2>3 DEF RxiStore, foreground
      <3>6. QED BY <3>1, <3>4, <3>5 DEF Fifo!FifoNext, Fifo!Put, Fifo!fifoVars
    <2>4. CASE RxiExit BY <2>4, Stutter DEF RxiExit, ring, foreground
    <2>5. QED BY <1>3, <2>1, <2>2, <2>3, <2>4 DEF Rxi
  <1>4. CASE Eri
    BY <1>4, Stutter DEF Eri, CallbackOther, Wake, ring, Taken, Holding, PollPc
  <1>5. CASE TxEvent
    BY <1>5, Stutter DEF TxEvent, CallbackOther, Wake, ring, Taken, Holding, PollPc
  <1>6. CASE SysTick
    BY <1>6, Stutter DEF SysTick, Wake, ring, Taken, Holding, PollPc
  <1>7. CASE RxWire
    BY <1>7, Stutter DEF RxWire, ring, foreground, Taken, Holding
  <1>8. CASE RxWireError
    BY <1>8, Stutter DEF RxWireError, ring, foreground, Taken, Holding
  <1>9. CASE RxOverrun
    BY <1>9, Stutter DEF RxOverrun, ring, foreground, Taken, Holding
  <1>10. QED BY <1>1, <1>2, <1>3, <1>4, <1>5, <1>6, <1>7, <1>8, <1>9 DEF Next

\* For every ring size the ring of mp_uart.c implements a queue of one byte less
\* than its size, with rb_put in the handler and rb_get in the foreground and no
\* lock between them.
THEOREM RingRefinesFifo == Spec => RingIsFifo
  <1>1. Init => Fifo!FifoInit BY FifoInitHolds
  <1>2. TypeOK /\ TypeOK' /\ ArmInv /\ RingInv /\ [Next]_vars
        => [Fifo!FifoNext]_Fifo!fifoVars
    BY FifoStep
  <1>3. QED
    BY <1>1, <1>2, TypeCorrect, ArmAlways, RingAlways, PTL
       DEF Spec, RingIsFifo, Fifo!FifoSpec

-----------------------------------------------------------------------------
(* Bytes are given up for a reason *)

\* One step gives a byte up only for one of the four reasons.
LEMMA LossStep ==
  TypeOK /\ ArmInv /\ [Next]_vars
  => (lost' # lost => eri \/ orer' \/ Count = RxBufSize - 1 \/ Booting)
  <1> SUFFICES ASSUME TypeOK, ArmInv, [Next]_vars, lost' # lost
               PROVE  eri = TRUE \/ orer' = TRUE \/ Count = RxBufSize - 1 \/ Booting
    OBVIOUS
  <1>1. CASE UNCHANGED vars BY <1>1 DEF vars
  <1>2. CASE Foreground
    <2>1. CASE InitHead BY <2>1 DEF InitHead, Goto, Booting, InitPc
    <2>2. CASE ~InitHead
      BY <1>2, <2>2 DEF Foreground, UartOpen, InitTail, InitArmed, InitNeed, PollTest, ReadDest,
           ReadBytes, PollArmed, PollNeed, Banner, GetEmpty, GetNonEmpty, GetRead, GetAdvance,
           Wfi, Deliver
    <2>3. QED BY <2>1, <2>2
  <1>3. CASE Rxi
    <2>1. CASE RxiChar BY <2>1 DEF RxiChar, ArmInv
    <2>2. CASE RxiStore
      <3>1. rb_next(s_rx_head) = s_rx_tail
        BY <2>2 DEF RxiStore, CallbackRxComplete, rb_put
      <3>2. s_rx_tail = IF s_rx_head = RxBufSize - 1 THEN 0 ELSE s_rx_head + 1
        BY <3>1, RbNext DEF TypeOK
      <3>3. Count = RxBufSize - 1
        BY <3>2, RxBufSizeAssumption DEF Count, TypeOK, Slot
      <3>4. QED BY <3>3
    <2>3. CASE RxiEnter \/ RxiExit BY <2>3 DEF RxiEnter, RxiExit
    <2>4. QED BY <1>3, <2>1, <2>2, <2>3 DEF Rxi
  <1>4. CASE Eri BY <1>4 DEF Eri, TypeOK
  <1>5. CASE RxOverrun BY <1>5 DEF RxOverrun
  <1>6. CASE TxEvent \/ SysTick \/ RxWire \/ RxWireError
    BY <1>6 DEF TxEvent, SysTick, RxWire, RxWireError
  <1>7. QED BY <1>1, <1>2, <1>3, <1>4, <1>5, <1>6 DEF Next

\* For every ring size and FIFO depth the receiver gives a byte up only on an
\* overrun, on a signalled error, when the ring is full or before mp_uart_init
\* has returned.
THEOREM LossCorrect == Spec => LossHasCause
  <1>1. TypeOK /\ ArmInv /\ [Next]_vars
        => [lost' # lost => eri \/ orer' \/ Count = RxBufSize - 1 \/ Booting]_vars
    BY LossStep
  <1>2. QED BY <1>1, TypeCorrect, ArmAlways, PTL DEF Spec, LossHasCause

-----------------------------------------------------------------------------
(* The way of a byte: FIFO, ring, REPL *)

\* What a step may do to the bytes under way: nothing; rb_get takes the oldest one
\* from the ring; a handler takes the oldest one from the FIFO and puts it into the
\* ring or gives it up; one arrives; one is overrun; mp_uart_init empties the ring.
Stays == UNCHANGED <<Taken, Content, fifo, sent, lost>>
Gets == /\ Content # <<>>
        /\ Taken' = Append(Taken, Head(Content))
        /\ Content' = Tail(Content)
        /\ UNCHANGED <<fifo, sent, lost>>
Serves == /\ fifo # <<>>
          /\ fifo' = Tail(fifo)
          /\ \/ Content' = Append(Content, Head(fifo)) /\ UNCHANGED lost
             \/ lost' = lost \cup {Head(fifo)} /\ UNCHANGED Content
          /\ UNCHANGED <<Taken, sent>>
Arrives == /\ sent' = sent + 1
           /\ fifo' = Append(fifo, sent + 1)
           /\ UNCHANGED <<Taken, Content, lost>>
Overruns == /\ sent' = sent + 1
            /\ lost' = lost \cup {sent + 1}
            /\ UNCHANGED <<Taken, Content, fifo>>
Empties == /\ Content' = <<>>
           /\ lost' = lost \cup Elements(Content)
           /\ UNCHANGED <<Taken, fifo, sent>>
StreamStep == Stays \/ Gets \/ Serves \/ Arrives \/ Overruns \/ Empties

\* A step that leaves the ring alone leaves its content alone.
LEMMA SameContent ==
  ASSUME UNCHANGED <<s_rx_buf, s_rx_head, s_rx_tail>>
  PROVE  Content' = Content
  BY DEF Content, Count, SlotAt

\* rb_put appends the byte or gives it up.
LEMMA PutOrLose ==
  ASSUME TypeOK, TypeOK', NEW b \in Byte \cup {0}, rb_put(b)
  PROVE  \/ Content' = Append(Content, b) /\ lost' = lost
         \/ Content' = Content /\ lost' = lost \cup {b}
  <1>1. CASE rb_next(s_rx_head) = s_rx_tail
    BY <1>1, SameContent DEF rb_put
  <1>2. CASE rb_next(s_rx_head) # s_rx_tail
    <2>1. Count' = Count + 1
      <3>1. /\ s_rx_head \in Slot /\ s_rx_tail \in Slot
            /\ rb_next(s_rx_head) = IF s_rx_head = RxBufSize - 1 THEN 0 ELSE s_rx_head + 1
        BY RbNext DEF TypeOK
      <3>2. s_rx_head' = rb_next(s_rx_head) /\ s_rx_tail' = s_rx_tail
        BY <1>2 DEF rb_put
      <3>3. QED BY <1>2, <3>1, <3>2, RxBufSizeAssumption DEF Count, Slot
    <2>2. Len(Content') = Len(Content) + 1 /\ Len(Content) \in Nat
      <3>1. Len(Content) = Count /\ Count \in Nat BY ContentFacts, RxBufSizeAssumption
      <3>2. Len(Content') = Count'
        <4>1. Count' \in Nat BY <2>1, <3>1
        <4>2. Content' = [i \in 1 .. Count' |-> s_rx_buf'[SlotAt(i - 1)']] BY DEF Content
        <4>3. QED BY <4>1, <4>2
      <3>3. QED BY <2>1, <3>1, <3>2
    <2>3. Content' # Content BY <2>2
    <2>4. Content' = Append(Content, b) BY <2>3, PutContent
    <2>5. QED BY <1>2, <2>4 DEF rb_put
  <1>3. QED BY <1>1, <1>2

\* mp_uart_init gives up exactly what is in the ring.
LEMMA InitHeadEmpties ==
  ASSUME TypeOK, RingInv, InitHead
  PROVE  Empties
  <1>1. s_rx_tail = 0 /\ s_rx_tail' = 0 /\ s_rx_head' = 0 BY DEF InitHead, Goto, RingInv
  <1>2. s_rx_head \in 0 .. RxBufSize - 1 BY DEF TypeOK, Slot
  <1>3. Count' = 0 BY <1>1 DEF Count
  <1>4. Content' = <<>> BY <1>3 DEF Content
  <1>5. Count = s_rx_head BY <1>1, <1>2, RxBufSizeAssumption DEF Count
  <1>6. \A i \in 1 .. Count : SlotAt(i - 1) = i - 1
    BY <1>1, <1>2, <1>5, RxBufSizeAssumption DEF SlotAt
  <1>7. \A i \in 1 .. Count : Content[i] = s_rx_buf[i - 1]
    BY <1>6 DEF Content
  <1>8. DOMAIN Content = 1 .. Count BY DEF Content
  <1>9. Elements(Content) = {s_rx_buf[i] : i \in s_rx_tail .. s_rx_head - 1}
    <2>1. ASSUME NEW e \in Elements(Content)
          PROVE  e \in {s_rx_buf[i] : i \in s_rx_tail .. s_rx_head - 1}
      <3>1. PICK i \in 1 .. Count : e = Content[i] BY <2>1, <1>8 DEF Elements
      <3>2. e = s_rx_buf[i - 1] /\ i - 1 \in s_rx_tail .. s_rx_head - 1
        BY <3>1, <1>1, <1>2, <1>5, <1>7, RxBufSizeAssumption
      <3>3. QED BY <3>2
    <2>2. ASSUME NEW i \in s_rx_tail .. s_rx_head - 1
          PROVE  s_rx_buf[i] \in Elements(Content)
      <3>1. i + 1 \in 1 .. Count /\ (i + 1) - 1 = i BY <1>1, <1>2, <1>5, RxBufSizeAssumption
      <3>2. Content[i + 1] = s_rx_buf[i] BY <3>1, <1>7
      <3>3. QED BY <3>1, <3>2, <1>8 DEF Elements
    <2>3. QED BY <2>1, <2>2
  <1>10. Taken' = Taken BY DEF InitHead, Goto, Taken, Holding, PollPc
  <1>11. QED BY <1>4, <1>9, <1>10 DEF InitHead, Empties, hardware

\* Every step of the receiver is one of these.
LEMMA NextIsStreamStep ==
  TypeOK /\ TypeOK' /\ ArmInv /\ RingInv /\ [Next]_vars => StreamStep
  <1> SUFFICES ASSUME TypeOK, TypeOK', ArmInv, RingInv, [Next]_vars PROVE StreamStep
    OBVIOUS
  <1> USE DEF StreamStep
  <1>1. CASE UNCHANGED vars
    BY <1>1, SameContent DEF vars, ring, foreground, hardware, Taken, Holding, Stays
  <1>2. CASE Foreground
    <2>1. CASE InitHead BY <2>1, InitHeadEmpties
    <2>2. CASE GetAdvance
      <3>1. s_rx_head # s_rx_tail /\ c = s_rx_buf[s_rx_tail]
        BY <2>2 DEF GetAdvance, Goto, RingInv
      <3>2. Content # <<>> /\ Content' = Tail(Content) /\ Head(Content) = c
        BY <2>2, <3>1, GetContent DEF GetAdvance
      <3>3. Taken' = Append(Taken, c)
        BY <2>2 DEF GetAdvance, Goto, Taken, Holding, PollPc
      <3>4. QED BY <2>2, <3>2, <3>3 DEF GetAdvance, Gets, hardware
    <2>3. CASE ~InitHead /\ ~GetAdvance
      <3> USE DEF ring, hardware, Goto, Taken, Holding, PollPc, Stays
      <3>1. CASE UartOpen BY <3>1, SameContent DEF UartOpen
      <3>2. CASE InitTail BY <3>2, SameContent DEF InitTail, RingInv
      <3>3. CASE InitArmed \/ InitNeed BY <3>3, SameContent DEF InitArmed, InitNeed
      <3>4. CASE PollTest
        <4>1. fpc' = ret \/ fpc' = "read_dest" BY <3>4 DEF PollTest
        <4>2. Taken' = Taken BY <3>4, <4>1 DEF PollTest, TypeOK
        <4>3. QED BY <3>4, <4>2, SameContent DEF PollTest
      <3>5. CASE ReadDest \/ ReadBytes \/ PollArmed
        BY <3>5, SameContent DEF ReadDest, ReadBytes, PollArmed
      <3>6. CASE PollNeed BY <3>6, SameContent DEF PollNeed, TypeOK
      <3>7. CASE Banner \/ GetEmpty \/ GetNonEmpty
        BY <3>7, SameContent DEF Banner, GetEmpty, GetNonEmpty
      <3>8. CASE GetRead \/ Wfi BY <3>8, SameContent DEF GetRead, Wfi
      <3>9. CASE Deliver BY <3>9, SameContent DEF Deliver
      <3>10. QED
        BY <1>2, <2>3, <3>1, <3>2, <3>3, <3>4, <3>5, <3>6, <3>7, <3>8, <3>9 DEF Foreground
    <2>4. QED BY <2>1, <2>2, <2>3
  <1>3. CASE Rxi
    <2> USE DEF ring, hardware, foreground, Taken, Holding, PollPc
    <2>1. CASE RxiEnter BY <2>1, SameContent DEF RxiEnter, Wake, Stays
    <2>2. CASE RxiChar BY <2>2, SameContent DEF RxiChar, CallbackOther, Serves
    <2>3. CASE RxiStore
      <3>1. Head(fifo) \in Byte \cup {0} BY <2>3 DEF RxiStore, TypeOK
      <3>2. rb_put(Head(fifo)) BY <2>3 DEF RxiStore, ArmInv, CallbackRxComplete
      <3>3. Taken' = Taken BY <2>3 DEF RxiStore
      <3>4. QED BY <2>3, <3>1, <3>2, <3>3, PutOrLose DEF RxiStore, Serves
    <2>4. CASE RxiExit BY <2>4, SameContent DEF RxiExit, Stays
    <2>5. QED BY <1>3, <2>1, <2>2, <2>3, <2>4 DEF Rxi
  <1>4. CASE Eri
    BY <1>4, SameContent DEF Eri, CallbackOther, Wake, ring, Taken, Holding, PollPc, Stays, Serves
  <1>5. CASE TxEvent
    BY <1>5, SameContent
       DEF TxEvent, CallbackOther, Wake, ring, hardware, Taken, Holding, PollPc, Stays
  <1>6. CASE SysTick
    BY <1>6, SameContent DEF SysTick, Wake, ring, hardware, Taken, Holding, PollPc, Stays
  <1>7. CASE RxWire \/ RxWireError
    BY <1>7, SameContent DEF RxWire, RxWireError, ring, foreground, Taken, Holding, Arrives
  <1>8. CASE RxOverrun
    BY <1>8, SameContent DEF RxOverrun, ring, foreground, Taken, Holding, Overruns
  <1>9. QED BY <1>1, <1>2, <1>3, <1>4, <1>5, <1>6, <1>7, <1>8 DEF Next

\* s is strictly increasing; all of s is below all of u; all of s is at most n.
Increasing(s) == \A i, j \in DOMAIN s : i < j => s[i] < s[j]
Below(s, u) == \A i \in DOMAIN s, j \in DOMAIN u : s[i] < u[j]
AtMost(s, n) == \A i \in DOMAIN s : s[i] <= n

\* The bytes are numbered in the order they were sent: along the way REPL, ring,
\* FIFO the numbers only grow, and none was ever given to a byte not yet sent.
OrderInv ==
  /\ Increasing(Taken) /\ Increasing(Content) /\ Increasing(fifo)
  /\ Below(Taken, Content) /\ Below(Taken, fifo) /\ Below(Content, fifo)
  /\ AtMost(Taken, sent) /\ AtMost(Content, sent) /\ AtMost(fifo, sent)

\* What Append does to the orders.
LEMMA AppendOrder ==
  ASSUME NEW s \in Seq(Nat), NEW u \in Seq(Nat), NEW e \in Nat, NEW n \in Nat
  PROVE  /\ Append(s, e) \in Seq(Nat)
         /\ Increasing(s) /\ (\A i \in DOMAIN s : s[i] < e) => Increasing(Append(s, e))
         /\ Below(s, u) /\ (\A i \in DOMAIN u : e < u[i]) => Below(Append(s, e), u)
         /\ Below(u, s) /\ (\A i \in DOMAIN u : u[i] < e) => Below(u, Append(s, e))
         /\ AtMost(s, n) /\ e <= n => AtMost(Append(s, e), n)
  <1> DEFINE t == Append(s, e)
  <1>1. /\ t \in Seq(Nat) /\ Len(t) = Len(s) + 1 /\ Len(s) \in Nat
        /\ DOMAIN t = 1 .. Len(s) + 1 /\ DOMAIN s = 1 .. Len(s)
        /\ \A i \in DOMAIN s : t[i] = s[i]
        /\ t[Len(s) + 1] = e
    BY AppendProperties
  <1>2. \A i \in DOMAIN t : i \in DOMAIN s \/ i = Len(s) + 1 BY <1>1
  <1> HIDE DEF t
  <1>3. Increasing(s) /\ (\A i \in DOMAIN s : s[i] < e) => Increasing(t)
    <2>1. \A i, j \in DOMAIN t : i < j => i \in DOMAIN s BY <1>1
    <2>2. QED BY <1>1, <1>2, <2>1 DEF Increasing
  <1>4. Below(s, u) /\ (\A i \in DOMAIN u : e < u[i]) => Below(t, u)
    BY <1>1, <1>2 DEF Below
  <1>5. Below(u, s) /\ (\A i \in DOMAIN u : u[i] < e) => Below(u, t)
    BY <1>1, <1>2 DEF Below
  <1>6. AtMost(s, n) /\ e <= n => AtMost(t, n)
    BY <1>1, <1>2 DEF AtMost
  <1>7. QED BY <1>1, <1>3, <1>4, <1>5, <1>6 DEF t

\* Taking the head keeps the orders, and the head is below what follows it.
LEMMA TailOrder ==
  ASSUME NEW s \in Seq(Nat), s # <<>>, NEW u \in Seq(Nat), NEW n \in Nat
  PROVE  /\ Tail(s) \in Seq(Nat) /\ Head(s) \in Nat
         /\ Increasing(s) => Increasing(Tail(s)) /\ (\A i \in DOMAIN Tail(s) : Head(s) < Tail(s)[i])
         /\ Below(s, u) => Below(Tail(s), u) /\ (\A i \in DOMAIN u : Head(s) < u[i])
         /\ Below(u, s) => Below(u, Tail(s)) /\ (\A i \in DOMAIN u : u[i] < Head(s))
         /\ AtMost(s, n) => AtMost(Tail(s), n) /\ Head(s) <= n
  <1> DEFINE t == Tail(s)
             h == Head(s)
  <1>1. /\ t \in Seq(Nat) /\ h \in Nat /\ h = s[1] /\ Len(s) \in Nat /\ Len(s) >= 1
        /\ DOMAIN t = 1 .. Len(s) - 1 /\ DOMAIN s = 1 .. Len(s)
        /\ \A i \in 1 .. Len(s) - 1 : t[i] = s[i + 1]
    <2>1. Len(s) \in Nat /\ Len(s) # 0 BY EmptySeq
    <2>2. QED BY <2>1, HeadTailProperties
  <1>2. \A i \in DOMAIN t : i + 1 \in DOMAIN s /\ 1 < i + 1 /\ t[i] = s[i + 1] /\ i \in Nat
    BY <1>1
  <1>3. 1 \in DOMAIN s BY <1>1
  <1>4. \A i, j \in DOMAIN t : i < j => i + 1 < j + 1 BY <1>1
  <1> HIDE DEF t, h
  <1>5. Increasing(s) => Increasing(t) /\ (\A i \in DOMAIN t : h < t[i])
    BY <1>1, <1>2, <1>3, <1>4 DEF Increasing
  <1>6. Below(s, u) => Below(t, u) /\ (\A i \in DOMAIN u : h < u[i])
    BY <1>1, <1>2, <1>3 DEF Below
  <1>7. Below(u, s) => Below(u, t) /\ (\A i \in DOMAIN u : u[i] < h)
    BY <1>1, <1>2, <1>3 DEF Below
  <1>8. AtMost(s, n) => AtMost(t, n) /\ h <= n
    BY <1>1, <1>2, <1>3 DEF AtMost
  <1>9. QED BY <1>1, <1>5, <1>6, <1>7, <1>8 DEF t, h

\* The three stages of the way are sequences of numbers.
LEMMA StageTypes ==
  ASSUME TypeOK
  PROVE  /\ Taken \in Seq(Nat) /\ Content \in Seq(Nat) /\ fifo \in Seq(Nat)
         /\ sent \in Nat
  <1>1. Byte \subseteq Nat /\ Byte \cup {0} \subseteq Nat BY MaxBytesAssumption DEF Byte
  <1>2. Content \in Seq(Byte \cup {0}) BY ContentFacts
  <1>3. Taken \in Seq(Byte \cup {0}) BY AppendProperties DEF Taken, TypeOK
  <1>4. fifo \in Seq(Byte) BY DEF TypeOK
  <1>5. ASSUME NEW S \in SUBSET Nat, NEW s \in Seq(S) PROVE s \in Seq(Nat)
    BY SeqMonotonic
  <1>6. sent \in Nat BY MaxBytesAssumption DEF TypeOK
  <1>7. QED BY <1>1, <1>2, <1>3, <1>4, <1>5, <1>6

\* Every step of a byte on its way keeps the order.
LEMMA OrderStep ==
  ASSUME TypeOK, OrderInv, StreamStep
  PROVE  OrderInv'
  <1>1. Taken \in Seq(Nat) /\ Content \in Seq(Nat) /\ fifo \in Seq(Nat) /\ sent \in Nat
    BY StageTypes
  <1> USE DEF OrderInv
  <1>2. CASE Stays BY <1>2 DEF Stays
  <1>3. CASE Gets
    BY <1>1, <1>3, AppendOrder, TailOrder DEF Gets
  <1>4. CASE Serves
    <2>1. CASE UNCHANGED Content
      BY <1>1, <1>4, <2>1, TailOrder DEF Serves
    <2>2. CASE Content' = Append(Content, Head(fifo))
      BY <1>1, <1>4, <2>2, AppendOrder, TailOrder DEF Serves
    <2>3. QED BY <1>4, <2>1, <2>2 DEF Serves
  <1>5. CASE Arrives \/ Overruns
    <2>1. \A s \in Seq(Nat) : AtMost(s, sent)
                             => AtMost(s, sent + 1) /\ \A i \in DOMAIN s : s[i] < sent + 1
      BY <1>1, ElementOfSeq DEF AtMost
    <2>2. sent + 1 \in Nat /\ sent' = sent + 1 BY <1>1, <1>5 DEF Arrives, Overruns
    <2>3. CASE Arrives BY <1>1, <2>1, <2>2, <2>3, AppendOrder DEF Arrives
    <2>4. CASE Overruns BY <1>1, <2>1, <2>2, <2>4 DEF Overruns
    <2>5. QED BY <1>5, <2>3, <2>4
  <1>6. CASE Empties
    BY <1>6 DEF Empties, Increasing, Below, AtMost
  <1>7. QED BY <1>2, <1>3, <1>4, <1>5, <1>6 DEF StreamStep

\* For every ring size, FIFO depth and number of bytes the REPL receives bytes in
\* the order they were sent and none twice, whatever handlers and foreground do to
\* the ring between each other's instructions.
THEOREM OrderCorrect == Spec => []InOrder
  <1>1. Init => OrderInv
    <2> SUFFICES ASSUME Init PROVE OrderInv
      OBVIOUS
    <2>1. Content = <<>> BY TypeInit, ContentFacts DEF Init
    <2>2. Taken = <<>> /\ fifo = <<>> BY DEF Init, Taken, Holding, PollPc
    <2>3. QED BY <2>1, <2>2 DEF OrderInv, Increasing, Below, AtMost
  <1>2. TypeOK /\ TypeOK' /\ ArmInv /\ RingInv /\ OrderInv /\ [Next]_vars => OrderInv'
    BY NextIsStreamStep, OrderStep
  <1>3. OrderInv => InOrder BY DEF OrderInv, Increasing, InOrder
  <1>4. QED BY <1>1, <1>2, <1>3, TypeCorrect, ArmAlways, RingAlways, PTL DEF Spec

\* Append adds its element and Tail removes only the head.
LEMMA ElementsOf ==
  ASSUME NEW s \in Seq(Nat), NEW e \in Nat
  PROVE  /\ Elements(Append(s, e)) = Elements(s) \cup {e}
         /\ s # <<>> => Elements(s) \subseteq Elements(Tail(s)) \cup {Head(s)}
  <1>1. Elements(Append(s, e)) = Elements(s) \cup {e}
    <2> DEFINE t == Append(s, e)
    <2>1. /\ DOMAIN t = 1 .. Len(s) + 1 /\ DOMAIN s = 1 .. Len(s) /\ Len(s) \in Nat
          /\ \A i \in DOMAIN s : t[i] = s[i]
          /\ t[Len(s) + 1] = e
      BY AppendProperties
    <2>2. \A i \in DOMAIN t : i \in DOMAIN s \/ i = Len(s) + 1 BY <2>1
    <2>3. \A i \in DOMAIN s : i \in DOMAIN t BY <2>1
    <2>4. Len(s) + 1 \in DOMAIN t BY <2>1
    <2> HIDE DEF t
    <2>5. Elements(t) = Elements(s) \cup {e} BY <2>1, <2>2, <2>3, <2>4 DEF Elements
    <2>6. QED BY <2>5 DEF t
  <1>2. ASSUME s # <<>> PROVE Elements(s) \subseteq Elements(Tail(s)) \cup {Head(s)}
    <2>1. Len(s) \in Nat /\ Len(s) # 0 BY <1>2, EmptySeq
    <2>2. /\ Head(s) = s[1] /\ DOMAIN s = 1 .. Len(s) /\ DOMAIN Tail(s) = 1 .. Len(s) - 1
          /\ \A i \in 1 .. Len(s) - 1 : Tail(s)[i] = s[i + 1]
      BY <1>2, <2>1, HeadTailProperties
    <2>3. ASSUME NEW i \in DOMAIN s PROVE s[i] \in Elements(Tail(s)) \cup {Head(s)}
      <3>1. CASE i = 1 BY <3>1, <2>2
      <3>2. CASE i # 1
        <4>1. i - 1 \in DOMAIN Tail(s) /\ (i - 1) + 1 = i BY <3>2, <2>1, <2>2
        <4>2. Tail(s)[i - 1] = s[i] BY <4>1, <2>2
        <4>3. QED BY <4>1, <4>2 DEF Elements
      <3>3. QED BY <3>1, <3>2
    <2>4. QED BY <2>3 DEF Elements
  <1>3. QED BY <1>1, <1>2

\* No step of a byte on its way makes it vanish.
LEMMA VanishStep ==
  ASSUME TypeOK, NothingVanishes, StreamStep
  PROVE  NothingVanishes'
  <1>1. Taken \in Seq(Nat) /\ Content \in Seq(Nat) /\ fifo \in Seq(Nat) /\ sent \in Nat
    BY StageTypes
  <1>2. /\ Content # <<>> => Head(Content) \in Nat
        /\ fifo # <<>> => Head(fifo) \in Nat
    BY <1>1, TailOrder
  <1>3. 1 .. sent + 1 = (1 .. sent) \cup {sent + 1} BY <1>1
  <1>4. sent + 1 \in Nat BY <1>1
  <1> USE DEF NothingVanishes
  <1>5. CASE Stays BY <1>5 DEF Stays
  <1>6. CASE Gets
    <2>1. /\ Elements(Taken') = Elements(Taken) \cup {Head(Content)}
          /\ Elements(Content) \subseteq Elements(Content') \cup {Head(Content)}
      BY <1>1, <1>2, <1>6, ElementsOf DEF Gets
    <2>2. QED BY <1>6, <2>1 DEF Gets
  <1>7. CASE Serves
    <2>1. Elements(fifo) \subseteq Elements(fifo') \cup {Head(fifo)}
      BY <1>1, <1>2, <1>7, ElementsOf DEF Serves
    <2>2. Elements(Append(Content, Head(fifo))) = Elements(Content) \cup {Head(fifo)}
      BY <1>1, <1>2, <1>7, ElementsOf DEF Serves
    <2>3. QED BY <1>7, <2>1, <2>2 DEF Serves
  <1>8. CASE Arrives
    <2>1. Elements(fifo') = Elements(fifo) \cup {sent + 1}
      BY <1>1, <1>4, <1>8, ElementsOf DEF Arrives
    <2>2. 1 .. sent' = (1 .. sent) \cup {sent + 1} BY <1>3, <1>8 DEF Arrives
    <2>3. QED BY <1>8, <2>1, <2>2 DEF Arrives
  <1>9. CASE Overruns
    <2>1. 1 .. sent' = (1 .. sent) \cup {sent + 1} BY <1>3, <1>9 DEF Overruns
    <2>2. QED BY <1>9, <2>1 DEF Overruns
  <1>10. CASE Empties BY <1>10 DEF Empties, Elements
  <1>11. QED BY <1>5, <1>6, <1>7, <1>8, <1>9, <1>10 DEF StreamStep

\* For every ring size, FIFO depth and number of bytes, a byte that was on the wire
\* is under way, with the REPL or accounted for as given up: no interleaving of the
\* handlers with rb_get, mp_uart_init or the arming of a read makes one disappear.
THEOREM NothingVanishesCorrect == Spec => []NothingVanishes
  <1>1. Init => NothingVanishes
    BY DEF Init, NothingVanishes
  <1>2. TypeOK /\ TypeOK' /\ ArmInv /\ RingInv /\ NothingVanishes /\ [Next]_vars
        => NothingVanishes'
    BY NextIsStreamStep, VanishStep
  <1>3. QED BY <1>1, <1>2, TypeCorrect, ArmAlways, RingAlways, PTL DEF Spec

=============================================================================
