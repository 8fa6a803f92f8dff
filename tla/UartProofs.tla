------------------------------ MODULE UartProofs ------------------------------
(***************************************************************************)
(* Proofs about machine.UART: its receive ring (UartRing) and its objects  *)
(* (UartObj).                                                              *)
(*                                                                         *)
(* The ring, for every size of at least 2, any set of line ends and any    *)
(* number of bytes and reads: CtlInv ties ringbuf_get's index to the slot  *)
(* it reads, whichever way the build orders and merges its accesses, and   *)
(* makes the types inductive.  RingInv and CountInv hold until the ring is *)
(* lapped; with them every step is a step of ByteFifo.                     *)
(*                                                                         *)
(* The objects, for any set of them, every FIFO depth and every length of  *)
(* a write: as long as init() does not take the UART from another object,  *)
(* OwnerInv says which object is open and what the driver knows of it at   *)
(* each position of a method, and TxInv what the transmission flag means.  *)
(***************************************************************************)
EXTENDS UartObj, UartRing, SequenceTheorems, TLAPS

-----------------------------------------------------------------------------
(* The receive ring *)

\* The remainder of a number below twice the size.
LEMMA ModSize ==
  ASSUME NEW x \in 0 .. 2 * Size - 1
  PROVE  /\ x % Size \in Slot
         /\ x % Size = IF x < Size THEN x ELSE x - Size
  <1>1. CASE x < Size BY <1>1, SizeAssumption DEF Slot
  <1>2. CASE x >= Size
    <2> DEFINE y == x - Size
    <2>1. y \in 0 .. Size - 1 /\ x = y + Size BY <1>2, SizeAssumption
    <2>2. y % Size = y BY <2>1, SizeAssumption
    <2>3. (y + Size) % Size = y % Size BY <2>1, SizeAssumption
    <2>4. QED BY <1>2, <2>1, <2>2, <2>3, SizeAssumption DEF Slot
  <1>3. QED BY <1>1, <1>2, SizeAssumption

\* ringbuf_avail without the remainder, with iget in range or not.
LEMMA Avail ==
  ASSUME NEW g \in 0 .. Size, NEW p \in Slot
  PROVE  /\ (Size + p - g) % Size \in Slot
         /\ (Size + p - g) % Size = IF p >= g THEN p - g ELSE Size + p - g
  <1> DEFINE x == Size + p - g
  <1>1. x \in 0 .. 2 * Size - 1 /\ (x < Size <=> ~(p >= g)) /\ x - Size = p - g
    BY SizeAssumption DEF Slot
  <1> HIDE DEF x
  <1>2. x % Size \in Slot /\ x % Size = IF x < Size THEN x ELSE x - Size BY <1>1, ModSize
  <1>3. x % Size = IF p >= g THEN p - g ELSE x BY <1>1, <1>2, SizeAssumption
  <1>4. QED BY <1>2, <1>3 DEF x

-----------------------------------------------------------------------------
(* Types, and where ringbuf_get is *)

\* The accesses still to do say where iget is relative to the slot being read, and
\* a method that is not done wants at least one byte.
CtlInv ==
  /\ rpc # "body" => todo = {}
  /\ rpc = "body" /\ "bump" \in todo => iget = at
  /\ rpc = "body" /\ "bump" \notin todo => iget = IF "wrap" \in todo THEN at + 1 ELSE Wrap(at + 1)
  /\ rpc # "idle" => left >= 1

\* The initial state.
LEMMA TypeInit == RingInit => RingTypeOK /\ CtlInv
  <1> SUFFICES ASSUME RingInit PROVE RingTypeOK /\ CtlInv
    OBVIOUS
  <1>1. 0 \in Slot /\ 0 \in 0 .. Size /\ 0 \in 0 .. MaxBytes /\ 0 \in 0 .. MaxReads
    BY SizeAssumption, RingBounds DEF Slot
  <1>2. buf \in [Slot -> Byte \cup {0}] /\ lapped \in BOOLEAN
    BY DEF RingInit
  <1>3. out \in Seq(Byte \cup {0}) /\ taken \in Seq(Byte \cup {0}) /\ accepted \in Seq(Byte)
    BY DEF RingInit
  <1>4. /\ iget = 0 /\ iput = 0 /\ rpc = "idle" /\ op = "none" /\ left = 0 /\ todo = {} /\ at = 0
        /\ v = 0 /\ promised = 0 /\ received = 0 /\ reads = 0
    BY DEF RingInit
  <1>5. RingTypeOK BY <1>1, <1>2, <1>3, <1>4 DEF RingTypeOK, Slot
  <1>6. CtlInv BY <1>4 DEF CtlInv
  <1>7. QED BY <1>5, <1>6

\* The handler.
LEMMA TypeCallback ==
  ASSUME RingTypeOK, CtlInv, uart1_callback
  PROVE  RingTypeOK' /\ CtlInv'
  <1>1. /\ rpc' = rpc /\ todo' = todo /\ at' = at /\ v' = v /\ op' = op /\ left' = left
        /\ out' = out /\ promised' = promised /\ reads' = reads /\ taken' = taken /\ iget' = iget
    BY DEF uart1_callback, ringbuf_put, get, method
  <1>2. received' \in 0 .. MaxBytes /\ received' \in Byte
    BY RingBounds DEF uart1_callback, RingTypeOK, Byte
  <1>3. lapped' \in BOOLEAN BY DEF uart1_callback
  <1>4. /\ buf' \in [Slot -> Byte \cup {0}] /\ iput' \in Slot /\ accepted' \in Seq(Byte)
    <2>1. CASE Wrap(iput + 1) = iget
      BY <2>1 DEF uart1_callback, ringbuf_put, RingTypeOK
    <2>2. CASE Wrap(iput + 1) # iget
      <3>1. Wrap(iput + 1) \in Slot BY SizeAssumption DEF RingTypeOK, Wrap, Slot
      <3>2. Append(accepted, received') \in Seq(Byte) BY <1>2, AppendProperties DEF RingTypeOK
      <3>3. QED BY <1>2, <2>2, <3>1, <3>2 DEF uart1_callback, ringbuf_put, RingTypeOK
    <2>3. QED BY <2>1, <2>2
  <1>5. RingTypeOK' BY <1>1, <1>2, <1>3, <1>4 DEF RingTypeOK
  <1>6. CtlInv' BY <1>1 DEF CtlInv
  <1>7. QED BY <1>5, <1>6

\* A method starts.
LEMMA TypeBegin ==
  ASSUME RingTypeOK, CtlInv, NEW n \in 0 .. Size - 1, NEW name \in {"read", "readinto", "readline"},
         Begin(name, n)
  PROVE  RingTypeOK' /\ CtlInv'
  <1>1. reads' \in 0 .. MaxReads BY RingBounds DEF Begin, RingTypeOK
  <1>2. n \in 0 .. Size BY SizeAssumption
  <1>3. out' \in Seq(Byte \cup {0}) BY DEF Begin
  <1>4. rpc = "idle" /\ rpc' \in {"idle", "get"} /\ todo' = todo /\ (rpc' # "idle" => left' >= 1)
    BY <1>2, SizeAssumption DEF Begin, get
  <1>5. RingTypeOK' BY <1>1, <1>2, <1>3, <1>4 DEF Begin, RingTypeOK, ringbuf, get, stream
  <1>6. CtlInv' BY <1>4 DEF CtlInv
  <1>7. QED BY <1>5, <1>6

\* Every call of a method is a Begin, with no more than what is available.
LEMMA MethodBegins ==
  ASSUME RingTypeOK, ReadMethod
  PROVE  \E n \in 0 .. Size - 1, name \in {"read", "readinto", "readline"} :
           Begin(name, n) /\ n <= ringbuf_avail
  <1>1. ringbuf_avail \in 0 .. Size - 1
    <2>1. iget \in 0 .. Size /\ iput \in Slot BY SizeAssumption DEF RingTypeOK
    <2>2. QED BY <2>1, Avail DEF ringbuf_avail, Slot
  <1> HIDE DEF ringbuf_avail
  <1>2. CASE ReadAll BY <1>1, <1>2 DEF ReadAll
  <1>3. ASSUME NEW req \in 0 .. Size, uart_obj_read(req)
        PROVE  \E n \in 0 .. Size - 1 : Begin("read", n) /\ n <= ringbuf_avail
    BY <1>1, <1>3, SizeAssumption DEF uart_obj_read, Least
  <1>4. ASSUME NEW req \in 0 .. Size, uart_obj_readinto(Size - 1, req)
        PROVE  \E n \in 0 .. Size - 1 : Begin("readinto", n) /\ n <= ringbuf_avail
    BY <1>1, <1>4, SizeAssumption DEF uart_obj_readinto, Least
  <1>5. CASE uart_obj_readline BY <1>1, <1>5, SizeAssumption DEF uart_obj_readline
  <1>6. QED BY <1>2, <1>3, <1>4, <1>5 DEF ReadMethod

\* ringbuf_get.
LEMMA TypeGet ==
  ASSUME RingTypeOK, CtlInv, ringbuf_get
  PROVE  RingTypeOK' /\ CtlInv'
  <1> USE DEF RingTypeOK, CtlInv, ringbuf, get, method, stream, Slot
  <1>1. CASE GetStart BY <1>1, SizeAssumption DEF GetStart
  <1>2. CASE GetEmpty
    <2>1. taken' \in Seq(Byte \cup {0}) BY <1>2, ConcatProperties DEF GetEmpty
    <2>2. QED BY <1>2, <2>1 DEF GetEmpty
  <1>3. CASE GetLoad
    <2>1. v' \in Byte \cup {0} BY <1>3 DEF GetLoad
    <2>2. todo' \subseteq {"load", "bump", "wrap"} /\ ("wrap" \in todo' <=> "wrap" \in todo)
          /\ ("bump" \in todo' <=> "bump" \in todo)
      BY <1>3 DEF GetLoad
    <2>3. QED BY <1>3, <2>1, <2>2 DEF GetLoad
  <1>4. CASE GetBump
    <2>1. todo' \subseteq {"load", "bump", "wrap"} /\ ("wrap" \in todo' <=> "wrap" \in todo)
          /\ "bump" \notin todo'
      BY <1>4 DEF GetBump
    <2>2. QED BY <1>4, <2>1, SizeAssumption DEF GetBump, Wrap
  <1>5. CASE GetWrap
    <2>1. todo' \subseteq {"load", "bump", "wrap"} /\ "wrap" \notin todo' /\ "bump" \notin todo'
      BY <1>5 DEF GetWrap
    <2>2. iget = at + 1 BY <1>5 DEF GetWrap
    <2>3. QED BY <1>5, <2>1, <2>2, SizeAssumption DEF GetWrap, Wrap
  <1>6. CASE GetDone
    <2>1. out' \in Seq(Byte \cup {0}) BY <1>6, AppendProperties DEF GetDone
    <2>2. taken' \in Seq(Byte \cup {0}) BY <1>6, <2>1, ConcatProperties DEF GetDone
    <2>3. /\ UNCHANGED <<buf, iget, iput, todo, at, v, op, promised, reads>>
          /\ UNCHANGED <<received, accepted, lapped>>
          /\ rpc = "body" /\ todo = {}
      BY <1>6 DEF GetDone
    <2>4. left' \in 0 .. Size /\ rpc' \in {"idle", "get"} /\ (rpc' # "idle" => left' >= 1)
      BY <1>6, SizeAssumption DEF GetDone, Another
    <2>5. QED BY <2>1, <2>2, <2>3, <2>4
  <1>7. QED BY <1>1, <1>2, <1>3, <1>4, <1>5, <1>6 DEF ringbuf_get

\* Every step.
LEMMA TypeNext == RingTypeOK /\ CtlInv /\ [RingNext]_ringVars => RingTypeOK' /\ CtlInv'
  <1> SUFFICES ASSUME RingTypeOK, CtlInv, [RingNext]_ringVars PROVE RingTypeOK' /\ CtlInv'
    OBVIOUS
  <1>1. CASE UNCHANGED ringVars
    BY <1>1 DEF RingTypeOK, CtlInv, ringVars, ringbuf, get, method, stream
  <1>2. CASE uart1_callback BY <1>2, TypeCallback
  <1>3. CASE ReadMethod BY <1>3, MethodBegins, TypeBegin
  <1>4. CASE ringbuf_get BY <1>4, TypeGet
  <1>5. QED BY <1>1, <1>2, <1>3, <1>4 DEF RingNext

\* Types and control are invariants.
LEMMA CtlAlways == RingSpec => [](RingTypeOK /\ CtlInv)
  BY TypeInit, TypeNext, PTL DEF RingSpec

\* For every ring size the indices of ringbuf_t stay inside the buffer, but for
\* iget between the two stores of ringbuf_get, lapped ring or not.
THEOREM RingTypeCorrect == RingSpec => []RingTypeOK
  BY CtlAlways, PTL

-----------------------------------------------------------------------------
(* The ring as a queue *)

\* Until the ring is lapped: the slot ringbuf_get is about to read is in use until
\* the index is bumped, and the byte it loaded early is still there.
RingInv ==
  lapped = FALSE =>
    /\ rpc = "body" /\ "bump" \in todo => iget # iput
    /\ rpc = "body" /\ "bump" \in todo /\ "load" \notin todo => v = buf[at]

\* How many bytes the ring holds, and in which slots.
SlotAt(i) == IF iget + i < Size THEN iget + i ELSE iget + i - Size

ContentOK ==
  /\ iget \in 0 .. Size /\ iput \in Slot
  /\ ringbuf_avail \in 0 .. Size - 1
  /\ ringbuf_avail = IF iput >= iget THEN iput - iget ELSE Size + iput - iget
  /\ \A i \in 0 .. Size - 1 : SlotAt(i) \in Slot
  /\ Content \in Seq(Byte \cup {0})
  /\ Len(Content) = ringbuf_avail
  /\ \A i \in 1 .. ringbuf_avail : Content[i] = buf[SlotAt(i - 1)]

\* So it is in every well typed state.
LEMMA ContentFacts == RingTypeOK => ContentOK
  <1> SUFFICES ASSUME RingTypeOK PROVE ContentOK
    OBVIOUS
  <1>1. iget \in 0 .. Size /\ iput \in Slot BY SizeAssumption DEF RingTypeOK
  <1>2. /\ ringbuf_avail \in 0 .. Size - 1
        /\ ringbuf_avail = IF iput >= iget THEN iput - iget ELSE Size + iput - iget
    BY <1>1, Avail DEF ringbuf_avail, Slot
  <1>3. ASSUME NEW i \in 0 .. Size - 1
        PROVE  SlotAt(i) \in Slot /\ (iget + (i + 1) - 1) % Size = SlotAt(i)
    <2> DEFINE x == iget + i
    <2>1. x \in 0 .. 2 * Size - 1 /\ iget + (i + 1) - 1 = x /\ iget + i = x
      BY <1>1, SizeAssumption
    <2> HIDE DEF x
    <2>2. x % Size \in Slot /\ x % Size = IF x < Size THEN x ELSE x - Size BY <2>1, ModSize
    <2>3. SlotAt(i) = IF x < Size THEN x ELSE x - Size
      BY <1>1, <2>1, SizeAssumption DEF SlotAt
    <2>4. x % Size = SlotAt(i) BY <2>2, <2>3
    <2>5. QED BY <2>1, <2>2, <2>4
  <1> HIDE DEF ringbuf_avail
  <1>4. ASSUME NEW i \in 1 .. ringbuf_avail
        PROVE  /\ buf[(iget + i - 1) % Size] = buf[SlotAt(i - 1)]
               /\ buf[SlotAt(i - 1)] \in Byte \cup {0}
    <2>1. i - 1 \in 0 .. Size - 1 /\ (i - 1) + 1 = i BY <1>2, SizeAssumption
    <2>2. SlotAt(i - 1) \in Slot /\ (iget + i - 1) % Size = SlotAt(i - 1) BY <1>3, <2>1
    <2>3. QED BY <2>2 DEF RingTypeOK
  <1>5. ringbuf_avail \in Nat BY <1>2, SizeAssumption
  <1>6. Content = [i \in 1 .. ringbuf_avail |-> buf[SlotAt(i - 1)]] BY <1>4 DEF Content
  <1>7. Content \in Seq(Byte \cup {0}) /\ Len(Content) = ringbuf_avail
    BY <1>4, <1>5, <1>6
  <1>8. QED BY <1>1, <1>2, <1>3, <1>6, <1>7 DEF ContentOK

\* The handler appends to the queue or, when it is full, leaves it alone.
LEMMA PutContent ==
  ASSUME RingTypeOK, RingTypeOK', uart1_callback, lapped' = FALSE
  PROVE  \/ Content' = Content /\ ringbuf_avail' = ringbuf_avail /\ accepted' = accepted
         \/ /\ Len(Content) < Size - 1 /\ Content' = Append(Content, received')
            /\ ringbuf_avail' = ringbuf_avail + 1
            /\ accepted' = Append(accepted, received')
  <1>1. ContentOK BY ContentFacts
  <1>2. ContentOK' BY ContentFacts, PTL
  <1>3. iget' = iget BY DEF uart1_callback, ringbuf_put
  <1>4. CASE Wrap(iput + 1) = iget
    BY <1>4 DEF uart1_callback, ringbuf_put, Content, ringbuf_avail
  <1>5. CASE Wrap(iput + 1) # iget
    <2>1. /\ buf' = [buf EXCEPT ![iput] = received']
          /\ iput' = Wrap(iput + 1)
          /\ accepted' = Append(accepted, received')
      BY <1>5 DEF uart1_callback, ringbuf_put
    <2>2. ~(iget = Size /\ Wrap(iput + 1) = 0)
      BY DEF uart1_callback, RingTypeOK
    <2> DEFINE n == ringbuf_avail
    <2>3. n \in Nat /\ n < Size - 1 /\ n' = n + 1
      <3>1. /\ iget \in 0 .. Size /\ iput \in Slot
            /\ n = IF iput >= iget THEN iput - iget ELSE Size + iput - iget
            /\ n' = IF iput' >= iget' THEN iput' - iget' ELSE Size + iput' - iget'
        BY <1>1, <1>2 DEF ContentOK
      <3> HIDE DEF n
      <3>2. QED BY <1>3, <1>5, <2>1, <2>2, <3>1, SizeAssumption DEF Wrap, Slot
    <2>4. SlotAt(n) = iput /\ \A i \in 0 .. n - 1 : SlotAt(i) # iput
      BY <1>1, <2>3, SizeAssumption DEF ContentOK, SlotAt, Slot
    <2>5. \A i \in 0 .. Size - 1 : SlotAt(i)' = SlotAt(i) BY <1>3 DEF SlotAt
    <2>6. received' \in Byte \cup {0} BY RingBounds DEF RingTypeOK, uart1_callback, Byte
    <2> HIDE DEF n
    <2>7. /\ Append(Content, received') \in Seq(Byte \cup {0})
          /\ Len(Append(Content, received')) = n + 1
          /\ \A i \in 1 .. n : Append(Content, received')[i] = Content[i]
          /\ Append(Content, received')[n + 1] = received'
      BY <1>1, <2>3, <2>6, AppendProperties DEF ContentOK, n
    <2>8. Content' \in Seq(Byte \cup {0}) /\ Len(Content') = n + 1
      BY <1>2, <2>3 DEF ContentOK, n
    <2>9. ASSUME NEW i \in 1 .. n + 1 PROVE Content'[i] = Append(Content, received')[i]
      <3>1. i \in 1 .. n' /\ i - 1 \in 0 .. Size - 1 BY <2>3, SizeAssumption
      <3>2. Content'[i] = buf'[SlotAt(i - 1)'] BY <1>2, <3>1 DEF ContentOK, n
      <3>3. SlotAt(i - 1)' = SlotAt(i - 1) /\ SlotAt(i - 1) \in Slot
        BY <1>1, <2>5, <3>1 DEF ContentOK
      <3>4. CASE i = n + 1
        <4>1. i - 1 = n BY <3>4, <2>3
        <4>2. SlotAt(i - 1) = iput BY <4>1, <2>4
        <4>3. QED BY <2>1, <2>7, <3>2, <3>3, <3>4, <4>2 DEF RingTypeOK
      <3>5. CASE i # n + 1
        <4>1. i - 1 \in 0 .. n - 1 /\ i \in 1 .. n BY <3>5, <2>3
        <4>2. SlotAt(i - 1) # iput BY <4>1, <2>4
        <4>3. Content[i] = buf[SlotAt(i - 1)] BY <4>1, <1>1 DEF ContentOK, n
        <4>4. QED BY <2>1, <2>7, <3>2, <3>3, <4>1, <4>2, <4>3 DEF RingTypeOK
      <3>6. QED BY <3>4, <3>5
    <2>10. Content' = Append(Content, received') BY <2>7, <2>8, <2>9, SeqEqual
    <2>11. Len(Content) < Size - 1 BY <1>1, <2>3 DEF ContentOK, n
    <2>12. QED BY <2>1, <2>3, <2>10, <2>11 DEF n
  <1>6. QED BY <1>4, <1>5

\* ringbuf_get's store of the index takes the oldest byte out of the queue.
LEMMA BumpContent ==
  ASSUME RingTypeOK, RingTypeOK', CtlInv, GetBump, iget # iput
  PROVE  /\ Content # <<>>
         /\ Content' = Tail(Content)
         /\ Head(Content) = buf[at]
         /\ ringbuf_avail >= 1 /\ ringbuf_avail' = ringbuf_avail - 1
  <1>1. ContentOK BY ContentFacts
  <1>2. ContentOK' BY ContentFacts, PTL
  <1>3. /\ iget = at /\ buf' = buf /\ iput' = iput /\ at \in Slot
        /\ iget' = at + 1 \/ iget' = Wrap(at + 1)
    BY DEF GetBump, CtlInv, RingTypeOK
  <1> DEFINE n == ringbuf_avail
  <1>4. n \in 1 .. Size - 1 /\ n' = n - 1
    <2>1. /\ iput \in Slot
          /\ n = IF iput >= iget THEN iput - iget ELSE Size + iput - iget
          /\ n' = IF iput' >= iget' THEN iput' - iget' ELSE Size + iput' - iget'
      BY <1>1, <1>2 DEF ContentOK
    <2> HIDE DEF n
    <2>2. QED BY <1>3, <2>1, SizeAssumption DEF Wrap, Slot
  <1>5. SlotAt(0) = at /\ \A i \in 0 .. Size - 2 : SlotAt(i)' = SlotAt(i + 1)
    BY <1>3, SizeAssumption DEF SlotAt, Slot, Wrap
  <1> HIDE DEF n
  <1>6. Content \in Seq(Byte \cup {0}) /\ Len(Content) = n BY <1>1 DEF ContentOK, n
  <1>7. Content # <<>> BY <1>4, <1>6, SizeAssumption
  <1>8. Head(Content) = buf[at]
    <2>1. Head(Content) = Content[1] BY <1>6, <1>7, HeadTailProperties
    <2>2. 1 \in 1 .. n /\ 1 - 1 = 0 BY <1>4, SizeAssumption
    <2>3. Content[1] = buf[SlotAt(1 - 1)] BY <1>1, <2>2 DEF ContentOK, n
    <2>4. QED BY <2>1, <2>2, <2>3, <1>5
  <1>9. /\ Tail(Content) \in Seq(Byte \cup {0})
        /\ Len(Tail(Content)) = n - 1
        /\ \A i \in 1 .. n - 1 : Tail(Content)[i] = Content[i + 1]
    BY <1>6, <1>7, HeadTailProperties
  <1>10. Content' \in Seq(Byte \cup {0}) /\ Len(Content') = n - 1
    BY <1>2, <1>4 DEF ContentOK, n
  <1>11. ASSUME NEW i \in 1 .. n - 1 PROVE Content'[i] = Tail(Content)[i]
    <2>1. /\ i \in 1 .. n' /\ i - 1 \in 0 .. Size - 2 /\ i + 1 \in 1 .. n
          /\ (i + 1) - 1 = i /\ (i - 1) + 1 = i
      BY <1>4, SizeAssumption
    <2>2. Content'[i] = buf'[SlotAt(i - 1)'] BY <1>2, <2>1 DEF ContentOK, n
    <2>3. SlotAt(i - 1)' = SlotAt(i) BY <1>5, <2>1
    <2>4. Content[i + 1] = buf[SlotAt((i + 1) - 1)] BY <1>1, <2>1 DEF ContentOK, n
    <2>5. QED BY <1>3, <1>9, <2>1, <2>2, <2>3, <2>4
  <1>12. Content' = Tail(Content) BY <1>9, <1>10, <1>11, SeqEqual
  <1>13. n >= 1 BY <1>4, SizeAssumption
  <1>14. QED BY <1>4, <1>7, <1>8, <1>12, <1>13 DEF n

\* The second store of the index, when there is one, leaves the queue alone.
LEMMA WrapContent ==
  ASSUME RingTypeOK, RingTypeOK', CtlInv, GetWrap
  PROVE  Content' = Content /\ ringbuf_avail' = ringbuf_avail
  <1>1. ContentOK BY ContentFacts
  <1>2. ContentOK' BY ContentFacts, PTL
  <1>3. iget = at + 1 /\ at \in Slot /\ buf' = buf /\ iput' = iput /\ iget' = Wrap(iget)
    BY DEF GetWrap, CtlInv, RingTypeOK
  <1> DEFINE n == ringbuf_avail
  <1>4. n \in 0 .. Size - 1 /\ n' = n
    <2>1. /\ iput \in Slot
          /\ n = IF iput >= iget THEN iput - iget ELSE Size + iput - iget
          /\ n' = IF iput' >= iget' THEN iput' - iget' ELSE Size + iput' - iget'
      BY <1>1, <1>2 DEF ContentOK
    <2> HIDE DEF n
    <2>2. QED BY <1>3, <2>1, SizeAssumption DEF Wrap, Slot
  <1>5. \A i \in 0 .. Size - 1 : SlotAt(i)' = SlotAt(i)
    BY <1>3, SizeAssumption DEF SlotAt, Slot, Wrap
  <1> HIDE DEF n
  <1>6. /\ Content \in Seq(Byte \cup {0}) /\ Len(Content) = n
        /\ Content' \in Seq(Byte \cup {0}) /\ Len(Content') = n
    BY <1>1, <1>2, <1>4 DEF ContentOK, n
  <1>7. ASSUME NEW i \in 1 .. n PROVE Content'[i] = Content[i]
    <2>1. i \in 1 .. n' /\ i - 1 \in 0 .. Size - 1 BY <1>4, SizeAssumption
    <2>2. Content'[i] = buf'[SlotAt(i - 1)'] BY <1>2, <2>1 DEF ContentOK, n
    <2>3. Content[i] = buf[SlotAt(i - 1)] BY <1>1 DEF ContentOK, n
    <2>4. QED BY <1>3, <1>5, <2>1, <2>2, <2>3
  <1>8. Content' = Content BY <1>6, <1>7, SeqEqual
  <1>9. QED BY <1>4, <1>8 DEF n

\* The handler does not touch the slot ringbuf_get is at, not even once the index is
\* past it and the byte not yet loaded: that slot is the one a full ring keeps free.
LEMMA PutKeepsSlot ==
  ASSUME RingTypeOK, CtlInv, RingInv, uart1_callback, lapped' = FALSE, rpc = "body"
  PROVE  /\ buf'[at] = buf[at]
         /\ iget # iput => iget' # iput'
  <1>1. lapped = FALSE /\ ~(iget = Size /\ Wrap(iput + 1) = 0)
    BY DEF uart1_callback, RingTypeOK
  <1>2. iget' = iget /\ iput \in Slot /\ at \in Slot BY DEF uart1_callback, ringbuf_put, RingTypeOK
  <1>3. CASE Wrap(iput + 1) = iget
    BY <1>2, <1>3 DEF uart1_callback, ringbuf_put
  <1>4. CASE Wrap(iput + 1) # iget
    <2>1. iput' = Wrap(iput + 1) /\ buf' = [buf EXCEPT ![iput] = received']
      BY <1>4 DEF uart1_callback, ringbuf_put
    <2>2. at # iput
      <3>1. CASE "bump" \in todo BY <1>1, <3>1 DEF RingInv, CtlInv
      <3>2. CASE "bump" \notin todo
        <4>1. iget = at + 1 \/ iget = Wrap(at + 1) BY <3>2 DEF CtlInv
        <4>2. QED BY <1>1, <1>2, <1>4, <4>1, SizeAssumption DEF Wrap, Slot
      <3>3. QED BY <3>1, <3>2
    <2>3. QED BY <1>2, <1>4, <2>1, <2>2 DEF RingTypeOK
  <1>5. QED BY <1>3, <1>4

\* A ring that was not lapped after a step was not lapped before it.
LEMMA LappedStays ==
  ASSUME RingTypeOK, [RingNext]_ringVars, lapped' = FALSE
  PROVE  lapped = FALSE
  <1>1. CASE uart1_callback BY <1>1 DEF uart1_callback, RingTypeOK
  <1>2. CASE ReadMethod BY <1>2, MethodBegins DEF Begin, stream
  <1>3. CASE ringbuf_get
    BY <1>3 DEF ringbuf_get, GetStart, GetEmpty, GetLoad, GetBump, GetWrap, GetDone, stream
  <1>4. CASE UNCHANGED ringVars BY <1>4 DEF ringVars, stream
  <1>5. QED BY <1>1, <1>2, <1>3, <1>4 DEF RingNext

\* Every step keeps RingInv.
LEMMA RingInvNext == RingTypeOK /\ CtlInv /\ RingInv /\ [RingNext]_ringVars => RingInv'
  <1> SUFFICES ASSUME RingTypeOK, CtlInv, RingInv, [RingNext]_ringVars, lapped' = FALSE
               PROVE  RingInv'
    BY DEF RingInv
  <1>1. lapped = FALSE BY LappedStays
  <1>2. CASE uart1_callback
    <2>1. rpc' = rpc /\ todo' = todo /\ at' = at /\ v' = v BY <1>2 DEF uart1_callback, get
    <2>2. QED BY <1>1, <1>2, <2>1, PutKeepsSlot DEF RingInv
  <1>3. CASE ReadMethod
    <2>1. rpc' # "body"
      <3>1. PICK n \in 0 .. Size - 1, name \in {"read", "readinto", "readline"} : Begin(name, n)
        BY <1>3, MethodBegins
      <3>2. QED BY <3>1 DEF Begin
    <2>2. QED BY <2>1 DEF RingInv
  <1>4. CASE UNCHANGED ringVars BY <1>4 DEF ringVars, ringbuf, get, stream, RingInv
  <1>5. CASE ringbuf_get
    <2> USE DEF RingInv, ringbuf, get
    <2>1. CASE GetStart BY <2>1 DEF GetStart
    <2>2. CASE GetEmpty BY <2>2 DEF GetEmpty
    <2>3. CASE GetLoad BY <1>1, <2>3 DEF GetLoad
    <2>4. CASE GetBump BY <2>4 DEF GetBump
    <2>5. CASE GetWrap BY <2>5 DEF GetWrap
    <2>6. CASE GetDone BY <2>6 DEF GetDone
    <2>7. QED BY <1>5, <2>1, <2>2, <2>3, <2>4, <2>5, <2>6 DEF ringbuf_get
  <1>6. QED BY <1>2, <1>3, <1>4, <1>5 DEF RingNext

\* RingInv is an invariant.
LEMMA RingAlways == RingSpec => []RingInv
  <1>1. RingInit => RingInv BY DEF RingInit, RingInv
  <1>2. RingTypeOK /\ CtlInv /\ RingInv /\ [RingNext]_ringVars => RingInv' BY RingInvNext
  <1>3. QED BY <1>1, <1>2, CtlAlways, PTL DEF RingSpec

-----------------------------------------------------------------------------
(* The way of a byte *)

\* What a step may do to the bytes, until the ring is lapped: nothing, the handler
\* puts one in, or ringbuf_get takes the oldest out.
Keeps == UNCHANGED <<Content, GivenOrHeld, accepted, ringbuf_avail>>
Puts == /\ Len(Content) < Size - 1
        /\ Content' = Append(Content, received') /\ received' \in Byte
        /\ accepted' = Append(accepted, received')
        /\ ringbuf_avail' = ringbuf_avail + 1
        /\ UNCHANGED GivenOrHeld
Takes == /\ Content # <<>>
         /\ Content' = Tail(Content)
         /\ GivenOrHeld' = Append(GivenOrHeld, Head(Content))
         /\ ringbuf_avail' = ringbuf_avail - 1
         /\ UNCHANGED accepted

\* The handler.
LEMMA CallbackStep ==
  ASSUME RingTypeOK, RingTypeOK', CtlInv, RingInv, uart1_callback, lapped' = FALSE
  PROVE  Keeps \/ Puts
  <1>1. rpc' = rpc /\ todo' = todo /\ at' = at /\ v' = v /\ taken' = taken /\ out' = out
    BY DEF uart1_callback, get, method
  <1>2. Given' = Given BY <1>1 DEF Given
  <1>3. GivenOrHeld' = GivenOrHeld
    <2>1. CASE rpc = "body" BY <1>1, <1>2, <2>1, PutKeepsSlot DEF GivenOrHeld, Held
    <2>2. CASE rpc # "body" BY <1>1, <1>2, <2>2 DEF GivenOrHeld
    <2>3. QED BY <2>1, <2>2
  <1>4. received' \in Byte BY RingBounds DEF RingTypeOK, uart1_callback, Byte
  <1>5. QED BY <1>3, <1>4, PutContent DEF Keeps, Puts

\* A step that leaves the ring alone leaves the queue alone.
LEMMA SameContent ==
  ASSUME UNCHANGED <<buf, iget, iput>>
  PROVE  UNCHANGED <<Content, ringbuf_avail>>
  BY DEF Content, ringbuf_avail

\* ringbuf_get.
LEMMA GetStep ==
  ASSUME RingTypeOK, RingTypeOK', CtlInv, RingInv, ringbuf_get, lapped = FALSE
  PROVE  Keeps \/ Takes
  <1>1. CASE GetStart
    <2>1. todo = {} /\ "bump" \in todo' /\ rpc = "get" /\ rpc' = "body"
      BY <1>1 DEF GetStart, CtlInv
    <2>2. GivenOrHeld' = GivenOrHeld
      BY <1>1, <2>1 DEF GetStart, GivenOrHeld, Given, method, stream
    <2>3. QED BY <1>1, <2>2, SameContent DEF GetStart, Keeps, ringbuf, stream
  <1>2. CASE GetEmpty
    <2>1. GivenOrHeld' = GivenOrHeld BY <1>2 DEF GetEmpty, GivenOrHeld, Given
    <2>2. QED BY <1>2, <2>1, SameContent DEF GetEmpty, Keeps, ringbuf
  <1>3. CASE GetLoad
    <2>1. /\ rpc' = "body" /\ rpc = "body" /\ ("bump" \in todo' <=> "bump" \in todo)
          /\ "load" \in todo /\ "load" \notin todo' /\ v' = buf[at] /\ Given' = Given
      BY <1>3 DEF GetLoad, Given, method, stream
    <2>2. Held' = Held BY <2>1 DEF Held
    <2>3. GivenOrHeld' = GivenOrHeld BY <2>1, <2>2 DEF GivenOrHeld
    <2>4. QED BY <1>3, <2>3, SameContent DEF GetLoad, Keeps, ringbuf, stream
  <1>4. CASE GetBump
    <2>1. /\ rpc' = "body" /\ rpc = "body" /\ "bump" \in todo /\ "bump" \notin todo'
          /\ ("load" \in todo' <=> "load" \in todo)
          /\ v' = v /\ buf' = buf /\ at' = at /\ Given' = Given /\ accepted' = accepted
      BY <1>4 DEF GetBump, Given, method, stream
    <2>2. iget # iput BY <2>1 DEF RingInv
    <2>3. Held' = buf[at] BY <2>1 DEF Held, RingInv
    <2>4. GivenOrHeld' = Append(GivenOrHeld, buf[at]) BY <2>1, <2>3 DEF GivenOrHeld
    <2>5. QED BY <1>4, <2>1, <2>2, <2>4, BumpContent DEF Takes
  <1>5. CASE GetWrap
    <2>1. /\ rpc' = "body" /\ rpc = "body" /\ "bump" \notin todo /\ "bump" \notin todo'
          /\ ("load" \in todo' <=> "load" \in todo)
          /\ v' = v /\ buf' = buf /\ at' = at /\ Given' = Given /\ accepted' = accepted
      BY <1>5 DEF GetWrap, Given, method, stream
    <2>2. Held' = Held BY <2>1 DEF Held
    <2>3. GivenOrHeld' = GivenOrHeld BY <2>1, <2>2 DEF GivenOrHeld
    <2>4. QED BY <1>5, <2>1, <2>3, WrapContent DEF Keeps
  <1>6. CASE GetDone
    <2>1. /\ rpc = "body" /\ todo = {} /\ out' = Append(out, v)
          /\ \/ rpc' = "get" /\ taken' = taken
             \/ rpc' = "idle" /\ taken' = taken \o out'
      BY <1>6 DEF GetDone
    <2>2. GivenOrHeld = Append(taken \o out, v) BY <2>1 DEF GivenOrHeld, Given, Held
    <2>3. GivenOrHeld' = taken \o Append(out, v) BY <2>1 DEF GivenOrHeld, Given
    <2>4. Append(taken \o out, v) = taken \o Append(out, v)
      <3>1. /\ taken \in Seq(Byte \cup {0}) /\ out \in Seq(Byte \cup {0}) /\ v \in Byte \cup {0}
        BY DEF RingTypeOK
      <3>2. QED BY <3>1
    <2>5. QED BY <1>6, <2>2, <2>3, <2>4, SameContent DEF GetDone, Keeps, ringbuf
  <1>7. QED BY <1>1, <1>2, <1>3, <1>4, <1>5, <1>6 DEF ringbuf_get

\* A method starts with an empty buffer of its own.
LEMMA MethodStep ==
  ASSUME RingTypeOK, CtlInv, ReadMethod
  PROVE  Keeps
  <1>1. PICK n \in 0 .. Size - 1, name \in {"read", "readinto", "readline"} : Begin(name, n)
    BY MethodBegins
  <1>2. /\ rpc = "idle" /\ rpc' \in {"idle", "get"} /\ out' = <<>> /\ taken' = taken
        /\ accepted' = accepted /\ UNCHANGED <<buf, iget, iput>>
    BY <1>1 DEF Begin, ringbuf, stream
  <1>3. taken \o <<>> = taken BY DEF RingTypeOK
  <1>4. GivenOrHeld' = GivenOrHeld BY <1>2, <1>3 DEF GivenOrHeld, Given
  <1>5. QED BY <1>2, <1>4, SameContent DEF Keeps

\* Every step, until the ring is lapped.
LEMMA QueueStep ==
  RingTypeOK /\ RingTypeOK' /\ CtlInv /\ RingInv /\ [RingNext]_ringVars /\ lapped' = FALSE
  => Keeps \/ Puts \/ Takes
  <1> SUFFICES ASSUME RingTypeOK, RingTypeOK', CtlInv, RingInv, [RingNext]_ringVars, lapped' = FALSE
               PROVE  Keeps \/ Puts \/ Takes
    OBVIOUS
  <1>1. lapped = FALSE BY LappedStays
  <1>2. CASE uart1_callback BY <1>2, CallbackStep
  <1>3. CASE ReadMethod BY <1>3, MethodStep
  <1>4. CASE ringbuf_get BY <1>1, <1>4, GetStep
  <1>5. CASE UNCHANGED ringVars
    BY <1>5, SameContent
       DEF ringVars, ringbuf, get, method, stream, Keeps, GivenOrHeld, Given, Held
  <1>6. QED BY <1>2, <1>3, <1>4, <1>5 DEF RingNext

\* For every ring size ringbuf_put in the handler and ringbuf_get in the foreground
\* implement a queue of one byte less than the ring, whether the build loads the byte
\* before or after it moves the index and whether it wraps the index with one store
\* or two, up to the put that takes a full ring for one with room.
THEOREM RingRefinesFifo == RingSpec => RingIsFifo
  <1>1. RingInit => Fifo!FifoInit
    <2> SUFFICES ASSUME RingInit PROVE Fifo!FifoInit
      OBVIOUS
    <2>1. ContentOK BY TypeInit, ContentFacts
    <2>2. iget = 0 /\ iput = 0 /\ rpc = "idle" /\ taken = <<>> BY DEF RingInit
    <2>3. Content = <<>> BY <2>1, <2>2 DEF ContentOK
    <2>4. GivenOrHeld = <<>> BY <2>2 DEF GivenOrHeld, Given
    <2>5. QED BY <2>3, <2>4 DEF Fifo!FifoInit
  <1>2. RingTypeOK /\ RingTypeOK' /\ CtlInv /\ RingInv /\ [RingNext]_ringVars
        => [lapped' \/ Fifo!FifoNext]_(Fifo!fifoVars)
    <2> SUFFICES ASSUME RingTypeOK, RingTypeOK', CtlInv, RingInv, [RingNext]_ringVars,
                        lapped' = FALSE
                 PROVE  Fifo!FifoNext \/ UNCHANGED Fifo!fifoVars
      BY DEF RingTypeOK
    <2>1. CASE Keeps BY <2>1 DEF Keeps, Fifo!fifoVars
    <2>2. CASE Puts BY <2>2 DEF Puts, Fifo!FifoNext, Fifo!Put
    <2>3. CASE Takes BY <2>3 DEF Takes, Fifo!FifoNext, Fifo!Get
    <2>4. QED BY <2>1, <2>2, <2>3, QueueStep
  <1>3. QED BY <1>1, <1>2, CtlAlways, RingAlways, PTL DEF RingSpec, RingIsFifo

-----------------------------------------------------------------------------
(* Counting *)

\* Until the ring is lapped every accepted byte is in the ring or was taken out.
CountInv == lapped = FALSE => Len(accepted) = Len(GivenOrHeld) + ringbuf_avail

\* The bytes taken out are a sequence.
GivenType == GivenOrHeld \in Seq(Byte \cup {0})

LEMMA GivenTyped == RingTypeOK => GivenType
  <1> SUFFICES ASSUME RingTypeOK PROVE GivenType
    OBVIOUS
  <1>1. Given \in Seq(Byte \cup {0}) BY ConcatProperties DEF RingTypeOK, Given
  <1>2. Held \in Byte \cup {0} BY DEF RingTypeOK, Held
  <1>3. QED BY <1>1, <1>2, AppendProperties DEF GivenType, GivenOrHeld

\* Every step keeps the count.
LEMMA CountNext ==
  RingTypeOK /\ RingTypeOK' /\ CtlInv /\ RingInv /\ CountInv /\ [RingNext]_ringVars => CountInv'
  <1> SUFFICES ASSUME RingTypeOK, RingTypeOK', CtlInv, RingInv, CountInv, [RingNext]_ringVars,
                      lapped' = FALSE
               PROVE  Len(accepted') = Len(GivenOrHeld') + ringbuf_avail'
    BY DEF CountInv
  <1>1. Len(accepted) = Len(GivenOrHeld) + ringbuf_avail BY LappedStays DEF CountInv
  <1>2. /\ GivenOrHeld \in Seq(Byte \cup {0}) /\ Content \in Seq(Byte \cup {0})
        /\ ringbuf_avail \in Nat /\ Len(Content) = ringbuf_avail
    BY GivenTyped, ContentFacts, SizeAssumption DEF GivenType, ContentOK
  <1> HIDE DEF ringbuf_avail
  <1>3. Len(GivenOrHeld) \in Nat BY <1>2, LenProperties
  <1>4. CASE Keeps BY <1>1, <1>4 DEF Keeps
  <1>5. CASE Puts
    <2>1. Len(accepted') = Len(accepted) + 1 BY <1>5, AppendProperties DEF Puts, RingTypeOK
    <2>2. QED BY <1>1, <1>2, <1>3, <1>5, <2>1 DEF Puts
  <1>6. CASE Takes
    <2>1. Head(Content) \in Byte \cup {0} BY <1>2, <1>6, HeadTailProperties DEF Takes
    <2>2. Len(GivenOrHeld') = Len(GivenOrHeld) + 1 BY <1>2, <1>6, <2>1, AppendProperties DEF Takes
    <2>3. accepted' = accepted /\ ringbuf_avail' = ringbuf_avail - 1 BY <1>6 DEF Takes
    <2>4. QED BY <1>1, <1>2, <1>3, <2>2, <2>3
  <1>7. QED BY <1>4, <1>5, <1>6, QueueStep

\* For every ring size any() counts exactly the bytes the handler accepted and no
\* method has returned, until the ring is lapped.
THEOREM AnyCorrect == RingSpec => []AnyIsHonest
  <1>1. RingInit => CountInv
    <2> SUFFICES ASSUME RingInit PROVE CountInv
      OBVIOUS
    <2>1. ContentOK BY TypeInit, ContentFacts
    <2>2. iget = 0 /\ iput = 0 /\ rpc = "idle" /\ taken = <<>> /\ accepted = <<>> BY DEF RingInit
    <2>3. ringbuf_avail = 0 BY <2>1, <2>2 DEF ContentOK
    <2>4. QED BY <2>2, <2>3 DEF CountInv, GivenOrHeld, Given
  <1>2. RingTypeOK /\ RingTypeOK' /\ CtlInv /\ RingInv /\ CountInv /\ [RingNext]_ringVars
          => CountInv'
    BY CountNext
  <1>3. RingTypeOK /\ CountInv => AnyIsHonest
    <2> SUFFICES ASSUME RingTypeOK, CountInv, lapped = FALSE, rpc = "idle"
                 PROVE  ringbuf_avail = Len(accepted) - Len(taken)
      BY DEF AnyIsHonest, RingTypeOK
    <2>1. GivenOrHeld = taken BY DEF GivenOrHeld, Given
    <2>2. ringbuf_avail \in Nat BY ContentFacts, SizeAssumption DEF ContentOK
    <2>3. Len(taken) \in Nat BY LenProperties DEF RingTypeOK
    <2>4. QED BY <2>1, <2>2, <2>3 DEF CountInv
  <1>4. QED BY <1>1, <1>2, <1>3, CtlAlways, RingAlways, PTL DEF RingSpec

-----------------------------------------------------------------------------
(* What a read promised *)

\* Until the ring is lapped a read that is under way has taken what it does not want
\* any more, and the ring holds all it still wants.
ReadInv ==
  lapped = FALSE /\ op \in {"read", "readinto"} =>
    /\ rpc = "idle" => promised = 0 \/ Len(out) = promised
    /\ rpc # "idle" => left + Len(out) = promised
    /\ rpc = "get" \/ (rpc = "body" /\ "bump" \in todo) => ringbuf_avail >= left
    /\ rpc = "body" /\ "bump" \notin todo => ringbuf_avail + 1 >= left

\* Every step keeps it: the handler only adds to the ring.
LEMMA ReadNext ==
  RingTypeOK /\ RingTypeOK' /\ CtlInv /\ RingInv /\ ReadInv /\ [RingNext]_ringVars => ReadInv'
  <1> SUFFICES ASSUME RingTypeOK, RingTypeOK', CtlInv, RingInv, ReadInv, [RingNext]_ringVars,
                      lapped' = FALSE
               PROVE  ReadInv'
    BY DEF ReadInv
  <1>1. lapped = FALSE BY LappedStays
  <1>2. /\ ringbuf_avail \in Nat /\ (iget = iput => ringbuf_avail = 0)
        /\ Len(out) \in Nat /\ left \in Nat
    <2>1. ringbuf_avail \in Nat BY ContentFacts, SizeAssumption DEF ContentOK
    <2>2. iget = iput => ringbuf_avail = 0
      BY ContentFacts, SizeAssumption DEF ContentOK, Slot
    <2>3. QED BY <2>1, <2>2, LenProperties, SizeAssumption DEF RingTypeOK
  <1> HIDE DEF ringbuf_avail
  <1>3. CASE uart1_callback
    <2>1. /\ rpc' = rpc /\ todo' = todo /\ op' = op /\ left' = left /\ out' = out
          /\ promised' = promised
      BY <1>3 DEF uart1_callback, get, method
    <2>2. ringbuf_avail' = ringbuf_avail \/ ringbuf_avail' = ringbuf_avail + 1
      BY <1>3, PutContent
    <2>3. QED BY <1>1, <1>2, <2>1, <2>2 DEF ReadInv
  <1>4. CASE ReadMethod
    <2>1. PICK n \in 0 .. Size - 1, name \in {"read", "readinto", "readline"} :
            Begin(name, n) /\ n <= ringbuf_avail
      BY <1>4, MethodBegins
    <2>2. /\ rpc' = IF n = 0 THEN "idle" ELSE "get"
          /\ left' = n /\ promised' = n /\ out' = <<>> /\ ringbuf_avail' = ringbuf_avail
      BY <2>1, SameContent DEF Begin, ringbuf
    <2>3. Len(out') = 0 BY <2>2
    <2>4. QED BY <2>1, <2>2, <2>3, SizeAssumption DEF ReadInv
  <1>5. CASE UNCHANGED ringVars
    BY <1>5, SameContent DEF ringVars, ringbuf, get, method, stream, ReadInv
  <1>6. CASE ringbuf_get
    <2> USE DEF ReadInv, ringbuf, get, method
    <2>1. CASE GetStart BY <1>1, <2>1, SameContent DEF GetStart
    <2>2. CASE GetEmpty BY <1>1, <1>2, <2>2, SameContent DEF GetEmpty, CtlInv
    <2>3. CASE GetLoad
      <3>1. "bump" \in todo' <=> "bump" \in todo BY <2>3 DEF GetLoad
      <3>2. QED BY <1>1, <2>3, <3>1, SameContent DEF GetLoad
    <2>4. CASE GetBump
      <3>1. iget # iput BY <1>1, <2>4 DEF GetBump, RingInv
      <3>2. ringbuf_avail' = ringbuf_avail - 1 BY <2>4, <3>1, BumpContent
      <3>3. QED BY <1>1, <1>2, <2>4, <3>2 DEF GetBump
    <2>5. CASE GetWrap
      <3>1. ringbuf_avail' = ringbuf_avail BY <2>5, WrapContent
      <3>2. QED BY <1>1, <2>5, <3>1 DEF GetWrap
    <2>6. CASE GetDone
      <3>1. Len(out') = Len(out) + 1 BY <2>6, AppendProperties DEF GetDone, RingTypeOK
      <3>2. ringbuf_avail' = ringbuf_avail BY <2>6, SameContent DEF GetDone
      <3>3. /\ rpc = "body" /\ "bump" \notin todo /\ op' = op /\ promised' = promised
            /\ rpc' \in {"get", "idle"}
        BY <2>6 DEF GetDone
      <3>4. ASSUME op \in {"read", "readinto"}
            PROVE  left' = left - 1 /\ (rpc' = "idle" <=> left = 1) /\ left >= 1
        BY <1>2, <2>6, <3>3, <3>4 DEF GetDone, Another, CtlInv
      <3>5. QED BY <1>1, <1>2, <3>1, <3>2, <3>3, <3>4
    <2>7. QED BY <1>6, <2>1, <2>2, <2>3, <2>4, <2>5, <2>6 DEF ringbuf_get
  <1>7. QED BY <1>3, <1>4, <1>5, <1>6 DEF RingNext

\* For every ring size read and readinto return exactly as many bytes as were there
\* when they were called, up to the request, although the handler writes to the
\* ring between their tests, until the ring is lapped.
THEOREM ReadCountCorrect == RingSpec => []ReadCountExact
  <1>1. RingInit => ReadInv BY DEF RingInit, ReadInv
  <1>2. RingTypeOK /\ RingTypeOK' /\ CtlInv /\ RingInv /\ ReadInv /\ [RingNext]_ringVars => ReadInv'
    BY ReadNext
  <1>3. RingTypeOK /\ ReadInv => ReadCountExact BY DEF RingTypeOK, ReadInv, ReadCountExact
  <1>4. QED BY <1>1, <1>2, <1>3, CtlAlways, RingAlways, PTL DEF RingSpec

-----------------------------------------------------------------------------
(* The objects *)

-----------------------------------------------------------------------------
(* Types *)

\* Nothing has its value outside its type before the first object is made.
LEMMA UartTypeInit == Init => TypeOK
  <1>1. /\ 0 \in 0 .. MaxLen /\ 0 \in 0 .. FifoDepth
        /\ 0 \in 0 .. MaxWrites /\ 0 \in 0 .. MaxResets
    BY DepthAssumption, BoundsAssumption
  <1>2. QED BY <1>1 DEF Init, TypeOK

\* TXI moves at most a FIFO of what is left of the write.
LEMMA TxiCounts ==
  ASSUME TypeOK, sci_b_uart_txi_isr
  PROVE  tx_src_bytes' \in 0 .. MaxLen /\ txfifo' \in 0 .. FifoDepth
  BY DepthAssumption, BoundsAssumption DEF TypeOK, sci_b_uart_txi_isr

\* Every step keeps the types.
LEMMA UartTypeNext == TypeOK /\ [Next]_vars => TypeOK'
  <1> SUFFICES ASSUME TypeOK, [Next]_vars PROVE TypeOK'
    OBVIOUS
  <1> USE DEF TypeOK, objects, driver, history, Goto
  <1>1. 0 \in 0 .. MaxLen /\ 0 \in 0 .. FifoDepth BY DepthAssumption, BoundsAssumption
  <1>2. CASE UNCHANGED vars BY <1>2 DEF vars
  <1>3. CASE Python
    <2>1. ASSUME NEW o \in Objs, uart_obj_make_new(o) PROVE TypeOK'
      BY <2>1 DEF uart_obj_make_new
    <2>2. ASSUME NEW o \in Objs, uart_obj_init(o) PROVE TypeOK'
      BY <2>2 DEF uart_obj_init
    <2>3. ASSUME NEW o \in Objs, uart_obj_deinit(o) PROVE TypeOK'
      BY <2>3 DEF uart_obj_deinit
    <2>4. ASSUME NEW o \in Objs, NEW n \in 1 .. MaxLen, uart_obj_write(o, n) PROVE TypeOK'
      <3>1. writes' \in 0 .. MaxWrites /\ len' \in 0 .. MaxLen
        BY <2>4, BoundsAssumption DEF uart_obj_write
      <3>2. QED BY <2>4, <3>1 DEF uart_obj_write
    <2>5. QED BY <1>3, <2>1, <2>2, <2>3, <2>4 DEF Python
  <1>4. CASE Method
    <2>1. CASE InitClose
      <3>1. is_open' \in [Objs -> BOOLEAN] BY <2>1 DEF InitClose
      <3>2. /\ open' \in BOOLEAN /\ p_callback_memory' \in Objs \cup {NULL}
            /\ tie' \in BOOLEAN /\ teie' \in BOOLEAN
            /\ tx_src_bytes' \in 0 .. MaxLen /\ txfifo' \in 0 .. FifoDepth
        BY <2>1, <1>1 DEF InitClose, Close
      <3>3. QED BY <2>1, <3>1, <3>2 DEF InitClose
    <2>2. CASE InitOpen BY <2>2, <1>1 DEF InitOpen
    <2>3. CASE InitCallback BY <2>3 DEF InitCallback
    <2>4. CASE InitDone BY <2>4, ZenonT(60) DEF InitDone
    <2>5. CASE InitNoMemory
      <3>1. rx_buf_storage' \in [Objs -> BOOLEAN] BY <2>5 DEF InitNoMemory
      <3>2. state' \in [Objs -> {"new", "making", "live", "lost"}] BY <2>5 DEF InitNoMemory
      <3>3. QED BY <2>5, <3>1, <3>2 DEF InitNoMemory
    <2>6. CASE DeinitAbort BY <2>6, ZenonT(60) DEF DeinitAbort
    <2>7. CASE DeinitClose
      <3>1. is_open' \in [Objs -> BOOLEAN] BY <2>7 DEF DeinitClose
      <3>2. open' \in BOOLEAN /\ tx_src_bytes' \in 0 .. MaxLen BY <2>7, <1>1 DEF DeinitClose
      <3>3. pc' = "d_done" /\ UNCHANGED <<p_callback_memory, tie, teie, txfifo, self, len, history>>
        BY <2>7 DEF DeinitClose
      <3>4. UNCHANGED <<state, rx_buf_storage, tx_complete, g_uart1_obj>> BY <2>7 DEF DeinitClose
      <3>5. QED BY <3>1, <3>2, <3>3, <3>4
    <2>8. CASE DeinitDone
      <3>1. rx_buf_storage' \in [Objs -> BOOLEAN] BY <2>8 DEF DeinitDone
      <3>2. g_uart1_obj' \in Objs \cup {NULL} BY <2>8 DEF DeinitDone
      <3>3. QED BY <2>8, <3>1, <3>2 DEF DeinitDone
    <2>9. CASE WriteIrqsOff BY <2>9, ZenonT(60) DEF WriteIrqsOff
    <2>10. CASE WriteSource BY <2>10 DEF WriteSource
    <2>11. CASE WriteOn BY <2>11 DEF WriteOn
    <2>12. CASE WriteFlag
      <3>1. tx_complete' \in [Objs -> BOOLEAN] BY <2>12 DEF WriteFlag
      <3>2. QED BY <2>12, <3>1 DEF WriteFlag
    <2>13. QED
      BY <1>4, <2>1, <2>2, <2>3, <2>4, <2>5, <2>6, <2>7, <2>8, <2>9, <2>10, <2>11, <2>12
         DEF Method
  <1>5. CASE Handler
    <2>1. CASE uart1_callback_rx BY <2>1 DEF uart1_callback_rx
    <2>2. CASE sci_b_uart_txi_isr
      <3>1. tie' \in BOOLEAN /\ teie' \in BOOLEAN BY <2>2 DEF sci_b_uart_txi_isr
      <3>2. tx_src_bytes' \in 0 .. MaxLen /\ txfifo' \in 0 .. FifoDepth BY <2>2, TxiCounts
      <3>3. UNCHANGED <<objects, open, p_callback_memory, pc, self, len, history>>
        BY <2>2 DEF sci_b_uart_txi_isr
      <3>4. QED BY <3>1, <3>2, <3>3
    <2>3. CASE Shift
      <3>1. txfifo' \in 0 .. FifoDepth BY <2>3, DepthAssumption DEF Shift
      <3>2. QED BY <2>3, <3>1 DEF Shift
    <2>4. CASE sci_b_uart_tei_isr
      <3>1. tx_complete' \in [Objs -> BOOLEAN] BY <2>4 DEF sci_b_uart_tei_isr
      <3>2. early' \in BOOLEAN /\ stray' \in BOOLEAN BY <2>4 DEF sci_b_uart_tei_isr
      <3>3. tie' \in BOOLEAN /\ teie' \in BOOLEAN BY <2>4 DEF sci_b_uart_tei_isr
      <3>4. UNCHANGED <<state, rx_buf_storage, is_open, g_uart1_obj, open, p_callback_memory>>
        BY <2>4 DEF sci_b_uart_tei_isr
      <3>5. UNCHANGED <<tx_src_bytes, txfifo, pc, self, len, busy, discarded, failed, stolen,
                        writes, resets>>
        BY <2>4 DEF sci_b_uart_tei_isr
      <3>6. QED BY <3>1, <3>2, <3>3, <3>4, <3>5
    <2>5. QED BY <1>5, <2>1, <2>2, <2>3, <2>4 DEF Handler
  <1>6. CASE SoftReset
    <2>1. resets' \in 0 .. MaxResets BY <1>6, BoundsAssumption DEF SoftReset
    <2>2. QED BY <1>6, <2>1 DEF SoftReset
  <1>7. QED BY <1>2, <1>3, <1>4, <1>5, <1>6 DEF Next

\* For any set of objects every variable keeps its type: the driver never counts
\* below zero, nor beyond one write and one FIFO.
THEOREM UartTypeCorrect == Spec => []TypeOK
  BY UartTypeInit, UartTypeNext, PTL DEF Spec

-----------------------------------------------------------------------------
(* The owner *)

\* Which objects are open, and what the driver and the callback know of them.
OwnerInv ==
  ~stolen =>
    /\ stray => g_uart1_obj # NULL /\ state[g_uart1_obj] = "lost"
    /\ pc # "idle" => self \in Objs /\ state[self] # "lost"
    /\ \A o \in Objs : is_open[o] => o = g_uart1_obj
    /\ g_uart1_obj # NULL =>
         /\ rx_buf_storage[g_uart1_obj]
         /\ \/ is_open[g_uart1_obj]
            \/ self = g_uart1_obj /\ pc \in {"i_open", "i_callback", "i_done", "d_done"}
         /\ open \/ (self = g_uart1_obj /\ pc \in {"i_open", "d_done"})
         /\ \/ p_callback_memory = g_uart1_obj
            \/ self = g_uart1_obj /\ pc \in {"i_open", "i_callback", "d_done"}
         /\ self = g_uart1_obj /\ pc = "d_done" => ~open
    /\ open /\ g_uart1_obj = NULL => failed \/ pc \in {"i_callback", "i_done"}
    /\ pc \in {"i_close", "i_open", "i_callback", "i_done"} => g_uart1_obj \in {NULL, self}
    /\ pc \in {"i_callback", "i_done"} => open
    /\ pc = "i_done" => p_callback_memory = self
    /\ pc = "d_done" => ~is_open[self]
    /\ pc \in {"d_abort", "d_close", "w_off", "w_src", "w_on", "w_flag"} => is_open[self]

\* Every step preserves OwnerInv.
LEMMA OwnerNext == TypeOK /\ OwnerInv /\ [Next]_vars => OwnerInv'
  <1> SUFFICES ASSUME TypeOK, OwnerInv, [Next]_vars PROVE OwnerInv'
    OBVIOUS
  <1> USE NullAssumption DEF TypeOK, OwnerInv, objects, driver, history, Goto, Initialising, Expects
  <1>1. CASE UNCHANGED vars BY <1>1 DEF vars
  <1>2. CASE Python
    <2>1. ASSUME NEW o \in Objs, uart_obj_make_new(o) PROVE OwnerInv'
      BY <2>1 DEF uart_obj_make_new
    <2>2. ASSUME NEW o \in Objs, uart_obj_init(o) PROVE OwnerInv'
      BY <2>2 DEF uart_obj_init
    <2>3. ASSUME NEW o \in Objs, uart_obj_deinit(o) PROVE OwnerInv'
      BY <2>3 DEF uart_obj_deinit
    <2>4. ASSUME NEW o \in Objs, NEW n \in 1 .. MaxLen, uart_obj_write(o, n) PROVE OwnerInv'
      BY <2>4 DEF uart_obj_write
    <2>5. QED BY <1>2, <2>1, <2>2, <2>3, <2>4 DEF Python
  <1>3. CASE Method
    <2>1. CASE InitClose BY <2>1 DEF InitClose, Close
    <2>2. CASE InitOpen BY <2>2 DEF InitOpen
    <2>3. CASE InitCallback BY <2>3 DEF InitCallback
    <2>4. CASE InitDone BY <2>4 DEF InitDone
    <2>5. CASE InitNoMemory BY <2>5 DEF InitNoMemory
    <2>6. CASE DeinitAbort BY <2>6 DEF DeinitAbort
    <2>7. CASE DeinitClose BY <2>7 DEF DeinitClose
    <2>8. CASE DeinitDone
      <3>1. CASE g_uart1_obj = self BY <2>8, <3>1 DEF DeinitDone
      <3>2. CASE g_uart1_obj # self BY <2>8, <3>2 DEF DeinitDone
      <3>3. QED BY <3>1, <3>2
    <2>9. CASE WriteIrqsOff BY <2>9 DEF WriteIrqsOff
    <2>10. CASE WriteSource BY <2>10 DEF WriteSource
    <2>11. CASE WriteOn BY <2>11 DEF WriteOn
    <2>12. CASE WriteFlag BY <2>12 DEF WriteFlag
    <2>13. QED
      BY <1>3, <2>1, <2>2, <2>3, <2>4, <2>5, <2>6, <2>7, <2>8, <2>9, <2>10, <2>11, <2>12
         DEF Method
  <1>4. CASE Handler
    <2>1. CASE uart1_callback_rx BY <2>1 DEF uart1_callback_rx
    <2>2. CASE sci_b_uart_txi_isr BY <2>2 DEF sci_b_uart_txi_isr
    <2>3. CASE Shift BY <2>3 DEF Shift
    <2>4. CASE sci_b_uart_tei_isr BY <2>4 DEF sci_b_uart_tei_isr
    <2>5. QED BY <1>4, <2>1, <2>2, <2>3, <2>4 DEF Handler
  <1>5. CASE SoftReset BY <1>5 DEF SoftReset
  <1>6. QED BY <1>1, <1>2, <1>3, <1>4, <1>5 DEF Next

\* OwnerInv is an invariant.
LEMMA OwnerAlways == Spec => []OwnerInv
  <1>1. Init => OwnerInv BY NullAssumption DEF Init, OwnerInv
  <1>2. TypeOK /\ OwnerInv /\ [Next]_vars => OwnerInv' BY OwnerNext
  <1>3. QED BY <1>1, <1>2, UartTypeCorrect, PTL DEF Spec

\* For any number of objects, soft resets and failed allocations: between two
\* methods the open object is the one the callback serves, and an event went astray only
\* to the object that a soft reset left to the driver.
THEOREM OwnerCorrect == Spec => []OneOwner
  <1>1. TypeOK /\ OwnerInv => OneOwner BY NullAssumption DEF TypeOK, OwnerInv, OneOwner
  <1>2. QED BY <1>1, UartTypeCorrect, OwnerAlways, PTL

-----------------------------------------------------------------------------
(* The transmission *)

\* What the flag and the interrupt enables say about the bytes.
TxInv ==
  ~stolen =>
    /\ teie => tx_src_bytes = 0
    /\ pc \in {"w_src", "w_on", "i_callback", "i_done"} => ~tie /\ ~teie
    /\ pc \in {"i_callback", "i_done"} => tx_src_bytes = 0 /\ txfifo = 0
    /\ g_uart1_obj # NULL /\ tx_complete[g_uart1_obj] /\ pc \notin {"w_on", "w_flag"} =>
         tx_src_bytes = 0 /\ txfifo = 0
    /\ pc \in {"w_off", "w_src"} /\ ~busy => tx_src_bytes = 0
    /\ discarded => busy

\* Every step preserves TxInv.
LEMMA TxNext == TypeOK /\ OwnerInv /\ TxInv /\ [Next]_vars => TxInv'
  <1> SUFFICES ASSUME TypeOK, OwnerInv, TxInv, [Next]_vars PROVE TxInv'
    OBVIOUS
  <1> USE NullAssumption, DepthAssumption, BoundsAssumption
      DEF TypeOK, OwnerInv, TxInv, objects, driver, history, Goto
  <1>1. CASE UNCHANGED vars BY <1>1 DEF vars
  <1>2. CASE Python
    <2>1. ASSUME NEW o \in Objs, uart_obj_make_new(o) PROVE TxInv'
      BY <2>1 DEF uart_obj_make_new
    <2>2. ASSUME NEW o \in Objs, uart_obj_init(o) PROVE TxInv'
      BY <2>2 DEF uart_obj_init
    <2>3. ASSUME NEW o \in Objs, uart_obj_deinit(o) PROVE TxInv'
      BY <2>3 DEF uart_obj_deinit
    <2>4. ASSUME NEW o \in Objs, NEW n \in 1 .. MaxLen, uart_obj_write(o, n) PROVE TxInv'
      BY <2>4 DEF uart_obj_write
    <2>5. QED BY <1>2, <2>1, <2>2, <2>3, <2>4 DEF Python
  <1>3. CASE Method
    <2>1. CASE InitClose BY <2>1 DEF InitClose, Close
    <2>2. CASE InitOpen BY <2>2 DEF InitOpen
    <2>3. CASE InitCallback BY <2>3 DEF InitCallback
    <2>4. CASE InitDone BY <2>4 DEF InitDone
    <2>5. CASE InitNoMemory BY <2>5 DEF InitNoMemory
    <2>6. CASE DeinitAbort BY <2>6 DEF DeinitAbort
    <2>7. CASE DeinitClose BY <2>7 DEF DeinitClose
    <2>8. CASE DeinitDone BY <2>8 DEF DeinitDone
    <2>9. CASE WriteIrqsOff BY <2>9 DEF WriteIrqsOff
    <2>10. CASE WriteSource BY <2>10 DEF WriteSource
    <2>11. CASE WriteOn BY <2>11 DEF WriteOn
    <2>12. CASE WriteFlag BY <2>12 DEF WriteFlag
    <2>13. QED
      BY <1>3, <2>1, <2>2, <2>3, <2>4, <2>5, <2>6, <2>7, <2>8, <2>9, <2>10, <2>11, <2>12
         DEF Method
  <1>4. CASE Handler
    <2>1. CASE uart1_callback_rx BY <2>1 DEF uart1_callback_rx
    <2>2. CASE sci_b_uart_txi_isr BY <2>2 DEF sci_b_uart_txi_isr
    <2>3. CASE Shift BY <2>3 DEF Shift
    <2>4. CASE sci_b_uart_tei_isr BY <2>4 DEF sci_b_uart_tei_isr
    <2>5. QED BY <1>4, <2>1, <2>2, <2>3, <2>4 DEF Handler
  <1>5. CASE SoftReset BY <1>5 DEF SoftReset
  <1>6. QED BY <1>1, <1>2, <1>3, <1>4, <1>5 DEF Next

\* TxInv is an invariant.
LEMMA TxAlways == Spec => []TxInv
  <1>1. Init => TxInv BY DEF Init, TxInv
  <1>2. TypeOK /\ OwnerInv /\ TxInv /\ [Next]_vars => TxInv' BY TxNext
  <1>3. QED BY <1>1, <1>2, UartTypeCorrect, OwnerAlways, PTL DEF Spec

\* For every FIFO depth and length of a write txdone() is true between two methods
\* only when all bytes have left.
THEOREM TxDoneCorrect == Spec => []TxDoneNotEarly
  <1>1. TxInv => TxDoneNotEarly BY DEF TxInv, TxDoneNotEarly
  <1>2. QED BY <1>1, TxAlways, PTL

\* A write that waited for txdone() discards nothing.
THEOREM DiscardCorrect == Spec => []DiscardNeedsBusy
  <1>1. TxInv => DiscardNeedsBusy BY DEF TxInv, DiscardNeedsBusy
  <1>2. QED BY <1>1, TxAlways, PTL

===============================================================================
