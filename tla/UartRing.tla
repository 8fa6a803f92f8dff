------------------------------- MODULE UartRing -------------------------------
(***************************************************************************)
(* Reception of machine.UART(1): the ring buffer of py/ringbuf.h, which    *)
(* uart1_callback fills in the RXI handler while read, readinto and        *)
(* readline of machine_uart.c empty it.                                    *)
(*                                                                         *)
(* Nothing in ringbuf_t is volatile.  ringbuf_get says r->iget++ and then  *)
(* stores 0 when the index has reached the size: the build may keep both   *)
(* stores or merge them into one, and the load of the byte may come before *)
(* or after them.  ringbuf_put runs in the handler, where nothing          *)
(* interleaves with it; between the two stores it compares with an index   *)
(* that is out of range, and takes a full ring for one with room           *)
(* (`lapped').                                                             *)
(*                                                                         *)
(* The n-th byte received is the number n; Newlines tells which of them    *)
(* are '\n' or '\r'.  R_SCI_B_UART_Read is never called on this UART, so   *)
(* that every byte arrives as UART_EVENT_RX_CHAR; the object is open       *)
(* throughout (UartObj is about its life).                                 *)
(***************************************************************************)
EXTENDS Naturals, Sequences, SequencesExt

CONSTANTS Size,            \* UART_RX_BUF_SIZE
          Newlines,        \* the bytes that end a line
          MaxBytes,        \* bound: bytes received
          MaxReads         \* bound: calls of the read methods

ASSUME SizeAssumption == Size \in Nat /\ Size >= 2
ASSUME RingBounds == MaxBytes \in Nat /\ MaxReads \in Nat
ASSUME NewlinesAssumption == Newlines \subseteq 1 .. MaxBytes

Byte == 1 .. MaxBytes
Slot == 0 .. Size - 1

VARIABLES
  buf, iget, iput,     \* ringbuf_t
  rpc,                 \* where the foreground is
  op,                  \* the method it is in
  left,                \* bytes the method still wants
  todo, at, v,         \* ringbuf_get: accesses to do, the slot, the byte
  out,                 \* the bytes the method has so far
  promised,            \* history: how many it decided to read
  received, accepted,  \* history: bytes of the callback; those ringbuf_put took
  taken,               \* history: bytes the methods returned
  lapped,              \* history: a byte was put into a full ring
  reads

ringbuf == <<buf, iget, iput>>
get == <<todo, at, v>>
method == <<op, left, out, promised, reads>>
stream == <<received, accepted, taken, lapped>>
ringVars == <<ringbuf, rpc, get, method, stream>>

RingInit ==
  /\ buf = [i \in Slot |-> 0]
  /\ iget = 0
  /\ iput = 0
  /\ rpc = "idle"
  /\ op = "none"
  /\ left = 0
  /\ todo = {}
  /\ at = 0
  /\ v = 0
  /\ out = <<>>
  /\ promised = 0
  /\ received = 0
  /\ accepted = <<>>
  /\ taken = <<>>
  /\ lapped = FALSE
  /\ reads = 0

-----------------------------------------------------------------------------
(* ringbuf.h *)

Wrap(i) == IF i >= Size THEN 0 ELSE i

\* Mutant: the difference is not taken modulo the size.
AvailNoWrap == IF iput >= iget THEN iput - iget ELSE iget - iput

ringbuf_avail == (Size + iput - iget) % Size

\* Mutant: a full ring is overwritten.
PutOverwrites(b) ==
  /\ buf' = [buf EXCEPT ![iput] = b]
  /\ iput' = Wrap(iput + 1)
  /\ accepted' = Append(accepted, b)
  /\ UNCHANGED iget

ringbuf_put(b) ==
  /\ \/ Wrap(iput + 1) = iget /\ UNCHANGED <<buf, iput, accepted>>
     \/ /\ Wrap(iput + 1) # iget
        /\ buf' = [buf EXCEPT ![iput] = b]
        /\ iput' = Wrap(iput + 1)
        /\ accepted' = Append(accepted, b)
  /\ UNCHANGED iget

\* uart1_callback for UART_EVENT_RX_CHAR: a refused byte is dropped.
uart1_callback ==
  /\ received < MaxBytes
  /\ received' = received + 1
  /\ ringbuf_put(received')
  /\ lapped' = (lapped \/ (iget = Size /\ Wrap(iput + 1) = 0))
  /\ UNCHANGED <<rpc, get, method, taken>>

-----------------------------------------------------------------------------
(* ringbuf_get in the foreground *)

\* The ring is not empty: load the byte, bump the index, wrap it with the same
\* store or with another.
GetStart ==
  /\ rpc = "get"
  /\ iget # iput
  /\ rpc' = "body"
  /\ at' = iget
  /\ todo' \in {{"load", "bump"}, {"load", "bump", "wrap"}}
  /\ UNCHANGED <<ringbuf, v, method, stream>>

\* -1: the method returns what it has.
GetEmpty ==
  /\ rpc = "get"
  /\ iget = iput
  /\ rpc' = "idle"
  /\ taken' = taken \o out
  /\ UNCHANGED <<ringbuf, get, method, received, accepted, lapped>>

GetLoad ==
  /\ rpc = "body" /\ "load" \in todo
  /\ v' = buf[at]
  /\ todo' = todo \ {"load"}
  /\ UNCHANGED <<ringbuf, rpc, at, method, stream>>

GetBump ==
  /\ rpc = "body" /\ "bump" \in todo
  /\ iget' = IF "wrap" \in todo THEN at + 1 ELSE Wrap(at + 1)
  /\ todo' = todo \ {"bump"}
  /\ UNCHANGED <<buf, iput, rpc, at, v, method, stream>>

GetWrap ==
  /\ rpc = "body" /\ "wrap" \in todo /\ "bump" \notin todo
  /\ iget' = Wrap(iget)
  /\ todo' = todo \ {"wrap"}
  /\ UNCHANGED <<buf, iput, rpc, at, v, method, stream>>

\* The byte is stored in the method's buffer; the loop goes on or returns.
Another == IF op = "readline" THEN v \notin Newlines /\ ringbuf_avail > 0 ELSE left > 1

GetDone ==
  /\ rpc = "body" /\ todo = {}
  /\ out' = Append(out, v)
  /\ left' = IF op = "readline" THEN left ELSE left - 1
  /\ rpc' = IF Another THEN "get" ELSE "idle"
  /\ taken' = IF Another THEN taken ELSE taken \o out'
  /\ UNCHANGED <<ringbuf, get, op, promised, reads, received, accepted, lapped>>

-----------------------------------------------------------------------------
(* The methods.  A result of no bytes returns at once. *)

Least(n, m) == IF n < m THEN n ELSE m

Begin(name, n) ==
  /\ rpc = "idle"
  /\ reads < MaxReads
  /\ reads' = reads + 1
  /\ op' = name
  /\ rpc' = IF n = 0 THEN "idle" ELSE "get"
  /\ left' = n
  /\ promised' = n
  /\ out' = <<>>
  /\ UNCHANGED <<ringbuf, get, stream>>

\* Mutant: the request is not cut to what is there.
ReadUncut(req) == Begin("read", req)

\* read(req), cut to the available bytes; read() and a negative req mean them all.
uart_obj_read(req) == Begin("read", Least(req, ringbuf_avail))
ReadAll == Begin("read", ringbuf_avail)

\* readinto(buf, n): n is cut to the buffer, len bytes, and to what is available.
uart_obj_readinto(len, n) == Begin("readinto", Least(Least(n, len), ringbuf_avail))

\* readline tests ringbuf_avail before every byte.
uart_obj_readline == Begin("readline", IF ringbuf_avail > 0 THEN 1 ELSE 0)

ReadMethod ==
  \/ ReadAll
  \/ \E req \in 0 .. Size : uart_obj_read(req) \/ uart_obj_readinto(Size - 1, req)
  \/ uart_obj_readline

ringbuf_get == GetStart \/ GetEmpty \/ GetLoad \/ GetBump \/ GetWrap \/ GetDone

RingNext == uart1_callback \/ ReadMethod \/ ringbuf_get

RingSpec == RingInit /\ [][RingNext]_ringVars

-----------------------------------------------------------------------------
(* Properties *)

\* Every variable has its type; iget reaches Size only between its two stores.
RingTypeOK ==
  /\ buf \in [Slot -> Byte \cup {0}]
  /\ iget \in 0 .. (IF "wrap" \in todo THEN Size ELSE Size - 1)
  /\ iput \in Slot
  /\ rpc \in {"idle", "get", "body"}
  /\ op \in {"none", "read", "readinto", "readline"}
  /\ left \in 0 .. Size
  /\ todo \subseteq {"load", "bump", "wrap"}
  /\ at \in Slot
  /\ v \in Byte \cup {0}
  /\ promised \in 0 .. Size
  /\ out \in Seq(Byte \cup {0}) /\ taken \in Seq(Byte \cup {0}) /\ accepted \in Seq(Byte)
  /\ received \in 0 .. MaxBytes
  /\ lapped \in BOOLEAN
  /\ reads \in 0 .. MaxReads

\* The bytes the methods have taken out of the ring: returned, stored in the
\* buffer of the running method, or past the store of the index.
Held == IF "load" \in todo THEN buf[at] ELSE v
Given == IF rpc = "idle" THEN taken ELSE taken \o out
GivenOrHeld == IF rpc = "body" /\ "bump" \notin todo THEN Append(Given, Held) ELSE Given

\* The bytes in the ring, oldest first.
Content == [i \in 1 .. ringbuf_avail |-> buf[(iget + i - 1) % Size]]

\* The ring implements a bounded queue of Size - 1 bytes, although the byte may be
\* loaded after its slot was handed back and although the handler may find iget
\* out of range: only a put that took a full ring for one with room ends this.
Fifo == INSTANCE ByteFifo WITH Capacity <- Size - 1, queue <- Content, got <- GivenOrHeld
RingIsFifo == Fifo!FifoInit /\ [][lapped' \/ Fifo!FifoNext]_(Fifo!fifoVars)

\* read and readinto return exactly as many bytes as they decided to return before
\* the first one was taken, although the handler writes to the ring meanwhile, until
\* the ring is lapped.
ReadCountExact ==
  ~lapped /\ rpc = "idle" /\ op \in {"read", "readinto"} => promised = 0 \/ Len(out) = promised

\* any() counts the bytes that were accepted and not yet read ("It will return 0
\* if there are no characters available and a positive number if there are
\* characters"), until the ring is lapped: then it is 0 with Size bytes unread.
AnyIsHonest == ~lapped /\ rpc = "idle" => ringbuf_avail = Len(accepted) - Len(taken)

=============================================================================
