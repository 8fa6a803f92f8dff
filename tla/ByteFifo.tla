------------------------------- MODULE ByteFifo -------------------------------
(***************************************************************************)
(* What a receive ring buffer promises its user: a bounded first-in        *)
(* first-out queue of bytes.  A byte that finds the queue full is refused, *)
(* every other byte comes out exactly once and in the order it went in.    *)
(* The buffers of mp_uart.c and of py/ringbuf.h are compared with this.    *)
(***************************************************************************)
EXTENDS Naturals, Sequences

CONSTANTS Byte,      \* the bytes that can be received
          Capacity   \* how many of them the queue holds

VARIABLES queue,     \* the bytes that wait, oldest first
          got        \* the bytes the reader has taken, in the order it took them

fifoVars == <<queue, got>>

FifoInit == /\ queue = <<>>
            /\ got = <<>>

\* The interrupt handler stores b.
Put(b) == /\ Len(queue) < Capacity
          /\ queue' = Append(queue, b)
          /\ UNCHANGED got

\* The reader takes the oldest byte.
Get == /\ queue # <<>>
       /\ queue' = Tail(queue)
       /\ got' = Append(got, Head(queue))

\* The buffer is (re)initialised and forgets what it holds.
Clear == /\ queue' = <<>>
         /\ UNCHANGED got

FifoNext == Clear \/ Get \/ \E b \in Byte : Put(b)

FifoSpec == FifoInit /\ [][FifoNext]_fifoVars

=============================================================================
