-------------------------------- MODULE ReplTx --------------------------------
(***************************************************************************)
(* Transmission on the REPL UART: mp_hal_stdout_tx_strn and its cooked     *)
(* form in mp_uart.c, R_SCI_B_UART_Write and the TXI and TEI handlers of   *)
(* r_sci_b_uart.c, and the transmitter of the SCI.                         *)
(*                                                                         *)
(* Time is counted in bytes on the wire: SrcWait and EndWait are how many  *)
(* bytes leave the transmitter while the two loops of                      *)
(* uart_wait_tx_complete count down from 1000000 and from 100000.  A TXI   *)
(* or TEI handler runs at once, measured in byte times.                    *)
(*                                                                         *)
(* The parameter checks of the driver are compiled out, so that            *)
(* R_SCI_B_UART_Write never answers FSP_ERR_IN_USE.                        *)
(***************************************************************************)
EXTENDS Naturals, Sequences, SequencesExt

CONSTANTS Strings,     \* the strings the program prints
          FifoDepth,   \* BSP_FEATURE_SCI_UART_FIFO_DEPTH
          SrcWait, EndWait,
          MaxCalls     \* bound: calls of the stdout functions

CR == "cr"
LF == "lf"
Char == {CR, LF, "a", "b"}

ASSUME StringsAssumption == Strings \subseteq Seq(Char)
ASSUME DepthAssumption == FifoDepth \in Nat \ {0}
ASSUME WaitAssumption == SrcWait \in Nat \ {0} /\ EndWait \in Nat
ASSUME MaxCallsAssumption == MaxCalls \in Nat

VARIABLES
  te, tie, teie,   \* CCR0: transmitter, TXI and TEI enabled
  txfifo,          \* the transmit FIFO
  tsr,             \* the shift register: <<>> or one character
  tx_src,          \* the tx_src_bytes characters from p_tx_src on
  pc,              \* where the foreground is
  str,             \* the string mp_hal_stdout_tx_strn writes
  rest, last,      \* the cooked loop: characters to come, and the last one
  cooking, crSent, \* in the cooked loop; its '\r' is out
  budget,          \* what is left of the wait's count
  wire,            \* characters that have left the transmitter
  want,            \* history: what the callers asked to have printed
  gaveUp,          \* history: a wait ended with characters left in tx_src
  calls

control == <<te, tie, teie>>
loop == <<rest, last, cooking, crSent>>
history == <<want, gaveUp, calls>>
vars == <<control, txfifo, tsr, tx_src, pc, str, loop, budget, wire, history>>

\* After R_SCI_B_UART_Open.
Init ==
  /\ te = TRUE
  /\ tie = FALSE
  /\ teie = FALSE
  /\ txfifo = <<>>
  /\ tsr = <<>>
  /\ tx_src = <<>>
  /\ pc = "idle"
  /\ str = <<>>
  /\ rest = <<>>
  /\ last = "nul"
  /\ cooking = FALSE
  /\ crSent = FALSE
  /\ budget = 0
  /\ wire = <<>>
  /\ want = <<>>
  /\ gaveUp = FALSE
  /\ calls = 0

Shorter(n, m) == IF n < m THEN n ELSE m

TEND == txfifo = <<>> /\ tsr = <<>>

-----------------------------------------------------------------------------
(* The transmitter and its interrupts *)

\* The FIFO's trigger level is 0: TXI is signalled when the FIFO is empty.  The
\* handler fills it; with the last character it turns TXI off and TEI on.
sci_b_uart_txi_isr ==
  /\ tie
  /\ txfifo = <<>>
  /\ LET n == Shorter(FifoDepth, Len(tx_src)) IN
       /\ txfifo' = SubSeq(tx_src, 1, n)
       /\ tx_src' = SubSeq(tx_src, n + 1, Len(tx_src))
  /\ tie' = (tx_src' # <<>>)
  /\ teie' = (tx_src' = <<>>)
  /\ UNCHANGED <<te, tsr, pc, str, loop, budget, wire, history>>

\* TEI is signalled when the last character has left.
sci_b_uart_tei_isr ==
  /\ teie
  /\ TEND
  /\ te' = FALSE
  /\ tie' = FALSE
  /\ teie' = FALSE
  /\ UNCHANGED <<txfifo, tsr, tx_src, pc, str, loop, budget, wire, history>>

\* The shift register takes the next character ...
Load ==
  /\ te
  /\ tsr = <<>>
  /\ txfifo # <<>>
  /\ tsr' = <<Head(txfifo)>>
  /\ txfifo' = Tail(txfifo)
  /\ UNCHANGED <<control, tx_src, pc, str, loop, budget, wire, history>>

Countdown == budget' = IF budget > 0 THEN budget - 1 ELSE 0

\* ... and sends it: one byte time passes.  TXI comes before: it has a whole byte
\* time to refill the FIFO.
Shift ==
  /\ tsr # <<>>
  /\ ~(tie /\ txfifo = <<>>)
  /\ wire' = wire \o tsr
  /\ tsr' = <<>>
  /\ Countdown
  /\ UNCHANGED <<control, txfifo, tx_src, pc, str, loop, history>>

\* A byte time passes on a line where nothing can move.
Silence ==
  /\ budget > 0
  /\ tsr = <<>>
  /\ ~(te /\ txfifo # <<>>)
  /\ ~(tie /\ txfifo = <<>>)
  /\ Countdown
  /\ UNCHANGED <<control, txfifo, tsr, tx_src, pc, str, loop, wire, history>>

-----------------------------------------------------------------------------
(* R_SCI_B_UART_Write *)

Goto(from, to) == pc = from /\ pc' = to

\* TXI and TEI are turned off.
WriteIrqsOff ==
  /\ Goto("w_off", "w_tend")
  /\ tie' = FALSE
  /\ teie' = FALSE
  /\ UNCHANGED <<te, txfifo, tsr, tx_src, str, loop, budget, wire, history>>

\* Mutant: the transmitter is not waited for.
WriteNoTendWait ==
  /\ Goto("w_tend", "w_te")
  /\ UNCHANGED <<control, txfifo, tsr, tx_src, str, loop, budget, wire, history>>

\* FSP_HARDWARE_REGISTER_WAIT(TEND, 1): the register is read here ...
WriteTendWait ==
  /\ Goto("w_tend", "w_te")
  /\ TEND
  /\ UNCHANGED <<control, txfifo, tsr, tx_src, str, loop, budget, wire, history>>

\* ... and TE is cleared later, without another look at it.
WriteTeOff ==
  /\ Goto("w_te", "w_src")
  /\ te' = FALSE
  /\ UNCHANGED <<tie, teie, txfifo, tsr, tx_src, str, loop, budget, wire, history>>

\* Whatever the previous write left in the source is replaced.
WriteSource ==
  /\ Goto("w_src", "w_on")
  /\ tx_src' = str
  /\ UNCHANGED <<control, txfifo, tsr, str, loop, budget, wire, history>>

\* Mutant: only TXI is turned on again.
WriteOnNoTe ==
  /\ Goto("w_on", "src_wait")
  /\ tie' = TRUE
  /\ budget' = SrcWait
  /\ UNCHANGED <<te, teie, txfifo, tsr, tx_src, str, loop, wire, history>>

WriteOn ==
  /\ Goto("w_on", "src_wait")
  /\ te' = TRUE
  /\ tie' = TRUE
  /\ budget' = SrcWait
  /\ UNCHANGED <<teie, txfifo, tsr, tx_src, str, loop, wire, history>>

-----------------------------------------------------------------------------
(* uart_wait_tx_complete *)

\* Mutant: the first loop is not there.
SrcWaitSkipped ==
  /\ Goto("src_wait", "end_wait")
  /\ budget' = EndWait
  /\ gaveUp' = (gaveUp \/ (tx_src # <<>> /\ budget = 0))
  /\ UNCHANGED <<control, txfifo, tsr, tx_src, str, loop, wire, want, calls>>

SrcWaitEnds ==
  /\ Goto("src_wait", "end_wait")
  /\ tx_src = <<>> \/ budget = 0
  /\ budget' = EndWait
  /\ gaveUp' = (gaveUp \/ tx_src # <<>>)
  /\ UNCHANGED <<control, txfifo, tsr, tx_src, str, loop, wire, want, calls>>

\* mp_hal_stdout_tx_strn returns, to the cooked loop or to its caller.
EndWaitEnds ==
  /\ Goto("end_wait", IF cooking THEN "cook" ELSE "idle")
  /\ TEND \/ budget = 0
  /\ UNCHANGED <<control, txfifo, tsr, tx_src, str, loop, budget, wire, history>>

-----------------------------------------------------------------------------
(* The stdout functions *)

\* What the cooked form prints for s: "\r\n" for every '\n' without its '\r'.
Cooked(s) ==
  FlattenSeq([i \in DOMAIN s |->
    IF s[i] = LF /\ (i = 1 \/ s[i - 1] # CR) THEN <<CR, LF>> ELSE <<s[i]>>])

\* An empty string returns at once.
mp_hal_stdout_tx_strn(s) ==
  /\ pc = "idle"
  /\ calls < MaxCalls
  /\ calls' = calls + 1
  /\ pc' = IF s = <<>> THEN "idle" ELSE "w_off"
  /\ str' = s
  /\ cooking' = FALSE
  /\ want' = want \o s
  /\ UNCHANGED <<control, txfifo, tsr, tx_src, rest, last, crSent, budget, wire, gaveUp>>

\* mp_hal_stdout_tx_str is the same with strlen(str).
mp_hal_stdout_tx_strn_cooked(s) ==
  /\ Goto("idle", "cook")
  /\ calls < MaxCalls
  /\ calls' = calls + 1
  /\ rest' = s
  /\ last' = "nul"
  /\ cooking' = TRUE
  /\ crSent' = FALSE
  /\ want' = want \o Cooked(s)
  /\ UNCHANGED <<control, txfifo, tsr, tx_src, str, budget, wire, gaveUp>>

NeedsCr == rest # <<>> /\ Head(rest) = LF /\ last # CR /\ ~crSent

CookCr ==
  /\ Goto("cook", "w_off")
  /\ NeedsCr
  /\ str' = <<CR>>
  /\ crSent' = TRUE
  /\ UNCHANGED <<control, txfifo, tsr, tx_src, rest, last, cooking, budget, wire, history>>

\* Mutant: the last character is not kept.
CookCharForgetsLast ==
  /\ Goto("cook", "w_off")
  /\ rest # <<>>
  /\ ~NeedsCr
  /\ str' = <<Head(rest)>>
  /\ rest' = Tail(rest)
  /\ crSent' = FALSE
  /\ UNCHANGED <<control, txfifo, tsr, tx_src, last, cooking, budget, wire, history>>

CookChar ==
  /\ Goto("cook", "w_off")
  /\ rest # <<>>
  /\ ~NeedsCr
  /\ str' = <<Head(rest)>>
  /\ last' = Head(rest)
  /\ rest' = Tail(rest)
  /\ crSent' = FALSE
  /\ UNCHANGED <<control, txfifo, tsr, tx_src, cooking, budget, wire, history>>

CookEnd ==
  /\ Goto("cook", "idle")
  /\ rest = <<>>
  /\ UNCHANGED <<control, txfifo, tsr, tx_src, str, loop, budget, wire, history>>

-----------------------------------------------------------------------------

Write == WriteIrqsOff \/ WriteTendWait \/ WriteTeOff \/ WriteSource \/ WriteOn

Transmitter == sci_b_uart_txi_isr \/ sci_b_uart_tei_isr \/ Load \/ Shift \/ Silence

InCall == Write \/ SrcWaitEnds \/ EndWaitEnds \/ CookCr \/ CookChar \/ CookEnd

Call == \E s \in Strings : mp_hal_stdout_tx_strn(s) \/ mp_hal_stdout_tx_strn_cooked(s)

Next == Call \/ InCall \/ Transmitter

Spec == Init /\ [][Next]_vars

\* The processor and the transmitter run; nothing makes the program print.
FairSpec == Spec /\ WF_vars(InCall) /\ WF_vars(Transmitter)

-----------------------------------------------------------------------------
(* Properties *)

\* Every variable has its type; the FIFO is never written beyond its depth.
TypeOK ==
  /\ te \in BOOLEAN /\ tie \in BOOLEAN /\ teie \in BOOLEAN
  /\ txfifo \in Seq(Char) /\ Len(txfifo) <= FifoDepth
  /\ tsr \in Seq(Char) /\ Len(tsr) <= 1
  /\ tx_src \in Seq(Char)
  /\ pc \in {"idle", "w_off", "w_tend", "w_te", "w_src", "w_on", "src_wait", "end_wait", "cook"}
  /\ str \in Seq(Char) /\ rest \in Seq(Char)
  /\ last \in Char \cup {"nul"}
  /\ cooking \in BOOLEAN /\ crSent \in BOOLEAN /\ gaveUp \in BOOLEAN
  /\ budget \in Nat /\ calls \in 0 .. MaxCalls
  /\ wire \in Seq(Char) /\ want \in Seq(Char)

\* A transmitter that is off holds no character, in the FIFO or half sent.  TEND was
\* read before TE is cleared ("Setting CCR0_b.TE to 0 when CSR_b.TEND is 0 causes SCI
\* peripheral to work abnormally"), a wait that gave up may have left the handler a
\* source, and no interrupt may refill the FIFO between the two or before TE is set
\* again; a character stranded there would keep the next write's wait from ending.
StoppedIsEmpty == ~te => TEND

\* Between two calls the driver does not read a string of a call that returned:
\* the cooked form passes the address of a local variable.  Only a wait that
\* gave up leaves the driver with one.
NoDanglingSource == pc \in {"idle", "cook"} /\ tx_src # <<>> => gaveUp

\* As long as no wait gave up, what has been or will be on the wire when a call
\* returns is exactly what was asked for, with "\r\n" for '\n' in cooked strings:
\* no write overtakes or discards the characters of another.  A wait gives up only
\* when the string is longer than the wait: what the cooked form prints, one
\* character at a time, is never cut.
OutputComplete ==
  /\ pc = "idle" /\ ~gaveUp => wire \o tsr \o txfifo = want
  /\ pc = "src_wait" /\ budget = 0 /\ tx_src # <<>> => Len(str) > SrcWait + 1

\* Every call returns, whatever state the previous one left the transmitter in
\* (R_SCI_B_UART_Write waits for TEND without a limit).
CallsReturn == (pc # "idle") ~> (pc = "idle")

=============================================================================
