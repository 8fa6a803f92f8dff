-------------------------------- MODULE SpiSync --------------------------------
(***************************************************************************)
(* machine.SPI(1): the blocking methods of machine_spi.c over the          *)
(* interrupt-driven driver r_spi_b.c.                                      *)
(*                                                                         *)
(* Every method sends and receives; read() and readinto() send from, and   *)
(* write() receives into, a dummy buffer on the heap that is freed as soon *)
(* as the transfer has started.  The wait runs the poll hook, where a      *)
(* scheduled Python callback may allocate that memory or call a method of  *)
(* the same object: at most two calls are in progress.  All calls share    *)
(* one completion flag, g_spi_sync_ctx.  A buffer is named by the number   *)
(* of its call and its side.  Parameter checking and DMA are off, and      *)
(* characters are sent from TXI.                                           *)
(***************************************************************************)
EXTENDS Naturals, Sequences

CONSTANTS MaxObjs,    \* bound: the SPI objects a program creates
          FifoDepth,  \* characters under way in the shift register and buffers
          Lens,       \* bound: the lengths of a transfer
          MaxCalls    \* bound: calls of a transfer method

\* An object is named by its turn of creation.
Objs == 1 .. MaxObjs

Buffers == (1 .. MaxCalls) \X {"tx", "rx"}

ASSUME DepthAssumption == FifoDepth \in Nat \ {0}
ASSUME BoundsAssumption == MaxObjs \in Nat /\ Lens \subseteq Nat \ {0} /\ MaxCalls \in Nat

VARIABLES
  made,               \* number of objects created
  is_open,
  transfer_complete, transfer_result,
  stack,              \* the calls in progress, the running one last
  ctrl,               \* the driver's control block; id names the call of its buffers
  reg,                \* the SPI and the enable of TEI
  freed, reused,      \* buffers given back to the heap, and those of them in use again
  foreign,            \* history: the driver accessed a buffer in use by somebody else
  hooked,             \* history: Python code ran in the poll hook of a call
  late,               \* history: a call timed out while a transfer was running
  cut,                \* history: the driver was opened during a transfer by another object
  calls

objects == <<made, is_open>>
sync == <<transfer_complete, transfer_result>>
driver == <<ctrl, reg>>
memory == <<freed, reused>>
history == <<foreign, hooked, late, cut, calls>>
vars == <<objects, sync, stack, driver, memory, history>>

Init ==
  /\ made = 0
  /\ is_open = [o \in Objs |-> FALSE]
  /\ transfer_complete = FALSE
  /\ transfer_result = "ok"
  /\ stack = <<>>
  /\ ctrl = [open |-> FALSE, id |-> 0, tx_count |-> 0, rx_count |-> 0, count |-> 0]
  /\ reg = [spe |-> FALSE, tei_en |-> FALSE, tei_pend |-> FALSE, out |-> 0, in |-> 0, idlnf |-> FALSE]
  /\ freed = {}
  /\ reused = {}
  /\ foreign = FALSE
  /\ hooked = FALSE
  /\ late = FALSE
  /\ cut = FALSE
  /\ calls = 0

-----------------------------------------------------------------------------
(* The running call, and what Python code does *)

Top == stack[Len(stack)]

Running(from) == stack # <<>> /\ Top.pc = from

Become(f) == stack' = [stack EXCEPT ![Len(stack)] = f]

\* Python code runs when no method does, or in the poll hook of the outer call.
PythonRuns == stack = <<>> \/ (Len(stack) = 1 /\ Top.pc = "wait")

Disturb == hooked' = (hooked \/ stack # <<>>)

Disturbed == [i \in DOMAIN stack |-> [stack[i] EXCEPT !.clean = FALSE]]

\* The heap gives a freed buffer to somebody else; only the driver's are followed.
Reuse(b) ==
  /\ PythonRuns
  /\ b \in freed /\ b[1] = ctrl.id
  /\ freed' = freed \ {b}
  /\ reused' = reused \cup {b}
  /\ Disturb
  /\ stack' = Disturbed
  /\ UNCHANGED <<objects, sync, driver, foreign, late, cut, calls>>

\* R_SPI_B_Close.
Closed == /\ ctrl' = [ctrl EXCEPT !.open = FALSE]
          /\ reg' = [reg EXCEPT !.spe = FALSE, !.tei_en = FALSE, !.out = 0, !.in = 0, !.idlnf = FALSE]

\* R_SPI_B_Open: SPE is cleared with all of SPCR, the enable of TEI is not touched.
\* A transfer cut here may raise TEI.
Opened(r) ==
  /\ ctrl' = [ctrl EXCEPT !.open = TRUE]
  /\ \E pend \in {r.tei_pend, r.spe \/ r.tei_pend} :
       reg' = [r EXCEPT !.spe = FALSE, !.out = 0, !.in = 0, !.idlnf = FALSE, !.tei_pend = pend]

\* SPI(1), which opens the driver whatever it is doing.
spi_obj_make_new ==
  /\ PythonRuns
  /\ made < MaxObjs
  /\ made' = made + 1
  /\ is_open' = [is_open EXCEPT ![made'] = TRUE]
  /\ Opened(reg)
  /\ cut' = (cut \/ reg.spe)
  /\ Disturb
  /\ stack' = Disturbed
  /\ UNCHANGED <<sync, memory, foreign, late, calls>>

spi_obj_deinit(o) ==
  /\ PythonRuns
  /\ is_open[o]
  /\ is_open' = [is_open EXCEPT ![o] = FALSE]
  /\ Closed
  /\ Disturb
  /\ stack' = Disturbed
  /\ UNCHANGED <<made, sync, memory, foreign, late, cut, calls>>

\* init() with parameters that pass its checks: spi_set_config closes the driver
\* only if this object has it open.  An init() that raises leaves the driver alone.
spi_obj_init(o) ==
  /\ PythonRuns
  /\ o <= made
  /\ Opened(IF is_open[o] THEN [reg EXCEPT !.spe = FALSE, !.tei_en = FALSE] ELSE reg)
  /\ is_open' = [is_open EXCEPT ![o] = TRUE]
  /\ cut' = (cut \/ (reg.spe /\ ~is_open[o]))
  /\ Disturb
  /\ stack' = Disturbed
  /\ UNCHANGED <<made, sync, memory, foreign, late, calls>>

-----------------------------------------------------------------------------
(* The methods *)

\* A call of read or readinto, which use their buffers alike, of write or of
\* write_readinto.  A closed object raises RuntimeError, an empty transfer returns
\* at once.
Call(o, op, n) ==
  /\ PythonRuns
  /\ is_open[o]
  /\ calls < MaxCalls
  /\ calls' = calls + 1
  /\ Disturb
  /\ stack' = Append(Disturbed, [op |-> op, len |-> n, id |-> calls + 1, pc |-> "init",
                                 result |-> "none", clean |-> TRUE, sent |-> 0, got |-> 0])
  /\ UNCHANGED <<objects, sync, driver, memory, foreign, late, cut>>

spi_sync_init ==
  /\ Running("init")
  /\ Become([Top EXCEPT !.pc = "start", !.clean = ~reg.spe])
  /\ transfer_complete' = FALSE
  /\ transfer_result' = "ok"
  /\ UNCHANGED <<objects, driver, memory, history>>

\* r_spi_b_write_read_common: nothing is changed while a transfer is running ...
WriteReadInUse ==
  /\ Running("start")
  /\ reg.spe
  /\ Become([Top EXCEPT !.pc = "free", !.result = "in_use"])
  /\ UNCHANGED <<objects, sync, driver, memory, history>>

\* ... and otherwise the transfer begins with empty FIFOs.
WriteRead ==
  /\ Running("start")
  /\ ~reg.spe
  /\ Become([Top EXCEPT !.pc = "free"])
  /\ ctrl' = [ctrl EXCEPT !.id = Top.id, !.tx_count = 0, !.rx_count = 0, !.count = Top.len]
  /\ reg' = [reg EXCEPT !.spe = TRUE, !.out = 0, !.in = 0]
  /\ UNCHANGED <<objects, sync, memory, history>>

Dummies(f) == CASE f.op = "read" -> {<<f.id, "tx">>}
                [] f.op = "write" -> {<<f.id, "rx">>}
                [] OTHER -> {}

\* Mutant: the method returns as soon as the transfer has started.
FreeDummiesNoWait ==
  /\ Running("free")
  /\ freed' = freed \cup Dummies(Top)
  /\ Become([Top EXCEPT !.pc = "waited", !.result = IF @ = "none" THEN "ok" ELSE @])
  /\ UNCHANGED <<objects, sync, driver, reused, history>>

\* The dummy buffer is freed "immediately", while the driver uses it.
FreeDummies ==
  /\ Running("free")
  /\ freed' = freed \cup Dummies(Top)
  /\ Become([Top EXCEPT !.pc = IF Top.result = "none" THEN "wait" ELSE "waited"])
  /\ UNCHANGED <<objects, sync, driver, reused, history>>

\* spi_sync_wait finds the flag.
WaitEnds ==
  /\ Running("wait")
  /\ transfer_complete
  /\ Become([Top EXCEPT !.pc = "waited", !.result = transfer_result])
  /\ UNCHANGED <<objects, sync, driver, memory, history>>

WaitTimesOut ==
  /\ Running("wait")
  /\ ~transfer_complete
  /\ Become([Top EXCEPT !.pc = "waited", !.result = "timeout"])
  /\ UNCHANGED <<objects, sync, driver, memory, history>>

\* The method returns or raises, and its other buffers may be collected.
Return ==
  /\ Running("waited")
  /\ freed' = freed \cup (({Top.id} \X {"tx", "rx"}) \ reused)
  /\ stack' = SubSeq(stack, 1, Len(stack) - 1)
  /\ late' = (late \/ (Top.result = "timeout" /\ reg.spe))
  /\ UNCHANGED <<objects, sync, driver, reused, foreign, hooked, cut, calls>>

-----------------------------------------------------------------------------
(* Interrupts and the SPI *)

Foreground == <<objects, sync, memory, hooked, late, cut, calls>>

\* The driver accesses one side of its buffers, which counts for the call that owns them.
Access(side, counter) ==
  /\ foreign' = (foreign \/ <<ctrl.id, side>> \in reused)
  /\ stack' = [i \in DOMAIN stack |-> IF stack[i].id = ctrl.id
                                      THEN [stack[i] EXCEPT ![counter] = @ + 1] ELSE stack[i]]

spi_b_txi_isr ==
  /\ ctrl.open /\ reg.spe
  /\ reg.out < FifoDepth
  /\ ctrl.tx_count < ctrl.count
  /\ ctrl' = [ctrl EXCEPT !.tx_count = @ + 1]
  /\ reg' = [reg EXCEPT !.out = @ + 1, !.idlnf = TRUE]
  /\ Access("tx", "sent")
  /\ UNCHANGED Foreground

Shift ==
  /\ reg.spe
  /\ reg.out > 0 /\ reg.in < FifoDepth
  /\ reg' = [reg EXCEPT !.out = @ - 1, !.in = @ + 1]
  /\ UNCHANGED <<ctrl, stack, foreign, Foreground>>

\* The SPI has nothing more to send, because the transfer is over or TXI is late.
GoIdle ==
  /\ reg.spe /\ reg.idlnf
  /\ reg.out = 0
  /\ reg' = [reg EXCEPT !.idlnf = FALSE, !.tei_pend = TRUE]
  /\ UNCHANGED <<ctrl, stack, foreign, Foreground>>

\* Mutant: TEI is enabled one character too early.
RxiOffByOne ==
  /\ ctrl.open /\ reg.spe
  /\ reg.in > 0
  /\ ctrl' = [ctrl EXCEPT !.rx_count = @ + 1]
  /\ reg' = [reg EXCEPT !.in = @ - 1, !.tei_en = @ \/ ctrl.rx_count + 2 >= ctrl.count]
  /\ Access("rx", "got")
  /\ UNCHANGED Foreground

\* Mutant: TEI is never enabled.
RxiNoTei ==
  /\ ctrl.open /\ reg.spe
  /\ reg.in > 0
  /\ ctrl' = [ctrl EXCEPT !.rx_count = @ + 1]
  /\ reg' = [reg EXCEPT !.in = @ - 1]
  /\ Access("rx", "got")
  /\ UNCHANGED Foreground

\* The last character enables TEI, which may be pending from an earlier idle.
spi_b_rxi_isr ==
  /\ ctrl.open /\ reg.spe
  /\ reg.in > 0
  /\ ctrl' = [ctrl EXCEPT !.rx_count = @ + 1]
  /\ reg' = [reg EXCEPT !.in = @ - 1, !.tei_en = @ \/ ctrl.rx_count + 1 = ctrl.count]
  /\ Access("rx", "got")
  /\ UNCHANGED Foreground

\* spi_callback.
Callback(result) == transfer_complete' = TRUE /\ transfer_result' = result

spi_b_tei_isr ==
  /\ ctrl.open /\ reg.tei_en /\ reg.tei_pend
  /\ IF reg.idlnf
       THEN reg' = [reg EXCEPT !.tei_pend = FALSE] /\ UNCHANGED sync
       ELSE reg' = [reg EXCEPT !.tei_pend = FALSE, !.tei_en = FALSE, !.spe = FALSE] /\ Callback("ok")
  /\ UNCHANGED <<objects, stack, ctrl, memory, history>>

\* An overflow or a parity error.
spi_b_eri_isr ==
  /\ ctrl.open /\ reg.spe
  /\ ctrl.tx_count > 0 /\ ctrl.rx_count < ctrl.count
  /\ reg' = [reg EXCEPT !.spe = FALSE, !.out = 0, !.in = 0, !.idlnf = FALSE]
  /\ Callback("aborted")
  /\ UNCHANGED <<objects, stack, ctrl, memory, history>>

-----------------------------------------------------------------------------

Python ==
  \/ \E b \in Buffers : Reuse(b)
  \/ spi_obj_make_new
  \/ \E o \in Objs : spi_obj_deinit(o) \/ spi_obj_init(o)
  \/ \E o \in Objs, n \in Lens, op \in {"read", "write", "write_readinto"} : Call(o, op, n)

Method ==
  \/ spi_sync_init \/ WriteReadInUse \/ WriteRead \/ FreeDummies
  \/ WaitEnds \/ WaitTimesOut \/ Return

Transfer == spi_b_txi_isr \/ Shift \/ GoIdle \/ spi_b_rxi_isr \/ spi_b_tei_isr

Next == Python \/ Method \/ Transfer \/ spi_b_eri_isr

Spec == Init /\ [][Next]_vars

\* A method goes on, its clock included, and the SPI of a master and its interrupts
\* never wait for a device.  Nothing makes an error happen.
FairSpec == Spec /\ WF_vars(Method) /\ WF_vars(Transfer)

-----------------------------------------------------------------------------
(* Properties *)

\* A call that began with the SPI idle and was not disturbed by Python code in the
\* poll hook is not refused, and reports success only if the driver moved all its
\* characters, both ways, through its own buffers: the end of an earlier transfer,
\* or an idle moment between two characters that left TEI pending, is not taken
\* for the end of this one.  A second object made during a transfer is the exception.
OwnResult ==
  ~cut =>
    \A i \in DOMAIN stack :
      LET f == stack[i] IN
      f.pc = "waited" /\ f.clean =>
        /\ f.result # "in_use"
        /\ f.result = "ok" => f.sent = f.len /\ f.got = f.len

\* The driver reads or writes memory that has been given to somebody else only if
\* Python code ran in a poll hook or a transfer outlived a call that timed out: the early
\* "Free transmit buffer immediately" is harmless as long as only the method runs.
NoForeignMemory == foreign => hooked \/ late

\* Every method returns and every transfer of an open driver ends, whatever calls
\* and new objects came between.
Settles == (stack # <<>> \/ reg.spe) ~> (stack = <<>> /\ (reg.spe => ~ctrl.open))

=============================================================================
