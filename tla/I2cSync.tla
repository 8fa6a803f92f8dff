-------------------------------- MODULE I2cSync --------------------------------
(***************************************************************************)
(* machine.I2C(1): the blocking methods of machine_i2c.c over the          *)
(* interrupt-driven driver r_iic_master.c and its bus.                     *)
(*                                                                         *)
(* A method starts a transfer, waits for the callback's flag, and gives up *)
(* after a timeout without stopping the driver.  The wait runs             *)
(* MICROPY_EVENT_POLL_HOOK, where a scheduled Python callback may call the *)
(* same object again: the calls in progress are a stack of at most two,    *)
(* since callbacks do not nest.  A buffer is named by the number of the    *)
(* call that owns it and is gone when the call returns; bytes are counted. *)
(* DTC, SMBus, 10-bit addresses and parameter checking are off in the      *)
(* configuration.                                                          *)
(***************************************************************************)
EXTENDS Naturals, Sequences

CONSTANTS MaxObjs,   \* bound: the I2C objects a program creates
          MaxAddr,   \* scan() probes the addresses 0 .. MaxAddr
          Devices,   \* the addresses a device answers at
          Lens,      \* bound: the lengths of a transfer
          MaxCalls   \* bound: calls of a transfer method

Addrs == 0 .. MaxAddr

\* An object is named by its turn of creation.
Objs == 1 .. MaxObjs

NULL == 0

ASSUME AddrAssumption == MaxAddr \in Nat /\ Devices \subseteq Addrs
ASSUME BoundsAssumption == MaxObjs \in Nat /\ Lens \subseteq Nat \ {0} /\ MaxCalls \in Nat

VARIABLES
  made,               \* number of objects created
  is_open, transfer_complete, transfer_result,
  stack,              \* the calls in progress, the running one last
  ctrl,               \* the driver's control block
  reg,                \* the bus with the address on it, and the interrupt enables
  wild,               \* history: the driver touched a buffer of no call in progress
  taint,              \* history: a call timed out, or began, while the bus was busy
  calls

objects == <<made, is_open, transfer_complete, transfer_result>>
driver == <<ctrl, reg>>
history == <<wild, taint, calls>>
vars == <<objects, stack, driver, history>>

Idle == [bus |-> "free", wire |-> [slave |-> 0, read |-> FALSE], full |-> FALSE,
         tie |-> TRUE, teie |-> FALSE, txnvic |-> TRUE]

Closed == [open |-> FALSE, context |-> NULL, slave |-> 0, buff |-> 0, total |-> 0, remain |-> 0,
           addr |-> [slave |-> 0, read |-> FALSE], addr_remain |-> 0, read |-> FALSE,
           restart |-> FALSE, restarted |-> FALSE, err |-> FALSE]

Init ==
  /\ made = 0
  /\ is_open = [o \in Objs |-> FALSE]
  /\ transfer_complete = [o \in Objs |-> FALSE]
  /\ transfer_result = [o \in Objs |-> "ok"]
  /\ stack = <<>>
  /\ ctrl = Closed
  /\ reg = Idle
  /\ wild = FALSE
  /\ taint = FALSE
  /\ calls = 0

\* After a repeated START the bus is kept until the next transfer lets TXI through.
Held == reg.bus = "ready" /\ ~reg.txnvic

Busy == reg.bus # "free" /\ ~Held

-----------------------------------------------------------------------------
(* The running call *)

Top == stack[Len(stack)]

Running(from) == stack # <<>> /\ Top.pc = from

Become(f) == stack' = [stack EXCEPT ![Len(stack)] = f]

Step(from, to) == Running(from) /\ Become([Top EXCEPT !.pc = to])

\* Python code runs when no method does, or in the poll hook of the outer call.
PythonRuns == stack = <<>> \/ (Len(stack) = 1 /\ Top.pc = "wait")

\* What it does there is no part of the outer call's transfer.
Disturbed == [i \in DOMAIN stack |-> [stack[i] EXCEPT !.clean = FALSE]]

\* The parameters of the transfer a call starts.
Reads(f) == f.op = "readfrom" \/ (f.op = "readfrom_mem" /\ f.half = "data")

Restarts(f) == f.op = "writeto" \/ Reads(f)

\* scan() passes a null pointer, which is the buffer of no call.
Buffer(f) == IF f.op = "scan" THEN 0 ELSE f.id

Total(f) == IF f.op = "scan" THEN 0 ELSE IF f.half = "addr" THEN 1 ELSE f.len

\* The driver moves a byte between the bus and p_buff.
TouchBuffer(dir) ==
  /\ wild' = (wild \/ \A i \in DOMAIN stack : stack[i].id # ctrl.buff)
  /\ stack' = [i \in DOMAIN stack |->
                 IF stack[i].id = ctrl.buff
                   THEN [stack[i] EXCEPT !.n = @ + 1, !.moves = @ \cup {<<reg.wire.slave, dir>>}]
                   ELSE stack[i]]

-----------------------------------------------------------------------------
(* Objects *)

\* I2C(1): the driver is opened again whatever it is doing, and gets the new
\* object as its context.
i2c_obj_make_new ==
  /\ PythonRuns
  /\ made < MaxObjs
  /\ made' = made + 1
  /\ is_open' = [is_open EXCEPT ![made'] = TRUE]
  /\ ctrl' = [Closed EXCEPT !.open = TRUE, !.context = made', !.addr = ctrl.addr,
                            !.addr_remain = ctrl.addr_remain]
  /\ reg' = Idle
  /\ stack' = Disturbed
  /\ UNCHANGED <<transfer_complete, transfer_result, history>>

\* iic_master_abort_seq_master, the control block's part.
Aborted(c) == [c EXCEPT !.remain = 0, !.restarted = FALSE, !.restart = FALSE]

i2c_obj_deinit(o) ==
  /\ PythonRuns
  /\ is_open[o]
  /\ is_open' = [is_open EXCEPT ![o] = FALSE]
  /\ ctrl' = [Aborted(ctrl) EXCEPT !.open = FALSE]
  /\ reg' = [Idle EXCEPT !.tie = FALSE, !.txnvic = FALSE]
  /\ stack' = Disturbed
  /\ UNCHANGED <<made, transfer_complete, transfer_result, history>>

-----------------------------------------------------------------------------
(* The methods, up to the wait *)

\* A call of scan, readfrom, writeto, readfrom_mem or writeto_mem.  A closed
\* object raises RuntimeError, an empty transfer returns at once.
Call(o, op, a, n) ==
  /\ PythonRuns
  /\ is_open[o]
  /\ calls < MaxCalls
  /\ calls' = calls + 1
  /\ stack' = Append(Disturbed,
                [op |-> op, self |-> o, addr |-> a, len |-> n, id |-> calls + 1,
                 half |-> IF op = "readfrom_mem" THEN "addr" ELSE "only",
                 pc |-> "set", result |-> "none", clean |-> TRUE, n |-> 0, moves |-> {}])
  /\ UNCHANGED <<objects, driver, wild, taint>>

R_IIC_MASTER_SlaveAddressSet ==
  /\ Step("set", "init")
  /\ ctrl' = [ctrl EXCEPT !.slave = Top.addr]
  /\ UNCHANGED <<objects, reg, history>>

i2c_sync_init ==
  /\ Running("init")
  /\ Become([Top EXCEPT !.pc = "program", !.n = 0, !.moves = {}, !.clean = @ /\ ~Busy])
  /\ transfer_complete' = [transfer_complete EXCEPT ![Top.self] = FALSE]
  /\ transfer_result' = [transfer_result EXCEPT ![Top.self] = "ok"]
  /\ taint' = (taint \/ Busy)
  /\ UNCHANGED <<made, is_open, driver, wild, calls>>

\* R_IIC_MASTER_Read and R_IIC_MASTER_Write down to the call of
\* iic_master_run_hw_master: a transfer in progress gets the new parameters.
iic_master_read_write ==
  /\ Step("program", "run")
  /\ ctrl' = [ctrl EXCEPT !.restart = Restarts(Top), !.buff = Buffer(Top), !.total = Total(Top),
                          !.addr = [slave |-> ctrl.slave, read |-> Reads(Top)],
                          !.read = Reads(Top)]
  /\ UNCHANGED <<objects, reg, history>>

\* iic_master_run_hw_master: a new transaction needs a free bus ...
RunHw ==
  /\ ctrl.restarted \/ reg.bus = "free"
  /\ Step("run", "start")
  /\ ctrl' = [ctrl EXCEPT !.remain = ctrl.total, !.addr_remain = 1, !.err = FALSE]
  /\ UNCHANGED <<objects, reg, history>>

RunHwInUse ==
  /\ ~(ctrl.restarted \/ reg.bus = "free")
  /\ Running("run")
  /\ Become([Top EXCEPT !.pc = "waited", !.result = "in_use"])
  /\ UNCHANGED <<objects, driver, history>>

\* Mutant: the method does not wait.
StartHwNoWait ==
  /\ Running("start")
  /\ Become([Top EXCEPT !.pc = "waited", !.result = "ok"])
  /\ ctrl' = [ctrl EXCEPT !.restarted = FALSE]
  /\ reg' = IF ~ctrl.open
              THEN reg
              ELSE [reg EXCEPT !.tie = TRUE, !.teie = FALSE, !.txnvic = TRUE,
                               !.full = @ /\ ctrl.restarted,
                               !.bus = IF ~ctrl.restarted \/ @ = "restarted" THEN "ready" ELSE @]
  /\ UNCHANGED <<objects, history>>

\* ... and begins with a START, a continuation with the TXI that was held back.  A
\* START flag not yet served is cleared.  A stopped module ignores all of it.
StartHw ==
  /\ Step("start", "wait")
  /\ ctrl' = [ctrl EXCEPT !.restarted = FALSE]
  /\ reg' = IF ~ctrl.open
              THEN reg
              ELSE [reg EXCEPT !.tie = TRUE, !.teie = FALSE, !.txnvic = TRUE,
                               !.full = @ /\ ctrl.restarted,
                               !.bus = IF ~ctrl.restarted \/ @ = "restarted" THEN "ready" ELSE @]
  /\ UNCHANGED <<objects, history>>

-----------------------------------------------------------------------------
(* The wait and the end of a method *)

\* i2c_sync_wait finds the flag.
WaitEnds ==
  /\ Running("wait")
  /\ transfer_complete[Top.self]
  /\ Become([Top EXCEPT !.pc = "waited", !.result = transfer_result[Top.self]])
  /\ UNCHANGED <<objects, driver, history>>

\* The driver goes on with the transfer.
WaitTimesOut ==
  /\ Running("wait")
  /\ ~transfer_complete[Top.self]
  /\ Become([Top EXCEPT !.pc = "waited", !.result = "timeout"])
  /\ taint' = (taint \/ Busy)
  /\ UNCHANGED <<objects, driver, wild, calls>>

\* scan() goes on with the next address, whatever the result was.
NextProbe ==
  /\ Running("waited")
  /\ Top.op = "scan" /\ Top.addr < MaxAddr
  /\ Become([Top EXCEPT !.pc = "set", !.addr = @ + 1, !.result = "none", !.clean = TRUE])
  /\ UNCHANGED <<objects, driver, history>>

\* readfrom_mem has written the memory address and reads; the slave address is
\* not set again.
DataHalf ==
  /\ Running("waited")
  /\ Top.half = "addr" /\ Top.result = "ok"
  /\ Become([Top EXCEPT !.pc = "init", !.half = "data", !.result = "none"])
  /\ UNCHANGED <<objects, driver, history>>

\* The method returns or raises; its buffers are freed.
Return ==
  /\ Running("waited")
  /\ ~(Top.op = "scan" /\ Top.addr < MaxAddr)
  /\ ~(Top.half = "addr" /\ Top.result = "ok")
  /\ stack' = SubSeq(stack, 1, Len(stack) - 1)
  /\ UNCHANGED <<objects, driver, history>>

-----------------------------------------------------------------------------
(* The bus and the device *)

Bus(from, to) == reg.bus = from /\ reg' = [reg EXCEPT !.bus = to]

Outside == <<objects, stack, ctrl, history>>

Ack ==
  /\ \/ /\ reg.bus = "addr" /\ reg.wire.slave \in Devices
        /\ reg' = [reg EXCEPT !.bus = IF reg.wire.read THEN "rxfirst"
                                      ELSE IF reg.full THEN "txbyte" ELSE "tend",
                              !.full = FALSE]
     \/ /\ reg.bus = "txbyte"
        /\ reg' = [reg EXCEPT !.bus = IF reg.full THEN "txbyte" ELSE "tend", !.full = FALSE]
  /\ UNCHANGED Outside

\* No device has the address, or it is not ready.
Nack == (Bus("addr", "nack") \/ Bus("txbyte", "nack")) /\ UNCHANGED Outside

BusMoves ==
  /\ Bus("rxbyte", "rxfull") \/ Bus("stop", "stopped") \/ Bus("restart", "restarted")
  /\ UNCHANGED Outside

-----------------------------------------------------------------------------
(* Interrupts *)

\* iic_master_notify and i2c_master_callback, which set the flags of the context.
Notify(result) ==
  /\ transfer_complete' = [o \in Objs |-> o = ctrl.context \/ transfer_complete[o]]
  /\ transfer_result' = [o \in Objs |-> IF o = ctrl.context THEN result ELSE transfer_result[o]]
  /\ UNCHANGED <<made, is_open>>

Txi ==
  /\ reg.tie /\ reg.txnvic
  /\ reg.bus \in {"ready", "tend"} \/ (reg.bus \in {"addr", "txbyte"} /\ ~reg.full)

iic_master_txi_send_address ==
  /\ Txi
  /\ ctrl.addr_remain > 0
  /\ ctrl' = [ctrl EXCEPT !.addr_remain = @ - 1]
  /\ reg' = [reg EXCEPT !.bus = "addr", !.full = FALSE, !.wire = ctrl.addr]
  /\ UNCHANGED <<objects, stack, history>>

\* The last byte hands over to TEI.
iic_master_txi_master ==
  /\ Txi
  /\ ctrl.addr_remain = 0 /\ ~ctrl.read
  /\ LET left == IF ctrl.remain = 0 THEN 0 ELSE ctrl.remain - 1
         load == ctrl.remain > 0
     IN /\ ctrl' = [ctrl EXCEPT !.remain = left]
        /\ reg' = [reg EXCEPT !.full = load /\ reg.bus # "tend",
                              !.bus = IF load /\ @ = "tend" THEN "txbyte" ELSE @,
                              !.tie = left > 0, !.teie = (left = 0)]
        /\ IF load THEN TouchBuffer("write") ELSE UNCHANGED <<stack, wild>>
  /\ UNCHANGED <<objects, taint, calls>>

\* Mutant: a repeated START leaves TXI enabled.
EndTransferTxiOn(r) ==
  IF ctrl.restart
    THEN [r EXCEPT !.bus = "restart", !.teie = FALSE, !.tie = TRUE]
    ELSE [r EXCEPT !.bus = "stop", !.teie = FALSE]

\* The end of a transfer: RESTART with TXI held back in the NVIC, or STOP.
EndTransfer(r) ==
  IF ctrl.restart
    THEN [r EXCEPT !.bus = "restart", !.teie = FALSE, !.tie = TRUE, !.txnvic = FALSE]
    ELSE [r EXCEPT !.bus = "stop", !.teie = FALSE]

iic_master_tei_master ==
  /\ reg.teie /\ reg.bus = "tend"
  /\ IF ctrl.remain = 0
       THEN /\ reg' = EndTransfer(reg)
            /\ ctrl' = [ctrl EXCEPT !.restarted = @ \/ ctrl.restart]
       ELSE /\ reg' = [reg EXCEPT !.teie = FALSE]
            /\ UNCHANGED ctrl
  /\ UNCHANGED <<objects, stack, history>>

\* The first RXI reads a dummy.
iic_master_rxi_master ==
  /\ Bus("rxfirst", "rxbyte")
  /\ UNCHANGED Outside

iic_master_rxi_read_data ==
  /\ reg.bus = "rxfull"
  /\ ctrl.remain > 0
  /\ ctrl' = [ctrl EXCEPT !.remain = @ - 1, !.restarted = @ \/ (ctrl.remain = 1 /\ ctrl.restart)]
  /\ reg' = IF ctrl.remain = 1 THEN EndTransfer(reg) ELSE [reg EXCEPT !.bus = "rxbyte"]
  /\ TouchBuffer("read")
  /\ UNCHANGED <<objects, taint, calls>>

\* iic_master_err_master, a NACK: the STOP it asks for brings the next interrupt.
ErrNack ==
  /\ Bus("nack", "stop")
  /\ ctrl' = [ctrl EXCEPT !.err = TRUE]
  /\ UNCHANGED <<objects, stack, history>>

\* Mutant: the error of the transfer is not looked at.
ErrStopUnchecked ==
  /\ reg.bus = "stopped"
  /\ LET ok == ctrl.remain = 0 IN
       /\ ctrl' = [IF ok THEN ctrl ELSE Aborted(ctrl) EXCEPT !.err = FALSE]
       /\ Notify(IF ok THEN "ok" ELSE "aborted")
  /\ reg' = [reg EXCEPT !.bus = "free", !.tie = TRUE, !.teie = FALSE]
  /\ UNCHANGED <<stack, history>>

\* A STOP: the transfer is over, well or not.
ErrStop ==
  /\ reg.bus = "stopped"
  /\ LET ok == ctrl.remain = 0 /\ ~ctrl.err IN
       /\ ctrl' = [IF ok THEN ctrl ELSE Aborted(ctrl) EXCEPT !.err = FALSE]
       /\ Notify(IF ok THEN "ok" ELSE "aborted")
  /\ reg' = [reg EXCEPT !.bus = "free", !.tie = TRUE, !.teie = FALSE]
  /\ UNCHANGED <<stack, history>>

\* A START the driver asked for as a repeated one ends the transfer as well.
ErrRestart ==
  /\ reg.bus = "restarted"
  /\ IF ctrl.restarted
       THEN /\ Notify(IF ctrl.remain = 0 /\ ~ctrl.err THEN "ok" ELSE "aborted")
            /\ ctrl' = [ctrl EXCEPT !.err = FALSE]
            /\ reg' = [reg EXCEPT !.bus = "ready", !.tie = TRUE, !.teie = FALSE]
       ELSE /\ reg' = [reg EXCEPT !.bus = "ready"]
            /\ UNCHANGED <<objects, ctrl>>
  /\ UNCHANGED <<stack, history>>

\* Mutant: the controller is not reset.
ErrTimeoutNoReset ==
  /\ reg.bus # "free" /\ ~ctrl.restarted
  /\ ctrl' = [Aborted(ctrl) EXCEPT !.err = FALSE]
  /\ reg' = [reg EXCEPT !.tie = TRUE, !.teie = FALSE]
  /\ Notify("aborted")
  /\ UNCHANGED <<stack, history>>

\* The IIC's own timeout, or a lost arbitration: abort, reset and notify.  The
\* detection is off from a repeated START to the next transfer.
ErrTimeout ==
  /\ reg.bus # "free" /\ ~ctrl.restarted
  /\ ctrl' = [Aborted(ctrl) EXCEPT !.err = FALSE]
  /\ reg' = Idle
  /\ Notify("aborted")
  /\ UNCHANGED <<stack, history>>

-----------------------------------------------------------------------------

Python ==
  \/ i2c_obj_make_new
  \/ \E o \in Objs : i2c_obj_deinit(o) \/ Call(o, "scan", 0, 0)
  \/ \E o \in Objs, a \in Addrs, n \in Lens,
        op \in {"readfrom", "writeto", "readfrom_mem", "writeto_mem"} : Call(o, op, a, n)

Method ==
  \/ R_IIC_MASTER_SlaveAddressSet \/ i2c_sync_init \/ iic_master_read_write
  \/ RunHw \/ RunHwInUse \/ StartHw \/ WaitEnds \/ WaitTimesOut
  \/ NextProbe \/ DataHalf \/ Return

Handler ==
  \/ iic_master_txi_send_address \/ iic_master_txi_master \/ iic_master_tei_master
  \/ iic_master_rxi_master \/ iic_master_rxi_read_data
  \/ ErrNack \/ ErrStop \/ ErrRestart

Next == Python \/ Method \/ Handler \/ Ack \/ Nack \/ BusMoves \/ ErrTimeout

Spec == Init /\ [][Next]_vars

\* A method goes on, its clock included; the controller serves its interrupts and
\* ends what it has begun, if only by its timeout.  No device has to answer.
FairSpec ==
  /\ Spec
  /\ WF_vars(Method) /\ WF_vars(Handler) /\ WF_vars(BusMoves) /\ WF_vars(ErrTimeout)

-----------------------------------------------------------------------------
(* Properties *)

\* A call that began on a quiet bus and was not disturbed by Python code in the
\* poll hook reports success only for its own transfer: a device answered at its
\* address, and every byte went between that device and its own buffer, in its
\* direction.  So scan() lists no device that is not there, a late completion is
\* not taken for another call's, and such a call is never refused as in use.
OwnResult ==
  \A i \in DOMAIN stack :
    LET f == stack[i] IN
    f.pc = "waited" /\ f.clean =>
      /\ f.result # "in_use"
      /\ f.result = "ok" =>
           /\ f.addr \in Devices
           /\ f.n = Total(f)
           /\ f.moves \subseteq {<<f.addr, IF Reads(f) THEN "read" ELSE "write">>}

\* The driver touches the buffer of a call that has returned only after a call
\* timed out, or was made, while the bus was busy: the methods wait before they
\* free their buffers, but neither stop a transfer that is late nor keep the
\* parameters of the one in progress.
NoWildAccess == wild => taint

\* A repeated START that waits for its continuation is known to the driver, keeps
\* TXI from the processor, and the flag is never left over when the bus is free:
\* the next transfer neither continues what is not there nor finds the bus in use.
ContinuationIsHeld ==
  /\ Held => ctrl.restarted
  /\ ctrl.restarted => reg.bus \in {"restart", "restarted", "ready"} /\ ~reg.txnvic

\* Every method returns and the bus becomes quiet, free or held, whatever devices
\* do and whatever calls were made in a poll hook.
Settles == (stack # <<>> \/ Busy) ~> (stack = <<>> /\ ~Busy)

=============================================================================
