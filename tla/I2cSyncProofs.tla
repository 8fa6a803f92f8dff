----------------------------- MODULE I2cSyncProofs -----------------------------
(***************************************************************************)
(* What machine.I2C promises, for any number of objects and calls, any     *)
(* addresses, devices and lengths.                                         *)
(*                                                                         *)
(* HoldInv ties the driver's restarted flag to the bus, so a quiet bus     *)
(* moves only when a call starts it (QuietBus).  StackInv says that a call *)
(* below the running one is disturbed and waits, so only the running call  *)
(* has to be followed.  PrepInv follows it from i2c_sync_init to the       *)
(* START, OwnerInv finds the call whose buffer a busy bus uses, and        *)
(* CleanInv relates the transfer on the bus, byte by byte, to the call     *)
(* that waits for it and to the flag and the result it will find.          *)
(***************************************************************************)
EXTENDS I2cSync, SequenceTheorems, TLAPS

\* Where a call is, what it does and how it ends.
Pcs == {"set", "init", "program", "run", "start", "wait", "waited"}
Ops == {"scan", "readfrom", "writeto", "readfrom_mem", "writeto_mem"}
Halves == {"only", "addr", "data"}
Results == {"none", "ok", "in_use", "timeout", "aborted"}
\* The states of the bus.
Buses == {"free", "ready", "addr", "txbyte", "tend", "rxfirst", "rxbyte", "rxfull",
          "nack", "stop", "stopped", "restart", "restarted"}
Address == [slave : Addrs, read : BOOLEAN]

Frame == [op : Ops, self : Objs, addr : Addrs, len : Nat, id : Nat \ {0}, half : Halves,
          pc : Pcs, result : Results, clean : BOOLEAN, n : Nat,
          moves : SUBSET (Addrs \X {"read", "write"})]

Control == [open : BOOLEAN, context : Nat, slave : Addrs, buff : Nat, total : Nat, remain : Nat,
            addr : Address, addr_remain : Nat, read : BOOLEAN, restart : BOOLEAN,
            restarted : BOOLEAN, err : BOOLEAN]

Registers == [bus : Buses, wire : Address, full : BOOLEAN, tie : BOOLEAN, teie : BOOLEAN,
              txnvic : BOOLEAN]

\* Every variable has its type.
TypeOK ==
  /\ made \in 0 .. MaxObjs
  /\ is_open \in [Objs -> BOOLEAN]
  /\ transfer_complete \in [Objs -> BOOLEAN]
  /\ transfer_result \in [Objs -> {"ok", "aborted"}]
  /\ stack \in Seq(Frame)
  /\ ctrl \in Control
  /\ reg \in Registers
  /\ wild \in BOOLEAN /\ taint \in BOOLEAN
  /\ calls \in Nat

-----------------------------------------------------------------------------
(* The stack *)

LEMMA TopType ==
  ASSUME TypeOK, stack # <<>>
  PROVE  /\ stack \in Seq(Frame) /\ Len(stack) \in Nat /\ Len(stack) \in 1 .. Len(stack)
         /\ DOMAIN stack = 1 .. Len(stack) /\ Top \in Frame
  <1>1. stack \in Seq(Frame) BY DEF TypeOK
  <1>2. Len(stack) \in Nat /\ Len(stack) # 0 /\ DOMAIN stack = 1 .. Len(stack)
    BY <1>1, LenProperties, EmptySeq
  <1>3. Len(stack) \in 1 .. Len(stack) BY <1>2
  <1>4. QED BY <1>1, <1>2, <1>3, ElementOfSeq DEF Top

\* A step of the running call changes its frame and no other.
LEMMA BecomeFrame ==
  ASSUME TypeOK, stack # <<>>, NEW f \in Frame, Become(f)
  PROVE  /\ stack' \in Seq(Frame) /\ stack' # <<>> /\ Len(stack') = Len(stack)
         /\ Top' = f
         /\ \A i \in 1 .. Len(stack) : i # Len(stack) => stack'[i] = stack[i]
  <1>1. stack \in Seq(Frame) /\ Len(stack) \in Nat /\ Len(stack) \in 1 .. Len(stack) BY TopType
  <1>2. stack' = [stack EXCEPT ![Len(stack)] = f] BY DEF Become
  <1>3. stack' \in Seq(Frame) /\ Len(stack') = Len(stack)
    BY <1>1, <1>2, ExceptSeq
  <1>4. \A i \in 1 .. Len(stack) : stack'[i] = IF i = Len(stack) THEN f ELSE stack[i]
    BY <1>1, <1>2, ExceptSeq
  <1>5. stack' # <<>> BY <1>1, <1>3
  <1>6. Top' = f BY <1>1, <1>3, <1>4 DEF Top
  <1>7. QED BY <1>3, <1>4, <1>5, <1>6

LEMMA DisturbedType ==
  ASSUME TypeOK
  PROVE  /\ Disturbed \in Seq(Frame) /\ Len(Disturbed) = Len(stack)
         /\ \A i \in 1 .. Len(stack) : Disturbed[i] = [stack[i] EXCEPT !.clean = FALSE]
  <1>1. stack \in Seq(Frame) BY DEF TypeOK
  <1>2. DOMAIN stack = 1 .. Len(stack) /\ Len(stack) \in Nat BY <1>1, LenProperties
  <1>3. \A i \in 1 .. Len(stack) : stack[i] \in Frame BY <1>1, ElementOfSeq
  <1>4. ASSUME NEW f \in Frame PROVE [f EXCEPT !.clean = FALSE] \in Frame BY DEF Frame
  <1>5. Disturbed \in [1 .. Len(stack) -> Frame] BY <1>2, <1>3, <1>4 DEF Disturbed
  <1>6. Disturbed \in Seq(Frame) /\ Len(Disturbed) = Len(stack)
    BY <1>2, <1>5, IsASeq, LenProperties
  <1>7. QED BY <1>2, <1>6 DEF Disturbed

\* What the driver does to a frame.
LEMMA TouchFrames ==
  ASSUME TypeOK, NEW dir \in {"read", "write"}, TouchBuffer(dir)
  PROVE  /\ stack' \in Seq(Frame) /\ Len(stack') = Len(stack)
         /\ \A i \in 1 .. Len(stack) : stack'[i] =
              IF stack[i].id = ctrl.buff
                THEN [stack[i] EXCEPT !.n = @ + 1, !.moves = @ \cup {<<reg.wire.slave, dir>>}]
                ELSE stack[i]
  <1>1. stack \in Seq(Frame) BY DEF TypeOK
  <1>2. DOMAIN stack = 1 .. Len(stack) /\ Len(stack) \in Nat BY <1>1, LenProperties
  <1>3. \A i \in 1 .. Len(stack) : stack[i] \in Frame BY <1>1, ElementOfSeq
  <1>4. reg.wire.slave \in Addrs BY DEF TypeOK, Registers, Address
  <1>5. ASSUME NEW f \in Frame
        PROVE  [f EXCEPT !.n = @ + 1, !.moves = @ \cup {<<reg.wire.slave, dir>>}] \in Frame
    <2>1. f.n + 1 \in Nat BY DEF Frame
    <2>2. f.moves \cup {<<reg.wire.slave, dir>>} \in SUBSET (Addrs \X {"read", "write"})
      BY <1>4 DEF Frame
    <2> HIDE DEF Addrs
    <2>3. QED BY <2>1, <2>2 DEF Frame
  <1>6. stack' \in [1 .. Len(stack) -> Frame] BY <1>2, <1>3, <1>5 DEF TouchBuffer
  <1>7. stack' \in Seq(Frame) /\ Len(stack') = Len(stack)
    BY <1>2, <1>6, IsASeq, LenProperties
  <1>8. QED BY <1>2, <1>7 DEF TouchBuffer

LEMMA NotifyType ==
  ASSUME TypeOK, NEW r \in {"ok", "aborted"}, Notify(r)
  PROVE  /\ transfer_complete' \in [Objs -> BOOLEAN]
         /\ transfer_result' \in [Objs -> {"ok", "aborted"}]
         /\ UNCHANGED <<made, is_open>>
  BY DEF TypeOK, Notify

\* The initial and the idle values have their types.
LEMMA InitialTypes == Idle \in Registers /\ Closed \in Control /\ 0 \in Addrs
  <1>1. 0 \in Addrs BY AddrAssumption DEF Addrs
  <1>2. QED BY <1>1 DEF Idle, Closed, Registers, Control, Buses, Address, NULL

LEMMA TypePython ==
  ASSUME TypeOK, Python
  PROVE  TypeOK'
  <1>1. CASE i2c_obj_make_new
    <2>1. made' \in 0 .. MaxObjs /\ made' \in Objs /\ made' \in Nat
      BY <1>1, BoundsAssumption DEF i2c_obj_make_new, TypeOK, Objs
    <2>2. is_open' \in [Objs -> BOOLEAN] BY <1>1, <2>1 DEF i2c_obj_make_new, TypeOK
    <2>3. ctrl' \in Control
      <3>1. ctrl.addr \in Address /\ ctrl.addr_remain \in Nat BY DEF TypeOK, Control
      <3>2. QED BY <1>1, <2>1, <3>1, InitialTypes DEF i2c_obj_make_new, Control
    <2>4. stack' \in Seq(Frame) BY <1>1, DisturbedType DEF i2c_obj_make_new
    <2>5. QED BY <1>1, <2>1, <2>2, <2>3, <2>4, InitialTypes DEF i2c_obj_make_new, TypeOK, history
  <1>2. ASSUME NEW o \in Objs, i2c_obj_deinit(o) PROVE TypeOK'
    <2>1. is_open' \in [Objs -> BOOLEAN] BY <1>2 DEF i2c_obj_deinit, TypeOK
    <2>2. ctrl' \in Control BY <1>2 DEF i2c_obj_deinit, TypeOK, Control, Aborted
    <2>3. reg' \in Registers BY <1>2, InitialTypes DEF i2c_obj_deinit, Registers
    <2>4. stack' \in Seq(Frame) BY <1>2, DisturbedType DEF i2c_obj_deinit
    <2>5. QED BY <1>2, <2>1, <2>2, <2>3, <2>4 DEF i2c_obj_deinit, TypeOK, history
  <1>3. ASSUME NEW o \in Objs, NEW op \in Ops, NEW a \in Addrs, NEW n \in Nat, Call(o, op, a, n)
        PROVE  TypeOK'
    <2> DEFINE f == [op |-> op, self |-> o, addr |-> a, len |-> n, id |-> calls + 1,
                     half |-> IF op = "readfrom_mem" THEN "addr" ELSE "only",
                     pc |-> "set", result |-> "none", clean |-> TRUE, n |-> 0, moves |-> {}]
    <2>1. calls + 1 \in Nat \ {0} /\ calls' \in Nat BY <1>3 DEF TypeOK, Call
    <2>2. f \in Frame BY <2>1 DEF Frame, Pcs, Halves, Results
    <2>3. stack' = Append(Disturbed, f) BY <1>3 DEF Call
    <2> HIDE DEF f
    <2>4. stack' \in Seq(Frame) BY <2>2, <2>3, DisturbedType, AppendProperties
    <2>5. QED BY <1>3, <2>1, <2>4 DEF TypeOK, Call, objects, driver
  <1>4. ASSUME NEW o \in Objs, Call(o, "scan", 0, 0) PROVE TypeOK'
    BY <1>3, <1>4, InitialTypes DEF Ops
  <1>5. ASSUME NEW o \in Objs, NEW a \in Addrs, NEW n \in Lens,
               NEW op \in {"readfrom", "writeto", "readfrom_mem", "writeto_mem"}, Call(o, op, a, n)
        PROVE  TypeOK'
    <2>1. n \in Nat /\ op \in Ops BY BoundsAssumption DEF Ops
    <2>2. QED BY <1>3, <1>5, <2>1
  <1>6. QED BY <1>1, <1>2, <1>4, <1>5 DEF Python

LEMMA TypeMethod ==
  ASSUME TypeOK, Method
  PROVE  TypeOK'
  <1>1. stack # <<>> /\ Top \in Frame
    BY TopType DEF Method, R_IIC_MASTER_SlaveAddressSet, i2c_sync_init, iic_master_read_write,
       RunHw, RunHwInUse, StartHw, WaitEnds, WaitTimesOut, NextProbe, DataHalf, Return, Step,
       Running
  <1>2. /\ Top.self \in Objs /\ Top.addr \in Addrs /\ Top.id \in Nat /\ Top.len \in Nat
    BY <1>1 DEF Frame
  <1>3. ASSUME NEW to \in Pcs PROVE [Top EXCEPT !.pc = to] \in Frame BY <1>1 DEF Frame
  <1>4. ASSUME NEW from, NEW to \in Pcs, Step(from, to) PROVE stack' \in Seq(Frame)
    BY <1>1, <1>3, <1>4, BecomeFrame DEF Step
  <1>5. CASE R_IIC_MASTER_SlaveAddressSet
    <2>1. stack' \in Seq(Frame) BY <1>4, <1>5 DEF R_IIC_MASTER_SlaveAddressSet, Pcs
    <2>2. ctrl' \in Control BY <1>2, <1>5 DEF R_IIC_MASTER_SlaveAddressSet, TypeOK, Control
    <2>3. QED BY <1>5, <2>1, <2>2 DEF R_IIC_MASTER_SlaveAddressSet, TypeOK, objects, history
  <1>6. CASE i2c_sync_init
    <2>1. [Top EXCEPT !.pc = "program", !.n = 0, !.moves = {}, !.clean = @ /\ ~Busy] \in Frame
      BY <1>1 DEF Frame, Pcs
    <2>2. stack' \in Seq(Frame) BY <1>1, <1>6, <2>1, BecomeFrame DEF i2c_sync_init
    <2>3. /\ transfer_complete' \in [Objs -> BOOLEAN]
          /\ transfer_result' \in [Objs -> {"ok", "aborted"}]
      BY <1>2, <1>6 DEF i2c_sync_init, TypeOK
    <2>4. taint' \in BOOLEAN BY <1>6 DEF i2c_sync_init
    <2>5. QED BY <1>6, <2>2, <2>3, <2>4 DEF i2c_sync_init, TypeOK, driver
  <1>7. CASE iic_master_read_write
    <2>1. stack' \in Seq(Frame) BY <1>4, <1>7 DEF iic_master_read_write, Pcs
    <2>2. /\ Restarts(Top) \in BOOLEAN /\ Reads(Top) \in BOOLEAN /\ Buffer(Top) \in Nat
          /\ Total(Top) \in Nat
      BY <1>2 DEF Restarts, Reads, Buffer, Total
    <2>3. [slave |-> ctrl.slave, read |-> Reads(Top)] \in Address
      BY <2>2 DEF TypeOK, Control, Address
    <2>4. ctrl' \in Control
      BY <1>7, <2>2, <2>3 DEF iic_master_read_write, TypeOK, Control
    <2>5. QED BY <1>7, <2>1, <2>4 DEF iic_master_read_write, TypeOK, objects, history
  <1>8. CASE RunHw
    <2>1. stack' \in Seq(Frame) BY <1>4, <1>8 DEF RunHw, Pcs
    <2>2. ctrl' \in Control BY <1>8 DEF RunHw, TypeOK, Control
    <2>3. QED BY <1>8, <2>1, <2>2 DEF RunHw, TypeOK, objects, history
  <1>9. CASE RunHwInUse
    <2>1. [Top EXCEPT !.pc = "waited", !.result = "in_use"] \in Frame
      BY <1>1 DEF Frame, Pcs, Results
    <2>2. stack' \in Seq(Frame) BY <1>1, <1>9, <2>1, BecomeFrame DEF RunHwInUse
    <2>3. QED BY <1>9, <2>2 DEF RunHwInUse, TypeOK, objects, driver, history
  <1>10. CASE StartHw
    <2>1. stack' \in Seq(Frame) BY <1>4, <1>10 DEF StartHw, Pcs
    <2>2. ctrl' \in Control BY <1>10 DEF StartHw, TypeOK, Control
    <2>3. reg' \in Registers
      <3>1. reg \in Registers BY DEF TypeOK
      <3>2. QED BY <1>10, <3>1 DEF StartHw, Registers, Buses
    <2>4. QED BY <1>10, <2>1, <2>2, <2>3 DEF StartHw, TypeOK, objects, history
  <1>11. CASE WaitEnds
    <2>1. transfer_result[Top.self] \in Results BY <1>2 DEF TypeOK, Results
    <2>2. [Top EXCEPT !.pc = "waited", !.result = transfer_result[Top.self]] \in Frame
      BY <1>1, <2>1 DEF Frame, Pcs
    <2>3. stack' \in Seq(Frame) BY <1>1, <1>11, <2>2, BecomeFrame DEF WaitEnds
    <2>4. QED BY <1>11, <2>3 DEF WaitEnds, TypeOK, objects, driver, history
  <1>12. CASE WaitTimesOut
    <2>1. [Top EXCEPT !.pc = "waited", !.result = "timeout"] \in Frame
      BY <1>1 DEF Frame, Pcs, Results
    <2>2. stack' \in Seq(Frame) BY <1>1, <1>12, <2>1, BecomeFrame DEF WaitTimesOut
    <2>3. taint' \in BOOLEAN BY <1>12 DEF WaitTimesOut
    <2>4. QED BY <1>12, <2>2, <2>3 DEF WaitTimesOut, TypeOK, objects, driver
  <1>13. CASE NextProbe
    <2>1. Top.addr + 1 \in Addrs BY <1>2, <1>13, AddrAssumption DEF NextProbe, Addrs
    <2>2. [Top EXCEPT !.pc = "set", !.addr = @ + 1, !.result = "none", !.clean = TRUE] \in Frame
      BY <1>1, <2>1 DEF Frame, Pcs, Results
    <2>3. stack' \in Seq(Frame) BY <1>1, <1>13, <2>2, BecomeFrame DEF NextProbe
    <2>4. QED BY <1>13, <2>3 DEF NextProbe, TypeOK, objects, driver, history
  <1>14. CASE DataHalf
    <2>1. [Top EXCEPT !.pc = "init", !.half = "data", !.result = "none"] \in Frame
      BY <1>1 DEF Frame, Pcs, Results, Halves
    <2>2. stack' \in Seq(Frame) BY <1>1, <1>14, <2>1, BecomeFrame DEF DataHalf
    <2>3. QED BY <1>14, <2>2 DEF DataHalf, TypeOK, objects, driver, history
  <1>15. CASE Return
    <2>1. stack' \in Seq(Frame)
      <3>1. stack \in Seq(Frame) /\ Len(stack) \in 1 .. Len(stack) /\ Len(stack) \in Nat
        BY <1>1, TopType
      <3>2. \A i \in 1 .. Len(stack) - 1 : stack[i] \in Frame BY <3>1, ElementOfSeq
      <3>3. QED BY <1>15, <3>1, <3>2, SubSeqProperties DEF Return
    <2>2. QED BY <1>15, <2>1 DEF Return, TypeOK, objects, driver, history
  <1>16. QED
    BY <1>5, <1>6, <1>7, <1>8, <1>9, <1>10, <1>11, <1>12, <1>13, <1>14, <1>15 DEF Method

LEMMA TypeBus ==
  ASSUME TypeOK, Handler \/ Ack \/ Nack \/ BusMoves \/ ErrTimeout
  PROVE  TypeOK'
  <1>1. reg \in Registers /\ ctrl \in Control BY DEF TypeOK
  <1>2. ASSUME NEW b \in Buses PROVE [reg EXCEPT !.bus = b] \in Registers BY <1>1 DEF Registers
  <1>3. ASSUME NEW from, NEW to \in Buses, Bus(from, to) PROVE reg' \in Registers
    BY <1>2, <1>3 DEF Bus
  <1>4. EndTransfer(reg) \in Registers BY <1>1 DEF EndTransfer, Registers, Buses
  <1>5. CASE iic_master_txi_send_address
    <2>1. ctrl' \in Control BY <1>1, <1>5 DEF iic_master_txi_send_address, Control
    <2>2. reg' \in Registers
      BY <1>1, <1>5 DEF iic_master_txi_send_address, Control, Registers, Buses
    <2>3. QED BY <1>5, <2>1, <2>2 DEF iic_master_txi_send_address, TypeOK, objects, history
  <1>6. CASE iic_master_txi_master
    <2> DEFINE left == IF ctrl.remain = 0 THEN 0 ELSE ctrl.remain - 1
               load == ctrl.remain > 0
    <2>1. left \in Nat /\ load \in BOOLEAN /\ (left > 0) \in BOOLEAN /\ (left = 0) \in BOOLEAN
      BY <1>1 DEF Control
    <2>2. ctrl' = [ctrl EXCEPT !.remain = left] BY <1>6 DEF iic_master_txi_master
    <2>3. reg' = [reg EXCEPT !.full = load /\ reg.bus # "tend",
                             !.bus = IF load /\ @ = "tend" THEN "txbyte" ELSE @,
                             !.tie = left > 0, !.teie = (left = 0)]
      BY <1>6 DEF iic_master_txi_master
    <2>4. IF load THEN TouchBuffer("write") ELSE UNCHANGED <<stack, wild>>
      BY <1>6 DEF iic_master_txi_master
    <2> HIDE DEF left, load
    <2>5. ctrl' \in Control BY <1>1, <2>1, <2>2 DEF Control
    <2>6. reg' \in Registers BY <1>1, <2>1, <2>3 DEF Registers, Buses
    <2>7. stack' \in Seq(Frame) /\ wild' \in BOOLEAN
      <3>1. CASE load BY <2>4, <3>1, TouchFrames DEF TouchBuffer
      <3>2. CASE ~load BY <2>4, <3>2 DEF TypeOK
      <3>3. QED BY <3>1, <3>2
    <2>8. QED BY <1>6, <2>5, <2>6, <2>7 DEF iic_master_txi_master, TypeOK, objects
  <1>7. CASE iic_master_tei_master
    <2>1. ctrl' \in Control BY <1>1, <1>7 DEF iic_master_tei_master, Control
    <2>2. reg' \in Registers BY <1>1, <1>4, <1>7 DEF iic_master_tei_master, Registers
    <2>3. QED BY <1>7, <2>1, <2>2 DEF iic_master_tei_master, TypeOK, objects, history
  <1>8. CASE iic_master_rxi_master
    <2>1. reg' \in Registers BY <1>3, <1>8 DEF iic_master_rxi_master, Buses
    <2>2. QED BY <1>8, <2>1 DEF iic_master_rxi_master, TypeOK, Outside, objects, history
  <1>9. CASE iic_master_rxi_read_data
    <2>1. ctrl' \in Control
      <3>1. ctrl.remain - 1 \in Nat BY <1>1, <1>9 DEF iic_master_rxi_read_data, Control
      <3>2. QED BY <1>1, <1>9, <3>1 DEF iic_master_rxi_read_data, Control
    <2>2. reg' \in Registers BY <1>2, <1>4, <1>9 DEF iic_master_rxi_read_data, Buses
    <2>3. stack' \in Seq(Frame) /\ wild' \in BOOLEAN
      BY <1>9, TouchFrames DEF iic_master_rxi_read_data, TouchBuffer
    <2>4. QED BY <1>9, <2>1, <2>2, <2>3 DEF iic_master_rxi_read_data, TypeOK, objects
  <1>10. CASE ErrNack
    <2>1. reg' \in Registers BY <1>3, <1>10 DEF ErrNack, Buses
    <2>2. ctrl' \in Control BY <1>1, <1>10 DEF ErrNack, Control
    <2>3. QED BY <1>10, <2>1, <2>2 DEF ErrNack, TypeOK, objects, history
  <1>11. CASE ErrStop
    <2> DEFINE ok == ctrl.remain = 0 /\ ~ctrl.err
    <2>1. ctrl' \in Control BY <1>1, <1>11 DEF ErrStop, Control, Aborted
    <2>2. reg' \in Registers BY <1>1, <1>11 DEF ErrStop, Registers, Buses
    <2>3. /\ transfer_complete' \in [Objs -> BOOLEAN]
          /\ transfer_result' \in [Objs -> {"ok", "aborted"}]
          /\ UNCHANGED <<made, is_open>>
      BY <1>11, NotifyType DEF ErrStop
    <2>4. QED BY <1>11, <2>1, <2>2, <2>3 DEF ErrStop, TypeOK, history
  <1>12. CASE ErrRestart
    <2>1. ctrl' \in Control BY <1>1, <1>12 DEF ErrRestart, Control
    <2>2. reg' \in Registers BY <1>1, <1>12 DEF ErrRestart, Registers, Buses
    <2>3. /\ transfer_complete' \in [Objs -> BOOLEAN]
          /\ transfer_result' \in [Objs -> {"ok", "aborted"}]
          /\ UNCHANGED <<made, is_open>>
      <3>1. CASE ctrl.restarted BY <1>12, <3>1, NotifyType DEF ErrRestart
      <3>2. CASE ~ctrl.restarted BY <1>12, <3>2 DEF ErrRestart, TypeOK, objects
      <3>3. QED BY <3>1, <3>2
    <2>4. QED BY <1>12, <2>1, <2>2, <2>3 DEF ErrRestart, TypeOK, history
  <1>13. CASE ErrTimeout
    <2>1. ctrl' \in Control BY <1>1, <1>13 DEF ErrTimeout, Control, Aborted
    <2>2. /\ transfer_complete' \in [Objs -> BOOLEAN]
          /\ transfer_result' \in [Objs -> {"ok", "aborted"}]
          /\ UNCHANGED <<made, is_open>>
      BY <1>13, NotifyType DEF ErrTimeout
    <2>3. QED BY <1>13, <2>1, <2>2, InitialTypes DEF ErrTimeout, TypeOK, history
  <1>14. CASE Ack
    <2>1. reg' \in Registers BY <1>1, <1>14 DEF Ack, Registers, Buses
    <2>2. QED BY <1>14, <2>1 DEF Ack, TypeOK, Outside, objects, history
  <1>15. CASE Nack
    <2>1. reg' \in Registers BY <1>3, <1>15 DEF Nack, Buses
    <2>2. QED BY <1>15, <2>1 DEF Nack, TypeOK, Outside, objects, history
  <1>16. CASE BusMoves
    <2>1. reg' \in Registers BY <1>3, <1>16 DEF BusMoves, Buses
    <2>2. QED BY <1>16, <2>1 DEF BusMoves, TypeOK, Outside, objects, history
  <1>17. QED
    BY <1>5, <1>6, <1>7, <1>8, <1>9, <1>10, <1>11, <1>12, <1>13, <1>14, <1>15, <1>16 DEF Handler

\* Every variable has its type: the driver's counts never become negative, and
\* scan() stays within its range of addresses.
THEOREM I2cTypeCorrect == Spec => []TypeOK
  <1>1. Init => TypeOK
    <2> SUFFICES ASSUME Init PROVE TypeOK
      OBVIOUS
    <2>1. stack \in Seq(Frame) BY DEF Init
    <2>2. /\ is_open \in [Objs -> BOOLEAN] /\ transfer_complete \in [Objs -> BOOLEAN]
          /\ transfer_result \in [Objs -> {"ok", "aborted"}]
      BY DEF Init
    <2>3. made \in 0 .. MaxObjs /\ calls \in Nat BY BoundsAssumption DEF Init
    <2>4. QED BY <2>1, <2>2, <2>3, InitialTypes DEF Init, TypeOK
  <1>2. TypeOK /\ [Next]_vars => TypeOK'
    <2>1. TypeOK /\ UNCHANGED vars => TypeOK'
      BY DEF TypeOK, vars, objects, driver, history
    <2>2. QED BY <2>1, TypePython, TypeMethod, TypeBus DEF Next
  <1>3. QED BY <1>1, <1>2, PTL DEF Spec

-----------------------------------------------------------------------------
(* The bus between two transfers *)

\* ContinuationIsHeld, also on the way to a repeated START; a closed driver keeps
\* the bus free.
HoldInv ==
  /\ ContinuationIsHeld
  /\ reg.bus \in {"restart", "restarted"} /\ ~reg.txnvic => ctrl.restarted
  /\ ~ctrl.open => reg.bus = "free"

LEMMA HoldStep ==
  ASSUME TypeOK, HoldInv, [Next]_vars
  PROVE  HoldInv'
  <1>1. reg \in Registers /\ ctrl \in Control BY DEF TypeOK
  <1>2. /\ reg.bus = "ready" /\ ~reg.txnvic => ctrl.restarted
        /\ ctrl.restarted => reg.bus \in {"restart", "restarted", "ready"} /\ ~reg.txnvic
        /\ reg.bus \in {"restart", "restarted"} /\ ~reg.txnvic => ctrl.restarted
        /\ ~ctrl.open => reg.bus = "free"
    BY DEF HoldInv, ContinuationIsHeld, Held
  <1>3. ASSUME /\ reg'.bus = "ready" /\ ~reg'.txnvic => ctrl'.restarted
               /\ ctrl'.restarted => reg'.bus \in {"restart", "restarted", "ready"} /\ ~reg'.txnvic
               /\ reg'.bus \in {"restart", "restarted"} /\ ~reg'.txnvic => ctrl'.restarted
               /\ ~ctrl'.open => reg'.bus = "free"
        PROVE  HoldInv'
    BY <1>3 DEF HoldInv, ContinuationIsHeld, Held
  <1>4. ASSUME UNCHANGED driver PROVE HoldInv'
    BY <1>4 DEF HoldInv, ContinuationIsHeld, Held, driver
  <1>5. CASE i2c_obj_make_new
    BY <1>3, <1>5 DEF i2c_obj_make_new, Idle, Closed
  <1>6. ASSUME NEW o \in Objs, i2c_obj_deinit(o) PROVE HoldInv'
    BY <1>1, <1>3, <1>6 DEF i2c_obj_deinit, Idle, Aborted, Control
  <1>7. ASSUME NEW o, NEW op, NEW a, NEW n, Call(o, op, a, n) PROVE HoldInv'
    BY <1>4, <1>7 DEF Call
  <1>8. CASE R_IIC_MASTER_SlaveAddressSet
    BY <1>1, <1>2, <1>3, <1>8 DEF R_IIC_MASTER_SlaveAddressSet, Control
  <1>9. CASE \/ i2c_sync_init \/ RunHwInUse \/ WaitEnds \/ WaitTimesOut \/ NextProbe
             \/ DataHalf \/ Return
    BY <1>4, <1>9 DEF i2c_sync_init, RunHwInUse, WaitEnds, WaitTimesOut, NextProbe, DataHalf, Return
  <1>10. CASE iic_master_read_write
    BY <1>1, <1>2, <1>3, <1>10 DEF iic_master_read_write, Control
  <1>11. CASE RunHw
    BY <1>1, <1>2, <1>3, <1>11 DEF RunHw, Control
  <1>12. CASE StartHw
    BY <1>1, <1>2, <1>3, <1>12 DEF StartHw, Control, Registers
  <1>13. CASE iic_master_txi_send_address
    BY <1>1, <1>2, <1>3, <1>13 DEF iic_master_txi_send_address, Txi, Control, Registers
  <1>14. CASE iic_master_txi_master
    BY <1>1, <1>2, <1>3, <1>14 DEF iic_master_txi_master, Txi, Control, Registers
  <1>15. CASE iic_master_tei_master
    BY <1>1, <1>2, <1>3, <1>15, ZenonT(60)
       DEF iic_master_tei_master, EndTransfer, Control, Registers
  <1>16. CASE iic_master_rxi_master
    BY <1>1, <1>2, <1>3, <1>16 DEF iic_master_rxi_master, Bus, Outside, Registers
  <1>17. CASE iic_master_rxi_read_data
    BY <1>1, <1>2, <1>3, <1>17 DEF iic_master_rxi_read_data, EndTransfer, Control, Registers
  <1>18. CASE ErrNack
    BY <1>1, <1>2, <1>3, <1>18 DEF ErrNack, Bus, Control, Registers
  <1>19. CASE ErrStop
    BY <1>1, <1>2, <1>3, <1>19 DEF ErrStop, Aborted, Control, Registers
  <1>20. CASE ErrRestart
    BY <1>1, <1>2, <1>3, <1>20, ZenonT(60) DEF ErrRestart, Control, Registers
  <1>21. CASE ErrTimeout
    BY <1>1, <1>2, <1>3, <1>21 DEF ErrTimeout, Idle, Aborted, Control
  <1>22. CASE Ack
    BY <1>1, <1>2, <1>3, <1>22 DEF Ack, Outside, Registers
  <1>23. CASE Nack
    BY <1>1, <1>2, <1>3, <1>23 DEF Nack, Bus, Outside, Registers
  <1>24. CASE BusMoves
    BY <1>1, <1>2, <1>3, <1>24 DEF BusMoves, Bus, Outside, Registers
  <1>25. CASE UNCHANGED vars
    BY <1>4, <1>25 DEF vars, driver
  <1>26. CASE Python BY <1>5, <1>6, <1>7, <1>26 DEF Python
  <1>27. CASE Method BY <1>8, <1>9, <1>10, <1>11, <1>12, <1>27 DEF Method
  <1>28. CASE Handler
    BY <1>13, <1>14, <1>15, <1>16, <1>17, <1>18, <1>19, <1>20, <1>28 DEF Handler
  <1>29. QED BY <1>21, <1>22, <1>23, <1>24, <1>25, <1>26, <1>27, <1>28 DEF Next

\* A repeated START that waits for its continuation is known to the driver and
\* keeps TXI from the processor, and the driver never believes in one that is not
\* there, whatever calls, timeouts and new objects came before.
THEOREM ContinuationCorrect == Spec => []ContinuationIsHeld
  <1>1. Init => HoldInv
    BY DEF Init, HoldInv, ContinuationIsHeld, Held, Idle, Closed
  <1>2. TypeOK /\ HoldInv /\ [Next]_vars => HoldInv' BY HoldStep
  <1>3. HoldInv => ContinuationIsHeld BY DEF HoldInv
  <1>4. QED BY <1>1, <1>2, <1>3, I2cTypeCorrect, PTL DEF Spec

-----------------------------------------------------------------------------
(* Who owns the transfer in progress *)

BusStep == Handler \/ Ack \/ Nack \/ BusMoves \/ ErrTimeout

\* Only a call makes a quiet bus busy.
LEMMA QuietBus ==
  ASSUME TypeOK, HoldInv, BusStep
  PROVE  Busy
  <1>1. /\ reg.bus = "ready" /\ ~reg.txnvic => ctrl.restarted
    BY DEF HoldInv, ContinuationIsHeld, Held
  <1>2. CASE Handler
    BY <1>2 DEF Handler, iic_master_txi_send_address, iic_master_txi_master,
       iic_master_tei_master, iic_master_rxi_master, iic_master_rxi_read_data, ErrNack, ErrStop,
       ErrRestart, Txi, Bus, Busy, Held
  <1>3. CASE Ack \/ Nack \/ BusMoves
    BY <1>3 DEF Ack, Nack, BusMoves, Bus, Busy, Held
  <1>4. CASE ErrTimeout
    BY <1>1, <1>4 DEF ErrTimeout, Busy, Held
  <1>5. QED BY <1>2, <1>3, <1>4 DEF BusStep

\* What the bus and the handlers leave alone: the frames but for the bytes moved.
SameFrame(f, g) ==
  /\ g.op = f.op /\ g.self = f.self /\ g.addr = f.addr /\ g.len = f.len /\ g.id = f.id
  /\ g.half = f.half /\ g.pc = f.pc /\ g.result = f.result /\ g.clean = f.clean

LEMMA BusFrames ==
  ASSUME TypeOK, BusStep
  PROVE  /\ Len(stack') = Len(stack) /\ UNCHANGED taint
         /\ \A i \in 1 .. Len(stack) : SameFrame(stack[i], stack'[i])
  <1>1. ASSUME NEW dir \in {"read", "write"}, TouchBuffer(dir)
        PROVE  /\ Len(stack') = Len(stack)
               /\ \A i \in 1 .. Len(stack) : SameFrame(stack[i], stack'[i])
    <2>1. \A i \in 1 .. Len(stack) : stack[i] \in Frame BY ElementOfSeq DEF TypeOK
    <2>2. \A f \in Frame : SameFrame(f, f) BY DEF SameFrame
    <2>3. ASSUME NEW i \in 1 .. Len(stack) PROVE SameFrame(stack[i], stack'[i])
      <3>1. CASE stack[i].id = ctrl.buff
        <4>1. stack'[i] = [stack[i] EXCEPT !.n = stack[i].n + 1,
                             !.moves = stack[i].moves \cup {<<reg.wire.slave, dir>>}]
          BY <1>1, <3>1, TouchFrames
        <4>2. stack[i] \in Frame BY <2>1
        <4>3. QED BY <4>1, <4>2 DEF SameFrame, Frame
      <3>2. CASE stack[i].id # ctrl.buff
        <4>1. stack'[i] = stack[i] BY <1>1, <3>2, TouchFrames
        <4>2. QED BY <2>1, <2>2, <4>1
      <3>3. QED BY <3>1, <3>2
    <2>4. Len(stack') = Len(stack) BY <1>1, TouchFrames
    <2>5. QED BY <2>3, <2>4
  <1>2. ASSUME UNCHANGED stack
        PROVE  /\ Len(stack') = Len(stack)
               /\ \A i \in 1 .. Len(stack) : SameFrame(stack[i], stack'[i])
    BY <1>2 DEF SameFrame
  <1>3. UNCHANGED taint
    BY DEF BusStep, Handler, iic_master_txi_send_address, iic_master_txi_master,
       iic_master_tei_master, iic_master_rxi_master, iic_master_rxi_read_data, ErrNack, ErrStop,
       ErrRestart, Ack, Nack, BusMoves, ErrTimeout, Outside, history
  <1>4. CASE iic_master_txi_master
    BY <1>1, <1>2, <1>3, <1>4 DEF iic_master_txi_master
  <1>5. CASE iic_master_rxi_read_data
    BY <1>1, <1>3, <1>5 DEF iic_master_rxi_read_data
  <1>6. CASE \/ iic_master_txi_send_address \/ iic_master_tei_master \/ iic_master_rxi_master
             \/ ErrNack \/ ErrStop \/ ErrRestart \/ Ack \/ Nack \/ BusMoves \/ ErrTimeout
    <2>1. UNCHANGED stack
      BY <1>6 DEF iic_master_txi_send_address, iic_master_tei_master, iic_master_rxi_master,
         ErrNack, ErrStop, ErrRestart, Ack, Nack, BusMoves, ErrTimeout, Outside
    <2>2. QED BY <1>2, <1>3, <2>1
  <1>7. QED BY <1>4, <1>5, <1>6 DEF BusStep, Handler

LEMMA BusTop ==
  ASSUME TypeOK, BusStep, stack' # <<>>
  PROVE  stack # <<>> /\ SameFrame(Top, Top')
  <1>1. Len(stack') = Len(stack) /\ \A i \in 1 .. Len(stack) : SameFrame(stack[i], stack'[i])
    BY BusFrames
  <1>2. stack \in Seq(Frame) /\ stack' \in Seq(Frame) BY TypeBus DEF TypeOK, BusStep
  <1>3. stack # <<>> BY <1>1, <1>2, EmptySeq
  <1>4. Len(stack) \in 1 .. Len(stack) BY <1>3, TopType
  <1>5. SameFrame(stack[Len(stack)], stack'[Len(stack)]) BY <1>1, <1>4
  <1>6. QED BY <1>1, <1>3, <1>5 DEF Top

\* A step ends the transfer and sets the flag of its object, or leaves the
\* flags alone.
LEMMA NotifyOrKeep ==
  ASSUME TypeOK, HoldInv, BusStep
  PROVE  \/ ~Busy'
         \/ UNCHANGED objects /\ ctrl'.buff = ctrl.buff /\ (ctrl'.remain > 0 => ctrl.remain > 0)
  <1>1. reg \in Registers /\ ctrl \in Control BY DEF TypeOK
  <1>2. CASE iic_master_txi_send_address
    BY <1>1, <1>2 DEF iic_master_txi_send_address, Control
  <1>3. CASE iic_master_txi_master
    BY <1>1, <1>3 DEF iic_master_txi_master, Control
  <1>4. CASE iic_master_tei_master
    BY <1>1, <1>4 DEF iic_master_tei_master, Control
  <1>5. CASE iic_master_rxi_read_data
    BY <1>1, <1>5 DEF iic_master_rxi_read_data, Control
  <1>6. CASE ErrNack
    BY <1>1, <1>6 DEF ErrNack, Control
  <1>7. CASE iic_master_rxi_master \/ Ack \/ Nack \/ BusMoves
    BY <1>7 DEF iic_master_rxi_master, Ack, Nack, BusMoves, Outside
  <1>8. CASE ErrStop
    BY <1>1, <1>8 DEF ErrStop, Busy, Registers
  <1>9. CASE ErrRestart
    <2>1. CASE ctrl.restarted
      <3>1. ~reg.txnvic BY <2>1 DEF HoldInv, ContinuationIsHeld
      <3>2. reg'.bus = "ready" /\ reg'.txnvic = reg.txnvic
        BY <1>1, <1>9, <2>1 DEF ErrRestart, Registers
      <3>3. QED BY <3>1, <3>2 DEF Busy, Held
    <2>2. CASE ~ctrl.restarted
      BY <1>9, <2>2 DEF ErrRestart
    <2>3. QED BY <2>1, <2>2
  <1>10. CASE ErrTimeout
    BY <1>10 DEF ErrTimeout, Idle, Busy
  <1>11. QED
    BY <1>2, <1>3, <1>4, <1>5, <1>6, <1>7, <1>8, <1>9, <1>10 DEF BusStep, Handler

\* Only the running call is undisturbed; the outer one waits.
StackInv ==
  \A i \in 1 .. Len(stack) : i # Len(stack) => ~stack[i].clean /\ stack[i].pc = "wait"

\* A method leaves the stack with its frame changed, or returns.
LEMMA MethodFrames ==
  ASSUME TypeOK, Method
  PROVE  /\ stack # <<>>
         /\ \/ /\ stack' # <<>> /\ Len(stack') = Len(stack)
               /\ \A i \in 1 .. Len(stack) : i # Len(stack) => stack'[i] = stack[i]
            \/ Return
  <1>1. stack # <<>>
    BY DEF Method, R_IIC_MASTER_SlaveAddressSet, i2c_sync_init, iic_master_read_write,
       RunHw, RunHwInUse, StartHw, WaitEnds, WaitTimesOut, NextProbe, DataHalf, Return, Step,
       Running
  <1>2. stack \in Seq(Frame) /\ Len(stack) \in Nat /\ Len(stack) \in 1 .. Len(stack)
    BY <1>1, TopType
  <1>3. ASSUME NEW f, Become(f)
        PROVE  /\ stack' # <<>> /\ Len(stack') = Len(stack)
               /\ \A i \in 1 .. Len(stack) : i # Len(stack) => stack'[i] = stack[i]
    <2>1. stack' = [stack EXCEPT ![Len(stack)] = f] BY <1>3 DEF Become
    <2>2. stack \in [1 .. Len(stack) -> Frame] BY <1>2, LenProperties, ElementOfSeq
    <2>3. stack' \in Seq(Frame) BY TypeMethod DEF TypeOK
    <2>4. DOMAIN stack' = 1 .. Len(stack) /\ DOMAIN stack' = 1 .. Len(stack')
      BY <2>1, <2>2, <2>3, LenProperties
    <2>5. Len(stack') = Len(stack)
      <3>1. Len(stack') \in Nat BY <2>3, LenProperties, ZenonT(60)
      <3>2. QED BY <1>2, <2>4, <3>1
    <2>6. \A i \in 1 .. Len(stack) : i # Len(stack) => stack'[i] = stack[i] BY <2>1, <2>2
    <2>7. stack' # <<>>
      <3>1. Len(stack') # 0 BY <1>2, <2>5
      <3>2. QED BY <3>1
    <2>8. QED BY <2>5, <2>6, <2>7
  <1>4. \/ \E f : Become(f)
        \/ Return
    BY DEF Method, R_IIC_MASTER_SlaveAddressSet, i2c_sync_init, iic_master_read_write,
       RunHw, RunHwInUse, StartHw, WaitEnds, WaitTimesOut, NextProbe, DataHalf, Step
  <1>5. QED BY <1>1, <1>3, <1>4

LEMMA ReturnFrames ==
  ASSUME TypeOK, Return
  PROVE  /\ stack # <<>> /\ Len(stack) \in Nat /\ Len(stack') = Len(stack) - 1
         /\ \A i \in 1 .. Len(stack) - 1 : stack'[i] = stack[i]
  <1>1. stack # <<>> BY DEF Return, Running
  <1>2. stack \in Seq(Frame) /\ Len(stack) \in Nat /\ Len(stack) \in 1 .. Len(stack)
    BY <1>1, TopType
  <1>3. \A i \in 1 .. Len(stack) - 1 : stack[i] \in Frame BY <1>2, ElementOfSeq
  <1>4. stack' = SubSeq(stack, 1, Len(stack) - 1) BY DEF Return
  <1>5. /\ Len(stack') = IF 1 <= Len(stack) - 1 THEN Len(stack) - 1 - 1 + 1 ELSE 0
        /\ \A i \in 1 .. Len(stack) - 1 - 1 + 1 : stack'[i] = stack[1 + i - 1]
    BY <1>2, <1>3, <1>4, SubSeqProperties
  <1>6. Len(stack') = Len(stack) - 1
    <2>1. \A k \in Nat : k \in 1 .. k => (IF 1 <= k - 1 THEN k - 1 - 1 + 1 ELSE 0) = k - 1
      OBVIOUS
    <2>2. QED BY <1>2, <1>5, <2>1, Zenon
  <1>7. ASSUME NEW i \in 1 .. Len(stack) - 1 PROVE stack'[i] = stack[i]
    <2>1. i \in 1 .. Len(stack) - 1 - 1 + 1 /\ 1 + i - 1 = i BY <1>2
    <2>2. QED BY <1>5, <2>1
  <1>8. QED BY <1>1, <1>2, <1>6, <1>7

LEMMA CallFrames ==
  ASSUME TypeOK, NEW o, NEW op, NEW a, NEW n, Call(o, op, a, n)
  PROVE  /\ Len(stack') = Len(stack) + 1 /\ Len(stack) \in Nat
         /\ stack'[Len(stack) + 1].pc = "set" /\ stack'[Len(stack) + 1].clean = TRUE
         /\ \A i \in 1 .. Len(stack) : stack'[i] = [stack[i] EXCEPT !.clean = FALSE]
         /\ UNCHANGED <<objects, driver, wild, taint>>
         /\ stack # <<>> => Len(stack) = 1 /\ Top.pc = "wait"
  <1> DEFINE f == [op |-> op, self |-> o, addr |-> a, len |-> n, id |-> calls + 1,
                   half |-> IF op = "readfrom_mem" THEN "addr" ELSE "only",
                   pc |-> "set", result |-> "none", clean |-> TRUE, n |-> 0, moves |-> {}]
  <1>1. stack' = Append(Disturbed, f) BY DEF Call
  <1>2. f.pc = "set" /\ f.clean = TRUE OBVIOUS
  <1> HIDE DEF f
  <1>3. /\ Disturbed \in Seq(Frame) /\ Len(Disturbed) = Len(stack) /\ Len(stack) \in Nat
        /\ \A i \in 1 .. Len(stack) : Disturbed[i] = [stack[i] EXCEPT !.clean = FALSE]
    BY DisturbedType, LenProperties, ZenonT(60) DEF TypeOK
  <1>4. /\ Len(stack') = Len(stack) + 1 /\ stack'[Len(stack) + 1] = f
        /\ \A i \in 1 .. Len(stack) : stack'[i] = Disturbed[i]
    BY <1>1, <1>3
  <1>5. QED BY <1>2, <1>3, <1>4 DEF Call, PythonRuns

\* The frame of the running call after each step of a method.
LEMMA MethodTop ==
  ASSUME TypeOK, Method
  PROVE  /\ stack # <<>> /\ Top \in Frame
         /\ R_IIC_MASTER_SlaveAddressSet => Top' = [Top EXCEPT !.pc = "init"]
         /\ i2c_sync_init =>
              Top' = [Top EXCEPT !.pc = "program", !.n = 0, !.moves = {}, !.clean = @ /\ ~Busy]
         /\ iic_master_read_write => Top' = [Top EXCEPT !.pc = "run"]
         /\ RunHw => Top' = [Top EXCEPT !.pc = "start"]
         /\ RunHwInUse => Top' = [Top EXCEPT !.pc = "waited", !.result = "in_use"]
         /\ StartHw => Top' = [Top EXCEPT !.pc = "wait"]
         /\ WaitEnds => Top' = [Top EXCEPT !.pc = "waited", !.result = transfer_result[Top.self]]
         /\ WaitTimesOut => Top' = [Top EXCEPT !.pc = "waited", !.result = "timeout"]
         /\ NextProbe =>
              Top' = [Top EXCEPT !.pc = "set", !.addr = @ + 1, !.result = "none", !.clean = TRUE]
         /\ DataHalf => Top' = [Top EXCEPT !.pc = "init", !.half = "data", !.result = "none"]
  <1>1. stack # <<>> /\ Top \in Frame BY MethodFrames, TopType
  <1>2. ASSUME NEW f \in Frame, Become(f) PROVE Top' = f BY <1>1, <1>2, BecomeFrame
  <1>3. ASSUME R_IIC_MASTER_SlaveAddressSet PROVE Top' = [Top EXCEPT !.pc = "init"]
    <2>1. [Top EXCEPT !.pc = "init"] \in Frame
      BY <1>1 DEF Frame, Pcs, Halves, Results
    <2>2. QED BY <1>2, <1>3, <2>1 DEF R_IIC_MASTER_SlaveAddressSet, Step
  <1>4. ASSUME i2c_sync_init
        PROVE  Top' = [Top EXCEPT !.pc = "program", !.n = 0, !.moves = {}, !.clean = @ /\ ~Busy]
    <2>1. [Top EXCEPT !.pc = "program", !.n = 0, !.moves = {}, !.clean = @ /\ ~Busy] \in Frame
      BY <1>1 DEF Frame, Pcs, Halves, Results
    <2>2. QED BY <1>2, <1>4, <2>1 DEF i2c_sync_init
  <1>5. ASSUME iic_master_read_write PROVE Top' = [Top EXCEPT !.pc = "run"]
    <2>1. [Top EXCEPT !.pc = "run"] \in Frame
      BY <1>1 DEF Frame, Pcs, Halves, Results
    <2>2. QED BY <1>2, <1>5, <2>1 DEF iic_master_read_write, Step
  <1>6. ASSUME RunHw PROVE Top' = [Top EXCEPT !.pc = "start"]
    <2>1. [Top EXCEPT !.pc = "start"] \in Frame
      BY <1>1 DEF Frame, Pcs, Halves, Results
    <2>2. QED BY <1>2, <1>6, <2>1 DEF RunHw, Step
  <1>7. ASSUME RunHwInUse PROVE Top' = [Top EXCEPT !.pc = "waited", !.result = "in_use"]
    <2>1. [Top EXCEPT !.pc = "waited", !.result = "in_use"] \in Frame
      BY <1>1 DEF Frame, Pcs, Halves, Results
    <2>2. QED BY <1>2, <1>7, <2>1 DEF RunHwInUse
  <1>8. ASSUME StartHw PROVE Top' = [Top EXCEPT !.pc = "wait"]
    <2>1. [Top EXCEPT !.pc = "wait"] \in Frame
      BY <1>1 DEF Frame, Pcs, Halves, Results
    <2>2. QED BY <1>2, <1>8, <2>1 DEF StartHw, Step
  <1>9. ASSUME WaitEnds
        PROVE  Top' = [Top EXCEPT !.pc = "waited", !.result = transfer_result[Top.self]]
    <2>1. transfer_result[Top.self] \in Results BY <1>1 DEF TypeOK, Frame, Results
    <2>2. [Top EXCEPT !.pc = "waited", !.result = transfer_result[Top.self]] \in Frame
      BY <1>1, <2>1 DEF Frame, Pcs, Halves, Results
    <2>3. QED BY <1>2, <1>9, <2>2 DEF WaitEnds
  <1>10. ASSUME WaitTimesOut PROVE Top' = [Top EXCEPT !.pc = "waited", !.result = "timeout"]
    <2>1. [Top EXCEPT !.pc = "waited", !.result = "timeout"] \in Frame
      BY <1>1 DEF Frame, Pcs, Halves, Results
    <2>2. QED BY <1>2, <1>10, <2>1 DEF WaitTimesOut
  <1>11. ASSUME NextProbe
        PROVE  Top' = [Top EXCEPT !.pc = "set", !.addr = @ + 1, !.result = "none", !.clean = TRUE]
    <2>1. Top.addr + 1 \in Addrs BY <1>1, <1>11, AddrAssumption DEF NextProbe, Frame, Addrs
    <2>2. [Top EXCEPT !.pc = "set", !.addr = @ + 1, !.result = "none", !.clean = TRUE] \in Frame
      BY <1>1, <2>1 DEF Frame, Pcs, Halves, Results
    <2>3. QED BY <1>2, <1>11, <2>2 DEF NextProbe
  <1>12. ASSUME DataHalf
        PROVE  Top' = [Top EXCEPT !.pc = "init", !.half = "data", !.result = "none"]
    <2>1. [Top EXCEPT !.pc = "init", !.half = "data", !.result = "none"] \in Frame
      BY <1>1 DEF Frame, Pcs, Halves, Results
    <2>2. QED BY <1>2, <1>12, <2>1 DEF DataHalf
  <1>13. QED BY <1>1, <1>3, <1>4, <1>5, <1>6, <1>7, <1>8, <1>9, <1>10, <1>11, <1>12, SMTT(60)

LEMMA StackStep ==
  ASSUME TypeOK, StackInv, [Next]_vars
  PROVE  StackInv'
  <1>1. stack \in Seq(Frame) /\ Len(stack) \in Nat BY LenProperties DEF TypeOK
  <1>2. \A i \in 1 .. Len(stack) : stack[i] \in Frame BY <1>1, ElementOfSeq
  <1>3. ASSUME stack' = Disturbed PROVE StackInv'
    <2>1. /\ Len(stack') = Len(stack)
          /\ \A i \in 1 .. Len(stack) : stack'[i] = [stack[i] EXCEPT !.clean = FALSE]
      BY <1>3, DisturbedType
    <2>2. \A i \in 1 .. Len(stack) : stack'[i].clean = FALSE /\ stack'[i].pc = stack[i].pc
      BY <1>2, <2>1 DEF Frame
    <2>3. QED BY <2>1, <2>2 DEF StackInv
  <1>4. ASSUME NEW o, NEW op, NEW a, NEW n, Call(o, op, a, n) PROVE StackInv'
    <2>1. /\ Len(stack') = Len(stack) + 1
          /\ \A i \in 1 .. Len(stack) : stack'[i] = [stack[i] EXCEPT !.clean = FALSE]
          /\ stack # <<>> => Len(stack) = 1 /\ Top.pc = "wait"
      BY <1>4, CallFrames
    <2>2. \A i \in 1 .. Len(stack) : stack'[i].clean = FALSE /\ stack'[i].pc = stack[i].pc
      BY <1>2, <2>1 DEF Frame
    <2>3. \A i \in 1 .. Len(stack) : stack[i].pc = "wait"
      <3>1. ASSUME NEW i \in 1 .. Len(stack) PROVE stack[i].pc = "wait"
        <4>1. stack # <<>> BY <1>1, EmptySeq
        <4>2. i = Len(stack)
          <5>1. \A k \in 1 .. 1 : k = 1 OBVIOUS
          <5>2. Len(stack) = 1 BY <2>1, <4>1
          <5>3. QED BY <5>1, <5>2, Zenon
        <4>3. QED BY <2>1, <4>1, <4>2 DEF Top
      <3>2. QED BY <3>1
    <2>4. ASSUME NEW i \in 1 .. Len(stack'), i # Len(stack') PROVE i \in 1 .. Len(stack)
      BY <1>1, <2>1, <2>4
    <2>5. QED BY <2>2, <2>3, <2>4 DEF StackInv
  <1>5. CASE Method
    <2>1. CASE Return
      <3>1. /\ stack # <<>> /\ Len(stack') = Len(stack) - 1
            /\ \A i \in 1 .. Len(stack) - 1 : stack'[i] = stack[i]
        BY <2>1, ReturnFrames
      <3>2. ASSUME NEW i \in 1 .. Len(stack')
            PROVE  stack'[i] = stack[i] /\ i \in 1 .. Len(stack) /\ i # Len(stack)
        BY <1>1, <3>1
      <3>3. QED BY <3>2 DEF StackInv
    <2>2. CASE ~Return
      BY <1>5, <2>2, MethodFrames DEF StackInv
    <2>3. QED BY <2>1, <2>2
  <1>6. CASE BusStep
    BY <1>6, BusFrames DEF StackInv, SameFrame
  <1>7. CASE Python
    BY <1>3, <1>4, <1>7 DEF Python, i2c_obj_make_new, i2c_obj_deinit
  <1>8. CASE UNCHANGED vars BY <1>8 DEF vars, StackInv
  <1>9. QED BY <1>5, <1>6, <1>7, <1>8 DEF Next, BusStep

\* The driver has the parameters of the transfer f starts.
Programmed(f) ==
  /\ ctrl.addr = [slave |-> ctrl.slave, read |-> Reads(f)]
  /\ ctrl.read = Reads(f)
  /\ ctrl.buff = Buffer(f)

\* From i2c_sync_init to the START, a call that found the bus quiet has it for
\* itself.  A call found it quiet if it is undisturbed, and every call did as
\* long as nothing is tainted.
PrepInv ==
  stack # <<>> /\ (Top.clean \/ ~taint) =>
    /\ Top.pc \in {"program", "run", "start"} =>
         ~Busy /\ ~transfer_complete[Top.self] /\ Top.n = 0 /\ Top.moves = {}
    /\ Top.pc \in {"run", "start"} => Programmed(Top) /\ ctrl.total = Total(Top)
    /\ Top.pc = "start" => ctrl.remain = Total(Top) /\ ctrl.addr_remain = 1

LEMMA PrepStep ==
  ASSUME TypeOK, HoldInv, StackInv, PrepInv, [Next]_vars
  PROVE  PrepInv'
  <1>1. SUFFICES ASSUME stack' # <<>>, Top'.clean \/ ~taint',
                        Top'.pc \in {"program", "run", "start"}
                 PROVE  /\ ~Busy' /\ ~transfer_complete'[Top'.self]
                        /\ Top'.n = 0 /\ Top'.moves = {}
                        /\ Top'.pc \in {"run", "start"} =>
                             Programmed(Top)' /\ ctrl'.total = Total(Top')
                        /\ Top'.pc = "start" => ctrl'.remain = Total(Top') /\ ctrl'.addr_remain = 1
    BY DEF PrepInv, Programmed
  <1>2. stack \in Seq(Frame) /\ Len(stack) \in Nat BY LenProperties DEF TypeOK
  <1>3. \A i \in 1 .. Len(stack) : stack[i] \in Frame BY <1>2, ElementOfSeq
  <1>4. ctrl \in Control BY DEF TypeOK
  <1>5. ASSUME PythonRuns, stack' = Disturbed PROVE FALSE
    <2>1. /\ Len(stack') = Len(stack) /\ stack' \in Seq(Frame)
          /\ \A i \in 1 .. Len(stack) : stack'[i] = [stack[i] EXCEPT !.clean = FALSE]
      BY <1>5, DisturbedType
    <2>2. stack # <<>>
      BY <1>1, <1>2, <2>1, EmptySeq
    <2>3. Top.pc = "wait" /\ Len(stack) \in 1 .. Len(stack) BY <1>5, <2>2, TopType DEF PythonRuns
    <2>4. Top' = [Top EXCEPT !.clean = FALSE] BY <2>1, <2>3 DEF Top
    <2>5. Top \in Frame BY <1>3, <2>3 DEF Top
    <2>6. Top'.pc = "wait" BY <2>3, <2>4, <2>5 DEF Frame
    <2>7. QED BY <1>1, <2>6
  <1>6. ASSUME NEW o, NEW op, NEW a, NEW n, Call(o, op, a, n) PROVE FALSE
    BY <1>1, <1>6, CallFrames DEF Top
  <1>7. ASSUME Method PROVE stack # <<>> /\ Top \in Frame BY <1>7, MethodTop
  <1>8. CASE i2c_sync_init
    <2> DEFINE f == [Top EXCEPT !.pc = "program", !.n = 0, !.moves = {}, !.clean = @ /\ ~Busy]
    <2>1. stack # <<>> /\ Top \in Frame
      BY <1>8, MethodTop DEF Method, i2c_sync_init
    <2>2. Top' = f BY <1>8, MethodTop DEF Method
    <2>3. /\ f.pc = "program" /\ f.n = 0 /\ f.moves = {} /\ f.self = Top.self
          /\ (f.clean => ~Busy)
      BY <2>1 DEF Frame
    <2>4. taint' = (taint \/ Busy) /\ UNCHANGED reg BY <1>8 DEF i2c_sync_init, driver
    <2>5. ~Busy BY <1>1, <2>2, <2>3, <2>4
    <2>6. ~Busy' BY <2>4, <2>5 DEF Busy, Held
    <2>7. ~transfer_complete'[Top.self]
      BY <1>8, <2>1 DEF i2c_sync_init, TypeOK, Frame
    <2> HIDE DEF f
    <2>8. QED BY <2>2, <2>3, <2>6, <2>7
  <1>9. CASE iic_master_read_write
    <2> DEFINE f == [Top EXCEPT !.pc = "run"]
    <2>1. stack # <<>> /\ Top \in Frame /\ Top.pc = "program"
      BY <1>9, MethodTop DEF Method, iic_master_read_write, Step, Running
    <2>2. Top' = f BY <1>9, MethodTop DEF Method
    <2>3. /\ f.pc = "run" /\ f.n = Top.n /\ f.moves = Top.moves /\ f.self = Top.self
          /\ f.clean = Top.clean /\ f.op = Top.op /\ f.half = Top.half /\ f.id = Top.id
          /\ f.len = Top.len
      BY <2>1 DEF Frame
    <2> HIDE DEF f
    <2>4. UNCHANGED <<reg, taint, transfer_complete>>
      BY <1>9 DEF iic_master_read_write, objects, history
    <2>5. ~Busy /\ ~transfer_complete[Top.self] /\ Top.n = 0 /\ Top.moves = {}
      BY <1>1, <2>1, <2>2, <2>3, <2>4 DEF PrepInv
    <2>6. /\ Reads(f) = Reads(Top) /\ Buffer(f) = Buffer(Top) /\ Total(f) = Total(Top)
      BY <2>3 DEF Reads, Buffer, Total
    <2>7. /\ ctrl'.addr = [slave |-> ctrl.slave, read |-> Reads(Top)]
          /\ ctrl'.read = Reads(Top) /\ ctrl'.buff = Buffer(Top) /\ ctrl'.total = Total(Top)
          /\ ctrl'.slave = ctrl.slave
      BY <1>4, <1>9 DEF iic_master_read_write, Control
    <2>8. Programmed(Top)' BY <2>2, <2>6, <2>7 DEF Programmed, Reads, Buffer
    <2>9. ~Busy' BY <2>4, <2>5 DEF Busy, Held
    <2>10. QED BY <2>2, <2>3, <2>4, <2>5, <2>6, <2>7, <2>8, <2>9
  <1>10. CASE RunHw
    <2> DEFINE f == [Top EXCEPT !.pc = "start"]
    <2>1. stack # <<>> /\ Top \in Frame /\ Top.pc = "run"
      BY <1>10, MethodTop DEF Method, RunHw, Step, Running
    <2>2. Top' = f BY <1>10, MethodTop DEF Method
    <2>3. /\ f.pc = "start" /\ f.n = Top.n /\ f.moves = Top.moves /\ f.self = Top.self
          /\ f.clean = Top.clean /\ f.op = Top.op /\ f.half = Top.half /\ f.id = Top.id
          /\ f.len = Top.len
      BY <2>1 DEF Frame
    <2> HIDE DEF f
    <2>4. UNCHANGED <<reg, taint, transfer_complete>>
      BY <1>10 DEF RunHw, objects, history
    <2>5. /\ ~Busy /\ ~transfer_complete[Top.self] /\ Top.n = 0 /\ Top.moves = {}
          /\ Programmed(Top) /\ ctrl.total = Total(Top)
      BY <1>1, <2>1, <2>2, <2>3, <2>4 DEF PrepInv
    <2>6. /\ Reads(f) = Reads(Top) /\ Buffer(f) = Buffer(Top) /\ Total(f) = Total(Top)
      BY <2>3 DEF Reads, Buffer, Total
    <2>7. /\ ctrl'.addr = ctrl.addr /\ ctrl'.read = ctrl.read /\ ctrl'.buff = ctrl.buff
          /\ ctrl'.total = ctrl.total /\ ctrl'.slave = ctrl.slave
          /\ ctrl'.remain = ctrl.total /\ ctrl'.addr_remain = 1
      BY <1>4, <1>10 DEF RunHw, Control
    <2>8. Programmed(Top)' BY <2>2, <2>5, <2>6, <2>7 DEF Programmed, Reads, Buffer
    <2>9. ~Busy' BY <2>4, <2>5 DEF Busy, Held
    <2>10. QED BY <2>2, <2>3, <2>4, <2>5, <2>6, <2>7, <2>8, <2>9
  <1>11. CASE \/ R_IIC_MASTER_SlaveAddressSet \/ RunHwInUse \/ StartHw \/ WaitEnds
              \/ WaitTimesOut \/ NextProbe \/ DataHalf
    <2>1. Top'.pc \in {"init", "waited", "wait", "set"}
      BY <1>11, MethodTop DEF Method, Frame
    <2>2. QED BY <1>1, <2>1
  <1>12. CASE Return
    <2>1. /\ Len(stack') = Len(stack) - 1 /\ Len(stack) \in Nat
          /\ \A i \in 1 .. Len(stack) - 1 : stack'[i] = stack[i]
      BY <1>12, ReturnFrames
    <2>2. stack' \in Seq(Frame) BY <1>12, TypeMethod DEF TypeOK, Method
    <2>3. Len(stack') # 0 /\ Len(stack') \in Nat BY <1>1, <2>2, EmptySeq, LenProperties
    <2>4. /\ Len(stack) - 1 \in 1 .. Len(stack) - 1 /\ Len(stack) - 1 \in 1 .. Len(stack)
          /\ Len(stack) - 1 # Len(stack)
      BY <2>1, <2>3
    <2>5. Top' = stack[Len(stack) - 1] BY <2>1, <2>4 DEF Top
    <2>6. Top'.pc = "wait" BY <2>4, <2>5 DEF StackInv
    <2>7. QED BY <1>1, <2>6
  <1>13. CASE BusStep
    <2>1. stack # <<>> /\ SameFrame(Top, Top') BY <1>1, <1>13, BusTop
    <2>2. UNCHANGED taint BY <1>13, BusFrames
    <2>3. Top.clean \/ ~taint BY <1>1, <2>1, <2>2 DEF SameFrame
    <2>4. Top.pc \in {"program", "run", "start"} BY <1>1, <2>1 DEF SameFrame
    <2>5. ~Busy BY <2>1, <2>3, <2>4 DEF PrepInv
    <2>6. QED BY <2>5, <1>13, QuietBus
  <1>14. CASE Python
    BY <1>5, <1>6, <1>14 DEF Python, i2c_obj_make_new, i2c_obj_deinit
  <1>15. CASE Method
    BY <1>8, <1>9, <1>10, <1>11, <1>12, <1>15 DEF Method
  <1>16. CASE UNCHANGED vars
    <2>1. PrepInv'
      BY <1>16 DEF vars, objects, driver, history, PrepInv, Programmed, Top, Busy, Held, Reads,
         Buffer, Total
    <2>2. QED BY <1>1, <2>1 DEF PrepInv
  <1>17. QED BY <1>13, <1>14, <1>15, <1>16 DEF Next, BusStep

\* The i-th call waits for the transfer in progress, which uses its buffer; a call
\* above it has not programmed the driver.
Owns(i) ==
  /\ stack[i].pc = "wait" /\ ~transfer_complete[stack[i].self]
  /\ ctrl.remain > 0 => ctrl.buff = stack[i].id
  /\ \A j \in 1 .. Len(stack) : j > i => stack[j].pc \in {"set", "init"}

\* As long as nothing is tainted, the transfer on a busy bus has an owner.
OwnerInv == Busy /\ ~taint => \E i \in 1 .. Len(stack) : Owns(i)

\* So the running call, if it is not the owner, has only just begun.
LEMMA OwnerTop ==
  ASSUME TypeOK, OwnerInv, Busy, ~taint, stack # <<>>
  PROVE  \/ Top.pc \in {"set", "init"}
         \/ Top.pc = "wait" /\ ~transfer_complete[Top.self]
  <1>1. PICK i \in 1 .. Len(stack) : Owns(i) BY DEF OwnerInv
  <1>2. Len(stack) \in 1 .. Len(stack) /\ Len(stack) \in Nat BY TopType
  <1>3. CASE i = Len(stack) BY <1>1, <1>3 DEF Owns, Top
  <1>4. CASE i # Len(stack)
    <2>1. Len(stack) > i BY <1>2, <1>4
    <2>2. QED BY <1>1, <1>2, <2>1 DEF Owns, Top
  <1>5. QED BY <1>3, <1>4

LEMMA OwnerStep ==
  ASSUME TypeOK, HoldInv, StackInv, PrepInv, OwnerInv, [Next]_vars
  PROVE  OwnerInv'
  <1>1. SUFFICES ASSUME Busy', ~taint' PROVE \E i \in 1 .. Len(stack') : Owns(i)'
    BY DEF OwnerInv
  <1>2. stack \in Seq(Frame) /\ Len(stack) \in Nat BY LenProperties DEF TypeOK
  <1>3. \A i \in 1 .. Len(stack) : stack[i] \in Frame BY <1>2, ElementOfSeq
  <1>4. CASE i2c_obj_make_new
    BY <1>1, <1>4 DEF i2c_obj_make_new, Idle, Busy
  <1>5. ASSUME NEW o \in Objs, i2c_obj_deinit(o) PROVE FALSE
    BY <1>1, <1>5 DEF i2c_obj_deinit, Idle, Busy
  <1>6. ASSUME NEW o, NEW op, NEW a, NEW n, Call(o, op, a, n)
        PROVE  \E i \in 1 .. Len(stack') : Owns(i)'
    <2>1. /\ Len(stack') = Len(stack) + 1 /\ stack'[Len(stack) + 1].pc = "set"
          /\ \A i \in 1 .. Len(stack) : stack'[i] = [stack[i] EXCEPT !.clean = FALSE]
          /\ UNCHANGED <<objects, driver, wild, taint>>
      BY <1>6, CallFrames
    <2>2. \A i \in 1 .. Len(stack) : /\ stack'[i].pc = stack[i].pc /\ stack'[i].id = stack[i].id
                                    /\ stack'[i].self = stack[i].self
      BY <1>3, <2>1 DEF Frame
    <2>3. Busy /\ ~taint BY <1>1, <2>1 DEF driver, Busy, Held
    <2>4. PICK i \in 1 .. Len(stack) : Owns(i) BY <2>3 DEF OwnerInv
    <2>5. i \in 1 .. Len(stack') BY <1>2, <2>1
    <2>6. \A j \in 1 .. Len(stack') : j = Len(stack) + 1 \/ j \in 1 .. Len(stack) BY <1>2, <2>1
    <2>7. \A j \in 1 .. Len(stack') : j > i => stack'[j].pc \in {"set", "init"}
      BY <2>1, <2>2, <2>4, <2>6 DEF Owns
    <2>8. Owns(i)' BY <2>1, <2>2, <2>4, <2>7 DEF Owns, objects, driver
    <2>9. QED BY <2>5, <2>8
  <1>7. CASE R_IIC_MASTER_SlaveAddressSet
    <2>1. /\ stack # <<>> /\ Top \in Frame /\ Top' = [Top EXCEPT !.pc = "init"] /\ Top.pc = "set"
      BY <1>7, MethodTop DEF Method, R_IIC_MASTER_SlaveAddressSet, Step, Running
    <2>2. /\ Len(stack') = Len(stack)
          /\ \A i \in 1 .. Len(stack) : i # Len(stack) => stack'[i] = stack[i]
      BY <1>7, MethodFrames DEF Method, R_IIC_MASTER_SlaveAddressSet, Return, Step, Running
    <2>3. UNCHANGED <<objects, reg, taint>> /\ ctrl'.buff = ctrl.buff /\ ctrl'.remain = ctrl.remain
      BY <1>7 DEF R_IIC_MASTER_SlaveAddressSet, history, TypeOK, Control
    <2>4. Busy /\ ~taint BY <1>1, <2>3 DEF Busy, Held
    <2>5. PICK i \in 1 .. Len(stack) : Owns(i) BY <2>4 DEF OwnerInv
    <2>6. i # Len(stack) BY <2>1, <2>5 DEF Owns, Top
    <2>7. stack'[Len(stack)].pc = "init" BY <2>1, <2>2 DEF Top, Frame
    <2>8. \A j \in 1 .. Len(stack') : j > i => stack'[j].pc \in {"set", "init"}
      BY <2>2, <2>5, <2>7 DEF Owns
    <2>9. Owns(i)' BY <2>2, <2>3, <2>5, <2>6, <2>8 DEF Owns, objects
    <2>10. QED BY <2>2, <2>9
  <1>8. CASE i2c_sync_init \/ WaitTimesOut
    <2>1. UNCHANGED reg /\ taint' = (taint \/ Busy)
      BY <1>8 DEF i2c_sync_init, WaitTimesOut, driver
    <2>2. QED BY <1>1, <2>1 DEF Busy, Held
  <1>9. CASE iic_master_read_write \/ RunHw \/ RunHwInUse \/ WaitEnds \/ NextProbe \/ DataHalf
             \/ Return
    <2>1. UNCHANGED <<reg, taint>>
      BY <1>9 DEF iic_master_read_write, RunHw, RunHwInUse, WaitEnds, NextProbe, DataHalf, Return,
         driver, history
    <2>2. Busy /\ ~taint BY <1>1, <2>1 DEF Busy, Held
    <2>3. stack # <<>> BY <1>9, MethodTop DEF Method
    <2>4. \/ Top.pc \in {"program", "run", "waited"}
          \/ Top.pc = "wait" /\ transfer_complete[Top.self]
      BY <1>9 DEF iic_master_read_write, RunHw, RunHwInUse, WaitEnds, NextProbe, DataHalf, Return,
         Step, Running
    <2>5. QED BY <2>2, <2>3, <2>4, OwnerTop
  <1>10. CASE StartHw
    <2>1. /\ stack # <<>> /\ Top \in Frame /\ Top' = [Top EXCEPT !.pc = "wait"] /\ Top.pc = "start"
      BY <1>10, MethodTop DEF Method, StartHw, Step, Running
    <2>2. Len(stack') = Len(stack)
      BY <1>10, MethodFrames DEF Method, StartHw, Return, Running, Step
    <2>3. /\ UNCHANGED <<objects, taint>> /\ ctrl'.buff = ctrl.buff /\ ctrl'.remain = ctrl.remain
      BY <1>10 DEF StartHw, history, TypeOK, Control
    <2>4. /\ ~transfer_complete[Top.self] /\ ctrl.buff = Buffer(Top) /\ ctrl.remain = Total(Top)
      BY <1>1, <2>1, <2>3 DEF PrepInv, Programmed
    <2>5. ctrl.remain > 0 => ctrl.buff = Top.id BY <2>4 DEF Buffer, Total
    <2>6. Top'.pc = "wait" /\ Top'.self = Top.self /\ Top'.id = Top.id BY <2>1 DEF Frame
    <2>7. Len(stack) \in 1 .. Len(stack') /\ stack'[Len(stack)] = Top'
      BY <2>1, <2>2, TopType DEF Top
    <2>8. \A j \in 1 .. Len(stack') : ~(j > Len(stack)) BY <1>2, <2>2
    <2>9. Owns(Len(stack))' BY <2>3, <2>4, <2>5, <2>6, <2>7, <2>8, <2>2 DEF Owns, objects, Top
    <2>10. QED BY <2>2, <2>7, <2>9
  <1>11. CASE BusStep
    <2>1. /\ Len(stack') = Len(stack) /\ UNCHANGED taint
          /\ \A i \in 1 .. Len(stack) : SameFrame(stack[i], stack'[i])
      BY <1>11, BusFrames
    <2>2. Busy /\ ~taint BY <1>1, <1>11, <2>1, QuietBus
    <2>3. PICK i \in 1 .. Len(stack) : Owns(i) BY <2>2 DEF OwnerInv
    <2>4. UNCHANGED objects /\ ctrl'.buff = ctrl.buff /\ (ctrl'.remain > 0 => ctrl.remain > 0)
      BY <1>1, <1>11, NotifyOrKeep
    <2>5. Owns(i)' BY <2>1, <2>3, <2>4 DEF Owns, SameFrame, objects
    <2>6. QED BY <2>1, <2>5
  <1>12. CASE UNCHANGED vars
    BY <1>1, <1>12 DEF vars, objects, driver, history, OwnerInv, Owns, Busy, Held
  <1>13. CASE Python BY <1>4, <1>5, <1>6, <1>13 DEF Python
  <1>14. CASE Method BY <1>7, <1>8, <1>9, <1>10, <1>14 DEF Method
  <1>15. QED BY <1>11, <1>12, <1>13, <1>14 DEF Next, BusStep

LEMMA WildStep ==
  ASSUME TypeOK, HoldInv, OwnerInv, NoWildAccess, [Next]_vars
  PROVE  NoWildAccess'
  <1>1. taint => taint'
    BY DEF Next, Python, i2c_obj_make_new, i2c_obj_deinit, Call, Method,
       R_IIC_MASTER_SlaveAddressSet, i2c_sync_init, iic_master_read_write, RunHw, RunHwInUse,
       StartHw, WaitEnds, WaitTimesOut, NextProbe, DataHalf, Return, Handler,
       iic_master_txi_send_address, iic_master_txi_master, iic_master_tei_master,
       iic_master_rxi_master, iic_master_rxi_read_data, ErrNack, ErrStop, ErrRestart, Ack, Nack,
       BusMoves, ErrTimeout, Outside, history, vars
  <1>2. ASSUME UNCHANGED wild PROVE NoWildAccess' BY <1>1, <1>2 DEF NoWildAccess
  <1>3. ASSUME BusStep, NEW dir, TouchBuffer(dir), ctrl.remain > 0 PROVE NoWildAccess'
    <2>1. CASE taint BY <1>1, <2>1 DEF NoWildAccess
    <2>2. CASE ~taint
      <3>1. PICK i \in 1 .. Len(stack) : Owns(i) BY <1>3, <2>2, QuietBus DEF OwnerInv
      <3>2. stack[i].id = ctrl.buff BY <1>3, <3>1 DEF Owns
      <3>3. i \in DOMAIN stack BY LenProperties DEF TypeOK
      <3>4. wild' = wild BY <1>3, <3>2, <3>3 DEF TouchBuffer, TypeOK
      <3>5. QED BY <1>2, <3>4
    <2>3. QED BY <2>1, <2>2
  <1>4. CASE iic_master_txi_master
    <2>1. CASE ctrl.remain > 0
      BY <1>3, <1>4, <2>1 DEF iic_master_txi_master, BusStep, Handler
    <2>2. CASE ~(ctrl.remain > 0)
      BY <1>2, <1>4, <2>2 DEF iic_master_txi_master
    <2>3. QED BY <2>1, <2>2
  <1>5. CASE iic_master_rxi_read_data
    BY <1>3, <1>5 DEF iic_master_rxi_read_data, BusStep, Handler
  <1>6. CASE Python
    BY <1>2, <1>6 DEF Python, i2c_obj_make_new, i2c_obj_deinit, Call, history
  <1>7. CASE Method
    BY <1>2, <1>7 DEF Method, R_IIC_MASTER_SlaveAddressSet, i2c_sync_init, iic_master_read_write,
       RunHw, RunHwInUse, StartHw, WaitEnds, WaitTimesOut, NextProbe, DataHalf, Return, history
  <1>8. CASE \/ iic_master_txi_send_address \/ iic_master_tei_master \/ iic_master_rxi_master
             \/ ErrNack \/ ErrStop \/ ErrRestart \/ Ack \/ Nack \/ BusMoves \/ ErrTimeout
    BY <1>2, <1>8 DEF iic_master_txi_send_address, iic_master_tei_master, iic_master_rxi_master,
       ErrNack, ErrStop, ErrRestart, Ack, Nack, BusMoves, ErrTimeout, Outside, history
  <1>9. CASE UNCHANGED vars BY <1>2, <1>9 DEF vars, history
  <1>10. QED BY <1>4, <1>5, <1>6, <1>7, <1>8, <1>9 DEF Next, Handler

SyncInv == TypeOK /\ HoldInv /\ StackInv /\ PrepInv /\ OwnerInv

LEMMA SyncInvariant == Spec => []SyncInv
  <1>1. Init => HoldInv /\ StackInv /\ PrepInv /\ OwnerInv
    <2>1. Init => HoldInv BY DEF Init, HoldInv, ContinuationIsHeld, Held, Idle, Closed
    <2>2. Init => StackInv BY DEF Init, StackInv
    <2>3. Init => PrepInv /\ OwnerInv BY DEF Init, PrepInv, OwnerInv, Busy, Idle
    <2>4. QED BY <2>1, <2>2, <2>3
  <1>2. SyncInv /\ [Next]_vars => HoldInv' /\ StackInv' /\ PrepInv' /\ OwnerInv'
    BY HoldStep, StackStep, PrepStep, OwnerStep DEF SyncInv
  <1>3. QED BY <1>1, <1>2, I2cTypeCorrect, PTL DEF Spec, SyncInv

\* The driver moves bytes only to and from the buffer of a call in progress, until
\* a call times out, or begins, while the bus is busy.  For any number of objects
\* and calls, any devices and lengths.
THEOREM WildCorrect == Spec => []NoWildAccess
  <1>1. Init => NoWildAccess BY DEF Init, NoWildAccess
  <1>2. SyncInv /\ NoWildAccess /\ [Next]_vars => NoWildAccess'
    BY WildStep DEF SyncInv
  <1>3. QED BY <1>1, <1>2, SyncInvariant, PTL DEF Spec

-----------------------------------------------------------------------------
(* What a call reports *)

Dir(f) == IF Reads(f) THEN "read" ELSE "write"

\* What a success of f means.
Served(f) ==
  /\ f.addr \in Devices
  /\ f.n = Total(f)
  /\ f.moves \subseteq {<<f.addr, Dir(f)>>}

\* The transfer in progress is f's, as far as the state of the bus tells.
Transfer(f) ==
  /\ f.n + ctrl.remain = Total(f)
  /\ f.moves \subseteq {<<f.addr, Dir(f)>>}
  /\ reg.bus = "ready" => ctrl.addr_remain = 1
  /\ reg.bus # "ready" => reg.wire = ctrl.addr /\ ctrl.addr_remain = 0
  /\ reg.bus \in {"rxfirst", "rxbyte", "rxfull"} => Reads(f) /\ f.addr \in Devices
  /\ reg.bus \in {"txbyte", "tend"} => ~Reads(f) /\ f.addr \in Devices
  /\ reg.bus \in {"stop", "stopped"} /\ ~ctrl.err => ctrl.remain = 0 /\ f.addr \in Devices
  /\ reg.bus \in {"restart", "restarted"} =>
       ctrl.restarted /\ ctrl.remain = 0 /\ f.addr \in Devices

\* While an undisturbed call waits, the bus carries its transfer until the flag is
\* set, and the result is then that transfer's.
CleanInv ==
  stack # <<>> /\ Top.clean =>
    /\ Top.pc # "set" => ctrl.slave = Top.addr
    /\ Top.pc = "wait" =>
         /\ Programmed(Top)
         /\ IF transfer_complete[Top.self]
              THEN ~Busy /\ (transfer_result[Top.self] = "ok" => Served(Top))
              ELSE Busy => Transfer(Top)
    /\ Top.pc = "waited" =>
         Top.result # "in_use" /\ (Top.result = "ok" => Served(Top) /\ ~Busy)

\* The bytes a handler moves are the running call's.
LEMMA TouchTop ==
  ASSUME TypeOK, stack # <<>>, NEW dir \in {"read", "write"}, TouchBuffer(dir),
         Programmed(Top), Top.n + ctrl.remain = Total(Top), ctrl.remain > 0
  PROVE  Top' = [Top EXCEPT !.n = @ + 1, !.moves = @ \cup {<<reg.wire.slave, dir>>}]
  <1>1. Top \in Frame /\ Len(stack) \in 1 .. Len(stack) BY TopType
  <1>2. Top.op # "scan"
    <2>1. Top.n \in Nat /\ ctrl.remain \in Nat BY <1>1 DEF Frame, TypeOK, Control
    <2>2. QED BY <2>1 DEF Total
  <1>3. Top.id = ctrl.buff BY <1>2 DEF Programmed, Buffer
  <1>4. QED BY <1>1, <1>3, TouchFrames DEF Top

\* A step of the bus or of a handler takes the transfer of a waiting call on ...
LEMMA TransferStep ==
  ASSUME TypeOK, HoldInv, BusStep, stack # <<>>, Programmed(Top), ctrl.slave = Top.addr,
         Transfer(Top), ~ErrStop, ~ErrRestart, ~ErrTimeout
  PROVE  Programmed(Top)' /\ Transfer(Top)'
  <1>1. reg \in Registers /\ ctrl \in Control /\ Top \in Frame BY TopType DEF TypeOK
  <1>2. stack' # <<>>
    <2>1. Len(stack') = Len(stack) /\ Len(stack) \in 1 .. Len(stack) BY BusFrames, TopType
    <2>2. QED BY <2>1
  <1>3. SameFrame(Top, Top') BY <1>2, BusTop
  <1>4. /\ Reads(Top') = Reads(Top) /\ Buffer(Top') = Buffer(Top) /\ Total(Top') = Total(Top)
        /\ Dir(Top') = Dir(Top) /\ Top'.addr = Top.addr
    BY <1>3 DEF SameFrame, Reads, Buffer, Total, Dir
  <1>5. /\ Top.n + ctrl.remain = Total(Top) /\ Top.n \in Nat /\ ctrl.remain \in Nat
        /\ Top.moves \subseteq {<<Top.addr, Dir(Top)>>}
        /\ reg.bus = "ready" => ctrl.addr_remain = 1
        /\ reg.bus # "ready" => reg.wire = ctrl.addr /\ ctrl.addr_remain = 0
        /\ reg.bus \in {"rxfirst", "rxbyte", "rxfull"} => Reads(Top) /\ Top.addr \in Devices
        /\ reg.bus \in {"txbyte", "tend"} => ~Reads(Top) /\ Top.addr \in Devices
        /\ reg.bus \in {"stop", "stopped"} /\ ~ctrl.err => ctrl.remain = 0 /\ Top.addr \in Devices
        /\ reg.bus \in {"restart", "restarted"} =>
             ctrl.restarted /\ ctrl.remain = 0 /\ Top.addr \in Devices
    BY <1>1 DEF Transfer, Frame, Control
  <1>6. /\ ctrl.addr = [slave |-> Top.addr, read |-> Reads(Top)]
        /\ ctrl.read = Reads(Top) /\ ctrl.buff = Buffer(Top)
    BY DEF Programmed
  <1>7. ctrl.addr.slave = Top.addr /\ ctrl.addr.read = Reads(Top) BY <1>6
  <1>8. SUFFICES
          /\ ctrl'.addr = ctrl.addr /\ ctrl'.slave = ctrl.slave /\ ctrl'.read = ctrl.read
          /\ ctrl'.buff = ctrl.buff
          /\ Top'.n + ctrl'.remain = Total(Top)
          /\ Top'.moves \subseteq {<<Top.addr, Dir(Top)>>}
          /\ reg'.bus = "ready" => ctrl'.addr_remain = 1
          /\ reg'.bus # "ready" => reg'.wire = ctrl.addr /\ ctrl'.addr_remain = 0
          /\ reg'.bus \in {"rxfirst", "rxbyte", "rxfull"} => Reads(Top) /\ Top.addr \in Devices
          /\ reg'.bus \in {"txbyte", "tend"} => ~Reads(Top) /\ Top.addr \in Devices
          /\ reg'.bus \in {"stop", "stopped"} /\ ~ctrl'.err =>
               ctrl'.remain = 0 /\ Top.addr \in Devices
          /\ reg'.bus \in {"restart", "restarted"} =>
               ctrl'.restarted /\ ctrl'.remain = 0 /\ Top.addr \in Devices
    <2>1. ASSUME ctrl'.addr = ctrl.addr, ctrl'.slave = ctrl.slave, ctrl'.read = ctrl.read,
                 ctrl'.buff = ctrl.buff
          PROVE  Programmed(Top)'
      <3>1. /\ ctrl'.addr = [slave |-> ctrl'.slave, read |-> Reads(Top')]
            /\ ctrl'.read = Reads(Top') /\ ctrl'.buff = Buffer(Top')
        BY <1>4, <1>6, <2>1
      <3>2. QED BY <3>1 DEF Programmed, Reads, Buffer
    <2>2. QED BY <1>4, <2>1 DEF Transfer, Reads, Total, Dir
  <1>9. CASE iic_master_txi_send_address
    <2>1. Top' = Top BY <1>9 DEF iic_master_txi_send_address, Top
    <2>2. ctrl.addr_remain = 1 BY <1>5, <1>9 DEF iic_master_txi_send_address
    <2>3. QED BY <1>1, <1>5, <1>9, <2>1, <2>2 DEF iic_master_txi_send_address, Control, Registers
  <1>10. CASE iic_master_txi_master
    <2>1. reg.bus # "ready" /\ ~Reads(Top) BY <1>5, <1>6, <1>10 DEF iic_master_txi_master
    <2>2. reg.bus \in {"tend", "addr", "txbyte"} BY <1>10, <2>1 DEF iic_master_txi_master, Txi
    <2>3. CASE ctrl.remain > 0
      <3>1. TouchBuffer("write") BY <1>10, <2>3 DEF iic_master_txi_master
      <3>2. Top' = [Top EXCEPT !.n = @ + 1, !.moves = @ \cup {<<reg.wire.slave, "write">>}]
        BY <1>5, <2>3, <3>1, TouchTop
      <3>3. Top'.n = Top.n + 1 /\ Top'.moves = Top.moves \cup {<<reg.wire.slave, "write">>}
        BY <1>1, <3>2 DEF Frame
      <3>4. Top'.moves \subseteq {<<Top.addr, Dir(Top)>>}
        BY <1>5, <1>7, <2>1, <3>3 DEF Dir
      <3>5. /\ ctrl' = [ctrl EXCEPT !.remain = ctrl.remain - 1]
            /\ reg'.wire = reg.wire /\ reg'.bus \in {reg.bus, "txbyte"}
            /\ reg'.bus # reg.bus => reg.bus = "tend"
        BY <1>1, <1>10, <2>3 DEF iic_master_txi_master, Control, Registers
      <3>6. /\ ctrl'.remain = ctrl.remain - 1 /\ ctrl'.addr_remain = ctrl.addr_remain
            /\ ctrl'.addr = ctrl.addr /\ ctrl'.slave = ctrl.slave /\ ctrl'.read = ctrl.read
            /\ ctrl'.buff = ctrl.buff
        BY <1>1, <3>5 DEF Control
      <3>7. Top'.n + ctrl'.remain = Total(Top) BY <1>5, <3>3, <3>6
      <3>8. QED BY <1>5, <2>1, <2>2, <3>4, <3>5, <3>6, <3>7
    <2>4. CASE ~(ctrl.remain > 0)
      <3>1. Top' = Top BY <1>10, <2>4 DEF iic_master_txi_master, Top
      <3>2. ctrl.remain = 0 BY <1>5, <2>4
      <3>3. /\ ctrl' = [ctrl EXCEPT !.remain = 0] /\ reg'.wire = reg.wire /\ reg'.bus = reg.bus
        BY <1>1, <1>10, <3>2 DEF iic_master_txi_master, Registers
      <3>4. ctrl' = ctrl BY <1>1, <3>2, <3>3 DEF Control
      <3>5. QED BY <1>5, <3>1, <3>3, <3>4
    <2>5. QED BY <2>3, <2>4
  <1>11. CASE iic_master_tei_master
    <2>1. Top' = Top BY <1>11 DEF iic_master_tei_master, Top
    <2>2. CASE ctrl.remain = 0
      <3>1. /\ ctrl'.addr = ctrl.addr /\ ctrl'.slave = ctrl.slave /\ ctrl'.read = ctrl.read
            /\ ctrl'.buff = ctrl.buff /\ ctrl'.remain = ctrl.remain
            /\ ctrl'.addr_remain = ctrl.addr_remain
            /\ ctrl'.restarted = (ctrl.restarted \/ ctrl.restart)
        BY <1>1, <1>11, <2>2 DEF iic_master_tei_master, Control
      <3>2. /\ reg'.wire = reg.wire /\ reg'.bus = IF ctrl.restart THEN "restart" ELSE "stop"
            /\ reg.bus = "tend"
        BY <1>1, <1>11, <2>2 DEF iic_master_tei_master, EndTransfer, Registers
      <3>3. QED BY <1>5, <2>1, <2>2, <3>1, <3>2
    <2>3. CASE ctrl.remain # 0
      <3>1. ctrl' = ctrl /\ reg'.wire = reg.wire /\ reg'.bus = reg.bus
        BY <1>1, <1>11, <2>3 DEF iic_master_tei_master, Registers
      <3>2. QED BY <1>5, <2>1, <3>1
    <2>4. QED BY <2>2, <2>3
  <1>12. CASE iic_master_rxi_master
    <2>1. Top' = Top /\ ctrl' = ctrl BY <1>12 DEF iic_master_rxi_master, Outside, Top
    <2>2. reg'.bus = "rxbyte" /\ reg'.wire = reg.wire /\ reg.bus = "rxfirst"
      BY <1>1, <1>12 DEF iic_master_rxi_master, Bus, Registers
    <2>3. QED BY <1>5, <2>1, <2>2
  <1>13. CASE iic_master_rxi_read_data
    <2>1. reg.bus = "rxfull" /\ ctrl.remain > 0 /\ TouchBuffer("read")
      BY <1>13 DEF iic_master_rxi_read_data
    <2>2. Top' = [Top EXCEPT !.n = @ + 1, !.moves = @ \cup {<<reg.wire.slave, "read">>}]
      BY <1>5, <2>1, TouchTop
    <2>3. Top'.n = Top.n + 1 /\ Top'.moves = Top.moves \cup {<<reg.wire.slave, "read">>}
      BY <1>1, <2>2 DEF Frame
    <2>4. Top'.moves \subseteq {<<Top.addr, Dir(Top)>>}
      BY <1>5, <1>7, <2>1, <2>3 DEF Dir
    <2>5. /\ ctrl'.addr = ctrl.addr /\ ctrl'.slave = ctrl.slave /\ ctrl'.read = ctrl.read
          /\ ctrl'.buff = ctrl.buff /\ ctrl'.remain = ctrl.remain - 1
          /\ ctrl'.addr_remain = ctrl.addr_remain
          /\ ctrl'.restarted = (ctrl.restarted \/ (ctrl.remain = 1 /\ ctrl.restart))
      BY <1>1, <1>13 DEF iic_master_rxi_read_data, Control
    <2>6. Top'.n + ctrl'.remain = Total(Top) BY <1>5, <2>3, <2>5
    <2>7. /\ reg'.wire = reg.wire
          /\ ctrl.remain # 1 => reg'.bus = "rxbyte"
          /\ ctrl.remain = 1 => reg'.bus = IF ctrl.restart THEN "restart" ELSE "stop"
      BY <1>1, <1>13 DEF iic_master_rxi_read_data, EndTransfer, Registers
    <2>8. Reads(Top) /\ Top.addr \in Devices /\ reg'.wire = ctrl.addr /\ ctrl'.addr_remain = 0
      BY <1>5, <2>1, <2>5, <2>7
    <2>9. CASE ctrl.remain # 1 BY <2>4, <2>5, <2>6, <2>7, <2>8, <2>9
    <2>10. CASE ctrl.remain = 1
      <3>1. ctrl'.remain = 0 BY <2>5, <2>10
      <3>2. reg'.bus = "stop" \/ (reg'.bus = "restart" /\ ctrl'.restarted) BY <2>5, <2>7, <2>10
      <3>3. QED BY <2>4, <2>5, <2>6, <2>8, <3>1, <3>2
    <2>11. QED BY <2>9, <2>10
  <1>14. CASE ErrNack
    <2>1. Top' = Top BY <1>14 DEF ErrNack, Top
    <2>2. reg'.bus = "stop" /\ reg'.wire = reg.wire /\ reg.bus = "nack"
      BY <1>1, <1>14 DEF ErrNack, Bus, Registers
    <2>3. /\ ctrl'.addr = ctrl.addr /\ ctrl'.slave = ctrl.slave /\ ctrl'.read = ctrl.read
          /\ ctrl'.buff = ctrl.buff /\ ctrl'.remain = ctrl.remain
          /\ ctrl'.addr_remain = ctrl.addr_remain /\ ctrl'.err
      BY <1>1, <1>14 DEF ErrNack, Control
    <2>4. QED BY <1>5, <2>1, <2>2, <2>3
  <1>15. CASE Ack
    <2>1. Top' = Top /\ ctrl' = ctrl BY <1>15 DEF Ack, Outside, Top
    <2>2. CASE reg.bus = "addr"
      <3>1. /\ reg.wire.slave \in Devices /\ reg'.wire = reg.wire
            /\ reg'.bus \in IF reg.wire.read THEN {"rxfirst"} ELSE {"txbyte", "tend"}
        BY <1>1, <1>15, <2>2 DEF Ack, Registers
      <3>2. QED BY <1>5, <1>7, <2>1, <2>2, <3>1
    <2>3. CASE reg.bus # "addr"
      <3>1. reg.bus = "txbyte" /\ reg'.wire = reg.wire /\ reg'.bus \in {"txbyte", "tend"}
        BY <1>1, <1>15, <2>3 DEF Ack, Registers
      <3>2. QED BY <1>5, <2>1, <3>1
    <2>4. QED BY <2>2, <2>3
  <1>16. CASE Nack
    <2>1. Top' = Top /\ ctrl' = ctrl BY <1>16 DEF Nack, Outside, Top
    <2>2. reg'.bus = "nack" /\ reg'.wire = reg.wire /\ reg.bus \in {"addr", "txbyte"}
      BY <1>1, <1>16 DEF Nack, Bus, Registers
    <2>3. QED BY <1>5, <2>1, <2>2
  <1>17. CASE BusMoves
    <2>1. Top' = Top /\ ctrl' = ctrl BY <1>17 DEF BusMoves, Outside, Top
    <2>2. /\ reg'.wire = reg.wire
          /\ \/ reg.bus = "rxbyte" /\ reg'.bus = "rxfull"
             \/ reg.bus = "stop" /\ reg'.bus = "stopped"
             \/ reg.bus = "restart" /\ reg'.bus = "restarted"
      BY <1>1, <1>17 DEF BusMoves, Bus, Registers
    <2>3. QED BY <1>5, <2>1, <2>2
  <1>18. QED
    BY <1>9, <1>10, <1>11, <1>12, <1>13, <1>14, <1>15, <1>16, <1>17 DEF BusStep, Handler

\* ... or ends it, and the flag it sets for the call comes with the call's result.
LEMMA TransferEnds ==
  ASSUME TypeOK, HoldInv, stack # <<>>, Programmed(Top), Transfer(Top),
         ~transfer_complete[Top.self], ErrStop \/ ErrRestart \/ ErrTimeout
  PROVE  /\ Top' = Top /\ ctrl'.slave = ctrl.slave /\ Programmed(Top)' /\ ~Busy'
         /\ transfer_complete'[Top.self] /\ transfer_result'[Top.self] = "ok" => Served(Top)
  <1>1. reg \in Registers /\ ctrl \in Control /\ Top \in Frame BY TopType DEF TypeOK
  <1>2. Top.self \in Objs /\ Top.n \in Nat BY <1>1 DEF Frame
  <1>3. Top' = Top BY DEF ErrStop, ErrRestart, ErrTimeout, Top
  <1>4. /\ ctrl'.slave = ctrl.slave /\ ctrl'.addr = ctrl.addr /\ ctrl'.read = ctrl.read
        /\ ctrl'.buff = ctrl.buff
    BY <1>1 DEF ErrStop, ErrRestart, ErrTimeout, Aborted, Control
  <1>5. Programmed(Top)' BY <1>3, <1>4 DEF Programmed, Reads, Buffer
  <1>6. reg.bus = "restarted" => ctrl.restarted /\ ~reg.txnvic
    BY DEF Transfer, HoldInv, ContinuationIsHeld
  <1>7. ~Busy'
    <2>1. CASE ErrStop BY <1>1, <2>1 DEF ErrStop, Registers, Busy
    <2>2. CASE ErrRestart BY <1>1, <1>6, <2>2 DEF ErrRestart, Registers, Busy, Held
    <2>3. CASE ErrTimeout BY <2>3 DEF ErrTimeout, Idle, Busy
    <2>4. QED BY <2>1, <2>2, <2>3
  <1>8. ASSUME NEW r, Notify(r), transfer_complete'[Top.self]
        PROVE  transfer_result'[Top.self] = r
    BY <1>2, <1>8 DEF Notify
  <1>9. ASSUME ctrl.remain = 0, Top.addr \in Devices PROVE Served(Top)
    <2>1. Top.n = Total(Top) BY <1>2, <1>9 DEF Transfer
    <2>2. QED BY <1>9, <2>1 DEF Transfer, Served
  <1>10. ASSUME transfer_complete'[Top.self], transfer_result'[Top.self] = "ok"
         PROVE  Served(Top)
    <2>1. CASE ErrStop
      <3>1. Notify(IF ctrl.remain = 0 /\ ~ctrl.err THEN "ok" ELSE "aborted") /\ reg.bus = "stopped"
        BY <2>1 DEF ErrStop
      <3>2. "ok" = IF ctrl.remain = 0 /\ ~ctrl.err THEN "ok" ELSE "aborted"
        BY <1>8, <1>10, <3>1
      <3>3. ctrl.remain = 0 /\ ~ctrl.err BY <3>2
      <3>4. Top.addr \in Devices BY <3>1, <3>3 DEF Transfer
      <3>5. QED BY <1>9, <3>3, <3>4
    <2>2. CASE ErrRestart
      <3>1. reg.bus = "restarted" BY <2>2 DEF ErrRestart
      <3>2. ctrl.remain = 0 /\ Top.addr \in Devices BY <3>1 DEF Transfer
      <3>3. QED BY <1>9, <3>2
    <2>3. CASE ErrTimeout
      <3>1. transfer_result'[Top.self] = "aborted" BY <1>8, <1>10, <2>3 DEF ErrTimeout
      <3>2. QED BY <1>10, <3>1
    <2>4. QED BY <2>1, <2>2, <2>3
  <1>11. QED BY <1>3, <1>4, <1>5, <1>7, <1>10

\* A served call stays served when its frame only moves on.
LEMMA SameServed ==
  ASSUME NEW f, NEW g, Served(f), g.op = f.op, g.half = f.half, g.len = f.len, g.addr = f.addr,
         g.n = f.n, g.moves = f.moves
  PROVE  Served(g)
  BY DEF Served, Total, Dir, Reads

LEMMA CleanMethod ==
  ASSUME TypeOK, HoldInv, StackInv, PrepInv, CleanInv, Method, ~Return
  PROVE  CleanInv'
  <1>1. SUFFICES ASSUME stack' # <<>>, Top'.clean PROVE CleanInv' BY DEF CleanInv
  <1>2. stack # <<>> /\ Top \in Frame BY MethodTop
  <1>3. ctrl \in Control /\ reg \in Registers BY DEF TypeOK
  <1>4. ASSUME Top'.pc \notin {"wait", "waited"}, Top'.pc # "set" => ctrl'.slave = Top'.addr
        PROVE  CleanInv'
    BY <1>4 DEF CleanInv
  <1>5. Top.clean /\ Top.pc # "set" => ctrl.slave = Top.addr BY <1>2 DEF CleanInv
  <1>6. CASE R_IIC_MASTER_SlaveAddressSet
    <2>1. Top'.pc = "init" /\ Top'.addr = Top.addr BY <1>2, <1>6, MethodTop DEF Frame
    <2>2. ctrl'.slave = Top.addr BY <1>3, <1>6 DEF R_IIC_MASTER_SlaveAddressSet, Control
    <2>3. QED BY <1>4, <2>1, <2>2
  <1>7. CASE i2c_sync_init
    <2>1. Top'.pc = "program" /\ Top'.addr = Top.addr /\ (Top'.clean => Top.clean)
      BY <1>2, <1>7, MethodTop DEF Frame
    <2>2. Top.pc = "init" /\ ctrl' = ctrl BY <1>7 DEF i2c_sync_init, Running, driver
    <2>3. QED BY <1>1, <1>4, <1>5, <2>1, <2>2
  <1>8. CASE iic_master_read_write
    <2>1. Top'.pc = "run" /\ Top'.addr = Top.addr /\ Top'.clean = Top.clean
      BY <1>2, <1>8, MethodTop DEF Frame
    <2>2. Top.pc = "program" /\ ctrl'.slave = ctrl.slave
      BY <1>3, <1>8 DEF iic_master_read_write, Step, Running, Control
    <2>3. QED BY <1>1, <1>4, <1>5, <2>1, <2>2
  <1>9. CASE RunHw
    <2>1. Top'.pc = "start" /\ Top'.addr = Top.addr /\ Top'.clean = Top.clean
      BY <1>2, <1>9, MethodTop DEF Frame
    <2>2. Top.pc = "run" /\ ctrl'.slave = ctrl.slave
      BY <1>3, <1>9 DEF RunHw, Step, Running, Control
    <2>3. QED BY <1>1, <1>4, <1>5, <2>1, <2>2
  <1>10. CASE RunHwInUse
    <2>1. Top.clean BY <1>1, <1>2, <1>10, MethodTop DEF Frame
    <2>2. Top.pc = "run" /\ ~ctrl.restarted /\ reg.bus # "free"
      BY <1>10 DEF RunHwInUse, Running
    <2>3. ~Busy BY <1>2, <2>1, <2>2 DEF PrepInv
    <2>4. QED BY <2>2, <2>3 DEF Busy, HoldInv, ContinuationIsHeld
  <1>11. CASE StartHw
    <2>1. /\ Top'.pc = "wait" /\ Top'.addr = Top.addr /\ Top'.clean = Top.clean
          /\ Top'.op = Top.op /\ Top'.half = Top.half /\ Top'.len = Top.len /\ Top'.id = Top.id
          /\ Top'.self = Top.self /\ Top'.n = Top.n /\ Top'.moves = Top.moves
      BY <1>2, <1>11, MethodTop DEF Frame
    <2>2. Top.pc = "start" BY <1>11 DEF StartHw, Step, Running
    <2>3. /\ ~Busy /\ ~transfer_complete[Top.self] /\ Top.n = 0 /\ Top.moves = {}
          /\ Programmed(Top) /\ ctrl.remain = Total(Top) /\ ctrl.addr_remain = 1
      BY <1>1, <1>2, <2>1, <2>2 DEF PrepInv
    <2>4. /\ ctrl'.slave = ctrl.slave /\ ctrl'.addr = ctrl.addr /\ ctrl'.read = ctrl.read
          /\ ctrl'.buff = ctrl.buff /\ ctrl'.remain = ctrl.remain
          /\ ctrl'.addr_remain = ctrl.addr_remain
      BY <1>3, <1>11 DEF StartHw, Control
    <2>5. /\ Reads(Top') = Reads(Top) /\ Buffer(Top') = Buffer(Top) /\ Total(Top') = Total(Top)
      BY <2>1 DEF Reads, Buffer, Total
    <2>6. Programmed(Top)' BY <2>3, <2>4, <2>5 DEF Programmed, Reads, Buffer
    <2>7. Busy' => reg'.bus = "ready"
      <3>1. reg.bus = "free" \/ reg.bus = "ready" BY <2>3 DEF Busy, Held
      <3>2. ctrl.restarted => reg.bus = "ready"
        BY <3>1 DEF HoldInv, ContinuationIsHeld
      <3>3. CASE ctrl.open BY <1>3, <1>11, <3>1, <3>2, <3>3 DEF StartHw, Registers
      <3>4. CASE ~ctrl.open BY <1>11, <2>3, <3>4 DEF StartHw, Busy, Held
      <3>5. QED BY <3>3, <3>4
    <2>8. Total(Top) \in Nat BY <1>3, <2>3 DEF Control
    <2>9. Busy' => Transfer(Top)'
      <3>1. Top'.n + ctrl'.remain = Total(Top') BY <2>1, <2>3, <2>4, <2>5, <2>8
      <3>2. QED BY <2>1, <2>3, <2>4, <2>7, <3>1 DEF Transfer, Total
    <2>10. ~transfer_complete'[Top'.self] BY <1>11, <2>1, <2>3 DEF StartHw, objects
    <2>11. ctrl'.slave = Top'.addr BY <1>1, <1>5, <2>1, <2>2, <2>4
    <2>12. QED BY <2>1, <2>6, <2>9, <2>10, <2>11 DEF CleanInv
  <1>12. CASE WaitEnds
    <2>1. /\ Top'.pc = "waited" /\ Top'.addr = Top.addr /\ Top'.clean = Top.clean
          /\ Top'.op = Top.op /\ Top'.half = Top.half /\ Top'.len = Top.len
          /\ Top'.n = Top.n /\ Top'.moves = Top.moves
          /\ Top'.result = transfer_result[Top.self]
      BY <1>2, <1>12, MethodTop DEF Frame
    <2>2. Top.pc = "wait" /\ transfer_complete[Top.self] /\ ctrl' = ctrl /\ reg' = reg
      BY <1>12 DEF WaitEnds, Running, driver
    <2>3. ~Busy /\ (transfer_result[Top.self] = "ok" => Served(Top))
      BY <1>1, <1>2, <2>1, <2>2 DEF CleanInv
    <2>4. Top'.result # "in_use" BY <1>2, <2>1 DEF TypeOK, Frame
    <2>5. ~Busy' BY <2>2, <2>3 DEF Busy, Held
    <2>6. Top'.result = "ok" => Served(Top')
      <3> DEFINE f == Top
                 g == Top'
      <3>1. Served(f) => Served(g)
        <4>1. /\ g.op = f.op /\ g.half = f.half /\ g.len = f.len /\ g.addr = f.addr
              /\ g.n = f.n /\ g.moves = f.moves
          BY <2>1
        <4> HIDE DEF f, g
        <4>2. QED BY <4>1, SameServed
      <3>2. QED BY <2>1, <2>3, <3>1
    <2>7. ctrl'.slave = Top'.addr BY <1>1, <1>5, <2>1, <2>2
    <2>8. QED BY <2>1, <2>4, <2>5, <2>6, <2>7 DEF CleanInv, Served, Total, Dir, Reads
  <1>13. CASE WaitTimesOut
    <2>1. /\ Top'.pc = "waited" /\ Top'.addr = Top.addr /\ Top'.clean = Top.clean
          /\ Top'.result = "timeout"
      BY <1>2, <1>13, MethodTop DEF Frame
    <2>2. Top.pc = "wait" /\ ctrl' = ctrl BY <1>13 DEF WaitTimesOut, Running, driver
    <2>3. ctrl'.slave = Top'.addr BY <1>1, <1>5, <2>1, <2>2
    <2>4. QED BY <2>1, <2>3 DEF CleanInv
  <1>14. CASE NextProbe
    <2>1. Top'.pc = "set" BY <1>2, <1>14, MethodTop DEF Frame
    <2>2. QED BY <1>4, <2>1
  <1>15. CASE DataHalf
    <2>1. Top'.pc = "init" /\ Top'.addr = Top.addr /\ Top'.clean = Top.clean
      BY <1>2, <1>15, MethodTop DEF Frame
    <2>2. Top.pc = "waited" /\ ctrl' = ctrl BY <1>15 DEF DataHalf, Running, driver
    <2>3. QED BY <1>1, <1>4, <1>5, <2>1, <2>2
  <1>16. QED
    BY <1>6, <1>7, <1>8, <1>9, <1>10, <1>11, <1>12, <1>13, <1>14, <1>15 DEF Method

LEMMA CleanBus ==
  ASSUME TypeOK, HoldInv, PrepInv, CleanInv, BusStep
  PROVE  CleanInv'
  <1>1. SUFFICES ASSUME stack' # <<>>, Top'.clean PROVE CleanInv' BY DEF CleanInv
  <1>2. stack # <<>> /\ SameFrame(Top, Top') BY <1>1, BusTop
  <1>3. Busy BY QuietBus
  <1>4. ctrl'.slave = ctrl.slave
    <2>1. ctrl \in Control BY DEF TypeOK
    <2>2. QED
      BY <2>1 DEF BusStep, Handler, iic_master_txi_send_address, iic_master_txi_master,
         iic_master_tei_master, iic_master_rxi_master, iic_master_rxi_read_data, ErrNack, ErrStop,
         ErrRestart, Ack, Nack, BusMoves, ErrTimeout, Aborted, Outside, Control
  <1>5. /\ Top.clean /\ Top'.pc = Top.pc /\ Top'.addr = Top.addr /\ Top'.self = Top.self
        /\ Top'.result = Top.result
    BY <1>1, <1>2 DEF SameFrame
  <1>6. Top'.pc # "set" => ctrl'.slave = Top'.addr BY <1>2, <1>4, <1>5 DEF CleanInv
  <1>7. CASE Top.pc = "wait"
    <2>1. Programmed(Top) /\ ~transfer_complete[Top.self] /\ Transfer(Top)
      BY <1>2, <1>3, <1>5, <1>7 DEF CleanInv
    <2>2. ctrl.slave = Top.addr BY <1>2, <1>5, <1>7 DEF CleanInv
    <2>3. CASE ErrStop \/ ErrRestart \/ ErrTimeout
      <3>1. /\ Top' = Top /\ Programmed(Top)' /\ ~Busy'
            /\ transfer_complete'[Top.self] /\ transfer_result'[Top.self] = "ok" => Served(Top)
        BY <1>2, <2>1, <2>3, TransferEnds
      <3>2. transfer_complete'[Top'.self] /\ transfer_result'[Top'.self] = "ok" => Served(Top)'
        BY <3>1 DEF Served, Total, Dir, Reads
      <3>3. QED BY <1>5, <1>6, <1>7, <3>1, <3>2 DEF CleanInv
    <2>4. CASE ~(ErrStop \/ ErrRestart \/ ErrTimeout)
      <3>1. Programmed(Top)' /\ Transfer(Top)' BY <1>2, <2>1, <2>2, <2>4, TransferStep
      <3>2. transfer_complete' = transfer_complete
        BY <2>4 DEF BusStep, Handler, iic_master_txi_send_address, iic_master_txi_master,
           iic_master_tei_master, iic_master_rxi_master, iic_master_rxi_read_data, ErrNack, Ack,
           Nack, BusMoves, Outside, objects
      <3>3. ~transfer_complete'[Top'.self] BY <1>5, <2>1, <3>2
      <3>4. QED BY <1>5, <1>6, <1>7, <3>1, <3>3 DEF CleanInv
    <2>5. QED BY <2>3, <2>4
  <1>8. CASE Top.pc = "waited"
    <2>1. Top.result # "in_use" /\ Top.result # "ok" BY <1>2, <1>3, <1>5, <1>8 DEF CleanInv
    <2>2. QED BY <1>5, <1>6, <1>8, <2>1 DEF CleanInv
  <1>9. CASE Top.pc \notin {"wait", "waited"} BY <1>5, <1>6, <1>9 DEF CleanInv
  <1>10. QED BY <1>7, <1>8, <1>9

LEMMA CleanStep ==
  ASSUME TypeOK, HoldInv, StackInv, PrepInv, CleanInv, [Next]_vars
  PROVE  CleanInv'
  <1>1. stack \in Seq(Frame) /\ Len(stack) \in Nat BY LenProperties DEF TypeOK
  <1>2. ASSUME stack' = Disturbed PROVE CleanInv'
    <2>1. SUFFICES ASSUME stack' # <<>>, Top'.clean PROVE FALSE BY DEF CleanInv
    <2>2. /\ Len(stack') = Len(stack) /\ stack' \in Seq(Frame)
          /\ \A i \in 1 .. Len(stack) : stack'[i] = [stack[i] EXCEPT !.clean = FALSE]
      BY <1>2, DisturbedType
    <2>3. stack # <<>> BY <1>1, <2>1, <2>2, EmptySeq
    <2>4. Top \in Frame /\ Len(stack) \in 1 .. Len(stack) BY <2>3, TopType
    <2>5. Top' = [Top EXCEPT !.clean = FALSE] BY <2>2, <2>4 DEF Top
    <2>6. Top'.clean = FALSE BY <2>4, <2>5 DEF Frame
    <2>7. QED BY <2>1, <2>6
  <1>3. ASSUME NEW o, NEW op, NEW a, NEW n, Call(o, op, a, n) PROVE CleanInv'
    <2>1. Top'.pc = "set" BY <1>3, CallFrames DEF Top
    <2>2. QED BY <2>1 DEF CleanInv
  <1>4. CASE Return
    <2>1. SUFFICES ASSUME stack' # <<>>, Top'.clean PROVE FALSE BY DEF CleanInv
    <2>2. /\ Len(stack') = Len(stack) - 1
          /\ \A i \in 1 .. Len(stack) - 1 : stack'[i] = stack[i]
      BY <1>4, ReturnFrames
    <2>3. stack' \in Seq(Frame) BY <1>4, TypeMethod DEF TypeOK, Method
    <2>4. Len(stack') # 0 /\ Len(stack') \in Nat BY <2>1, <2>3, EmptySeq, LenProperties
    <2>5. /\ Len(stack) - 1 \in 1 .. Len(stack) - 1 /\ Len(stack) - 1 \in 1 .. Len(stack)
          /\ Len(stack) - 1 # Len(stack)
      BY <1>1, <2>2, <2>4
    <2>6. Top' = stack[Len(stack) - 1] BY <2>2, <2>5 DEF Top
    <2>7. QED BY <2>1, <2>5, <2>6 DEF StackInv
  <1>5. CASE UNCHANGED vars
    BY <1>5 DEF vars, objects, driver, CleanInv, Programmed, Transfer, Served, Top, Busy, Held,
       Reads, Buffer, Total, Dir
  <1>6. CASE Python
    BY <1>2, <1>3, <1>6 DEF Python, i2c_obj_make_new, i2c_obj_deinit
  <1>7. CASE Method BY <1>4, <1>7, CleanMethod
  <1>8. QED BY <1>5, <1>6, <1>7, CleanBus DEF Next, BusStep

\* An undisturbed call that began on a quiet bus is never refused as in use, and
\* reports success only for its own transfer: a device answered at its address,
\* and every byte went between that device and its own buffer, in its direction.
THEOREM OwnResultCorrect == Spec => []OwnResult
  <1>1. Init => CleanInv BY DEF Init, CleanInv
  <1>2. SyncInv /\ CleanInv /\ [Next]_vars => CleanInv' BY CleanStep DEF SyncInv
  <1>3. SyncInv /\ CleanInv => OwnResult
    <2>1. SUFFICES ASSUME SyncInv, CleanInv, NEW i \in DOMAIN stack, stack[i].pc = "waited",
                          stack[i].clean
                   PROVE  stack[i].result # "in_use" /\ (stack[i].result = "ok" => Served(stack[i]))
      BY DEF OwnResult, Served, Dir
    <2>2. stack \in Seq(Frame) /\ StackInv BY <2>1 DEF SyncInv, TypeOK
    <2>3. i \in 1 .. Len(stack) BY <2>2, LenProperties
    <2>4. i = Len(stack) BY <2>1, <2>2, <2>3 DEF StackInv
    <2>5. stack # <<>> BY <2>3, <2>2, EmptySeq
    <2>6. stack[i] = Top BY <2>4 DEF Top
    <2>7. QED BY <2>1, <2>5, <2>6 DEF CleanInv
  <1>4. QED BY <1>1, <1>2, <1>3, SyncInvariant, PTL DEF Spec
=============================================================================
