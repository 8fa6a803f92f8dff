----------------------------- MODULE SpiSyncProofs -----------------------------
(***************************************************************************)
(* What machine.SPI promises, for any number of objects and calls, any     *)
(* lengths and any depth of the FIFOs.                                     *)
(*                                                                         *)
(* MoveInv balances the characters the driver has sent, those under way    *)
(* and those received; with it TeiInv says that TEI is enabled only when   *)
(* all have been received, so a pending idle is harmless.  StackInv leaves *)
(* only the running call to be followed: CleanInv relates the transfer to  *)
(* the call that waits for it, and to the flag it will find.  QuietInv     *)
(* says whose the transfer and its buffers are as long as no Python code   *)
(* ran in a poll hook, and needs IdInv: a call's number is new to the      *)
(* driver, so that no buffer of it has been in use before.                 *)
(***************************************************************************)
EXTENDS SpiSync, SequenceTheorems, TLAPS

\* Where a call is and how it ends.
Pcs == {"init", "start", "free", "wait", "waited"}
Ops == {"read", "write", "write_readinto"}
Results == {"none", "ok", "in_use", "timeout", "aborted"}
Sides == {"tx", "rx"}

Frame == [op : Ops, len : Nat \ {0}, id : Nat \ {0}, pc : Pcs, result : Results,
          clean : BOOLEAN, sent : Nat, got : Nat]

Control == [open : BOOLEAN, id : Nat, tx_count : Nat, rx_count : Nat, count : Nat]

Registers == [spe : BOOLEAN, tei_en : BOOLEAN, tei_pend : BOOLEAN, out : Nat, in : Nat,
              idlnf : BOOLEAN]

\* Every variable has its type.
TypeOK ==
  /\ made \in 0 .. MaxObjs
  /\ is_open \in [Objs -> BOOLEAN]
  /\ transfer_complete \in BOOLEAN
  /\ transfer_result \in {"ok", "aborted"}
  /\ stack \in Seq(Frame)
  /\ ctrl \in Control
  /\ reg \in Registers
  /\ freed \subseteq (Nat \X Sides) /\ reused \subseteq (Nat \X Sides)
  /\ foreign \in BOOLEAN /\ hooked \in BOOLEAN /\ late \in BOOLEAN /\ cut \in BOOLEAN
  /\ calls \in Nat

-----------------------------------------------------------------------------
(* The inductive invariant *)

\* A call below the running one is disturbed, and waits.
StackInv ==
  \A i \in 1 .. Len(stack) : i # Len(stack) => stack[i].clean = FALSE /\ stack[i].pc = "wait"

\* The driver has never seen a call that has not started its transfer.
IdInv ==
  /\ ctrl.id <= calls
  /\ \A b \in reused : b[1] <= ctrl.id
  /\ (stack # <<>> /\ Top.pc \in {"init", "start"}) =>
       /\ ctrl.id < Top.id /\ Top.id <= calls
       /\ Top.sent = 0 /\ Top.got = 0 /\ Top.result = "none"

\* A character that was sent is received, or under way.
MoveInv ==
  reg.spe = TRUE => /\ ctrl.rx_count + reg.in + reg.out = ctrl.tx_count
                    /\ ctrl.tx_count <= ctrl.count

\* TEI is enabled only when everything has been received.
TeiInv == cut = FALSE /\ reg.tei_en = TRUE => reg.spe = TRUE /\ ctrl.rx_count = ctrl.count

\* What the driver has done for an undisturbed call f, and what the flag says of it.
CallOf(f) ==
  /\ f.pc = "start" => reg.spe = FALSE /\ transfer_complete = FALSE
  /\ f.pc \in {"free", "wait"} =>
       /\ f.result = "none"
       /\ ctrl.id = f.id /\ ctrl.count = f.len
       /\ f.sent = ctrl.tx_count /\ f.got = ctrl.rx_count
       /\ transfer_complete = TRUE =>
            /\ reg.spe = FALSE
            /\ transfer_result = "ok" => f.sent = f.len /\ f.got = f.len
  /\ f.pc = "waited" =>
       /\ f.result \in {"ok", "aborted", "timeout"}
       /\ f.result \in {"ok", "aborted"} => reg.spe = FALSE
       /\ f.result = "ok" => f.sent = f.len /\ f.got = f.len

CleanInv == (cut = FALSE /\ stack # <<>> /\ Top.clean = TRUE) => CallOf(Top)

\* As long as no Python code ran in a poll hook and no transfer outlived its call, a
\* transfer belongs to the one call in progress, and its buffers to that call.
QuietInv ==
  hooked = FALSE /\ late = FALSE =>
    /\ cut = FALSE
    /\ Len(stack) <= 1
    /\ stack = <<>> => reg.spe = FALSE
    /\ stack # <<>> => Top.clean = TRUE /\ (Top.pc = "init" => reg.spe = FALSE)
    /\ reg.spe = TRUE => \A side \in Sides : <<ctrl.id, side>> \notin reused

SpiInv ==
  /\ TypeOK /\ StackInv /\ IdInv /\ MoveInv /\ TeiInv /\ CleanInv /\ QuietInv
  /\ NoForeignMemory

-----------------------------------------------------------------------------
(* The stack *)

LEMMA TopType ==
  ASSUME TypeOK, stack # <<>>
  PROVE  /\ stack \in Seq(Frame) /\ Len(stack) \in Nat /\ Len(stack) \in 1 .. Len(stack)
         /\ DOMAIN stack = 1 .. Len(stack) /\ Top \in Frame
  <1>1. stack \in Seq(Frame) BY DEF TypeOK
  <1>2. Len(stack) \in Nat /\ Len(stack) # 0 /\ DOMAIN stack = 1 .. Len(stack)
    BY <1>1, LenProperties, EmptySeq
  <1>3. Len(stack) \in 1 .. Len(stack) BY <1>2
  <1>4. QED BY <1>1, <1>2, <1>3, ElementOfSeq DEF Top

\* A step of the running call changes its frame and no other.
LEMMA BecomeFrame ==
  ASSUME TypeOK, StackInv, stack # <<>>, NEW f \in Frame, Become(f)
  PROVE  /\ stack' \in Seq(Frame) /\ stack' # <<>> /\ Len(stack') = Len(stack)
         /\ Top' = f /\ StackInv'
  <1>1. stack \in Seq(Frame) /\ Len(stack) \in Nat /\ Len(stack) \in 1 .. Len(stack) BY TopType
  <1>2. stack' = [stack EXCEPT ![Len(stack)] = f] BY DEF Become
  <1>3. stack' \in Seq(Frame) /\ Len(stack') = Len(stack) BY <1>1, <1>2, ExceptSeq
  <1>4. \A i \in 1 .. Len(stack) : stack'[i] = IF i = Len(stack) THEN f ELSE stack[i]
    BY <1>1, <1>2, ExceptSeq
  <1>5. stack' # <<>> BY <1>1, <1>3
  <1>6. Top' = f BY <1>1, <1>3, <1>4 DEF Top
  <1>7. StackInv' BY <1>3, <1>4 DEF StackInv
  <1>8. QED BY <1>3, <1>5, <1>6, <1>7

LEMMA DisturbedFrames ==
  ASSUME TypeOK
  PROVE  /\ Disturbed \in Seq(Frame) /\ Len(Disturbed) = Len(stack) /\ Len(stack) \in Nat
         /\ \A i \in 1 .. Len(stack) : /\ stack[i] \in Frame
                                       /\ Disturbed[i] = [stack[i] EXCEPT !.clean = FALSE]
  <1>1. stack \in Seq(Frame) BY DEF TypeOK
  <1>2. DOMAIN stack = 1 .. Len(stack) /\ Len(stack) \in Nat BY <1>1, LenProperties
  <1>3. \A i \in 1 .. Len(stack) : stack[i] \in Frame BY <1>1, ElementOfSeq
  <1>4. ASSUME NEW f \in Frame PROVE [f EXCEPT !.clean = FALSE] \in Frame BY DEF Frame
  <1>5. Disturbed \in [1 .. Len(stack) -> Frame] BY <1>2, <1>3, <1>4 DEF Disturbed
  <1>6. Disturbed \in Seq(Frame) /\ Len(Disturbed) = Len(stack)
    BY <1>2, <1>5, IsASeq, LenProperties
  <1>7. QED BY <1>2, <1>3, <1>6 DEF Disturbed

\* What Python code in a poll hook does to the calls in progress.
LEMMA DisturbedTop ==
  ASSUME TypeOK, StackInv, stack' = Disturbed
  PROVE  /\ stack' \in Seq(Frame) /\ Len(stack') = Len(stack) /\ StackInv'
         /\ (stack = <<>>) <=> (stack' = <<>>)
         /\ stack # <<>> => Top \in Frame /\ Top' = [Top EXCEPT !.clean = FALSE]
  <1>1. /\ stack' \in Seq(Frame) /\ Len(stack') = Len(stack) /\ Len(stack) \in Nat
        /\ \A i \in 1 .. Len(stack) : /\ stack[i] \in Frame
                                      /\ stack'[i] = [stack[i] EXCEPT !.clean = FALSE]
    BY DisturbedFrames
  <1>2. \A i \in 1 .. Len(stack) : stack'[i].clean = FALSE /\ stack'[i].pc = stack[i].pc
    BY <1>1 DEF Frame
  <1>3. StackInv' BY <1>1, <1>2 DEF StackInv
  <1>4. stack \in Seq(Frame) BY DEF TypeOK
  <1>5. (stack = <<>>) <=> (stack' = <<>>) BY <1>1, <1>4, EmptySeq
  <1>6. ASSUME stack # <<>> PROVE Top \in Frame /\ Top' = [Top EXCEPT !.clean = FALSE]
    <2>1. Len(stack) \in 1 .. Len(stack) /\ Top \in Frame BY <1>6, TopType
    <2>2. QED BY <1>1, <2>1 DEF Top
  <1>7. QED BY <1>1, <1>3, <1>5, <1>6

\* A new call, over whatever call waits in its poll hook.
LEMMA CallTop ==
  ASSUME TypeOK, NEW o, NEW op \in Ops, NEW n \in Nat \ {0}, Call(o, op, n)
  PROVE  /\ stack' \in Seq(Frame) /\ Len(stack') = Len(stack) + 1 /\ Len(stack) \in Nat
         /\ stack' # <<>> /\ StackInv'
         /\ Top' = [op |-> op, len |-> n, id |-> calls + 1, pc |-> "init", result |-> "none",
                    clean |-> TRUE, sent |-> 0, got |-> 0]
  <1> DEFINE f == [op |-> op, len |-> n, id |-> calls + 1, pc |-> "init", result |-> "none",
                   clean |-> TRUE, sent |-> 0, got |-> 0]
  <1>1. stack' = Append(Disturbed, f) BY DEF Call
  <1>2. calls + 1 \in Nat \ {0} BY DEF TypeOK
  <1>3. f \in Frame BY <1>2 DEF Frame, Pcs, Results
  <1> HIDE DEF f
  <1>4. /\ Disturbed \in Seq(Frame) /\ Len(Disturbed) = Len(stack) /\ Len(stack) \in Nat
        /\ \A i \in 1 .. Len(stack) : /\ stack[i] \in Frame
                                      /\ Disturbed[i] = [stack[i] EXCEPT !.clean = FALSE]
    BY DisturbedFrames
  <1>5. /\ stack' \in Seq(Frame) /\ Len(stack') = Len(stack) + 1 /\ stack'[Len(stack) + 1] = f
        /\ \A i \in 1 .. Len(stack) : stack'[i] = Disturbed[i]
    BY <1>1, <1>3, <1>4, AppendProperties
  <1>6. ASSUME NEW i \in 1 .. Len(stack) PROVE stack'[i].clean = FALSE /\ stack'[i].pc = "wait"
    <2>1. stack # <<>> BY <1>4, <1>6, EmptySeq DEF TypeOK
    <2>2. Len(stack) = 1 /\ Top.pc = "wait" BY <2>1 DEF Call, PythonRuns
    <2>3. stack[i].pc = "wait" BY <1>6, <2>2 DEF Top
    <2>4. stack[i] \in Frame /\ stack'[i] = [stack[i] EXCEPT !.clean = FALSE]
      BY <1>4, <1>5, <1>6
    <2>5. QED BY <2>3, <2>4 DEF Frame
  <1>7. StackInv'
    <2>1. \A i \in 1 .. Len(stack) + 1 : i # Len(stack) + 1 => i \in 1 .. Len(stack) BY <1>4
    <2>2. QED BY <1>5, <1>6, <2>1 DEF StackInv
  <1>8. Top' = f /\ stack' # <<>> BY <1>4, <1>5 DEF Top
  <1>9. QED BY <1>4, <1>5, <1>7, <1>8 DEF f

\* A return uncovers a disturbed call that waits.
LEMMA ReturnTop ==
  ASSUME TypeOK, StackInv, stack # <<>>, stack' = SubSeq(stack, 1, Len(stack) - 1)
  PROVE  /\ stack' \in Seq(Frame) /\ Len(stack') = Len(stack) - 1 /\ Len(stack) \in Nat
         /\ StackInv'
         /\ stack' # <<>> => /\ Top'.clean = FALSE /\ Top'.pc = "wait"
                             /\ Len(stack) > 1 /\ Top' = stack[Len(stack) - 1]
  <1>1. stack \in Seq(Frame) /\ Len(stack) \in Nat /\ Len(stack) \in 1 .. Len(stack) BY TopType
  <1>2. \A i \in 1 .. Len(stack) - 1 : stack[i] \in Frame BY <1>1, ElementOfSeq
  <1>3. /\ stack' \in Seq(Frame)
        /\ Len(stack') = IF 1 <= Len(stack) - 1 THEN Len(stack) - 1 - 1 + 1 ELSE 0
        /\ \A i \in 1 .. Len(stack) - 1 - 1 + 1 : stack'[i] = stack[1 + i - 1]
    BY <1>1, <1>2, SubSeqProperties
  <1>4. Len(stack') = Len(stack) - 1
    <2>1. \A k \in Nat : k \in 1 .. k => (IF 1 <= k - 1 THEN k - 1 - 1 + 1 ELSE 0) = k - 1
      OBVIOUS
    <2>2. QED BY <1>1, <1>3, <2>1, Zenon
  <1>5. \A i \in 1 .. Len(stack) - 1 : stack'[i] = stack[i] BY <1>1, <1>3
  <1>6. \A i \in 1 .. Len(stack) - 1 : stack'[i].clean = FALSE /\ stack'[i].pc = "wait"
    BY <1>1, <1>5 DEF StackInv
  <1>7. StackInv' BY <1>1, <1>4, <1>6 DEF StackInv
  <1>8. ASSUME stack' # <<>>
        PROVE  /\ Top'.clean = FALSE /\ Top'.pc = "wait"
               /\ Len(stack) > 1 /\ Top' = stack[Len(stack) - 1]
    <2>1. Len(stack') # 0 BY <1>3, <1>8, EmptySeq
    <2>2. Len(stack) - 1 \in 1 .. Len(stack) - 1 BY <1>1, <1>4, <2>1
    <2>3. QED BY <1>1, <1>4, <1>5, <1>6, <2>2 DEF Top
  <1>9. QED BY <1>1, <1>3, <1>4, <1>7, <1>8

\* What an access of the driver counts for.
LEMMA AccessTop ==
  ASSUME TypeOK, StackInv, NEW side, NEW counter \in {"sent", "got"}, Access(side, counter)
  PROVE  /\ stack' \in Seq(Frame) /\ Len(stack') = Len(stack) /\ StackInv'
         /\ (stack = <<>>) <=> (stack' = <<>>)
         /\ stack # <<>> =>
              /\ Top \in Frame
              /\ Top' = IF Top.id = ctrl.id THEN [Top EXCEPT ![counter] = @ + 1] ELSE Top
  <1>1. stack \in Seq(Frame) BY DEF TypeOK
  <1>2. DOMAIN stack = 1 .. Len(stack) /\ Len(stack) \in Nat BY <1>1, LenProperties
  <1>3. \A i \in 1 .. Len(stack) : stack[i] \in Frame BY <1>1, ElementOfSeq
  <1>4. ASSUME NEW f \in Frame
        PROVE  /\ [f EXCEPT ![counter] = @ + 1] \in Frame
               /\ [f EXCEPT ![counter] = @ + 1].clean = f.clean
               /\ [f EXCEPT ![counter] = @ + 1].pc = f.pc
    <2>1. CASE counter = "sent" BY <2>1 DEF Frame
    <2>2. CASE counter = "got" BY <2>2 DEF Frame
    <2>3. QED BY <2>1, <2>2
  <1>5. \A i \in 1 .. Len(stack) :
          stack'[i] = IF stack[i].id = ctrl.id THEN [stack[i] EXCEPT ![counter] = @ + 1]
                                               ELSE stack[i]
    BY <1>2 DEF Access
  <1>6. \A i \in 1 .. Len(stack) : /\ stack'[i] \in Frame /\ stack'[i].clean = stack[i].clean
                                   /\ stack'[i].pc = stack[i].pc
    BY <1>3, <1>4, <1>5
  <1>7. stack' \in [1 .. Len(stack) -> Frame] BY <1>2, <1>6 DEF Access
  <1>8. stack' \in Seq(Frame) /\ Len(stack') = Len(stack) BY <1>2, <1>7, IsASeq, LenProperties
  <1>9. StackInv' BY <1>6, <1>8 DEF StackInv
  <1>10. (stack = <<>>) <=> (stack' = <<>>) BY <1>1, <1>8, EmptySeq
  <1>11. ASSUME stack # <<>>
         PROVE  /\ Top \in Frame
                /\ Top' = IF Top.id = ctrl.id THEN [Top EXCEPT ![counter] = @ + 1] ELSE Top
    <2>1. Len(stack) \in 1 .. Len(stack) /\ Top \in Frame BY <1>11, TopType
    <2>2. QED BY <1>5, <1>8, <2>1 DEF Top
  <1>12. QED BY <1>8, <1>9, <1>10, <1>11

-----------------------------------------------------------------------------
(* Python code *)

LEMMA SpiInitial == Init => SpiInv
  <1> SUFFICES ASSUME Init PROVE SpiInv OBVIOUS
  <1>1. /\ ctrl = [open |-> FALSE, id |-> 0, tx_count |-> 0, rx_count |-> 0, count |-> 0]
        /\ reg = [spe |-> FALSE, tei_en |-> FALSE, tei_pend |-> FALSE, out |-> 0, in |-> 0,
                  idlnf |-> FALSE]
        /\ stack = <<>> /\ freed = {} /\ reused = {} /\ foreign = FALSE /\ cut = FALSE
        /\ hooked = FALSE /\ late = FALSE /\ calls = 0
        /\ transfer_complete = FALSE /\ transfer_result = "ok"
    BY DEF Init
  <1>2. TypeOK
    <2>1. stack \in Seq(Frame) BY <1>1, EmptySeq
    <2>2. ctrl \in Control /\ reg \in Registers BY <1>1 DEF Control, Registers
    <2>3. made \in 0 .. MaxObjs BY BoundsAssumption DEF Init
    <2>4. is_open \in [Objs -> BOOLEAN] BY DEF Init
    <2>5. QED BY <1>1, <2>1, <2>2, <2>3, <2>4 DEF TypeOK
  <1>3. Len(stack) = 0 BY <1>1, EmptySeq
  <1>4. StackInv BY <1>1, <1>3 DEF StackInv
  <1>5. IdInv BY <1>1 DEF IdInv
  <1>6. MoveInv /\ TeiInv BY <1>1 DEF MoveInv, TeiInv
  <1>7. CleanInv /\ QuietInv /\ NoForeignMemory
    BY <1>1, <1>3 DEF CleanInv, QuietInv, NoForeignMemory
  <1>8. QED BY <1>2, <1>4, <1>5, <1>6, <1>7 DEF SpiInv

\* What Python code may do in a poll hook: the waiting call is not followed any more.
\* Python code outside a method finds the SPI idle, or a transfer outlived its call.
LEMMA DisturbStep ==
  ASSUME SpiInv, TypeOK', Disturb, stack' = Disturbed, UNCHANGED <<foreign, late, calls>>,
         ctrl'.id = ctrl.id, \A b \in reused' : b \in reused \/ b[1] = ctrl.id,
         reg.spe = FALSE => reg'.spe = FALSE /\ cut' = cut
  PROVE  StackInv' /\ IdInv' /\ CleanInv' /\ QuietInv' /\ NoForeignMemory'
  <1> USE DEF SpiInv
  <1>1. /\ Len(stack') = Len(stack) /\ StackInv' /\ ((stack = <<>>) <=> (stack' = <<>>))
        /\ stack # <<>> => Top \in Frame /\ Top' = [Top EXCEPT !.clean = FALSE]
    BY DisturbedTop
  <1>2. stack # <<>> => /\ Top'.clean = FALSE /\ Top'.pc = Top.pc /\ Top'.id = Top.id
                        /\ Top'.sent = Top.sent /\ Top'.got = Top.got /\ Top'.result = Top.result
    BY <1>1 DEF Frame
  <1>3. ctrl.id \in Nat /\ ctrl.id <= ctrl.id BY DEF TypeOK, Control
  <1>4. IdInv' BY <1>1, <1>2, <1>3 DEF IdInv
  <1>5. CleanInv' BY <1>1, <1>2 DEF CleanInv
  <1>6. hooked \in BOOLEAN /\ (hooked' = FALSE => hooked = FALSE /\ stack = <<>>)
    BY DEF Disturb, TypeOK
  <1>7. QuietInv' BY <1>1, <1>6 DEF QuietInv
  <1>8. NoForeignMemory' BY <1>6 DEF NoForeignMemory, Disturb
  <1>9. QED BY <1>1, <1>4, <1>5, <1>7, <1>8

\* A driver that is opened has nothing under way.
LEMMA OpenedDriver ==
  ASSUME NEW r \in Registers, TypeOK, Opened(r)
  PROVE  /\ ctrl' \in Control /\ ctrl'.id = ctrl.id /\ ctrl'.rx_count = ctrl.rx_count
         /\ ctrl'.count = ctrl.count
         /\ reg' \in Registers /\ reg'.spe = FALSE /\ reg'.tei_en = r.tei_en
  <1>1. ctrl \in Control /\ ctrl' = [ctrl EXCEPT !.open = TRUE] BY DEF Opened, TypeOK
  <1>2. PICK pend \in {r.tei_pend, r.spe \/ r.tei_pend} :
          reg' = [r EXCEPT !.spe = FALSE, !.out = 0, !.in = 0, !.idlnf = FALSE, !.tei_pend = pend]
    BY DEF Opened
  <1>3. pend \in BOOLEAN BY <1>2 DEF Registers
  <1>4. reg' \in Registers /\ reg'.spe = FALSE /\ reg'.tei_en = r.tei_en
    BY <1>2, <1>3 DEF Registers
  <1>5. QED BY <1>1, <1>4 DEF Control

LEMMA SpiPython ==
  ASSUME SpiInv, Python
  PROVE  SpiInv'
  <1> USE DEF SpiInv
  <1>1. reg \in Registers /\ ctrl \in Control /\ cut \in BOOLEAN /\ reg.spe \in BOOLEAN
    BY DEF TypeOK, Registers
  <1>2. ASSUME NEW b \in Buffers, Reuse(b) PROVE SpiInv'
    <2>1. /\ freed' = freed \ {b} /\ reused' = reused \cup {b} /\ b \in freed /\ b[1] = ctrl.id
          /\ Disturb /\ stack' = Disturbed
          /\ UNCHANGED <<objects, sync, driver, foreign, late, cut, calls>>
      BY <1>2 DEF Reuse
    <2>2. TypeOK'
      <3>1. stack' \in Seq(Frame) BY <2>1, DisturbedTop
      <3>2. reused' \subseteq (Nat \X Sides) /\ freed' \subseteq (Nat \X Sides)
        BY <2>1 DEF TypeOK
      <3>3. hooked' \in BOOLEAN BY <2>1 DEF Disturb, TypeOK
      <3>4. QED BY <2>1, <3>1, <3>2, <3>3 DEF TypeOK, objects, sync, driver
    <2>3. StackInv' /\ IdInv' /\ CleanInv' /\ QuietInv' /\ NoForeignMemory'
      BY <2>1, <2>2, DisturbStep DEF driver
    <2>4. MoveInv' /\ TeiInv' BY <2>1 DEF MoveInv, TeiInv, driver
    <2>5. QED BY <2>2, <2>3, <2>4
  <1>3. CASE spi_obj_make_new
    <2>1. /\ made < MaxObjs /\ made' = made + 1 /\ is_open' = [is_open EXCEPT ![made'] = TRUE]
          /\ Opened(reg) /\ cut' = (cut \/ reg.spe) /\ Disturb /\ stack' = Disturbed
          /\ UNCHANGED <<sync, memory, foreign, late, calls>>
      BY <1>3 DEF spi_obj_make_new
    <2>2. /\ ctrl' \in Control /\ ctrl'.id = ctrl.id /\ ctrl'.rx_count = ctrl.rx_count
          /\ ctrl'.count = ctrl.count
          /\ reg' \in Registers /\ reg'.spe = FALSE /\ reg'.tei_en = reg.tei_en
      BY <1>1, <2>1, OpenedDriver
    <2>3. TypeOK'
      <3>1. stack' \in Seq(Frame) BY <2>1, DisturbedTop
      <3>2. hooked' \in BOOLEAN /\ cut' \in BOOLEAN BY <1>1, <2>1 DEF Disturb, TypeOK
      <3>3. made' \in 0 .. MaxObjs BY <2>1, BoundsAssumption DEF TypeOK
      <3>4. is_open' \in [Objs -> BOOLEAN] BY <2>1 DEF TypeOK
      <3>5. QED BY <2>1, <2>2, <3>1, <3>2, <3>3, <3>4 DEF TypeOK, sync, memory
    <2>4. reg.spe = FALSE => cut' = cut BY <1>1, <2>1
    <2>5. StackInv' /\ IdInv' /\ CleanInv' /\ QuietInv' /\ NoForeignMemory'
      BY <2>1, <2>2, <2>3, <2>4, DisturbStep DEF memory
    <2>6. cut' = FALSE => cut = FALSE /\ reg.spe = FALSE BY <1>1, <2>1
    <2>7. MoveInv' /\ TeiInv' BY <2>2, <2>6 DEF MoveInv, TeiInv
    <2>8. QED BY <2>3, <2>5, <2>7
  <1>4. ASSUME NEW o \in Objs, spi_obj_deinit(o) PROVE SpiInv'
    <2>1. /\ is_open' = [is_open EXCEPT ![o] = FALSE] /\ Closed /\ Disturb /\ stack' = Disturbed
          /\ UNCHANGED <<made, sync, memory, foreign, late, cut, calls>>
      BY <1>4 DEF spi_obj_deinit
    <2>2. /\ ctrl' \in Control /\ ctrl'.id = ctrl.id
          /\ reg' \in Registers /\ reg'.spe = FALSE /\ reg'.tei_en = FALSE
      BY <1>1, <2>1 DEF Closed, Control, Registers
    <2>3. TypeOK'
      <3>1. stack' \in Seq(Frame) BY <2>1, DisturbedTop
      <3>2. hooked' \in BOOLEAN BY <2>1 DEF Disturb, TypeOK
      <3>3. is_open' \in [Objs -> BOOLEAN] BY <2>1 DEF TypeOK
      <3>4. QED BY <2>1, <2>2, <3>1, <3>2, <3>3 DEF TypeOK, sync, memory
    <2>4. StackInv' /\ IdInv' /\ CleanInv' /\ QuietInv' /\ NoForeignMemory'
      BY <2>1, <2>2, <2>3, DisturbStep DEF memory
    <2>5. MoveInv' /\ TeiInv' BY <2>2 DEF MoveInv, TeiInv
    <2>6. QED BY <2>3, <2>4, <2>5
  <1>5. ASSUME NEW o \in Objs, spi_obj_init(o) PROVE SpiInv'
    <2> DEFINE r == IF is_open[o] THEN [reg EXCEPT !.spe = FALSE, !.tei_en = FALSE] ELSE reg
    <2>1. /\ Opened(r) /\ is_open' = [is_open EXCEPT ![o] = TRUE]
          /\ cut' = (cut \/ (reg.spe /\ ~is_open[o])) /\ Disturb /\ stack' = Disturbed
          /\ UNCHANGED <<made, sync, memory, foreign, late, calls>>
      BY <1>5 DEF spi_obj_init
    <2>2. /\ r \in Registers /\ is_open[o] \in BOOLEAN
          /\ r.tei_en = IF is_open[o] THEN FALSE ELSE reg.tei_en
      BY <1>1 DEF Registers, TypeOK
    <2> HIDE DEF r
    <2>3. /\ ctrl' \in Control /\ ctrl'.id = ctrl.id /\ ctrl'.rx_count = ctrl.rx_count
          /\ ctrl'.count = ctrl.count
          /\ reg' \in Registers /\ reg'.spe = FALSE /\ reg'.tei_en = r.tei_en
      BY <2>1, <2>2, OpenedDriver
    <2>4. TypeOK'
      <3>1. stack' \in Seq(Frame) BY <2>1, DisturbedTop
      <3>2. hooked' \in BOOLEAN /\ cut' \in BOOLEAN BY <1>1, <2>1 DEF Disturb, TypeOK
      <3>3. is_open' \in [Objs -> BOOLEAN] BY <2>1 DEF TypeOK
      <3>4. QED BY <2>1, <2>3, <3>1, <3>2, <3>3 DEF TypeOK, sync, memory
    <2>5. reg.spe = FALSE => cut' = cut BY <1>1, <2>1
    <2>6. StackInv' /\ IdInv' /\ CleanInv' /\ QuietInv' /\ NoForeignMemory'
      BY <2>1, <2>3, <2>4, <2>5, DisturbStep DEF memory
    <2>7. cut' = FALSE => cut = FALSE /\ (reg.spe = FALSE \/ is_open[o] = TRUE)
      BY <1>1, <2>1, <2>2
    <2>8. MoveInv' /\ TeiInv' BY <2>2, <2>3, <2>7 DEF MoveInv, TeiInv
    <2>9. QED BY <2>4, <2>6, <2>8
  <1>6. ASSUME NEW o \in Objs, NEW n \in Lens, NEW op \in Ops, Call(o, op, n) PROVE SpiInv'
    <2>1. /\ calls' = calls + 1 /\ Disturb
          /\ UNCHANGED <<objects, sync, driver, memory, foreign, late, cut>>
      BY <1>6 DEF Call
    <2>2. n \in Nat \ {0} BY BoundsAssumption
    <2>3. /\ stack' \in Seq(Frame) /\ Len(stack') = Len(stack) + 1 /\ Len(stack) \in Nat
          /\ stack' # <<>> /\ StackInv'
          /\ Top' = [op |-> op, len |-> n, id |-> calls + 1, pc |-> "init", result |-> "none",
                     clean |-> TRUE, sent |-> 0, got |-> 0]
      BY <1>6, <2>2, CallTop
    <2>4. calls \in Nat /\ ctrl.id \in Nat BY DEF TypeOK, Control
    <2>5. hooked' \in BOOLEAN /\ (hooked' = FALSE => hooked = FALSE /\ stack = <<>>)
      BY <2>1 DEF Disturb, TypeOK
    <2>6. TypeOK' BY <2>1, <2>3, <2>4, <2>5 DEF TypeOK, objects, sync, driver, memory
    <2>7. IdInv' BY <2>1, <2>3, <2>4 DEF IdInv, driver, memory
    <2>8. MoveInv' /\ TeiInv' BY <2>1 DEF MoveInv, TeiInv, driver
    <2>9. CleanInv' BY <2>3 DEF CleanInv, CallOf
    <2>10. stack = <<>> => Len(stack) = 0 BY EmptySeq
    <2>11. QuietInv' BY <2>1, <2>3, <2>5, <2>10 DEF QuietInv, driver, memory
    <2>12. NoForeignMemory' BY <2>1, <2>5 DEF NoForeignMemory, Disturb
    <2>13. QED BY <2>3, <2>6, <2>7, <2>8, <2>9, <2>11, <2>12
  <1>7. QED BY <1>2, <1>3, <1>4, <1>5, <1>6 DEF Python, Ops

-----------------------------------------------------------------------------
(* The methods *)

LEMMA SpiMethod ==
  ASSUME SpiInv, Method
  PROVE  SpiInv'
  <1> USE DEF SpiInv
  <1>1. stack # <<>> /\ Top \in Frame
    BY TopType DEF Method, spi_sync_init, WriteReadInUse, WriteRead, FreeDummies, WaitEnds,
                   WaitTimesOut, Return, Running
  <1>2. /\ reg \in Registers /\ ctrl \in Control /\ reg.spe \in BOOLEAN
        /\ transfer_complete \in BOOLEAN
    BY DEF TypeOK, Registers
  <1>3. ASSUME NEW f \in Frame, Become(f)
        PROVE  /\ stack' \in Seq(Frame) /\ stack' # <<>> /\ Len(stack') = Len(stack)
               /\ Top' = f /\ StackInv'
    BY <1>1, <1>3, BecomeFrame
  <1>4. CASE spi_sync_init
    <2> DEFINE f == [Top EXCEPT !.pc = "start", !.clean = ~reg.spe]
    <2>1. /\ Top.pc = "init" /\ Become(f) /\ transfer_complete' = FALSE /\ transfer_result' = "ok"
          /\ UNCHANGED <<objects, driver, memory, history>>
      BY <1>4 DEF spi_sync_init, Running
    <2>2. f \in Frame /\ f.pc = "start" /\ f.id = Top.id /\ f.sent = Top.sent /\ f.got = Top.got
          /\ f.result = Top.result /\ f.clean = ~reg.spe
      BY <1>1, <1>2 DEF Frame, Pcs
    <2>3. f.clean = TRUE <=> reg.spe = FALSE BY <1>2, <2>2, Zenon
    <2> HIDE DEF f
    <2>4. /\ stack' \in Seq(Frame) /\ stack' # <<>> /\ Len(stack') = Len(stack)
          /\ Top' = f /\ StackInv'
      BY <1>3, <2>1, <2>2
    <2>5. TypeOK' BY <2>1, <2>4 DEF TypeOK, objects, driver, memory, history
    <2>6. IdInv' BY <1>1, <2>1, <2>2, <2>4 DEF IdInv, driver, memory, history
    <2>7. MoveInv' /\ TeiInv' BY <2>1 DEF MoveInv, TeiInv, driver, history
    <2>8. CleanInv' BY <2>1, <2>2, <2>3, <2>4 DEF CleanInv, CallOf, driver
    <2>9. QuietInv'
      BY <1>1, <2>1, <2>2, <2>3, <2>4 DEF QuietInv, driver, memory, history
    <2>10. NoForeignMemory' BY <2>1 DEF NoForeignMemory, history
    <2>11. QED BY <2>4, <2>5, <2>6, <2>7, <2>8, <2>9, <2>10
  <1>5. CASE WriteReadInUse
    <2> DEFINE f == [Top EXCEPT !.pc = "free", !.result = "in_use"]
    <2>1. /\ Top.pc = "start" /\ reg.spe /\ Become(f)
          /\ UNCHANGED <<objects, sync, driver, memory, history>>
      BY <1>5 DEF WriteReadInUse, Running
    <2>2. f \in Frame /\ f.pc = "free" /\ f.clean = Top.clean
      BY <1>1 DEF Frame, Pcs, Results
    <2> HIDE DEF f
    <2>3. /\ stack' \in Seq(Frame) /\ stack' # <<>> /\ Len(stack') = Len(stack)
          /\ Top' = f /\ StackInv'
      BY <1>3, <2>1, <2>2
    <2>4. TypeOK' BY <2>1, <2>3 DEF TypeOK, objects, sync, driver, memory, history
    <2>5. IdInv' BY <2>1, <2>2, <2>3 DEF IdInv, driver, memory, history
    <2>6. MoveInv' /\ TeiInv' BY <2>1 DEF MoveInv, TeiInv, driver, history
    <2>7. cut = TRUE \/ Top.clean = FALSE
      BY <1>1, <2>1 DEF CleanInv, CallOf, TypeOK, Frame
    <2>8. CleanInv' BY <2>1, <2>2, <2>3, <2>7 DEF CleanInv, history
    <2>9. QuietInv' BY <1>1, <2>1, <2>7 DEF QuietInv, history
    <2>10. NoForeignMemory' BY <2>1 DEF NoForeignMemory, history
    <2>11. QED BY <2>3, <2>4, <2>5, <2>6, <2>8, <2>9, <2>10
  <1>6. CASE WriteRead
    <2> DEFINE f == [Top EXCEPT !.pc = "free"]
    <2>1. /\ Top.pc = "start" /\ ~reg.spe /\ Become(f)
          /\ ctrl' = [ctrl EXCEPT !.id = Top.id, !.tx_count = 0, !.rx_count = 0, !.count = Top.len]
          /\ reg' = [reg EXCEPT !.spe = TRUE, !.out = 0, !.in = 0]
          /\ UNCHANGED <<objects, sync, memory, history>>
      BY <1>6 DEF WriteRead, Running
    <2>2. f \in Frame /\ f.pc = "free" /\ f.id = Top.id /\ f.sent = Top.sent /\ f.got = Top.got
          /\ f.result = Top.result /\ f.clean = Top.clean /\ f.len = Top.len
      BY <1>1 DEF Frame, Pcs
    <2> HIDE DEF f
    <2>3. /\ stack' \in Seq(Frame) /\ stack' # <<>> /\ Len(stack') = Len(stack)
          /\ Top' = f /\ StackInv'
      BY <1>3, <2>1, <2>2
    <2>4. Top.id \in Nat /\ Top.len \in Nat /\ Top.len > 0 BY <1>1 DEF Frame
    <2>5. /\ ctrl' \in Control /\ ctrl'.id = Top.id /\ ctrl'.tx_count = 0 /\ ctrl'.rx_count = 0
          /\ ctrl'.count = Top.len
      BY <1>2, <2>1, <2>4 DEF Control
    <2>6. /\ reg' \in Registers /\ reg'.spe = TRUE /\ reg'.out = 0 /\ reg'.in = 0
          /\ reg'.tei_en = reg.tei_en
      BY <1>2, <2>1 DEF Registers
    <2>7. TypeOK' BY <2>1, <2>3, <2>5, <2>6 DEF TypeOK, objects, sync, memory, history
    <2>8. /\ ctrl.id < Top.id /\ Top.id <= calls
          /\ Top.sent = 0 /\ Top.got = 0 /\ Top.result = "none"
      BY <1>1, <2>1 DEF IdInv
    <2>9. ctrl.id \in Nat /\ \A b \in reused : b[1] \in Nat BY DEF TypeOK, Control
    <2>10. \A b \in reused : b[1] < Top.id BY <2>4, <2>8, <2>9 DEF IdInv
    <2>11. IdInv' BY <2>1, <2>2, <2>3, <2>4, <2>5, <2>8, <2>9, <2>10 DEF IdInv, memory, history
    <2>12. MoveInv' BY <2>4, <2>5, <2>6 DEF MoveInv
    <2>13. TeiInv' BY <1>2, <2>1, <2>6 DEF TeiInv, history
    <2>14. CleanInv'
      BY <1>1, <2>1, <2>2, <2>3, <2>5, <2>8 DEF CleanInv, CallOf, sync, history
    <2>15. QuietInv'
      <3>1. \A side \in Sides : <<Top.id, side>> \notin reused
        <4> SUFFICES ASSUME NEW side \in Sides, <<Top.id, side>> \in reused PROVE FALSE
          OBVIOUS
        <4>1. <<Top.id, side>>[1] < Top.id BY <2>10
        <4>2. QED BY <2>4, <4>1
      <3>2. QED BY <1>1, <2>1, <2>2, <2>3, <2>5, <3>1 DEF QuietInv, memory, history
    <2>16. NoForeignMemory' BY <2>1 DEF NoForeignMemory, history
    <2>17. QED BY <2>3, <2>7, <2>11, <2>12, <2>13, <2>14, <2>15, <2>16
  <1>7. CASE FreeDummies
    <2> DEFINE f == [Top EXCEPT !.pc = IF Top.result = "none" THEN "wait" ELSE "waited"]
    <2>1. /\ Top.pc = "free" /\ Become(f) /\ freed' = freed \cup Dummies(Top)
          /\ UNCHANGED <<objects, sync, driver, reused, history>>
      BY <1>7 DEF FreeDummies, Running
    <2>2. f \in Frame /\ f.pc = (IF Top.result = "none" THEN "wait" ELSE "waited")
          /\ f.id = Top.id /\ f.sent = Top.sent /\ f.got = Top.got
          /\ f.result = Top.result /\ f.clean = Top.clean /\ f.len = Top.len
      BY <1>1 DEF Frame, Pcs
    <2> HIDE DEF f
    <2>3. /\ stack' \in Seq(Frame) /\ stack' # <<>> /\ Len(stack') = Len(stack)
          /\ Top' = f /\ StackInv'
      BY <1>3, <2>1, <2>2
    <2>4. freed' \subseteq (Nat \X Sides)
      <3>1. Top.id \in Nat BY <1>1 DEF Frame
      <3>2. Dummies(Top) \subseteq (Nat \X Sides) BY <3>1 DEF Dummies, Sides
      <3>3. QED BY <2>1, <3>2 DEF TypeOK
    <2>5. TypeOK' BY <2>1, <2>3, <2>4 DEF TypeOK, objects, sync, driver, history
    <2>6. IdInv' BY <2>1, <2>2, <2>3 DEF IdInv, driver, history
    <2>7. MoveInv' /\ TeiInv' BY <2>1 DEF MoveInv, TeiInv, driver, history
    <2>8. CleanInv'
      BY <1>1, <2>1, <2>2, <2>3 DEF CleanInv, CallOf, sync, driver, history
    <2>9. QuietInv' BY <1>1, <2>1, <2>2, <2>3 DEF QuietInv, driver, history
    <2>10. NoForeignMemory' BY <2>1 DEF NoForeignMemory, history
    <2>11. QED BY <2>3, <2>5, <2>6, <2>7, <2>8, <2>9, <2>10
  <1>8. ASSUME NEW res \in {"ok", "aborted", "timeout"}, Top.pc = "wait",
               Become([Top EXCEPT !.pc = "waited", !.result = res]),
               res # "timeout" => transfer_complete = TRUE /\ res = transfer_result,
               UNCHANGED <<objects, sync, driver, memory, history>>
        PROVE  SpiInv'
    <2> DEFINE f == [Top EXCEPT !.pc = "waited", !.result = res]
    <2>1. f \in Frame /\ f.pc = "waited" /\ f.result = res /\ f.sent = Top.sent
          /\ f.got = Top.got /\ f.clean = Top.clean /\ f.len = Top.len
      BY <1>1 DEF Frame, Pcs, Results
    <2>2. Become(f) BY <1>8
    <2> HIDE DEF f
    <2>3. /\ stack' \in Seq(Frame) /\ stack' # <<>> /\ Len(stack') = Len(stack)
          /\ Top' = f /\ StackInv'
      BY <1>3, <2>1, <2>2
    <2>4. TypeOK' BY <1>8, <2>3 DEF TypeOK, objects, sync, driver, memory, history
    <2>5. IdInv' BY <1>8, <2>1, <2>3 DEF IdInv, driver, memory, history
    <2>6. MoveInv' /\ TeiInv' BY <1>8 DEF MoveInv, TeiInv, driver, history
    <2>7. CleanInv'
      BY <1>1, <1>8, <2>1, <2>3 DEF CleanInv, CallOf, sync, driver, history
    <2>8. QuietInv' BY <1>1, <1>8, <2>1, <2>3 DEF QuietInv, driver, memory, history
    <2>9. NoForeignMemory' BY <1>8 DEF NoForeignMemory, history
    <2>10. QED BY <2>3, <2>4, <2>5, <2>6, <2>7, <2>8, <2>9
  <1>9. CASE WaitEnds
    <2>1. transfer_result \in {"ok", "aborted", "timeout"} /\ transfer_result # "timeout"
      BY DEF TypeOK
    <2>2. QED BY <1>2, <1>8, <1>9, <2>1 DEF WaitEnds, Running
  <1>10. CASE WaitTimesOut
    <2>1. Top.pc = "wait" /\ Become([Top EXCEPT !.pc = "waited", !.result = "timeout"])
          /\ UNCHANGED <<objects, sync, driver, memory, history>>
      BY <1>10 DEF WaitTimesOut, Running
    <2>2. QED BY <1>8, <2>1
  <1>11. CASE Return
    <2>1. /\ Top.pc = "waited" /\ freed' = freed \cup (({Top.id} \X {"tx", "rx"}) \ reused)
          /\ stack' = SubSeq(stack, 1, Len(stack) - 1)
          /\ late' = (late \/ (Top.result = "timeout" /\ reg.spe))
          /\ UNCHANGED <<objects, sync, driver, reused, foreign, hooked, cut, calls>>
      BY <1>11 DEF Return, Running
    <2>2. /\ stack' \in Seq(Frame) /\ Len(stack') = Len(stack) - 1 /\ Len(stack) \in Nat
          /\ StackInv'
          /\ stack' # <<>> => Top'.clean = FALSE /\ Top'.pc = "wait" /\ Len(stack) > 1
      BY <1>1, <2>1, ReturnTop
    <2>3. freed' \subseteq (Nat \X Sides)
      <3>1. Top.id \in Nat BY <1>1 DEF Frame
      <3>2. QED BY <2>1, <3>1 DEF TypeOK, Sides
    <2>4. late' \in BOOLEAN BY <1>2, <2>1 DEF TypeOK
    <2>5. TypeOK' BY <2>1, <2>2, <2>3, <2>4 DEF TypeOK, objects, sync, driver
    <2>6. IdInv' BY <2>1, <2>2 DEF IdInv, driver
    <2>7. MoveInv' /\ TeiInv' BY <2>1 DEF MoveInv, TeiInv, driver
    <2>8. CleanInv' BY <2>2 DEF CleanInv
    <2>9. late' = FALSE => late = FALSE /\ (Top.result = "timeout" => reg.spe = FALSE)
      BY <1>2, <2>1 DEF TypeOK
    <2>10. QuietInv'
      <3> SUFFICES ASSUME hooked = FALSE, late' = FALSE
                   PROVE  cut = FALSE /\ stack' = <<>> /\ Len(stack') <= 1 /\ reg.spe = FALSE
        BY <2>1 DEF QuietInv, driver
      <3>1. cut = FALSE /\ Len(stack) <= 1 /\ Top.clean = TRUE BY <1>1, <2>9 DEF QuietInv
      <3>2. CallOf(Top) BY <1>1, <3>1 DEF CleanInv
      <3>3. reg.spe = FALSE BY <2>1, <2>9, <3>2 DEF CallOf
      <3>4. QED BY <2>2, <3>1, <3>3
    <2>11. NoForeignMemory' BY <2>1, <2>4 DEF NoForeignMemory, TypeOK
    <2>12. QED BY <2>2, <2>5, <2>6, <2>7, <2>8, <2>10, <2>11
  <1>12. QED BY <1>4, <1>5, <1>6, <1>7, <1>9, <1>10, <1>11 DEF Method

-----------------------------------------------------------------------------
(* Interrupts and the SPI *)

\* The driver uses the buffers of its own call, and only those of a call it has seen.
LEMMA AccessStep ==
  ASSUME SpiInv, NEW side \in Sides, NEW counter \in {"sent", "got"}, Access(side, counter),
         reg.spe = TRUE, reg'.spe = TRUE, ctrl'.id = ctrl.id, UNCHANGED Foreground
  PROVE  /\ stack' \in Seq(Frame) /\ StackInv' /\ IdInv' /\ QuietInv' /\ NoForeignMemory'
         /\ foreign' \in BOOLEAN
  <1> USE DEF SpiInv
  <1>1. /\ stack' \in Seq(Frame) /\ Len(stack') = Len(stack) /\ StackInv'
        /\ (stack = <<>>) <=> (stack' = <<>>)
        /\ stack # <<>> =>
             /\ Top \in Frame
             /\ Top' = IF Top.id = ctrl.id THEN [Top EXCEPT ![counter] = @ + 1] ELSE Top
    BY AccessTop
  <1>2. stack # <<>> => Top'.pc = Top.pc /\ Top'.clean = Top.clean BY <1>1 DEF Frame
  <1>3. foreign' = (foreign \/ <<ctrl.id, side>> \in reused) BY DEF Access
  <1>4. UNCHANGED <<freed, reused, hooked, late, cut, calls>> BY DEF Foreground, memory
  <1>5. (stack # <<>> /\ Top.pc \in {"init", "start"}) => Top' = Top
    <2> SUFFICES ASSUME stack # <<>>, Top.pc \in {"init", "start"} PROVE Top.id # ctrl.id
      BY <1>1
    <2>1. ctrl.id \in Nat /\ Top.id \in Nat BY <1>1 DEF TypeOK, Control, Frame
    <2>2. QED BY <2>1 DEF IdInv
  <1>6. IdInv' BY <1>1, <1>2, <1>4, <1>5 DEF IdInv
  <1>7. QuietInv' BY <1>1, <1>2, <1>4 DEF QuietInv
  <1>8. NoForeignMemory'
    <2>1. hooked = FALSE /\ late = FALSE => <<ctrl.id, side>> \notin reused BY DEF QuietInv
    <2>2. hooked \in BOOLEAN /\ late \in BOOLEAN BY DEF TypeOK
    <2>3. QED BY <1>3, <1>4, <2>1, <2>2 DEF NoForeignMemory
  <1>9. foreign' \in BOOLEAN BY <1>3 DEF TypeOK
  <1>10. QED BY <1>1, <1>6, <1>7, <1>8, <1>9

\* A character counts for the call that waits for it, and that call has not ended.
LEMMA AccessClean ==
  ASSUME SpiInv, NEW side, NEW counter \in {"sent", "got"}, Access(side, counter),
         ctrl'.tx_count = IF counter = "sent" THEN ctrl.tx_count + 1 ELSE ctrl.tx_count,
         ctrl'.rx_count = IF counter = "got" THEN ctrl.rx_count + 1 ELSE ctrl.rx_count,
         reg.spe = TRUE, ctrl'.id = ctrl.id, ctrl'.count = ctrl.count, UNCHANGED Foreground
  PROVE  CleanInv'
  <1> USE DEF SpiInv
  <1> SUFFICES ASSUME cut' = FALSE, stack' # <<>>, Top'.clean = TRUE PROVE CallOf(Top)'
    BY DEF CleanInv
  <1>1. /\ stack # <<>> /\ Top \in Frame
        /\ Top' = IF Top.id = ctrl.id THEN [Top EXCEPT ![counter] = @ + 1] ELSE Top
    BY AccessTop
  <1>2. /\ Top'.pc = Top.pc /\ Top'.clean = Top.clean /\ Top'.result = Top.result
        /\ Top'.id = Top.id /\ Top'.len = Top.len
    BY <1>1 DEF Frame
  <1>3. UNCHANGED <<transfer_complete, transfer_result, cut>> BY DEF Foreground, sync
  <1>4. CallOf(Top) BY <1>1, <1>2, <1>3 DEF CleanInv
  <1>5. CASE Top.pc \in {"free", "wait"}
    <2>1. Top' = [Top EXCEPT ![counter] = @ + 1] BY <1>1, <1>4, <1>5 DEF CallOf
    <2>2. CASE counter = "sent"
      <3>1. Top'.sent = Top.sent + 1 /\ Top'.got = Top.got BY <1>1, <2>1, <2>2 DEF Frame
      <3>2. QED BY <1>2, <1>3, <1>4, <1>5, <2>2, <3>1 DEF CallOf
    <2>3. CASE counter = "got"
      <3>1. Top'.got = Top.got + 1 /\ Top'.sent = Top.sent BY <1>1, <2>1, <2>3 DEF Frame
      <3>2. QED BY <1>2, <1>3, <1>4, <1>5, <2>3, <3>1 DEF CallOf
    <2>4. QED BY <2>2, <2>3
  <1>6. CASE Top.pc \notin {"free", "wait"}
    BY <1>2, <1>4, <1>6 DEF CallOf
  <1>7. QED BY <1>5, <1>6

\* A step of the driver that leaves the control block, the calls and the memory alone,
\* and starts no transfer.
LEMMA QuietStep ==
  ASSUME SpiInv, UNCHANGED <<stack, ctrl, freed, reused, foreign, hooked, late, cut, calls>>,
         reg' \in Registers, reg'.spe = TRUE => reg.spe = TRUE
  PROVE  StackInv' /\ IdInv' /\ QuietInv' /\ NoForeignMemory'
  <1> USE DEF SpiInv
  <1>1. Top' = Top BY DEF Top
  <1>2. reg.spe = FALSE => reg'.spe = FALSE BY DEF TypeOK, Registers
  <1>3. StackInv' /\ IdInv' BY <1>1 DEF StackInv, IdInv
  <1>4. NoForeignMemory' BY DEF NoForeignMemory
  <1>5. QuietInv' BY <1>1, <1>2 DEF QuietInv
  <1>6. QED BY <1>3, <1>4, <1>5

LEMMA SpiTransfer ==
  ASSUME SpiInv, Transfer \/ spi_b_eri_isr
  PROVE  SpiInv'
  <1> USE DEF SpiInv
  <1>1. /\ reg \in Registers /\ ctrl \in Control /\ reg.spe \in BOOLEAN /\ reg.tei_en \in BOOLEAN
        /\ reg.out \in Nat /\ reg.in \in Nat
        /\ ctrl.tx_count \in Nat /\ ctrl.rx_count \in Nat /\ ctrl.count \in Nat
    BY DEF TypeOK, Registers, Control
  <1>2. CASE spi_b_txi_isr
    <2>1. /\ reg.spe = TRUE /\ ctrl.tx_count < ctrl.count
          /\ ctrl' = [ctrl EXCEPT !.tx_count = @ + 1]
          /\ reg' = [reg EXCEPT !.out = @ + 1, !.idlnf = TRUE]
          /\ Access("tx", "sent") /\ UNCHANGED Foreground
      BY <1>1, <1>2 DEF spi_b_txi_isr
    <2>2. /\ ctrl' \in Control /\ ctrl'.id = ctrl.id /\ ctrl'.tx_count = ctrl.tx_count + 1
          /\ ctrl'.rx_count = ctrl.rx_count /\ ctrl'.count = ctrl.count
      BY <1>1, <2>1 DEF Control
    <2>3. /\ reg' \in Registers /\ reg'.spe = TRUE /\ reg'.out = reg.out + 1 /\ reg'.in = reg.in
          /\ reg'.tei_en = reg.tei_en
      <3>1. reg.out + 1 \in Nat BY <1>1
      <3>2. QED BY <1>1, <2>1, <3>1 DEF Registers
    <2>4. /\ stack' \in Seq(Frame) /\ StackInv' /\ IdInv' /\ QuietInv' /\ NoForeignMemory'
          /\ foreign' \in BOOLEAN
      BY <2>1, <2>2, <2>3, AccessStep DEF Sides
    <2>5. CleanInv' BY <2>1, <2>2, AccessClean
    <2>6. TypeOK' BY <2>1, <2>2, <2>3, <2>4 DEF TypeOK, Foreground, objects, sync, memory
    <2>7. MoveInv' BY <1>1, <2>1, <2>2, <2>3 DEF MoveInv
    <2>8. TeiInv' BY <2>1, <2>2, <2>3 DEF TeiInv, Foreground
    <2>9. QED BY <2>4, <2>5, <2>6, <2>7, <2>8
  <1>3. CASE spi_b_rxi_isr
    <2>1. /\ reg.spe = TRUE /\ reg.in > 0 /\ ctrl' = [ctrl EXCEPT !.rx_count = @ + 1]
          /\ reg' = [reg EXCEPT !.in = @ - 1, !.tei_en = @ \/ ctrl.rx_count + 1 = ctrl.count]
          /\ Access("rx", "got") /\ UNCHANGED Foreground
      BY <1>1, <1>3 DEF spi_b_rxi_isr
    <2>2. /\ ctrl' \in Control /\ ctrl'.id = ctrl.id /\ ctrl'.tx_count = ctrl.tx_count
          /\ ctrl'.rx_count = ctrl.rx_count + 1 /\ ctrl'.count = ctrl.count
      BY <1>1, <2>1 DEF Control
    <2>3. /\ reg' \in Registers /\ reg'.spe = TRUE /\ reg'.out = reg.out /\ reg'.in = reg.in - 1
          /\ reg'.tei_en = (reg.tei_en \/ ctrl.rx_count + 1 = ctrl.count)
      <3>1. reg.in - 1 \in Nat BY <1>1, <2>1
      <3>2. (reg.tei_en \/ ctrl.rx_count + 1 = ctrl.count) \in BOOLEAN BY <1>1
      <3>3. QED BY <1>1, <2>1, <3>1, <3>2 DEF Registers
    <2>4. /\ stack' \in Seq(Frame) /\ StackInv' /\ IdInv' /\ QuietInv' /\ NoForeignMemory'
          /\ foreign' \in BOOLEAN
      BY <2>1, <2>2, <2>3, AccessStep DEF Sides
    <2>5. CleanInv' BY <2>1, <2>2, AccessClean
    <2>6. TypeOK' BY <2>1, <2>2, <2>3, <2>4 DEF TypeOK, Foreground, objects, sync, memory
    <2>7. MoveInv' BY <1>1, <2>1, <2>2, <2>3 DEF MoveInv
    <2>8. TeiInv'
      <3> SUFFICES ASSUME cut = FALSE, reg'.tei_en = TRUE PROVE ctrl'.rx_count = ctrl'.count
        BY <2>1, <2>3 DEF TeiInv, Foreground
      <3>1. reg.tei_en = TRUE => ctrl.rx_count = ctrl.count BY DEF TeiInv
      <3>2. ctrl.rx_count # ctrl.count BY <1>1, <2>1 DEF MoveInv
      <3>3. ctrl.rx_count + 1 = ctrl.count BY <1>1, <2>3, <3>1, <3>2
      <3>4. QED BY <2>2, <3>3
    <2>9. QED BY <2>4, <2>5, <2>6, <2>7, <2>8
  <1>4. CASE Shift \/ GoIdle
    <2>1. /\ reg.spe = TRUE /\ UNCHANGED <<ctrl, stack, foreign, Foreground>>
          /\ reg' \in Registers /\ reg'.spe = TRUE /\ reg'.tei_en = reg.tei_en
          /\ reg'.in + reg'.out = reg.in + reg.out
      <3>1. CASE Shift
        <4>1. /\ reg.spe = TRUE /\ reg.out > 0
              /\ reg' = [reg EXCEPT !.out = @ - 1, !.in = @ + 1]
              /\ UNCHANGED <<ctrl, stack, foreign, Foreground>>
          BY <1>1, <3>1 DEF Shift
        <4>2. reg.out - 1 \in Nat /\ reg.in + 1 \in Nat BY <1>1, <4>1
        <4>3. /\ reg' \in Registers /\ reg'.spe = TRUE /\ reg'.tei_en = reg.tei_en
              /\ reg'.out = reg.out - 1 /\ reg'.in = reg.in + 1
          BY <1>1, <4>1, <4>2 DEF Registers
        <4>4. QED BY <1>1, <4>1, <4>3
      <3>2. CASE GoIdle
        <4>1. /\ reg.spe = TRUE /\ reg' = [reg EXCEPT !.idlnf = FALSE, !.tei_pend = TRUE]
              /\ UNCHANGED <<ctrl, stack, foreign, Foreground>>
          BY <1>1, <3>2 DEF GoIdle
        <4>2. QED BY <1>1, <4>1 DEF Registers
      <3>3. QED BY <1>4, <3>1, <3>2
    <2>2. UNCHANGED <<made, is_open, transfer_complete, transfer_result, freed, reused,
                      hooked, late, cut, calls>>
      BY <2>1 DEF Foreground, objects, sync, memory
    <2>3. StackInv' /\ IdInv' /\ QuietInv' /\ NoForeignMemory' BY <2>1, <2>2, QuietStep
    <2>4. TypeOK' BY <2>1, <2>2 DEF TypeOK
    <2>5. reg'.in \in Nat /\ reg'.out \in Nat BY <2>1 DEF Registers
    <2>6. MoveInv' BY <1>1, <2>1, <2>5 DEF MoveInv
    <2>7. TeiInv' BY <2>1, <2>2 DEF TeiInv
    <2>8. Top' = Top BY <2>1 DEF Top
    <2>9. CleanInv' BY <2>1, <2>2, <2>8 DEF CleanInv, CallOf
    <2>10. QED BY <2>3, <2>4, <2>6, <2>7, <2>9
  <1>5. CASE spi_b_tei_isr
    <2>1. reg.tei_en = TRUE /\ UNCHANGED <<objects, stack, ctrl, memory, history>>
      BY <1>1, <1>5 DEF spi_b_tei_isr
    <2>2. Top' = Top BY <2>1 DEF Top
    <2>3. CASE reg' = [reg EXCEPT !.tei_pend = FALSE] /\ UNCHANGED sync
      <3>1. /\ reg' \in Registers /\ reg'.spe = reg.spe /\ reg'.tei_en = reg.tei_en
            /\ reg'.in = reg.in /\ reg'.out = reg.out
        BY <1>1, <2>3 DEF Registers
      <3>2. StackInv' /\ IdInv' /\ QuietInv' /\ NoForeignMemory'
        BY <2>1, <3>1, QuietStep DEF memory, history
      <3>3. TypeOK' BY <2>1, <2>3, <3>1 DEF TypeOK, objects, sync, memory, history
      <3>4. MoveInv' /\ TeiInv' BY <2>1, <3>1 DEF MoveInv, TeiInv, history
      <3>5. CleanInv' BY <2>1, <2>2, <2>3, <3>1 DEF CleanInv, CallOf, sync, history
      <3>6. QED BY <3>2, <3>3, <3>4, <3>5
    <2>4. CASE /\ reg' = [reg EXCEPT !.tei_pend = FALSE, !.tei_en = FALSE, !.spe = FALSE]
               /\ Callback("ok")
      <3>1. reg' \in Registers /\ reg'.spe = FALSE /\ reg'.tei_en = FALSE
        BY <1>1, <2>4 DEF Registers
      <3>2. transfer_complete' = TRUE /\ transfer_result' = "ok" BY <2>4 DEF Callback
      <3>3. StackInv' /\ IdInv' /\ QuietInv' /\ NoForeignMemory'
        BY <2>1, <3>1, QuietStep DEF memory, history
      <3>4. TypeOK' BY <2>1, <3>1, <3>2 DEF TypeOK, objects, memory, history
      <3>5. MoveInv' /\ TeiInv' BY <3>1 DEF MoveInv, TeiInv
      <3>6. cut = FALSE => /\ reg.spe = TRUE /\ ctrl.rx_count = ctrl.count
                           /\ ctrl.tx_count = ctrl.count
        BY <1>1, <2>1 DEF TeiInv, MoveInv
      <3>7. CleanInv' BY <2>1, <2>2, <3>1, <3>2, <3>6 DEF CleanInv, CallOf, history
      <3>8. QED BY <3>3, <3>4, <3>5, <3>7
    <2>5. QED BY <1>5, <2>3, <2>4 DEF spi_b_tei_isr
  <1>6. CASE spi_b_eri_isr
    <2>1. /\ reg.spe = TRUE /\ ctrl.rx_count < ctrl.count
          /\ reg' = [reg EXCEPT !.spe = FALSE, !.out = 0, !.in = 0, !.idlnf = FALSE]
          /\ Callback("aborted") /\ UNCHANGED <<objects, stack, ctrl, memory, history>>
      BY <1>1, <1>6 DEF spi_b_eri_isr
    <2>2. reg' \in Registers /\ reg'.spe = FALSE /\ reg'.tei_en = reg.tei_en
      BY <1>1, <2>1 DEF Registers
    <2>3. transfer_complete' = TRUE /\ transfer_result' = "aborted" BY <2>1 DEF Callback
    <2>4. Top' = Top BY <2>1 DEF Top
    <2>5. StackInv' /\ IdInv' /\ QuietInv' /\ NoForeignMemory'
      BY <2>1, <2>2, QuietStep DEF memory, history
    <2>6. TypeOK' BY <2>1, <2>2, <2>3 DEF TypeOK, objects, memory, history
    <2>7. MoveInv' BY <2>2 DEF MoveInv
    <2>8. TeiInv' BY <1>1, <2>1, <2>2 DEF TeiInv, history
    <2>9. CleanInv' BY <2>1, <2>2, <2>3, <2>4 DEF CleanInv, CallOf, history
    <2>10. QED BY <2>5, <2>6, <2>7, <2>8, <2>9
  <1>7. QED BY <1>2, <1>3, <1>4, <1>5, <1>6 DEF Transfer

-----------------------------------------------------------------------------
(* The theorems *)

LEMMA SpiAlways == Spec => []SpiInv
  <1>1. Init => SpiInv BY SpiInitial
  <1>2. SpiInv /\ [Next]_vars => SpiInv'
    <2> SUFFICES ASSUME SpiInv, [Next]_vars PROVE SpiInv' OBVIOUS
    <2>1. CASE Next BY <2>1, SpiPython, SpiMethod, SpiTransfer DEF Next
    <2>2. CASE UNCHANGED vars
      BY <2>2 DEF vars, objects, sync, driver, memory, history, SpiInv, TypeOK, StackInv, IdInv,
                  MoveInv, TeiInv, CleanInv, CallOf, QuietInv, NoForeignMemory, Top
    <2>3. QED BY <2>1, <2>2
  <1>3. QED BY <1>1, <1>2, PTL DEF Spec

\* The variables of the objects, the driver, the SPI and the calls always have their
\* types.
THEOREM SpiTypeCorrect == Spec => []TypeOK
  <1>1. SpiInv => TypeOK BY DEF SpiInv
  <1>2. QED BY <1>1, SpiAlways, PTL

\* For any lengths and any number of calls and objects: an undisturbed call that reports
\* success has moved all its characters, both ways, and is never refused, unless another
\* object opened the driver during a transfer.
THEOREM OwnResultCorrect == Spec => []OwnResult
  <1>1. ASSUME SpiInv PROVE OwnResult
    <2> SUFFICES ASSUME ~cut, NEW i \in DOMAIN stack, stack[i].pc = "waited", stack[i].clean
                 PROVE  /\ stack[i].result # "in_use"
                        /\ stack[i].result = "ok" => /\ stack[i].sent = stack[i].len
                                                     /\ stack[i].got = stack[i].len
      BY DEF OwnResult
    <2>1. stack \in Seq(Frame) /\ Len(stack) \in Nat /\ DOMAIN stack = 1 .. Len(stack)
      BY <1>1, LenProperties DEF SpiInv, TypeOK
    <2>2. i \in 1 .. Len(stack) /\ stack[i] \in Frame /\ stack # <<>>
      BY <2>1, ElementOfSeq, EmptySeq
    <2>3. cut = FALSE /\ stack[i].clean = TRUE BY <1>1, <2>2 DEF SpiInv, TypeOK, Frame
    <2>4. i = Len(stack) BY <1>1, <2>2, <2>3 DEF SpiInv, StackInv
    <2>5. CallOf(Top) /\ stack[i] = Top BY <1>1, <2>2, <2>3, <2>4 DEF SpiInv, CleanInv, Top
    <2>6. QED BY <2>5 DEF CallOf
  <1>2. QED BY <1>1, SpiAlways, PTL

\* For any lengths and any number of calls and objects: as long as no Python code runs in
\* a poll hook and no transfer outlives its call, the driver never touches memory that was
\* given to somebody else, although the dummy buffer is freed as the transfer starts.
THEOREM ForeignCorrect == Spec => []NoForeignMemory
  <1>1. SpiInv => NoForeignMemory BY DEF SpiInv
  <1>2. QED BY <1>1, SpiAlways, PTL

===============================================================================
