----------------------------- MODULE ReplTxProofs -----------------------------
(***************************************************************************)
(* Proofs about ReplTx: its types, where the driver may hold a source,     *)
(* what a stopped transmitter holds, and what is printed.                  *)
(*                                                                         *)
(* TxInv says what the registers hold at each step of a write and relates  *)
(* the count of the first wait to the characters that have left; EmitInv   *)
(* relates everything printed to what was asked for.  In the cooked loop   *)
(* EmitInv needs what Cooked yields for the first characters of a string:  *)
(* that is CookedParts, from the definition of FlattenSeq.  Induction over *)
(* the string is done there with Least.                                    *)
(***************************************************************************)
EXTENDS ReplTx, SequenceTheorems, FiniteSetTheorems, WellFoundedInduction, TLAPS

\* A set of numbers that is not empty has a least one.
LEMMA Least ==
  ASSUME NEW K \in SUBSET Nat, K # {}
  PROVE  \E m \in K : \A k \in K : m <= k
  <1> DEFINE T == {0 .. k : k \in K}
             R == StrictSubsetOrdering(Nat)
  <1>1. IsWellFoundedOn(R, FiniteSubsetsOf(Nat))
    BY FS_StrictSubsetOrderingWellFounded
  <1>2. T \subseteq FiniteSubsetsOf(Nat)
    <2> SUFFICES ASSUME NEW k \in K PROVE 0 .. k \in FiniteSubsetsOf(Nat)
      OBVIOUS
    <2>1. IsFiniteSet(0 .. k) BY FS_Interval
    <2>2. 0 .. k \subseteq Nat OBVIOUS
    <2>3. QED BY <2>1, <2>2 DEF FiniteSubsetsOf
  <1>3. T # {} OBVIOUS
  <1> HIDE DEF T, R
  <1>4. PICK x \in T : \A y \in T : ~(<<y, x>> \in R) BY <1>1, <1>2, <1>3, WFMin
  <1>5. PICK m \in K : x = 0 .. m BY <1>4 DEF T
  <1>6. ASSUME NEW k \in K, k < m PROVE FALSE
    <2>1. 0 .. k \in T BY DEF T
    <2>2. 0 .. k \subseteq 0 .. m /\ 0 .. k # 0 .. m
      <3>1. m \in 0 .. m /\ m \notin 0 .. k BY <1>6
      <3>2. QED BY <3>1, <1>6
    <2>3. 0 .. k \in FiniteSubsetsOf(Nat) /\ x \in FiniteSubsetsOf(Nat) BY <2>1, <1>2, <1>4
    <2>4. <<0 .. k, x>> \in R BY <1>5, <2>2, <2>3 DEF R, StrictSubsetOrdering, FiniteSubsetsOf
    <2>5. QED BY <2>1, <2>4, <1>4
  <1>7. QED BY <1>6

\* f[i] is the concatenation of the first i elements of q.
Sums(q, n, f) ==
  /\ f \in [1 .. n -> Seq(Char)]
  /\ \A i \in 1 .. n : f[i] = IF i = 1 THEN q[i] ELSE f[i - 1] \o q[i]

\* Every sequence of strings has such an f.
LEMMA SumsExist ==
  ASSUME NEW q \in Seq(Seq(Char)), Len(q) > 0
  PROVE  \E f : Sums(q, Len(q), f)
  <1> DEFINE K == {n \in 1 .. Len(q) : ~\E f : Sums(q, n, f)}
  <1>1. Len(q) \in 1 .. Len(q) BY LenProperties
  <1>2. SUFFICES ASSUME K # {} PROVE FALSE
    BY <1>1
  <1>3. K \in SUBSET Nat OBVIOUS
  <1>4. PICK m \in K : \A k \in K : m <= k BY <1>2, <1>3, Least
  <1>5. m \in 1 .. Len(q) /\ Len(q) \in Nat BY LenProperties
  <1>6. \A i \in 1 .. Len(q) : q[i] \in Seq(Char) BY ElementOfSeq
  <1>7. CASE m = 1
    <2> DEFINE g == [i \in 1 .. 1 |-> q[1]]
    <2>1. g \in [1 .. 1 -> Seq(Char)] BY <1>5, <1>6
    <2>2. \A i \in 1 .. 1 : i = 1 OBVIOUS
    <2>3. Sums(q, 1, g) BY <2>1, <2>2 DEF Sums
    <2>4. QED BY <2>3, <1>7
  <1>8. CASE m # 1
    <2>1. m - 1 \in 1 .. Len(q) /\ m - 1 < m BY <1>5, <1>8
    <2>2. m - 1 \notin K
      <3>1. m \in Nat BY <1>5
      <3>2. ~(m <= m - 1) BY <3>1
      <3> HIDE DEF K
      <3>3. QED BY <3>2, <1>4
    <2>3. PICK f : Sums(q, m - 1, f) BY <2>1, <2>2
    <2> DEFINE g == [i \in 1 .. m |-> IF i = m THEN f[m - 1] \o q[m] ELSE f[i]]
    <2>4. \A i \in 1 .. m - 1 : f[i] \in Seq(Char) BY <2>3 DEF Sums
    <2>5. f[m - 1] \in Seq(Char) /\ q[m] \in Seq(Char) BY <2>1, <2>4, <1>5, <1>6
    <2>6. f[m - 1] \o q[m] \in Seq(Char) BY <2>5, ConcatProperties
    <2>7. ASSUME NEW i \in 1 .. m, i # m PROVE i \in 1 .. m - 1 BY <2>7, <1>5
    <2>8. g \in [1 .. m -> Seq(Char)] BY <2>4, <2>6, <2>7
    <2>9. ASSUME NEW i \in 1 .. m PROVE g[i] = IF i = 1 THEN q[i] ELSE g[i - 1] \o q[i]
      <3>1. CASE i = m
        <4>1. i - 1 \in 1 .. m /\ i - 1 # m BY <3>1, <1>5, <1>8
        <4>2. g[i] = f[m - 1] \o q[m] /\ g[i - 1] = f[m - 1] BY <3>1, <4>1
        <4>3. QED BY <4>2, <3>1, <1>8
      <3>2. CASE i # m
        <4>1. i \in 1 .. m - 1 BY <2>7, <3>2
        <4>2. f[i] = IF i = 1 THEN q[i] ELSE f[i - 1] \o q[i] BY <4>1, <2>3 DEF Sums
        <4>3. g[i] = f[i] BY <3>2
        <4>4. CASE i = 1 BY <4>2, <4>3, <4>4
        <4>5. CASE i # 1
          <5>1. i - 1 \in 1 .. m /\ i - 1 # m BY <4>5, <4>1, <1>5
          <5>2. g[i - 1] = f[i - 1] BY <5>1
          <5>3. QED BY <5>2, <4>2, <4>3, <4>5
        <4>6. QED BY <4>4, <4>5
      <3>3. QED BY <3>1, <3>2
    <2>10. Sums(q, m, g) BY <2>8, <2>9 DEF Sums
    <2>11. QED BY <2>10
  <1>9. QED BY <1>7, <1>8

\* What FlattenSeq computes.
LEMMA FlattenIsSum ==
  ASSUME NEW q \in Seq(Seq(Char)), Len(q) > 0, NEW f, Sums(q, Len(q), f)
  PROVE  FlattenSeq(q) = f[Len(q)]
  <1> DEFINE Body(h) == [i \in 1 .. Len(q) |-> IF i = 1 THEN q[i] ELSE h[i - 1] \o q[i]]
             g == CHOOSE h : h = Body(h)
             K == {i \in 1 .. Len(q) : g[i] # f[i]}
  <1>1. FlattenSeq(q) = g[Len(q)] BY DEF FlattenSeq
  <1>2. f = Body(f) BY DEF Sums
  <1>3. g = Body(g) BY <1>2
  <1> HIDE DEF g
  <1>4. Len(q) \in 1 .. Len(q) BY LenProperties
  <1>5. SUFFICES ASSUME K # {} PROVE FALSE
    BY <1>1, <1>4
  <1>6. K \in SUBSET Nat OBVIOUS
  <1>7. PICK m \in K : \A k \in K : m <= k BY <1>5, <1>6, Least
  <1>8. m \in 1 .. Len(q) /\ Len(q) \in Nat /\ g[m] # f[m] BY LenProperties
  <1>9. g[m] = (IF m = 1 THEN q[m] ELSE g[m - 1] \o q[m]) BY <1>3, <1>8
  <1>10. f[m] = (IF m = 1 THEN q[m] ELSE f[m - 1] \o q[m]) BY <1>2, <1>8
  <1>11. m # 1 BY <1>8, <1>9, <1>10
  <1>12. m - 1 \in 1 .. Len(q) /\ m - 1 < m BY <1>8, <1>11
  <1>13. g[m - 1] = f[m - 1] BY <1>7, <1>12
  <1>14. QED BY <1>8, <1>9, <1>10, <1>13

\* What the cooked form prints for the i-th character of s.
Elem(s, i) == IF s[i] = LF /\ (i = 1 \/ s[i - 1] # CR) THEN <<CR, LF>> ELSE <<s[i]>>

\* f[i] is what it prints for the first i characters of s.
Parts(s, f) ==
  /\ f \in [0 .. Len(s) -> Seq(Char)]
  /\ f[0] = <<>>
  /\ \A i \in 1 .. Len(s) : f[i] = f[i - 1] \o Elem(s, i)
  /\ f[Len(s)] = Cooked(s)

LEMMA ElemType ==
  ASSUME NEW s \in Seq(Char), NEW i \in 1 .. Len(s)
  PROVE  Elem(s, i) \in Seq(Char)
  <1>1. s[i] \in Char BY ElementOfSeq
  <1>2. <<s[i]>> \in Seq(Char) BY <1>1
  <1>3. CR \in Char /\ LF \in Char BY DEF Char
  <1>4. <<CR, LF>> \in Seq(Char) BY <1>3
  <1>5. QED BY <1>2, <1>4 DEF Elem

\* The cooked form of a string is what its characters are printed as, in order.
LEMMA CookedParts ==
  ASSUME NEW s \in Seq(Char)
  PROVE  \E f : Parts(s, f)
  <1> DEFINE q == [i \in DOMAIN s |-> Elem(s, i)]
  <1>1. Cooked(s) = FlattenSeq(q) BY DEF Cooked, Elem
  <1>2. DOMAIN s = 1 .. Len(s) /\ Len(s) \in Nat BY LenProperties
  <1>3. q \in [1 .. Len(s) -> Seq(Char)] BY <1>2, ElemType
  <1>4. q \in Seq(Seq(Char)) /\ Len(q) = Len(s) BY <1>2, <1>3, IsASeq, LenProperties
  <1>5. \A i \in 1 .. Len(s) : q[i] = Elem(s, i) BY <1>2
  <1> HIDE DEF q
  <1>6. CASE Len(s) = 0
    <2>1. FlattenSeq(q) = q BY <1>4, <1>6 DEF FlattenSeq
    <2>2. q = <<>> BY <1>4, <1>6, EmptySeq
    <2> DEFINE g == [i \in 0 .. 0 |-> <<>>]
    <2>3. Cooked(s) = <<>> BY <1>1, <2>1, <2>2
    <2>4. g \in [0 .. 0 -> Seq(Char)] /\ g[0] = <<>> OBVIOUS
    <2>5. 1 .. 0 = {} OBVIOUS
    <2>6. Parts(s, g) BY <2>3, <2>4, <2>5, <1>6 DEF Parts
    <2>7. QED BY <2>6
  <1>7. CASE Len(s) # 0
    <2>1. Len(q) > 0 BY <1>2, <1>4, <1>7
    <2>2. PICK f : Sums(q, Len(q), f) BY <1>4, <2>1, SumsExist
    <2>3. FlattenSeq(q) = f[Len(s)] BY <1>4, <2>1, <2>2, FlattenIsSum
    <2>4. /\ f \in [1 .. Len(s) -> Seq(Char)]
          /\ \A i \in 1 .. Len(s) : f[i] = IF i = 1 THEN q[i] ELSE f[i - 1] \o q[i]
      BY <1>4, <2>2 DEF Sums
    <2> DEFINE g == [i \in 0 .. Len(s) |-> IF i = 0 THEN <<>> ELSE f[i]]
    <2>5. \A i \in 0 .. Len(s) : i # 0 => i \in 1 .. Len(s) BY <1>2
    <2>6. g \in [0 .. Len(s) -> Seq(Char)] BY <2>4, <2>5
    <2>7. g[0] = <<>> /\ g[Len(s)] = f[Len(s)] BY <1>2, <1>7
    <2>8. ASSUME NEW i \in 1 .. Len(s) PROVE g[i] = g[i - 1] \o Elem(s, i)
      <3>1. g[i] = f[i] /\ q[i] = Elem(s, i) /\ q[i] \in Seq(Char) BY <1>2, <1>5, ElemType
      <3>2. CASE i = 1
        <4>1. f[i] = q[i] BY <3>2, <2>4
        <4>2. i - 1 = 0 BY <3>2
        <4>3. g[i - 1] = <<>> BY <4>2, <2>7
        <4>4. QED BY <3>1, <4>1, <4>3, ConcatEmptySeq
      <3>3. CASE i # 1
        <4>1. i - 1 \in 0 .. Len(s) /\ i - 1 # 0 BY <1>2, <3>3
        <4>2. g[i - 1] = f[i - 1] BY <4>1
        <4>3. QED BY <3>1, <3>3, <4>2, <2>4
      <3>4. QED BY <3>2, <3>3
    <2> HIDE DEF g
    <2>9. Parts(s, g) BY <2>3, <2>6, <2>7, <2>8, <1>1 DEF Parts
    <2>10. QED BY <2>9
  <1>8. QED BY <1>6, <1>7

LEMMA CookedType ==
  ASSUME NEW s \in Seq(Char)
  PROVE  Cooked(s) \in Seq(Char)
  <1>1. PICK f : Parts(s, f) BY CookedParts
  <1>2. Len(s) \in 0 .. Len(s) BY LenProperties
  <1>3. QED BY <1>1, <1>2 DEF Parts

-----------------------------------------------------------------------------
(* Types *)

LEMMA StringType ==
  ASSUME NEW s \in Strings
  PROVE  s \in Seq(Char)
  BY StringsAssumption

\* What the TXI handler moves from the source to the FIFO.
LEMMA TxiMoves ==
  ASSUME TypeOK, sci_b_uart_txi_isr
  PROVE  /\ txfifo' \in Seq(Char) /\ tx_src' \in Seq(Char)
         /\ Len(txfifo') <= FifoDepth
         /\ Len(txfifo') + Len(tx_src') = Len(tx_src)
         /\ txfifo' \o tx_src' = tx_src
         /\ tx_src' # <<>> => Len(txfifo') >= 1
  <1> DEFINE n == Shorter(FifoDepth, Len(tx_src))
  <1>1. /\ tx_src \in Seq(Char) /\ Len(tx_src) \in Nat /\ FifoDepth \in Nat /\ FifoDepth >= 1
    BY LenProperties, DepthAssumption DEF TypeOK
  <1>2. n \in 0 .. Len(tx_src) /\ n <= FifoDepth /\ (n # Len(tx_src) => n = FifoDepth)
    BY <1>1 DEF Shorter
  <1>3. txfifo' = SubSeq(tx_src, 1, n) /\ tx_src' = SubSeq(tx_src, n + 1, Len(tx_src))
    BY DEF sci_b_uart_txi_isr
  <1> HIDE DEF n
  <1>4. \A i \in 1 .. Len(tx_src) : tx_src[i] \in Char BY <1>1, ElementOfSeq
  <1>5. txfifo' \in Seq(Char) /\ Len(txfifo') = n BY <1>1, <1>2, <1>3, <1>4, SubSeqProperties
  <1>6. tx_src' \in Seq(Char) /\ Len(tx_src') = Len(tx_src) - n
    BY <1>1, <1>2, <1>3, <1>4, SubSeqProperties
  <1>7. txfifo' \o tx_src' = tx_src
    <2>1. /\ 1 \in 1 .. Len(tx_src) + 1 /\ n \in 1 - 1 .. Len(tx_src)
          /\ Len(tx_src) \in n .. Len(tx_src)
      BY <1>1, <1>2
    <2>2. txfifo' \o tx_src' = SubSeq(tx_src, 1, Len(tx_src))
      BY <1>1, <1>3, <2>1, ConcatAdjacentSubSeq
    <2>3. QED BY <1>1, <2>2, SubSeqFull
  <1>8. tx_src' # <<>> => n # Len(tx_src) BY <1>1, <1>2, <1>6, EmptySeq
  <1>9. QED BY <1>1, <1>2, <1>5, <1>6, <1>7, <1>8

\* Every variable has its type, and the handler never writes the transmit FIFO
\* beyond its depth, whatever strings are printed and however deep the FIFO is.
THEOREM TxTypeCorrect == Spec => []TypeOK
  <1>1. Init => TypeOK
    <2>1. <<>> \in Seq(Char) /\ Len(<<>>) = 0 /\ Len(<<>>) <= FifoDepth BY DepthAssumption
    <2>2. 0 \in 0 .. MaxCalls BY MaxCallsAssumption
    <2>3. SUFFICES ASSUME Init PROVE TypeOK
      OBVIOUS
    <2>4. /\ txfifo \in Seq(Char) /\ Len(txfifo) <= FifoDepth
          /\ tsr \in Seq(Char) /\ Len(tsr) <= 1
          /\ tx_src \in Seq(Char) /\ str \in Seq(Char) /\ rest \in Seq(Char)
          /\ wire \in Seq(Char) /\ want \in Seq(Char)
      BY <2>1, <2>3 DEF Init
    <2>5. budget \in Nat /\ calls \in 0 .. MaxCalls BY <2>2, <2>3 DEF Init
    <2>6. /\ te \in BOOLEAN /\ tie \in BOOLEAN /\ teie \in BOOLEAN
          /\ cooking \in BOOLEAN /\ crSent \in BOOLEAN /\ gaveUp \in BOOLEAN
      BY <2>3 DEF Init
    <2>7. QED BY <2>3, <2>4, <2>5, <2>6 DEF Init, TypeOK
  <1>2. TypeOK /\ [Next]_vars => TypeOK'
    <2> SUFFICES ASSUME TypeOK, [Next]_vars PROVE TypeOK'
      OBVIOUS
    <2>1. ASSUME NEW s \in Strings, mp_hal_stdout_tx_strn(s) PROVE TypeOK'
      <3>1. s \in Seq(Char) BY StringType
      <3>2. want' \in Seq(Char) BY <3>1, <2>1, ConcatProperties DEF TypeOK, mp_hal_stdout_tx_strn
      <3>3. calls' \in 0 .. MaxCalls
        BY <2>1, MaxCallsAssumption DEF TypeOK, mp_hal_stdout_tx_strn
      <3>4. QED BY <2>1, <3>1, <3>2, <3>3 DEF TypeOK, mp_hal_stdout_tx_strn, control
    <2>2. ASSUME NEW s \in Strings, mp_hal_stdout_tx_strn_cooked(s) PROVE TypeOK'
      <3>1. s \in Seq(Char) BY StringType
      <3>2. Cooked(s) \in Seq(Char) BY <3>1, CookedType
      <3>3. want' \in Seq(Char)
        BY <3>2, <2>2, ConcatProperties DEF TypeOK, mp_hal_stdout_tx_strn_cooked
      <3>4. calls' \in 0 .. MaxCalls
        BY <2>2, MaxCallsAssumption DEF TypeOK, mp_hal_stdout_tx_strn_cooked
      <3>5. QED BY <2>2, <3>1, <3>3, <3>4 DEF TypeOK, mp_hal_stdout_tx_strn_cooked, control, Goto
    <2>3. ASSUME WriteIrqsOff PROVE TypeOK'
      BY <2>3 DEF TypeOK, WriteIrqsOff, loop, history, Goto
    <2>4. ASSUME WriteTendWait \/ WriteTeOff PROVE TypeOK'
      BY <2>4 DEF TypeOK, WriteTendWait, WriteTeOff, control, loop, history, Goto
    <2>5. ASSUME WriteSource PROVE TypeOK'
      BY <2>5 DEF TypeOK, WriteSource, control, loop, history, Goto
    <2>6. ASSUME WriteOn PROVE TypeOK'
      BY <2>6, WaitAssumption DEF TypeOK, WriteOn, loop, history, Goto
    <2>7. ASSUME SrcWaitEnds PROVE TypeOK'
      BY <2>7, WaitAssumption DEF TypeOK, SrcWaitEnds, control, loop, Goto
    <2>8. ASSUME EndWaitEnds PROVE TypeOK'
      BY <2>8 DEF TypeOK, EndWaitEnds, control, loop, history, Goto
    <2>9. ASSUME CookCr PROVE TypeOK'
      <3>1. CR \in Char BY DEF Char
      <3>2. <<CR>> \in Seq(Char) BY <3>1
      <3>3. QED BY <2>9, <3>2 DEF TypeOK, CookCr, control, history, Goto
    <2>10. ASSUME CookChar PROVE TypeOK'
      <3>1. Head(rest) \in Char /\ Tail(rest) \in Seq(Char)
        BY <2>10, HeadTailProperties DEF TypeOK, CookChar
      <3>2. <<Head(rest)>> \in Seq(Char) BY <3>1
      <3>3. QED BY <2>10, <3>1, <3>2 DEF TypeOK, CookChar, control, history, Goto
    <2>11. ASSUME CookEnd PROVE TypeOK'
      BY <2>11 DEF TypeOK, CookEnd, control, loop, history, Goto
    <2>12. ASSUME sci_b_uart_txi_isr PROVE TypeOK'
      <3>1. /\ txfifo' \in Seq(Char) /\ tx_src' \in Seq(Char) /\ Len(txfifo') <= FifoDepth
        BY <2>12, TxiMoves
      <3>2. tie' \in BOOLEAN /\ teie' \in BOOLEAN BY <2>12 DEF sci_b_uart_txi_isr
      <3>3. QED BY <2>12, <3>1, <3>2 DEF TypeOK, sci_b_uart_txi_isr, loop, history
    <2>13. ASSUME sci_b_uart_tei_isr PROVE TypeOK'
      BY <2>13 DEF TypeOK, sci_b_uart_tei_isr, loop, history
    <2>14. ASSUME Load PROVE TypeOK'
      <3>1. /\ Head(txfifo) \in Char /\ Tail(txfifo) \in Seq(Char)
            /\ Len(Tail(txfifo)) = Len(txfifo) - 1
        BY <2>14, HeadTailProperties DEF TypeOK, Load
      <3>2. <<Head(txfifo)>> \in Seq(Char) /\ Len(<<Head(txfifo)>>) = 1 BY <3>1
      <3>3. Len(Tail(txfifo)) <= FifoDepth
        BY <3>1, DepthAssumption, LenProperties DEF TypeOK
      <3>4. QED BY <2>14, <3>1, <3>2, <3>3 DEF TypeOK, Load, control, loop, history
    <2>15. ASSUME Shift PROVE TypeOK'
      <3>1. wire' \in Seq(Char) BY <2>15, ConcatProperties DEF TypeOK, Shift
      <3>2. <<>> \in Seq(Char) /\ Len(<<>>) = 0 OBVIOUS
      <3>3. budget' \in Nat BY <2>15 DEF TypeOK, Shift, Countdown
      <3>4. QED BY <2>15, <3>1, <3>2, <3>3 DEF TypeOK, Shift, control, loop, history
    <2>16. ASSUME Silence PROVE TypeOK'
      <3>1. budget' \in Nat BY <2>16 DEF TypeOK, Silence, Countdown
      <3>2. QED BY <2>16, <3>1 DEF TypeOK, Silence, control, loop, history
    <2>17. ASSUME UNCHANGED vars PROVE TypeOK'
      BY <2>17 DEF TypeOK, vars, control, loop, history
    <2>18. QED
      BY <2>1, <2>2, <2>3, <2>4, <2>5, <2>6, <2>7, <2>8, <2>9, <2>10, <2>11, <2>12, <2>13,
         <2>14, <2>15, <2>16, <2>17 DEF Next, Call, InCall, Write, Transmitter
  <1>3. QED BY <1>1, <1>2, PTL DEF Spec

-----------------------------------------------------------------------------
(* The positions of a write, and the source *)

\* What the driver's registers hold at the steps of R_SCI_B_UART_Write: between
\* the wait for TEND and the moment TE is set again nothing moves.
CtlInv ==
  /\ pc = "cook" => cooking
  /\ pc = "w_tend" => ~tie /\ ~teie
  /\ pc = "w_te" => TEND /\ ~tie /\ ~teie
  /\ pc \in {"w_src", "w_on"} => TEND /\ ~te /\ ~tie /\ ~teie
  /\ pc = "w_on" => tx_src = str

\* Nothing is in a transmitter that is off, and no interrupt is on that would put
\* something there.
StopInv == ~te => TEND /\ ~tie

\* The driver holds a source only while its string is being written, or after
\* a wait that gave up.
SourceInv == tx_src # <<>> => gaveUp \/ pc \in {"w_on", "src_wait"}

\* In the first loop of the wait, as long as the source is not empty the
\* transmitter is fed: every byte time that was counted sent a character of
\* the string, and at least one more is on its way.
FedInv ==
  pc = "src_wait" /\ tx_src # <<>> =>
    /\ te /\ tie /\ ~teie
    /\ budget <= SrcWait
    /\ Len(str) >= (SrcWait - budget) + Len(tsr) + Len(txfifo) + Len(tx_src)
    /\ budget < SrcWait => Len(tsr) + Len(txfifo) >= 1

TxInv == TypeOK /\ CtlInv /\ StopInv /\ SourceInv /\ FedInv

LEMMA TxInvInit == Init => CtlInv /\ StopInv /\ SourceInv /\ FedInv
  BY DEF Init, CtlInv, StopInv, SourceInv, FedInv

LEMMA CtlStep ==
  ASSUME TypeOK, CtlInv, [Next]_vars
  PROVE  CtlInv'
  <1>1. ASSUME NEW s \in Strings, mp_hal_stdout_tx_strn(s) PROVE CtlInv'
    BY <1>1 DEF CtlInv, TypeOK, TEND, mp_hal_stdout_tx_strn, control
  <1>2. ASSUME NEW s \in Strings, mp_hal_stdout_tx_strn_cooked(s) PROVE CtlInv'
    BY <1>2 DEF CtlInv, TypeOK, TEND, mp_hal_stdout_tx_strn_cooked, control, Goto
  <1>3. ASSUME WriteIrqsOff PROVE CtlInv'
    BY <1>3 DEF CtlInv, TypeOK, TEND, WriteIrqsOff, loop, Goto
  <1>4. ASSUME WriteTendWait \/ WriteTeOff PROVE CtlInv'
    BY <1>4 DEF CtlInv, TypeOK, TEND, WriteTendWait, WriteTeOff, control, loop, Goto
  <1>5. ASSUME WriteSource PROVE CtlInv'
    BY <1>5 DEF CtlInv, TypeOK, TEND, WriteSource, control, loop, Goto
  <1>6. ASSUME WriteOn PROVE CtlInv'
    BY <1>6 DEF CtlInv, TypeOK, TEND, WriteOn, loop, Goto
  <1>7. ASSUME SrcWaitEnds PROVE CtlInv'
    BY <1>7 DEF CtlInv, TypeOK, TEND, SrcWaitEnds, control, loop, Goto
  <1>8. ASSUME EndWaitEnds PROVE CtlInv'
    BY <1>8 DEF CtlInv, TypeOK, TEND, EndWaitEnds, control, loop, Goto
  <1>9. ASSUME CookCr PROVE CtlInv'
    BY <1>9 DEF CtlInv, TypeOK, TEND, CookCr, control, Goto
  <1>10. ASSUME CookChar PROVE CtlInv'
    BY <1>10 DEF CtlInv, TypeOK, TEND, CookChar, control, Goto
  <1>11. ASSUME CookEnd PROVE CtlInv'
    BY <1>11 DEF CtlInv, TypeOK, TEND, CookEnd, control, loop, Goto
  <1>12. ASSUME sci_b_uart_txi_isr PROVE CtlInv'
    BY <1>12 DEF CtlInv, TypeOK, TEND, sci_b_uart_txi_isr, loop
  <1>13. ASSUME sci_b_uart_tei_isr PROVE CtlInv'
    BY <1>13 DEF CtlInv, TypeOK, TEND, sci_b_uart_tei_isr, loop
  <1>14. ASSUME Load PROVE CtlInv'
    BY <1>14 DEF CtlInv, TypeOK, TEND, Load, control, loop
  <1>15. ASSUME Shift PROVE CtlInv'
    BY <1>15 DEF CtlInv, TypeOK, TEND, Shift, control, loop
  <1>16. ASSUME Silence PROVE CtlInv'
    BY <1>16 DEF CtlInv, TypeOK, TEND, Silence, control, loop
  <1>17. ASSUME UNCHANGED vars PROVE CtlInv'
    BY <1>17 DEF CtlInv, TEND, vars, control, loop
  <1>18. QED
    BY <1>1, <1>2, <1>3, <1>4, <1>5, <1>6, <1>7, <1>8, <1>9, <1>10, <1>11, <1>12, <1>13,
       <1>14, <1>15, <1>16, <1>17 DEF Next, Call, InCall, Write, Transmitter

LEMMA StopStep ==
  ASSUME TypeOK, CtlInv, StopInv, [Next]_vars
  PROVE  StopInv'
  <1>1. CASE Call
    BY <1>1 DEF Call, StopInv, TEND, mp_hal_stdout_tx_strn, mp_hal_stdout_tx_strn_cooked, control
  <1>2. CASE Write
    BY <1>2 DEF Write, CtlInv, StopInv, TEND, WriteIrqsOff, WriteTendWait, WriteTeOff,
       WriteSource, WriteOn, control, Goto
  <1>3. CASE SrcWaitEnds \/ EndWaitEnds \/ CookCr \/ CookChar \/ CookEnd
    BY <1>3 DEF StopInv, TEND, SrcWaitEnds, EndWaitEnds, CookCr, CookChar, CookEnd, control
  <1>4. CASE sci_b_uart_txi_isr
    <2>1. te BY <1>4 DEF StopInv, sci_b_uart_txi_isr
    <2>2. QED BY <2>1, <1>4 DEF StopInv, sci_b_uart_txi_isr
  <1>5. CASE sci_b_uart_tei_isr
    BY <1>5 DEF StopInv, TEND, sci_b_uart_tei_isr
  <1>6. CASE Load \/ Shift \/ Silence
    BY <1>6 DEF StopInv, TEND, Load, Shift, Silence, control
  <1>7. CASE UNCHANGED vars BY <1>7 DEF StopInv, TEND, vars, control
  <1>8. QED BY <1>1, <1>2, <1>3, <1>4, <1>5, <1>6, <1>7 DEF Next, InCall, Transmitter

LEMMA SourceStep ==
  ASSUME TypeOK, SourceInv, [Next]_vars
  PROVE  SourceInv'
  <1>1. ASSUME NEW s \in Strings, mp_hal_stdout_tx_strn(s) PROVE SourceInv'
    BY <1>1 DEF SourceInv, mp_hal_stdout_tx_strn
  <1>2. ASSUME NEW s \in Strings, mp_hal_stdout_tx_strn_cooked(s) PROVE SourceInv'
    BY <1>2 DEF SourceInv, mp_hal_stdout_tx_strn_cooked, Goto
  <1>3. ASSUME Write PROVE SourceInv'
    BY <1>3 DEF Write, SourceInv, WriteIrqsOff, WriteTendWait, WriteTeOff, WriteSource, WriteOn,
       history, Goto
  <1>4. ASSUME SrcWaitEnds PROVE SourceInv'
    BY <1>4 DEF SourceInv, SrcWaitEnds, Goto
  <1>5. ASSUME EndWaitEnds \/ CookCr \/ CookChar \/ CookEnd PROVE SourceInv'
    BY <1>5 DEF SourceInv, EndWaitEnds, CookCr, CookChar, CookEnd, history, Goto
  <1>6. ASSUME sci_b_uart_txi_isr PROVE SourceInv'
    <2>1. tx_src' # <<>> => tx_src # <<>>
      <3>1. /\ txfifo' \in Seq(Char) /\ tx_src' \in Seq(Char)
            /\ Len(txfifo') + Len(tx_src') = Len(tx_src)
        BY <1>6, TxiMoves
      <3>2. QED BY <3>1, EmptySeq, LenProperties DEF TypeOK
    <2>2. QED BY <2>1, <1>6 DEF SourceInv, sci_b_uart_txi_isr, history
  <1>7. ASSUME sci_b_uart_tei_isr \/ Load \/ Shift \/ Silence PROVE SourceInv'
    BY <1>7 DEF SourceInv, sci_b_uart_tei_isr, Load, Shift, Silence, history
  <1>8. ASSUME UNCHANGED vars PROVE SourceInv'
    BY <1>8 DEF SourceInv, vars, history
  <1>9. QED
    BY <1>1, <1>2, <1>3, <1>4, <1>5, <1>6, <1>7, <1>8
    DEF Next, Call, InCall, Write, Transmitter

LEMMA FedStep ==
  ASSUME TypeOK, TypeOK', CtlInv, FedInv, [Next]_vars
  PROVE  FedInv'
  <1>1. SUFFICES ASSUME pc' = "src_wait", tx_src' # <<>>
                 PROVE  /\ te' /\ tie' /\ ~teie'
                        /\ budget' <= SrcWait
                        /\ Len(str') >= (SrcWait - budget') + Len(tsr') + Len(txfifo')
                                           + Len(tx_src')
                        /\ budget' < SrcWait => Len(tsr') + Len(txfifo') >= 1
    BY DEF FedInv
  <1>2. /\ Len(str) \in Nat /\ Len(tsr) \in Nat /\ Len(txfifo) \in Nat /\ Len(tx_src) \in Nat
        /\ budget \in Nat /\ SrcWait \in Nat /\ Len(tsr) <= 1
    BY LenProperties, WaitAssumption DEF TypeOK
  <1>3. /\ Len(tsr') \in Nat /\ Len(txfifo') \in Nat /\ Len(tx_src') \in Nat
    BY LenProperties DEF TypeOK
  <1>4. CASE WriteOn
    <2>1. /\ tsr = <<>> /\ txfifo = <<>> /\ tx_src = str /\ ~teie /\ pc = "w_on"
      BY <1>4 DEF WriteOn, CtlInv, TEND, Goto
    <2>2. Len(tsr) = 0 /\ Len(txfifo) = 0 BY <2>1
    <2>3. /\ te' /\ tie' /\ budget' = SrcWait
          /\ UNCHANGED <<teie, txfifo, tsr, tx_src, str>>
      BY <1>4 DEF WriteOn
    <2>4. QED BY <2>1, <2>2, <2>3, <1>2
  <1>5. ASSUME pc = "src_wait", tx_src # <<>>
        PROVE  /\ te /\ tie /\ ~teie
               /\ budget <= SrcWait
               /\ Len(str) >= (SrcWait - budget) + Len(tsr) + Len(txfifo) + Len(tx_src)
               /\ budget < SrcWait => Len(tsr) + Len(txfifo) >= 1
    BY <1>5 DEF FedInv
  <1>6. CASE sci_b_uart_txi_isr
    <2>1. /\ Len(txfifo') + Len(tx_src') = Len(tx_src)
          /\ Len(txfifo') >= 1
      BY <1>1, <1>6, TxiMoves
    <2>2. tx_src # <<>> BY <2>1, <1>3
    <2>3. txfifo = <<>> /\ Len(txfifo) = 0 BY <1>6 DEF sci_b_uart_txi_isr
    <2>4. /\ te' = te /\ tie' /\ ~teie' /\ pc = "src_wait"
          /\ UNCHANGED <<tsr, str, budget>>
      BY <1>1, <1>6 DEF sci_b_uart_txi_isr
    <2>5. QED BY <2>1, <2>2, <2>3, <2>4, <1>2, <1>3, <1>5
  <1>7. CASE sci_b_uart_tei_isr
    BY <1>1, <1>5, <1>7 DEF sci_b_uart_tei_isr
  <1>8. CASE Load
    <2>1. /\ Len(tsr) = 0 /\ Len(tsr') = 1 /\ Len(txfifo') = Len(txfifo) - 1
      <3>1. Len(Tail(txfifo)) = Len(txfifo) - 1
        BY <1>8, HeadTailProperties DEF Load, TypeOK
      <3>2. Len(<<Head(txfifo)>>) = 1 OBVIOUS
      <3>3. QED BY <1>8, <3>1, <3>2 DEF Load
    <2>2. UNCHANGED <<te, tie, teie, pc, str, budget, tx_src>> BY <1>8 DEF Load, control
    <2>3. QED BY <2>1, <2>2, <1>1, <1>2, <1>3, <1>5
  <1>9. CASE Shift
    <2>1. UNCHANGED <<te, tie, teie, pc, str, txfifo, tx_src>> BY <1>9 DEF Shift, control
    <2>2. tie BY <2>1, <1>1, <1>5
    <2>3. tsr # <<>> /\ txfifo # <<>> /\ tsr' = <<>> BY <2>2, <1>9 DEF Shift
    <2>4. Len(tsr) = 1 /\ Len(txfifo) >= 1 /\ Len(tsr') = 0
      <3>1. tsr \in Seq(Char) /\ txfifo \in Seq(Char) BY DEF TypeOK
      <3>2. Len(tsr) # 0 /\ Len(txfifo) # 0 BY <2>3, <3>1, EmptySeq
      <3>3. Len(tsr') = 0 BY <2>3
      <3>4. Len(tsr) = 1
        <4>1. \A n \in Nat : n <= 1 /\ n # 0 => n = 1 OBVIOUS
        <4>2. Len(tsr) \in Nat /\ Len(tsr) <= 1 BY <1>2
        <4>3. QED BY <4>1, <4>2, <3>2
      <3>5. Len(txfifo) >= 1 BY <3>2, <1>2
      <3>6. QED BY <3>3, <3>4, <3>5
    <2>5. budget' = IF budget > 0 THEN budget - 1 ELSE 0 BY <1>9 DEF Shift, Countdown
    <2>6. QED BY <2>1, <2>4, <2>5, <1>1, <1>2, <1>5
  <1>10. CASE Silence
    <2>1. UNCHANGED <<te, tie, teie, pc, str, tsr, txfifo, tx_src>> BY <1>10 DEF Silence, control
    <2>2. te /\ tie BY <2>1, <1>1, <1>5
    <2>3. QED BY <2>2, <1>10 DEF Silence
  <1>11. CASE UNCHANGED vars
    BY <1>1, <1>5, <1>11 DEF vars, control
  <1>12. ASSUME NEW s \in Strings, mp_hal_stdout_tx_strn(s) \/ mp_hal_stdout_tx_strn_cooked(s)
         PROVE FALSE
    BY <1>1, <1>12 DEF mp_hal_stdout_tx_strn, mp_hal_stdout_tx_strn_cooked, Goto
  <1>13. CASE WriteIrqsOff \/ WriteTendWait \/ WriteTeOff \/ WriteSource \/ SrcWaitEnds
              \/ EndWaitEnds \/ CookCr \/ CookChar \/ CookEnd
    BY <1>1, <1>13 DEF WriteIrqsOff, WriteTendWait, WriteTeOff, WriteSource, SrcWaitEnds,
       EndWaitEnds, CookCr, CookChar, CookEnd, Goto
  <1>14. QED
    BY <1>4, <1>6, <1>7, <1>8, <1>9, <1>10, <1>11, <1>12, <1>13
    DEF Next, Call, InCall, Write, Transmitter

LEMMA TxInvariant == Spec => []TxInv
  <1>1. Init => CtlInv /\ StopInv /\ SourceInv /\ FedInv BY TxInvInit
  <1>2. TypeOK /\ TypeOK' /\ CtlInv /\ StopInv /\ SourceInv /\ FedInv /\ [Next]_vars
          => CtlInv' /\ StopInv' /\ SourceInv' /\ FedInv'
    BY CtlStep, StopStep, SourceStep, FedStep
  <1>3. QED BY <1>1, <1>2, TxTypeCorrect, PTL DEF Spec, TxInv

\* Between two calls of the stdout functions the driver holds no string of a call
\* that returned, unless a wait gave up (mp_hal_stdout_tx_strn_cooked passes the
\* address of a local variable to R_SCI_B_UART_Write).
THEOREM DanglingCorrect == Spec => []NoDanglingSource
  <1>1. TxInv => NoDanglingSource BY DEF TxInv, SourceInv, NoDanglingSource
  <1>2. QED BY <1>1, TxInvariant, PTL

\* A transmitter that is off is empty, for any strings, FIFO and waits: TEND, which
\* R_SCI_B_UART_Write read before it clears TE, still holds then, also when a wait gave
\* up and left the handler a source, and nothing is put into the FIFO until TE is set.
THEOREM StoppedCorrect == Spec => []StoppedIsEmpty
  <1>1. TxInv => StoppedIsEmpty BY DEF TxInv, StopInv, StoppedIsEmpty
  <1>2. QED BY <1>1, TxInvariant, PTL

-----------------------------------------------------------------------------
(* What is printed *)

\* What is still to be given to the transmitter ...
Unsent == IF pc \in {"w_off", "w_tend", "w_te", "w_src"} THEN str ELSE tx_src

\* ... and everything printed so far.
Emitted == wire \o tsr \o txfifo \o Unsent

\* The cooked loop prints s, of which it has taken k characters.
Cooks(s, base, f, k) ==
  /\ Parts(s, f)
  /\ k \in 0 .. Len(s)
  /\ want = base \o f[Len(s)]
  /\ rest = SubSeq(s, k + 1, Len(s))
  /\ last = IF k = 0 THEN "nul" ELSE s[k]
  /\ crSent => k < Len(s) /\ s[k + 1] = LF /\ last # CR
  /\ Emitted = IF crSent THEN base \o f[k] \o <<CR>> ELSE base \o f[k]

Printing == \E s, base \in Seq(Char) : \E f, k : Cooks(s, base, f, k)

\* Until a wait gives up, what was printed is what was asked for, or, in the
\* cooked loop, its part up to the position of the loop.
EmitInv ==
  ~gaveUp => /\ pc = "idle" \/ ~cooking => Emitted = want
             /\ pc # "idle" /\ cooking => Printing

\* The characters the loop has not taken.
LEMMA RestOfString ==
  ASSUME NEW s \in Seq(Char), NEW k \in 0 .. Len(s)
  PROVE  /\ SubSeq(s, k + 1, Len(s)) = <<>> => k = Len(s)
         /\ k < Len(s) => /\ s[k + 1] \in Char
                          /\ Head(SubSeq(s, k + 1, Len(s))) = s[k + 1]
                          /\ Tail(SubSeq(s, k + 1, Len(s))) = SubSeq(s, (k + 1) + 1, Len(s))
  <1>1. Len(s) \in Nat /\ k \in Nat /\ k <= Len(s) BY LenProperties
  <1>2. \A i \in k + 1 .. Len(s) : s[i] \in Char
    <2>1. \A i \in k + 1 .. Len(s) : i \in 1 .. Len(s) BY <1>1
    <2>2. QED BY <2>1, ElementOfSeq
  <1>3. Len(SubSeq(s, k + 1, Len(s))) = IF k + 1 <= Len(s) THEN Len(s) - (k + 1) + 1 ELSE 0
    BY <1>1, <1>2, SubSeqProperties
  <1>4. SubSeq(s, k + 1, Len(s)) = <<>> => k = Len(s) BY <1>1, <1>3
  <1>5. CASE k < Len(s)
    <2>1. k + 1 \in 1 .. Len(s) /\ Len(s) \in k + 1 .. Len(s) BY <1>1, <1>5
    <2>2. s[k + 1] \in Char BY <2>1, ElementOfSeq
    <2>3. QED BY <2>1, <2>2, <1>4, HeadTailOfSubSeq
  <1>6. QED BY <1>1, <1>4, <1>5

LEMMA Regroup ==
  ASSUME NEW a \in Seq(Char), NEW b \in Seq(Char), NEW c \in Seq(Char)
  PROVE  a \o b \o c = a \o (b \o c)
  BY ConcatAssociative

\* The transmitter only moves characters along.
LEMMA TransmitterKeeps ==
  ASSUME TypeOK, TypeOK', SourceInv, ~gaveUp, Transmitter
  PROVE  Emitted' = Emitted
  <1>1. /\ wire \in Seq(Char) /\ tsr \in Seq(Char) /\ txfifo \in Seq(Char)
        /\ tx_src \in Seq(Char) /\ str \in Seq(Char) /\ Unsent \in Seq(Char)
    BY DEF TypeOK, Unsent
  <1>2. CASE sci_b_uart_txi_isr
    <2>1. txfifo = <<>> /\ UNCHANGED <<wire, tsr, pc, str>>
      BY <1>2 DEF sci_b_uart_txi_isr
    <2>2. /\ txfifo' \in Seq(Char) /\ tx_src' \in Seq(Char)
          /\ Len(txfifo') + Len(tx_src') = Len(tx_src)
          /\ txfifo' \o tx_src' = tx_src
      BY <1>2, TxiMoves
    <2>3. wire \o tsr \in Seq(Char) BY <1>1, ConcatProperties
    <2>4. CASE pc \in {"w_off", "w_tend", "w_te", "w_src"}
      <3>1. tx_src = <<>> BY <2>4 DEF SourceInv
      <3>2. txfifo' = <<>> BY <3>1, <2>2, ConcatEqualIffEmpty
      <3>3. QED BY <3>2, <2>1, <2>4 DEF Emitted, Unsent
    <2>5. CASE pc \notin {"w_off", "w_tend", "w_te", "w_src"}
      <3>1. Emitted = wire \o tsr \o txfifo \o tx_src BY <2>5 DEF Emitted, Unsent
      <3>2. Emitted' = wire \o tsr \o txfifo' \o tx_src' BY <2>1, <2>5 DEF Emitted, Unsent
      <3>3. Emitted = (wire \o tsr) \o tx_src BY <3>1, <2>1, <2>3, ConcatEmptySeq
      <3>4. Emitted' = (wire \o tsr) \o (txfifo' \o tx_src')
        BY <3>2, <2>2, <2>3, Regroup
      <3>5. QED BY <3>3, <3>4, <2>2
    <2>6. QED BY <2>4, <2>5
  <1>3. CASE sci_b_uart_tei_isr
    BY <1>3 DEF sci_b_uart_tei_isr, Emitted, Unsent
  <1>4. CASE Load
    <2>1. /\ tsr = <<>> /\ tsr' = <<Head(txfifo)>> /\ txfifo' = Tail(txfifo) /\ txfifo # <<>>
          /\ UNCHANGED <<wire, tx_src, pc, str>>
      BY <1>4 DEF Load
    <2>2. tsr' \o txfifo' = txfifo
      <3>1. Head(txfifo) \in Char /\ Tail(txfifo) \in Seq(Char)
        BY <1>1, <2>1, HeadTailProperties
      <3>2. <<Head(txfifo)>> \o Tail(txfifo) = txfifo BY <1>1, <2>1, <3>1
      <3>3. QED BY <2>1, <3>2
    <2>3. tsr' \in Seq(Char) /\ txfifo' \in Seq(Char) BY DEF TypeOK
    <2>4. wire \o tsr' \o txfifo' = wire \o txfifo
      <3> DEFINE a == wire  b == tsr'  c == txfifo'
      <3>1. a \in Seq(Char) /\ b \in Seq(Char) /\ c \in Seq(Char) BY <1>1, <2>3
      <3> HIDE DEF a, b, c
      <3>2. (a \o b) \o c = a \o (b \o c) BY <3>1, Regroup
      <3>3. (wire \o tsr') \o txfifo' = wire \o (tsr' \o txfifo') BY <3>2 DEF a, b, c
      <3>4. QED BY <3>3, <2>2
    <2>5. wire \o tsr \o txfifo = wire \o txfifo BY <1>1, <2>1, ConcatEmptySeq
    <2>6. Unsent' = Unsent BY <2>1 DEF Unsent
    <2>7. QED BY <2>1, <2>4, <2>5, <2>6 DEF Emitted
  <1>5. CASE Shift
    <2>1. /\ wire' = wire \o tsr /\ tsr' = <<>> /\ UNCHANGED <<txfifo, tx_src, pc, str>>
      BY <1>5 DEF Shift
    <2>2. wire \o tsr \in Seq(Char) BY <1>1, ConcatProperties
    <2>3. wire' \o tsr' = wire \o tsr BY <2>1, <2>2, ConcatEmptySeq
    <2>4. Unsent' = Unsent BY <2>1 DEF Unsent
    <2>5. QED BY <2>1, <2>3, <2>4 DEF Emitted
  <1>6. CASE Silence
    BY <1>6 DEF Silence, Emitted, Unsent
  <1>7. QED BY <1>2, <1>3, <1>4, <1>5, <1>6 DEF Transmitter

\* A write begun at a place where the driver holds no source adds its string.
LEMMA WriteAdds ==
  ASSUME TypeOK, SourceInv, ~gaveUp, pc \in {"idle", "cook"}, pc' = "w_off",
         UNCHANGED <<wire, tsr, txfifo>>
  PROVE  Emitted' = Emitted \o str'
  <1>1. tx_src = <<>> BY DEF SourceInv
  <1>2. Emitted = wire \o tsr \o txfifo \o <<>> BY <1>1 DEF Emitted, Unsent
  <1>3. wire \o tsr \o txfifo \in Seq(Char) BY ConcatProperties DEF TypeOK
  <1>4. Emitted = wire \o tsr \o txfifo BY <1>2, <1>3, ConcatEmptySeq
  <1>5. Emitted' = wire \o tsr \o txfifo \o str' BY DEF Emitted, Unsent
  <1>6. QED BY <1>4, <1>5

\* A step that leaves the loop and what is printed alone leaves it where it was.
LEMMA PrintingKept ==
  ASSUME Printing, UNCHANGED <<Emitted, want, rest, last, crSent>>
  PROVE  Printing'
  <1>1. PICK s \in Seq(Char), base \in Seq(Char) : \E f, k : Cooks(s, base, f, k)
    BY DEF Printing
  <1>2. PICK f, k : Cooks(s, base, f, k) BY <1>1
  <1>3. Cooks(s, base, f, k)' BY <1>2 DEF Cooks
  <1>4. QED BY <1>3 DEF Printing

\* A cooked string is begun.
LEMMA PrintingBegins ==
  ASSUME NEW s \in Strings, TypeOK, Emitted = want, mp_hal_stdout_tx_strn_cooked(s)
  PROVE  Printing'
  <1>1. s \in Seq(Char) /\ want \in Seq(Char) BY StringType DEF TypeOK
  <1>2. PICK f : Parts(s, f) BY <1>1, CookedParts
  <1>3. f[0] = <<>> /\ f[Len(s)] = Cooked(s) BY <1>2 DEF Parts
  <1>4. Emitted' = want
    BY DEF mp_hal_stdout_tx_strn_cooked, Emitted, Unsent, Goto
  <1>5. want = want \o f[0] BY <1>1, <1>3, ConcatEmptySeq
  <1>6. s = SubSeq(s, 0 + 1, Len(s)) BY <1>1, SubSeqFull
  <1>7. 0 \in 0 .. Len(s) BY <1>1, LenProperties
  <1>8. /\ rest' = s /\ last' = "nul" /\ ~crSent' /\ want' = want \o Cooked(s)
    BY DEF mp_hal_stdout_tx_strn_cooked
  <1>9. /\ want' = want \o f[Len(s)]
        /\ rest' = SubSeq(s, 0 + 1, Len(s))
        /\ Emitted' = want \o f[0]
    BY <1>3, <1>4, <1>5, <1>6, <1>8
  <1> DEFINE base == want
  <1>10. PICK b \in Seq(Char) : b = base BY <1>1
  <1>11. Cooks(s, b, f, 0)' BY <1>2, <1>7, <1>8, <1>9, <1>10 DEF Cooks
  <1>12. QED BY <1>1, <1>10, <1>11 DEF Printing

\* The loop prints the '\r' of a '\n' that has none.
LEMMA PrintsCr ==
  ASSUME TypeOK, SourceInv, ~gaveUp, Printing, CookCr
  PROVE  Printing'
  <1>1. PICK s \in Seq(Char), base \in Seq(Char) : \E f, k : Cooks(s, base, f, k)
    BY DEF Printing
  <1>2. PICK f, k : Cooks(s, base, f, k) BY <1>1
  <1>3. /\ rest # <<>> /\ Head(rest) = LF /\ last # CR /\ ~crSent
        /\ str' = <<CR>> /\ crSent' = TRUE /\ UNCHANGED <<rest, last, want>>
    BY DEF CookCr, NeedsCr, history
  <1>4. Emitted' = Emitted \o <<CR>>
    BY <1>3, WriteAdds DEF CookCr, Goto
  <1>5. Emitted = base \o f[k] /\ k \in 0 .. Len(s) /\ rest = SubSeq(s, k + 1, Len(s))
    BY <1>2, <1>3 DEF Cooks
  <1>6. rest # <<>> => k # Len(s)
    <2>1. ASSUME k = Len(s) PROVE rest = <<>>
      BY <2>1, <1>5, SubSeqEmpty, LenProperties
    <2>2. QED BY <2>1
  <1>7. k < Len(s) BY <1>3, <1>5, <1>6, LenProperties
  <1>8. s[k + 1] = LF BY <1>3, <1>5, <1>7, RestOfString
  <1>9. Emitted' = base \o f[k] \o <<CR>> BY <1>4, <1>5
  <1>10. Cooks(s, base, f, k)' BY <1>2, <1>3, <1>7, <1>8, <1>9 DEF Cooks
  <1>11. QED BY <1>10 DEF Printing

\* What is printed for the next character, given the one before it.
LEMMA NextElem ==
  ASSUME NEW s \in Seq(Char), NEW k \in 0 .. Len(s), k < Len(s)
  PROVE  Elem(s, k + 1) =
           IF s[k + 1] = LF /\ (k = 0 \/ s[k] # CR) THEN <<CR, LF>> ELSE <<s[k + 1]>>
  <1>1. (k + 1) - 1 = k BY LenProperties
  <1>2. k + 1 = 1 <=> k = 0 BY LenProperties
  <1>3. QED BY <1>1, <1>2 DEF Elem

LEMMA Pair ==
  ASSUME NEW c \in Char, NEW d \in Char
  PROVE  <<c>> \o <<d>> = <<c, d>>
  <1>1. <<c>> \in Seq(Char) /\ <<d>> \in Seq(Char) /\ <<c, d>> \in Seq(Char)
        /\ Len(<<c>>) = 1 /\ Len(<<d>>) = 1 /\ Len(<<c, d>>) = 2
    OBVIOUS
  <1>2. /\ <<c>> \o <<d>> \in Seq(Char) /\ Len(<<c>> \o <<d>>) = 2
        /\ \A i \in 1 .. 2 : (<<c>> \o <<d>>)[i] = IF i <= 1 THEN <<c>>[i] ELSE <<d>>[i - 1]
    BY <1>1, ConcatProperties
  <1>3. \A i \in 1 .. 2 : (<<c>> \o <<d>>)[i] = <<c, d>>[i] BY <1>2
  <1>4. QED BY <1>1, <1>2, <1>3, SeqEqual

\* The loop prints a character.
LEMMA PrintsChar ==
  ASSUME TypeOK, SourceInv, ~gaveUp, Printing, CookChar
  PROVE  Printing'
  <1>1. PICK s \in Seq(Char), base \in Seq(Char) : \E f, k : Cooks(s, base, f, k)
    BY DEF Printing
  <1>2. PICK f, k : Cooks(s, base, f, k) BY <1>1
  <1>3. /\ rest # <<>> /\ ~(Head(rest) = LF /\ last # CR /\ ~crSent)
        /\ str' = <<Head(rest)>> /\ last' = Head(rest) /\ rest' = Tail(rest)
        /\ crSent' = FALSE /\ want' = want
    BY DEF CookChar, NeedsCr, history
  <1>4. Emitted' = Emitted \o <<Head(rest)>>
    BY <1>3, WriteAdds DEF CookChar, Goto
  <1>5. /\ k \in 0 .. Len(s) /\ rest = SubSeq(s, k + 1, Len(s))
        /\ Parts(s, f) /\ want = base \o f[Len(s)]
        /\ last = IF k = 0 THEN "nul" ELSE s[k]
        /\ crSent => k < Len(s) /\ s[k + 1] = LF /\ last # CR
        /\ Emitted = IF crSent THEN base \o f[k] \o <<CR>> ELSE base \o f[k]
    BY <1>2 DEF Cooks
  <1>6. rest # <<>> => k # Len(s)
    <2>1. ASSUME k = Len(s) PROVE rest = <<>>
      BY <2>1, <1>5, SubSeqEmpty, LenProperties
    <2>2. QED BY <2>1
  <1>7. k < Len(s) BY <1>3, <1>5, <1>6, LenProperties
  <1>8. /\ s[k + 1] \in Char /\ Head(rest) = s[k + 1]
        /\ Tail(rest) = SubSeq(s, (k + 1) + 1, Len(s))
    BY <1>5, <1>7, RestOfString
  <1>9. k + 1 \in 0 .. Len(s) /\ k + 1 \in 1 .. Len(s) /\ k + 1 # 0 /\ (k + 1) - 1 = k
    BY <1>5, <1>7, LenProperties
  <1>10. f[k] \in Seq(Char) /\ f[k + 1] = f[k] \o Elem(s, k + 1)
    BY <1>5, <1>9 DEF Parts
  <1>11. Elem(s, k + 1) = IF s[k + 1] = LF /\ last # CR THEN <<CR, LF>> ELSE <<s[k + 1]>>
    <2>1. last # CR <=> (k = 0 \/ s[k] # CR) BY <1>5 DEF CR
    <2>2. QED BY <2>1, <1>5, <1>7, NextElem
  <1>12. Emitted' = base \o f[k + 1]
    <2>1. CASE crSent
      <3>1. /\ Emitted = base \o f[k] \o <<CR>> /\ Head(rest) = LF
            /\ Elem(s, k + 1) = <<CR, LF>>
        BY <2>1, <1>5, <1>8, <1>11
      <3>2. CR \in Char /\ LF \in Char BY DEF Char
      <3>3. <<CR>> \in Seq(Char) /\ <<LF>> \in Seq(Char) BY <3>2
      <3>4. <<CR>> \o <<LF>> = <<CR, LF>> BY <3>2, Pair
      <3>5. base \o f[k] \in Seq(Char) /\ <<CR, LF>> \in Seq(Char)
        BY <1>10, <3>2, ConcatProperties
      <3>6. (base \o f[k]) \o <<CR>> \o <<LF>> = (base \o f[k]) \o (<<CR>> \o <<LF>>)
        BY <3>3, <3>5, Regroup
      <3>7. (base \o f[k]) \o <<CR, LF>> = base \o (f[k] \o <<CR, LF>>)
        BY <1>10, <3>5, Regroup
      <3>8. QED BY <3>1, <3>4, <3>6, <3>7, <1>4, <1>10
    <2>2. CASE ~crSent
      <3>1. /\ Emitted = base \o f[k] /\ Head(rest) = s[k + 1]
            /\ Elem(s, k + 1) = <<s[k + 1]>>
        BY <2>2, <1>3, <1>5, <1>8, <1>11
      <3>2. <<s[k + 1]>> \in Seq(Char) BY <1>8
      <3>3. (base \o f[k]) \o <<s[k + 1]>> = base \o (f[k] \o <<s[k + 1]>>)
        BY <1>10, <3>2, Regroup
      <3>4. QED BY <3>1, <3>3, <1>4, <1>10
    <2>3. QED BY <2>1, <2>2
  <1>13. PICK j : j = k + 1 OBVIOUS
  <1>14. /\ j \in 0 .. Len(s) /\ rest' = SubSeq(s, j + 1, Len(s))
         /\ last' = (IF j = 0 THEN "nul" ELSE s[j]) /\ Emitted' = base \o f[j]
    BY <1>3, <1>8, <1>9, <1>12, <1>13
  <1>15. Cooks(s, base, f, j)' BY <1>3, <1>5, <1>14 DEF Cooks
  <1>16. QED BY <1>15 DEF Printing

\* When no character is left the string is printed.
LEMMA PrintingEnds ==
  ASSUME Printing, rest = <<>>
  PROVE  Emitted = want
  <1>1. PICK s \in Seq(Char), base \in Seq(Char) : \E f, k : Cooks(s, base, f, k)
    BY DEF Printing
  <1>2. PICK f, k : Cooks(s, base, f, k) BY <1>1
  <1>3. k = Len(s) BY <1>2, RestOfString DEF Cooks
  <1>4. ~(k < Len(s)) BY <1>3, LenProperties
  <1>5. QED BY <1>2, <1>3, <1>4 DEF Cooks

LEMMA EmitStep ==
  ASSUME TypeOK, TypeOK', CtlInv, SourceInv, EmitInv, [Next]_vars
  PROVE  EmitInv'
  <1> SUFFICES ASSUME ~gaveUp'
               PROVE  /\ pc' = "idle" \/ ~cooking' => Emitted' = want'
                      /\ pc' # "idle" /\ cooking' => Printing'
    BY DEF EmitInv
  <1>1. ~gaveUp
    BY DEF Next, Call, mp_hal_stdout_tx_strn, mp_hal_stdout_tx_strn_cooked, InCall, Write,
       WriteIrqsOff, WriteTendWait, WriteTeOff, WriteSource, WriteOn, SrcWaitEnds, EndWaitEnds,
       CookCr, CookChar,
       CookEnd, Transmitter, sci_b_uart_txi_isr, sci_b_uart_tei_isr, Load, Shift, Silence,
       history, vars
  <1>2. /\ pc = "idle" \/ ~cooking => Emitted = want
        /\ pc # "idle" /\ cooking => Printing
    BY <1>1 DEF EmitInv
  <1>3. ASSUME UNCHANGED <<Emitted, want, rest, last, crSent, cooking>>,
               pc' = "idle" <=> pc = "idle"
        PROVE  /\ pc' = "idle" \/ ~cooking' => Emitted' = want'
               /\ pc' # "idle" /\ cooking' => Printing'
    BY <1>2, <1>3, PrintingKept
  <1>4. ASSUME NEW s \in Strings, mp_hal_stdout_tx_strn(s)
        PROVE  Emitted' = want' /\ ~cooking'
    <2>1. /\ Emitted = want /\ tx_src = <<>> /\ s \in Seq(Char) /\ want' = want \o s
          /\ ~cooking' /\ str' = s
      BY <1>1, <1>2, <1>4, StringType DEF mp_hal_stdout_tx_strn, SourceInv
    <2>2. CASE s = <<>>
      <3>1. Emitted' = Emitted
        BY <1>4, <2>2 DEF mp_hal_stdout_tx_strn, Emitted, Unsent
      <3>2. want' = want BY <2>1, <2>2, ConcatEmptySeq DEF TypeOK
      <3>3. QED BY <2>1, <3>1, <3>2
    <2>3. CASE s # <<>>
      <3>1. Emitted' = Emitted \o str'
        BY <1>1, <1>4, <2>3, WriteAdds DEF mp_hal_stdout_tx_strn
      <3>2. QED BY <2>1, <3>1
    <2>4. QED BY <2>2, <2>3
  <1>5. ASSUME NEW s \in Strings, mp_hal_stdout_tx_strn_cooked(s)
        PROVE  Printing' /\ pc' # "idle" /\ cooking'
    <2>1. Emitted = want BY <1>2, <1>5 DEF mp_hal_stdout_tx_strn_cooked, Goto
    <2>2. Printing' BY <2>1, <1>5, PrintingBegins
    <2>3. QED BY <2>2, <1>5 DEF mp_hal_stdout_tx_strn_cooked, Goto
  <1>6. CASE WriteIrqsOff
    <2>1. Emitted' = Emitted BY <1>6 DEF WriteIrqsOff, Emitted, Unsent, Goto
    <2>2. QED BY <2>1, <1>3, <1>6 DEF WriteIrqsOff, loop, history, Goto
  <1>7. CASE WriteTendWait \/ WriteTeOff
    <2>1. Emitted' = Emitted BY <1>7 DEF WriteTendWait, WriteTeOff, Emitted, Unsent, Goto
    <2>2. QED BY <2>1, <1>3, <1>7 DEF WriteTendWait, WriteTeOff, loop, history, Goto
  <1>8. CASE WriteSource
    <2>1. Emitted' = Emitted BY <1>8 DEF WriteSource, Emitted, Unsent, Goto
    <2>2. QED BY <2>1, <1>3, <1>8 DEF WriteSource, loop, history, Goto
  <1>9. CASE WriteOn
    <2>1. Emitted' = Emitted BY <1>9 DEF WriteOn, Emitted, Unsent, Goto
    <2>2. QED BY <2>1, <1>3, <1>9 DEF WriteOn, loop, history, Goto
  <1>10. CASE SrcWaitEnds
    <2>1. Emitted' = Emitted BY <1>10 DEF SrcWaitEnds, Emitted, Unsent, Goto
    <2>2. QED BY <2>1, <1>3, <1>10 DEF SrcWaitEnds, loop, Goto
  <1>11. CASE EndWaitEnds
    <2>1. Emitted' = Emitted
      <3>1. pc = "end_wait" /\ pc' \in {"cook", "idle"} BY <1>11 DEF EndWaitEnds, Goto
      <3>2. QED BY <1>11, <3>1 DEF EndWaitEnds, Emitted, Unsent
    <2>2. UNCHANGED <<want, rest, last, crSent, cooking>> BY <1>11 DEF EndWaitEnds, loop, history
    <2>3. pc = "end_wait" /\ pc' = IF cooking THEN "cook" ELSE "idle"
      BY <1>11 DEF EndWaitEnds, Goto
    <2>4. CASE cooking
      <3>1. Printing' BY <2>1, <2>2, <2>3, <2>4, <1>2, PrintingKept
      <3>2. QED BY <3>1, <2>2, <2>3, <2>4
    <2>5. CASE ~cooking BY <2>1, <2>2, <2>3, <2>5, <1>2
    <2>6. QED BY <2>4, <2>5
  <1>12. CASE CookCr
    <2>1. pc = "cook" /\ pc' = "w_off" /\ cooking' = cooking /\ cooking
      BY <1>12 DEF CookCr, CtlInv, Goto
    <2>2. Printing' BY <2>1, <1>1, <1>2, <1>12, PrintsCr
    <2>3. QED BY <2>1, <2>2
  <1>13. CASE CookChar
    <2>1. pc = "cook" /\ pc' = "w_off" /\ cooking' = cooking /\ cooking
      BY <1>13 DEF CookChar, CtlInv, Goto
    <2>2. Printing' BY <2>1, <1>1, <1>2, <1>13, PrintsChar
    <2>3. QED BY <2>1, <2>2
  <1>14. CASE CookEnd
    <2>1. pc = "cook" /\ pc' = "idle" /\ cooking /\ rest = <<>> /\ want' = want
      BY <1>14 DEF CookEnd, CtlInv, Goto, history
    <2>2. Emitted = want BY <2>1, <1>2, PrintingEnds
    <2>3. Emitted' = Emitted BY <2>1, <1>14 DEF CookEnd, Emitted, Unsent
    <2>4. QED BY <2>1, <2>2, <2>3
  <1>15. CASE Transmitter
    <2>1. Emitted' = Emitted BY <1>1, <1>15, TransmitterKeeps
    <2>2. UNCHANGED <<want, rest, last, crSent, cooking, pc>>
      BY <1>15 DEF Transmitter, sci_b_uart_txi_isr, sci_b_uart_tei_isr, Load, Shift, Silence,
         loop, history
    <2>3. QED BY <2>1, <2>2, <1>3
  <1>16. CASE UNCHANGED vars
    <2>1. UNCHANGED <<Emitted, want, rest, last, crSent, cooking, pc>>
      BY <1>16 DEF vars, loop, history, Emitted, Unsent
    <2>2. QED BY <2>1, <1>3
  <1>17. QED
    BY <1>4, <1>5, <1>6, <1>7, <1>8, <1>9, <1>10, <1>11, <1>12, <1>13, <1>14, <1>15, <1>16
    DEF Next, Call, InCall, Write

\* As long as no wait gave up, when a call of the stdout functions returns what is
\* on the wire or in the transmitter is exactly what was asked for, with "\r\n"
\* for '\n' in cooked strings; and the first loop of uart_wait_tx_complete gives up
\* only on a string longer than the wait.  For every set of strings, every FIFO
\* depth and all lengths of the two waits.
THEOREM OutputCorrect == Spec => []OutputComplete
  <1>1. Init => EmitInv
    BY DEF Init, EmitInv, Emitted, Unsent
  <1>2. TxInv /\ TxInv' /\ EmitInv /\ [Next]_vars => EmitInv'
    BY EmitStep DEF TxInv
  <1>3. TxInv /\ EmitInv => OutputComplete
    <2> SUFFICES ASSUME TxInv, EmitInv PROVE OutputComplete
      OBVIOUS
    <2>1. ASSUME pc = "idle", ~gaveUp PROVE wire \o tsr \o txfifo = want
      <3>1. Emitted = want BY <2>1 DEF EmitInv
      <3>2. tx_src = <<>> BY <2>1 DEF TxInv, SourceInv
      <3>3. wire \o tsr \o txfifo \in Seq(Char) BY ConcatProperties DEF TxInv, TypeOK
      <3>4. Emitted = wire \o tsr \o txfifo \o <<>> BY <2>1, <3>2 DEF Emitted, Unsent
      <3>5. QED BY <3>1, <3>3, <3>4, ConcatEmptySeq
    <2>2. ASSUME pc = "src_wait", budget = 0, tx_src # <<>> PROVE Len(str) > SrcWait + 1
      <3>1. /\ Len(str) >= (SrcWait - budget) + Len(tsr) + Len(txfifo) + Len(tx_src)
            /\ budget < SrcWait => Len(tsr) + Len(txfifo) >= 1
        BY <2>2 DEF TxInv, FedInv
      <3>2. /\ Len(str) \in Nat /\ Len(tsr) \in Nat /\ Len(txfifo) \in Nat
            /\ Len(tx_src) \in Nat
        BY LenProperties DEF TxInv, TypeOK
      <3>3. SrcWait \in Nat /\ SrcWait # 0 BY WaitAssumption
      <3>4. Len(tx_src) # 0 BY <2>2, EmptySeq DEF TxInv, TypeOK
      <3>5. QED BY <2>2, <3>1, <3>2, <3>3, <3>4
    <2>3. QED BY <2>1, <2>2 DEF OutputComplete
  <1>4. QED BY <1>1, <1>2, <1>3, TxInvariant, PTL DEF Spec

=============================================================================
