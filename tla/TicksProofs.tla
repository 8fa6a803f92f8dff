------------------------------ MODULE TicksProofs ------------------------------
(***************************************************************************)
(* Proofs about Ticks, for every clock, every width of both counters and   *)
(* any length of time.  The inductive invariant TimeInv says that there is *)
(* a time b, at which SysTick_Handler last ran: the base is the cycle      *)
(* counter's value then, and no period has ended since unless SysTick is   *)
(* due.  A snapshot whose counts agree was taken without a SysTick, since  *)
(* it is shorter than the period of the count; so the cycles since the     *)
(* base are the ones since b, fewer than a millisecond, and the wrap of    *)
(* the cycle counter cancels.  The cycle m after b bounds the last value.  *)
(***************************************************************************)
EXTENDS Ticks, TLAPS

-----------------------------------------------------------------------------
(* Arithmetic *)

\* Products are monotonic.
LEMMA Times ==
  ASSUME NEW a \in Int, NEW b \in Int, NEW c \in Nat, a <= b
  PROVE  a * c <= b * c
  <1>1. (b - a) * c >= 0 OBVIOUS
  <1>2. (b - a) * c = b * c - a * c OBVIOUS
  <1>3. QED BY <1>1, <1>2

LEMMA DivMod ==
  ASSUME NEW a \in Int, NEW n \in Nat \ {0}
  PROVE  a \div n \in Int /\ a % n \in 0 .. n - 1 /\ a = n * (a \div n) + (a % n)
  OBVIOUS

LEMMA DivUnique ==
  ASSUME NEW a \in Int, NEW n \in Nat \ {0}, NEW q \in Int, NEW r \in 0 .. n - 1, a = n * q + r
  PROVE  a \div n = q /\ a % n = r
  <1> DEFINE d == a \div n
             m == a % n
  <1>1. d \in Int /\ m \in 0 .. n - 1 /\ a = n * d + m BY DivMod
  <1> HIDE DEF d, m
  <1>2. n * (d - q) = r - m BY <1>1
  <1>3. d - q < 1
    <2>1. SUFFICES ASSUME d - q >= 1 PROVE FALSE BY <1>1
    <2>2. 1 * n <= (d - q) * n BY <1>1, <2>1, Times
    <2>3. (d - q) * n = n * (d - q) BY <1>1
    <2>4. QED BY <1>1, <1>2, <2>2, <2>3
  <1>4. q - d < 1
    <2>1. SUFFICES ASSUME q - d >= 1 PROVE FALSE BY <1>1
    <2>2. 1 * n <= (q - d) * n BY <1>1, <2>1, Times
    <2>3. (q - d) * n = -(n * (d - q)) BY <1>1
    <2>4. QED BY <1>1, <1>2, <2>2, <2>3
  <1>5. d = q BY <1>1, <1>3, <1>4
  <1>6. QED BY <1>1, <1>5 DEF d, m

LEMMA ModShift ==
  ASSUME NEW a \in Int, NEW n \in Nat \ {0}, NEW k \in Int
  PROVE  (a + n * k) % n = a % n
  <1> DEFINE d == a \div n
             m == a % n
  <1>1. d \in Int /\ m \in 0 .. n - 1 /\ a = n * d + m BY DivMod
  <1> HIDE DEF d, m
  <1>2. a + n * k = n * (d + k) + m BY <1>1
  <1>3. a + n * k \in Int /\ d + k \in Int BY <1>1
  <1>4. (a + n * k) % n = m BY <1>1, <1>2, <1>3, DivUnique
  <1>5. QED BY <1>4 DEF m

\* The number of whole periods grows by one exactly when a period ends.
LEMMA DivStep ==
  ASSUME NEW x \in Nat, NEW n \in Nat \ {0}
  PROVE  /\ x \div n \in Nat
         /\ (x + 1) \div n = IF (x + 1) % n = 0 THEN x \div n + 1 ELSE x \div n
  <1> DEFINE d == x \div n
             m == x % n
  <1>1. d \in Int /\ m \in 0 .. n - 1 /\ x = n * d + m BY DivMod
  <1>2. d \in Nat OBVIOUS
  <1> HIDE DEF d, m
  <1>3. CASE m + 1 < n
    <2>1. m + 1 \in 0 .. n - 1 /\ x + 1 = n * d + (m + 1) /\ x + 1 \in Int BY <1>1, <1>3
    <2>2. (x + 1) \div n = d /\ (x + 1) % n = m + 1 BY <1>1, <2>1, DivUnique
    <2>3. m + 1 # 0 BY <1>1
    <2>4. QED BY <1>2, <2>2, <2>3 DEF d
  <1>4. CASE m + 1 = n
    <2>1. 0 \in 0 .. n - 1 /\ x + 1 = n * (d + 1) + 0 /\ x + 1 \in Int /\ d + 1 \in Int
      BY <1>1, <1>4
    <2>2. (x + 1) \div n = d + 1 /\ (x + 1) % n = 0 BY <2>1, DivUnique
    <2>3. QED BY <1>2, <2>2 DEF d
  <1>5. QED BY <1>1, <1>3, <1>4

\* A counter that wraps is the remainder of the number it counts.
LEMMA ModNext ==
  ASSUME NEW a \in Int, NEW n \in Nat \ {0}
  PROVE  ((a % n) + 1) % n = (a + 1) % n
  <1> DEFINE d == a \div n
             m == a % n
  <1>1. d \in Int /\ m \in 0 .. n - 1 /\ a = n * d + m BY DivMod
  <1> HIDE DEF d, m
  <1>2. m + 1 \in Int /\ a + 1 = (m + 1) + n * d BY <1>1
  <1>3. ((m + 1) + n * d) % n = (m + 1) % n BY <1>1, <1>2, ModShift
  <1>4. QED BY <1>2, <1>3 DEF m

\* The difference of two remainders is, modulo n, the difference of the numbers ...
LEMMA ModDiff ==
  ASSUME NEW a \in Int, NEW b \in Int, NEW n \in Nat \ {0}
  PROVE  ((a % n) - (b % n)) % n = (a - b) % n
  <1> DEFINE d == a \div n
             m == a % n
             e == b \div n
             k == b % n
  <1>1. d \in Int /\ m \in 0 .. n - 1 /\ a = n * d + m BY DivMod
  <1>2. e \in Int /\ k \in 0 .. n - 1 /\ b = n * e + k BY DivMod
  <1> HIDE DEF d, m, e, k
  <1>3. m - k \in Int /\ d - e \in Int /\ a - b = (m - k) + n * (d - e) BY <1>1, <1>2
  <1>4. ((m - k) + n * (d - e)) % n = (m - k) % n BY <1>3, ModShift
  <1>5. QED BY <1>3, <1>4 DEF m, k

\* ... which is exact when it is in range.
LEMMA ModSmall ==
  ASSUME NEW n \in Nat \ {0}, NEW a \in 0 .. n - 1
  PROVE  a % n = a
  <1>1. a = n * 0 + a /\ a \in Int /\ 0 \in Int OBVIOUS
  <1>2. QED BY <1>1, DivUnique

-----------------------------------------------------------------------------
(* Types *)

LEMMA SubType ==
  ASSUME TypeOK
  PROVE  SubCycles \in 0 .. CycMod - 1 /\ SubUs \in Nat
  <1>1. cyc - base1 \in Int /\ CycMod \in Nat \ {0}
    BY ModAssumption, CyclesAssumption DEF TypeOK
  <1>2. SubCycles \in 0 .. CycMod - 1 BY <1>1, DivMod DEF SubCycles
  <1> DEFINE k == (SubCycles % CyclesPerMs) * UsPerMs
  <1>3. SubCycles % CyclesPerMs \in Nat BY <1>2, CyclesAssumption
  <1>4. k \in Nat BY <1>3, CyclesAssumption
  <1> HIDE DEF k
  <1>5. k \div CyclesPerMs \in Nat BY <1>4, CyclesAssumption, DivStep
  <1>6. QED BY <1>2, <1>5 DEF SubUs, k

LEMMA TypeStep ==
  ASSUME TypeOK, [Next]_vars
  PROVE  TypeOK'
  <1>1. ASSUME NEW a \in Int, NEW n \in Nat \ {0} PROVE a % n \in 0 .. n - 1 BY DivMod
  <1>2. CycMod \in Nat \ {0} /\ TickMod \in Nat \ {0} BY ModAssumption, CyclesAssumption
  <1>3. CYCCNT \in 0 .. CycMod - 1 BY <1>1, <1>2, MaxTimeAssumption DEF TypeOK, CYCCNT
  <1>4. CASE Cycle
    <2>1. now' \in 0 .. MaxTime BY <1>4, MaxTimeAssumption DEF Cycle, TypeOK
    <2>2. due' \in BOOLEAN /\ lostTick' \in BOOLEAN BY <1>4 DEF Cycle, TypeOK
    <2>3. QED BY <1>4, <2>1, <2>2 DEF Cycle, TypeOK, counters, locals, results
  <1>5. CASE OtherHandler
    <2>1. busy' \in BOOLEAN BY <1>5 DEF OtherHandler
    <2>2. QED BY <1>5, <2>1 DEF OtherHandler, TypeOK, counters, locals, results
  <1>6. CASE SysTick_Handler
    <2>1. (g_systick_count + 1) % TickMod \in 0 .. TickMod - 1 BY <1>1, <1>2 DEF TypeOK
    <2>2. runs' \in Nat BY <1>6 DEF SysTick_Handler, TypeOK
    <2>3. QED BY <1>3, <1>6, <2>1, <2>2 DEF SysTick_Handler, TypeOK, locals, results
  <1>7. CASE ReadMs BY <1>7 DEF ReadMs, TypeOK, clock, counters, results
  <1>8. CASE ReadBase BY <1>8 DEF ReadBase, TypeOK, clock, counters, results
  <1>9. CASE ReadCyc BY <1>3, <1>9 DEF ReadCyc, TypeOK, clock, counters, results
  <1>10. CASE ReadBase2 BY <1>10 DEF ReadBase2, TypeOK, clock, counters, results
  <1>11. CASE ReadMs2
    <2>1. runs1 * UsPerMs + SubUs \in Nat BY SubType, CyclesAssumption DEF TypeOK
    <2>2. QED BY <1>11, <2>1 DEF ReadMs2, Return, Again, TypeOK, clock, counters, locals, results
  <1>12. CASE UNCHANGED vars BY <1>12 DEF vars, TypeOK, clock, counters, locals, results
  <1>13. QED
    BY <1>4, <1>5, <1>6, <1>7, <1>8, <1>9, <1>10, <1>11, <1>12 DEF Next, TicksUs

\* Every variable has its type: the counters and what mp_hal_ticks_us has read of them
\* stay within their widths, for every width.
THEOREM TicksTypeCorrect == Spec => []TypeOK
  <1>1. ASSUME Init PROVE TypeOK
    <2>1. 0 \in 0 .. MaxTime /\ 0 \in 0 .. TickMod - 1 /\ 0 \in 0 .. CycMod - 1
      BY CyclesAssumption, ModAssumption, MaxTimeAssumption
    <2>2. value \in Nat \cup {-1} /\ prev \in Nat \cup {-1} BY <1>1 DEF Init
    <2>3. /\ now \in 0 .. MaxTime /\ at \in 0 .. MaxTime /\ phase \in 0 .. CyclesPerMs - 1
          /\ g_systick_count \in 0 .. TickMod - 1 /\ ms1 \in 0 .. TickMod - 1
          /\ g_dwt_cyccnt_ms_base \in 0 .. CycMod - 1
          /\ base1 \in 0 .. CycMod - 1 /\ base2 \in 0 .. CycMod - 1 /\ cyc \in 0 .. CycMod - 1
      BY <1>1, <2>1, Zenon DEF Init
    <2>4. QED BY <1>1, <2>2, <2>3 DEF Init, TypeOK
  <1>2. TypeOK /\ [Next]_vars => TypeOK' BY TypeStep
  <1>3. QED BY <1>1, <1>2, PTL DEF Spec

-----------------------------------------------------------------------------
(* The invariant *)

\* The SysTick periods that have ended at time t.
Periods(t) == (t + phase) \div CyclesPerMs

\* SysTick_Handler last ran at time b and has the base from there.  It has run at most
\* once for each period that has ended by then, and as often if none was lost; SysTick
\* is due exactly if a period has ended since.
TickInv(b) ==
  /\ g_systick_count = runs % TickMod
  /\ g_dwt_cyccnt_ms_base = b % CycMod
  /\ runs <= Periods(b)
  /\ ~lostTick => runs = Periods(b)
  /\ ~due => Periods(now) = Periods(b)
  /\ due => Periods(now) > Periods(b)
  /\ due /\ ~lostTick => Periods(now) = Periods(b) + 1

\* As long as no SysTick came between its reads, a snapshot is of one millisecond: the
\* base is the one of the count, and the cycle counter was read before the next.
SnapInv(b, m) ==
  pc \in {"base1", "cyc", "base2", "ms2"} =>
    /\ ms1 = runs1 % TickMod
    /\ runs1 <= runs
    /\ runs - runs1 <= TickMod - 1 /\ (due => runs - runs1 < TickMod - 1)
    /\ runs = runs1 =>
         /\ pc # "base1" => base1 = g_dwt_cyccnt_ms_base
         /\ pc \in {"base2", "ms2"} =>
              /\ at \in b + m .. now
              /\ cyc = at % CycMod
              /\ Periods(at) = Periods(b)

\* What the last call returned is at most the time m cycles after the base, and m is
\* at most a millisecond.
ValueInv(b, m) ==
  /\ m <= CyclesPerMs /\ b + m <= now
  /\ value * CyclesPerMs <= (runs * CyclesPerMs + m) * UsPerMs

TimeInv == \E b, m \in 0 .. now : TickInv(b) /\ SnapInv(b, m) /\ ValueInv(b, m)

LEMMA PeriodsType ==
  ASSUME TypeOK, NEW t \in Nat
  PROVE  Periods(t) \in Nat
  <1>1. t + phase \in Nat BY CyclesAssumption DEF TypeOK
  <1>2. QED BY <1>1, CyclesAssumption, DivStep DEF Periods

LEMMA CycleStep ==
  ASSUME TypeOK, TimeInv, Cycle
  PROVE  TimeInv'
  <1>1. PICK b \in 0 .. now, m \in 0 .. now : TickInv(b) /\ SnapInv(b, m) /\ ValueInv(b, m)
    BY DEF TimeInv
  <1>2. /\ now \in Nat /\ b \in Nat /\ m \in Nat /\ now' = now + 1 /\ phase \in Nat
        /\ runs \in Nat /\ runs1 \in Nat /\ at \in Nat /\ TickMod \in Nat
    BY MaxTimeAssumption, CyclesAssumption, ModAssumption DEF Cycle, TypeOK
  <1>3. /\ UNCHANGED <<phase, g_systick_count, g_dwt_cyccnt_ms_base, runs, pc, ms1, base1, cyc>>
        /\ UNCHANGED <<base2, runs1, at, value>>
    BY DEF Cycle, counters, locals, results
  <1>4. Periods(now)' = IF (now' + phase) % CyclesPerMs = 0 THEN Periods(now) + 1 ELSE Periods(now)
    <2> DEFINE x == now + phase
    <2>1. x \in Nat /\ now' + phase = x + 1 BY <1>2
    <2> HIDE DEF x
    <2>2. (x + 1) \div CyclesPerMs =
            IF (x + 1) % CyclesPerMs = 0 THEN x \div CyclesPerMs + 1 ELSE x \div CyclesPerMs
      BY <2>1, CyclesAssumption, DivStep
    <2>3. Periods(now)' = (x + 1) \div CyclesPerMs BY <1>3, <2>1 DEF Periods
    <2>4. QED BY <2>1, <2>2, <2>3 DEF Periods, x
  <1>5. \A t \in Nat : Periods(t)' = Periods(t) BY <1>3 DEF Periods
  <1>6. Periods(b) \in Nat /\ Periods(now) \in Nat BY <1>2, PeriodsType
  <1> DEFINE ends == (now' + phase) % CyclesPerMs = 0
  <1>7. due' = (due \/ ends) /\ lostTick' = (lostTick \/ (due /\ ends)) BY DEF Cycle
  <1>8. Periods(now)' = IF ends THEN Periods(now) + 1 ELSE Periods(now) BY <1>4
  <1> HIDE DEF ends, Periods
  <1>9. TickInv(b)'
    <2>1. /\ runs <= Periods(b) /\ (~lostTick => runs = Periods(b))
          /\ ~due => Periods(now) = Periods(b)
          /\ due => Periods(now) > Periods(b)
          /\ due /\ ~lostTick => Periods(now) = Periods(b) + 1
      BY <1>1 DEF TickInv
    <2>2. /\ ~lostTick' => runs = Periods(b)
          /\ ~due' => Periods(now)' = Periods(b)
          /\ due' => Periods(now)' > Periods(b)
          /\ due' /\ ~lostTick' => Periods(now)' = Periods(b) + 1
      <3>1. due \in BOOLEAN /\ lostTick \in BOOLEAN BY DEF TypeOK
      <3>2. CASE ends
        <4>1. due' /\ (~lostTick' => ~lostTick /\ ~due) BY <1>7, <3>1, <3>2
        <4>2. Periods(now)' = Periods(now) + 1 BY <1>8, <3>2
        <4>3. Periods(now) >= Periods(b) BY <1>6, <2>1, <3>1
        <4>4. QED BY <1>6, <2>1, <4>1, <4>2, <4>3
      <3>3. CASE ~ends BY <1>6, <1>7, <1>8, <2>1, <3>1, <3>3
      <3>4. QED BY <3>2, <3>3
    <2>3. Periods(b)' = Periods(b) BY <1>2, <1>5
    <2>4. g_systick_count = runs % TickMod /\ g_dwt_cyccnt_ms_base = b % CycMod BY <1>1 DEF TickInv
    <2>5. QED BY <1>3, <2>1, <2>2, <2>3, <2>4 DEF TickInv
  <1>10. SnapInv(b, m)'
    <2>1. SUFFICES ASSUME pc \in {"base1", "cyc", "base2", "ms2"} PROVE SnapInv(b, m)'
      BY <1>3 DEF SnapInv
    <2>2. runs - runs1 < TickMod - 1 BY <2>1 DEF Cycle, SnapshotIsShort
    <2>3. runs = runs1 /\ pc \in {"base2", "ms2"} =>
            at \in b + m .. now' /\ cyc = at % CycMod /\ Periods(at)' = Periods(b)'
      <3>1. Periods(at)' = Periods(at) /\ Periods(b)' = Periods(b) BY <1>2, <1>3, <1>5
      <3>2. runs = runs1 /\ pc \in {"base2", "ms2"} =>
              at \in b + m .. now /\ cyc = at % CycMod /\ Periods(at) = Periods(b)
        BY <1>1, <2>1 DEF SnapInv
      <3>3. at \in b + m .. now => at \in b + m .. now' BY <1>2
      <3>4. QED BY <3>1, <3>2, <3>3, Zenon
    <2>4. /\ ms1 = runs1 % TickMod /\ runs1 <= runs
          /\ runs = runs1 /\ pc # "base1" => base1 = g_dwt_cyccnt_ms_base
      BY <1>1, <2>1 DEF SnapInv
    <2>5. QED BY <1>2, <1>3, <2>2, <2>3, <2>4 DEF SnapInv
  <1>11. ValueInv(b, m)' BY <1>1, <1>2, <1>3 DEF ValueInv
  <1>12. b \in 0 .. now' /\ m \in 0 .. now' BY <1>2
  <1>13. QED BY <1>9, <1>10, <1>11, <1>12 DEF TimeInv

LEMMA HandlerStep ==
  ASSUME TypeOK, TimeInv, SysTick_Handler
  PROVE  TimeInv'
  <1>1. PICK b \in 0 .. now, m \in 0 .. now : TickInv(b) /\ SnapInv(b, m) /\ ValueInv(b, m)
    BY DEF TimeInv
  <1>2. /\ now \in Nat /\ b \in Nat /\ m \in Nat /\ runs \in Nat /\ runs1 \in Nat
        /\ TickMod \in Nat \ {0} /\ CyclesPerMs \in Nat /\ UsPerMs \in Nat /\ value \in Int
        /\ lostTick \in BOOLEAN
    BY MaxTimeAssumption, CyclesAssumption, ModAssumption DEF TypeOK
  <1>3. /\ UNCHANGED <<now, phase, lostTick, pc, ms1, base1, cyc, base2, runs1, at, value>>
        /\ runs' = runs + 1 /\ due /\ due' = FALSE
        /\ g_systick_count' = (g_systick_count + 1) % TickMod
        /\ g_dwt_cyccnt_ms_base' = now % CycMod
    BY DEF SysTick_Handler, locals, results, CYCCNT
  <1>4. Periods(b) \in Nat /\ Periods(now) \in Nat BY <1>2, PeriodsType
  <1>5. Periods(now)' = Periods(now) BY <1>3 DEF Periods
  <1>6. TickInv(now)'
    <2>1. g_systick_count' = runs' % TickMod
      <3>1. g_systick_count = runs % TickMod BY <1>1 DEF TickInv
      <3>2. ((runs % TickMod) + 1) % TickMod = (runs + 1) % TickMod BY <1>2, ModNext
      <3>3. QED BY <1>3, <3>1, <3>2, Zenon
    <2>2. /\ runs <= Periods(b) /\ Periods(now) > Periods(b)
          /\ ~lostTick => runs = Periods(b) /\ Periods(now) = Periods(b) + 1
      BY <1>1, <1>3 DEF TickInv
    <2>3. runs' <= Periods(now) /\ (~lostTick => runs' = Periods(now))
      BY <1>2, <1>3, <1>4, <2>2
    <2>4. QED BY <1>3, <1>5, <2>1, <2>3 DEF TickInv
  <1>7. SnapInv(now, 0)'
    <2>1. SUFFICES ASSUME pc \in {"base1", "cyc", "base2", "ms2"} PROVE SnapInv(now, 0)'
      BY <1>3 DEF SnapInv
    <2>2. ms1 = runs1 % TickMod /\ runs1 <= runs /\ runs - runs1 < TickMod - 1
      BY <1>1, <1>3, <2>1 DEF SnapInv
    <2>3. runs1 <= runs' /\ runs' - runs1 <= TickMod - 1 /\ runs' # runs1
      BY <1>2, <1>3, <2>2
    <2>4. QED BY <1>3, <2>2, <2>3 DEF SnapInv
  <1>8. ValueInv(now, 0)'
    <2> DEFINE x == runs * CyclesPerMs + m
               y == (runs + 1) * CyclesPerMs + 0
    <2>1. x \in Int /\ y \in Int /\ x <= y BY <1>1, <1>2 DEF ValueInv
    <2>2. value * CyclesPerMs <= x * UsPerMs BY <1>1 DEF ValueInv
    <2> HIDE DEF x, y
    <2>3. x * UsPerMs <= y * UsPerMs BY <1>2, <2>1, Times
    <2>4. value * CyclesPerMs \in Int /\ x * UsPerMs \in Int /\ y * UsPerMs \in Int
      BY <1>2, <2>1
    <2>5. value * CyclesPerMs <= y * UsPerMs BY <2>2, <2>3, <2>4
    <2>6. QED BY <1>2, <1>3, <2>5 DEF ValueInv, y
  <1>9. now \in 0 .. now' /\ 0 \in 0 .. now' BY <1>2, <1>3
  <1>10. QED BY <1>3, <1>6, <1>7, <1>8, <1>9 DEF TimeInv

LEMMA ReadStep ==
  ASSUME TypeOK, TimeInv, ReadMs \/ ReadBase \/ ReadCyc \/ ReadBase2
  PROVE  TimeInv'
  <1>1. PICK b \in 0 .. now, m \in 0 .. now : TickInv(b) /\ SnapInv(b, m) /\ ValueInv(b, m)
    BY DEF TimeInv
  <1>2. /\ now \in Nat /\ b \in Nat /\ m \in Nat /\ runs \in Nat /\ runs1 \in Nat
        /\ TickMod \in Nat \ {0, 1}
    BY MaxTimeAssumption, ModAssumption DEF TypeOK
  <1>3. UNCHANGED <<now, phase, due, lostTick, g_systick_count, g_dwt_cyccnt_ms_base, runs, value>>
    BY DEF ReadMs, ReadBase, ReadCyc, ReadBase2, clock, counters, results
  <1>4. ~due BY DEF ReadMs, ReadBase, ReadCyc, ReadBase2, Foreground
  <1>5. TickInv(b)' BY <1>1, <1>3 DEF TickInv, Periods
  <1>6. ValueInv(b, m)' BY <1>1, <1>3 DEF ValueInv
  <1>7. SnapInv(b, m)'
    <2>1. CASE ReadMs
      <3>1. pc' = "base1" /\ ms1' = runs % TickMod /\ runs1' = runs
        BY <1>1, <2>1 DEF ReadMs, TickInv
      <3>2. QED BY <1>2, <1>3, <1>4, <3>1 DEF SnapInv
    <2>2. CASE ReadBase
      <3>1. /\ pc = "base1" /\ pc' = "cyc" /\ base1' = g_dwt_cyccnt_ms_base
            /\ UNCHANGED <<ms1, runs1>>
        BY <2>2 DEF ReadBase
      <3>2. QED BY <1>1, <1>3, <3>1 DEF SnapInv
    <2>3. CASE ReadCyc
      <3>1. /\ pc = "cyc" /\ pc' = "base2" /\ at' = now /\ cyc' = now % CycMod
            /\ UNCHANGED <<ms1, runs1, base1>>
        BY <2>3 DEF ReadCyc, CYCCNT
      <3>2. Periods(now) = Periods(b) BY <1>1, <1>4 DEF TickInv
      <3>3. now \in b + m .. now BY <1>1, <1>2 DEF ValueInv
      <3>4. at' \in b + m .. now' /\ Periods(at)' = Periods(b)'
        BY <1>3, <3>1, <3>2, <3>3 DEF Periods
      <3>5. QED BY <1>1, <1>3, <3>1, <3>4 DEF SnapInv
    <2>4. CASE ReadBase2
      <3>1. /\ pc = "base2" /\ pc' = "ms2"
            /\ UNCHANGED <<ms1, runs1, base1, cyc, at>>
        BY <2>4 DEF ReadBase2
      <3>2. Periods(at)' = Periods(at) /\ Periods(b)' = Periods(b) BY <1>3, <3>1 DEF Periods
      <3> HIDE DEF Periods
      <3>3. QED BY <1>1, <1>3, <3>1, <3>2 DEF SnapInv
    <2>5. QED BY <2>1, <2>2, <2>3, <2>4
  <1>8. QED BY <1>3, <1>5, <1>6, <1>7 DEF TimeInv

\* A snapshot whose counts agree was not interrupted by SysTick: the cycles since the
\* base are the ones since SysTick_Handler ran, and less than a millisecond.
LEMMA SnapshotSound ==
  ASSUME TypeOK, NEW b \in 0 .. now, NEW m \in 0 .. now, TickInv(b), SnapInv(b, m),
         pc = "ms2", ms1 = g_systick_count
  PROVE  /\ runs = runs1 /\ at - b \in m .. CyclesPerMs - 1
         /\ SubCycles % CyclesPerMs = at - b
         /\ Periods(at) = Periods(b)
  <1>1. /\ now \in Nat /\ b \in Nat /\ m \in Nat /\ runs \in Nat /\ runs1 \in Nat /\ at \in Nat
        /\ TickMod \in Nat \ {0} /\ phase \in Nat /\ CycMod \in Nat \ {0}
        /\ CyclesPerMs \in Nat \ {0} /\ CyclesPerMs <= CycMod
    BY MaxTimeAssumption, CyclesAssumption, ModAssumption DEF TypeOK
  <1>2. runs = runs1
    <2> DEFINE k == runs - runs1
    <2>1. k \in 0 .. TickMod - 1 BY <1>1 DEF SnapInv
    <2>2. runs % TickMod = runs1 % TickMod BY DEF SnapInv, TickInv
    <2>3. ((runs % TickMod) - (runs1 % TickMod)) % TickMod = k % TickMod
      <3>1. runs \in Int /\ runs1 \in Int BY <1>1
      <3>2. QED BY <1>1, <3>1, ModDiff, Zenon
    <2> DEFINE r == runs1 % TickMod
    <2>4. r \in Int BY <1>1, DivMod
    <2>5. (r - r) % TickMod = k % TickMod BY <2>2, <2>3
    <2> HIDE DEF k, r
    <2>6. r - r = 0 BY <2>4
    <2>7. 0 % TickMod = 0 BY <1>1
    <2>8. k % TickMod = 0 BY <2>5, <2>6, <2>7
    <2>9. k % TickMod = k BY <1>1, <2>1, ModSmall
    <2>10. k = 0 BY <2>8, <2>9
    <2>11. QED BY <1>1, <2>10 DEF k
  <1>3. /\ base1 = b % CycMod /\ at \in b + m .. now /\ cyc = at % CycMod
        /\ Periods(at) = Periods(b)
    BY <1>2 DEF SnapInv, TickInv
  <1>4. at - b \in m .. CyclesPerMs - 1
    <2> DEFINE p == Periods(b)
               x == at + phase
               y == b + phase
    <2>1. x \in Int /\ y \in Int BY <1>1
    <2>2. x = CyclesPerMs * p + (x % CyclesPerMs) /\ x % CyclesPerMs \in 0 .. CyclesPerMs - 1
      BY <1>1, <1>3, <2>1, DivMod DEF Periods
    <2>3. y = CyclesPerMs * p + (y % CyclesPerMs) /\ y % CyclesPerMs \in 0 .. CyclesPerMs - 1
      BY <1>1, <2>1, DivMod DEF Periods
    <2>4. CyclesPerMs * p \in Int BY <1>1, PeriodsType
    <2>5. x - y < CyclesPerMs
      <3> DEFINE c == CyclesPerMs * p
                 u == x % CyclesPerMs
                 v == y % CyclesPerMs
      <3>1. /\ x = c + u /\ y = c + v /\ u < CyclesPerMs /\ v >= 0
            /\ c \in Int /\ u \in Int /\ v \in Int
        BY <1>1, <2>2, <2>3, <2>4
      <3> HIDE DEF c, u, v, x, y
      <3>2. QED BY <1>1, <3>1
    <2>6. QED BY <1>1, <1>3, <2>5
  <1>5. SubCycles = at - b
    <2>1. SubCycles = ((at % CycMod) - (b % CycMod)) % CycMod BY <1>3 DEF SubCycles
    <2>2. SubCycles = (at - b) % CycMod
      <3>1. at \in Int /\ b \in Int BY <1>1
      <3>2. ((at % CycMod) - (b % CycMod)) % CycMod = (at - b) % CycMod
        BY <1>1, <3>1, ModDiff, Zenon
      <3>3. QED BY <2>1, <3>2, Zenon
    <2>3. at - b \in 0 .. CycMod - 1 BY <1>1, <1>4
    <2>4. QED BY <1>1, <2>2, <2>3, ModSmall
  <1>6. at - b \in 0 .. CyclesPerMs - 1 BY <1>1, <1>4
  <1>7. SubCycles % CyclesPerMs = at - b BY <1>1, <1>5, <1>6, ModSmall
  <1>8. QED BY <1>2, <1>3, <1>4, <1>7

\* So what the call returns is the time of the cycle counter's read in microseconds,
\* rounded down, if the count stands for the periods that have ended.
LEMMA ReturnSound ==
  ASSUME TypeOK, NEW b \in 0 .. now, NEW m \in 0 .. now, TickInv(b), SnapInv(b, m),
         ValueInv(b, m), pc = "ms2", ms1 = g_systick_count,
         NEW v, v = runs1 * UsPerMs + SubUs
  PROVE  /\ v \in Nat /\ v >= value
         /\ v * CyclesPerMs <= (runs * CyclesPerMs + (at - b)) * UsPerMs
         /\ (ms1 * UsPerMs + SubUs) % TickMod = v % TickMod
         /\ v * CyclesPerMs <= Elapsed * UsPerMs
         /\ ~lostTick => (Elapsed - CyclesPerMs) * UsPerMs < (v + 1) * CyclesPerMs
  <1> DEFINE C == CyclesPerMs
             U == UsPerMs
             d == at - b
             s == SubUs
             x == runs * C + d
  <1>1. /\ C \in Nat \ {0} /\ U \in Nat \ {0} /\ runs \in Nat /\ runs1 \in Nat /\ value \in Int
        /\ b \in Nat /\ m \in Nat /\ at \in Nat /\ phase \in Nat /\ TickMod \in Nat \ {0}
    BY MaxTimeAssumption, CyclesAssumption, ModAssumption DEF TypeOK
  <1>2. /\ runs = runs1 /\ d \in m .. C - 1 /\ SubCycles % C = d
        /\ Periods(at) = Periods(b)
    BY SnapshotSound
  <1>3. d \in Nat BY <1>1, <1>2
  <1>4. s \in Nat /\ d * U \in Nat /\ s = (d * U) \div C
    <2>1. s \in Nat /\ d * U \in Nat BY <1>1, <1>3, SubType
    <2>2. s = ((SubCycles % C) * U) \div C BY Zenon DEF SubUs
    <2>3. s = (d * U) \div C BY <1>2, <2>2, Zenon
    <2>4. QED BY <2>1, <2>3, Zenon
  <1>5. s * C <= d * U /\ d * U < (s + 1) * C
    <2> DEFINE k == d * U
    <2>1. k \in Int /\ s = k \div C BY <1>4
    <2> HIDE DEF k, s, C
    <2>2. k = C * s + (k % C) /\ k % C \in 0 .. C - 1 BY <1>1, <2>1, DivMod
    <2>3. s * C = C * s /\ (s + 1) * C = C * s + C /\ C * s \in Int BY <1>1, <1>4
    <2>4. s * C <= k /\ k < (s + 1) * C BY <1>1, <2>2, <2>3
    <2>5. QED BY <2>4 DEF k
  <1>6. v = runs * U + s /\ v \in Nat BY <1>1, <1>2, <1>4
  <1> HIDE DEF C, U, d, s
  <1>7. v * C = (runs * C) * U + s * C /\ (v + 1) * C = (runs * C) * U + (s + 1) * C
    BY <1>1, <1>4, <1>6
  <1>8. x * U = (runs * C) * U + d * U BY <1>1, <1>3
  <1>9. /\ (runs * C) * U \in Int /\ s * C \in Int /\ (s + 1) * C \in Int /\ d * U \in Int
        /\ v * C \in Int /\ (v + 1) * C \in Int /\ x \in Int /\ x * U \in Int
    BY <1>1, <1>3, <1>4, <1>6
  <1>10. v * C <= x * U /\ x * U < (v + 1) * C BY <1>5, <1>7, <1>8, <1>9
  <1>11. v >= value
    <2> DEFINE y == runs * C + m
    <2>1. y \in Int /\ y <= x BY <1>1, <1>2, <1>3
    <2>2. value * C <= y * U BY DEF ValueInv, C, U
    <2>3. y * U <= x * U BY <1>1, <1>9, <2>1, Times
    <2>4. SUFFICES ASSUME v + 1 <= value PROVE FALSE BY <1>1, <1>6
    <2>5. (v + 1) * C <= value * C BY <1>1, <1>6, <2>4, Times
    <2>6. value * C \in Int /\ y * U \in Int BY <1>1, <2>1
    <2> HIDE DEF y, x
    <2>7. QED BY <1>9, <1>10, <2>2, <2>3, <2>5, <2>6
  <1>12. (ms1 * UsPerMs + SubUs) % TickMod = v % TickMod
    <2> DEFINE e == runs1 \div TickMod
    <2>1. ms1 = runs1 % TickMod BY DEF SnapInv
    <2>2. e \in Int /\ ms1 \in Nat /\ runs1 = TickMod * e + ms1
      BY <1>1, <2>1, DivMod DEF TypeOK
    <2> HIDE DEF e
    <2>3. v = (ms1 * U + s) + TickMod * (e * U)
      BY <1>1, <1>2, <1>4, <1>6, <2>2
    <2>4. ms1 * U + s \in Int /\ e * U \in Int BY <1>1, <1>4, <2>2
    <2>5. ((ms1 * U + s) + TickMod * (e * U)) % TickMod = (ms1 * U + s) % TickMod
      BY <1>1, <2>4, ModShift, Zenon
    <2>6. QED BY <2>3, <2>5, Zenon DEF U, s
  <1> DEFINE p == Periods(b)
  <1>13. p \in Nat BY <1>1, PeriodsType
  <1>14. C * p <= b + phase /\ at + phase < C * p + C
    <2> DEFINE y == b + phase
               z == at + phase
    <2>1. y \in Int /\ z \in Int BY <1>1
    <2>2. y = C * p + (y % C) /\ y % C \in 0 .. C - 1
      BY <1>1, <2>1, DivMod DEF Periods, C
    <2>3. z = C * p + (z % C) /\ z % C \in 0 .. C - 1
      BY <1>1, <1>2, <2>1, DivMod DEF Periods, C
    <2>4. C * p \in Int BY <1>1, <1>13
    <2> HIDE DEF p, y, z
    <2>5. C * p <= y /\ z < C * p + C BY <1>1, <2>1, <2>2, <2>3, <2>4
    <2>6. QED BY <2>5 DEF y, z
  <1> HIDE DEF p
  <1>15. v * C <= Elapsed * U
    <2>1. runs <= p BY DEF TickInv, p
    <2>2. runs * C <= p * C BY <1>1, <1>13, <2>1, Times
    <2>3. p * C = C * p /\ runs * C \in Int /\ C * p \in Int BY <1>1, <1>13
    <2>4. x <= Elapsed /\ Elapsed \in Int BY <1>1, <1>14, <2>2, <2>3 DEF Elapsed, d
    <2>5. x * U <= Elapsed * U BY <1>1, <1>9, <2>4, Times
    <2>6. Elapsed * U \in Int BY <1>1, <2>4
    <2> HIDE DEF x
    <2>7. QED BY <1>9, <1>10, <2>5, <2>6
  <1>16. ASSUME ~lostTick PROVE (Elapsed - C) * U < (v + 1) * C
    <2>1. runs = p BY <1>16 DEF TickInv, p
    <2>2. runs * C = C * p /\ runs * C \in Int BY <1>1, <2>1
    <2>3. Elapsed - C <= runs * C /\ Elapsed - C \in Int BY <1>1, <1>14, <2>2 DEF Elapsed
    <2>4. (Elapsed - C) * U <= (runs * C) * U BY <1>1, <2>2, <2>3, Times
    <2>5. (Elapsed - C) * U \in Int BY <1>1, <2>3
    <2>6. (s + 1) * C > 0 BY <1>1, <1>4
    <2>7. QED BY <1>7, <1>9, <2>4, <2>5, <2>6
  <1>17. QED BY <1>6, <1>10, <1>11, <1>12, <1>15, <1>16 DEF C, U, d

-----------------------------------------------------------------------------
(* The theorems *)

ClockInv == TypeOK /\ TimeInv /\ Accurate /\ Monotonic

\* A step that is not the last of a call leaves the results alone, and what the last
\* call has read while no other has begun.
LEMMA KeepResults ==
  ASSUME Accurate, Monotonic, UNCHANGED <<value, prev, phase>>, lostTick => lostTick',
         pc' = "idle" => pc = "idle" /\ UNCHANGED locals
  PROVE  Accurate' /\ Monotonic'
  <1>1. Monotonic' BY DEF Monotonic
  <1>2. ASSUME pc' = "idle", value' # -1 PROVE Accurate'
    <2>1. UNCHANGED <<ms1, base1, cyc, at>> /\ pc = "idle" BY <1>2 DEF locals
    <2>2. mp_hal_ticks_us' = mp_hal_ticks_us /\ Elapsed' = Elapsed
      BY <2>1 DEF mp_hal_ticks_us, SubUs, SubCycles, Elapsed
    <2>3. QED BY <1>2, <2>1, <2>2 DEF Accurate
  <1>3. QED BY <1>1, <1>2 DEF Accurate

LEMMA ClockStep ==
  ASSUME ClockInv, [Next]_vars
  PROVE  ClockInv'
  <1>1. TypeOK /\ TimeInv /\ Accurate /\ Monotonic BY DEF ClockInv
  <1>2. TypeOK' BY <1>1, TypeStep
  <1>3. lostTick \in BOOLEAN BY <1>1 DEF TypeOK
  <1>4. ASSUME UNCHANGED <<now, phase, due, lostTick, counters, pc, locals, value>>
        PROVE  TimeInv'
    BY <1>1, <1>4 DEF TimeInv, TickInv, SnapInv, ValueInv, Periods, counters, locals
  <1>5. CASE Cycle
    <2>1. TimeInv' BY <1>1, <1>5, CycleStep
    <2>2. Accurate' /\ Monotonic' BY <1>1, <1>3, <1>5, KeepResults DEF Cycle, results
    <2>3. QED BY <1>2, <2>1, <2>2 DEF ClockInv
  <1>6. CASE OtherHandler
    <2>1. TimeInv' BY <1>4, <1>6 DEF OtherHandler, results
    <2>2. Accurate' /\ Monotonic' BY <1>1, <1>6, KeepResults DEF OtherHandler, results
    <2>3. QED BY <1>2, <2>1, <2>2 DEF ClockInv
  <1>7. CASE SysTick_Handler
    <2>1. TimeInv' BY <1>1, <1>7, HandlerStep
    <2>2. Accurate' /\ Monotonic' BY <1>1, <1>7, KeepResults DEF SysTick_Handler, results
    <2>3. QED BY <1>2, <2>1, <2>2 DEF ClockInv
  <1>8. CASE ReadMs \/ ReadBase \/ ReadCyc \/ ReadBase2
    <2>1. TimeInv' BY <1>1, <1>8, ReadStep
    <2>2. pc' # "idle" /\ UNCHANGED <<value, prev, phase, lostTick>>
      BY <1>8 DEF ReadMs, ReadBase, ReadCyc, ReadBase2, results, clock
    <2>3. Accurate' /\ Monotonic' BY <1>1, <2>2, KeepResults
    <2>4. QED BY <1>2, <2>1, <2>3 DEF ClockInv
  <1>9. CASE ReadMs2
    <2>1. PICK b \in 0 .. now, m \in 0 .. now : TickInv(b) /\ SnapInv(b, m) /\ ValueInv(b, m)
      BY <1>1 DEF TimeInv
    <2>2. UNCHANGED <<clock, counters, locals>> /\ pc = "ms2"
      BY <1>9 DEF ReadMs2, Return, Again
    <2>3. UNCHANGED <<now, phase, due, lostTick, g_systick_count, g_dwt_cyccnt_ms_base, runs, at>>
      BY <2>2 DEF clock, counters, locals
    <2>4. TickInv(b)' BY <2>1, <2>3 DEF TickInv, Periods
    <2>5. CASE Again
      <3>1. pc' = "again" /\ UNCHANGED <<value, prev>> BY <2>5 DEF Again, results
      <3>2. SnapInv(b, m)' BY <3>1 DEF SnapInv
      <3>3. ValueInv(b, m)' BY <2>1, <2>3, <3>1 DEF ValueInv
      <3>4. TimeInv' BY <2>3, <2>4, <3>2, <3>3 DEF TimeInv
      <3>5. Accurate' /\ Monotonic' BY <1>1, <2>3, <3>1, KeepResults
      <3>6. QED BY <1>2, <3>4, <3>5 DEF ClockInv
    <2>6. CASE ms1 = g_systick_count /\ Return
      <3>1. pc' = "idle" /\ value' = runs1 * UsPerMs + SubUs /\ prev' = value
        BY <2>6 DEF Return
      <3>2. /\ value' \in Nat /\ value' >= value
            /\ value' * CyclesPerMs <= (runs * CyclesPerMs + (at - b)) * UsPerMs
            /\ (ms1 * UsPerMs + SubUs) % TickMod = value' % TickMod
            /\ value' * CyclesPerMs <= Elapsed * UsPerMs
            /\ ~lostTick => (Elapsed - CyclesPerMs) * UsPerMs < (value' + 1) * CyclesPerMs
        BY <1>1, <2>1, <2>2, <2>6, <3>1, ReturnSound
      <3>3. Monotonic' BY <1>1, <3>1, <3>2 DEF Monotonic, TypeOK
      <3>4. mp_hal_ticks_us' = (ms1 * UsPerMs + SubUs) % TickMod /\ Elapsed' = Elapsed
        BY <2>2, <2>3 DEF mp_hal_ticks_us, SubUs, SubCycles, Elapsed, locals
      <3>5. Accurate' BY <2>3, <3>2, <3>4 DEF Accurate
      <3>6. at - b \in m .. CyclesPerMs - 1 BY <1>1, <2>1, <2>2, <2>6, SnapshotSound
      <3>7. at \in Nat /\ at <= now /\ b \in Nat /\ m \in Nat /\ now \in Nat
            /\ CyclesPerMs \in Nat
        <4>1. runs = runs1 BY <1>1, <2>1, <2>2, <2>6, SnapshotSound
        <4>2. at \in b + m .. now BY <2>1, <2>2, <4>1 DEF SnapInv
        <4>3. QED BY <1>1, <4>2, CyclesAssumption, MaxTimeAssumption DEF TypeOK
      <3>8. at - b \in 0 .. now' /\ at - b <= CyclesPerMs /\ b + (at - b) <= now'
        BY <2>3, <3>6, <3>7
      <3>9. ValueInv(b, at - b)' BY <2>3, <3>2, <3>8 DEF ValueInv
      <3>10. SnapInv(b, at - b)' BY <3>1 DEF SnapInv
      <3>11. at' - b = at - b BY <2>3
      <3>12. \E k \in 0 .. now' : SnapInv(b, k)' /\ ValueInv(b, k)'
        BY <2>3, <3>8, <3>9, <3>10
      <3>13. TimeInv' BY <2>3, <2>4, <3>12 DEF TimeInv
      <3>14. QED BY <1>2, <3>3, <3>5, <3>13 DEF ClockInv
    <2>7. QED BY <1>9, <2>5, <2>6 DEF ReadMs2
  <1>10. CASE UNCHANGED vars
    <2>1. UNCHANGED <<now, phase, due, lostTick, counters, pc, locals, value, prev>>
      BY <1>10 DEF vars, clock, results
    <2>2. TimeInv' BY <1>4, <2>1
    <2>3. Accurate' /\ Monotonic' BY <1>1, <2>1, KeepResults
    <2>4. QED BY <1>2, <2>2, <2>3 DEF ClockInv
  <1>11. QED BY <1>5, <1>6, <1>7, <1>8, <1>9, <1>10 DEF Next, TicksUs

LEMMA ClockInit == Init => TimeInv /\ Accurate /\ Monotonic
  <1>1. SUFFICES ASSUME Init PROVE TimeInv /\ Accurate /\ Monotonic
    OBVIOUS
  <1>2. Accurate /\ Monotonic BY <1>1 DEF Init, Accurate, Monotonic
  <1>3. Periods(0) = 0 /\ Periods(now) = 0
    <2>1. phase \in 0 .. CyclesPerMs - 1 /\ now = 0 BY <1>1 DEF Init
    <2>2. phase \in Int /\ phase = CyclesPerMs * 0 + phase /\ 0 + phase = phase
      BY <2>1, CyclesAssumption
    <2>3. phase \div CyclesPerMs = 0 BY <2>1, <2>2, CyclesAssumption, DivUnique
    <2>4. QED BY <2>1, <2>2, <2>3 DEF Periods
  <1>4. 0 % TickMod = 0 /\ 0 % CycMod = 0 BY ModAssumption, CyclesAssumption
  <1>5. TickInv(0) BY <1>1, <1>3, <1>4 DEF Init, TickInv
  <1>6. SnapInv(0, 0) BY <1>1 DEF Init, SnapInv
  <1>7. ValueInv(0, 0)
    <2>1. value = -1 /\ runs = 0 /\ now = 0 BY <1>1 DEF Init
    <2>2. value * CyclesPerMs <= 0 BY <2>1, CyclesAssumption
    <2>3. (runs * CyclesPerMs + 0) * UsPerMs = 0 BY <2>1, CyclesAssumption
    <2>4. 0 <= CyclesPerMs /\ 0 + 0 <= now BY <2>1, CyclesAssumption
    <2>5. QED BY <2>2, <2>3, <2>4 DEF ValueInv
  <1>8. 0 \in 0 .. now BY <1>1 DEF Init
  <1>9. QED BY <1>2, <1>5, <1>6, <1>7, <1>8 DEF TimeInv

LEMMA ClockInvariant == Spec => []ClockInv
  <1>1. Init /\ TypeOK => ClockInv BY ClockInit DEF ClockInv
  <1>2. ClockInv /\ [Next]_vars => ClockInv' BY ClockStep
  <1>3. QED BY <1>1, <1>2, TicksTypeCorrect, PTL DEF Spec

\* Time never runs backwards, wherever SysTick and the handlers that delay it fall
\* between the five reads of mp_hal_ticks_us, also across the wrap of both counters.
THEOREM MonotonicCorrect == Spec => []Monotonic
  <1>1. ClockInv => Monotonic BY DEF ClockInv
  <1>2. QED BY <1>1, ClockInvariant, PTL

\* What mp_hal_ticks_us returns is the time modulo the width of a time value, never
\* ahead of the cycles that have passed and, unless a SysTick period was lost, less
\* than a millisecond and a rounding behind them.
THEOREM AccurateCorrect == Spec => []Accurate
  <1>1. ClockInv => Accurate BY DEF ClockInv
  <1>2. QED BY <1>1, ClockInvariant, PTL

\* ticks_diff of two values less than half a period apart.
LEMMA DiffCases ==
  ASSUME NEW v \in Nat, NEW p \in Nat, p <= v, v - p < TickMod \div 2
  PROVE  LET diff == mod_utime_ticks_diff(v % TickMod, p % TickMod) IN
         /\ diff = OverflowError <=>
              {v % TickMod, p % TickMod} \cap (TickMod \div 2 .. TickMod - 1) # {}
         /\ diff \in {v - p, OverflowError}
  <1> DEFINE n == TickMod
             h == TickMod \div 2
             x == v % TickMod
             y == p % TickMod
  <1>1. n \in Nat \ {0} /\ n > 1 BY ModAssumption
  <1>2. h \in Nat /\ h > 0 /\ h < n BY ModAssumption
  <1>3. x \in 0 .. n - 1 /\ y \in 0 .. n - 1 BY <1>1, DivMod
  <1>4. (x - y) % n = v - p
    <2>1. v \in Int /\ p \in Int BY <1>1
    <2>2. (x - y) % n = (v - p) % n BY <1>1, <2>1, ModDiff, Zenon
    <2>3. v - p \in 0 .. n - 1 BY <1>2, ModAssumption
    <2>4. (v - p) % n = v - p BY <1>1, <2>3, ModSmall
    <2>5. QED BY <2>2, <2>4, Zenon
  <1> HIDE DEF x, y, h
  <1>5. /\ mp_obj_get_int(x) = IF x < h THEN x ELSE OverflowError
        /\ mp_obj_get_int(y) = IF y < h THEN y ELSE OverflowError
    BY DEF mp_obj_get_int, h
  <1>6. OverflowError < 0 /\ OverflowError \in Int BY <1>1 DEF OverflowError
  <1>7. {x, y} \cap (h .. n - 1) # {} <=> ~(x < h /\ y < h)
    <2>1. (x \in h .. n - 1 <=> ~(x < h)) /\ (y \in h .. n - 1 <=> ~(y < h)) BY <1>1, <1>2, <1>3
    <2> DEFINE S == h .. n - 1
    <2>2. {x, y} \cap S # {} <=> x \in S \/ y \in S
      <3> HIDE DEF S
      <3>1. QED OBVIOUS
    <2>3. QED BY <2>1, <2>2, Zenon
  <1>8. CASE x < h /\ y < h
    <2>1. mp_obj_get_int(x) = x /\ mp_obj_get_int(y) = y BY <1>5, <1>8
    <2>2. OverflowError \notin {mp_obj_get_int(x), mp_obj_get_int(y)} BY <1>3, <1>6, <2>1
    <2>3. mod_utime_ticks_diff(x, y) = Signed((x - y) % n)
      BY <2>1, <2>2, Zenon DEF mod_utime_ticks_diff
    <2>4. v - p < h BY DEF h
    <2>5. Signed(v - p) = v - p BY <2>4 DEF Signed, h
    <2>6. mod_utime_ticks_diff(x, y) = v - p BY <1>4, <2>3, <2>5, Zenon
    <2>7. v - p # OverflowError BY <1>6
    <2>8. QED BY <1>7, <1>8, <2>6, <2>7, Zenon DEF x, y, h
  <1>9. CASE ~(x < h /\ y < h)
    <2>1. OverflowError \in {mp_obj_get_int(x), mp_obj_get_int(y)} BY <1>5, <1>9
    <2>2. mod_utime_ticks_diff(x, y) = OverflowError BY <2>1 DEF mod_utime_ticks_diff
    <2>3. QED BY <1>7, <1>9, <2>2, Zenon DEF x, y, h
  <1>10. QED BY <1>8, <1>9

\* What mod_utime_ticks_diff really does with two values less than half a period apart:
\* it returns the time between them or raises OverflowError, which it does exactly when
\* one of them is in the upper half of the range.  One of them is, next to a wrap-around.
DiffExactOrRaises ==
  prev # -1 /\ value - prev < TickMod \div 2 =>
    LET end == value % TickMod
        start == prev % TickMod
        diff == mod_utime_ticks_diff(end, start)
    IN  /\ diff = OverflowError <=> {end, start} \cap (TickMod \div 2 .. TickMod - 1) # {}
        /\ diff \in {value - prev, OverflowError}

\* ticks_diff of two successive time values less than half a period apart is the time
\* between them, or OverflowError, which it raises exactly when one of them is in the
\* upper half of the range.
THEOREM DiffCorrect == Spec => []DiffExactOrRaises
  <1>1. ClockInv => DiffExactOrRaises
    <2>1. SUFFICES ASSUME ClockInv, prev # -1, value - prev < TickMod \div 2
                   PROVE  DiffExactOrRaises
      BY DEF DiffExactOrRaises
    <2>2. prev \in Nat /\ value \in Nat /\ prev <= value
      <3>1. prev \in Nat \cup {-1} /\ value \in Nat \cup {-1} BY <2>1 DEF ClockInv, TypeOK
      <3>2. prev <= value BY <2>1 DEF ClockInv, Monotonic
      <3>3. QED BY <2>1, <3>1, <3>2
    <2>3. QED BY <2>1, <2>2, DiffCases DEF DiffExactOrRaises
  <1>2. QED BY <1>1, ClockInvariant, PTL

=============================================================================
