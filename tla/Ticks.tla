--------------------------------- MODULE Ticks ---------------------------------
(***************************************************************************)
(* The time base: SysTick_Handler of hal_entry.c, mp_hal_ticks_us of       *)
(* mp_hal_ra8d1.c and ticks_diff of modutime_mphal.c.                      *)
(*                                                                         *)
(* Time is counted in processor cycles.  SysTick has the lowest priority:  *)
(* another handler (`busy') delays it, and a second period that ends       *)
(* before the handler ran is lost, because the request is one flag.  The   *)
(* foreground runs only when no handler does, so that it never sees a due  *)
(* SysTick.  Counters and time values wrap at TickMod, the cycle counter   *)
(* at CycMod; both are 2^32 in the firmware.                               *)
(***************************************************************************)
EXTENDS Integers

CONSTANTS CyclesPerMs,   \* s_cycles_per_ms
          UsPerMs,       \* 1000
          CycMod,        \* values of DWT->CYCCNT
          TickMod,       \* values of g_systick_count and of a time value
          MaxTime        \* bound: cycles

ASSUME CyclesAssumption == CyclesPerMs \in Nat \ {0} /\ UsPerMs \in Nat \ {0}
ASSUME ModAssumption == CycMod \in Nat /\ CycMod >= 2 * CyclesPerMs /\ TickMod \in Nat \ {0, 1}
ASSUME MaxTimeAssumption == MaxTime \in Nat

VARIABLES
  now,                    \* cycles since mp_hal_time_init
  phase,                  \* cycles from SysTick_Config to mp_hal_time_init
  due, busy,              \* SysTick is requested; another handler runs
  g_systick_count, g_dwt_cyccnt_ms_base,
  pc, ms1, base1, cyc, base2,   \* mp_hal_ticks_us
  runs,                   \* history: how often SysTick_Handler ran
  lostTick,               \* history: a period was lost
  runs1, at,              \* history: runs when ms1 was read, now when cyc was
  value, prev             \* history: what the last two calls returned, before
                          \* the reduction modulo TickMod; -1 before them

clock == <<now, phase, due, busy, lostTick>>
counters == <<g_systick_count, g_dwt_cyccnt_ms_base, runs>>
locals == <<ms1, base1, cyc, base2, runs1, at>>
results == <<value, prev>>
vars == <<clock, counters, pc, locals, results>>

\* After mp_hal_time_init, which starts the cycle counter at 0.
Init ==
  /\ now = 0
  /\ phase \in 0 .. CyclesPerMs - 1
  /\ due = FALSE
  /\ busy = FALSE
  /\ lostTick = FALSE
  /\ g_systick_count = 0
  /\ g_dwt_cyccnt_ms_base = 0
  /\ runs = 0
  /\ pc = "idle"
  /\ ms1 = 0
  /\ base1 = 0
  /\ cyc = 0
  /\ base2 = 0
  /\ runs1 = 0
  /\ at = 0
  /\ value = -1
  /\ prev = -1

CYCCNT == now % CycMod

-----------------------------------------------------------------------------
(* Time and interrupts *)

\* The five reads of a snapshot take less than a whole period of the counter of
\* milliseconds, which is 49 days in the firmware.
SnapshotIsShort == pc \in {"idle", "again"} \/ runs - runs1 < TickMod - 1

\* A cycle passes.  While SysTick is due and nothing delays it, its handler runs
\* before anything else.
Cycle ==
  /\ now < MaxTime
  /\ SnapshotIsShort
  /\ due => busy
  /\ now' = now + 1
  /\ LET ends == (now' + phase) % CyclesPerMs = 0 IN
       /\ due' = (due \/ ends)
       /\ lostTick' = (lostTick \/ (due /\ ends))
  /\ UNCHANGED <<phase, busy, counters, pc, locals, results>>

OtherHandler ==
  /\ busy' = ~busy
  /\ UNCHANGED <<now, phase, due, lostTick, counters, pc, locals, results>>

\* Mutant: the base is not stored.
SysTickKeepsBase ==
  /\ due /\ ~busy
  /\ due' = FALSE
  /\ g_systick_count' = (g_systick_count + 1) % TickMod
  /\ runs' = runs + 1
  /\ UNCHANGED <<now, phase, busy, lostTick, g_dwt_cyccnt_ms_base, pc, locals, results>>

SysTick_Handler ==
  /\ due /\ ~busy
  /\ due' = FALSE
  /\ g_systick_count' = (g_systick_count + 1) % TickMod
  /\ g_dwt_cyccnt_ms_base' = CYCCNT
  /\ runs' = runs + 1
  /\ UNCHANGED <<now, phase, busy, lostTick, pc, locals, results>>

-----------------------------------------------------------------------------
(* mp_hal_ticks_us *)

Foreground == ~due /\ ~busy

ReadMs ==
  /\ Foreground
  /\ pc \in {"idle", "again"}
  /\ pc' = "base1"
  /\ ms1' = g_systick_count
  /\ runs1' = runs
  /\ UNCHANGED <<clock, counters, base1, cyc, base2, at, results>>

ReadBase ==
  /\ Foreground
  /\ pc = "base1"
  /\ pc' = "cyc"
  /\ base1' = g_dwt_cyccnt_ms_base
  /\ UNCHANGED <<clock, counters, ms1, cyc, base2, runs1, at, results>>

ReadCyc ==
  /\ Foreground
  /\ pc = "cyc"
  /\ pc' = "base2"
  /\ cyc' = CYCCNT
  /\ at' = now
  /\ UNCHANGED <<clock, counters, ms1, base1, base2, runs1, results>>

ReadBase2 ==
  /\ Foreground
  /\ pc = "base2"
  /\ pc' = "ms2"
  /\ base2' = g_dwt_cyccnt_ms_base
  /\ UNCHANGED <<clock, counters, ms1, base1, cyc, runs1, at, results>>

\* Mutant: the subtraction does not wrap with the cycle counter.
SubCyclesNoWrap == IF cyc >= base1 THEN cyc - base1 ELSE 0

\* Microseconds since the base; more than a millisecond is folded.
SubCycles == (cyc - base1) % CycMod
SubUs == ((SubCycles % CyclesPerMs) * UsPerMs) \div CyclesPerMs

Return ==
  /\ pc' = "idle"
  /\ value' = runs1 * UsPerMs + SubUs
  /\ prev' = value
  /\ UNCHANGED <<clock, counters, locals>>

Again ==
  /\ pc' = "again"
  /\ UNCHANGED <<clock, counters, locals, results>>

\* Mutant: the snapshot is taken as it comes.
ReadMs2Unchecked ==
  /\ Foreground
  /\ pc = "ms2"
  /\ Return

\* The snapshot is taken again unless count and base were the same before and
\* after the cycle counter was read.
ReadMs2 ==
  /\ Foreground
  /\ pc = "ms2"
  /\ IF ms1 = g_systick_count /\ base1 = base2 THEN Return ELSE Again

\* What the call returns: 32 bits.
mp_hal_ticks_us == (ms1 * UsPerMs + SubUs) % TickMod

-----------------------------------------------------------------------------
(* ticks_diff *)

\* Raised, not returned: no difference has this value.
OverflowError == -TickMod

\* mp_obj_get_int of a time value, which is a non-negative Python int: a machine
\* word is signed.
mp_obj_get_int(t) == IF t < TickMod \div 2 THEN t ELSE OverflowError

\* (mp_int_t)(end - start)
Signed(t) == IF t < TickMod \div 2 THEN t ELSE t - TickMod

mod_utime_ticks_diff(end, start) ==
  IF OverflowError \in {mp_obj_get_int(end), mp_obj_get_int(start)}
  THEN OverflowError
  ELSE Signed((mp_obj_get_int(end) - mp_obj_get_int(start)) % TickMod)

-----------------------------------------------------------------------------

TicksUs == ReadMs \/ ReadBase \/ ReadCyc \/ ReadBase2 \/ ReadMs2

Next == Cycle \/ OtherHandler \/ SysTick_Handler \/ TicksUs

Spec == Init /\ [][Next]_vars

-----------------------------------------------------------------------------
(* Properties *)

\* Every variable has its type.
TypeOK ==
  /\ now \in 0 .. MaxTime /\ at \in 0 .. MaxTime
  /\ phase \in 0 .. CyclesPerMs - 1
  /\ due \in BOOLEAN /\ busy \in BOOLEAN /\ lostTick \in BOOLEAN
  /\ g_systick_count \in 0 .. TickMod - 1 /\ ms1 \in 0 .. TickMod - 1
  /\ g_dwt_cyccnt_ms_base \in 0 .. CycMod - 1
  /\ base1 \in 0 .. CycMod - 1 /\ base2 \in 0 .. CycMod - 1 /\ cyc \in 0 .. CycMod - 1
  /\ pc \in {"idle", "again", "base1", "cyc", "base2", "ms2"}
  /\ runs \in Nat /\ runs1 \in Nat
  /\ value \in Nat \cup {-1} /\ prev \in Nat \cup {-1}

\* Time never runs backwards, however SysTick and the handlers that delay it fall
\* between the five reads ("dense samples never step back").
Monotonic == prev <= value

\* The value a call returns is, modulo 2^32 and also after the counters have
\* wrapped, never ahead of the cycles that have passed, and it is less than a
\* millisecond and a rounding behind them unless a SysTick period was lost.
Elapsed == at + phase
Accurate ==
  pc = "idle" /\ value # -1 =>
    /\ mp_hal_ticks_us = value % TickMod
    /\ value * CyclesPerMs <= Elapsed * UsPerMs
    /\ ~lostTick => (Elapsed - CyclesPerMs) * UsPerMs < (value + 1) * CyclesPerMs

\* ticks_diff gives the time between two values of the clock also across its
\* wrap-around: the later one has the smaller value, and they are less than half a
\* period apart.
DiffAcrossWrap ==
  LET end == value % TickMod
      start == prev % TickMod
  IN  prev # -1 /\ value - prev < TickMod \div 2 /\ end < start =>
        mod_utime_ticks_diff(end, start) = value - prev

=============================================================================
