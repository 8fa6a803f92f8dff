------------------------------ MODULE SchedProofs ------------------------------
(***************************************************************************)
(* Proofs about Sched, for every depth MICROPY_SCHEDULER_DEPTH may have    *)
(* and any number of calls and soft resets.  LockInv says which positions  *)
(* of the foreground hold the scheduler's lock; it makes the types         *)
(* inductive (++sched_state leaves the range otherwise) and holds whatever *)
(* the handlers do.  StrandInv and QueueInv hold as long as no handler ran *)
(* inside an atomic section; QueueInv gives the order of the calls, and    *)
(* that the circular queue implements ByteFifo.                            *)
(***************************************************************************)
EXTENDS Sched, SequenceTheorems, TLAPS

USE DEF IDLE, PENDING, LOCKED, NoFunc

\* IDX_MASK wraps at the end of the queue.
LEMMA Mask ==
  ASSUME NEW i \in 0 .. 2 * Depth - 1
  PROVE  /\ IDX_MASK(i) \in 0 .. Depth - 1
         /\ IDX_MASK(i) = IF i < Depth THEN i ELSE i - Depth
  BY DepthAssumption DEF IDX_MASK

-----------------------------------------------------------------------------
(* The lock *)

\* Positions inside mp_sched_run_pending with the scheduler locked, and inside
\* micropython.schedule.
LockedPc == {"rp_test", "rp_item", "rp_idx", "rp_len", "rp_dec", "call", "in_call", "ul_inc"}
SchedulePc == {"s_full", "s_state", "s_len", "s_inc", "s_put"}

\* The foreground holds the lock, also while its callback schedules.
Holds == pc \in LockedPc \/ (pc \in SchedulePc /\ sback = "in_call")

\* The scheduler is locked exactly where the foreground holds the lock.
LockInv ==
  /\ Holds => sched_state = LOCKED
  /\ ~Holds => sched_state \in {IDLE, PENDING}

\* The initial state is well typed and unlocked.
LEMMA LockInit == Init => TypeOK /\ LockInv
  <1> SUFFICES ASSUME Init PROVE TypeOK /\ LockInv
    OBVIOUS
  <1>1. 0 \in 0 .. Depth - 1 /\ 0 \in 0 .. MaxCalls /\ 0 \in 0 .. MaxResets
    BY DepthAssumption, BoundsAssumption
  <1>2. accepted \in Seq(Func \cup {NoFunc}) /\ ran \in Seq(Func \cup {NoFunc})
    BY DEF Init
  <1>3. pc = "repl" /\ sched_state = IDLE BY DEF Init
  <1>4. LockInv BY <1>3 DEF LockInv, Holds, LockedPc, SchedulePc
  <1>5. sched_queue \in [0 .. Depth - 1 -> Func \cup {NoFunc}] BY DEF Init
  <1>6. /\ sched_idx = 0 /\ sched_len = 0 /\ tmp = 0 /\ func = 0 /\ calls = 0 /\ resets = 0
        /\ back = "repl" /\ sback = "vm" /\ torn \in BOOLEAN
    BY DEF Init
  <1>7. TypeOK BY <1>1, <1>2, <1>3, <1>5, <1>6 DEF TypeOK, AtomicPc
  <1>8. QED BY <1>4, <1>7

\* mp_sched_schedule in a handler keeps types and lock.
LEMMA LockIrq == TypeOK /\ LockInv /\ external_irq_callback => TypeOK' /\ LockInv'
  <1> SUFFICES ASSUME TypeOK, LockInv, external_irq_callback PROVE TypeOK' /\ LockInv'
    OBVIOUS
  <1>1. calls' \in 0 .. MaxCalls /\ calls' \in Func
    BY BoundsAssumption DEF TypeOK, external_irq_callback, Func
  <1>2. torn' \in BOOLEAN
    BY DEF external_irq_callback
  <1>3. /\ sched_state' \in {IDLE, PENDING, LOCKED}
        /\ sched_queue' \in [0 .. Depth - 1 -> Func \cup {NoFunc}]
        /\ sched_idx' = sched_idx
        /\ sched_len' \in 0 .. 255
        /\ accepted' \in Seq(Func \cup {NoFunc})
    <2>1. CASE mp_sched_full
      BY <2>1 DEF TypeOK, external_irq_callback, mp_sched_schedule, queueVars
    <2>2. CASE ~mp_sched_full
      <3>1. (sched_len + 1) % 256 \in 0 .. 255 BY DEF TypeOK
      <3>2. Append(accepted, calls') \in Seq(Func \cup {NoFunc})
        BY <1>1, AppendProperties DEF TypeOK
      <3>3. QED
        BY <1>1, <2>2, <3>1, <3>2, ZenonT(60)
           DEF TypeOK, external_irq_callback, mp_sched_schedule
    <2>3. QED BY <2>1, <2>2
  <1>4. TypeOK' BY <1>1, <1>2, <1>3 DEF TypeOK, external_irq_callback
  <1>5. (sched_state = LOCKED => sched_state' = LOCKED)
        /\ (sched_state \in {IDLE, PENDING} => sched_state' \in {IDLE, PENDING})
    BY DEF TypeOK, external_irq_callback, mp_sched_schedule
  <1>6. LockInv' BY <1>5 DEF LockInv, Holds, external_irq_callback
  <1>7. QED BY <1>4, <1>6

\* Every step keeps types and lock.
LEMMA LockNext == TypeOK /\ LockInv /\ [Next]_vars => TypeOK' /\ LockInv'
  <1> SUFFICES ASSUME TypeOK, LockInv, [Next]_vars PROVE TypeOK' /\ LockInv'
    OBVIOUS
  <1>1. CASE external_irq_callback BY <1>1, LockIrq
  <1> USE DEF TypeOK, LockInv, Holds, LockedPc, SchedulePc, AtomicPc, Goto, queueVars, history
  <1>2. CASE UNCHANGED vars BY <1>2 DEF vars
  <1>3. CASE ScheduleCall
    <2>1. calls' \in 0 .. MaxCalls /\ calls' \in Func
      BY <1>3, BoundsAssumption DEF ScheduleCall, Func
    <2>2. QED BY <1>3, <2>1 DEF ScheduleCall
  <1>4. CASE ScheduleStep
    <2>1. CASE ScheduleFull BY <2>1 DEF ScheduleFull
    <2>2. CASE ScheduleNotFull BY <2>2 DEF ScheduleNotFull
    <2>3. CASE ScheduleState BY <2>3 DEF ScheduleState
    <2>4. CASE ScheduleReload BY <2>4 DEF ScheduleReload
    <2>5. CASE ScheduleStoreLen
      <3>1. (tmp + 1) % 256 \in 0 .. 255
        OBVIOUS
      <3>2. accepted' \in Seq(Func \cup {NoFunc})
        BY <2>5, AppendProperties DEF ScheduleStoreLen
      <3>3. QED BY <2>5, <3>1, <3>2 DEF ScheduleStoreLen
    <2>6. CASE SchedulePut BY <2>6 DEF SchedulePut
    <2>7. QED BY <1>4, <2>1, <2>2, <2>5, <2>6, <2>3, <2>4 DEF ScheduleStep
  <1>5. CASE RunPending
    <2>1. CASE Poll BY <2>1 DEF Poll
    <2>2. CASE RunPendingLock BY <2>2 DEF RunPendingLock
    <2>3. CASE RunPendingTest BY <2>3 DEF RunPendingTest
    <2>4. CASE RunPendingItem BY <2>4 DEF RunPendingItem
    <2>5. CASE RunPendingReload BY <2>5 DEF RunPendingReload
    <2>6. CASE RunPendingIdx
      <3>1. IDX_MASK(sched_idx + 1) \in 0 .. Depth - 1
        BY DepthAssumption DEF IDX_MASK
      <3>2. QED BY <2>6, <3>1 DEF RunPendingIdx
    <2>7. CASE RunPendingLen
      <3>1. (tmp - 1) % 256 \in 0 .. 255
        OBVIOUS
      <3>2. QED BY <2>7, <3>1 DEF RunPendingLen
    <2>8. CASE CallFunction
      <3>1. ran' \in Seq(Func \cup {NoFunc}) BY <2>8, AppendProperties DEF CallFunction
      <3>2. QED BY <2>8, <3>1 DEF CallFunction
    <2>9. CASE CallReturns BY <2>9 DEF CallReturns
    <2>10. CASE UnlockInc BY <2>10 DEF UnlockInc
    <2>11. CASE UnlockTest BY <2>11 DEF UnlockTest
    <2>12. CASE UnlockPending BY <2>12 DEF UnlockPending
    <2>13. CASE UnlockIdle BY <2>13 DEF UnlockIdle
    <2>14. QED
      BY <1>5, <2>1, <2>2, <2>3, <2>6, <2>7, <2>8, <2>9, <2>10, <2>4, <2>5, <2>11, <2>12, <2>13
         DEF RunPending
  <1>6. CASE LineDone BY <1>6 DEF LineDone
  <1>7. CASE LineEntered BY <1>7 DEF LineEntered
  <1>8. CASE SoftReset BY <1>8, BoundsAssumption DEF SoftReset
  <1>9. CASE ResetIdx BY <1>9, DepthAssumption DEF ResetIdx
  <1>10. CASE ResetLen BY <1>10 DEF ResetLen
  <1>11. QED BY <1>1, <1>2, <1>3, <1>4, <1>5, <1>6, <1>7, <1>8, <1>9, <1>10 DEF Next

\* Types and lock are invariants.
LEMMA LockAlways == Spec => [](TypeOK /\ LockInv)
  BY LockInit, LockNext, PTL DEF Spec

\* Every reachable state is well typed for every depth: sched_idx stays inside the
\* queue and sched_state between locked once and idle, torn sections or not.
THEOREM SchedTypeCorrect == Spec => []TypeOK
  BY LockAlways, PTL

\* For every depth a scheduled function runs with the scheduler locked from before
\* its call to after its return: no poll, no handler and no micropython.schedule in
\* it lets another scheduled function preempt it, not even with handlers inside the
\* atomic sections.
THEOREM PreemptCorrect == Spec => []NeverPreempted
  <1>1. LockInv => NeverPreempted BY DEF LockInv, Holds, LockedPc, NeverPreempted
  <1>2. QED BY <1>1, LockAlways, PTL

-----------------------------------------------------------------------------
(* Work is never stranded *)

\* As long as no handler ran inside an atomic section: where no one holds the lock a
\* queue with work in it is pending, except while mp_init clears the fields; the
\* slot micropython.schedule is about to fill is announced; and mp_sched_unlock
\* goes idle only over an empty queue.
StrandInv ==
  torn = FALSE =>
    /\ pc \in {"vm", "repl"} /\ sched_len > 0 => sched_state = PENDING
    /\ pc = "s_full" /\ sback = "vm" /\ sched_len > 0 => sched_state = PENDING
    /\ pc \in {"s_len", "s_inc", "s_put"} /\ sback = "vm" => sched_state = PENDING
    /\ pc = "ul_idle" => sched_len = 0

\* A handler outside the atomic sections leaves no work stranded.
LEMMA StrandIrq ==
  ASSUME TypeOK, LockInv, StrandInv, external_irq_callback
  PROVE  StrandInv'
  <1> SUFFICES ASSUME torn' = FALSE PROVE StrandInv'
    BY DEF StrandInv
  <1>1. torn = FALSE /\ pc \notin AtomicPc
    BY DEF external_irq_callback, TypeOK
  <1>2. /\ pc' = pc /\ sback' = sback
        /\ sched_state \in {IDLE, PENDING}
           => sched_state' = PENDING \/ UNCHANGED <<sched_state, sched_len>>
        /\ sched_state = PENDING => sched_state' = PENDING
    BY DEF external_irq_callback, mp_sched_schedule, queueVars
  <1>3. pc \in {"vm", "repl"} \/ (pc = "s_full" /\ sback = "vm") => sched_state \in {IDLE, PENDING}
    BY DEF LockInv, Holds, LockedPc, SchedulePc
  <1>4. pc \notin {"s_len", "s_inc", "s_put", "ul_idle"} BY <1>1 DEF AtomicPc
  <1>5. QED BY <1>1, <1>2, <1>3, <1>4 DEF StrandInv

\* No step leaves work stranded.
LEMMA StrandNext == TypeOK /\ LockInv /\ StrandInv /\ [Next]_vars => StrandInv'
  <1> SUFFICES ASSUME TypeOK, LockInv, StrandInv, [Next]_vars PROVE StrandInv'
    OBVIOUS
  <1>1. CASE external_irq_callback BY <1>1, StrandIrq
  <1> USE DEF StrandInv, Goto, queueVars, history
  <1>2. CASE UNCHANGED vars BY <1>2 DEF vars
  <1>3. CASE ScheduleCall BY <1>3 DEF ScheduleCall
  <1>4. CASE ScheduleStep
    <2> USE DEF TypeOK, LockInv, Holds, LockedPc, SchedulePc
    <2>1. CASE ScheduleFull BY <2>1 DEF ScheduleFull
    <2>2. CASE ScheduleNotFull BY <2>2 DEF ScheduleNotFull
    <2>3. CASE ScheduleState BY <2>3 DEF ScheduleState
    <2>4. CASE ScheduleReload BY <2>4 DEF ScheduleReload
    <2>5. CASE ScheduleStoreLen BY <2>5 DEF ScheduleStoreLen
    <2>6. CASE SchedulePut BY <2>6 DEF SchedulePut
    <2>7. QED BY <1>4, <2>1, <2>2, <2>3, <2>4, <2>5, <2>6 DEF ScheduleStep
  <1>5. CASE RunPending
    <2>1. CASE Poll BY <2>1 DEF Poll
    <2>2. CASE RunPendingLock BY <2>2 DEF RunPendingLock
    <2>3. CASE RunPendingTest BY <2>3 DEF RunPendingTest
    <2>4. CASE RunPendingItem BY <2>4 DEF RunPendingItem
    <2>5. CASE RunPendingIdx BY <2>5 DEF RunPendingIdx
    <2>6. CASE RunPendingReload BY <2>6 DEF RunPendingReload
    <2>7. CASE RunPendingLen BY <2>7 DEF RunPendingLen
    <2>8. CASE CallFunction BY <2>8 DEF CallFunction
    <2>9. CASE CallReturns BY <2>9 DEF CallReturns
    <2>10. CASE UnlockInc BY <2>10 DEF UnlockInc
    <2>11. CASE UnlockTest BY <2>11 DEF UnlockTest, TypeOK
    <2>12. CASE UnlockPending BY <2>12 DEF UnlockPending, TypeOK
    <2>13. CASE UnlockIdle BY <2>13 DEF UnlockIdle, TypeOK
    <2>14. QED
      BY <1>5, <2>1, <2>2, <2>3, <2>4, <2>5, <2>6, <2>7, <2>8, <2>9, <2>10, <2>11, <2>12, <2>13
         DEF RunPending
  <1>6. CASE LineDone BY <1>6 DEF LineDone
  <1>7. CASE LineEntered BY <1>7 DEF LineEntered
  <1>8. CASE SoftReset BY <1>8 DEF SoftReset
  <1>9. CASE ResetIdx BY <1>9 DEF ResetIdx
  <1>10. CASE ResetLen BY <1>10 DEF ResetLen
  <1>11. QED BY <1>1, <1>2, <1>3, <1>4, <1>5, <1>6, <1>7, <1>8, <1>9, <1>10 DEF Next

\* For every depth, as long as no handler runs inside an atomic section, Python code
\* and the prompt never see a queue with work in it that is not pending, so that
\* the next poll runs it.
THEOREM StrandCorrect == Spec => []NoStrandedWork
  <1>1. Init => StrandInv BY DEF Init, StrandInv
  <1>2. TypeOK /\ LockInv /\ StrandInv /\ [Next]_vars => StrandInv' BY StrandNext
  <1>3. TypeOK /\ StrandInv => NoStrandedWork BY DEF TypeOK, StrandInv, NoStrandedWork
  <1>4. QED BY <1>1, <1>2, <1>3, LockAlways, PTL DEF Spec

-----------------------------------------------------------------------------
(* The queue *)

\* A function taken out of the queue and not called yet; the functions still
\* queued (mp_sched_run_pending advances sched_idx before it counts down).
InHand == IF pc \in {"rp_len", "rp_dec", "call"} THEN 1 ELSE 0
Queued == IF pc \in {"rp_len", "rp_dec"} THEN sched_len - 1 ELSE sched_len

\* How far what was accepted has come, counted from the calls that have returned.
Done == Len(ran) + InHand

\* The registers hold what the fields hold.
RegInv ==
  /\ sched_len <= Depth
  /\ pc \in {"s_state", "s_len", "s_inc"} => sched_len < Depth /\ tmp = sched_len
  /\ pc = "s_put" => /\ sched_len > 0 /\ tmp = sched_len - 1
                     /\ func = accepted[Len(accepted)]
  /\ pc \in {"rp_item", "rp_idx", "rp_len", "rp_dec"} => sched_len > 0 /\ tmp = sched_len
  /\ pc = "rp_idx" => func = sched_queue[sched_idx]

\* What ran is the beginning of what was accepted; next comes the function in hand,
\* and then the queue, slot by slot, but for a slot SchedulePut has yet to write
\* and for a queue mp_init is about to forget.
FlowInv ==
  /\ Len(accepted) = Done + Queued
  /\ \A i \in 1 .. Len(ran) : ran[i] = accepted[i]
  /\ InHand = 1 => func = accepted[Done]
  /\ pc # "reset_len" =>
       \A i \in 0 .. Queued - 1 :
         \/ pc = "s_put" /\ i = Queued - 1
         \/ sched_queue[IDX_MASK(sched_idx + i)] = accepted[Done + i + 1]

\* Both hold as long as no handler ran inside an atomic section.
QueueInv == torn = FALSE => RegInv /\ FlowInv

\* The numbers FlowInv is about.
LEMMA FlowTypes ==
  ASSUME TypeOK, RegInv
  PROVE  /\ InHand \in {0, 1} /\ Queued \in 0 .. Depth /\ Done \in Nat
         /\ Len(ran) \in Nat /\ Len(accepted) \in Nat
         /\ sched_idx \in 0 .. Depth - 1 /\ Depth \in 1 .. 128
         /\ \A i \in 0 .. Depth : IDX_MASK(sched_idx + i) \in 0 .. Depth - 1
  <1>1. Len(ran) \in Nat /\ Len(accepted) \in Nat BY LenProperties DEF TypeOK
  <1>2. sched_idx \in 0 .. Depth - 1 /\ Depth \in 1 .. 128 BY DepthAssumption DEF TypeOK
  <1>3. InHand \in {0, 1} /\ Queued \in 0 .. Depth
    BY <1>2 DEF InHand, Queued, RegInv, TypeOK
  <1>4. Done \in Nat BY <1>1, <1>3 DEF Done
  <1>5. \A i \in 0 .. Depth : IDX_MASK(sched_idx + i) \in 0 .. Depth - 1
    <2> TAKE i \in 0 .. Depth
    <2>1. sched_idx + i \in 0 .. 2 * Depth - 1 BY <1>2
    <2>2. QED BY <2>1, Mask
  <1>6. QED BY <1>1, <1>2, <1>3, <1>4, <1>5

\* Two places of the queue less than Depth apart are different slots.
LEMMA SlotsDiffer ==
  ASSUME NEW k \in 0 .. Depth - 1, NEW i \in 0 .. Depth - 1, NEW j \in 0 .. Depth - 1, i # j
  PROVE  IDX_MASK(k + i) # IDX_MASK(k + j)
  <1>1. Depth \in 1 .. 128 BY DepthAssumption
  <1>2. ASSUME NEW x \in 0 .. 2 * Depth - 1, NEW y \in 0 .. 2 * Depth - 1,
               x # y, x < y + Depth, y < x + Depth
        PROVE  IDX_MASK(x) # IDX_MASK(y)
    <2>1. /\ IDX_MASK(x) = IF x < Depth THEN x ELSE x - Depth
          /\ IDX_MASK(y) = IF y < Depth THEN y ELSE y - Depth
      BY Mask
    <2>2. QED BY <1>1, <1>2, <2>1
  <1>3. /\ k + i \in 0 .. 2 * Depth - 1 /\ k + j \in 0 .. 2 * Depth - 1
        /\ k + i # k + j /\ k + i < k + j + Depth /\ k + j < k + i + Depth
    BY <1>1
  <1>4. QED BY <1>2, <1>3

\* A step that moves no function keeps their order.
LEMMA FlowQuiet ==
  ASSUME FlowInv, UNCHANGED <<sched_queue, sched_idx, accepted, ran>>,
         InHand' = InHand, Queued' = Queued, InHand = 1 => func' = func,
         pc # "s_put", pc # "reset_len"
  PROVE  FlowInv'
  BY DEF FlowInv, Done

\* mp_sched_schedule puts an accepted function behind the others.
LEMMA FlowIrq ==
  ASSUME TypeOK, RegInv, FlowInv, external_irq_callback, pc \notin AtomicPc
  PROVE  RegInv' /\ FlowInv'
  <1> DEFINE f == calls'
  <1>1. pc' = pc /\ ran' = ran /\ func' = func BY DEF external_irq_callback
  <1>2. CASE mp_sched_full
    <2>1. UNCHANGED <<sched_queue, sched_idx, sched_len, accepted, tmp>>
      BY <1>2 DEF external_irq_callback, mp_sched_schedule, queueVars
    <2>2. QED BY <1>1, <2>1 DEF RegInv, FlowInv, Done, InHand, Queued
  <1>3. CASE ~mp_sched_full
    <2>1. /\ sched_queue' = [sched_queue EXCEPT ![IDX_MASK(sched_idx + sched_len)] = f]
          /\ accepted' = Append(accepted, f)
          /\ sched_idx' = sched_idx
          /\ sched_len' = (sched_len + 1) % 256
      BY <1>3 DEF external_irq_callback, mp_sched_schedule
    <2>2. sched_len < Depth /\ sched_len \in Nat
      BY <1>3, DepthAssumption DEF mp_sched_full, RegInv, TypeOK
    <2>3. Depth \in 1 .. 128 BY FlowTypes
    <2>4. sched_len' = sched_len + 1 BY <2>1, <2>2, <2>3
    <2>5. /\ pc \notin {"s_state", "s_len", "s_inc", "s_put"}
          /\ pc \notin {"rp_item", "rp_idx", "rp_len", "rp_dec"}
      BY DEF AtomicPc
    <2>6. RegInv' BY <1>1, <2>2, <2>4, <2>5, <2>3 DEF RegInv
    <2>7. Queued = sched_len /\ Queued' = Queued + 1 /\ InHand' = InHand /\ Done' = Done
      BY <1>1, <2>4, <2>5 DEF Queued, InHand, Done
    <2>8. /\ Len(accepted') = Len(accepted) + 1
          /\ \A i \in 1 .. Len(accepted) : accepted'[i] = accepted[i]
          /\ accepted'[Len(accepted) + 1] = f
      <3>1. f \in Func \cup {NoFunc}
        BY BoundsAssumption DEF external_irq_callback, TypeOK, Func
      <3>2. QED BY <2>1, <3>1, AppendProperties DEF TypeOK
    <2>9. Done \in Nat /\ Queued \in Nat /\ Done + Queued = Len(accepted)
          /\ Len(ran) \in Nat /\ Len(ran) <= Done
      BY FlowTypes DEF FlowInv, Done
    <2>10. Len(accepted') = Done' + Queued' BY <2>7, <2>8, <2>9
    <2>11. \A i \in 1 .. Len(ran') : ran'[i] = accepted'[i]
      BY <1>1, <2>8, <2>9 DEF FlowInv
    <2>12. InHand' = 1 => func' = accepted'[Done']
      BY <1>1, <2>7, <2>8, <2>9, FlowTypes DEF FlowInv, Done
    <2>13. ASSUME pc' # "reset_len", NEW i \in 0 .. Queued' - 1
           PROVE  sched_queue'[IDX_MASK(sched_idx' + i)] = accepted'[Done' + i + 1]
      <3>1. i \in 0 .. Depth - 1 /\ sched_len \in 0 .. Depth - 1 BY <2>2, <2>7, <2>3
      <3>2. IDX_MASK(sched_idx + i) \in DOMAIN sched_queue
        <4>1. i \in 0 .. Depth BY <3>1, <2>3
        <4>2. IDX_MASK(sched_idx + i) \in 0 .. Depth - 1 BY <4>1, FlowTypes
        <4>3. QED BY <4>2 DEF TypeOK
      <3>3. CASE i = Queued
        BY <3>2, <3>3, <2>1, <2>7, <2>8, <2>9
      <3>4. CASE i # Queued
        <4>1. IDX_MASK(sched_idx + i) # IDX_MASK(sched_idx + sched_len)
          BY <3>1, <3>4, <2>7, SlotsDiffer, FlowTypes
        <4>2. sched_queue'[IDX_MASK(sched_idx' + i)] = sched_queue[IDX_MASK(sched_idx + i)]
          BY <4>1, <3>2, <2>1
        <4>3. i \in 0 .. Queued - 1 BY <3>4, <2>7, <2>9
        <4>4. sched_queue[IDX_MASK(sched_idx + i)] = accepted[Done + i + 1]
          BY <4>3, <2>5, <2>13, <1>1 DEF FlowInv
        <4>5. Done + i + 1 \in 1 .. Len(accepted) BY <4>3, <2>9
        <4>6. QED BY <4>2, <4>4, <4>5, <2>7, <2>8
      <3>5. QED BY <3>3, <3>4
    <2>14. QED BY <2>6, <2>10, <2>11, <2>12, <2>13 DEF FlowInv
  <1>4. QED BY <1>2, <1>3

\* sched_len++ in the foreground: the function is accepted, its slot not written.
LEMMA FlowStoreLen ==
  ASSUME TypeOK, RegInv, FlowInv, ScheduleStoreLen
  PROVE  RegInv' /\ FlowInv'
  <1>1. /\ pc \in {"s_len", "s_inc"} /\ pc' = "s_put" /\ tmp' = tmp /\ func' = func /\ ran' = ran
        /\ sched_queue' = sched_queue /\ sched_idx' = sched_idx
        /\ accepted' = Append(accepted, func)
    BY DEF ScheduleStoreLen
  <1>2. sched_len < Depth /\ tmp = sched_len /\ sched_len \in Nat /\ Depth \in 1 .. 128
    BY <1>1, FlowTypes DEF RegInv, TypeOK
  <1>3. sched_len' = sched_len + 1 BY <1>2 DEF ScheduleStoreLen
  <1>4. /\ Len(accepted') = Len(accepted) + 1
        /\ \A i \in 1 .. Len(accepted) : accepted'[i] = accepted[i]
        /\ accepted'[Len(accepted) + 1] = func
    BY <1>1, AppendProperties DEF TypeOK
  <1>5. RegInv' BY <1>1, <1>2, <1>3, <1>4 DEF RegInv
  <1>6. /\ Queued = sched_len /\ Queued' = Queued + 1 /\ InHand = 0 /\ InHand' = 0
        /\ Done = Len(ran) /\ Done' = Len(ran) /\ Len(ran) \in Nat
    <2>1. Len(ran) \in Nat BY LenProperties DEF TypeOK
    <2>2. QED BY <1>1, <1>2, <1>3, <2>1 DEF Queued, InHand, Done
  <1>7. Len(accepted) = Len(ran) + sched_len BY <1>6 DEF FlowInv
  <1>8. Len(accepted') = Done' + Queued' BY <1>2, <1>4, <1>6, <1>7
  <1>9. \A i \in 1 .. Len(ran') : ran'[i] = accepted'[i]
    BY <1>1, <1>2, <1>4, <1>6, <1>7 DEF FlowInv
  <1>10. ASSUME NEW i \in 0 .. Queued' - 1, i # Queued' - 1
         PROVE  sched_queue'[IDX_MASK(sched_idx' + i)] = accepted'[Done' + i + 1]
    <2>1. i \in 0 .. Queued - 1 BY <1>2, <1>6, <1>10
    <2>2. sched_queue[IDX_MASK(sched_idx + i)] = accepted[Done + i + 1]
      BY <1>1, <2>1 DEF FlowInv
    <2>3. Done + i + 1 \in 1 .. Len(accepted) BY <2>1, <1>2, <1>6, <1>7
    <2>4. QED BY <1>1, <1>4, <1>6, <2>2, <2>3
  <1>11. FlowInv'
    <2>1. \A i \in 0 .. Queued' - 1 :
            \/ pc' = "s_put" /\ i = Queued' - 1
            \/ sched_queue'[IDX_MASK(sched_idx' + i)] = accepted'[Done' + i + 1]
      BY <1>1, <1>10
    <2>2. InHand' # 1 BY <1>6
    <2>3. QED BY <1>8, <1>9, <2>1, <2>2 DEF FlowInv
  <1>12. QED BY <1>5, <1>11

\* The slot is written.
LEMMA FlowPut ==
  ASSUME TypeOK, RegInv, FlowInv, SchedulePut
  PROVE  RegInv' /\ FlowInv'
  <1>1. /\ pc = "s_put" /\ pc' \in {"vm", "in_call"} /\ func' = func
        /\ UNCHANGED <<ran, accepted, sched_idx, sched_len>>
        /\ sched_queue' = [sched_queue EXCEPT ![IDX_MASK(sched_idx + tmp)] = func]
    BY DEF SchedulePut, Goto, TypeOK, history
  <1>2. /\ sched_len > 0 /\ tmp = sched_len - 1 /\ func = accepted[Len(accepted)]
        /\ sched_len <= Depth /\ sched_len \in Nat /\ Depth \in 1 .. 128
    BY <1>1, FlowTypes DEF RegInv, TypeOK
  <1>3. RegInv' BY <1>1, <1>2 DEF RegInv
  <1>4. /\ Queued = sched_len /\ Queued' = sched_len /\ InHand = 0 /\ InHand' = 0
        /\ Done = Len(ran) /\ Done' = Len(ran) /\ Len(ran) \in Nat
    <2>1. Len(ran) \in Nat BY LenProperties DEF TypeOK
    <2>2. QED BY <1>1, <1>2, <2>1 DEF Queued, InHand, Done
  <1>5. Len(accepted) = Len(ran) + sched_len BY <1>4 DEF FlowInv
  <1>6. ASSUME NEW i \in 0 .. Queued' - 1
        PROVE  sched_queue'[IDX_MASK(sched_idx' + i)] = accepted'[Done' + i + 1]
    <2>1. /\ i \in 0 .. Depth /\ i \in 0 .. Depth - 1 /\ tmp \in 0 .. Depth - 1
          /\ i \in 0 .. Queued - 1
      BY <1>2, <1>4
    <2>2. IDX_MASK(sched_idx + i) \in DOMAIN sched_queue
      <3>1. IDX_MASK(sched_idx + i) \in 0 .. Depth - 1 BY <2>1, FlowTypes
      <3>2. QED BY <3>1 DEF TypeOK
    <2>3. CASE i = tmp
      <3>1. Done + i + 1 = Len(accepted) BY <2>3, <1>2, <1>4, <1>5
      <3>2. QED BY <2>2, <2>3, <3>1, <1>1, <1>2, <1>4
    <2>4. CASE i # tmp
      <3>1. IDX_MASK(sched_idx + i) # IDX_MASK(sched_idx + tmp)
        BY <2>1, <2>4, SlotsDiffer, FlowTypes
      <3>2. sched_queue'[IDX_MASK(sched_idx' + i)] = sched_queue[IDX_MASK(sched_idx + i)]
        BY <3>1, <2>2, <1>1
      <3>3. i # Queued - 1 BY <2>4, <1>2, <1>4
      <3>4. sched_queue[IDX_MASK(sched_idx + i)] = accepted[Done + i + 1]
        BY <1>1, <2>1, <3>3 DEF FlowInv
      <3>5. QED BY <3>2, <3>4, <1>1, <1>4
    <2>5. QED BY <2>3, <2>4
  <1>7. Len(accepted') = Done' + Queued' /\ \A i \in 1 .. Len(ran') : ran'[i] = accepted'[i]
    BY <1>1, <1>4, <1>5 DEF FlowInv
  <1>8. FlowInv' BY <1>4, <1>6, <1>7 DEF FlowInv
  <1>9. QED BY <1>3, <1>8

\* sched_idx is advanced: the oldest queued function is in hand.
LEMMA FlowIdx ==
  ASSUME TypeOK, RegInv, FlowInv, RunPendingIdx
  PROVE  RegInv' /\ FlowInv'
  <1>1. /\ pc = "rp_idx" /\ pc' = "rp_len" /\ sched_idx' = IDX_MASK(sched_idx + 1)
        /\ UNCHANGED <<sched_queue, sched_len, tmp, func, ran, accepted>>
    BY DEF RunPendingIdx, Goto, history
  <1>2. /\ sched_len > 0 /\ tmp = sched_len /\ func = sched_queue[sched_idx]
        /\ sched_len <= Depth /\ sched_len \in Nat /\ Depth \in 1 .. 128
        /\ sched_idx \in 0 .. Depth - 1
    BY <1>1, FlowTypes DEF RegInv, TypeOK
  <1>3. RegInv' BY <1>1, <1>2 DEF RegInv
  <1>4. /\ Queued = sched_len /\ Queued' = sched_len - 1 /\ InHand = 0 /\ InHand' = 1
        /\ Done = Len(ran) /\ Done' = Len(ran) + 1 /\ Len(ran) \in Nat
    BY <1>1, <1>2, FlowTypes DEF Queued, InHand, Done
  <1>5. Len(accepted) = Len(ran) + sched_len BY <1>4 DEF FlowInv
  <1>6. func' = accepted'[Done']
    <2>1. 0 \in 0 .. Queued - 1 BY <1>2, <1>4
    <2>2. sched_queue[IDX_MASK(sched_idx + 0)] = accepted[Done + 0 + 1]
      BY <1>1, <2>1 DEF FlowInv
    <2>3. IDX_MASK(sched_idx + 0) = sched_idx
      <3>1. sched_idx + 0 = sched_idx /\ sched_idx \in 0 .. 2 * Depth - 1 /\ sched_idx < Depth
        BY <1>2
      <3>2. QED BY <3>1, Mask
    <2>4. QED BY <1>1, <1>2, <1>4, <2>2, <2>3
  <1>7. ASSUME NEW i \in 0 .. Queued' - 1
        PROVE  sched_queue'[IDX_MASK(sched_idx' + i)] = accepted'[Done' + i + 1]
    <2>1. i + 1 \in 0 .. Queued - 1 /\ i \in Nat /\ i + 1 < Depth BY <1>2, <1>4
    <2>2. sched_queue[IDX_MASK(sched_idx + (i + 1))] = accepted[Done + (i + 1) + 1]
      BY <1>1, <2>1 DEF FlowInv
    <2>3. IDX_MASK(sched_idx' + i) = IDX_MASK(sched_idx + (i + 1))
      BY <1>1, <1>2, <2>1, DepthAssumption DEF IDX_MASK
    <2>4. Done + (i + 1) + 1 = Done' + i + 1 BY <1>4, <2>1
    <2>5. QED BY <1>1, <2>2, <2>3, <2>4
  <1>8. Len(accepted') = Done' + Queued' BY <1>1, <1>2, <1>4, <1>5
  <1>9. \A i \in 1 .. Len(ran') : ran'[i] = accepted'[i] BY <1>1 DEF FlowInv
  <1>10. FlowInv' BY <1>6, <1>7, <1>8, <1>9 DEF FlowInv
  <1>11. QED BY <1>3, <1>10

\* The function in hand is called.
LEMMA FlowCall ==
  ASSUME TypeOK, RegInv, FlowInv, CallFunction
  PROVE  RegInv' /\ FlowInv'
  <1>1. /\ pc = "call" /\ pc' = "in_call" /\ ran' = Append(ran, func)
        /\ UNCHANGED <<sched_queue, sched_idx, sched_len, tmp, func, accepted>>
    BY DEF CallFunction, Goto, queueVars
  <1>2. RegInv' BY <1>1 DEF RegInv
  <1>3. /\ Len(ran') = Len(ran) + 1 /\ Len(ran) \in Nat
        /\ \A i \in 1 .. Len(ran) : ran'[i] = ran[i]
        /\ ran'[Len(ran) + 1] = func
    BY <1>1, AppendProperties, LenProperties DEF TypeOK
  <1>4. /\ Queued = sched_len /\ Queued' = sched_len /\ InHand = 1 /\ InHand' = 0
        /\ Done = Len(ran) + 1 /\ Done' = Len(ran) + 1
    BY <1>1, <1>3 DEF Queued, InHand, Done
  <1>5. \A i \in 1 .. Len(ran') : ran'[i] = accepted'[i]
    <2>1. func = accepted[Len(ran) + 1] BY <1>4 DEF FlowInv
    <2>2. \A i \in 1 .. Len(ran') : i \in 1 .. Len(ran) \/ i = Len(ran) + 1 BY <1>3
    <2>3. QED BY <1>1, <1>3, <2>1, <2>2 DEF FlowInv
  <1>6. FlowInv' BY <1>1, <1>4, <1>5 DEF FlowInv
  <1>7. QED BY <1>2, <1>6

\* Every step of the foreground keeps the order.
LEMMA FlowNext ==
  ASSUME TypeOK, RegInv, FlowInv, [Next]_vars, ~external_irq_callback
  PROVE  RegInv' /\ FlowInv'
  <1>1. CASE ScheduleStoreLen BY <1>1, FlowStoreLen
  <1>2. CASE SchedulePut BY <1>2, FlowPut
  <1>3. CASE RunPendingIdx BY <1>3, FlowIdx
  <1>4. CASE CallFunction BY <1>4, FlowCall
  <1>5. CASE UNCHANGED vars
    BY <1>5 DEF vars, queueVars, history, RegInv, FlowInv, Done, InHand, Queued
  <1>6. CASE ResetIdx
    BY <1>6 DEF ResetIdx, Goto, history, RegInv, FlowInv, Done, InHand, Queued
  <1>7. CASE ResetLen
    <2>1. Len(ran) \in Nat /\ Depth \in 1 .. 128 BY FlowTypes
    <2>2. /\ pc' = "repl" /\ sched_len' = 0 /\ ran' = ran /\ accepted' = ran
      BY <1>7 DEF ResetLen, Goto
    <2>3. QED BY <2>1, <2>2 DEF RegInv, FlowInv, Done, InHand, Queued
  <1>8. CASE RunPendingLen
    <2>1. /\ pc \in {"rp_len", "rp_dec"} /\ pc' = "call" /\ sched_len' = (tmp - 1) % 256
          /\ UNCHANGED <<sched_queue, sched_idx, func, accepted, ran>>
      BY <1>8 DEF RunPendingLen, history
    <2>2. Depth \in 1 .. 128 BY FlowTypes
    <2>3. tmp = sched_len /\ sched_len \in 1 .. 128 /\ sched_len <= Depth
      BY <2>1, <2>2 DEF RegInv, TypeOK
    <2>4. sched_len' = sched_len - 1 BY <2>1, <2>3
    <2>5. RegInv' BY <2>1, <2>3, <2>4, <2>2 DEF RegInv
    <2>6. Queued' = Queued /\ InHand' = InHand BY <2>1, <2>4 DEF Queued, InHand
    <2>7. QED BY <2>1, <2>5, <2>6, FlowQuiet
  <1> USE FlowQuiet DEF Goto, queueVars, history, InHand, Queued, RegInv, TypeOK
  <1>9. CASE ScheduleCall BY <1>9 DEF ScheduleCall
  <1>10. CASE ScheduleFull BY <1>10 DEF ScheduleFull
  <1>11. CASE ScheduleNotFull
    <2>1. sched_len < Depth
      BY <1>11, DepthAssumption DEF ScheduleNotFull, mp_sched_full
    <2>2. QED BY <1>11, <2>1 DEF ScheduleNotFull
  <1>12. CASE ScheduleState BY <1>12 DEF ScheduleState
  <1>13. CASE ScheduleReload BY <1>13 DEF ScheduleReload
  <1>14. CASE Poll BY <1>14 DEF Poll
  <1>15. CASE RunPendingLock BY <1>15 DEF RunPendingLock
  <1>16. CASE RunPendingTest BY <1>16 DEF RunPendingTest
  <1>17. CASE RunPendingItem BY <1>17 DEF RunPendingItem
  <1>18. CASE RunPendingReload BY <1>18 DEF RunPendingReload
  <1>19. CASE CallReturns BY <1>19 DEF CallReturns
  <1>20. CASE UnlockInc BY <1>20 DEF UnlockInc
  <1>21. CASE UnlockTest BY <1>21 DEF UnlockTest
  <1>22. CASE UnlockPending BY <1>22 DEF UnlockPending
  <1>23. CASE UnlockIdle BY <1>23 DEF UnlockIdle
  <1>24. CASE LineDone BY <1>24 DEF LineDone
  <1>25. CASE LineEntered BY <1>25 DEF LineEntered
  <1>26. CASE SoftReset BY <1>26 DEF SoftReset
  <1>27. QED
    BY <1>1, <1>2, <1>3, <1>4, <1>5, <1>6, <1>7, <1>8, <1>9, <1>10, <1>11, <1>12, <1>13, <1>14,
       <1>15, <1>16, <1>17, <1>18, <1>19, <1>20, <1>21, <1>22, <1>23, <1>24, <1>25, <1>26
       DEF Next, ScheduleStep, RunPending

\* What was torn stays torn.
LEMMA TornStays ==
  ASSUME TypeOK, [Next]_vars, torn' = FALSE
  PROVE  torn = FALSE
  BY DEF TypeOK, Next, vars, history, external_irq_callback, ScheduleCall, ScheduleStep,
     ScheduleFull, ScheduleNotFull, ScheduleState, ScheduleReload, ScheduleStoreLen, SchedulePut,
     RunPending, Poll, RunPendingLock, RunPendingTest, RunPendingItem, RunPendingIdx,
     RunPendingReload, RunPendingLen, CallFunction, CallReturns, UnlockInc, UnlockTest,
     UnlockPending, UnlockIdle, LineDone, LineEntered, SoftReset, ResetIdx, ResetLen

LEMMA QueueAlways == Spec => []QueueInv
  <1>1. Init => QueueInv
    <2> SUFFICES ASSUME Init PROVE RegInv /\ FlowInv
      BY DEF QueueInv
    <2>1. pc = "repl" /\ sched_len = 0 /\ accepted = <<>> /\ ran = <<>> BY DEF Init
    <2>2. QED BY <2>1, DepthAssumption DEF RegInv, FlowInv, Done, InHand, Queued
  <1>2. TypeOK /\ QueueInv /\ [Next]_vars => QueueInv'
    <2> SUFFICES ASSUME TypeOK, QueueInv, [Next]_vars, torn' = FALSE PROVE RegInv' /\ FlowInv'
      BY DEF QueueInv
    <2>1. torn = FALSE BY TornStays
    <2>2. CASE external_irq_callback
      <3>1. pc \notin AtomicPc BY <2>2 DEF external_irq_callback
      <3>2. QED BY <2>1, <2>2, <3>1, FlowIrq DEF QueueInv
    <2>3. CASE ~external_irq_callback BY <2>1, <2>3, FlowNext DEF QueueInv
    <2>4. QED BY <2>2, <2>3
  <1>3. QED BY <1>1, <1>2, LockAlways, PTL DEF Spec

\* For every depth, as long as no handler runs inside an atomic section, the
\* functions that ran are the beginning of those mp_sched_schedule accepted: each
\* once, in order, none invented and none overwritten when the queue wraps.
THEOREM OrderOnceCorrect == Spec => []InOrderOnce
  <1>1. TypeOK /\ QueueInv => InOrderOnce
    <2> SUFFICES ASSUME TypeOK, QueueInv, torn = FALSE PROVE IsPrefix(ran, accepted)
      BY DEF TypeOK, InOrderOnce
    <2>1. RegInv /\ FlowInv BY DEF QueueInv
    <2>2. Len(ran) \in Nat /\ Len(accepted) \in Nat /\ Len(ran) <= Len(accepted)
      BY <2>1, FlowTypes DEF FlowInv, Done
    <2>3. \A i \in 1 .. Len(ran) : ran[i] = accepted[i] BY <2>1 DEF FlowInv
    <2>4. SubSeq(ran, 1, Len(ran)) = SubSeq(accepted, 1, Len(ran))
      BY <2>2, <2>3 DEF TypeOK
    <2>5. QED BY <2>2, <2>4 DEF IsPrefix
  <1>2. QED BY <1>1, LockAlways, QueueAlways, PTL

-----------------------------------------------------------------------------
(* The queue is a bounded queue *)

\* The slots that are in use, oldest first, with the function of a slot SchedulePut has
\* yet to write.  mp_init forgets them as soon as it has reset sched_idx.
Waiting ==
  IF pc = "reset_len" THEN <<>>
  ELSE [i \in 1 .. Queued |-> IF pc = "s_put" /\ i = Queued
                              THEN func ELSE sched_queue[IDX_MASK(sched_idx + i - 1)]]

\* What the foreground has taken out: what ran, and the function in hand.
Taken == IF InHand = 1 THEN Append(ran, func) ELSE ran

Fifo == INSTANCE ByteFifo WITH Byte <- Func, Capacity <- Depth, queue <- Waiting, got <- Taken

\* As long as no handler runs inside an atomic section, every step puts one function
\* into a queue of Depth places, takes the oldest out, forgets them all, or leaves
\* them alone.
SchedIsFifo == Fifo!FifoInit /\ [][torn' \/ Fifo!FifoNext]_(Fifo!fifoVars)

\* The functions that wait are the last of those accepted.
WaitingOK ==
  /\ Queued \in 0 .. Depth /\ Done \in Nat /\ Len(accepted) = Done + Queued
  /\ pc # "reset_len" => /\ Waiting = [i \in 1 .. Queued |-> accepted[Done + i]]
                         /\ Waiting \in Seq(Func \cup {NoFunc}) /\ Len(Waiting) = Queued

LEMMA WaitingFacts == TypeOK /\ RegInv /\ FlowInv => WaitingOK
  <1> SUFFICES ASSUME TypeOK, RegInv, FlowInv PROVE WaitingOK
    OBVIOUS
  <1>1. /\ Queued \in 0 .. Depth /\ Done \in Nat /\ Len(accepted) \in Nat
        /\ Len(accepted) = Done + Queued /\ Depth \in 1 .. 128 /\ sched_idx \in 0 .. Depth - 1
    BY FlowTypes DEF FlowInv
  <1>2. ASSUME pc # "reset_len", NEW i \in 1 .. Queued
        PROVE  (IF pc = "s_put" /\ i = Queued THEN func
                ELSE sched_queue[IDX_MASK(sched_idx + i - 1)]) = accepted[Done + i]
    <2>1. CASE pc = "s_put" /\ i = Queued BY <1>1, <2>1 DEF RegInv
    <2>2. CASE ~(pc = "s_put" /\ i = Queued)
      <3>1. /\ i - 1 \in 0 .. Queued - 1 /\ Done + (i - 1) + 1 = Done + i
            /\ i - 1 = Queued - 1 => i = Queued
            /\ sched_idx + (i - 1) = sched_idx + i - 1
        BY <1>1
      <3>2. sched_queue[IDX_MASK(sched_idx + (i - 1))] = accepted[Done + (i - 1) + 1]
        BY <1>2, <2>2, <3>1 DEF FlowInv
      <3>3. QED BY <2>2, <3>1, <3>2
    <2>3. QED BY <2>1, <2>2
  <1>3. pc # "reset_len" => Waiting = [i \in 1 .. Queued |-> accepted[Done + i]]
    BY <1>2 DEF Waiting
  <1>4. \A i \in 1 .. Queued : accepted[Done + i] \in Func \cup {NoFunc}
    <2> TAKE i \in 1 .. Queued
    <2>1. Done + i \in 1 .. Len(accepted) BY <1>1
    <2>2. QED BY <2>1, ElementOfSeq DEF TypeOK
  <1>5. pc # "reset_len" => Waiting \in [1 .. Queued -> Func \cup {NoFunc}] BY <1>3, <1>4
  <1>6. Queued \in Nat BY <1>1
  <1>7. pc # "reset_len" => Waiting \in Seq(Func \cup {NoFunc}) /\ Len(Waiting) = Queued
    BY <1>5, <1>6, IsASeq, LenProperties
  <1>8. QED BY <1>1, <1>3, <1>7 DEF WaitingOK

\* A step that accepts nothing and takes nothing out leaves the queue as it is.
LEMMA WaitingKept ==
  ASSUME TypeOK, RegInv, FlowInv, TypeOK', RegInv', FlowInv', accepted' = accepted, Done' = Done,
         pc # "reset_len", pc' # "reset_len"
  PROVE  Waiting' = Waiting
  <1>1. WaitingOK BY WaitingFacts
  <1>2. WaitingOK' BY WaitingFacts, PTL
  <1>3. Queued' = Queued BY <1>1, <1>2 DEF WaitingOK
  <1>4. QED BY <1>1, <1>2, <1>3 DEF WaitingOK

\* A function that is accepted goes to the end of the queue, which had room for it.
LEMMA WaitingPut ==
  ASSUME TypeOK, RegInv, FlowInv, TypeOK', RegInv', FlowInv', NEW f \in Func,
         accepted' = Append(accepted, f), Done' = Done, Taken' = Taken,
         pc # "reset_len", pc' # "reset_len"
  PROVE  Fifo!Put(f)
  <1>1. WaitingOK BY WaitingFacts
  <1>2. WaitingOK' BY WaitingFacts, PTL
  <1>3. /\ Queued \in Nat /\ Queued' \in 0 .. Depth /\ Done \in Nat /\ Depth \in 1 .. 128
        /\ Len(accepted) = Done + Queued /\ Len(accepted') = Done + Queued'
    BY <1>1, <1>2, DepthAssumption DEF WaitingOK
  <1>4. /\ Len(accepted') = Len(accepted) + 1 /\ accepted'[Len(accepted) + 1] = f
        /\ \A i \in 1 .. Len(accepted) : accepted'[i] = accepted[i]
    BY AppendProperties DEF TypeOK
  <1>5. Queued' = Queued + 1 BY <1>3, <1>4
  <1>6. /\ Waiting = [i \in 1 .. Queued |-> accepted[Done + i]]
        /\ Waiting \in Seq(Func \cup {NoFunc}) /\ Len(Waiting) = Queued
    BY <1>1 DEF WaitingOK
  <1>7. /\ Waiting' = [i \in 1 .. Queued + 1 |-> accepted'[Done + i]]
        /\ Waiting' \in Seq(Func \cup {NoFunc}) /\ Len(Waiting') = Queued + 1
    BY <1>2, <1>5 DEF WaitingOK
  <1>8. /\ Append(Waiting, f) \in Seq(Func \cup {NoFunc})
        /\ Len(Append(Waiting, f)) = Queued + 1
        /\ Append(Waiting, f)[Queued + 1] = f
        /\ \A i \in 1 .. Queued : Append(Waiting, f)[i] = Waiting[i]
    <2>1. f \in Func \cup {NoFunc} OBVIOUS
    <2>2. Waiting \in Seq(Func \cup {NoFunc}) /\ Len(Waiting) = Queued BY <1>6
    <2>3. ASSUME NEW w \in Seq(Func \cup {NoFunc})
          PROVE  /\ Append(w, f) \in Seq(Func \cup {NoFunc})
                 /\ Len(Append(w, f)) = Len(w) + 1 /\ Append(w, f)[Len(w) + 1] = f
                 /\ \A i \in 1 .. Len(w) : Append(w, f)[i] = w[i]
      BY <2>1, AppendProperties
    <2>4. QED BY <2>2, <2>3, ZenonT(60)
  <1>9. ASSUME NEW i \in 1 .. Queued + 1 PROVE Waiting'[i] = Append(Waiting, f)[i]
    <2>1. CASE i = Queued + 1
      <3>1. Done + i = Len(accepted) + 1 BY <1>3, <2>1
      <3>2. QED BY <1>4, <1>7, <1>8, <2>1, <3>1
    <2>2. CASE i # Queued + 1
      <3>1. i \in 1 .. Queued /\ Done + i \in 1 .. Len(accepted) BY <1>3, <2>2
      <3>2. QED BY <1>4, <1>6, <1>7, <1>8, <3>1
    <2>3. QED BY <2>1, <2>2
  <1>10. Waiting' = Append(Waiting, f) BY <1>7, <1>8, <1>9, SeqEqual
  <1>11. Len(Waiting) < Depth BY <1>3, <1>5, <1>6
  <1>12. QED BY <1>10, <1>11 DEF Fifo!Put

\* sched_idx is advanced: the oldest function is taken out.
LEMMA WaitingGet ==
  ASSUME TypeOK, RegInv, FlowInv, TypeOK', RegInv', FlowInv', RunPendingIdx
  PROVE  Fifo!Get
  <1>1. /\ pc = "rp_idx" /\ pc' = "rp_len"
        /\ UNCHANGED <<sched_len, func, ran, accepted>>
    BY DEF RunPendingIdx, Goto, history
  <1>2. InHand = 0 /\ InHand' = 1 /\ Taken = ran /\ Taken' = Append(ran, func)
    BY <1>1 DEF InHand, Taken
  <1>3. WaitingOK BY WaitingFacts
  <1>4. WaitingOK' BY WaitingFacts, PTL
  <1>5. /\ Queued \in Nat /\ Queued' \in Nat /\ Done \in Nat /\ Len(ran) \in Nat
        /\ Len(accepted) = Done + Queued /\ Len(accepted) = Done' + Queued'
    <2>1. Len(ran) \in Nat BY LenProperties DEF TypeOK
    <2>2. Queued \in 0 .. Depth /\ Done \in Nat /\ Len(accepted) = Done + Queued
      BY <1>3 DEF WaitingOK
    <2>3. Queued' \in 0 .. Depth /\ Len(accepted) = Done' + Queued'
      BY <1>1, <1>4 DEF WaitingOK
    <2>4. QED BY <2>1, <2>2, <2>3
  <1>6. Done' = Done + 1 /\ Done = Len(ran) BY <1>1, <1>2, <1>5 DEF Done
  <1>7. Queued' = Queued - 1 BY <1>5, <1>6
  <1>8. /\ Waiting = [i \in 1 .. Queued |-> accepted[Done + i]]
        /\ Waiting \in Seq(Func \cup {NoFunc}) /\ Len(Waiting) = Queued
    BY <1>3, <1>1 DEF WaitingOK
  <1>9. /\ Waiting' = [i \in 1 .. Queued - 1 |-> accepted[Done + 1 + i]]
        /\ Waiting' \in Seq(Func \cup {NoFunc}) /\ Len(Waiting') = Queued - 1
    BY <1>4, <1>1, <1>6, <1>7 DEF WaitingOK
  <1>10. Waiting # <<>> /\ Queued > 0 BY <1>5, <1>7, <1>8, EmptySeq
  <1>11. /\ Tail(Waiting) \in Seq(Func \cup {NoFunc}) /\ Len(Tail(Waiting)) = Queued - 1
        /\ \A i \in 1 .. Queued - 1 : Tail(Waiting)[i] = Waiting[i + 1]
        /\ Head(Waiting) = Waiting[1]
    <2>1. Waiting \in Seq(Func \cup {NoFunc}) /\ Len(Waiting) = Queued /\ Waiting # <<>>
      BY <1>8, <1>10
    <2>2. /\ Tail(Waiting) \in Seq(Func \cup {NoFunc})
          /\ Len(Tail(Waiting)) = Len(Waiting) - 1
          /\ \A i \in 1 .. Len(Tail(Waiting)) : Tail(Waiting)[i] = Waiting[i + 1]
      BY <2>1, HeadTailProperties, ZenonT(60)
    <2>3. Head(Waiting) = Waiting[1] BY <2>1
    <2>4. QED BY <2>1, <2>2, <2>3, ZenonT(60)
  <1>12. ASSUME NEW i \in 1 .. Queued - 1 PROVE Waiting'[i] = Tail(Waiting)[i]
    <2>1. i + 1 \in 1 .. Queued /\ Done + 1 + i = Done + (i + 1) BY <1>5
    <2>2. QED BY <1>8, <1>9, <1>11, <2>1
  <1>13. Waiting' = Tail(Waiting) BY <1>9, <1>11, <1>12, SeqEqual
  <1>14. Head(Waiting) = func
    <2>1. func' = accepted'[Done'] BY <1>2 DEF FlowInv
    <2>2. 1 \in 1 .. Queued BY <1>5, <1>10
    <2>3. QED BY <1>1, <1>6, <1>8, <1>11, <2>1, <2>2
  <1>15. QED BY <1>2, <1>10, <1>13, <1>14 DEF Fifo!Get

\* The function that micropython.schedule was given is kept until it is queued.
ArgInv == pc \in SchedulePc => func \in Func

LEMMA ArgNext == TypeOK /\ ArgInv /\ [Next]_vars => ArgInv'
  <1> SUFFICES ASSUME TypeOK, ArgInv, [Next]_vars PROVE ArgInv'
    OBVIOUS
  <1> USE DEF ArgInv, SchedulePc, Goto
  <1>1. CASE ScheduleCall
    BY <1>1, BoundsAssumption DEF ScheduleCall, TypeOK, Func
  <1>2. CASE ScheduleStep
    BY <1>2 DEF ScheduleStep, ScheduleFull, ScheduleNotFull, ScheduleState, ScheduleReload,
                ScheduleStoreLen, SchedulePut, TypeOK
  <1>3. CASE RunPending
    BY <1>3 DEF RunPending, Poll, RunPendingLock, RunPendingTest, RunPendingItem, RunPendingIdx,
                RunPendingReload, RunPendingLen, CallFunction, CallReturns, UnlockInc, UnlockTest,
                UnlockPending, UnlockIdle, TypeOK
  <1>4. CASE external_irq_callback BY <1>4 DEF external_irq_callback
  <1>5. CASE LineDone \/ LineEntered \/ SoftReset \/ ResetIdx \/ ResetLen
    BY <1>5 DEF LineDone, LineEntered, SoftReset, ResetIdx, ResetLen
  <1>6. CASE UNCHANGED vars BY <1>6 DEF vars
  <1>7. QED BY <1>1, <1>2, <1>3, <1>4, <1>5, <1>6 DEF Next

\* Every step is a step of the bounded queue, or leaves it alone.
LEMMA FifoStep ==
  ASSUME TypeOK, RegInv, FlowInv, ArgInv, TypeOK', RegInv', FlowInv', [Next]_vars
  PROVE  Fifo!FifoNext \/ UNCHANGED <<Waiting, Taken>>
  <1>1. CASE external_irq_callback
    <2>1. pc' = pc /\ ran' = ran /\ func' = func BY <1>1 DEF external_irq_callback
    <2>2. InHand' = InHand /\ Taken' = Taken /\ Done' = Done BY <2>1 DEF InHand, Taken, Done
    <2>3. CASE pc = "reset_len" BY <2>1, <2>2, <2>3 DEF Waiting
    <2>4. CASE pc # "reset_len" /\ mp_sched_full
      <3>1. accepted' = accepted BY <1>1, <2>4 DEF external_irq_callback, mp_sched_schedule
      <3>2. QED BY <2>1, <2>2, <2>4, <3>1, WaitingKept
    <2>5. CASE pc # "reset_len" /\ ~mp_sched_full
      <3>1. calls' \in Func BY <1>1, BoundsAssumption DEF external_irq_callback, TypeOK, Func
      <3>2. accepted' = Append(accepted, calls')
        BY <1>1, <2>5 DEF external_irq_callback, mp_sched_schedule
      <3>3. Fifo!Put(calls') BY <2>1, <2>2, <2>5, <3>1, <3>2, WaitingPut
      <3>4. QED BY <3>1, <3>3 DEF Fifo!FifoNext
    <2>6. QED BY <2>3, <2>4, <2>5
  <1>2. CASE ScheduleStoreLen
    <2>1. /\ pc \in {"s_len", "s_inc"} /\ pc' = "s_put" /\ ran' = ran
          /\ accepted' = Append(accepted, func)
      BY <1>2 DEF ScheduleStoreLen
    <2>2. InHand = 0 /\ InHand' = 0 /\ Taken' = Taken /\ Done' = Done
      BY <2>1 DEF InHand, Taken, Done
    <2>3. func \in Func BY <2>1 DEF ArgInv, SchedulePc
    <2>4. Fifo!Put(func) BY <2>1, <2>2, <2>3, WaitingPut
    <2>5. QED BY <2>3, <2>4 DEF Fifo!FifoNext
  <1>3. CASE RunPendingIdx BY <1>3, WaitingGet DEF Fifo!FifoNext
  <1>4. CASE CallFunction
    <2>1. pc = "call" /\ pc' = "in_call" /\ ran' = Append(ran, func) /\ accepted' = accepted
      BY <1>4 DEF CallFunction, Goto
    <2>2. InHand = 1 /\ InHand' = 0 BY <2>1 DEF InHand
    <2>3. Taken' = Taken BY <2>1, <2>2 DEF Taken
    <2>4. Len(ran') = Len(ran) + 1 /\ Len(ran) \in Nat
      BY <2>1, AppendProperties, LenProperties DEF TypeOK
    <2>5. Done' = Done BY <2>2, <2>4 DEF Done
    <2>6. QED BY <2>1, <2>3, <2>5, WaitingKept
  <1>5. CASE ResetIdx
    <2>1. pc = "reset_idx" /\ pc' = "reset_len" /\ ran' = ran
      BY <1>5 DEF ResetIdx, Goto, history
    <2>2. Waiting' = <<>> /\ Taken' = Taken BY <2>1 DEF Waiting, Taken, InHand
    <2>3. QED BY <2>2 DEF Fifo!FifoNext, Fifo!Clear
  <1>6. CASE ResetLen
    <2>1. pc = "reset_len" /\ pc' = "repl" /\ ran' = ran /\ sched_len' = 0
      BY <1>6 DEF ResetLen, Goto
    <2>2. Queued' = 0 /\ Waiting = <<>> /\ Taken' = Taken
      BY <2>1 DEF Waiting, Taken, InHand, Queued
    <2>3. WaitingOK' BY WaitingFacts, PTL
    <2>4. Waiting' \in Seq(Func \cup {NoFunc}) /\ Len(Waiting') = 0
      BY <2>1, <2>2, <2>3 DEF WaitingOK
    <2>5. Waiting' = <<>> BY <2>4, EmptySeq
    <2>6. QED BY <2>2, <2>5
  <1>7. ASSUME UNCHANGED <<accepted, ran>>, InHand' = InHand, InHand = 1 => func' = func,
               pc # "reset_len", pc' # "reset_len"
        PROVE  UNCHANGED <<Waiting, Taken>>
    <2>1. Done' = Done /\ Taken' = Taken BY <1>7 DEF Done, Taken
    <2>2. QED BY <1>7, <2>1, WaitingKept
  <1>8. CASE UNCHANGED vars
    BY <1>8 DEF vars, queueVars, history, Waiting, Taken, InHand, Queued
  <1> USE DEF Goto, history, InHand, TypeOK
  <1>9. CASE ScheduleCall BY <1>7, <1>9 DEF ScheduleCall
  <1>10. CASE \/ ScheduleFull \/ ScheduleNotFull \/ ScheduleState \/ ScheduleReload
              \/ SchedulePut
    BY <1>7, <1>10
       DEF ScheduleFull, ScheduleNotFull, ScheduleState, ScheduleReload, SchedulePut
  <1>11. CASE Poll \/ RunPendingLock \/ RunPendingTest \/ RunPendingItem \/ RunPendingReload
    BY <1>7, <1>11 DEF Poll, RunPendingLock, RunPendingTest, RunPendingItem, RunPendingReload
  <1>12. CASE RunPendingLen BY <1>7, <1>12 DEF RunPendingLen
  <1>13. CASE CallReturns \/ UnlockInc \/ UnlockTest \/ UnlockPending \/ UnlockIdle
    BY <1>7, <1>13 DEF CallReturns, UnlockInc, UnlockTest, UnlockPending, UnlockIdle
  <1>14. CASE LineDone \/ LineEntered \/ SoftReset
    BY <1>7, <1>14 DEF LineDone, LineEntered, SoftReset
  <1>15. QED
    BY <1>1, <1>2, <1>3, <1>4, <1>5, <1>6, <1>8, <1>9, <1>10, <1>11, <1>12, <1>13, <1>14
       DEF Next, ScheduleStep, RunPending

\* For every depth the scheduler's circular queue implements a first-in first-out queue
\* of Depth functions as long as no handler runs inside an atomic section: the steps of
\* mp_sched_schedule, mp_sched_run_pending and mp_init on slots, index and length are
\* steps of that queue, so that it may stand for them where only the calls are of
\* interest, as it does in PinIrq.
THEOREM SchedRefinesFifo == Spec => SchedIsFifo
  <1>1. Init => Fifo!FifoInit
    <2> SUFFICES ASSUME Init PROVE Fifo!FifoInit
      OBVIOUS
    <2>1. pc = "repl" /\ sched_len = 0 /\ ran = <<>> BY DEF Init
    <2>2. Queued = 0 /\ Taken = <<>> BY <2>1 DEF Queued, Taken, InHand
    <2>3. Waiting \in [1 .. 0 -> {0}] BY <2>1, <2>2 DEF Waiting
    <2>4. Waiting \in Seq({0}) /\ Len(Waiting) = 0 BY <2>3, IsASeq, LenProperties
    <2>5. Waiting = <<>> BY <2>4, EmptySeq
    <2>6. QED BY <2>2, <2>5 DEF Fifo!FifoInit
  <1>2. Init => ArgInv BY DEF Init, ArgInv, SchedulePc
  <1>3. Spec => []ArgInv BY <1>2, ArgNext, LockAlways, PTL DEF Spec
  <1>4. TypeOK /\ QueueInv /\ ArgInv /\ TypeOK' /\ QueueInv' /\ [Next]_vars
        => [torn' \/ Fifo!FifoNext]_(Fifo!fifoVars)
    <2> SUFFICES ASSUME TypeOK, QueueInv, ArgInv, TypeOK', QueueInv', [Next]_vars, torn' = FALSE
                 PROVE  Fifo!FifoNext \/ UNCHANGED Fifo!fifoVars
      BY DEF TypeOK
    <2>1. torn = FALSE BY TornStays
    <2>2. QED BY <2>1, FifoStep DEF QueueInv, Fifo!fifoVars
  <1>5. QED BY <1>1, <1>3, <1>4, LockAlways, QueueAlways, PTL DEF Spec, SchedIsFifo

=============================================================================
