-------------------------------- MODULE Sched --------------------------------
(***************************************************************************)
(* The scheduler of py/scheduler.c as this firmware uses it: the handler   *)
(* of an external interrupt (external_irq_callback in machine_pin.c) and   *)
(* Python's micropython.schedule add functions to the queue, and the       *)
(* foreground runs them from the VM loop, from MICROPY_EVENT_POLL_HOOK and *)
(* at the end of every REPL line.                                          *)
(*                                                                         *)
(* scheduler.c protects the queue with MICROPY_BEGIN_ATOMIC_SECTION.  The  *)
(* port leaves that macro at the default of py/mphal.h, which expands to   *)
(* (0), so that handlers run inside the atomic sections.  `torn' records   *)
(* that one did: the behaviours in which it stays FALSE are those of a     *)
(* port whose atomic section masks interrupts.  The foreground is split at *)
(* its accesses to the shared fields; a handler runs to completion.        *)
(*                                                                         *)
(* The n-th call of mp_sched_schedule passes the function n.  There is no  *)
(* pending exception (MICROPY_KBD_EXCEPTION is 0), no static node and no   *)
(* GC finaliser in this build, so that mp_sched_lock is never called.      *)
(***************************************************************************)
EXTENDS Integers, Sequences, SequencesExt

CONSTANTS Depth,            \* MICROPY_SCHEDULER_DEPTH
          MaxCalls,         \* bound: calls of mp_sched_schedule
          MaxResets         \* bound: soft resets

ASSUME DepthAssumption == Depth \in {1, 2, 4, 8, 16, 32, 64, 128}
ASSUME BoundsAssumption == MaxCalls \in Nat /\ MaxResets \in Nat

IDLE == 1
PENDING == 0
LOCKED == -1

NoFunc == 0      \* a slot that was never written: MP_OBJ_NULL

VARIABLES
  sched_state, sched_queue, sched_idx, sched_len,
  pc,            \* where the foreground is
  back,          \* where mp_handle_pending returns to
  sback,         \* where micropython.schedule returns to
  tmp,           \* register that holds sched_len
  func,          \* the function the foreground schedules or runs
  calls,         \* history: calls of mp_sched_schedule so far
  accepted,      \* history: functions it returned true for, in order
  ran,           \* history: functions run, in order
  torn,          \* history: a handler ran inside an atomic section
  resets

queueVars == <<sched_queue, sched_idx, sched_len>>
history == <<calls, accepted, ran, torn, resets>>
vars == <<sched_state, queueVars, pc, back, sback, tmp, func, history>>

Init ==
  /\ sched_state = IDLE
  /\ sched_queue = [i \in 0 .. Depth - 1 |-> NoFunc]
  /\ sched_idx = 0
  /\ sched_len = 0
  /\ pc = "repl"
  /\ back = "repl"
  /\ sback = "vm"
  /\ tmp = 0
  /\ func = NoFunc
  /\ calls = 0
  /\ accepted = <<>>
  /\ ran = <<>>
  /\ torn = FALSE
  /\ resets = 0

IDX_MASK(i) == i % Depth

mp_sched_full == sched_len = Depth

Goto(from, to) == pc = from /\ pc' = to

-----------------------------------------------------------------------------
(* Interrupt handlers *)

\* Mutant: the state is forced to pending also while a callback runs.
ScheduleForcesPending(f) ==
  /\ ~mp_sched_full
  /\ sched_state' = PENDING
  /\ sched_queue' = [sched_queue EXCEPT ![IDX_MASK(sched_idx + sched_len)] = f]
  /\ sched_len' = (sched_len + 1) % 256
  /\ accepted' = Append(accepted, f)
  /\ UNCHANGED sched_idx

\* mp_sched_schedule in a handler, where nothing interleaves with it.
mp_sched_schedule(f) ==
  \/ /\ ~mp_sched_full
     /\ sched_state' = IF sched_state = IDLE THEN PENDING ELSE sched_state
     /\ sched_queue' = [sched_queue EXCEPT ![IDX_MASK(sched_idx + sched_len)] = f]
     /\ sched_len' = (sched_len + 1) % 256
     /\ accepted' = Append(accepted, f)
     /\ UNCHANGED sched_idx
  \/ /\ mp_sched_full
     /\ UNCHANGED <<sched_state, queueVars, accepted>>

\* Between MICROPY_BEGIN_ATOMIC_SECTION and MICROPY_END_ATOMIC_SECTION.
AtomicPc == {"rp_test", "rp_item", "rp_idx", "rp_len", "rp_dec", "ul_inc", "ul_test",
             "ul_pending", "ul_idle", "s_state", "s_len", "s_inc", "s_put"}

\* external_irq_callback ignores the result.
external_irq_callback ==
  /\ calls < MaxCalls
  /\ calls' = calls + 1
  /\ mp_sched_schedule(calls')
  /\ torn' = (torn \/ pc \in AtomicPc)
  /\ UNCHANGED <<pc, back, sback, tmp, func, ran, resets>>

-----------------------------------------------------------------------------
(* micropython.schedule in the foreground *)

ScheduleCall ==
  /\ pc \in {"vm", "in_call"}
  /\ calls < MaxCalls
  /\ calls' = calls + 1
  /\ func' = calls'
  /\ sback' = pc
  /\ pc' = "s_full"
  /\ UNCHANGED <<sched_state, queueVars, back, tmp, accepted, ran, torn, resets>>

\* A full queue raises RuntimeError.
ScheduleFull ==
  /\ Goto("s_full", sback)
  /\ mp_sched_full
  /\ UNCHANGED <<sched_state, queueVars, back, sback, tmp, func, history>>

ScheduleNotFull ==
  /\ Goto("s_full", "s_state")
  /\ ~mp_sched_full
  /\ tmp' = sched_len
  /\ UNCHANGED <<sched_state, queueVars, back, sback, func, history>>

ScheduleState ==
  /\ Goto("s_state", "s_len")
  /\ sched_state' = IF sched_state = IDLE THEN PENDING ELSE sched_state
  /\ UNCHANGED <<queueVars, back, sback, tmp, func, history>>

\* sched_len++, then the slot is written.  The field is not volatile: the build
\* may load it again here or use the value it tested.
ScheduleReload ==
  /\ Goto("s_len", "s_inc")
  /\ tmp' = sched_len
  /\ UNCHANGED <<sched_state, queueVars, back, sback, func, history>>

ScheduleStoreLen ==
  /\ pc \in {"s_len", "s_inc"} /\ pc' = "s_put"
  /\ sched_len' = (tmp + 1) % 256
  /\ accepted' = Append(accepted, func)
  /\ UNCHANGED <<sched_state, sched_queue, sched_idx, back, sback, tmp, func, calls, ran, torn,
                 resets>>

SchedulePut ==
  /\ Goto("s_put", sback)
  /\ sched_queue' = [sched_queue EXCEPT ![IDX_MASK(sched_idx + tmp)] = func]
  /\ UNCHANGED <<sched_state, sched_idx, sched_len, back, sback, tmp, func, history>>

-----------------------------------------------------------------------------
(* mp_handle_pending and mp_sched_run_pending *)

\* The check of the VM loop, or of the poll hook, and of mp_handle_pending.
Poll ==
  /\ Goto("vm", "rp_lock")
  /\ sched_state = PENDING
  /\ back' = "vm"
  /\ UNCHANGED <<sched_state, queueVars, sback, tmp, func, history>>

\* A REPL line ends: parse_compile_execute calls mp_handle_pending once more.
LineDone ==
  /\ Goto("vm", IF sched_state = PENDING THEN "rp_lock" ELSE "repl")
  /\ back' = "repl"
  /\ UNCHANGED <<sched_state, queueVars, sback, tmp, func, history>>

\* No handler takes the state out of PENDING, so that the early return of
\* mp_sched_run_pending is never taken here.
RunPendingLock ==
  /\ Goto("rp_lock", "rp_test")
  /\ sched_state' = LOCKED
  /\ UNCHANGED <<queueVars, back, sback, tmp, func, history>>

RunPendingTest ==
  /\ Goto("rp_test", IF sched_len = 0 THEN "ul_inc" ELSE "rp_item")
  /\ tmp' = sched_len
  /\ UNCHANGED <<sched_state, queueVars, back, sback, func, history>>

RunPendingItem ==
  /\ Goto("rp_item", "rp_idx")
  /\ func' = sched_queue[sched_idx]
  /\ UNCHANGED <<sched_state, queueVars, back, sback, tmp, history>>

RunPendingIdx ==
  /\ Goto("rp_idx", "rp_len")
  /\ sched_idx' = IDX_MASK(sched_idx + 1)
  /\ UNCHANGED <<sched_state, sched_queue, sched_len, back, sback, tmp, func, history>>

\* --sched_len: the field is not volatile, so that the build may load it again
\* or use the value it tested.
RunPendingReload ==
  /\ Goto("rp_len", "rp_dec")
  /\ tmp' = sched_len
  /\ UNCHANGED <<sched_state, queueVars, back, sback, func, history>>

\* Mutant: the length is not decremented.
RunPendingKeepsLen ==
  /\ pc \in {"rp_len", "rp_dec"} /\ pc' = "call"
  /\ UNCHANGED <<sched_state, queueVars, back, sback, tmp, func, history>>

RunPendingLen ==
  /\ pc \in {"rp_len", "rp_dec"} /\ pc' = "call"
  /\ sched_len' = (tmp - 1) % 256
  /\ UNCHANGED <<sched_state, sched_queue, sched_idx, back, sback, tmp, func, history>>

\* mp_call_function_1_protected.  The callback may itself schedule; a poll in it
\* finds the scheduler locked and does nothing (NeverPreempted).
CallFunction ==
  /\ Goto("call", "in_call")
  /\ ran' = Append(ran, func)
  /\ UNCHANGED <<sched_state, queueVars, back, sback, tmp, func, calls, accepted, torn, resets>>

CallReturns ==
  /\ Goto("in_call", "ul_inc")
  /\ UNCHANGED <<sched_state, queueVars, back, sback, tmp, func, history>>

-----------------------------------------------------------------------------
(* mp_sched_unlock.  ++sched_state passes through PENDING, which is 0. *)

UnlockInc ==
  /\ Goto("ul_inc", "ul_test")
  /\ sched_state' = sched_state + 1
  /\ UNCHANGED <<queueVars, back, sback, tmp, func, history>>

\* Mutant: an unlocked scheduler is idle whatever the queue holds.
UnlockAlwaysIdle ==
  /\ Goto("ul_test", "ul_idle")
  /\ UNCHANGED <<sched_state, queueVars, back, sback, tmp, func, history>>

UnlockTest ==
  /\ Goto("ul_test", IF sched_len > 0 THEN "ul_pending" ELSE "ul_idle")
  /\ UNCHANGED <<sched_state, queueVars, back, sback, tmp, func, history>>

UnlockPending ==
  /\ Goto("ul_pending", back)
  /\ sched_state' = PENDING
  /\ UNCHANGED <<queueVars, back, sback, tmp, func, history>>

UnlockIdle ==
  /\ Goto("ul_idle", back)
  /\ sched_state' = IDLE
  /\ UNCHANGED <<queueVars, back, sback, tmp, func, history>>

-----------------------------------------------------------------------------
(* The REPL *)

\* The user enters a line.
LineEntered ==
  /\ Goto("repl", "vm")
  /\ UNCHANGED <<sched_state, queueVars, back, sback, tmp, func, history>>

\* Ctrl-D: hal_entry calls mp_init again, which stores the three fields one by
\* one with interrupts enabled.
SoftReset ==
  /\ Goto("repl", "reset_idx")
  /\ resets < MaxResets
  /\ resets' = resets + 1
  /\ sched_state' = IDLE
  /\ UNCHANGED <<queueVars, back, sback, tmp, func, calls, accepted, ran, torn>>

ResetIdx ==
  /\ Goto("reset_idx", "reset_len")
  /\ sched_idx' = 0
  /\ UNCHANGED <<sched_state, sched_queue, sched_len, back, sback, tmp, func, history>>

\* What was queued is forgotten.
ResetLen ==
  /\ Goto("reset_len", "repl")
  /\ sched_len' = 0
  /\ accepted' = ran
  /\ UNCHANGED <<sched_state, sched_queue, sched_idx, back, sback, tmp, func, calls, ran, torn,
                 resets>>

-----------------------------------------------------------------------------

RunPending ==
  \/ Poll \/ RunPendingLock \/ RunPendingTest \/ RunPendingItem \/ RunPendingIdx
  \/ RunPendingReload \/ RunPendingLen \/ CallFunction \/ CallReturns
  \/ UnlockInc \/ UnlockTest \/ UnlockPending \/ UnlockIdle

ScheduleStep ==
  \/ ScheduleFull \/ ScheduleNotFull \/ ScheduleState \/ ScheduleReload
  \/ ScheduleStoreLen \/ SchedulePut

Next ==
  \/ external_irq_callback
  \/ ScheduleCall \/ ScheduleStep \/ RunPending
  \/ LineDone \/ LineEntered \/ SoftReset \/ ResetIdx \/ ResetLen

Spec == Init /\ [][Next]_vars

\* The foreground does not stop in the middle of C code and Python code comes to
\* its next poll; nothing makes the user enter a line or a line end.
Fairness ==
  /\ WF_vars(RunPending)
  /\ WF_vars(ScheduleStep)
  /\ WF_vars(ResetIdx \/ ResetLen)

FairSpec == Spec /\ Fairness

-----------------------------------------------------------------------------
(* Properties *)

Func == 1 .. MaxCalls

\* Every variable has its type: sched_idx stays inside the queue.
TypeOK ==
  /\ sched_state \in {IDLE, PENDING, LOCKED}
  /\ sched_queue \in [0 .. Depth - 1 -> Func \cup {NoFunc}]
  /\ sched_idx \in 0 .. Depth - 1
  /\ sched_len \in 0 .. 255
  /\ pc \in AtomicPc \cup {"repl", "vm", "rp_lock", "call", "in_call", "s_full",
                           "reset_idx", "reset_len"}
  /\ back \in {"repl", "vm"}
  /\ sback \in {"vm", "in_call"}
  /\ tmp \in 0 .. 255
  /\ func \in Func \cup {NoFunc}
  /\ calls \in 0 .. MaxCalls
  /\ accepted \in Seq(Func \cup {NoFunc})
  /\ ran \in Seq(Func \cup {NoFunc})
  /\ torn \in BOOLEAN
  /\ resets \in 0 .. MaxResets

\* While a scheduled function runs the scheduler stays locked, so that a poll in
\* it never starts another one ("A scheduled function will never preempt another
\* scheduled function").
NeverPreempted == pc \in {"call", "in_call"} => sched_state = LOCKED

\* Every function mp_sched_schedule accepted is run once, in the order of the
\* calls, unless a soft reset forgets it; nothing else is run.  Only a handler
\* inside an atomic section can break this.
InOrderOnce == ~torn => IsPrefix(ran, accepted)

\* The same whenever the handler runs, which is what micropython.schedule promises.
AcceptedRunOnce == IsPrefix(ran, accepted)

\* Outside the scheduler a queue with work in it is always marked pending: mp_sched_unlock
\* restores the state "to idle (or pending if there are still tasks in the queue)".
\* Only a handler inside an atomic section can break this.
NoStrandedWork == ~torn /\ pc \in {"vm", "repl"} /\ sched_len > 0 => sched_state = PENDING

\* As long as Python code keeps being executed, every accepted function is run
\* or forgotten by a soft reset, unless a handler runs inside an atomic section.
AcceptedRuns ==
  ([]<>(pc = "vm")) =>
    \A f \in Func :
      Contains(accepted, f) ~> (Contains(ran, f) \/ ~Contains(accepted, f) \/ torn)

=============================================================================
