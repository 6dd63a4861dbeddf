---------------------------- MODULE SleepQueue ----------------------------
(***************************************************************************)
(* The sleep queue and the tick counter of src/time/mod.rs: tasks sleep    *)
(* for a number of ticks or wait at an IntervalBarrier, the SysTick        *)
(* handler advances the wrapping counter and wakes those whose tick has    *)
(* come.  A context that finds the queue locked pends its operation: the   *)
(* tick in the flag time_to_wakeup, a removal in delete_buffer, which has  *)
(* room for a bounded number of them.                                      *)
(*                                                                         *)
(* SleepClients puts this together with tasks that wait with a timeout,    *)
(* Mailbox with the mailbox, whose notifications are what removes tasks.   *)
(*                                                                         *)
(* The soft lock is reduced to its two flags as SoftLock shows them to     *)
(* work: the holder leaves only when the pending flag is clear.  What the  *)
(* holder does with a pended operation is this module's own code.          *)
(* `sleep_begin_tick + ms` wraps, as it does in a release build.           *)
(***************************************************************************)
EXTENDS SingleCore, Integers, TaskList

CONSTANTS
    Half,              \* half the range of the tick counter, 2^31 in the code
    SysTick,           \* the interrupt priority of SysTick
    Durations,         \* the sleeping times that are tried
    Interval,          \* the interval of the barriers
    Calls,             \* the calls that each task makes
    BootedFor,         \* the ticks counted before the model begins
    BufferSize,        \* the capacity of delete_buffer, MAX_TASK_NUMBER
    MaxTicksPerHold,   \* bound: so many ticks come while the queue is locked
    MaxLag,            \* bound: a task is so many ticks late before it is in
                       \* the queue
    MaxLate,           \* bound: a delay is counted no further
    MaxAhead           \* bound: nobody waits at a barrier that is further ahead

Modulus == 2 * Half
Ticks == 0 .. Modulus - 1
NoBarrier == Modulus

ASSUME TickAssumption == Half \in Nat \ {0} /\ BootedFor \in Nat /\ BufferSize \in Nat
ASSUME SysTickAssumption == SysTick \in Irq
ASSUME DurationAssumption == Durations \subseteq 0 .. Modulus - 1 /\ Interval \in 1 .. Half - 1
ASSUME BoundAssumption ==
    /\ MaxTicksPerHold \in Nat \ {0} /\ MaxLag \in Nat /\ MaxLate \in Nat
    /\ MaxTicksPerHold <= MaxLag /\ MaxLag + MaxTicksPerHold <= MaxLate
    /\ MaxAhead \in Nat /\ Interval <= MaxAhead /\ MaxAhead + Interval < Half

VARIABLES
    TICKS,
    time_sorted_queue, delete_buffer, time_to_wakeup,   \* Inner
    s_locked, s_pending,     \* the flags of the soft lock around Inner
    wake_tick,               \* Task::wake_at_tick, and before the task is in
                             \* the queue the locals it is computed from
    next_tick_to_wake,       \* of the IntervalBarrier a task has
    call,                    \* the call a task is in
    whom,                    \* the task that a context takes out of the queue
    ret,                     \* where a context goes on after the queue
    held,                    \* ticks since the queue was locked
    left,                    \* history: ticks until the sleep of a task is over
    until_barrier            \* history: ticks until its barrier opens

squeue == <<time_sorted_queue, delete_buffer, time_to_wakeup, s_locked, s_pending>>
barriers == <<next_tick_to_wake, until_barrier>>
sqvars == <<cur, state, pc, TICKS, squeue, wake_tick, barriers, call, whom, ret, held, left>>

\* A context inside the queue has the scheduler suspended.
SuspendedSteps == {"s_add", "s_insert", "s_remove", "s_take", "s_leave", "s_run",
                   "expire", "drain", "expire_pended", "drain_pended", "clear", "die"}
SleepSteps == SuspendedSteps \union {"home", "bsleep", "compare", "block", "yield", "slept",
                                     "s_wake", "hang"}

InitSleepQueue ==
    /\ InitCore
    /\ TICKS = BootedFor % Modulus
    /\ time_sorted_queue = <<>> /\ delete_buffer = <<>> /\ time_to_wakeup = FALSE
    /\ s_locked = FALSE /\ s_pending = FALSE
    /\ wake_tick = [t \in Task |-> 0]
    /\ next_tick_to_wake = [t \in Task |-> NoBarrier]
    /\ call = [t \in Task |-> "none"]
    /\ whom = [c \in Ctx |-> Idle]
    /\ ret = [c \in Ctx |-> "home"]
    /\ held = 0
    /\ left = [t \in Task |-> 0]
    /\ until_barrier = [t \in Task |-> 0]

-----------------------------------------------------------------------------
(***************************************************************************)
(* Faults: what a plausible mistake in time/mod.rs or task_list.rs would   *)
(* make of an operator below.  No specification uses them.                 *)
(***************************************************************************)
\* The ticks are compared as numbers.
cmp(lhs, rhs) == IF lhs = rhs THEN 0 ELSE IF lhs < rhs THEN -1 ELSE 1

\* The pending flag is read and not cleared before the pended operation is run.
s_leave_keeps_flag(c) ==
    /\ At(c, "s_leave")
    /\ IF s_pending
         THEN Goto(c, "s_run") /\ UNCHANGED <<s_locked, ret, held>>
         ELSE /\ s_locked' = FALSE /\ held' = 0
              /\ Goto(c, ret[c])
              /\ ret' = [ret EXCEPT ![c] = "home"]
    /\ UNCHANGED <<cur, state, TICKS, time_sorted_queue, delete_buffer, time_to_wakeup, s_pending,
                   wake_tick, barriers, call, whom, left>>

-----------------------------------------------------------------------------
\* tick_cmp, as the sign of the wrapping difference.
tick_cmp(lhs, rhs) ==
    LET d == (lhs - rhs) % Modulus IN
    IF d = 0 THEN 0 ELSE IF d < Half THEN 1 ELSE -1

\* TaskListInterfaces::push_back_tick_sorted: before the first task with a
\* greater wake-up tick.
push_back_tick_sorted(list, t, tick) ==
    LET later == {i \in DOMAIN list : tick_cmp(tick, wake_tick[list[i]]) = -1}
        at == IF later = {} THEN Len(list) + 1 ELSE Min(later)
    IN  InsertAt(list, at, t)

\* TaskListInterfaces::remove_task
remove_tasks(list, ts) == Without(list, ts)

\* The tasks wake_expired_tasks takes from the front of the queue.
Expired(list) ==
    {list[i] : i \in {j \in DOMAIN list :
                         \A k \in 1 .. j : tick_cmp(wake_tick[list[k]], TICKS) # 1}}

-----------------------------------------------------------------------------
(***************************************************************************)
(* Entering and leaving the soft lock.                                     *)
(***************************************************************************)
Lock == s_locked' = TRUE /\ held' = 0

\* AccessGuard::drop.
s_leave(c) ==
    /\ At(c, "s_leave")
    /\ IF s_pending
         THEN /\ s_pending' = FALSE
              /\ Goto(c, "s_run")
              /\ UNCHANGED <<s_locked, ret, held>>
         ELSE /\ s_locked' = FALSE /\ held' = 0
              /\ Goto(c, ret[c])
              /\ ret' = [ret EXCEPT ![c] = "home"]
              /\ UNCHANGED s_pending
    /\ UNCHANGED <<cur, state, TICKS, time_sorted_queue, delete_buffer, time_to_wakeup,
                   wake_tick, barriers, call, whom, left>>

\* run_pended_op: the flag is tested, the queue is worked on, the flag is
\* cleared, and an interrupt can come in between.
run_pended_op(c) ==
    /\ At(c, "s_run")
    /\ Goto(c, IF time_to_wakeup THEN "expire_pended" ELSE "s_leave")
    /\ UNCHANGED <<cur, state, TICKS, squeue, wake_tick, barriers, call, whom, ret, held, left>>

wake_expired_tasks(c) ==
    /\ At(c, "expire") \/ At(c, "expire_pended")
    /\ time_sorted_queue' = remove_tasks(time_sorted_queue, Expired(time_sorted_queue))
    /\ accept_task(Expired(time_sorted_queue))
    /\ Goto(c, IF pc[c] = "expire" THEN "drain" ELSE "drain_pended")
    /\ UNCHANGED <<cur, TICKS, delete_buffer, time_to_wakeup, s_locked, s_pending,
                   wake_tick, barriers, call, whom, ret, held, left>>

drain_delete_buffer(c) ==
    /\ At(c, "drain") \/ At(c, "drain_pended")
    /\ LET removed == ToSet(delete_buffer) \intersect ToSet(time_sorted_queue) IN
       /\ time_sorted_queue' = remove_tasks(time_sorted_queue, removed)
       /\ accept_task(removed)
    /\ delete_buffer' = <<>>
    /\ Goto(c, IF pc[c] = "drain" THEN "s_leave" ELSE "clear")
    /\ UNCHANGED <<cur, TICKS, time_to_wakeup, s_locked, s_pending,
                   wake_tick, barriers, call, whom, ret, held, left>>

clear_time_to_wakeup(c) ==
    /\ At(c, "clear")
    /\ time_to_wakeup' = FALSE
    /\ Goto(c, "s_leave")
    /\ UNCHANGED <<cur, state, TICKS, time_sorted_queue, delete_buffer, s_locked, s_pending,
                   wake_tick, barriers, call, whom, ret, held, left>>

-----------------------------------------------------------------------------
(***************************************************************************)
(* systick_handler: advance_tick, then wake_sleeping_tasks.                *)
(***************************************************************************)
Later(n) == IF n > -MaxLate THEN n - 1 ELSE n

\* The bounds on the clock: it does not run away from a barrier by half the
\* range of the counter.
TickAllowed ==
    /\ s_locked => held < MaxTicksPerHold
    /\ \A t \in Task :
          /\ pc[t] \in {"compare", "block", "s_add", "s_insert"} => left[t] > -MaxLag
          /\ next_tick_to_wake[t] # NoBarrier => until_barrier[t] > 1 - Half

advance_tick ==
    /\ Arrives(SysTick)
    /\ TickAllowed
    /\ TICKS' = (TICKS + 1) % Modulus
    /\ left' = [t \in Task |-> IF call[t] = "none" THEN 0 ELSE Later(left[t])]
    /\ until_barrier' = [t \in Task |-> IF next_tick_to_wake[t] = NoBarrier THEN 0
                                        ELSE until_barrier[t] - 1]
    /\ held' = IF s_locked THEN held + 1 ELSE 0
    /\ Goto(SysTick, "s_wake")
    /\ UNCHANGED <<cur, state, squeue, wake_tick, next_tick_to_wake, call, whom, ret>>

wake_sleeping_tasks ==
    /\ At(SysTick, "s_wake")
    /\ IF s_locked
         THEN /\ time_to_wakeup' = TRUE /\ s_pending' = TRUE
              /\ Goto(SysTick, "home")
              /\ UNCHANGED <<s_locked, held>>
         ELSE /\ Lock
              /\ Goto(SysTick, "expire")
              /\ UNCHANGED <<time_to_wakeup, s_pending>>
    /\ UNCHANGED <<cur, state, TICKS, time_sorted_queue, delete_buffer,
                   wake_tick, barriers, call, whom, ret, left>>

(***************************************************************************)
(* add_task_to_sleep_queue, with the wake-up tick in wake_tick, and        *)
(* remove_task_from_sleep_queue_allow_isr.                                 *)
(***************************************************************************)
add_guard(t) ==
    /\ At(t, "s_add")
    /\ Lock
    /\ Goto(t, IF s_locked THEN "hang" ELSE "s_insert")
    /\ UNCHANGED <<cur, state, TICKS, time_sorted_queue, delete_buffer, time_to_wakeup, s_pending,
                   wake_tick, barriers, call, whom, ret, left>>

add_insert(t) ==
    /\ At(t, "s_insert")
    /\ time_sorted_queue' = push_back_tick_sorted(time_sorted_queue, t, wake_tick[t])
    /\ Goto(t, "s_leave")
    /\ UNCHANGED <<cur, state, TICKS, delete_buffer, time_to_wakeup, s_locked, s_pending,
                   wake_tick, barriers, call, whom, ret, held, left>>

\* enqueue().unwrap_or_die(): a context that finds delete_buffer full stays in
\* die, without having released the soft lock.
remove_guard(c) ==
    /\ At(c, "s_remove")
    /\ \/ /\ ~s_locked
          /\ Lock
          /\ Goto(c, "s_take")
          /\ UNCHANGED <<delete_buffer, s_pending, ret>>
       \/ /\ s_locked /\ Len(delete_buffer) < BufferSize
          /\ delete_buffer' = Append(delete_buffer, whom[c])
          /\ s_pending' = TRUE
          /\ Goto(c, ret[c]) /\ ret' = [ret EXCEPT ![c] = "home"]
          /\ UNCHANGED <<s_locked, held>>
       \/ /\ s_locked /\ Len(delete_buffer) >= BufferSize
          /\ Goto(c, "die")
          /\ UNCHANGED <<delete_buffer, s_locked, s_pending, ret, held>>
    /\ UNCHANGED <<cur, state, TICKS, time_sorted_queue, time_to_wakeup,
                   wake_tick, barriers, call, whom, left>>

remove_full(c) ==
    /\ At(c, "s_take")
    /\ LET removed == {whom[c]} \intersect ToSet(time_sorted_queue) IN
       /\ time_sorted_queue' = remove_tasks(time_sorted_queue, removed)
       /\ accept_task(removed)
    /\ Goto(c, "s_leave")
    /\ UNCHANGED <<cur, TICKS, delete_buffer, time_to_wakeup, s_locked, s_pending,
                   wake_tick, barriers, call, whom, ret, held, left>>

\* unrecoverable::die: an endless loop, which more urgent interrupts preempt.
die(c) == At(c, "die") /\ UNCHANGED sqvars

-----------------------------------------------------------------------------
(***************************************************************************)
(* sleep_ms, for a time that is not TooLong, and IntervalBarrier.          *)
(***************************************************************************)
\* sleep_ms_unchecked up to the computation of wake_at_tick.
BeginSleep(t, k, ms) ==
    /\ call' = [call EXCEPT ![t] = k]
    /\ wake_tick' = [wake_tick EXCEPT ![t] = (TICKS + ms) % Modulus]
    /\ left' = [left EXCEPT ![t] = ms]
    /\ Goto(t, "compare")

sleep_ms(t, ms) ==
    /\ At(t, "home") /\ "sleep" \in Calls[t]
    /\ ms < Half
    /\ BeginSleep(t, "sleep", ms)
    /\ UNCHANGED <<cur, state, TICKS, squeue, barriers, whom, ret, held>>

barrier_new(t) ==
    /\ At(t, "home") /\ "barrier" \in Calls[t]
    /\ next_tick_to_wake' = [next_tick_to_wake EXCEPT ![t] = (TICKS + Interval) % Modulus]
    /\ until_barrier' = [until_barrier EXCEPT ![t] = Interval]
    /\ UNCHANGED <<cur, state, pc, TICKS, squeue, wake_tick, call, whom, ret, held, left>>

\* The tick is read, and read again in sleep_ms_unchecked.
barrier_wait(t) ==
    /\ At(t, "home") /\ next_tick_to_wake[t] # NoBarrier
    /\ until_barrier[t] <= MaxAhead
    /\ IF tick_cmp(TICKS, next_tick_to_wake[t]) = -1
         THEN Goto(t, "bsleep")
         ELSE Goto(t, "slept")
    /\ call' = [call EXCEPT ![t] = "barrier"]
    /\ wake_tick' = [wake_tick EXCEPT ![t] = (next_tick_to_wake[t] - TICKS) % Modulus]
    /\ UNCHANGED <<cur, state, TICKS, squeue, barriers, whom, ret, held, left>>

barrier_sleep(t) ==
    /\ At(t, "bsleep")
    /\ BeginSleep(t, "barrier", wake_tick[t])
    /\ UNCHANGED <<cur, state, TICKS, squeue, barriers, whom, ret, held>>

sleep_compare(t) ==
    /\ At(t, "compare")
    /\ Goto(t, IF tick_cmp(TICKS, wake_tick[t]) = -1 THEN "block" ELSE "slept")
    /\ UNCHANGED <<cur, state, TICKS, squeue, wake_tick, barriers, call, whom, ret, held, left>>

\* add_cur_task_to_sleep_queue: the scheduler is suspended from here on.
sleep_block(t) ==
    /\ At(t, "block")
    /\ state' = [state EXCEPT ![t] = "Blocked"]
    /\ ret' = [ret EXCEPT ![t] = "yield"]
    /\ Goto(t, "s_add")
    /\ UNCHANGED <<cur, TICKS, squeue, wake_tick, barriers, call, whom, held, left>>

\* The wake-up tick is not read again before it is overwritten.
sleep_return(t) ==
    /\ At(t, "slept")
    /\ IF call[t] = "barrier"
         THEN /\ next_tick_to_wake' = [next_tick_to_wake EXCEPT ![t] = (@ + Interval) % Modulus]
              /\ until_barrier' = [until_barrier EXCEPT ![t] = @ + Interval]
         ELSE UNCHANGED barriers
    /\ call' = [call EXCEPT ![t] = "none"]
    /\ left' = [left EXCEPT ![t] = 0]
    /\ wake_tick' = [wake_tick EXCEPT ![t] = 0]
    /\ Goto(t, "home")
    /\ UNCHANGED <<cur, state, TICKS, squeue, whom, ret, held>>

-----------------------------------------------------------------------------
SleepCall(t) ==
    \/ \E ms \in Durations : sleep_ms(t, ms)
    \/ barrier_new(t) \/ barrier_wait(t)

SleepStep(c) ==
    \/ s_leave(c) \/ run_pended_op(c)
    \/ wake_expired_tasks(c) \/ drain_delete_buffer(c) \/ clear_time_to_wakeup(c)
    \/ c = SysTick /\ wake_sleeping_tasks
    \/ c \in Task /\ (add_guard(c) \/ add_insert(c))

RemoveStep(c) == remove_guard(c) \/ remove_full(c) \/ die(c)

-----------------------------------------------------------------------------
TypeOKSleep(Steps, CallNames) ==
    /\ TypeOKCore(Steps)
    /\ TICKS \in Ticks
    /\ time_sorted_queue \in Seq(Task) /\ delete_buffer \in Seq(Task)
    /\ time_to_wakeup \in BOOLEAN /\ s_locked \in BOOLEAN /\ s_pending \in BOOLEAN
    /\ wake_tick \in [Task -> Ticks]
    /\ next_tick_to_wake \in [Task -> Ticks \union {NoBarrier}]
    /\ call \in [Task -> CallNames]
    /\ whom \in [Ctx -> Task \union {Idle}]
    /\ ret \in [Ctx -> Steps]
    /\ held \in 0 .. MaxTicksPerHold
    /\ left \in [Task -> -MaxLate .. Modulus - 1]
    /\ until_barrier \in [Task -> 1 - Half .. Half - 1]

(***************************************************************************)
(* "the comparison using the relative tick yields the same result as if we *)
(* were using the absolute tick" (time/mod.rs, l. 271): the queue is in    *)
(* the order of the absolute wake-up times across the wrap of the counter, *)
(* also with tasks whose time has come and with tasks that are inserted    *)
(* late, as long as the lag and the sleeping time stay below half a range. *)
(***************************************************************************)
QueueOrdered ==
    \A i, j \in DOMAIN time_sorted_queue :
        i < j => left[time_sorted_queue[i]] <= left[time_sorted_queue[j]]

\* For which it is enough that the durations leave room for the lag below the
\* limit that sleep_ms puts on them.
WithinMargin ==
    /\ \A ms \in Durations \union {MaxAhead} : ms + MaxLag < Half
    /\ MaxLag + MaxTicksPerHold < Half

\* The sleep queue owns task t.
Queued(t) == Contains(time_sorted_queue, t)
=============================================================================
