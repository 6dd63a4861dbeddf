------------------------------ MODULE Scheduler ------------------------------
(***************************************************************************)
(* The scheduler of src/schedule/scheduler.rs on one core: the ready queue *)
(* behind its soft lock, suspension, the deferred context switch request,  *)
(* PendSV and pick_next, task creation under the quota, and destruction.   *)
(*                                                                         *)
(* The contexts are the tasks, of which only the current one executes in   *)
(* thread mode, and the exception levels 1 .. NIrq + 1.  Level 1 is the    *)
(* one SVC and PendSV share, the lowest; the others are interrupts.  A     *)
(* level can start between any two steps of a lower one (the kernel never  *)
(* masks interrupts) and returns before the lower one goes on.  A step is  *)
(* an access to a word that another context can touch; code that runs      *)
(* while its data are protected by the soft lock is one step.              *)
(*                                                                         *)
(* Blocked tasks sit in `waiting`, which stands for every wait queue,      *)
(* mailbox and sleep queue: a task or an interrupt takes a task from it    *)
(* and hands it to accept_task.                                            *)
(***************************************************************************)
EXTENDS Naturals, FiniteSets, SequencesExt

CONSTANTS
    Task,              \* identities of task structs
    Idle,              \* the idle task
    Main,              \* the task spawned at boot
    NIrq,              \* number of nested interrupt priorities
    MAX_TASK_NUMBER,   \* quota and capacity of insert_buffer
    Level,             \* task priority levels, smaller is more urgent
    InitialPriority,   \* priority a task is spawned with
    ALLOW_TASK_PREEMPTION,
    Calls,             \* the kernel calls that the application's tasks make
    SuspendedPriorityChange  \* may change_current_priority be called with
                             \* the scheduler suspended?

Kern == 1                  \* SVC and PendSV
Exc == 1 .. NIrq + 1       \* exception levels
Irq == 2 .. NIrq + 1       \* interrupts proper
Ctx == Task \union Exc

ASSUME TaskAssumption ==
    /\ Idle \in Task /\ Main \in Task /\ Idle # Main
    /\ Task \intersect Nat = {}
ASSUME IrqAssumption == NIrq \in Nat
ASSUME QuotaAssumption == MAX_TASK_NUMBER \in Nat /\ MAX_TASK_NUMBER >= 2
ASSUME PriorityAssumption ==
    /\ Level \subseteq Nat
    /\ InitialPriority \in [Task -> Level]
    \* priority.rs and config: no user task is as low as the idle task.
    /\ \A t \in Task \ {Idle} : InitialPriority[t] < InitialPriority[Idle]
ASSUME FlagAssumption ==
    ALLOW_TASK_PREEMPTION \in BOOLEAN /\ SuspendedPriorityChange \in BOOLEAN

VARIABLES
    locked, pending,      \* the soft lock around the ready queue
    insert_buffer,        \* Inner::insert_buffer
    ready_linked_list,    \* Inner::ready_linked_list
    SUSPEND_CNT,
    PENDING_CTXT_SWITCH,
    EXIST_TASK_NUM,
    CUR_TASK,
    CUR_TASK_IDLE,
    pendsv,               \* PendSV is pending in the interrupt controller
    state,                \* Task::state; "Unborn": no such task struct
    priority,             \* Task::priority
    waiting,              \* tasks in some wait object
    guards,               \* SchedSuspendGuards a task's user code holds
    pc,                   \* the step each context is at
    arg,                  \* the task handed to accept_task
    ret,                  \* where a context goes on after Scheduler::resume
    seen,                 \* EXIST_TASK_NUM as loaded by TaskQuota::new
    entry                 \* history: SUSPEND_CNT when a level was entered

queue == <<locked, pending, insert_buffer, ready_linked_list>>
task == <<state, priority, waiting, guards, EXIST_TASK_NUM>>
switch == <<CUR_TASK, CUR_TASK_IDLE>>
frame == <<arg, ret, seen, entry>>
vars == <<queue, task, switch, frame, SUSPEND_CNT, PENDING_CTXT_SWITCH, pendsv, pc>>

TaskState == {"Unborn", "Initializing", "Blocked", "Ready", "Running", "Destructing"}

Step == {"idle", "isr", "run", "dead", "die",
         "pop", "accept", "guard", "full", "pend", "flag",
         "swap", "drain", "unlock", "check", "relock",
         "dec", "chk", "outer_dec", "outer_chk",
         "enqueue", "yield", "setprio", "quota", "cas", "build",
         "destroy", "pick", "pick_guard", "pick_body"}

\* Scheduler::start: the idle task is current and about to yield for the
\* first time, the main task spawned by system_start is ready.
Init ==
    /\ locked = FALSE /\ pending = FALSE
    /\ insert_buffer = <<>> /\ ready_linked_list = <<Main>>
    /\ SUSPEND_CNT = 0 /\ PENDING_CTXT_SWITCH = FALSE
    /\ EXIST_TASK_NUM = 2
    /\ CUR_TASK = Idle /\ CUR_TASK_IDLE = TRUE
    /\ pendsv = FALSE
    /\ state = [t \in Task |-> IF t = Idle THEN "Running"
                               ELSE IF t = Main THEN "Ready" ELSE "Unborn"]
    /\ priority = InitialPriority
    /\ waiting = {}
    /\ guards = [t \in Task |-> 0]
    /\ pc = [c \in Ctx |-> IF c = Idle THEN "yield"
                           ELSE IF c \in Task THEN "run" ELSE "idle"]
    /\ arg = [c \in Ctx |-> Idle]
    /\ ret = [c \in Ctx |-> "run"]
    /\ seen = [t \in Task |-> 0]
    /\ entry = [e \in Exc |-> 0]

-----------------------------------------------------------------------------
(***************************************************************************)
(* Which context the core executes.  A pending PendSV is taken as soon as  *)
(* thread mode would go on (yield_current_task ends in dsb, isb).          *)
(***************************************************************************)
ThreadMode == \A e \in Exc : pc[e] = "idle"

Running(c) ==
    IF c \in Exc THEN pc[c] # "idle" /\ \A e \in Exc : e > c => pc[e] = "idle"
                 ELSE c = CUR_TASK /\ ThreadMode /\ ~pendsv

At(c, s) == Running(c) /\ pc[c] = s

Goto(c, s) == pc' = [pc EXCEPT ![c] = s]

\* The step at which a context executes application code.
Home(c) == IF c \in Task THEN "run" ELSE "isr"

\* Application code in a task or in an interrupt handler.  The idle task
\* only sleeps once it has yielded (idle.rs).
UserCode(c) == c # Idle /\ c # Kern /\ At(c, Home(c))

Enter(e, s) ==
    /\ Goto(e, s)
    /\ entry' = [entry EXCEPT ![e] = SUSPEND_CNT]

Suspend == SUSPEND_CNT' = SUSPEND_CNT + 1

-----------------------------------------------------------------------------
(***************************************************************************)
(* Faults: what a plausible mistake in the scheduler would make of an      *)
(* operator below.  Each one breaks the property PROJECT.json pairs it     *)
(* with; no specification uses them.                                       *)
(***************************************************************************)
\* should_preempt compares the numbers the wrong way round.
should_preempt_reversed(t, cur) == ALLOW_TASK_PREEMPTION /\ priority[t] > priority[cur]

\* The list is searched for the largest priority number.
LowestPosition(list) ==
    CHOOSE i \in DOMAIN list : \A j \in DOMAIN list : priority[list[i]] >= priority[list[j]]

\* The pended insertion forgets the preemption check.
run_pended_op_without_preempt(c) ==
    /\ At(c, "drain")
    /\ \/ /\ insert_buffer = <<>>
          /\ Goto(c, "unlock")
          /\ UNCHANGED <<insert_buffer, ready_linked_list, state>>
       \/ /\ insert_buffer # <<>>
          /\ state' = [state EXCEPT ![Head(insert_buffer)] = "Ready"]
          /\ ready_linked_list' = Append(ready_linked_list, Head(insert_buffer))
          /\ insert_buffer' = Tail(insert_buffer)
          /\ UNCHANGED pc
    /\ UNCHANGED <<locked, pending, priority, waiting, guards, EXIST_TASK_NUM,
                   switch, frame, SUSPEND_CNT, PENDING_CTXT_SWITCH, pendsv>>

\* pick_next works on the ready list without suspending the scheduler.
pick_without_suspend ==
    /\ At(Kern, "pick")
    /\ Goto(Kern, "pick_guard")
    /\ UNCHANGED <<queue, task, switch, frame, SUSPEND_CNT, PENDING_CTXT_SWITCH, pendsv>>

\* A current task that was woken before it left is put back once more.
RequeuedTwice == IF state[CUR_TASK] \in {"Running", "Ready"}
                 THEN Append(ready_linked_list, CUR_TASK) ELSE ready_linked_list

\* yield_current does not ask whether the scheduler is suspended.
yield_while_suspended(t) ==
    /\ UserCode(t)
    /\ Goto(t, "yield")
    /\ UNCHANGED <<queue, task, switch, frame, SUSPEND_CNT, PENDING_CTXT_SWITCH, pendsv>>

\* The quota is taken by a store instead of a compare_exchange.
quota_store(t) ==
    /\ At(t, "cas")
    /\ seen' = [seen EXCEPT ![t] = 0]
    /\ EXIST_TASK_NUM' = seen[t] + 1
    /\ Goto(t, "build")
    /\ UNCHANGED <<queue, state, priority, waiting, guards, switch, arg, ret, entry,
                   SUSPEND_CNT, PENDING_CTXT_SWITCH, pendsv>>

-----------------------------------------------------------------------------

\* Task::should_preempt.
should_preempt(t, cur) == ALLOW_TASK_PREEMPTION /\ priority[t] < priority[cur]

\* The common part of insert_task_to_ready_queue and run_pended_op.
LinkReady(t) ==
    /\ PENDING_CTXT_SWITCH' = (PENDING_CTXT_SWITCH \/ should_preempt(t, CUR_TASK))
    /\ state' = [state EXCEPT ![t] = "Ready"]
    /\ ready_linked_list' = Append(ready_linked_list, t)

\* TaskListInterfaces::pop_highest_priority: the position of the first of
\* the most urgent tasks.
HighestPosition(list) ==
    CHOOSE i \in DOMAIN list :
        /\ \A j \in DOMAIN list : priority[list[i]] <= priority[list[j]]
        /\ \A j \in DOMAIN list : j < i => priority[list[i]] < priority[list[j]]

-----------------------------------------------------------------------------
(***************************************************************************)
(* Scheduler::accept_task, by a task or an interrupt.                      *)
(***************************************************************************)
accept_suspend(c) ==
    /\ At(c, "accept")
    /\ Suspend
    /\ Goto(c, "guard")
    /\ UNCHANGED <<queue, task, switch, frame, PENDING_CTXT_SWITCH, pendsv>>

accept_guard(c) ==
    /\ At(c, "guard")
    /\ locked' = TRUE
    /\ Goto(c, IF locked THEN "pend" ELSE "full")
    /\ UNCHANGED <<pending, insert_buffer, ready_linked_list, task, switch, frame,
                   SUSPEND_CNT, PENDING_CTXT_SWITCH, pendsv>>

accept_full(c) ==
    /\ At(c, "full")
    /\ LinkReady(arg[c])
    /\ Goto(c, "swap")
    /\ UNCHANGED <<locked, pending, insert_buffer, priority, waiting, guards,
                   EXIST_TASK_NUM, switch, frame, SUSPEND_CNT, pendsv>>

accept_pend(c) ==
    /\ At(c, "pend")
    /\ IF Len(insert_buffer) < MAX_TASK_NUMBER
         THEN insert_buffer' = Append(insert_buffer, arg[c]) /\ Goto(c, "flag")
         ELSE UNCHANGED insert_buffer /\ Goto(c, "die")
    /\ UNCHANGED <<locked, pending, ready_linked_list, task, switch, frame,
                   SUSPEND_CNT, PENDING_CTXT_SWITCH, pendsv>>

(***************************************************************************)
(* AccessGuard::drop on the ready queue, with run_pended_op.               *)
(***************************************************************************)
drop_pend_only(c) ==
    /\ At(c, "flag")
    /\ pending' = TRUE
    /\ Goto(c, "dec")
    /\ UNCHANGED <<locked, insert_buffer, ready_linked_list, task, switch, frame,
                   SUSPEND_CNT, PENDING_CTXT_SWITCH, pendsv>>

drop_swap_pending(c) ==
    /\ At(c, "swap")
    /\ pending' = FALSE
    /\ Goto(c, IF pending THEN "drain" ELSE "unlock")
    /\ UNCHANGED <<locked, insert_buffer, ready_linked_list, task, switch, frame,
                   SUSPEND_CNT, PENDING_CTXT_SWITCH, pendsv>>

run_pended_op(c) ==
    /\ At(c, "drain")
    /\ \/ /\ insert_buffer = <<>>
          /\ Goto(c, "unlock")
          /\ UNCHANGED <<insert_buffer, ready_linked_list, state, PENDING_CTXT_SWITCH>>
       \/ /\ insert_buffer # <<>>
          /\ LinkReady(Head(insert_buffer))
          /\ insert_buffer' = Tail(insert_buffer)
          /\ UNCHANGED pc
    /\ UNCHANGED <<locked, pending, priority, waiting, guards, EXIST_TASK_NUM,
                   switch, frame, SUSPEND_CNT, pendsv>>

drop_unlock(c) ==
    /\ At(c, "unlock")
    /\ locked' = FALSE
    /\ Goto(c, "check")
    /\ UNCHANGED <<pending, insert_buffer, ready_linked_list, task, switch, frame,
                   SUSPEND_CNT, PENDING_CTXT_SWITCH, pendsv>>

drop_check_pending(c) ==
    /\ At(c, "check")
    /\ Goto(c, IF pending THEN "relock" ELSE "dec")
    /\ UNCHANGED <<queue, task, switch, frame, SUSPEND_CNT, PENDING_CTXT_SWITCH, pendsv>>

drop_relock(c) ==
    /\ At(c, "relock")
    /\ locked' = TRUE
    /\ Goto(c, IF locked THEN "die" ELSE "swap")
    /\ UNCHANGED <<pending, insert_buffer, ready_linked_list, task, switch, frame,
                   SUSPEND_CNT, PENDING_CTXT_SWITCH, pendsv>>

(***************************************************************************)
(* Scheduler::resume, for the guard of accept_task, pick_next, a blocking  *)
(* call or user code ("dec", "chk"), and for the guard a notifier holds    *)
(* around accept_task ("outer_dec", "outer_chk").  The locals of the call  *)
(* (arg, ret) go out of scope with it.                                     *)
(***************************************************************************)
resume_dec(c) ==
    /\ Running(c) /\ pc[c] \in {"dec", "outer_dec"}
    /\ SUSPEND_CNT' = SUSPEND_CNT - 1
    /\ Goto(c, IF pc[c] = "dec" THEN "chk" ELSE "outer_chk")
    /\ UNCHANGED <<queue, task, switch, frame, PENDING_CTXT_SWITCH, pendsv>>

resume_chk(c) ==
    /\ Running(c) /\ pc[c] \in {"chk", "outer_chk"}
    /\ pendsv' = (pendsv \/ (SUSPEND_CNT = 0 /\ PENDING_CTXT_SWITCH))
    /\ Goto(c, IF pc[c] = "chk" THEN ret[c] ELSE Home(c))
    /\ arg' = [arg EXCEPT ![c] = Idle]
    /\ ret' = [ret EXCEPT ![c] = "run"]
    /\ UNCHANGED <<queue, task, switch, seen, entry, SUSPEND_CNT, PENDING_CTXT_SWITCH>>

-----------------------------------------------------------------------------
(***************************************************************************)
(* Scheduler::pick_next in the PendSV handler.                             *)
(***************************************************************************)
pendsv_entry ==
    /\ pendsv /\ ThreadMode
    /\ pendsv' = FALSE
    /\ Enter(Kern, "pick")
    /\ UNCHANGED <<queue, task, switch, arg, ret, seen, SUSPEND_CNT, PENDING_CTXT_SWITCH>>

pick_suspend ==
    /\ At(Kern, "pick")
    /\ IF SUSPEND_CNT > 0
         THEN Goto(Kern, "die") /\ UNCHANGED SUSPEND_CNT
         ELSE Goto(Kern, "pick_guard") /\ Suspend
    /\ UNCHANGED <<queue, task, switch, frame, PENDING_CTXT_SWITCH, pendsv>>

pick_guard ==
    /\ At(Kern, "pick_guard")
    /\ locked' = TRUE
    /\ Goto(Kern, IF locked THEN "die" ELSE "pick_body")
    /\ UNCHANGED <<pending, insert_buffer, ready_linked_list, task, switch, frame,
                   SUSPEND_CNT, PENDING_CTXT_SWITCH, pendsv>>

\* The ready list after the current task has been dealt with: only a task
\* that is still Running is put back.
Requeued == IF state[CUR_TASK] = "Running"
            THEN Append(ready_linked_list, CUR_TASK) ELSE ready_linked_list

\* The new state of the tasks when `next` is switched in.  Replacing the
\* CUR_TASK reference of a Destructing task drops its struct.
SwitchedState(next) ==
    [t \in Task |-> IF t = next THEN "Running"
                    ELSE IF t = CUR_TASK /\ state[t] = "Running" THEN "Ready"
                    ELSE IF t = CUR_TASK /\ state[t] = "Destructing" THEN "Unborn"
                    ELSE state[t]]

pick_body ==
    /\ At(Kern, "pick_body")
    /\ IF state[CUR_TASK] = "Initializing" \/ Requeued = <<>>
         THEN /\ Goto(Kern, "die")
              /\ UNCHANGED <<ready_linked_list, state, EXIST_TASK_NUM, switch,
                             PENDING_CTXT_SWITCH, ret>>
         ELSE LET pos == HighestPosition(Requeued)
                  next == Requeued[pos] IN
              /\ ready_linked_list' = RemoveAt(Requeued, pos)
              /\ state' = SwitchedState(next)
              /\ EXIST_TASK_NUM' = IF state[CUR_TASK] = "Destructing"
                                   THEN EXIST_TASK_NUM - 1 ELSE EXIST_TASK_NUM
              /\ CUR_TASK' = next
              /\ CUR_TASK_IDLE' = (next = Idle)
              /\ PENDING_CTXT_SWITCH' = FALSE
              /\ ret' = [ret EXCEPT ![Kern] = "idle"]
              /\ Goto(Kern, "swap")
    /\ UNCHANGED <<locked, pending, insert_buffer, priority, waiting, guards, arg, seen,
                   entry, SUSPEND_CNT, pendsv>>

-----------------------------------------------------------------------------
(***************************************************************************)
(* Interrupts.                                                             *)
(***************************************************************************)
irq_entry(e) ==
    /\ \A f \in Exc : f >= e => pc[f] = "idle"
    /\ Enter(e, "isr")
    /\ UNCHANGED <<queue, task, switch, arg, ret, seen, SUSPEND_CNT,
                   PENDING_CTXT_SWITCH, pendsv>>

irq_return(e) ==
    /\ At(e, "isr")
    /\ Goto(e, "idle")
    /\ entry' = [entry EXCEPT ![e] = 0]
    /\ UNCHANGED <<queue, task, switch, arg, ret, seen, SUSPEND_CNT, PENDING_CTXT_SWITCH,
                   pendsv>>

(***************************************************************************)
(* A notifier: a wait object is locked with the scheduler suspended, a     *)
(* task is taken out of it (if there is one) and handed to accept_task.    *)
(***************************************************************************)
notify(c) ==
    /\ UserCode(c)
    /\ Suspend
    /\ Goto(c, "pop")
    /\ UNCHANGED <<queue, task, switch, frame, PENDING_CTXT_SWITCH, pendsv>>

notify_pop(c) ==
    /\ At(c, "pop")
    /\ \/ /\ waiting = {}
          /\ Goto(c, "outer_dec")
          /\ UNCHANGED <<waiting, arg, ret>>
       \/ \E t \in waiting :
             /\ waiting' = waiting \ {t}
             /\ arg' = [arg EXCEPT ![c] = t]
             /\ ret' = [ret EXCEPT ![c] = "outer_dec"]
             /\ Goto(c, "accept")
    /\ UNCHANGED <<queue, state, priority, guards, EXIST_TASK_NUM, switch, seen, entry,
                   SUSPEND_CNT, PENDING_CTXT_SWITCH, pendsv>>

(***************************************************************************)
(* Tasks: a SpinSchedSafe guard in user code, yielding, blocking in a wait *)
(* object (which panics with the scheduler suspended), changing priority.  *)
(***************************************************************************)
hold_guard(t) ==
    /\ UserCode(t) /\ guards[t] = 0
    /\ guards' = [guards EXCEPT ![t] = 1]
    /\ Suspend
    /\ UNCHANGED <<queue, state, priority, waiting, EXIST_TASK_NUM, switch, frame,
                   PENDING_CTXT_SWITCH, pendsv, pc>>

drop_guard(t) ==
    /\ UserCode(t) /\ guards[t] = 1
    /\ guards' = [guards EXCEPT ![t] = 0]
    /\ ret' = [ret EXCEPT ![t] = "run"]
    /\ Goto(t, "dec")
    /\ UNCHANGED <<queue, state, priority, waiting, EXIST_TASK_NUM, switch, arg, seen,
                   entry, SUSPEND_CNT, PENDING_CTXT_SWITCH, pendsv>>

yield_current(t) ==
    /\ UserCode(t) /\ SUSPEND_CNT = 0
    /\ Goto(t, "yield")
    /\ UNCHANGED <<queue, task, switch, frame, SUSPEND_CNT, PENDING_CTXT_SWITCH, pendsv>>

yield_current_task(t) ==
    /\ At(t, "yield")
    /\ pendsv' = TRUE
    /\ Goto(t, "run")
    /\ UNCHANGED <<queue, task, switch, frame, SUSPEND_CNT, PENDING_CTXT_SWITCH>>

block(t) ==
    /\ UserCode(t) /\ SUSPEND_CNT = 0
    /\ Suspend
    /\ Goto(t, "enqueue")
    /\ UNCHANGED <<queue, task, switch, frame, PENDING_CTXT_SWITCH, pendsv>>

block_enqueue(t) ==
    /\ At(t, "enqueue")
    /\ state' = [state EXCEPT ![t] = "Blocked"]
    /\ waiting' = waiting \union {t}
    /\ ret' = [ret EXCEPT ![t] = "yield"]
    /\ Goto(t, "dec")
    /\ UNCHANGED <<queue, priority, guards, EXIST_TASK_NUM, switch, arg, seen, entry,
                   SUSPEND_CNT, PENDING_CTXT_SWITCH, pendsv>>

change_current_priority(t) ==
    /\ UserCode(t) /\ (SuspendedPriorityChange \/ SUSPEND_CNT = 0)
    /\ Suspend
    /\ Goto(t, "setprio")
    /\ UNCHANGED <<queue, task, switch, frame, PENDING_CTXT_SWITCH, pendsv>>

change_intrinsic_priority(t, p) ==
    /\ At(t, "setprio") /\ p < InitialPriority[Idle]
    /\ priority' = [priority EXCEPT ![t] = p]
    /\ ret' = [ret EXCEPT ![t] = "yield"]
    /\ Goto(t, "dec")
    /\ UNCHANGED <<queue, state, waiting, guards, EXIST_TASK_NUM, switch, arg, seen,
                   entry, SUSPEND_CNT, PENDING_CTXT_SWITCH, pendsv>>

(***************************************************************************)
(* Creation: TaskQuota::new (a weak compare_exchange loop), building the   *)
(* task struct, which may fail and give the quota back, and accept_task.   *)
(***************************************************************************)
spawn(t) ==
    /\ UserCode(t)
    /\ Goto(t, "quota")
    /\ UNCHANGED <<queue, task, switch, frame, SUSPEND_CNT, PENDING_CTXT_SWITCH, pendsv>>

quota_load(t) ==
    /\ At(t, "quota")
    /\ seen' = [seen EXCEPT ![t] = EXIST_TASK_NUM]
    /\ Goto(t, IF EXIST_TASK_NUM < MAX_TASK_NUMBER THEN "cas" ELSE "run")
    /\ UNCHANGED <<queue, task, switch, arg, ret, entry, SUSPEND_CNT,
                   PENDING_CTXT_SWITCH, pendsv>>

quota_cas(t) ==
    /\ At(t, "cas")
    /\ seen' = [seen EXCEPT ![t] = 0]
    /\ \/ /\ EXIST_TASK_NUM = seen[t]
          /\ EXIST_TASK_NUM' = EXIST_TASK_NUM + 1
          /\ Goto(t, "build")
       \/ /\ Goto(t, "quota")
          /\ UNCHANGED EXIST_TASK_NUM
    /\ UNCHANGED <<queue, state, priority, waiting, guards, switch, arg, ret, entry,
                   SUSPEND_CNT, PENDING_CTXT_SWITCH, pendsv>>

build(t) ==
    /\ At(t, "build")
    /\ \/ \E n \in Task :
             /\ state[n] = "Unborn"
             /\ state' = [state EXCEPT ![n] = "Initializing"]
             /\ priority' = [priority EXCEPT ![n] = InitialPriority[n]]
             /\ arg' = [arg EXCEPT ![t] = n]
             /\ ret' = [ret EXCEPT ![t] = "run"]
             /\ pc' = [pc EXCEPT ![t] = "accept", ![n] = "run"]
             /\ UNCHANGED EXIST_TASK_NUM
       \/ /\ EXIST_TASK_NUM' = EXIST_TASK_NUM - 1
          /\ Goto(t, "run")
          /\ UNCHANGED <<state, priority, arg, ret>>
    /\ UNCHANGED <<queue, waiting, guards, switch, seen, entry, SUSPEND_CNT,
                   PENDING_CTXT_SWITCH, pendsv>>

(***************************************************************************)
(* Destruction: the task traps into SVC, drop_current_task_from_svc marks  *)
(* it and tail-chains a PendSV.                                            *)
(***************************************************************************)
svc_destroy_current_task(t) ==
    /\ UserCode(t) /\ t \in Task /\ guards[t] = 0
    /\ pc' = [pc EXCEPT ![t] = "dead", ![Kern] = "destroy"]
    /\ entry' = [entry EXCEPT ![Kern] = SUSPEND_CNT]
    /\ UNCHANGED <<queue, task, switch, arg, ret, seen, SUSPEND_CNT,
                   PENDING_CTXT_SWITCH, pendsv>>

drop_current_task_from_svc ==
    /\ At(Kern, "destroy")
    /\ state' = [state EXCEPT ![CUR_TASK] = "Destructing"]
    /\ pendsv' = TRUE
    /\ Goto(Kern, "idle")
    /\ UNCHANGED <<queue, priority, waiting, guards, EXIST_TASK_NUM, switch, frame,
                   SUSPEND_CNT, PENDING_CTXT_SWITCH>>

-----------------------------------------------------------------------------
\* Steps any context can be in the middle of.
KernelStep(c) ==
    \/ accept_suspend(c) \/ accept_guard(c) \/ accept_full(c) \/ accept_pend(c)
    \/ drop_pend_only(c) \/ drop_swap_pending(c) \/ run_pended_op(c)
    \/ drop_unlock(c) \/ drop_check_pending(c) \/ drop_relock(c)
    \/ resume_dec(c) \/ resume_chk(c)
    \/ notify_pop(c)

PickNext == pendsv_entry \/ pick_suspend \/ pick_guard \/ pick_body

\* Steps of a task that is inside a kernel call, and its calls.
TaskStep(t) ==
    \/ yield_current_task(t) \/ block_enqueue(t)
    \/ quota_load(t) \/ quota_cas(t) \/ build(t)
    \/ \E p \in Level : change_intrinsic_priority(t, p)

TaskCall(t) ==
    \/ "guard" \in Calls /\ (hold_guard(t) \/ drop_guard(t))
    \/ "yield" \in Calls /\ yield_current(t)
    \/ "block" \in Calls /\ block(t)
    \/ "priority" \in Calls /\ change_current_priority(t)
    \/ "spawn" \in Calls /\ spawn(t)
    \/ "exit" \in Calls /\ svc_destroy_current_task(t)

Next ==
    \/ \E c \in Ctx : KernelStep(c) \/ notify(c)
    \/ PickNext
    \/ \E t \in Task : TaskStep(t) \/ TaskCall(t)
    \/ \E e \in Irq : irq_entry(e) \/ irq_return(e)
    \/ drop_current_task_from_svc

Spec == Init /\ [][Next]_vars

(***************************************************************************)
(* Fairness.  An interrupted context eventually goes on, an interrupt      *)
(* handler eventually returns, a weak compare_exchange does not fail       *)
(* spuriously for ever and user code does not keep the scheduler suspended *)
(* for ever.  Nothing says that user code ever yields or that an interrupt *)
(* ever arrives.  Strong fairness, because an interrupt disables the steps *)
(* of what it preempts.                                                    *)
(***************************************************************************)
Fairness ==
    /\ \A e \in Exc : SF_vars(KernelStep(e))
    /\ \A e \in Irq : SF_vars(irq_return(e))
    /\ SF_vars(PickNext)
    /\ SF_vars(drop_current_task_from_svc)
    /\ SF_vars(\E t \in Task : KernelStep(t) \/ TaskStep(t))
    /\ SF_vars(\E t \in Task : quota_cas(t) /\ EXIST_TASK_NUM' # EXIST_TASK_NUM)
    /\ SF_vars(\E t \in Task : drop_guard(t))

FairSpec == Spec /\ Fairness

-----------------------------------------------------------------------------
TypeOK ==
    /\ locked \in BOOLEAN /\ pending \in BOOLEAN
    /\ insert_buffer \in Seq(Task) /\ ready_linked_list \in Seq(Task)
    /\ SUSPEND_CNT \in Nat /\ PENDING_CTXT_SWITCH \in BOOLEAN
    /\ EXIST_TASK_NUM \in Nat
    /\ CUR_TASK \in Task /\ CUR_TASK_IDLE \in BOOLEAN
    /\ pendsv \in BOOLEAN
    /\ state \in [Task -> TaskState]
    /\ priority \in [Task -> Level]
    /\ waiting \subseteq Task
    /\ guards \in [Task -> {0, 1}]
    /\ pc \in [Ctx -> Step]
    /\ arg \in [Ctx -> Task]
    /\ ret \in [Ctx -> {"run", "yield", "idle", "outer_dec"}]
    /\ seen \in [Task -> Nat]
    /\ entry \in [Exc -> Nat]

(***************************************************************************)
(* None of the places where the kernel gives up is reached: pick_next      *)
(* never finds the scheduler suspended (scheduler.rs l. 188), nor the      *)
(* ready queue locked (l. 193), nor the current task uninitialised         *)
(* (l. 228), nor nothing to run (l. 234); insert_buffer never overflows    *)
(* (l. 318); the soft lock is never found taken when it is retaken.        *)
(***************************************************************************)
NeverDies == \A c \in Ctx : pc[c] # "die"

(***************************************************************************)
(* Every task struct is in the place its state says and in no other, at    *)
(* every moment, also while an interrupt hands it over and while a task    *)
(* that is being woken has not left the CPU yet (l. 216-226): no task is   *)
(* lost, and none is linked into two lists, which would panic.             *)
(***************************************************************************)
InHand(t) == {c \in Ctx : pc[c] \in {"accept", "guard", "full", "pend"} /\ arg[c] = t}
Places(t) ==
    {<<"ready", i>> : i \in {j \in DOMAIN ready_linked_list : ready_linked_list[j] = t}}
    \union {<<"buffer", i>> : i \in {j \in DOMAIN insert_buffer : insert_buffer[j] = t}}
    \union {<<"hand", c>> : c \in InHand(t)}
    \union {<<"waiting", 0>> : u \in waiting \intersect {t}}

OnePlace ==
    \A t \in Task :
        /\ Cardinality(Places(t)) =
              (IF state[t] \in {"Unborn", "Running", "Destructing"} THEN 0 ELSE 1)
        /\ Contains(ready_linked_list, t) <=> state[t] = "Ready"
        /\ t \in waiting => state[t] = "Blocked"
        /\ state[t] \in {"Running", "Destructing"} => t = CUR_TASK
        /\ t = CUR_TASK => state[t] \notin {"Unborn", "Initializing"}

(***************************************************************************)
(* A more urgent ready task does not wait: whenever a task executes in     *)
(* thread mode with the scheduler running and is not just about to look at *)
(* PENDING_CTXT_SWITCH or to yield, no task in the ready list is more      *)
(* urgent than it and none is stuck in insert_buffer (resume, l. 333-344). *)
(***************************************************************************)
Undisturbed ==
    /\ ThreadMode /\ ~pendsv /\ SUSPEND_CNT = 0
    /\ pc[CUR_TASK] \notin {"chk", "outer_chk", "yield"}

NoMissedPreemption ==
    Undisturbed =>
        /\ insert_buffer = <<>> /\ ~pending /\ ~locked
        /\ ALLOW_TASK_PREEMPTION =>
              \A t \in Task : state[t] = "Ready" => priority[t] >= priority[CUR_TASK]

(***************************************************************************)
(* EXIST_TASK_NUM counts the task structs and the quotas of tasks being    *)
(* built, and stays within MAX_TASK_NUMBER however spawners preempt one    *)
(* another in TaskQuota::new and whatever building them comes to.          *)
(***************************************************************************)
QuotaExact ==
    /\ EXIST_TASK_NUM = Cardinality({t \in Task : state[t] # "Unborn"})
                        + Cardinality({t \in Task : pc[t] = "build"})
    /\ EXIST_TASK_NUM <= MAX_TASK_NUMBER

(***************************************************************************)
(* A woken task that is more urgent than every other eventually runs, from *)
(* the moment it is taken out of its wait object; and the idle task gives  *)
(* way to every task: "whenever a task becomes ready, that task will be    *)
(* chosen by the scheduler to run" (idle.rs, l. 25-26).                    *)
(***************************************************************************)
Woken(t) == state[t] = "Ready" \/ (state[t] = "Blocked" /\ t \notin waiting)
MostUrgent(t) == \A u \in Task \ {t} : priority[t] < priority[u]
UrgentTaskRuns ==
    /\ \A t \in Task : (Woken(t) /\ MostUrgent(t)) ~> (state[t] = "Running" \/ ~MostUrgent(t))
    /\ (CUR_TASK = Idle /\ \E t \in Task : state[t] = "Ready") ~> (CUR_TASK # Idle)

-----------------------------------------------------------------------------
(***************************************************************************)
(* The inductive invariant of SchedulerProofs: how many suspensions each   *)
(* context owns, how they add up along the stack of preempted contexts,    *)
(* and who holds the soft lock of the ready queue.                         *)
(***************************************************************************)
\* Steps within a call of accept_task or pick_next ...
CallSteps == {"accept", "guard", "full", "pend", "flag", "swap", "drain", "unlock",
              "check", "relock", "dec", "chk", "die"}
\* ... and those at which a context holds a suspension of its own.
SuspendedSteps == (CallSteps \ {"accept", "chk"}) \union
                  {"pop", "outer_dec", "enqueue", "setprio", "pick_guard", "pick_body"}

Own(c) == (IF pc[c] \in SuspendedSteps THEN 1 ELSE 0)
          + (IF pc[c] \in CallSteps /\ ret[c] = "outer_dec" THEN 1 ELSE 0)
          + (IF c \in Task THEN guards[c] ELSE 0)

Active(e) == pc[e] # "idle"

\* SUSPEND_CNT is what the contexts on the stack own, one by one: each
\* level found what the contexts below it own together.
SuspensionStack ==
    /\ ThreadMode => SUSPEND_CNT = Own(CUR_TASK)
    /\ \A e \in Exc : Active(e) /\ (\A f \in Exc : f > e => ~Active(f))
                     => SUSPEND_CNT = entry[e] + Own(e)
    /\ \A e, f \in Exc : /\ e < f /\ Active(e) /\ Active(f)
                         /\ \A g \in Exc : e < g /\ g < f => ~Active(g)
                        => entry[f] = entry[e] + Own(e)
    /\ \A e \in Exc : Active(e) /\ (\A f \in Exc : f < e => ~Active(f))
                     => entry[e] = Own(CUR_TASK)
    /\ \A e \in Exc : Active(e) => entry[e] >= Own(CUR_TASK)

\* A task that is not current, or whose replacement is pending or under
\* way, owns no suspension.
SwitchedOutOwnNothing ==
    /\ \A t \in Task : t # CUR_TASK => Own(t) = 0
    /\ pendsv \/ Active(Kern) => Own(CUR_TASK) = 0
    /\ \A t \in Task :
         \/ pc[t] \in {"yield", "enqueue", "setprio", "dead"}
         \/ pc[t] \in {"dec", "chk"} /\ ret[t] = "yield"
         => guards[t] = 0

Below(c, d) == d \in Exc /\ (c \in Task \/ c < d)
Holder(c) == pc[c] \in {"full", "swap", "drain", "unlock", "pick_body"}
Pender(c) == pc[c] \in {"pend", "flag"}
Releasing(c) == pc[c] \in {"check", "relock"}

ReadyQueueLock ==
    /\ locked <=> \E c \in Ctx : Holder(c)
    /\ \A c, d \in Ctx : Holder(c) /\ Holder(d) => c = d
    /\ \A d \in Ctx : Pender(d) => \E c \in Ctx : Holder(c) /\ Below(c, d)
    /\ \A c, d \in Ctx : Holder(d) /\ Releasing(c) => Below(c, d)

SuspensionInv ==
    TypeOK /\ SuspensionStack /\ SwitchedOutOwnNothing /\ ReadyQueueLock
=============================================================================
