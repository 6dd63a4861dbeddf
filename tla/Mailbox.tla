------------------------------ MODULE Mailbox ------------------------------
(***************************************************************************)
(* The mailbox of src/sync/mailbox.rs.  A task waits for a notification,   *)
(* with or without a timeout; tasks and interrupt handlers notify.  With a *)
(* timeout the task is in the sleep queue, and the notification takes it   *)
(* out of there, under the sleep queue's own soft lock: the two locks      *)
(* nest.  A mailbox is named by the one task that may wait on it (the      *)
(* sanity check of wait and wait_until_timeout).                           *)
(*                                                                         *)
(* While the mailbox is locked an interrupt can only pend a notification,  *)
(* so the statements of a critical section up to its call of the sleep     *)
(* queue are one step.  Other users of the sleep queue are SleepQueue's:   *)
(* here it is contended by the SysTick handler, the notifiers and the task *)
(* that goes to sleep.                                                     *)
(***************************************************************************)
EXTENDS SleepQueue

CONSTANTS
    Box,         \* the mailboxes, by the task that waits on each
    Notifier,    \* the contexts that call notify_allow_isr
    MaxOwed      \* bound: nobody notifies a mailbox that owes so many

ASSUME BoxAssumption == Box \subseteq Task /\ Notifier \subseteq Ctx /\ MaxOwed \in Nat
                         /\ SysTick \notin Notifier

VARIABLES
    count, pending_count, wait_task, task_notified,   \* Inner, of each mailbox
    m_locked, m_pending,    \* the flags of the soft lock around Inner
    m_ret,                  \* where a context goes on after the mailbox
    owed,                   \* history: notifications sent and not yet reported
    stale                   \* history: a removal from the sleep queue that was
                            \* meant for an earlier wait awaits the task

inner == <<count, pending_count, wait_task, task_notified>>
mlock == <<m_locked, m_pending>>
mbvars == <<inner, mlock, m_ret, owed, stale>>
vars == <<sqvars, mbvars>>

WaitTask == {"NoTask", "WithTimeout", "WithoutTimeout"}
MailboxSuspended == {"m_leave", "m_run", "m_notified", "m_told"}
MailboxSteps == SleepSteps \union MailboxSuspended
                \union {"m_wait", "m_yield", "m_awake", "m_true", "m_false"}

Init ==
    /\ InitSleepQueue
    /\ count = [b \in Box |-> 0]
    /\ pending_count = [b \in Box |-> 0]
    /\ wait_task = [b \in Box |-> "NoTask"]
    /\ task_notified = [b \in Box |-> FALSE]
    /\ m_locked = [b \in Box |-> FALSE]
    /\ m_pending = [b \in Box |-> FALSE]
    /\ m_ret = [c \in Ctx |-> "home"]
    /\ owed = [b \in Box |-> 0]
    /\ stale = [b \in Box |-> FALSE]

\* Enter the soft lock of b, to go on at step s after it.
LockBox(c, b, s) ==
    /\ m_locked' = [m_locked EXCEPT ![b] = TRUE]
    /\ m_ret' = [m_ret EXCEPT ![c] = s]
    /\ whom' = [whom EXCEPT ![c] = b]

\* Call remove_task_from_sleep_queue_allow_isr(whom[c]), to go on at step s.
CallRemove(c, s) == Goto(c, "s_remove") /\ ret' = [ret EXCEPT ![c] = s]

-----------------------------------------------------------------------------
(***************************************************************************)
(* Faults: what a plausible mistake in mailbox.rs would make of an action  *)
(* below.  No specification uses them.                                     *)
(***************************************************************************)
\* The task that waits with a timeout is handed over like the other.
take_any(c, b, s) ==
    /\ wait_task' = [wait_task EXCEPT ![b] = "NoTask"]
    /\ accept_task(IF wait_task[b] = "NoTask" THEN {} ELSE {b})
    /\ Goto(c, "m_leave") /\ UNCHANGED ret

\* The record of the waiting task is not cleared after a timeout.
awake_keeps_record(t) ==
    /\ At(t, "m_awake")
    /\ LockBox(t, t, IF task_notified[t] \/ call[t] = "wait" THEN "m_true" ELSE "m_false")
    /\ Goto(t, "m_leave")
    /\ UNCHANGED <<cur, state, TICKS, squeue, wake_tick, barriers, call, ret, held, left,
                   inner, m_pending, owed, stale>>

\* A task with a timeout is woken without being marked as notified.
told_unmarked(c) ==
    /\ At(c, "m_told")
    /\ Goto(c, "m_leave")
    /\ UNCHANGED <<cur, state, TICKS, squeue, wake_tick, barriers, call, whom, ret, held, left,
                   inner, mlock, m_ret, owed, stale>>

\* The notification of a task with a timeout stays counted.
notified_still_counted(c) ==
    /\ At(c, "m_notified")
    /\ task_notified' = [task_notified EXCEPT ![whom[c]] = TRUE]
    /\ Goto(c, "m_leave")
    /\ UNCHANGED <<cur, state, TICKS, squeue, wake_tick, barriers, call, whom, ret, held, left,
                   count, pending_count, wait_task, mlock, m_ret, owed, stale>>

-----------------------------------------------------------------------------
(***************************************************************************)
(* wait and wait_until_timeout.                                            *)
(***************************************************************************)
mailbox_call(t, k) ==
    /\ At(t, "home") /\ t \in Box /\ k \in Calls[t] \intersect {"wait", "timeout"}
    /\ call' = [call EXCEPT ![t] = k]
    /\ Goto(t, "m_wait")
    /\ UNCHANGED <<cur, state, TICKS, squeue, wake_tick, barriers, whom, ret, held, left,
                   mbvars>>

\* must_with_full_access, and the sanity check.
Enterable(t) == ~m_locked[t] /\ wait_task[t] = "NoTask"

\* There is a notification already.
wait_counted(t) ==
    /\ At(t, "m_wait") /\ Enterable(t)
    /\ count[t] > 0
    /\ count' = [count EXCEPT ![t] = @ - 1]
    /\ LockBox(t, t, "m_true")
    /\ Goto(t, "m_leave")
    /\ UNCHANGED <<cur, state, TICKS, squeue, wake_tick, barriers, call, ret, held, left,
                   pending_count, wait_task, task_notified, m_pending, owed, stale>>

\* Block without a timeout ...
wait_block(t) ==
    /\ At(t, "m_wait") /\ Enterable(t) /\ call[t] = "wait"
    /\ count[t] = 0
    /\ state' = [state EXCEPT ![t] = "Blocked"]
    /\ wait_task' = [wait_task EXCEPT ![t] = "WithoutTimeout"]
    /\ LockBox(t, t, "m_yield")
    /\ Goto(t, "m_leave")
    /\ UNCHANGED <<cur, TICKS, squeue, wake_tick, barriers, call, ret, held, left,
                   count, pending_count, task_notified, m_pending, owed, stale>>

\* ... and with one, which goes on in add_task_to_sleep_queue.
wait_block_timeout(t, timeout_ms) ==
    /\ At(t, "m_wait") /\ Enterable(t) /\ call[t] = "timeout"
    /\ count[t] = 0
    /\ task_notified' = [task_notified EXCEPT ![t] = FALSE]
    /\ state' = [state EXCEPT ![t] = "Blocked"]
    /\ wait_task' = [wait_task EXCEPT ![t] = "WithTimeout"]
    /\ wake_tick' = [wake_tick EXCEPT ![t] = (TICKS + timeout_ms) % Modulus]
    /\ left' = [left EXCEPT ![t] = timeout_ms]
    /\ stale' = [stale EXCEPT ![t] = Contains(delete_buffer, t)]
    /\ LockBox(t, t, "m_yield")
    /\ Goto(t, "s_add") /\ ret' = [ret EXCEPT ![t] = "m_leave"]
    /\ UNCHANGED <<cur, TICKS, squeue, barriers, call, held,
                   count, pending_count, m_pending, owed>>

\* The task runs again.
awake(t) ==
    /\ At(t, "m_awake")
    /\ IF call[t] = "wait"
         THEN /\ Goto(t, "m_true")
              /\ UNCHANGED <<wait_task, m_locked, m_ret, whom>>
         ELSE /\ wait_task' = [wait_task EXCEPT ![t] = "NoTask"]
              /\ LockBox(t, t, IF task_notified[t] THEN "m_true" ELSE "m_false")
              /\ Goto(t, IF m_locked[t] THEN "hang" ELSE "m_leave")
    /\ UNCHANGED <<cur, state, TICKS, squeue, wake_tick, barriers, call, ret, held, left,
                   count, pending_count, task_notified, m_pending, owed, stale>>

\* Return from the call.  The flag and the tick are not read again before
\* they are overwritten.
wait_return(t) ==
    /\ At(t, "m_true") \/ At(t, "m_false")
    /\ owed' = [owed EXCEPT ![t] = IF pc[t] = "m_true" THEN @ - 1 ELSE @]
    /\ call' = [call EXCEPT ![t] = "none"]
    /\ left' = [left EXCEPT ![t] = 0]
    /\ wake_tick' = [wake_tick EXCEPT ![t] = 0]
    /\ task_notified' = [task_notified EXCEPT ![t] = FALSE]
    /\ stale' = [stale EXCEPT ![t] = FALSE]
    /\ Goto(t, "home")
    /\ UNCHANGED <<cur, state, TICKS, squeue, barriers, whom, ret, held,
                   count, pending_count, wait_task, mlock, m_ret>>

-----------------------------------------------------------------------------
(***************************************************************************)
(* notify_allow_isr.                                                       *)
(***************************************************************************)
Sent(b) == owed' = [owed EXCEPT ![b] = @ + 1]

notify_pend(c, b) ==
    /\ Free(c) /\ c \in Notifier /\ owed[b] < MaxOwed
    /\ m_locked[b]
    /\ pending_count' = [pending_count EXCEPT ![b] = @ + 1]
    /\ m_pending' = [m_pending EXCEPT ![b] = TRUE]
    /\ Sent(b)
    /\ UNCHANGED <<sqvars, count, wait_task, task_notified, m_locked, m_ret, stale>>

\* Hand the waiting task to the scheduler, or count the notification.
Take(c, b, s) ==
    /\ wait_task' = [wait_task EXCEPT ![b] = "NoTask"]
    /\ \/ wait_task[b] = "WithTimeout" /\ CallRemove(c, s) /\ UNCHANGED state
       \/ /\ wait_task[b] = "WithoutTimeout"
          /\ accept_task({b}) /\ Goto(c, "m_leave") /\ UNCHANGED ret
       \/ wait_task[b] = "NoTask" /\ Goto(c, "m_leave") /\ UNCHANGED <<state, ret>>

notify_full(c, b) ==
    /\ Free(c) /\ c \in Notifier /\ owed[b] < MaxOwed
    /\ ~m_locked[b]
    /\ LockBox(c, b, "home")
    /\ Take(c, b, "m_told")
    /\ count' = [count EXCEPT ![b] = IF wait_task[b] = "NoTask" THEN @ + 1 ELSE @]
    /\ Sent(b)
    /\ UNCHANGED <<cur, TICKS, squeue, wake_tick, barriers, call, held, left,
                   pending_count, task_notified, m_pending, stale>>

\* After remove_task_from_sleep_queue_allow_isr.
notify_told(c) ==
    /\ At(c, "m_told")
    /\ task_notified' = [task_notified EXCEPT ![whom[c]] = TRUE]
    /\ Goto(c, "m_leave")
    /\ UNCHANGED <<cur, state, TICKS, squeue, wake_tick, barriers, call, whom, ret, held, left,
                   count, pending_count, wait_task, mlock, m_ret, owed, stale>>

-----------------------------------------------------------------------------
(***************************************************************************)
(* Leaving the soft lock of the mailbox, and its run_pended_op.            *)
(***************************************************************************)
m_leave(c) ==
    /\ At(c, "m_leave")
    /\ IF m_pending[whom[c]]
         THEN /\ m_pending' = [m_pending EXCEPT ![whom[c]] = FALSE]
              /\ Goto(c, "m_run")
              /\ UNCHANGED <<m_locked, m_ret, whom>>
         ELSE /\ m_locked' = [m_locked EXCEPT ![whom[c]] = FALSE]
              /\ Goto(c, m_ret[c])
              /\ m_ret' = [m_ret EXCEPT ![c] = "home"]
              /\ whom' = [whom EXCEPT ![c] = Idle]
              /\ UNCHANGED m_pending
    /\ UNCHANGED <<cur, state, TICKS, squeue, wake_tick, barriers, call, ret, held, left,
                   inner, owed, stale>>

m_run_pended_op(c) ==
    /\ At(c, "m_run")
    /\ LET box == whom[c] IN
       /\ count' = [count EXCEPT ![box] = @ + pending_count[box]
                                          - (IF wait_task[box] = "WithoutTimeout" THEN 1 ELSE 0)]
       /\ pending_count' = [pending_count EXCEPT ![box] = 0]
       /\ Take(c, box, "m_notified")
    /\ UNCHANGED <<cur, TICKS, squeue, wake_tick, barriers, call, whom, held, left,
                   task_notified, mlock, m_ret, owed, stale>>

run_pended_notified(c) ==
    /\ At(c, "m_notified")
    /\ count' = [count EXCEPT ![whom[c]] = @ - 1]
    /\ task_notified' = [task_notified EXCEPT ![whom[c]] = TRUE]
    /\ Goto(c, "m_leave")
    /\ UNCHANGED <<cur, state, TICKS, squeue, wake_tick, barriers, call, whom, ret, held, left,
                   pending_count, wait_task, mlock, m_ret, owed, stale>>

-----------------------------------------------------------------------------
MailboxStep(c) ==
    \/ notify_told(c) \/ m_leave(c) \/ m_run_pended_op(c) \/ run_pended_notified(c)
    \/ /\ c \in Task
       /\ \/ wait_counted(c) \/ wait_block(c)
          \/ \E ms \in Durations : wait_block_timeout(c, ms)
          \/ awake(c) \/ wait_return(c)

\* What a context does in a call, whichever component it is in.
Step(c) ==
    \/ MailboxStep(c)
    \/ (SleepStep(c) \/ RemoveStep(c)) /\ UNCHANGED mbvars

Tick == advance_tick /\ UNCHANGED mbvars

Switch ==
    /\ switch(SuspendedSteps \union MailboxSuspended, [yield |-> "slept", m_yield |-> "m_awake"])
    /\ UNCHANGED <<TICKS, squeue, wake_tick, barriers, call, whom, ret, held, left, mbvars>>

Next ==
    \/ Tick
    \/ \E c \in Ctx : Step(c)
    \/ \E t \in Task, k \in {"wait", "timeout"} : mailbox_call(t, k)
    \/ \E c \in Ctx, b \in Box : notify_pend(c, b) \/ notify_full(c, b)
    \/ Switch

Spec == Init /\ [][Next]_vars

(***************************************************************************)
(* Fairness: SysTick keeps ticking and its handler finishes, interrupt     *)
(* handlers finish, and a ready task is picked and goes on.  Nobody has to *)
(* call or to notify.                                                      *)
(***************************************************************************)
FairSpec ==
    /\ Spec
    /\ SF_vars(Tick \/ Step(SysTick))
    /\ \A e \in Irq \ {SysTick} : SF_vars(Step(e))
    /\ \A t \in Task : SF_vars((Switch /\ cur' = t) \/ Step(t))

-----------------------------------------------------------------------------
TypeOK ==
    /\ TypeOKSleep(MailboxSteps, {"none", "wait", "timeout"})
    /\ count \in [Box -> 0 .. MaxOwed] /\ pending_count \in [Box -> 0 .. MaxOwed]
    /\ wait_task \in [Box -> WaitTask] /\ task_notified \in [Box -> BOOLEAN]
    /\ m_locked \in [Box -> BOOLEAN] /\ m_pending \in [Box -> BOOLEAN]
    /\ m_ret \in [Ctx -> MailboxSteps]
    /\ owed \in [Box -> 0 .. MaxOwed] /\ stale \in [Box -> BOOLEAN]

(***************************************************************************)
(* A notification is reported by exactly one wait or still counted, never  *)
(* both and never neither, however it races with the timeout, the lock and *)
(* the task on its way into or out of the mailbox.  In particular the      *)
(* counter never goes below zero and a wait never reports a notification   *)
(* that was not sent.                                                      *)
(***************************************************************************)
Claimed(b) ==
    \/ pc[b] = "m_true"
    \/ pc[b] \in {"m_yield", "m_awake"} /\ call[b] = "wait" /\ wait_task[b] = "NoTask"
    \/ pc[b] \in {"m_yield", "m_awake"} /\ call[b] = "timeout" /\ task_notified[b]

NotificationsConserved ==
    \A b \in Box : ~m_locked[b] =>
        owed[b] = count[b] + pending_count[b] + (IF Claimed(b) THEN 1 ELSE 0)

(***************************************************************************)
(* When the mailbox is unlocked, a task is recorded as waiting only if     *)
(* there is nothing for it; and the next wait finds the record empty (the  *)
(* sanity check of wait and wait_until_timeout).                           *)
(***************************************************************************)
NoLostNotification ==
    /\ \A b \in Box : ~m_locked[b] /\ wait_task[b] # "NoTask" =>
                          count[b] = 0 /\ pending_count[b] = 0
    /\ \A b \in Box : At(b, "m_wait") => Enterable(b)

(***************************************************************************)
(* The ownership that the comments on WithTimeout and WithoutTimeout       *)
(* describe: a blocked task belongs to the sleep queue or to its mailbox,  *)
(* to exactly one of them, and a task that is not blocked to neither.      *)
(***************************************************************************)
OneOwner ==
    /\ \A c \in Ctx : pc[c] # "hang"
    /\ IsInjective(time_sorted_queue)
    /\ \A t \in Task : pc[t] \notin {"s_add", "s_insert"} =>
          LET waits == t \in Box /\ wait_task[t] = "WithoutTimeout" IN
          /\ state[t] = "Blocked" <=> (Queued(t) \/ waits)
          /\ ~(Queued(t) /\ waits)

(***************************************************************************)
(* A task that waits while a notification is owed to it returns, and with  *)
(* a timeout it returns in any case, unless a notifier has died because it *)
(* found delete_buffer full (enqueue().unwrap_or_die()).                   *)
(***************************************************************************)
NotifiedReturns ==
    \A b \in Box : (call[b] = "timeout" \/ (call[b] = "wait" /\ owed[b] > 0))
                       ~> (call[b] = "none" \/ \E c \in Ctx : pc[c] = "die")

(***************************************************************************)
(* "`true` if the waiting task is woken up by notification, or `false` if  *)
(* by timeout" (mailbox.rs, l. 234): false is returned only after the      *)
(* time, or when a removal that was pended for an earlier wait of the task *)
(* was still in delete_buffer as this one began (run_pended_op of the      *)
(* sleep queue looks there only for a tick).                               *)
(***************************************************************************)
EarlyFalseOnlyIfStale ==
    \A b \in Box : pc[b] = "m_false" => left[b] <= 0 \/ stale[b]

\* The timeouts that tick_cmp can tell from the past; wait_until_timeout itself has
\* no limit.
TimeoutsBelowHalf == \A ms \in Durations : ms < Half
=============================================================================
