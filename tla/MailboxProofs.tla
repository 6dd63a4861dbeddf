--------------------------- MODULE MailboxProofs ---------------------------
(***************************************************************************)
(* Proofs about Mailbox and about SleepClients, for any number of tasks,   *)
(* mailboxes, notifiers and nested interrupts and any width of the tick    *)
(* counter: no notification is lost, none is reported twice, and a blocked *)
(* task has exactly one owner; nobody wakes early unless a removal has     *)
(* outlived its wait, and the sleep queue is in order; and a wait with a   *)
(* timeout fails only after its time, with the same exception.             *)
(*                                                                         *)
(* The invariant of Mailbox comes first.  ControlInv and CallInv say what  *)
(* the locals of a context are at each of its steps; LockInv that the      *)
(* locks of the mailboxes and of the sleep queue have one holder each,     *)
(* which a switch cannot interrupt; RecordInv what Inner may hold at each  *)
(* step of the holder; OwedInv where every notification is, also the one   *)
(* that a notifier carries through the sleep queue before it marks the     *)
(* task; and BlockedInv who owns a blocked task.  What a task is told      *)
(* depends on the sleep queue only through its lock and its members, so    *)
(* the order of the queue and the clock do not occur.  They do in the      *)
(* second part, on SleepClients, and in the third, which puts the two      *)
(* together.                                                               *)
(***************************************************************************)
EXTENDS Mailbox, SleepClients, TaskListProofs

\* The types that the argument about notifications needs; it never looks at the clock.
Types ==
    /\ cur \in Task \union {Idle}
    /\ state \in [Task -> {"Ready", "Running", "Blocked"}]
    /\ pc \in [Ctx -> MailboxSteps]
    /\ time_sorted_queue \in Seq(Task) /\ delete_buffer \in Seq(Task)
    /\ time_to_wakeup \in BOOLEAN /\ s_locked \in BOOLEAN /\ s_pending \in BOOLEAN
    /\ call \in [Task -> {"none", "wait", "timeout"}]
    /\ whom \in [Ctx -> Box \union {Idle}]
    /\ ret \in [Ctx -> MailboxSteps]
    /\ count \in [Box -> Nat] /\ pending_count \in [Box -> Nat]
    /\ wait_task \in [Box -> WaitTask] /\ task_notified \in [Box -> BOOLEAN]
    /\ m_locked \in [Box -> BOOLEAN] /\ m_pending \in [Box -> BOOLEAN]
    /\ m_ret \in [Ctx -> MailboxSteps]
    /\ owed \in [Box -> 0 .. MaxOwed]

(***************************************************************************)
(* The inductive invariant.                                                *)
(***************************************************************************)
\* Each context keeps the locals that its code needs, and none hangs.
Waiting == {"m_wait", "m_yield", "m_awake", "m_true", "m_false"}
InQueueLock == SuspendedSteps \ {"s_add", "s_remove", "die"}
TickSteps == {"home", "s_wake", "expire", "drain", "s_leave", "s_run", "expire_pended",
              "drain_pended", "clear"}

ControlOf(c) ==
    /\ pc[c] \in SuspendedSteps \union MailboxSuspended \union Waiting \union {"home", "s_wake"}
    /\ whom[c] # Idle <=> c # SysTick /\ pc[c] \in SuspendedSteps \union MailboxSuspended
    /\ whom[c] = Idle => m_ret[c] = "home"
    /\ pc[c] \notin SuspendedSteps => ret[c] = "home"
    /\ c = SysTick => pc[c] \in TickSteps /\ ret[c] = "home"
    /\ c # SysTick => /\ pc[c] \notin {"s_wake", "expire", "drain"}
                      /\ pc[c] \in SuspendedSteps => ret[c] \in {"m_leave", "m_told", "m_notified"}
    /\ c \in Irq => pc[c] \notin Waiting \union {"s_add", "s_insert"} /\ m_ret[c] = "home"
    /\ pc[c] \in {"s_add", "s_insert"} => ret[c] = "m_leave"
    /\ pc[c] = "s_remove" => ret[c] \in {"m_told", "m_notified"}

ControlInv == \A c \in Ctx : ControlOf(c)

\* What a task does in the call it has made.
CallOf(t) ==
    /\ call[t] = "none" => pc[t] \notin Waiting /\ m_ret[t] = "home"
    /\ call[t] # "none" =>
          /\ t \in Box
          /\ \/ pc[t] \in Waiting
             \/ whom[t] = t /\ m_ret[t] \in {"m_true", "m_yield", "m_false"}
    /\ pc[t] \in {"s_add", "s_insert"} =>
          call[t] = "timeout" /\ m_ret[t] = "m_yield"

CallInv == \A t \in Task : CallOf(t)

\* The locks of the mailboxes and of the sleep queue have one holder each, and a
\* task that is not current has none.
BoxLock ==
    /\ \A b \in Box : m_locked[b] <=> \E c \in Ctx : whom[c] = b
    /\ \A c, d \in Ctx : whom[c] = whom[d] /\ whom[c] # Idle => c = d

QueueLock ==
    /\ s_locked <=> \E c \in Ctx : pc[c] \in InQueueLock
    /\ \A c, d \in Ctx : pc[c] \in InQueueLock /\ pc[d] \in InQueueLock => c = d

OnlyCurrent ==
    \A t \in Task : t # cur => pc[t] \notin SuspendedSteps \union MailboxSuspended

LockInv == BoxLock /\ QueueLock /\ OnlyCurrent

\* The task has said that it waits, and has not yet looked at what came of it.
InWait(b) ==
    \/ pc[b] \in {"m_yield", "m_awake"}
    \/ whom[b] = b /\ m_ret[b] = "m_yield"

Telling(c, s) == pc[c] = s \/ ret[c] = s

\* The record of the waiting task, and the notifications that have been pended.
RecordOf(b) ==
    /\ wait_task[b] # "NoTask" =>
          /\ InWait(b) /\ count[b] = 0
          /\ m_pending[b] => pending_count[b] > 0
    /\ wait_task[b] = "WithTimeout" => call[b] = "timeout" /\ ~task_notified[b]
    /\ wait_task[b] = "WithoutTimeout" => call[b] = "wait"
    /\ pc[b] \in {"s_add", "s_insert"} => wait_task[b] = "WithTimeout"
    /\ m_pending[b] => m_locked[b]
    /\ pending_count[b] > 0 => m_pending[b] \/ \E c \in Ctx : whom[c] = b /\ pc[c] = "m_run"

TellingOf(c) ==
    /\ Telling(c, "m_told") \/ Telling(c, "m_notified") =>
          /\ wait_task[whom[c]] = "NoTask" /\ InWait(whom[c])
          /\ call[whom[c]] = "timeout" /\ ~task_notified[whom[c]]
    /\ Telling(c, "m_notified") => count[whom[c]] > 0
    /\ pc[c] = "m_run" /\ wait_task[whom[c]] # "NoTask" => pending_count[whom[c]] > 0

RecordInv ==
    /\ \A b \in Box : RecordOf(b)
    /\ \A c \in Ctx : TellingOf(c)

\* Every notification is counted, pended, being told or claimed by the task.
IsClaimed(b) ==
    \/ pc[b] = "m_true"
    \/ whom[b] = b /\ m_ret[b] = "m_true"
    \/ InWait(b) /\ call[b] = "wait" /\ wait_task[b] = "NoTask"
    \/ InWait(b) /\ call[b] = "timeout" /\ task_notified[b]

BeingTold(b) == \E c \in Ctx : whom[c] = b /\ Telling(c, "m_told")

OwedOf(b) ==
    owed[b] = count[b] + pending_count[b] + (IF IsClaimed(b) THEN 1 ELSE 0)
              + (IF BeingTold(b) THEN 1 ELSE 0)

OwedInv == \A b \in Box : OwedOf(b)

\* The owner of a blocked task.
Adding(t) == pc[t] \in {"s_add", "s_insert"}

BlockedInv ==
    /\ Distinct(time_sorted_queue)
    /\ \A t \in Task : Has(time_sorted_queue, t) =>
          t \in Box /\ call[t] = "timeout" /\ InWait(t) /\ ~Adding(t)
    /\ \A t \in Task : state[t] = "Blocked" <=>
          \/ Has(time_sorted_queue, t) \/ Adding(t)
          \/ t \in Box /\ wait_task[t] = "WithoutTimeout"
    /\ \A t \in Task : t = cur /\ pc[t] = "m_awake" => state[t] # "Blocked"

IInv ==
    /\ Types /\ ControlInv /\ CallInv /\ LockInv /\ RecordInv /\ OwedInv /\ BlockedInv

-----------------------------------------------------------------------------
(***************************************************************************)
(* Facts about the constants.                                              *)
(***************************************************************************)
\* Tasks are no interrupt levels, the idle task is neither, and SysTick is an
\* interrupt that notifies nobody.
LEMMA Contexts ==
    /\ Task \subseteq Ctx /\ Irq \subseteq Ctx
    /\ \A t \in Task : t \notin Irq
    /\ \A c \in Ctx : (c \in Task \/ c \in Irq) /\ c # Idle
    /\ \A b \in Box : b \in Task /\ b \in Ctx /\ b # Idle /\ b # SysTick
    /\ SysTick \in Irq /\ SysTick \in Ctx /\ SysTick \notin Task /\ SysTick \notin Notifier
    /\ \A c \in Notifier : c \in Ctx
    /\ Idle \notin Task /\ MaxOwed \in Nat
<1>1. Irq \subseteq Nat
  BY IrqAssumption DEF Irq
<1>2. /\ Idle \notin Task /\ Idle \notin Nat /\ \A t \in Task : t \notin Nat
  BY TaskAssumption
<1>3. Task \subseteq Ctx /\ Irq \subseteq Ctx /\ \A c \in Ctx : c \in Task \/ c \in Irq
  BY DEF Ctx
<1>4. SysTick \in Irq
  BY SysTickAssumption
<1>5. Box \subseteq Task /\ Notifier \subseteq Ctx /\ MaxOwed \in Nat /\ SysTick \notin Notifier
  BY BoxAssumption
<1> QED
  BY <1>1, <1>2, <1>3, <1>4, <1>5

\* The steps that the actions name are steps.
LEMMA StepNames ==
    /\ {"s_add", "s_insert", "s_remove", "s_take", "s_leave", "s_run", "expire", "drain",
        "expire_pended", "drain_pended", "clear", "die"} \subseteq MailboxSteps
    /\ {"home", "s_wake", "hang", "m_leave", "m_run", "m_notified", "m_told", "m_wait", "m_yield",
        "m_awake", "m_true", "m_false"} \subseteq MailboxSteps
  BY DEF MailboxSteps, SleepSteps, SuspendedSteps, MailboxSuspended

-----------------------------------------------------------------------------
(***************************************************************************)
(* What a step does to the locals of the context that takes it; those of   *)
(* the others stay.                                                        *)
(***************************************************************************)
Others(c) ==
    \A d \in Ctx : d # c =>
        pc'[d] = pc[d] /\ whom'[d] = whom[d] /\ ret'[d] = ret[d] /\ m_ret'[d] = m_ret[d]

Became(c, p, w, r, m) ==
    /\ pc'[c] = p /\ whom'[c] = w /\ ret'[c] = r /\ m_ret'[c] = m
    /\ Others(c)

\* The sleep queue: a step in the queue, and a step that goes back to the caller.
InSleep(c) == (SleepStep(c) \/ remove_guard(c) \/ remove_full(c)) /\ UNCHANGED mbvars
Moved(c, p) == Became(c, p, whom[c], ret[c], m_ret[c])
Returned(c) == Became(c, ret[c], whom[c], "home", m_ret[c])

\* The sleep queue: each of its steps moves the context along, and two of them go
\* back to the caller.
LEMMA SleepLocals ==
    ASSUME Types, NEW c \in Ctx, InSleep(c)
    PROVE  /\ s_leave(c) => IF s_pending THEN Moved(c, "s_run") ELSE Returned(c)
           /\ run_pended_op(c) => Moved(c, IF time_to_wakeup THEN "expire_pended" ELSE "s_leave")
           /\ wake_expired_tasks(c) => Moved(c, IF pc[c] = "expire" THEN "drain" ELSE "drain_pended")
           /\ drain_delete_buffer(c) => Moved(c, IF pc[c] = "drain" THEN "s_leave" ELSE "clear")
           /\ clear_time_to_wakeup(c) => Moved(c, "s_leave")
           /\ c = SysTick /\ wake_sleeping_tasks => Moved(c, IF s_locked THEN "home" ELSE "expire")
           /\ add_guard(c) => Moved(c, IF s_locked THEN "hang" ELSE "s_insert")
           /\ add_insert(c) => Moved(c, "s_leave")
           /\ remove_guard(c) => IF s_locked THEN Returned(c) \/ Moved(c, "die") ELSE Moved(c, "s_take")
           /\ remove_full(c) => Moved(c, "s_leave")
<1>0. m_ret' = m_ret
  BY DEF InSleep, mbvars
<1> USE <1>0 DEF Types, Became, Others, Moved, Returned, Goto
<1>1. s_leave(c) => IF s_pending THEN Moved(c, "s_run") ELSE Returned(c)
  BY DEF s_leave
<1>2. run_pended_op(c) => Moved(c, IF time_to_wakeup THEN "expire_pended" ELSE "s_leave")
  BY DEF run_pended_op
<1>3. wake_expired_tasks(c) => Moved(c, IF pc[c] = "expire" THEN "drain" ELSE "drain_pended")
  BY DEF wake_expired_tasks
<1>4. drain_delete_buffer(c) => Moved(c, IF pc[c] = "drain" THEN "s_leave" ELSE "clear")
  BY DEF drain_delete_buffer
<1>5. clear_time_to_wakeup(c) => Moved(c, "s_leave")
  BY DEF clear_time_to_wakeup
<1>6. c = SysTick /\ wake_sleeping_tasks => Moved(c, IF s_locked THEN "home" ELSE "expire")
  BY DEF wake_sleeping_tasks
<1>7. add_guard(c) => Moved(c, IF s_locked THEN "hang" ELSE "s_insert")
  BY DEF add_guard
<1>8. add_insert(c) => Moved(c, "s_leave")
  BY DEF add_insert
<1>9. remove_guard(c) => IF s_locked THEN Returned(c) \/ Moved(c, "die") ELSE Moved(c, "s_take")
  BY DEF remove_guard
<1>10. remove_full(c) => Moved(c, "s_leave")
  BY DEF remove_full
<1> QED
  BY <1>1, <1>2, <1>3, <1>4, <1>5, <1>6, <1>7, <1>8, <1>9, <1>10

\* The clock.
LEMMA TickLocals ==
    ASSUME Types, Tick
    PROVE  Moved(SysTick, "s_wake")
  BY Contexts DEF Types, Tick, advance_tick, mbvars, Became, Others, Moved, Goto

\* The calls of wait and wait_until_timeout.
LEMMA WaitLocals ==
    ASSUME Types, NEW t \in Task
    PROVE  /\ \A k \in {"wait", "timeout"} : mailbox_call(t, k) => Moved(t, "m_wait")
           /\ wait_counted(t) => Became(t, "m_leave", t, ret[t], "m_true")
           /\ wait_block(t) => Became(t, "m_leave", t, ret[t], "m_yield")
           /\ \A ms \in Durations :
                 wait_block_timeout(t, ms) => Became(t, "s_add", t, "m_leave", "m_yield")
           /\ awake(t) =>
                 IF call[t] = "wait" THEN Moved(t, "m_true")
                 ELSE Became(t, IF m_locked[t] THEN "hang" ELSE "m_leave", t, ret[t],
                             IF task_notified[t] THEN "m_true" ELSE "m_false")
           /\ wait_return(t) => Moved(t, "home")
<1>0. t \in Ctx
  BY Contexts
<1> USE <1>0 DEF Types, Became, Others, Moved, Goto, LockBox
<1>1. \A k \in {"wait", "timeout"} : mailbox_call(t, k) => Moved(t, "m_wait")
  BY DEF mailbox_call, mbvars
<1>2. wait_counted(t) => Became(t, "m_leave", t, ret[t], "m_true")
  BY DEF wait_counted
<1>3. wait_block(t) => Became(t, "m_leave", t, ret[t], "m_yield")
  BY DEF wait_block
<1>4. \A ms \in Durations :
         wait_block_timeout(t, ms) => Became(t, "s_add", t, "m_leave", "m_yield")
  BY DEF wait_block_timeout
<1>5. awake(t) =>
         IF call[t] = "wait" THEN Moved(t, "m_true")
         ELSE Became(t, IF m_locked[t] THEN "hang" ELSE "m_leave", t, ret[t],
                     IF task_notified[t] THEN "m_true" ELSE "m_false")
  BY DEF awake
<1>6. wait_return(t) => Moved(t, "home")
  BY DEF wait_return
<1> QED
  BY <1>1, <1>2, <1>3, <1>4, <1>5, <1>6

\* Notifying, and leaving a mailbox.
LEMMA NotifyLocals ==
    ASSUME Types, NEW c \in Ctx
    PROVE  /\ \A b \in Box : notify_pend(c, b) => Moved(c, pc[c])
           /\ \A b \in Box : notify_full(c, b) =>
                 IF wait_task[b] = "WithTimeout" THEN Became(c, "s_remove", b, "m_told", "home")
                 ELSE Became(c, "m_leave", b, ret[c], "home")
           /\ notify_told(c) => Moved(c, "m_leave")
           /\ m_leave(c) => IF m_pending[whom[c]] THEN Moved(c, "m_run")
                            ELSE Became(c, m_ret[c], Idle, ret[c], "home")
           /\ m_run_pended_op(c) =>
                 IF wait_task[whom[c]] = "WithTimeout"
                   THEN Became(c, "s_remove", whom[c], "m_notified", m_ret[c])
                   ELSE Moved(c, "m_leave")
           /\ run_pended_notified(c) => Moved(c, "m_leave")
<1> USE DEF Types, Became, Others, Moved, Goto, LockBox
<1>1. \A b \in Box : notify_pend(c, b) => Moved(c, pc[c])
  BY DEF notify_pend, sqvars
<1>2. \A b \in Box : notify_full(c, b) =>
         IF wait_task[b] = "WithTimeout" THEN Became(c, "s_remove", b, "m_told", "home")
         ELSE Became(c, "m_leave", b, ret[c], "home")
  BY DEF notify_full, Take, CallRemove
<1>3. notify_told(c) => Moved(c, "m_leave")
  BY DEF notify_told
<1>4. m_leave(c) => IF m_pending[whom[c]] THEN Moved(c, "m_run")
                    ELSE Became(c, m_ret[c], Idle, ret[c], "home")
  BY DEF m_leave
<1>5. m_run_pended_op(c) =>
         IF wait_task[whom[c]] = "WithTimeout"
           THEN Became(c, "s_remove", whom[c], "m_notified", m_ret[c])
           ELSE Moved(c, "m_leave")
  BY DEF m_run_pended_op, Take, CallRemove
<1>6. run_pended_notified(c) => Moved(c, "m_leave")
  BY DEF run_pended_notified
<1> QED
  BY <1>1, <1>2, <1>3, <1>4, <1>5, <1>6

\* A switch moves the task that yielded.
LEMMA SwitchLocals ==
    ASSUME Types, Switch
    PROVE  /\ pc' = [c \in Ctx |-> IF c = cur /\ pc[c] = "m_yield" THEN "m_awake"
                                   ELSE IF c = cur /\ pc[c] = "yield" THEN "slept" ELSE pc[c]]
           /\ UNCHANGED <<whom, ret, m_ret>>
<1>1. DOMAIN [yield |-> "slept", m_yield |-> "m_awake"] = {"yield", "m_yield"}
  OBVIOUS
<1>2. pc' = [c \in Ctx |-> IF c = cur /\ pc[c] \in DOMAIN [yield |-> "slept", m_yield |-> "m_awake"]
                           THEN [yield |-> "slept", m_yield |-> "m_awake"][pc[c]] ELSE pc[c]]
  BY DEF Switch, switch
<1>3. UNCHANGED <<whom, ret, m_ret>>
  BY DEF Switch, mbvars
<1> QED
  BY <1>1, <1>2, <1>3

-----------------------------------------------------------------------------
(***************************************************************************)
(* Control.                                                                *)
(***************************************************************************)
\* While a task runs, nobody else is inside a mailbox or the sleep queue.
LEMMA Alone ==
    ASSUME ControlInv, LockInv, NEW t \in Task, Running(t)
    PROVE  /\ t = cur
           /\ \A c \in Ctx : c # t => whom[c] = Idle /\ pc[c] \notin SuspendedSteps \union MailboxSuspended
           /\ whom[t] = Idle => \A b \in Box : ~m_locked[b]
           /\ pc[t] \notin InQueueLock => ~s_locked
<1>1. t = cur /\ ThreadMode
  BY Contexts DEF Running
<1>2. ASSUME NEW c \in Ctx, c # t PROVE pc[c] \notin SuspendedSteps \union MailboxSuspended
  <2>1. CASE c \in Irq
    BY <1>1, <2>1 DEF ThreadMode, SuspendedSteps, MailboxSuspended
  <2>2. CASE c \in Task
    BY <1>1, <1>2, <2>2 DEF LockInv, OnlyCurrent
  <2> QED
    BY <2>1, <2>2, Contexts
<1>3. ASSUME NEW c \in Ctx, c # t PROVE whom[c] = Idle
  BY <1>2, <1>3 DEF ControlInv, ControlOf
<1>4. whom[t] = Idle => \A b \in Box : ~m_locked[b]
  BY <1>3, Contexts DEF LockInv, BoxLock
<1>5. pc[t] \notin InQueueLock => ~s_locked
  BY <1>2 DEF LockInv, QueueLock, InQueueLock
<1> QED
  BY <1>1, <1>2, <1>3, <1>4, <1>5

\* A step changes the locals of one context only.
LEMMA ControlFrame ==
    ASSUME ControlInv, NEW c \in Ctx, Others(c), ControlOf(c)'
    PROVE  ControlInv'
<1>1. ASSUME NEW d \in Ctx, d # c PROVE ControlOf(d)'
  BY <1>1 DEF Others, ControlInv, ControlOf
<1> QED
  BY <1>1 DEF ControlInv

\* Steps in the sleep queue.
LEMMA SleepControl ==
    ASSUME Types, ControlInv, LockInv, NEW c \in Ctx, InSleep(c)
    PROVE  ControlInv'
<1>0. ControlOf(c)
  BY DEF ControlInv
<1>1. CASE s_leave(c)
  <2>1. pc[c] = "s_leave" /\ IF s_pending THEN Moved(c, "s_run") ELSE Returned(c)
    BY <1>1, SleepLocals DEF s_leave, At
  <2>2. ControlOf(c)' /\ Others(c)
    BY <1>0, <2>1 DEF Moved, Returned, Became, ControlOf, Waiting, SuspendedSteps, MailboxSuspended, TickSteps
  <2> QED
    BY <2>2, ControlFrame
<1>2. CASE \/ run_pended_op(c) \/ wake_expired_tasks(c) \/ drain_delete_buffer(c)
           \/ clear_time_to_wakeup(c) \/ remove_full(c)
  <2>1. \/ pc[c] = "s_run" /\ (Moved(c, "expire_pended") \/ Moved(c, "s_leave"))
        \/ pc[c] = "expire" /\ Moved(c, "drain")
        \/ pc[c] = "expire_pended" /\ Moved(c, "drain_pended")
        \/ pc[c] = "drain" /\ Moved(c, "s_leave")
        \/ pc[c] = "drain_pended" /\ Moved(c, "clear")
        \/ pc[c] \in {"clear", "s_take"} /\ Moved(c, "s_leave")
    BY <1>2, SleepLocals DEF run_pended_op, wake_expired_tasks, drain_delete_buffer,
       clear_time_to_wakeup, remove_full, At
  <2>2. ControlOf(c)' /\ Others(c)
    BY <1>0, <2>1 DEF Moved, Became, ControlOf, Waiting, SuspendedSteps, MailboxSuspended, TickSteps
  <2> QED
    BY <2>2, ControlFrame
<1>3. CASE c = SysTick /\ wake_sleeping_tasks
  <2>1. pc[c] = "s_wake" /\ (Moved(c, "home") \/ Moved(c, "expire"))
    BY <1>3, SleepLocals DEF wake_sleeping_tasks, At
  <2>2. ControlOf(c)' /\ Others(c)
    BY <1>0, <1>3, <2>1 DEF Moved, Became, ControlOf, Waiting, SuspendedSteps, MailboxSuspended, TickSteps
  <2> QED
    BY <2>2, ControlFrame
<1>4. CASE c \in Task /\ add_guard(c)
  <2>1. pc[c] = "s_add" /\ Running(c) /\ Moved(c, IF s_locked THEN "hang" ELSE "s_insert")
    BY <1>4, SleepLocals DEF add_guard, At
  <2>2. ~s_locked
    BY <1>4, <2>1, Alone DEF InQueueLock
  <2>3. ControlOf(c)' /\ Others(c)
    BY <1>0, <1>4, <2>1, <2>2, Contexts DEF Moved, Became, ControlOf, Waiting, SuspendedSteps, MailboxSuspended, TickSteps
  <2> QED
    BY <2>3, ControlFrame
<1>5. CASE c \in Task /\ add_insert(c)
  <2>1. pc[c] = "s_insert" /\ Moved(c, "s_leave")
    BY <1>5, SleepLocals DEF add_insert, At
  <2>3. ControlOf(c)' /\ Others(c)
    BY <1>0, <1>5, <2>1, Contexts DEF Moved, Became, ControlOf, Waiting, SuspendedSteps, MailboxSuspended, TickSteps
  <2> QED
    BY <2>3, ControlFrame
<1>6. CASE remove_guard(c)
  <2>1. pc[c] = "s_remove" /\ IF s_locked THEN Returned(c) \/ Moved(c, "die") ELSE Moved(c, "s_take")
    BY <1>6, SleepLocals DEF remove_guard, At
  <2>2. ControlOf(c)' /\ Others(c)
    BY <1>0, <2>1 DEF Moved, Returned, Became, ControlOf, Waiting, SuspendedSteps, MailboxSuspended, TickSteps
  <2> QED
    BY <2>2, ControlFrame
<1> QED
  BY <1>1, <1>2, <1>3, <1>4, <1>5, <1>6 DEF InSleep, SleepStep

\* Steps of a wait.
LEMMA WaitControl ==
    ASSUME Types, ControlInv, CallInv, LockInv, NEW t \in Task,
           \/ \E k \in {"wait", "timeout"} : mailbox_call(t, k)
           \/ wait_counted(t) \/ wait_block(t)
           \/ \E ms \in Durations : wait_block_timeout(t, ms)
           \/ awake(t) \/ wait_return(t)
    PROVE  ControlInv'
<1>0. t \in Ctx /\ t # SysTick /\ t \notin Irq /\ t # Idle /\ ControlOf(t) /\ CallOf(t)
  BY Contexts DEF ControlInv, CallInv
<1>1. CASE \E k \in {"wait", "timeout"} : mailbox_call(t, k)
  <2>1. pc[t] = "home" /\ Moved(t, "m_wait")
    BY <1>1, WaitLocals DEF mailbox_call, At
  <2>2. ControlOf(t)' /\ Others(t)
    BY <1>0, <2>1 DEF Moved, Became, ControlOf, Waiting, SuspendedSteps, MailboxSuspended, TickSteps
  <2> QED
    BY <1>0, <2>2, ControlFrame
<1>2. CASE wait_counted(t) \/ wait_block(t)
  <2>1. pc[t] = "m_wait"
    BY <1>2 DEF wait_counted, wait_block, At
  <2>2. Became(t, "m_leave", t, ret[t], "m_true") \/ Became(t, "m_leave", t, ret[t], "m_yield")
    BY <1>2, WaitLocals
  <2>3. ControlOf(t)' /\ Others(t)
    BY <1>0, <2>1, <2>2 DEF Became, ControlOf, Waiting, SuspendedSteps, MailboxSuspended, TickSteps
  <2> QED
    BY <1>0, <2>3, ControlFrame
<1>3. CASE \E ms \in Durations : wait_block_timeout(t, ms)
  <2>1. pc[t] = "m_wait" /\ Became(t, "s_add", t, "m_leave", "m_yield")
    BY <1>3, WaitLocals DEF wait_block_timeout, At
  <2>3. ControlOf(t)' /\ Others(t)
    BY <1>0, <2>1 DEF Became, ControlOf, Waiting, SuspendedSteps, MailboxSuspended, TickSteps
  <2> QED
    BY <1>0, <2>3, ControlFrame
<1>4. CASE awake(t)
  <2>1. pc[t] = "m_awake" /\ Running(t)
    BY <1>4 DEF awake, At
  <2>2. whom[t] = Idle /\ ret[t] = "home" /\ t \in Box
    BY <1>0, <2>1 DEF ControlOf, CallOf, Waiting, SuspendedSteps, MailboxSuspended
  <2>3. ~m_locked[t]
    BY <2>1, <2>2, Alone
  <2>4. \/ Moved(t, "m_true")
        \/ \E m \in {"m_true", "m_false"} : Became(t, "m_leave", t, ret[t], m)
    BY <1>4, <2>3, WaitLocals
  <2>5. ControlOf(t)' /\ Others(t)
    BY <1>0, <2>1, <2>2, <2>4 DEF Moved, Became, ControlOf, Waiting, SuspendedSteps, MailboxSuspended, TickSteps
  <2> QED
    BY <1>0, <2>5, ControlFrame
<1>5. CASE wait_return(t)
  <2>1. pc[t] \in {"m_true", "m_false"} /\ Moved(t, "home")
    BY <1>5, WaitLocals DEF wait_return, At
  <2>2. ControlOf(t)' /\ Others(t)
    BY <1>0, <2>1 DEF Moved, Became, ControlOf, Waiting, SuspendedSteps, MailboxSuspended, TickSteps
  <2> QED
    BY <1>0, <2>2, ControlFrame
<1> QED
  BY <1>1, <1>2, <1>3, <1>4, <1>5

\* Steps of a notification, and of whoever leaves a mailbox.
LEMMA NotifyControl ==
    ASSUME Types, ControlInv, CallInv, LockInv, NEW c \in Ctx,
           \/ \E b \in Box : notify_pend(c, b) \/ notify_full(c, b)
           \/ notify_told(c) \/ m_leave(c) \/ m_run_pended_op(c) \/ run_pended_notified(c)
    PROVE  ControlInv'
<1>0. ControlOf(c)
  BY DEF ControlInv
<1>1. CASE \E b \in Box : notify_pend(c, b)
  <2>1. Moved(c, pc[c])
    BY <1>1, NotifyLocals
  <2>2. ControlOf(c)' /\ Others(c)
    BY <1>0, <2>1 DEF Moved, Became, ControlOf
  <2> QED
    BY <2>2, ControlFrame
<1>2. ASSUME NEW b \in Box, notify_full(c, b) PROVE ControlInv'
  <2>1. pc[c] = "home" /\ c # SysTick
    BY <1>2, Contexts DEF notify_full, Free, Arrives, At, Irq
  <2>2. b # Idle
    BY Contexts
  <2>3. \/ Became(c, "s_remove", b, "m_told", "home")
        \/ Became(c, "m_leave", b, ret[c], "home")
    BY <1>2, NotifyLocals
  <2>4. ControlOf(c)' /\ Others(c)
    BY <1>0, <2>1, <2>2, <2>3 DEF Became, ControlOf, Waiting, SuspendedSteps, MailboxSuspended, TickSteps
  <2> QED
    BY <2>4, ControlFrame
<1>3. CASE notify_told(c) \/ run_pended_notified(c)
  <2>1. pc[c] \in {"m_told", "m_notified"} /\ Moved(c, "m_leave")
    BY <1>3, NotifyLocals DEF notify_told, run_pended_notified, At
  <2>2. ControlOf(c)' /\ Others(c)
    BY <1>0, <2>1 DEF Moved, Became, ControlOf, Waiting, SuspendedSteps, MailboxSuspended, TickSteps
  <2> QED
    BY <2>2, ControlFrame
<1>4. CASE m_leave(c)
  <2>1. pc[c] = "m_leave"
    BY <1>4 DEF m_leave, At
  <2>2. Moved(c, "m_run") \/ Became(c, m_ret[c], Idle, ret[c], "home")
    BY <1>4, NotifyLocals
  <2>3. m_ret[c] \in {"home", "m_true", "m_yield", "m_false"}
    <3>1. CASE c \in Irq
      BY <1>0, <3>1 DEF ControlOf
    <3>2. CASE c \in Task
      BY <2>1, <3>2 DEF CallInv, CallOf, Waiting
    <3> QED
      BY <3>1, <3>2, Contexts
  <2>4. c \in Irq => m_ret[c] = "home"
    BY <1>0 DEF ControlOf
  <2>5. ControlOf(c)' /\ Others(c)
    BY <1>0, <2>1, <2>2, <2>3, <2>4 DEF Moved, Became, ControlOf, Waiting, SuspendedSteps, MailboxSuspended, TickSteps
  <2> QED
    BY <2>5, ControlFrame
<1>5. CASE m_run_pended_op(c)
  <2>1. pc[c] = "m_run"
    BY <1>5 DEF m_run_pended_op, At
  <2>2. Moved(c, "m_leave") \/ Became(c, "s_remove", whom[c], "m_notified", m_ret[c])
    BY <1>5, NotifyLocals
  <2>3. ControlOf(c)' /\ Others(c)
    BY <1>0, <2>1, <2>2 DEF Moved, Became, ControlOf, Waiting, SuspendedSteps, MailboxSuspended, TickSteps
  <2> QED
    BY <2>3, ControlFrame
<1> QED
  BY <1>1, <1>2, <1>3, <1>4, <1>5

\* A switch, and a tick.
LEMMA SwitchControl ==
    ASSUME Types, ControlInv, Switch \/ Tick
    PROVE  ControlInv'
<1>1. CASE Switch
  <2>1. ASSUME NEW c \in Ctx PROVE ControlOf(c)'
    <3>1. ControlOf(c)
      BY DEF ControlInv
    <3>2. UNCHANGED <<whom, ret, m_ret>>
      BY <1>1, SwitchLocals
    <3>3. \/ pc'[c] = pc[c]
          \/ c \in Task /\ pc[c] = "m_yield" /\ pc'[c] = "m_awake"
      BY <1>1, <3>1, SwitchLocals, Contexts DEF ControlOf, Waiting, SuspendedSteps, MailboxSuspended, Types
    <3>4. CASE pc'[c] = pc[c]
      BY <3>1, <3>2, <3>4 DEF ControlOf
    <3>5. CASE c \in Task /\ pc[c] = "m_yield" /\ pc'[c] = "m_awake"
      BY <3>1, <3>2, <3>5, Contexts DEF ControlOf, Waiting, SuspendedSteps, MailboxSuspended, TickSteps
    <3> QED
      BY <3>3, <3>4, <3>5
  <2> QED
    BY <2>1 DEF ControlInv
<1>2. CASE Tick
  <2>1. ControlOf(SysTick) /\ SysTick \in Ctx
    BY Contexts DEF ControlInv
  <2>2. pc[SysTick] = "home" /\ Moved(SysTick, "s_wake")
    BY <1>2, TickLocals, Contexts DEF Tick, advance_tick, Arrives, Irq
  <2>3. ControlOf(SysTick)' /\ Others(SysTick)
    BY <2>1, <2>2, Contexts DEF Moved, Became, ControlOf, Waiting, SuspendedSteps, MailboxSuspended, TickSteps
  <2> QED
    BY <2>1, <2>3, ControlFrame
<1> QED
  BY <1>1, <1>2

-----------------------------------------------------------------------------
(***************************************************************************)
(* A step in the sleep queue, or of the clock, as the mailboxes see it.    *)
(***************************************************************************)
Quiet(c) ==
    /\ UNCHANGED <<call, whom, m_ret, count, pending_count, wait_task, task_notified,
                   m_locked, m_pending, owed>>
    /\ Others(c)
    /\ pc[c] \notin Waiting \union {"m_run"} /\ pc'[c] \notin Waiting \union {"m_run"}
    /\ Telling(c, "m_told")' <=> Telling(c, "m_told")
    /\ Telling(c, "m_notified")' <=> Telling(c, "m_notified")
    /\ pc'[c] \in {"s_add", "s_insert"} => pc[c] \in {"s_add", "s_insert"}

\* Every step of the sleep queue and of the clock is one of these.
LEMMA QuietSteps ==
    ASSUME Types, ControlInv, LockInv
    PROVE  /\ Tick => Quiet(SysTick)
           /\ \A c \in Ctx : InSleep(c) => Quiet(c)
<1>1. ASSUME Tick PROVE Quiet(SysTick)
  <2>1. SysTick \in Ctx /\ ControlOf(SysTick)
    BY Contexts DEF ControlInv
  <2>2. pc[SysTick] = "home" /\ Moved(SysTick, "s_wake")
    BY <1>1, TickLocals, Contexts DEF Tick, advance_tick, Arrives, Irq
  <2>3. UNCHANGED <<call, whom, m_ret, count, pending_count, wait_task, task_notified,
                    m_locked, m_pending, owed>>
    BY <1>1 DEF Tick, advance_tick, mbvars, inner, mlock
  <2> QED
    BY <2>1, <2>2, <2>3 DEF Quiet, Moved, Became, Waiting, Telling, ControlOf, SuspendedSteps
<1>2. ASSUME NEW c \in Ctx, InSleep(c) PROVE Quiet(c)
  <2>0. ControlOf(c)
    BY DEF ControlInv
  <2>1. UNCHANGED <<call, whom, m_ret, count, pending_count, wait_task, task_notified,
                    m_locked, m_pending, owed>>
    <3>1. UNCHANGED mbvars
      BY <1>2 DEF InSleep
    <3>2. UNCHANGED <<call, whom>>
      BY <1>2 DEF InSleep, SleepStep, s_leave, run_pended_op, wake_expired_tasks,
         drain_delete_buffer, clear_time_to_wakeup, wake_sleeping_tasks, add_guard, add_insert,
         remove_guard, remove_full
    <3> QED
      BY <3>1, <3>2 DEF mbvars, inner, mlock
  <2>2. \/ /\ pc[c] \in (SuspendedSteps \ {"s_add"}) \union {"s_wake"}
           /\ \E p \in (SuspendedSteps \ {"s_add", "s_insert"}) \union {"home"} : Moved(c, p)
        \/ pc[c] = "s_add" /\ Moved(c, "s_insert")
        \/ pc[c] \in {"s_leave", "s_remove"} /\ Returned(c)
    <3>1. CASE s_leave(c)
      BY <1>2, <3>1, SleepLocals DEF s_leave, At, SuspendedSteps
    <3>2. CASE \/ run_pended_op(c) \/ wake_expired_tasks(c) \/ drain_delete_buffer(c)
               \/ clear_time_to_wakeup(c) \/ remove_full(c)
      <4>1. pc[c] \in SuspendedSteps \ {"s_add"}
        BY <3>2 DEF run_pended_op, wake_expired_tasks, drain_delete_buffer,
           clear_time_to_wakeup, remove_full, At, SuspendedSteps
      <4>2. \E p \in {"expire_pended", "s_leave", "drain", "drain_pended", "clear"} : Moved(c, p)
        BY <1>2, <3>2, SleepLocals
      <4>3. \A p \in {"expire_pended", "s_leave", "drain", "drain_pended", "clear"} :
               p \in SuspendedSteps \ {"s_add", "s_insert"}
        BY DEF SuspendedSteps
      <4> QED
        BY <4>1, <4>2, <4>3
    <3>3. CASE c = SysTick /\ wake_sleeping_tasks
      BY <1>2, <3>3, SleepLocals DEF wake_sleeping_tasks, At, SuspendedSteps
    <3>4. CASE c \in Task /\ add_guard(c)
      <4>1. pc[c] = "s_add" /\ Running(c)
        BY <3>4 DEF add_guard, At
      <4>2. ~s_locked
        BY <3>4, <4>1, Alone DEF InQueueLock
      <4> QED
        BY <1>2, <3>4, <4>1, <4>2, SleepLocals
    <3>5. CASE c \in Task /\ add_insert(c)
      BY <1>2, <3>5, SleepLocals DEF add_insert, At, SuspendedSteps
    <3>6. CASE remove_guard(c)
      BY <1>2, <3>6, SleepLocals DEF remove_guard, At, SuspendedSteps
    <3> QED
      BY <1>2, <3>1, <3>2, <3>3, <3>4, <3>5, <3>6 DEF InSleep, SleepStep
  <2>3. ASSUME pc[c] \in (SuspendedSteps \ {"s_add"}) \union {"s_wake"},
               NEW p \in (SuspendedSteps \ {"s_add", "s_insert"}) \union {"home"}, Moved(c, p)
        PROVE  Quiet(c)
    <3>1. p \notin Waiting \union {"m_run"} /\ pc[c] \notin Waiting \union {"m_run"}
      BY <2>3 DEF Waiting, SuspendedSteps
    <3>2. \A s \in {"m_told", "m_notified"} : p # s /\ pc[c] # s
      BY <2>3 DEF SuspendedSteps
    <3>3. p \notin {"s_add", "s_insert"}
      BY <2>3 DEF SuspendedSteps
    <3> QED
      BY <2>1, <2>3, <3>1, <3>2, <3>3 DEF Quiet, Moved, Became, Telling
  <2>4. CASE pc[c] = "s_add" /\ Moved(c, "s_insert")
    BY <2>1, <2>4 DEF Quiet, Moved, Became, Telling, Waiting
  <2>5. CASE pc[c] \in {"s_leave", "s_remove"} /\ Returned(c)
    <3>1. ret[c] \in {"home", "m_leave", "m_told", "m_notified"}
      BY <2>0, <2>5 DEF ControlOf, SuspendedSteps
    <3> QED
      BY <2>1, <2>5, <3>1 DEF Quiet, Returned, Became, Telling, Waiting
  <2> QED
    BY <2>2, <2>3, <2>4, <2>5
<1> QED
  BY <1>1, <1>2

-----------------------------------------------------------------------------
(***************************************************************************)
(* The calls of the tasks.                                                 *)
(***************************************************************************)
LEMMA CallFrame ==
    ASSUME CallInv, NEW c \in Ctx, Others(c), \A t \in Task : t # c => call'[t] = call[t],
           c \in Task => CallOf(c)'
    PROVE  CallInv'
<1>1. ASSUME NEW t \in Task, t # c PROVE CallOf(t)'
  BY <1>1, Contexts DEF Others, CallInv, CallOf
<1> QED
  BY <1>1 DEF CallInv

\* A step in the sleep queue leaves the call of its task as it is.
LEMMA QuietCall ==
    ASSUME CallInv, NEW c \in Ctx, Quiet(c) PROVE CallInv'
<1>1. c \in Task => CallOf(c)'
  BY DEF Quiet, CallInv, CallOf
<1> QED
  BY <1>1, CallFrame DEF Quiet

\* Calling, waiting and returning.
LEMMA WaitCall ==
    ASSUME Types, ControlInv, CallInv, LockInv, NEW t \in Task,
           \/ \E k \in {"wait", "timeout"} : mailbox_call(t, k)
           \/ wait_counted(t) \/ wait_block(t)
           \/ \E ms \in Durations : wait_block_timeout(t, ms)
           \/ awake(t) \/ wait_return(t)
    PROVE  CallInv'
<1>0. t \in Ctx /\ CallOf(t) /\ ControlOf(t)
  BY Contexts DEF ControlInv, CallInv
<1>1. CASE \E k \in {"wait", "timeout"} : mailbox_call(t, k)
  <2>1. /\ pc[t] = "home" /\ Moved(t, "m_wait") /\ t \in Box
        /\ call'[t] \in {"wait", "timeout"} /\ \A u \in Task : u # t => call'[u] = call[u]
    BY <1>1, WaitLocals DEF mailbox_call, At, Types
  <2>2. CallOf(t)' /\ Others(t)
    BY <1>0, <2>1 DEF Moved, Became, CallOf, Waiting
  <2> QED
    BY <1>0, <2>1, <2>2, CallFrame
<1>2. CASE wait_counted(t) \/ wait_block(t)
  <2>1. pc[t] = "m_wait" /\ call' = call
    BY <1>2 DEF wait_counted, wait_block, At
  <2>2. Became(t, "m_leave", t, ret[t], "m_true") \/ Became(t, "m_leave", t, ret[t], "m_yield")
    BY <1>2, WaitLocals
  <2>3. CallOf(t)' /\ Others(t)
    BY <1>0, <2>1, <2>2 DEF Became, CallOf, Waiting
  <2> QED
    BY <1>0, <2>1, <2>3, CallFrame
<1>3. CASE \E ms \in Durations : wait_block_timeout(t, ms)
  <2>1. /\ pc[t] = "m_wait" /\ Became(t, "s_add", t, "m_leave", "m_yield")
        /\ call' = call /\ call[t] = "timeout"
    BY <1>3, WaitLocals DEF wait_block_timeout, At
  <2>3. CallOf(t)' /\ Others(t)
    BY <1>0, <2>1 DEF Became, CallOf, Waiting
  <2> QED
    BY <1>0, <2>1, <2>3, CallFrame
<1>4. CASE awake(t)
  <2>1. pc[t] = "m_awake" /\ Running(t) /\ call' = call
    BY <1>4 DEF awake, At
  <2>2. whom[t] = Idle /\ t \in Box
    BY <1>0, <2>1 DEF ControlOf, CallOf, Waiting, SuspendedSteps, MailboxSuspended
  <2>3. ~m_locked[t]
    BY <2>1, <2>2, Alone
  <2>4. \/ Moved(t, "m_true")
        \/ \E m \in {"m_true", "m_false"} : Became(t, "m_leave", t, ret[t], m)
    BY <1>4, <2>3, WaitLocals
  <2>5. CallOf(t)' /\ Others(t)
    BY <1>0, <2>1, <2>4 DEF Moved, Became, CallOf, Waiting
  <2> QED
    BY <1>0, <2>1, <2>5, CallFrame
<1>5. CASE wait_return(t)
  <2>1. /\ pc[t] \in {"m_true", "m_false"} /\ Moved(t, "home")
        /\ call'[t] = "none" /\ \A u \in Task : u # t => call'[u] = call[u]
    BY <1>5, WaitLocals DEF wait_return, At, Types
  <2>2. m_ret[t] = "home"
    BY <1>0, <2>1 DEF ControlOf, SuspendedSteps, MailboxSuspended
  <2>3. CallOf(t)' /\ Others(t)
    BY <1>0, <2>1, <2>2 DEF Moved, Became, CallOf, Waiting
  <2> QED
    BY <1>0, <2>1, <2>3, CallFrame
<1> QED
  BY <1>1, <1>2, <1>3, <1>4, <1>5

\* A notifier makes no call of its own, and a task that leaves its mailbox goes on
\* in the call it is in.
LEMMA NotifyCall ==
    ASSUME Types, ControlInv, CallInv, LockInv, NEW c \in Ctx,
           \/ \E b \in Box : notify_pend(c, b) \/ notify_full(c, b)
           \/ notify_told(c) \/ m_leave(c) \/ m_run_pended_op(c) \/ run_pended_notified(c)
    PROVE  CallInv'
<1>0. ControlOf(c) /\ (c \in Task => CallOf(c))
  BY DEF ControlInv, CallInv
<1>1. CASE \E b \in Box : notify_pend(c, b)
  <2>1. Moved(c, pc[c]) /\ call' = call
    BY <1>1, NotifyLocals DEF notify_pend, sqvars
  <2>2. (c \in Task => CallOf(c)') /\ Others(c)
    BY <1>0, <2>1 DEF Moved, Became, CallOf
  <2> QED
    BY <2>1, <2>2, CallFrame
<1>2. ASSUME NEW b \in Box, notify_full(c, b) PROVE CallInv'
  <2>1. pc[c] = "home" /\ call' = call
    BY <1>2, Contexts DEF notify_full, Free, Arrives, At, Irq
  <2>2. whom[c] = Idle
    BY <1>0, <2>1 DEF ControlOf, SuspendedSteps, MailboxSuspended
  <2>3. \/ Became(c, "s_remove", b, "m_told", "home")
        \/ Became(c, "m_leave", b, ret[c], "home")
    BY <1>2, NotifyLocals
  <2>4. (c \in Task => CallOf(c)') /\ Others(c)
    BY <1>0, <2>1, <2>2, <2>3, Contexts DEF Became, CallOf, Waiting
  <2> QED
    BY <2>1, <2>4, CallFrame
<1>3. CASE notify_told(c) \/ run_pended_notified(c)
  <2>1. pc[c] \in {"m_told", "m_notified"} /\ Moved(c, "m_leave") /\ call' = call
    BY <1>3, NotifyLocals DEF notify_told, run_pended_notified, At
  <2>2. (c \in Task => CallOf(c)') /\ Others(c)
    BY <1>0, <2>1 DEF Moved, Became, CallOf, Waiting
  <2> QED
    BY <2>1, <2>2, CallFrame
<1>4. CASE m_leave(c)
  <2>1. pc[c] = "m_leave" /\ call' = call
    BY <1>4 DEF m_leave, At
  <2>2. Moved(c, "m_run") \/ Became(c, m_ret[c], Idle, ret[c], "home")
    BY <1>4, NotifyLocals
  <2>5. (c \in Task => CallOf(c)') /\ Others(c)
    BY <1>0, <2>1, <2>2 DEF Moved, Became, CallOf, Waiting
  <2> QED
    BY <2>1, <2>5, CallFrame
<1>5. CASE m_run_pended_op(c)
  <2>1. pc[c] = "m_run" /\ call' = call
    BY <1>5 DEF m_run_pended_op, At
  <2>2. Moved(c, "m_leave") \/ Became(c, "s_remove", whom[c], "m_notified", m_ret[c])
    BY <1>5, NotifyLocals
  <2>3. (c \in Task => CallOf(c)') /\ Others(c)
    BY <1>0, <2>1, <2>2 DEF Moved, Became, CallOf, Waiting
  <2> QED
    BY <2>1, <2>3, CallFrame
<1> QED
  BY <1>1, <1>2, <1>3, <1>4, <1>5

\* A switch takes the task that yielded on to where it looks at the outcome.
LEMMA SwitchCall ==
    ASSUME Types, ControlInv, CallInv, Switch PROVE CallInv'
<1>1. ASSUME NEW t \in Task PROVE CallOf(t)'
  <2>1. t \in Ctx /\ ControlOf(t) /\ CallOf(t)
    BY Contexts DEF ControlInv, CallInv
  <2>2. UNCHANGED <<whom, ret, m_ret, call>>
    BY SwitchLocals DEF Switch
  <2>3. pc'[t] = pc[t] \/ (pc[t] = "m_yield" /\ pc'[t] = "m_awake")
    BY <2>1, SwitchLocals DEF ControlOf, Waiting, SuspendedSteps, MailboxSuspended, Types
  <2> QED
    BY <2>1, <2>2, <2>3 DEF CallOf, Waiting
<1> QED
  BY <1>1 DEF CallInv

-----------------------------------------------------------------------------
(***************************************************************************)
(* The locks.                                                              *)
(***************************************************************************)
EntersBox(c, b) ==
    /\ whom[c] = Idle /\ whom'[c] = b /\ ~m_locked[b]
    /\ m_locked' = [m_locked EXCEPT ![b] = TRUE]
LeavesBox(c, b) ==
    /\ whom[c] = b /\ whom'[c] = Idle
    /\ m_locked' = [m_locked EXCEPT ![b] = FALSE]
StaysInBox(c) == whom'[c] = whom[c] /\ m_locked' = m_locked

\* A step keeps the holder of a mailbox unique when it enters an unlocked one,
\* leaves its own, or does neither.
LEMMA BoxLockStep ==
    ASSUME Types, BoxLock, NEW c \in Ctx, Others(c),
           StaysInBox(c) \/ \E b \in Box : EntersBox(c, b) \/ LeavesBox(c, b)
    PROVE  BoxLock'
<1>0. \A d \in Ctx : d # c => whom'[d] = whom[d]
  BY DEF Others
<1>1. CASE StaysInBox(c)
  BY <1>0, <1>1 DEF StaysInBox, BoxLock
<1>2. ASSUME NEW b \in Box, EntersBox(c, b) PROVE BoxLock'
  <2>1. b # Idle /\ \A d \in Ctx : whom[d] # b
    BY <1>2, Contexts DEF EntersBox, BoxLock
  <2>2. \A a \in Box : m_locked'[a] <=> a = b \/ m_locked[a]
    BY <1>2 DEF EntersBox, Types
  <2>3. \A a \in Box : m_locked'[a] <=> \E d \in Ctx : whom'[d] = a
    BY <1>0, <1>2, <2>1, <2>2, Contexts DEF EntersBox, BoxLock
  <2>4. \A d, e \in Ctx : whom'[d] = whom'[e] /\ whom'[d] # Idle => d = e
    BY <1>0, <1>2, <2>1 DEF EntersBox, BoxLock
  <2> QED
    BY <2>3, <2>4 DEF BoxLock
<1>3. ASSUME NEW b \in Box, LeavesBox(c, b) PROVE BoxLock'
  <2>1. b # Idle /\ \A d \in Ctx : d # c => whom[d] # b
    BY <1>3, Contexts DEF LeavesBox, BoxLock
  <2>2. \A a \in Box : m_locked'[a] <=> a # b /\ m_locked[a]
    BY <1>3 DEF LeavesBox, Types
  <2>3. \A a \in Box : m_locked'[a] <=> \E d \in Ctx : whom'[d] = a
    BY <1>0, <1>3, <2>1, <2>2, Contexts DEF LeavesBox, BoxLock
  <2>4. \A d, e \in Ctx : whom'[d] = whom'[e] /\ whom'[d] # Idle => d = e
    BY <1>0, <1>3, <2>1 DEF LeavesBox, BoxLock
  <2> QED
    BY <2>3, <2>4 DEF BoxLock
<1> QED
  BY <1>1, <1>2, <1>3

EntersQueue(c) == pc[c] \notin InQueueLock /\ pc'[c] \in InQueueLock /\ ~s_locked /\ s_locked'
LeavesQueue(c) == pc[c] \in InQueueLock /\ pc'[c] \notin InQueueLock /\ ~s_locked'
StaysInQueue(c) == (pc'[c] \in InQueueLock <=> pc[c] \in InQueueLock) /\ s_locked' = s_locked

\* The same for the lock of the sleep queue.
LEMMA QueueLockStep ==
    ASSUME QueueLock, NEW c \in Ctx, Others(c),
           StaysInQueue(c) \/ EntersQueue(c) \/ LeavesQueue(c)
    PROVE  QueueLock'
<1>0. \A d \in Ctx : d # c => pc'[d] = pc[d]
  BY DEF Others
<1> HIDE DEF InQueueLock
<1>1. CASE StaysInQueue(c)
  BY <1>0, <1>1 DEF StaysInQueue, QueueLock
<1>2. CASE EntersQueue(c)
  BY <1>0, <1>2 DEF EntersQueue, QueueLock
<1>3. CASE LeavesQueue(c)
  BY <1>0, <1>3 DEF LeavesQueue, QueueLock
<1> QED
  BY <1>1, <1>2, <1>3

\* A task that takes a step is current and stays so.
LEMMA CurrentStep ==
    ASSUME OnlyCurrent, NEW c \in Ctx, Others(c), cur' = cur, c \in Task => c = cur
    PROVE  OnlyCurrent'
  BY Contexts DEF OnlyCurrent, Others

\* A task that takes a step is the current one.
LEMMA TakesStep ==
    ASSUME NEW c \in Ctx, Running(c) \/ Free(c)
    PROVE  c \in Task => c = cur
  BY Contexts DEF Running, Free, At

\* The steps of the sleep queue enter and leave its lock only.
LEMMA SleepLock ==
    ASSUME Types, ControlInv, LockInv, NEW c \in Ctx, InSleep(c)
    PROVE  LockInv'
<1>0. ControlOf(c) /\ Quiet(c) /\ BoxLock /\ QueueLock /\ OnlyCurrent
  BY QuietSteps DEF ControlInv, LockInv
<1>1. cur' = cur /\ Running(c)
  BY Contexts DEF InSleep, SleepStep, s_leave, run_pended_op, wake_expired_tasks,
     drain_delete_buffer, clear_time_to_wakeup, wake_sleeping_tasks, add_guard, add_insert,
     remove_guard, remove_full, At
<1>2. BoxLock' /\ OnlyCurrent'
  BY <1>0, <1>1, BoxLockStep, CurrentStep, TakesStep DEF Quiet, StaysInBox
<1>3. QueueLock'
  <2>1. CASE s_leave(c)
    <3>1. /\ pc[c] = "s_leave"
          /\ \/ Moved(c, "s_run") /\ s_locked' = s_locked
             \/ Returned(c) /\ s_locked' = FALSE
      BY <2>1, SleepLocals DEF s_leave, At
    <3>2. ret[c] \in {"home", "m_leave", "m_told", "m_notified"}
      BY <1>0, <3>1 DEF ControlOf, SuspendedSteps
    <3>3. StaysInQueue(c) \/ LeavesQueue(c)
      BY <3>1, <3>2 DEF StaysInQueue, LeavesQueue, Moved, Returned, Became, InQueueLock, SuspendedSteps
    <3> QED
      BY <1>0, <3>3, QueueLockStep DEF Quiet
  <2>2. CASE \/ run_pended_op(c) \/ wake_expired_tasks(c) \/ drain_delete_buffer(c)
             \/ clear_time_to_wakeup(c) \/ remove_full(c)
    <3>1. /\ pc[c] \in {"s_run", "expire", "expire_pended", "drain", "drain_pended", "clear", "s_take"}
          /\ s_locked' = s_locked
      BY <2>2 DEF run_pended_op, wake_expired_tasks, drain_delete_buffer,
         clear_time_to_wakeup, remove_full, At, squeue
    <3>2. \E p \in {"expire_pended", "s_leave", "drain", "drain_pended", "clear"} : Moved(c, p)
      BY <2>2, SleepLocals
    <3>3. StaysInQueue(c)
      BY <3>1, <3>2 DEF StaysInQueue, Moved, Became, InQueueLock, SuspendedSteps
    <3> QED
      BY <1>0, <3>3, QueueLockStep DEF Quiet
  <2>3. CASE c = SysTick /\ wake_sleeping_tasks
    <3>1. /\ pc[c] = "s_wake"
          /\ \/ Moved(c, "home") /\ s_locked' = s_locked
             \/ Moved(c, "expire") /\ ~s_locked /\ s_locked'
      BY <2>3, SleepLocals DEF wake_sleeping_tasks, At, Lock
    <3>2. StaysInQueue(c) \/ EntersQueue(c)
      BY <3>1 DEF StaysInQueue, EntersQueue, Moved, Became, InQueueLock, SuspendedSteps
    <3> QED
      BY <1>0, <3>2, QueueLockStep DEF Quiet
  <2>4. CASE c \in Task /\ add_guard(c)
    <3>1. pc[c] = "s_add" /\ Running(c) /\ s_locked'
      BY <2>4 DEF add_guard, At, Lock
    <3>2. ~s_locked
      BY <2>4, <3>1, Alone DEF InQueueLock
    <3>3. Moved(c, "s_insert")
      BY <2>4, <3>2, SleepLocals
    <3>4. EntersQueue(c)
      BY <3>1, <3>2, <3>3 DEF EntersQueue, Moved, Became, InQueueLock, SuspendedSteps
    <3> QED
      BY <1>0, <3>4, QueueLockStep DEF Quiet
  <2>5. CASE c \in Task /\ add_insert(c)
    <3>1. pc[c] = "s_insert" /\ s_locked' = s_locked /\ Moved(c, "s_leave")
      BY <2>5, SleepLocals DEF add_insert, At
    <3>2. StaysInQueue(c)
      BY <3>1 DEF StaysInQueue, Moved, Became, InQueueLock, SuspendedSteps
    <3> QED
      BY <1>0, <3>2, QueueLockStep DEF Quiet
  <2>6. CASE remove_guard(c)
    <3>1. /\ pc[c] = "s_remove"
          /\ \/ (Returned(c) \/ Moved(c, "die")) /\ s_locked' = s_locked
             \/ Moved(c, "s_take") /\ ~s_locked /\ s_locked'
      BY <2>6, SleepLocals DEF remove_guard, At, Lock
    <3>2. ret[c] \in {"m_told", "m_notified"}
      BY <1>0, <3>1 DEF ControlOf
    <3>3. StaysInQueue(c) \/ EntersQueue(c)
      BY <3>1, <3>2 DEF StaysInQueue, EntersQueue, Moved, Returned, Became, InQueueLock, SuspendedSteps
    <3> QED
      BY <1>0, <3>3, QueueLockStep DEF Quiet
  <2> QED
    BY <2>1, <2>2, <2>3, <2>4, <2>5, <2>6 DEF InSleep, SleepStep
<1> QED
  BY <1>2, <1>3 DEF LockInv

\* The clock takes no lock.
LEMMA TickLock ==
    ASSUME Types, ControlInv, LockInv, Tick PROVE LockInv'
<1>0. Quiet(SysTick) /\ SysTick \in Ctx /\ SysTick \notin Task
  BY QuietSteps, Contexts
<1>1. /\ cur' = cur /\ s_locked' = s_locked
      /\ pc[SysTick] = "home" /\ pc'[SysTick] = "s_wake"
  BY Contexts, TickLocals DEF Tick, advance_tick, squeue, Arrives, Irq, Moved, Became
<1>2. StaysInQueue(SysTick) /\ StaysInBox(SysTick)
  BY <1>0, <1>1 DEF StaysInQueue, StaysInBox, Quiet, InQueueLock, SuspendedSteps
<1> QED
  BY <1>0, <1>1, <1>2, BoxLockStep, QueueLockStep, CurrentStep DEF LockInv, Quiet

\* Steps of the mailbox leave the lock of the sleep queue alone.
LEMMA WaitLock ==
    ASSUME Types, ControlInv, CallInv, LockInv, NEW t \in Task,
           \/ \E k \in {"wait", "timeout"} : mailbox_call(t, k)
           \/ wait_counted(t) \/ wait_block(t)
           \/ \E ms \in Durations : wait_block_timeout(t, ms)
           \/ awake(t) \/ wait_return(t)
    PROVE  LockInv'
<1>0. t \in Ctx /\ CallOf(t) /\ ControlOf(t) /\ BoxLock /\ QueueLock /\ OnlyCurrent
  BY Contexts DEF ControlInv, CallInv, LockInv
<1>1. /\ cur' = cur /\ s_locked' = s_locked /\ Running(t)
      /\ pc[t] \in {"home", "m_wait", "m_awake", "m_true", "m_false"}
  BY DEF mailbox_call, wait_counted, wait_block, wait_block_timeout, awake, wait_return, squeue, At
<1>2. whom[t] = Idle /\ ~Adding(t)
  BY <1>0, <1>1 DEF ControlOf, SuspendedSteps, MailboxSuspended, Adding
<1>3. \A b \in Box : ~m_locked[b]
  BY <1>1, <1>2, Alone
<1>4. /\ Others(t) /\ pc'[t] \in {"m_wait", "m_leave", "s_add", "m_true", "home"}
      /\ StaysInBox(t) \/ (t \in Box /\ EntersBox(t, t))
  <2>1. CASE \E k \in {"wait", "timeout"} : mailbox_call(t, k)
    <3>1. Moved(t, "m_wait") /\ m_locked' = m_locked
      BY <2>1, WaitLocals DEF mailbox_call, mbvars, mlock
    <3> QED
      BY <3>1 DEF Moved, Became, StaysInBox
  <2>2. CASE wait_counted(t) \/ wait_block(t)
    <3>1. pc[t] = "m_wait" /\ m_locked' = [m_locked EXCEPT ![t] = TRUE]
      BY <2>2 DEF wait_counted, wait_block, LockBox, At
    <3>2. t \in Box
      BY <1>0, <3>1 DEF CallOf, Waiting
    <3>3. Became(t, "m_leave", t, ret[t], "m_true") \/ Became(t, "m_leave", t, ret[t], "m_yield")
      BY <2>2, WaitLocals
    <3> QED
      BY <1>2, <1>3, <3>1, <3>2, <3>3 DEF Became, EntersBox
  <2>3. CASE \E ms \in Durations : wait_block_timeout(t, ms)
    <3>1. pc[t] = "m_wait" /\ m_locked' = [m_locked EXCEPT ![t] = TRUE]
      BY <2>3 DEF wait_block_timeout, LockBox, At
    <3>2. t \in Box
      BY <1>0, <3>1 DEF CallOf, Waiting
    <3>3. Became(t, "s_add", t, "m_leave", "m_yield")
      BY <2>3, WaitLocals
    <3> QED
      BY <1>2, <1>3, <3>1, <3>2, <3>3 DEF Became, EntersBox
  <2>4. CASE awake(t)
    <3>1. pc[t] = "m_awake"
      BY <2>4 DEF awake, At
    <3>2. t \in Box
      BY <1>0, <3>1 DEF CallOf, Waiting
    <3>3. CASE call[t] = "wait"
      <4>1. Moved(t, "m_true") /\ m_locked' = m_locked
        BY <2>4, <3>3, WaitLocals DEF awake
      <4> QED
        BY <4>1 DEF Moved, Became, StaysInBox
    <3>4. CASE call[t] # "wait"
      <4>1. m_locked' = [m_locked EXCEPT ![t] = TRUE]
        BY <2>4, <3>4 DEF awake, LockBox
      <4>2. \E m \in {"m_true", "m_false"} : Became(t, "m_leave", t, ret[t], m)
        BY <1>3, <2>4, <3>2, <3>4, WaitLocals
      <4> QED
        BY <1>2, <1>3, <3>2, <4>1, <4>2 DEF Became, EntersBox
    <3> QED
      BY <3>3, <3>4
  <2>5. CASE wait_return(t)
    <3>1. Moved(t, "home") /\ m_locked' = m_locked
      BY <2>5, WaitLocals DEF wait_return, mlock
    <3> QED
      BY <3>1 DEF Moved, Became, StaysInBox
  <2> QED
    BY <2>1, <2>2, <2>3, <2>4, <2>5
<1>5. StaysInQueue(t)
  BY <1>1, <1>4 DEF StaysInQueue, InQueueLock, SuspendedSteps
<1> QED
  BY <1>0, <1>1, <1>4, <1>5, BoxLockStep, QueueLockStep, CurrentStep, TakesStep DEF LockInv

\* A notifier enters an unlocked mailbox, and leaves the one it is in.
LEMMA NotifyLock ==
    ASSUME Types, ControlInv, CallInv, LockInv, NEW c \in Ctx,
           \/ \E b \in Box : notify_pend(c, b) \/ notify_full(c, b)
           \/ notify_told(c) \/ m_leave(c) \/ m_run_pended_op(c) \/ run_pended_notified(c)
    PROVE  LockInv'
<1>0. ControlOf(c) /\ (c \in Task => CallOf(c)) /\ BoxLock /\ QueueLock /\ OnlyCurrent
  BY DEF ControlInv, CallInv, LockInv
<1>1. cur' = cur /\ s_locked' = s_locked /\ (Running(c) \/ Free(c))
  BY DEF notify_pend, notify_full, notify_told, m_leave, m_run_pended_op, run_pended_notified,
     squeue, sqvars, At
<1>2. /\ Others(c) /\ (pc'[c] \in InQueueLock <=> pc[c] \in InQueueLock)
      /\ StaysInBox(c) \/ \E b \in Box : EntersBox(c, b) \/ LeavesBox(c, b)
  <2>1. CASE \E b \in Box : notify_pend(c, b)
    <3>1. Moved(c, pc[c]) /\ m_locked' = m_locked
      BY <2>1, NotifyLocals DEF notify_pend
    <3> QED
      BY <3>1 DEF Moved, Became, StaysInBox
  <2>2. ASSUME NEW b \in Box, notify_full(c, b)
        PROVE  Others(c) /\ (pc'[c] \in InQueueLock <=> pc[c] \in InQueueLock) /\ EntersBox(c, b)
    <3>1. pc[c] = "home" /\ ~m_locked[b] /\ m_locked' = [m_locked EXCEPT ![b] = TRUE]
      BY <2>2, Contexts DEF notify_full, LockBox, Free, Arrives, At, Irq
    <3>2. whom[c] = Idle
      BY <1>0, <3>1 DEF ControlOf, SuspendedSteps, MailboxSuspended
    <3>3. \/ Became(c, "s_remove", b, "m_told", "home")
          \/ Became(c, "m_leave", b, ret[c], "home")
      BY <2>2, NotifyLocals
    <3> QED
      BY <3>1, <3>2, <3>3 DEF Became, EntersBox, InQueueLock, SuspendedSteps
  <2>3. CASE notify_told(c) \/ run_pended_notified(c)
    <3>1. pc[c] \in {"m_told", "m_notified"} /\ Moved(c, "m_leave") /\ m_locked' = m_locked
      BY <2>3, NotifyLocals DEF notify_told, run_pended_notified, At, mlock
    <3> QED
      BY <3>1 DEF Moved, Became, StaysInBox, InQueueLock, SuspendedSteps
  <2>4. CASE m_leave(c) /\ m_pending[whom[c]]
    <3>1. pc[c] = "m_leave" /\ Moved(c, "m_run") /\ m_locked' = m_locked
      BY <2>4, NotifyLocals DEF m_leave, At
    <3> QED
      BY <3>1 DEF Moved, Became, StaysInBox, InQueueLock, SuspendedSteps
  <2>5. CASE m_leave(c) /\ ~m_pending[whom[c]]
    <3>1. pc[c] = "m_leave" /\ m_locked' = [m_locked EXCEPT ![whom[c]] = FALSE]
      BY <2>5 DEF m_leave, At
    <3>2. whom[c] \in Box
      BY <1>0, <3>1 DEF ControlOf, MailboxSuspended, TickSteps, Types
    <3>3. m_ret[c] \in {"home", "m_true", "m_yield", "m_false"}
      <4>1. CASE c \in Irq
        BY <1>0, <4>1 DEF ControlOf
      <4>2. CASE c \in Task
        BY <1>0, <3>1, <4>2 DEF CallOf, Waiting
      <4> QED
        BY <4>1, <4>2, Contexts
    <3>4. Became(c, m_ret[c], Idle, ret[c], "home")
      BY <2>5, NotifyLocals
    <3>5. LeavesBox(c, whom[c])
      BY <3>1, <3>4 DEF Became, LeavesBox
    <3> QED
      BY <3>1, <3>2, <3>3, <3>4, <3>5 DEF Became, InQueueLock, SuspendedSteps
  <2>6. CASE m_run_pended_op(c)
    <3>1. pc[c] = "m_run" /\ m_locked' = m_locked
      BY <2>6 DEF m_run_pended_op, At, mlock
    <3>2. Moved(c, "m_leave") \/ Became(c, "s_remove", whom[c], "m_notified", m_ret[c])
      BY <2>6, NotifyLocals
    <3> QED
      BY <3>1, <3>2 DEF Moved, Became, StaysInBox, InQueueLock, SuspendedSteps
  <2> QED
    BY <2>1, <2>2, <2>3, <2>4, <2>5, <2>6
<1>3. StaysInQueue(c)
  BY <1>1, <1>2 DEF StaysInQueue
<1> QED
  BY <1>0, <1>1, <1>2, <1>3, BoxLockStep, QueueLockStep, CurrentStep, TakesStep DEF LockInv

\* A switch happens only when the current task holds no lock.
LEMMA SwitchLock ==
    ASSUME Types, ControlInv, LockInv, Switch PROVE LockInv'
<1>1. ASSUME NEW c \in Ctx
      PROVE  pc'[c] = pc[c] \/ (c = cur /\ pc[c] = "m_yield" /\ pc'[c] = "m_awake")
  <2>1. pc[c] # "yield"
    BY DEF ControlInv, ControlOf, Waiting, SuspendedSteps, MailboxSuspended
  <2> QED
    BY <2>1, SwitchLocals DEF Types
<1>2. UNCHANGED <<whom, m_locked, s_locked>>
  BY DEF Switch, mbvars, mlock, squeue
<1>3. BoxLock'
  BY <1>2 DEF LockInv, BoxLock
<1>4. \A c \in Ctx : pc'[c] \in SuspendedSteps \union MailboxSuspended =>
                     pc'[c] = pc[c]
  BY <1>1 DEF SuspendedSteps, MailboxSuspended
<1>5. \A c \in Ctx : pc'[c] \in InQueueLock <=> pc[c] \in InQueueLock
  BY <1>1 DEF InQueueLock, SuspendedSteps
<1>6. QueueLock'
  BY <1>2, <1>5 DEF LockInv, QueueLock
<1>7. cur # Idle => pc[cur] \notin SuspendedSteps \union MailboxSuspended
  BY DEF Switch, switch
<1>8. ASSUME NEW t \in Task PROVE pc[t] \notin SuspendedSteps \union MailboxSuspended
  BY <1>7, Contexts DEF LockInv, OnlyCurrent
<1>9. OnlyCurrent'
  BY <1>4, <1>8, Contexts DEF OnlyCurrent
<1> QED
  BY <1>3, <1>6, <1>9 DEF LockInv

-----------------------------------------------------------------------------
(***************************************************************************)
(* A step of context c that concerns the mailbox b, which nobody else has  *)
(* locked.                                                                 *)
(***************************************************************************)
SameBox(a) ==
    /\ call'[a] = call[a] /\ count'[a] = count[a] /\ pending_count'[a] = pending_count[a]
    /\ wait_task'[a] = wait_task[a] /\ task_notified'[a] = task_notified[a]
    /\ m_locked'[a] = m_locked[a] /\ m_pending'[a] = m_pending[a] /\ owed'[a] = owed[a]

BoxStep(c, b) ==
    /\ Others(c)
    /\ whom[c] \in {Idle, b} /\ whom'[c] \in {Idle, b}
    /\ \A d \in Ctx : d # c => whom[d] # b
    /\ \A a \in Box : a # b => SameBox(a)
    /\ c # b => /\ pc[c] \notin Waiting \union {"s_add", "s_insert"}
                /\ pc'[c] \notin Waiting \union {"s_add", "s_insert"}

\* Who tells a task has its mailbox locked.
LEMMA TellerHolds ==
    ASSUME Types, ControlInv, NEW c \in Ctx, Telling(c, "m_told") \/ Telling(c, "m_notified")
    PROVE  whom[c] \in Box
<1>1. ControlOf(c)
  BY DEF ControlInv
<1>2. c # SysTick /\ pc[c] \in SuspendedSteps \union MailboxSuspended
  BY <1>1 DEF ControlOf, Telling, TickSteps, MailboxSuspended
<1> QED
  BY <1>1, <1>2 DEF ControlOf, Types

\* A step about mailbox b keeps the record of every mailbox if it keeps that of b.
LEMMA RecordFrame ==
    ASSUME Types, ControlInv, RecordInv, NEW c \in Ctx, NEW b \in Box, BoxStep(c, b),
           RecordOf(b)', TellingOf(c)'
    PROVE  RecordInv'
<1>0. b # Idle /\ \A a \in Box : a # Idle /\ a \in Ctx
  BY Contexts
<1>1. ASSUME NEW a \in Box, a # b PROVE RecordOf(a)'
  <2>1. RecordOf(a) /\ SameBox(a)
    BY <1>1 DEF RecordInv, BoxStep
  <2>2. (\E d \in Ctx : whom[d] = a /\ pc[d] = "m_run") => (\E d \in Ctx : whom'[d] = a /\ pc'[d] = "m_run")
    BY <1>0, <1>1 DEF BoxStep, Others
  <2>3. CASE a # c
    <3>1. pc'[a] = pc[a] /\ whom'[a] = whom[a] /\ m_ret'[a] = m_ret[a]
      BY <1>0, <2>3 DEF BoxStep, Others
    <3> QED
      BY <2>1, <2>2, <3>1 DEF RecordOf, SameBox, InWait
  <2>4. CASE a = c
    <3>1. ~InWait(a) /\ pc'[a] \notin {"s_add", "s_insert"}
      BY <1>0, <1>1, <2>4 DEF BoxStep, InWait, Waiting
    <3> QED
      BY <2>1, <2>2, <3>1 DEF RecordOf, SameBox
  <2> QED
    BY <2>3, <2>4
<1>2. ASSUME NEW d \in Ctx, d # c PROVE TellingOf(d)'
  <2>1. TellingOf(d)
    BY DEF RecordInv
  <2>2. pc'[d] = pc[d] /\ whom'[d] = whom[d] /\ ret'[d] = ret[d] /\ whom[d] # b
    BY <1>2 DEF BoxStep, Others
  <2>3. CASE whom[d] \in Box
    <3>3. PICK a \in Box : whom[d] = a
      BY <2>3
    <3>1. a # b /\ SameBox(a) /\ whom'[d] = a
      BY <2>2, <3>3 DEF BoxStep
    <3>2. Telling(d, "m_told") \/ Telling(d, "m_notified") => (InWait(a) <=> InWait(a)')
      <4>1. ASSUME Telling(d, "m_told") \/ Telling(d, "m_notified") PROVE InWait(a)
        BY <2>1, <3>3, <4>1 DEF TellingOf
      <4>2. CASE a # c
        BY <1>0, <3>1, <4>2 DEF BoxStep, Others, InWait
      <4>3. CASE a = c
        BY <1>0, <3>1, <4>1, <4>3 DEF BoxStep, InWait, Waiting
      <4> QED
        BY <4>2, <4>3
    <3> QED
      BY <2>1, <2>2, <3>1, <3>2, <3>3 DEF TellingOf, Telling, SameBox
  <2>4. CASE whom[d] \notin Box
    <3>1. ~Telling(d, "m_told") /\ ~Telling(d, "m_notified")
      BY <2>4, TellerHolds
    <3>2. pc[d] # "m_run"
      BY <2>4 DEF ControlInv, ControlOf, MailboxSuspended, TickSteps, Types
    <3> QED
      BY <2>2, <3>1, <3>2 DEF TellingOf, Telling
  <2> QED
    BY <2>3, <2>4
<1> QED
  BY <1>1, <1>2 DEF RecordInv

\* A step about mailbox b keeps the account of every mailbox if it keeps that of b.
LEMMA OwedFrame ==
    ASSUME Types, OwedInv, NEW c \in Ctx, NEW b \in Box, BoxStep(c, b), OwedOf(b)'
    PROVE  OwedInv'
<1>0. b # Idle /\ \A a \in Box : a # Idle /\ a \in Ctx
  BY Contexts
<1>1. ASSUME NEW a \in Box, a # b PROVE OwedOf(a)'
  <2>1. OwedOf(a) /\ SameBox(a)
    BY <1>1 DEF OwedInv, BoxStep
  <2>2. BeingTold(a)' <=> BeingTold(a)
    BY <1>0, <1>1 DEF BeingTold, Telling, BoxStep, Others
  <2>3. IsClaimed(a)' <=> IsClaimed(a)
    <3>1. CASE a # c
      BY <1>0, <2>1, <3>1 DEF BoxStep, Others, IsClaimed, InWait, SameBox
    <3>2. CASE a = c
      BY <1>0, <1>1, <3>2 DEF BoxStep, IsClaimed, InWait, Waiting
    <3> QED
      BY <3>1, <3>2
  <2> QED
    BY <2>1, <2>2, <2>3 DEF OwedOf, SameBox
<1> QED
  BY <1>1 DEF OwedInv

\* The steps in the sleep queue concern no mailbox.
LEMMA QuietRecord ==
    ASSUME Types, ControlInv, RecordInv, OwedInv, NEW c \in Ctx, Quiet(c)
    PROVE  RecordInv' /\ OwedInv'
<1>1. ASSUME NEW b \in Box PROVE InWait(b)' <=> InWait(b)
  <2>1. b \in Ctx
    BY Contexts
  <2>2. CASE b = c
    BY <2>2 DEF Quiet, InWait, Waiting
  <2>3. CASE b # c
    BY <2>1, <2>3 DEF Quiet, Others, InWait
  <2> QED
    BY <2>2, <2>3
<1>2. ASSUME NEW b \in Box PROVE RecordOf(b)'
  <2>1. RecordOf(b) /\ b \in Ctx
    BY Contexts DEF RecordInv
  <2>2. (\E d \in Ctx : whom[d] = b /\ pc[d] = "m_run") => (\E d \in Ctx : whom'[d] = b /\ pc'[d] = "m_run")
    BY DEF Quiet, Others
  <2>3. pc'[b] \in {"s_add", "s_insert"} => pc[b] \in {"s_add", "s_insert"}
    BY <2>1 DEF Quiet, Others
  <2> QED
    BY <1>1, <2>1, <2>2, <2>3 DEF RecordOf, Quiet
<1>3. ASSUME NEW d \in Ctx
      PROVE  /\ Telling(d, "m_told")' <=> Telling(d, "m_told")
             /\ Telling(d, "m_notified")' <=> Telling(d, "m_notified")
             /\ pc'[d] = "m_run" <=> pc[d] = "m_run"
  BY DEF Quiet, Others, Telling
<1>4. ASSUME NEW d \in Ctx PROVE TellingOf(d)'
  <2>1. TellingOf(d)
    BY DEF RecordInv
  <2>2. Telling(d, "m_told") \/ Telling(d, "m_notified") => (InWait(whom[d])' <=> InWait(whom[d]))
    <3>1. Telling(d, "m_told") \/ Telling(d, "m_notified") => whom[d] \in Box
      BY TellerHolds
    <3>2. \A w \in Box : InWait(w)' <=> InWait(w)
      BY <1>1
    <3>3. whom' = whom
      BY DEF Quiet
    <3> QED
      BY <3>1, <3>2, <3>3 DEF InWait
  <2> QED
    BY <1>3, <2>1, <2>2 DEF TellingOf, Quiet, InWait
<1>5. ASSUME NEW b \in Box PROVE OwedOf(b)'
  <2>1. OwedOf(b) /\ b \in Ctx
    BY Contexts DEF OwedInv
  <2>2. BeingTold(b)' <=> BeingTold(b)
    <3>1. whom' = whom
      BY DEF Quiet
    <3> QED
      BY <1>3, <3>1 DEF BeingTold
  <2>3. pc'[b] = "m_true" <=> pc[b] = "m_true"
    BY <2>1 DEF Quiet, Others, Waiting
  <2>4. IsClaimed(b)' <=> IsClaimed(b)
    BY <1>1, <2>3 DEF IsClaimed, Quiet
  <2> QED
    BY <2>1, <2>2, <2>4 DEF OwedOf, Quiet
<1> QED
  BY <1>2, <1>4, <1>5 DEF RecordInv, OwedInv

-----------------------------------------------------------------------------
(***************************************************************************)
(* The record of the waiting task and the notifications, step by step.     *)
(***************************************************************************)
\* Nothing is pended on a mailbox that is not locked.
LEMMA Unlocked ==
    ASSUME Types, ControlInv, BoxLock, RecordInv, NEW b \in Box, ~m_locked[b]
    PROVE  /\ ~m_pending[b] /\ pending_count[b] = 0 /\ ~BeingTold(b)
           /\ \A d \in Ctx : whom[d] # b
<1>1. \A d \in Ctx : whom[d] # b
  BY DEF BoxLock
<1>2. ~m_pending[b] /\ ~(pending_count[b] > 0)
  BY <1>1 DEF RecordInv, RecordOf
<1>3. pending_count[b] = 0
  BY <1>2 DEF Types
<1> QED
  BY <1>1, <1>2, <1>3 DEF BeingTold

\* A task in the sanity check of its call, or awake, has the mailbox for itself.
LEMMA Entry ==
    ASSUME Types, ControlInv, CallInv, LockInv, RecordInv, NEW t \in Box, Running(t),
           pc[t] \in {"home", "m_wait", "m_awake", "m_true", "m_false"}
    PROVE  /\ whom[t] = Idle /\ ret[t] = "home" /\ m_ret[t] = "home" /\ ~m_locked[t]
           /\ ~m_pending[t] /\ pending_count[t] = 0 /\ ~BeingTold(t)
           /\ \A d \in Ctx : whom[d] # t
           /\ InWait(t) <=> pc[t] = "m_awake"
<1>0. t \in Task /\ t \in Ctx /\ t # Idle
  BY Contexts
<1>1. whom[t] = Idle /\ ret[t] = "home" /\ m_ret[t] = "home"
  BY <1>0 DEF ControlInv, ControlOf, SuspendedSteps, MailboxSuspended
<1>2. ~m_locked[t]
  BY <1>0, <1>1, Alone
<1>3. ~m_pending[t] /\ pending_count[t] = 0 /\ ~BeingTold(t) /\ \A d \in Ctx : whom[d] # t
  BY <1>2, Unlocked DEF LockInv
<1>4. InWait(t) <=> pc[t] = "m_awake"
  BY <1>0, <1>1 DEF InWait
<1> QED
  BY <1>1, <1>2, <1>3, <1>4

\* A call of wait or wait_until_timeout.
LEMMA mailbox_callRecord ==
    ASSUME Types, ControlInv, CallInv, LockInv, RecordInv, OwedInv,
           NEW t \in Task, NEW k \in {"wait", "timeout"}, mailbox_call(t, k)
    PROVE  RecordInv' /\ OwedInv'
<1>0. t \in Box /\ t \in Ctx /\ t # Idle /\ RecordOf(t) /\ OwedOf(t)
  BY Contexts DEF mailbox_call, RecordInv, OwedInv
<1>1. pc[t] = "home" /\ Running(t) /\ Moved(t, "m_wait")
  BY WaitLocals DEF mailbox_call, At
<1>2. /\ UNCHANGED <<count, pending_count, wait_task, task_notified, m_locked, m_pending, owed>>
      /\ call' = [call EXCEPT ![t] = k]
  BY DEF mailbox_call, mbvars, inner, mlock
<1>3. /\ whom[t] = Idle /\ ret[t] = "home" /\ m_ret[t] = "home" /\ ~m_locked[t]
      /\ ~m_pending[t] /\ pending_count[t] = 0 /\ ~BeingTold(t)
      /\ \A d \in Ctx : whom[d] # t
      /\ ~InWait(t)
  BY <1>0, <1>1, Entry
<1>4. BoxStep(t, t)
  BY <1>0, <1>1, <1>2, <1>3 DEF BoxStep, Moved, Became, SameBox, Types
<1>5. wait_task[t] = "NoTask"
  BY <1>0, <1>3 DEF RecordOf
<1>6. RecordOf(t)'
  BY <1>1, <1>2, <1>3, <1>5 DEF RecordOf, Moved, Became
<1>7. TellingOf(t)'
  BY <1>1, <1>3 DEF TellingOf, Telling, Moved, Became
<1>8. OwedOf(t)'
  <2>1. ~IsClaimed(t)
    BY <1>0, <1>1, <1>3 DEF IsClaimed
  <2>2. ~IsClaimed(t)'
    BY <1>0, <1>1, <1>3 DEF IsClaimed, InWait, Moved, Became
  <2>3. ~BeingTold(t)'
    BY <1>0, <1>1, <1>3 DEF BeingTold, Moved, Became, Others
  <2> QED
    BY <1>0, <1>2, <1>3, <2>1, <2>2, <2>3 DEF OwedOf
<1> QED
  BY <1>0, <1>4, <1>6, <1>7, <1>8, RecordFrame, OwedFrame

\* A wait that finds a notification claims it.
LEMMA wait_countedRecord ==
    ASSUME Types, ControlInv, CallInv, LockInv, RecordInv, OwedInv,
           NEW t \in Task, wait_counted(t)
    PROVE  RecordInv' /\ OwedInv'
<1>1. pc[t] = "m_wait" /\ Running(t) /\ Became(t, "m_leave", t, ret[t], "m_true")
  BY WaitLocals DEF wait_counted, At
<1>0. t \in Box /\ t \in Ctx /\ t # Idle /\ RecordOf(t) /\ OwedOf(t)
  BY <1>1, Contexts DEF CallInv, CallOf, Waiting, RecordInv, OwedInv
<1>2. /\ UNCHANGED <<call, pending_count, wait_task, task_notified, m_pending, owed>>
      /\ count' = [count EXCEPT ![t] = @ - 1] /\ count[t] > 0
      /\ m_locked' = [m_locked EXCEPT ![t] = TRUE] /\ wait_task[t] = "NoTask"
  BY DEF wait_counted, LockBox, Enterable
<1>3. /\ whom[t] = Idle /\ ret[t] = "home" /\ m_ret[t] = "home" /\ ~m_locked[t]
      /\ ~m_pending[t] /\ pending_count[t] = 0 /\ ~BeingTold(t)
      /\ \A d \in Ctx : whom[d] # t
      /\ ~InWait(t)
  BY <1>0, <1>1, Entry
<1>4. BoxStep(t, t)
  BY <1>0, <1>1, <1>2, <1>3 DEF BoxStep, Became, SameBox, Types
<1>6. RecordOf(t)'
  BY <1>1, <1>2, <1>3 DEF RecordOf, Became
<1>7. TellingOf(t)'
  BY <1>1, <1>3 DEF TellingOf, Telling, Became
<1>8. OwedOf(t)'
  <2>1. ~IsClaimed(t)
    BY <1>0, <1>1, <1>3 DEF IsClaimed
  <2>2. IsClaimed(t)'
    BY <1>0, <1>1 DEF IsClaimed, Became
  <2>3. ~BeingTold(t)'
    BY <1>0, <1>1, <1>3 DEF BeingTold, Telling, Became, Others
  <2>4. count[t] \in Nat /\ count'[t] = count[t] - 1
    BY <1>0, <1>2 DEF Types
  <2> QED
    BY <1>0, <1>2, <1>3, <2>1, <2>2, <2>3, <2>4 DEF OwedOf
<1> QED
  BY <1>0, <1>4, <1>6, <1>7, <1>8, RecordFrame, OwedFrame

\* A wait without a timeout records the task, with nothing counted.
LEMMA wait_blockRecord ==
    ASSUME Types, ControlInv, CallInv, LockInv, RecordInv, OwedInv,
           NEW t \in Task, wait_block(t)
    PROVE  RecordInv' /\ OwedInv'
<1>1. pc[t] = "m_wait" /\ Running(t) /\ Became(t, "m_leave", t, ret[t], "m_yield")
  BY WaitLocals DEF wait_block, At
<1>0. t \in Box /\ t \in Ctx /\ t # Idle /\ RecordOf(t) /\ OwedOf(t)
  BY <1>1, Contexts DEF CallInv, CallOf, Waiting, RecordInv, OwedInv
<1>2. /\ UNCHANGED <<call, count, pending_count, task_notified, m_pending, owed>>
      /\ count[t] = 0 /\ call[t] = "wait"
      /\ m_locked' = [m_locked EXCEPT ![t] = TRUE]
      /\ wait_task' = [wait_task EXCEPT ![t] = "WithoutTimeout"]
  BY DEF wait_block, LockBox
<1>3. /\ whom[t] = Idle /\ ret[t] = "home" /\ m_ret[t] = "home" /\ ~m_locked[t]
      /\ ~m_pending[t] /\ pending_count[t] = 0 /\ ~BeingTold(t)
      /\ \A d \in Ctx : whom[d] # t
      /\ ~InWait(t)
  BY <1>0, <1>1, Entry
<1>4. BoxStep(t, t)
  BY <1>0, <1>1, <1>2, <1>3 DEF BoxStep, Became, SameBox, Types
<1>5. wait_task'[t] = "WithoutTimeout" /\ InWait(t)'
  BY <1>0, <1>1, <1>2 DEF Types, InWait, Became
<1>6. RecordOf(t)'
  BY <1>1, <1>2, <1>3, <1>5 DEF RecordOf, Became
<1>7. TellingOf(t)'
  BY <1>1, <1>3 DEF TellingOf, Telling, Became
<1>8. OwedOf(t)'
  <2>1. ~IsClaimed(t)
    BY <1>0, <1>1, <1>3 DEF IsClaimed
  <2>2. ~IsClaimed(t)'
    BY <1>0, <1>1, <1>2, <1>5 DEF IsClaimed, Became
  <2>3. ~BeingTold(t)'
    BY <1>0, <1>1, <1>3 DEF BeingTold, Telling, Became, Others
  <2> QED
    BY <1>0, <1>2, <1>3, <2>1, <2>2, <2>3 DEF OwedOf
<1> QED
  BY <1>0, <1>4, <1>6, <1>7, <1>8, RecordFrame, OwedFrame

\* A wait with a timeout does too, and forgets what it was told before.
LEMMA wait_block_timeoutRecord ==
    ASSUME Types, ControlInv, CallInv, LockInv, RecordInv, OwedInv,
           NEW t \in Task, NEW ms \in Durations, wait_block_timeout(t, ms)
    PROVE  RecordInv' /\ OwedInv'
<1>1. pc[t] = "m_wait" /\ Running(t) /\ Became(t, "s_add", t, "m_leave", "m_yield")
  BY WaitLocals DEF wait_block_timeout, At
<1>0. t \in Box /\ t \in Ctx /\ t # Idle /\ RecordOf(t) /\ OwedOf(t)
  BY <1>1, Contexts DEF CallInv, CallOf, Waiting, RecordInv, OwedInv
<1>2. /\ UNCHANGED <<call, count, pending_count, m_pending, owed>>
      /\ count[t] = 0 /\ call[t] = "timeout"
      /\ m_locked' = [m_locked EXCEPT ![t] = TRUE]
      /\ wait_task' = [wait_task EXCEPT ![t] = "WithTimeout"]
      /\ task_notified' = [task_notified EXCEPT ![t] = FALSE]
  BY DEF wait_block_timeout, LockBox
<1>3. /\ whom[t] = Idle /\ ret[t] = "home" /\ m_ret[t] = "home" /\ ~m_locked[t]
      /\ ~m_pending[t] /\ pending_count[t] = 0 /\ ~BeingTold(t)
      /\ \A d \in Ctx : whom[d] # t
      /\ ~InWait(t)
  BY <1>0, <1>1, Entry
<1>4. BoxStep(t, t)
  BY <1>0, <1>1, <1>2, <1>3 DEF BoxStep, Became, SameBox, Types
<1>5. wait_task'[t] = "WithTimeout" /\ InWait(t)' /\ task_notified'[t] = FALSE
  BY <1>0, <1>1, <1>2 DEF Types, InWait, Became
<1>6. RecordOf(t)'
  BY <1>1, <1>2, <1>3, <1>5 DEF RecordOf, Became
<1>7. TellingOf(t)'
  BY <1>1, <1>3 DEF TellingOf, Telling, Became
<1>8. OwedOf(t)'
  <2>1. ~IsClaimed(t)
    BY <1>0, <1>1, <1>3 DEF IsClaimed
  <2>2. ~IsClaimed(t)'
    BY <1>0, <1>1, <1>2, <1>5 DEF IsClaimed, Became
  <2>3. ~BeingTold(t)'
    BY <1>0, <1>1, <1>3 DEF BeingTold, Telling, Became, Others
  <2> QED
    BY <1>0, <1>2, <1>3, <2>1, <2>2, <2>3 DEF OwedOf
<1> QED
  BY <1>0, <1>4, <1>6, <1>7, <1>8, RecordFrame, OwedFrame

\* A task that runs again clears its record; without a timeout it was cleared for it.
LEMMA awakeRecord ==
    ASSUME Types, ControlInv, CallInv, LockInv, RecordInv, OwedInv, BlockedInv,
           NEW t \in Task, awake(t)
    PROVE  RecordInv' /\ OwedInv'
<1>1. pc[t] = "m_awake" /\ Running(t)
  BY DEF awake, At
<1>0. t \in Box /\ t \in Ctx /\ t # Idle /\ RecordOf(t) /\ OwedOf(t) /\ call[t] # "none" /\ t = cur
  BY <1>1, Contexts DEF CallInv, CallOf, Waiting, RecordInv, OwedInv, Running
<1>2. UNCHANGED <<call, count, pending_count, task_notified, m_pending, owed>>
  BY DEF awake
<1>3. /\ whom[t] = Idle /\ ret[t] = "home" /\ m_ret[t] = "home" /\ ~m_locked[t]
      /\ ~m_pending[t] /\ pending_count[t] = 0 /\ ~BeingTold(t)
      /\ \A d \in Ctx : whom[d] # t
      /\ InWait(t)
  BY <1>0, <1>1, Entry
<1>4. CASE call[t] = "wait"
  <2>1. Moved(t, "m_true") /\ UNCHANGED <<wait_task, m_locked>>
    BY <1>4, WaitLocals DEF awake
  <2>2. BoxStep(t, t)
    BY <1>0, <1>1, <1>2, <1>3, <2>1 DEF BoxStep, Moved, Became, SameBox, Types
  <2>3. wait_task[t] = "NoTask"
    <3>1. state[t] # "Blocked"
      BY <1>0, <1>1 DEF BlockedInv
    <3>2. wait_task[t] # "WithoutTimeout"
      BY <1>0, <3>1 DEF BlockedInv
    <3> QED
      BY <1>0, <1>4, <3>2 DEF RecordOf, Types, WaitTask
  <2>4. RecordOf(t)'
    BY <1>1, <1>2, <1>3, <2>1, <2>3 DEF RecordOf, Moved, Became
  <2>5. TellingOf(t)'
    BY <1>1, <1>3, <2>1 DEF TellingOf, Telling, Moved, Became
  <2>6. IsClaimed(t) /\ IsClaimed(t)'
    BY <1>0, <1>3, <1>4, <2>1, <2>3 DEF IsClaimed, Moved, Became
  <2>7. ~BeingTold(t)'
    BY <1>0, <1>3, <2>1 DEF BeingTold, Telling, Moved, Became, Others
  <2>8. OwedOf(t)'
    BY <1>0, <1>2, <1>3, <2>6, <2>7 DEF OwedOf
  <2> QED
    BY <1>0, <2>2, <2>4, <2>5, <2>8, RecordFrame, OwedFrame
<1>5. CASE call[t] # "wait"
  <2>0. call[t] = "timeout"
    BY <1>0, <1>5 DEF Types
  <2>1. /\ Became(t, "m_leave", t, ret[t], IF task_notified[t] THEN "m_true" ELSE "m_false")
        /\ wait_task' = [wait_task EXCEPT ![t] = "NoTask"]
        /\ m_locked' = [m_locked EXCEPT ![t] = TRUE]
    BY <1>3, <1>5, WaitLocals DEF awake, LockBox
  <2>2. BoxStep(t, t)
    BY <1>0, <1>1, <1>2, <1>3, <2>1 DEF BoxStep, Became, SameBox, Types
  <2>3. wait_task'[t] = "NoTask"
    BY <1>0, <2>1 DEF Types
  <2>4. RecordOf(t)'
    BY <1>1, <1>2, <1>3, <2>1, <2>3 DEF RecordOf, Became
  <2>5. TellingOf(t)'
    BY <1>1, <1>3, <2>1 DEF TellingOf, Telling, Became
  <2>6. IsClaimed(t) <=> task_notified[t]
    BY <1>0, <1>1, <1>3, <2>0 DEF IsClaimed
  <2>7. IsClaimed(t)' <=> task_notified[t]
    BY <1>0, <2>1 DEF IsClaimed, InWait, Became
  <2>8. ~BeingTold(t)'
    BY <1>0, <1>3, <2>1 DEF BeingTold, Telling, Became, Others
  <2>9. OwedOf(t)'
    BY <1>0, <1>2, <1>3, <2>6, <2>7, <2>8 DEF OwedOf
  <2> QED
    BY <1>0, <2>2, <2>4, <2>5, <2>9, RecordFrame, OwedFrame
<1> QED
  BY <1>4, <1>5

\* The task reports the notification that it claimed, of which one was owed.
LEMMA wait_returnRecord ==
    ASSUME Types, ControlInv, CallInv, LockInv, RecordInv, OwedInv,
           NEW t \in Task, wait_return(t)
    PROVE  RecordInv' /\ OwedInv' /\ owed' \in [Box -> 0 .. MaxOwed]
<1>1. pc[t] \in {"m_true", "m_false"} /\ Running(t) /\ Moved(t, "home")
  BY WaitLocals DEF wait_return, At
<1>0. t \in Box /\ t \in Ctx /\ t # Idle /\ RecordOf(t) /\ OwedOf(t)
  BY <1>1, Contexts DEF CallInv, CallOf, Waiting, RecordInv, OwedInv
<1>2. /\ UNCHANGED <<count, pending_count, wait_task, m_locked, m_pending>>
      /\ call' = [call EXCEPT ![t] = "none"]
      /\ task_notified' = [task_notified EXCEPT ![t] = FALSE]
      /\ owed' = [owed EXCEPT ![t] = IF pc[t] = "m_true" THEN @ - 1 ELSE @]
  BY DEF wait_return, mlock
<1>3. /\ whom[t] = Idle /\ ret[t] = "home" /\ m_ret[t] = "home" /\ ~m_locked[t]
      /\ ~m_pending[t] /\ pending_count[t] = 0 /\ ~BeingTold(t)
      /\ \A d \in Ctx : whom[d] # t
      /\ ~InWait(t)
  BY <1>0, <1>1, Entry
<1>4. BoxStep(t, t)
  BY <1>0, <1>1, <1>2, <1>3 DEF BoxStep, Moved, Became, SameBox, Types
<1>5. wait_task[t] = "NoTask"
  BY <1>0, <1>3 DEF RecordOf
<1>6. RecordOf(t)'
  BY <1>1, <1>2, <1>3, <1>5 DEF RecordOf, Moved, Became
<1>7. TellingOf(t)'
  BY <1>1, <1>3 DEF TellingOf, Telling, Moved, Became
<1>8. IsClaimed(t) <=> pc[t] = "m_true"
  BY <1>0, <1>3 DEF IsClaimed
<1>9. ~IsClaimed(t)'
  BY <1>0, <1>1, <1>3 DEF IsClaimed, InWait, Moved, Became
<1>10. ~BeingTold(t)'
  BY <1>0, <1>1, <1>3 DEF BeingTold, Moved, Became, Others
<1>11. count[t] \in Nat /\ owed[t] \in 0 .. MaxOwed /\ owed'[t] = IF pc[t] = "m_true" THEN owed[t] - 1 ELSE owed[t]
  BY <1>0, <1>2 DEF Types
<1>12. OwedOf(t)'
  BY <1>0, <1>2, <1>3, <1>8, <1>9, <1>10, <1>11 DEF OwedOf
<1>13. owed'[t] \in 0 .. MaxOwed
  <2>1. pc[t] = "m_true" => owed[t] = count[t] + 1
    BY <1>0, <1>3, <1>8, <1>11 DEF OwedOf
  <2> QED
    BY <1>11, <2>1, Contexts
<1> QED
  BY <1>0, <1>2, <1>4, <1>6, <1>7, <1>12, <1>13, RecordFrame, OwedFrame DEF Types

-----------------------------------------------------------------------------
(***************************************************************************)
(* The same, for notifications and for whoever leaves a mailbox.           *)
(***************************************************************************)
LEMMA notify_pendRecord ==
    ASSUME Types, RecordInv, OwedInv, NEW c \in Ctx, NEW b \in Box, notify_pend(c, b)
    PROVE  RecordInv' /\ OwedInv'
<1>1. /\ UNCHANGED <<pc, whom, ret, m_ret, call, count, wait_task, task_notified, m_locked>>
      /\ pending_count' = [pending_count EXCEPT ![b] = @ + 1]
      /\ m_pending' = [m_pending EXCEPT ![b] = TRUE]
      /\ owed' = [owed EXCEPT ![b] = @ + 1] /\ m_locked[b]
  BY DEF notify_pend, sqvars, Sent
<1>2. /\ pending_count[b] \in Nat /\ pending_count'[b] = pending_count[b] + 1
      /\ \A a \in Box : a # b => pending_count'[a] = pending_count[a] /\ m_pending'[a] = m_pending[a]
                                 /\ owed'[a] = owed[a]
      /\ m_pending'[b] = TRUE /\ owed'[b] = owed[b] + 1 /\ count[b] \in Nat /\ owed[b] \in Nat
  BY <1>1, Contexts DEF Types
<1>3. ASSUME NEW a \in Box
      PROVE  /\ InWait(a)' <=> InWait(a)
             /\ BeingTold(a)' <=> BeingTold(a)
             /\ IsClaimed(a)' <=> IsClaimed(a)
  BY <1>1 DEF InWait, BeingTold, Telling, IsClaimed
<1>4. ASSUME NEW a \in Box PROVE RecordOf(a)'
  <2>1. RecordOf(a)
    BY DEF RecordInv
  <2>2. CASE a = b
    BY <1>1, <1>2, <1>3, <2>1, <2>2 DEF RecordOf
  <2>3. CASE a # b
    BY <1>1, <1>2, <1>3, <2>1, <2>3 DEF RecordOf
  <2> QED
    BY <2>2, <2>3
<1>5. ASSUME NEW d \in Ctx PROVE TellingOf(d)'
  <2>1. TellingOf(d)
    BY DEF RecordInv
  <2>2. \A a \in Box : pending_count[a] > 0 => pending_count'[a] > 0
    BY <1>2
  <2>3. pc[d] = "m_run" /\ wait_task[whom[d]] # "NoTask" => pending_count'[whom[d]] > 0
    <3>1. CASE whom[d] \in Box
      BY <2>1, <2>2, <3>1 DEF TellingOf
    <3>2. CASE whom[d] \notin Box
      <4>1. pending_count'[whom[d]] = pending_count[whom[d]]
        BY <1>1, <3>2 DEF Types
      <4> QED
        BY <2>1, <4>1 DEF TellingOf
    <3> QED
      BY <3>1, <3>2
  <2> QED
    BY <1>1, <2>1, <2>3 DEF TellingOf, Telling, InWait
<1>6. ASSUME NEW a \in Box PROVE OwedOf(a)'
  <2>1. OwedOf(a)
    BY DEF OwedInv
  <2>2. CASE a = b
    BY <1>1, <1>2, <1>3, <2>1, <2>2 DEF OwedOf
  <2>3. CASE a # b
    BY <1>1, <1>2, <1>3, <2>1, <2>3 DEF OwedOf
  <2> QED
    BY <2>2, <2>3
<1> QED
  BY <1>4, <1>5, <1>6 DEF RecordInv, OwedInv

\* Notifying a mailbox that is not locked: the three cases of its record.
LEMMA notify_fullRecord ==
    ASSUME Types, ControlInv, CallInv, LockInv, RecordInv, OwedInv,
           NEW c \in Ctx, NEW b \in Box, notify_full(c, b)
    PROVE  RecordInv' /\ OwedInv'
<1>0. /\ b \in Ctx /\ b # Idle /\ RecordOf(b) /\ OwedOf(b) /\ ControlOf(c) /\ ControlOf(b)
      /\ MaxOwed \in Nat
  BY Contexts DEF RecordInv, OwedInv, ControlInv
<1>1. /\ UNCHANGED <<call, pending_count, task_notified, m_pending>>
      /\ m_locked' = [m_locked EXCEPT ![b] = TRUE] /\ ~m_locked[b]
      /\ wait_task' = [wait_task EXCEPT ![b] = "NoTask"]
      /\ count' = [count EXCEPT ![b] = IF wait_task[b] = "NoTask" THEN @ + 1 ELSE @]
      /\ owed' = [owed EXCEPT ![b] = @ + 1]
      /\ pc[c] = "home"
  BY Contexts DEF notify_full, LockBox, Take, Sent, Free, Arrives, At, Irq
<1>2. /\ ~m_pending[b] /\ pending_count[b] = 0 /\ ~BeingTold(b)
      /\ \A d \in Ctx : whom[d] # b
  BY <1>1, Unlocked DEF LockInv
<1>3. whom[c] = Idle /\ ret[c] = "home"
  BY <1>0, <1>1 DEF ControlOf, SuspendedSteps, MailboxSuspended
<1>4. /\ wait_task'[b] = "NoTask" /\ owed'[b] = owed[b] + 1 /\ m_locked'[b]
      /\ count'[b] = IF wait_task[b] = "NoTask" THEN count[b] + 1 ELSE count[b]
      /\ count[b] \in Nat /\ owed[b] \in Nat
      /\ \A a \in Box : a # b => SameBox(a)
  BY <1>0, <1>1 DEF Types, SameBox
<1>5. RecordOf(b)' /\ (b # c => pc'[b] = pc[b] /\ whom'[b] = whom[b] /\ m_ret'[b] = m_ret[b])
      /\ (wait_task[b] = "WithTimeout" => b # c)
  <2>1. Others(c) /\ pc'[c] \in {"s_remove", "m_leave"}
    BY NotifyLocals DEF Became
  <2>2. b # c => pc'[b] = pc[b] /\ whom'[b] = whom[b] /\ m_ret'[b] = m_ret[b]
    BY <1>0, <2>1 DEF Others
  <2>3. pc'[b] \notin {"s_add", "s_insert"}
    <3>1. pc[b] \notin {"s_add", "s_insert"}
      <4>1. ASSUME pc[b] \in {"s_add", "s_insert"} PROVE whom[b] = b
        BY <4>1, Contexts DEF CallInv, CallOf, Waiting, ControlInv, ControlOf, SuspendedSteps
      <4> QED
        BY <1>0, <1>2, <4>1
    <3> QED
      BY <2>1, <2>2, <3>1
  <2>4. wait_task[b] = "WithTimeout" => b # c
    BY <1>0, <1>1, <1>3 DEF RecordOf, InWait
  <2> QED
    BY <1>1, <1>2, <1>4, <2>2, <2>3, <2>4 DEF RecordOf
<1>6. CASE wait_task[b] = "WithTimeout"
  <2>1. Became(c, "s_remove", b, "m_told", "home")
    BY <1>6, NotifyLocals
  <2>2. BoxStep(c, b)
    BY <1>1, <1>2, <1>3, <1>4, <2>1 DEF BoxStep, Became, Waiting
  <2>3. InWait(b) /\ InWait(b)' /\ call[b] = "timeout" /\ ~task_notified[b]
    BY <1>0, <1>5, <1>6 DEF RecordOf, InWait
  <2>4. TellingOf(c)'
    BY <1>1, <1>4, <2>1, <2>3 DEF TellingOf, Telling, Became
  <2>5. BeingTold(b)'
    BY <2>1 DEF BeingTold, Telling, Became
  <2>6. ~IsClaimed(b) /\ ~IsClaimed(b)'
    <3>1. pc[b] # "m_true" /\ ~(whom[b] = b)
      BY <1>0, <1>2, <2>3 DEF InWait
    <3> QED
      BY <1>1, <1>5, <1>6, <2>3, <3>1 DEF IsClaimed
  <2>7. OwedOf(b)'
    BY <1>0, <1>1, <1>2, <1>4, <1>6, <2>5, <2>6 DEF OwedOf
  <2> QED
    BY <1>5, <2>2, <2>4, <2>7, RecordFrame, OwedFrame
<1>7. CASE wait_task[b] # "WithTimeout"
  <2>1. Became(c, "m_leave", b, ret[c], "home")
    BY <1>7, NotifyLocals
  <2>2. BoxStep(c, b)
    BY <1>1, <1>2, <1>3, <1>4, <2>1 DEF BoxStep, Became, Waiting
  <2>3. TellingOf(c)'
    BY <1>3, <2>1 DEF TellingOf, Telling, Became
  <2>4. ~BeingTold(b)'
    BY <1>2, <1>3, <2>1 DEF BeingTold, Telling, Became, Others
  <2>5. CASE wait_task[b] = "WithoutTimeout"
    <3>1. InWait(b) /\ call[b] = "wait"
      BY <1>0, <2>5 DEF RecordOf
    <3>2. b # c /\ InWait(b)'
      BY <1>0, <1>1, <1>3, <1>5, <3>1 DEF InWait
    <3>3. ~IsClaimed(b)
      BY <1>0, <1>2, <2>5, <3>1 DEF IsClaimed, InWait
    <3>4. IsClaimed(b)'
      BY <1>1, <1>4, <3>1, <3>2 DEF IsClaimed
    <3>5. OwedOf(b)'
      BY <1>0, <1>1, <1>2, <1>4, <2>4, <2>5, <3>3, <3>4 DEF OwedOf
    <3> QED
      BY <1>5, <2>2, <2>3, <3>5, RecordFrame, OwedFrame
  <2>6. CASE wait_task[b] = "NoTask"
    <3>1. IsClaimed(b)' <=> IsClaimed(b)
      <4>1. CASE b # c
        BY <1>1, <1>4, <1>5, <2>6, <4>1 DEF IsClaimed, InWait
      <4>2. CASE b = c
        BY <1>0, <1>1, <1>3, <2>1, <4>2 DEF IsClaimed, InWait, Became
      <4> QED
        BY <4>1, <4>2
    <3>2. OwedOf(b)'
      BY <1>0, <1>1, <1>2, <1>4, <2>4, <2>6, <3>1 DEF OwedOf
    <3> QED
      BY <1>5, <2>2, <2>3, <3>2, RecordFrame, OwedFrame
  <2> QED
    BY <1>7, <2>5, <2>6 DEF Types, WaitTask
<1> QED
  BY <1>6, <1>7

\* Who is inside a mailbox, outside the sleep queue.
LEMMA Holder ==
    ASSUME Types, ControlInv, CallInv, LockInv, RecordInv, OwedInv,
           NEW c \in Ctx, pc[c] \in MailboxSuspended
    PROVE  /\ whom[c] \in Box /\ whom[c] # Idle /\ whom[c] \in Ctx /\ ret[c] = "home"
           /\ \A d \in Ctx : d # c => whom[d] # whom[c]
           /\ RecordOf(whom[c]) /\ OwedOf(whom[c]) /\ TellingOf(c) /\ m_locked[whom[c]]
           /\ c # whom[c] => m_ret[c] = "home"
           /\ m_ret[c] \in {"home", "m_true", "m_yield", "m_false"}
           /\ BeingTold(whom[c]) <=> pc[c] = "m_told"
<1>0. ControlOf(c)
  BY DEF ControlInv
<1>1. whom[c] \in Box /\ ret[c] = "home"
  BY <1>0 DEF ControlOf, MailboxSuspended, SuspendedSteps, TickSteps, Types
<1>2. whom[c] # Idle /\ whom[c] \in Ctx
  BY <1>1, Contexts
<1>3. \A d \in Ctx : d # c => whom[d] # whom[c]
  BY <1>2 DEF LockInv, BoxLock
<1>4. m_locked[whom[c]]
  BY <1>1 DEF LockInv, BoxLock
<1>5. /\ c # whom[c] => m_ret[c] = "home"
      /\ m_ret[c] \in {"home", "m_true", "m_yield", "m_false"}
  <2>1. CASE c \in Irq
    BY <1>0, <2>1 DEF ControlOf
  <2>2. CASE c \in Task
    BY <2>2 DEF CallInv, CallOf, Waiting, MailboxSuspended
  <2> QED
    BY <2>1, <2>2, Contexts
<1>6. BeingTold(whom[c]) <=> pc[c] = "m_told"
  BY <1>1, <1>3 DEF BeingTold, Telling
<1> QED
  BY <1>1, <1>2, <1>3, <1>4, <1>5, <1>6 DEF RecordInv, OwedInv

\* A task that is told of its notification did not know of it before.
LEMMA toldRecord ==
    ASSUME Types, ControlInv, CallInv, LockInv, RecordInv, OwedInv,
           NEW c \in Ctx, notify_told(c) \/ run_pended_notified(c)
    PROVE  RecordInv' /\ OwedInv' /\ count' \in [Box -> Nat]
<1>1. /\ pc[c] \in {"m_told", "m_notified"} /\ Moved(c, "m_leave")
      /\ UNCHANGED <<call, pending_count, wait_task, m_locked, m_pending, owed>>
      /\ task_notified' = [task_notified EXCEPT ![whom[c]] = TRUE]
      /\ count' = IF pc[c] = "m_told" THEN count ELSE [count EXCEPT ![whom[c]] = @ - 1]
  BY NotifyLocals DEF notify_told, run_pended_notified, At, mlock
<1>2. PICK b \in Box : b = whom[c]
  BY <1>1, Holder DEF MailboxSuspended
<1>3. /\ b \in Ctx /\ b # Idle /\ ret[c] = "home" /\ RecordOf(b) /\ OwedOf(b) /\ m_locked[b]
      /\ \A d \in Ctx : d # c => whom[d] # b
      /\ BeingTold(b) <=> pc[c] = "m_told"
  BY <1>1, <1>2, Holder DEF MailboxSuspended
<1>4. /\ wait_task[b] = "NoTask" /\ InWait(b) /\ call[b] = "timeout" /\ ~task_notified[b]
      /\ pc[c] = "m_notified" => count[b] > 0
  <2>1. TellingOf(c)
    BY DEF RecordInv
  <2> QED
    BY <1>1, <1>2, <2>1 DEF TellingOf, Telling
<1>5. /\ task_notified'[b] = TRUE /\ count'[b] = (IF pc[c] = "m_told" THEN count[b] ELSE count[b] - 1)
      /\ count[b] \in Nat /\ count'[b] \in Nat
      /\ \A a \in Box : a # b => SameBox(a)
  BY <1>1, <1>2, <1>4 DEF Types, SameBox
<1>6. BoxStep(c, b)
  BY <1>1, <1>2, <1>3, <1>5 DEF BoxStep, Moved, Became, Waiting
<1>7. InWait(b)' /\ (pc'[b] \in {"s_add", "s_insert", "m_true"} <=> pc[b] \in {"s_add", "s_insert", "m_true"})
  <2>1. CASE b = c
    BY <1>1, <1>4, <2>1 DEF InWait, Moved, Became
  <2>2. CASE b # c
    BY <1>1, <1>3, <1>4, <2>2 DEF InWait, Moved, Became, Others
  <2> QED
    BY <2>1, <2>2
<1>8. RecordOf(b)'
  <2>1. pending_count[b] > 0 => m_pending[b]
    BY <1>1, <1>2, <1>3 DEF RecordOf
  <2>2. pc'[b] \notin {"s_add", "s_insert"}
    <3>1. CASE b = c
      BY <1>1, <3>1 DEF Moved, Became
    <3>2. CASE b # c
      BY <1>1, <1>3, <1>4, <3>2 DEF Moved, Became, Others, RecordOf
    <3> QED
      BY <3>1, <3>2
  <2> QED
    BY <1>1, <1>3, <1>4, <2>1, <2>2 DEF RecordOf
<1>9. TellingOf(c)'
  BY <1>1, <1>3 DEF TellingOf, Telling, Moved, Became
<1>10. ~IsClaimed(b)
  <2>1. ControlOf(b)
    BY <1>3 DEF ControlInv
  <2> QED
    BY <1>3, <1>4, <2>1 DEF IsClaimed, InWait, ControlOf, SuspendedSteps, MailboxSuspended
<1>11. IsClaimed(b)'
  BY <1>1, <1>4, <1>5, <1>7 DEF IsClaimed
<1>12. ~BeingTold(b)'
  BY <1>1, <1>3 DEF BeingTold, Telling, Moved, Became, Others
<1>13. OwedOf(b)'
  <2>1. pending_count[b] \in Nat /\ owed'[b] = owed[b] /\ pending_count'[b] = pending_count[b]
    BY <1>1 DEF Types
  <2> QED
    BY <1>1, <1>3, <1>5, <1>10, <1>11, <1>12, <2>1 DEF OwedOf
<1>14. count' \in [Box -> Nat]
  BY <1>1, <1>2, <1>4 DEF Types
<1> QED
  BY <1>6, <1>8, <1>9, <1>13, <1>14, RecordFrame, OwedFrame

\* A holder leaves only when nothing is pended.
LEMMA m_leaveRecord ==
    ASSUME Types, ControlInv, CallInv, LockInv, RecordInv, OwedInv, NEW c \in Ctx, m_leave(c)
    PROVE  RecordInv' /\ OwedInv'
<1>1. /\ pc[c] = "m_leave"
      /\ UNCHANGED <<call, count, pending_count, wait_task, task_notified, owed>>
  BY DEF m_leave, At, inner
<1>2. PICK b \in Box : b = whom[c]
  BY <1>1, Holder DEF MailboxSuspended
<1>3. /\ b \in Ctx /\ b # Idle /\ ret[c] = "home" /\ RecordOf(b) /\ OwedOf(b) /\ m_locked[b]
      /\ \A d \in Ctx : d # c => whom[d] # b
      /\ ~BeingTold(b)
      /\ c # b => m_ret[c] = "home"
      /\ m_ret[c] \in {"home", "m_true", "m_yield", "m_false"}
  BY <1>1, <1>2, Holder DEF MailboxSuspended
<1>4. CASE m_pending[b]
  <2>1. Moved(c, "m_run") /\ m_pending' = [m_pending EXCEPT ![b] = FALSE] /\ m_locked' = m_locked
    BY <1>2, <1>4, NotifyLocals DEF m_leave
  <2>2. ~m_pending'[b] /\ \A a \in Box : a # b => SameBox(a)
    BY <1>1, <2>1 DEF Types, SameBox
  <2>3. BoxStep(c, b)
    BY <1>1, <1>2, <1>3, <2>1, <2>2 DEF BoxStep, Moved, Became, Waiting
  <2>4. /\ InWait(b)' <=> InWait(b)
        /\ pc'[b] \in {"s_add", "s_insert"} <=> pc[b] \in {"s_add", "s_insert"}
        /\ pc'[b] = "m_true" <=> pc[b] = "m_true"
        /\ m_ret'[b] = m_ret[b] /\ whom'[b] = whom[b]
    <3>1. CASE b = c
      BY <1>1, <2>1, <3>1 DEF InWait, Moved, Became
    <3>2. CASE b # c
      BY <1>3, <2>1, <3>2 DEF InWait, Moved, Became, Others
    <3> QED
      BY <3>1, <3>2
  <2>5. \E d \in Ctx : whom'[d] = b /\ pc'[d] = "m_run"
    BY <1>2, <2>1 DEF Moved, Became
  <2>6. RecordOf(b)'
    BY <1>1, <1>3, <2>1, <2>2, <2>4, <2>5 DEF RecordOf
  <2>7. TellingOf(c)'
    BY <1>1, <1>2, <1>3, <1>4, <2>1 DEF TellingOf, Telling, Moved, Became, RecordOf
  <2>8. IsClaimed(b)' <=> IsClaimed(b)
    BY <1>1, <2>4 DEF IsClaimed
  <2>9. ~BeingTold(b)'
    BY <1>3, <2>1 DEF BeingTold, Telling, Moved, Became, Others
  <2>10. OwedOf(b)'
    BY <1>1, <1>3, <2>8, <2>9 DEF OwedOf
  <2> QED
    BY <2>3, <2>6, <2>7, <2>10, RecordFrame, OwedFrame
<1>5. CASE ~m_pending[b]
  <2>1. /\ Became(c, m_ret[c], Idle, ret[c], "home") /\ m_pending' = m_pending
        /\ m_locked' = [m_locked EXCEPT ![b] = FALSE]
    BY <1>2, <1>5, NotifyLocals DEF m_leave
  <2>2. \A a \in Box : a # b => SameBox(a)
    BY <1>1, <2>1 DEF Types, SameBox
  <2>3. BoxStep(c, b)
    BY <1>1, <1>2, <1>3, <2>1, <2>2 DEF BoxStep, Became, Waiting
  <2>4. /\ InWait(b) => InWait(b)'
        /\ InWait(b)' => InWait(b)
        /\ pc'[b] \in {"s_add", "s_insert"} => pc[b] \in {"s_add", "s_insert"}
    <3>1. CASE b = c
      BY <1>1, <1>2, <1>3, <2>1, <3>1 DEF InWait, Became
    <3>2. CASE b # c
      BY <1>3, <2>1, <3>2 DEF InWait, Became, Others
    <3> QED
      BY <3>1, <3>2
  <2>5. ~(pending_count[b] > 0)
    BY <1>1, <1>3, <1>5 DEF RecordOf
  <2>6. RecordOf(b)'
    BY <1>1, <1>3, <1>5, <2>1, <2>4, <2>5 DEF RecordOf
  <2>7. TellingOf(c)'
    BY <1>3, <2>1 DEF TellingOf, Telling, Became
  <2>8. IsClaimed(b)' <=> IsClaimed(b)
    <3>1. CASE b = c
      <4>1. pc[b] # "m_true" /\ whom[b] = b /\ whom'[b] # b /\ pc'[b] = m_ret[b]
        BY <1>1, <1>2, <1>3, <2>1, <3>1 DEF Became
      <4> QED
        BY <1>1, <2>4, <4>1 DEF IsClaimed
    <3>2. CASE b # c
      BY <1>1, <1>3, <2>1, <2>4, <3>2 DEF IsClaimed, Became, Others
    <3> QED
      BY <3>1, <3>2
  <2>9. ~BeingTold(b)'
    BY <1>3, <2>1 DEF BeingTold, Telling, Became, Others
  <2>10. OwedOf(b)'
    BY <1>1, <1>3, <2>8, <2>9 DEF OwedOf
  <2> QED
    BY <2>3, <2>6, <2>7, <2>10, RecordFrame, OwedFrame
<1> QED
  BY <1>4, <1>5

\* run_pended_op: everything pended is counted, and the waiting task takes one.
LEMMA m_runRecord ==
    ASSUME Types, ControlInv, CallInv, LockInv, RecordInv, OwedInv,
           NEW c \in Ctx, m_run_pended_op(c)
    PROVE  RecordInv' /\ OwedInv' /\ count' \in [Box -> Nat]
<1>1. pc[c] = "m_run" /\ UNCHANGED <<call, task_notified, m_locked, m_pending, owed>>
  BY DEF m_run_pended_op, At, mlock
<1>2. PICK b \in Box : b = whom[c]
  BY <1>1, Holder DEF MailboxSuspended
<1>3. /\ b \in Ctx /\ b # Idle /\ ret[c] = "home" /\ RecordOf(b) /\ OwedOf(b) /\ m_locked[b]
      /\ \A d \in Ctx : d # c => whom[d] # b
      /\ ~BeingTold(b)
      /\ c # b => m_ret[c] = "home"
  BY <1>1, <1>2, Holder DEF MailboxSuspended
<1>4. /\ count' = [count EXCEPT ![b] = @ + pending_count[b]
                                         - (IF wait_task[b] = "WithoutTimeout" THEN 1 ELSE 0)]
      /\ pending_count' = [pending_count EXCEPT ![b] = 0]
      /\ wait_task' = [wait_task EXCEPT ![b] = "NoTask"]
  BY <1>2 DEF m_run_pended_op, Take
<1>5. wait_task[b] # "NoTask" => pending_count[b] > 0 /\ count[b] = 0 /\ InWait(b)
  <2>1. TellingOf(c)
    BY DEF RecordInv
  <2> QED
    BY <1>1, <1>2, <1>3, <2>1 DEF TellingOf, RecordOf
<1>6. /\ count[b] \in Nat /\ pending_count[b] \in Nat /\ count'[b] \in Nat
      /\ count'[b] = count[b] + pending_count[b] - (IF wait_task[b] = "WithoutTimeout" THEN 1 ELSE 0)
      /\ pending_count'[b] = 0 /\ wait_task'[b] = "NoTask"
      /\ \A a \in Box : a # b => SameBox(a)
  BY <1>1, <1>4, <1>5 DEF Types, SameBox
<1>7. /\ Others(c) /\ whom'[c] = b /\ m_ret'[c] = m_ret[c] /\ pc'[c] \in {"m_leave", "s_remove"}
      /\ IF wait_task[b] = "WithTimeout" THEN pc'[c] = "s_remove" /\ ret'[c] = "m_notified"
         ELSE pc'[c] = "m_leave" /\ ret'[c] = "home"
  BY <1>2, <1>3, NotifyLocals DEF Became, Moved
<1>8. BoxStep(c, b)
  BY <1>1, <1>2, <1>3, <1>6, <1>7 DEF BoxStep, Waiting
<1>9. /\ InWait(b)' <=> InWait(b)
      /\ pc'[b] \in {"s_add", "s_insert"} => pc[b] \in {"s_add", "s_insert"}
      /\ pc'[b] = "m_true" <=> pc[b] = "m_true"
      /\ m_ret'[b] = m_ret[b] /\ whom'[b] = whom[b]
  <2>1. CASE b = c
    BY <1>1, <1>2, <1>7, <2>1 DEF InWait
  <2>2. CASE b # c
    BY <1>3, <1>7, <2>2 DEF InWait, Others
  <2> QED
    BY <2>1, <2>2
<1>10. pc'[b] \notin {"s_add", "s_insert"}
  <2>1. CASE b = c
    BY <1>7, <2>1
  <2>2. CASE b # c
    <3>1. ASSUME pc[b] \in {"s_add", "s_insert"} PROVE whom[b] = b
      BY <3>1, Contexts DEF CallInv, CallOf, Waiting, ControlInv, ControlOf, SuspendedSteps
    <3> QED
      BY <1>3, <1>9, <2>2, <3>1
  <2> QED
    BY <2>1, <2>2
<1>11. RecordOf(b)'
  BY <1>1, <1>3, <1>6, <1>10 DEF RecordOf
<1>12. TellingOf(c)'
  <2>1. CASE wait_task[b] = "WithTimeout"
    <3>1. call[b] = "timeout" /\ ~task_notified[b] /\ InWait(b)' /\ count'[b] > 0
      BY <1>3, <1>5, <1>6, <1>9, <2>1 DEF RecordOf
    <3> QED
      BY <1>1, <1>6, <1>7, <2>1, <3>1 DEF TellingOf, Telling
  <2>2. CASE wait_task[b] # "WithTimeout"
    BY <1>7, <2>2 DEF TellingOf, Telling
  <2> QED
    BY <2>1, <2>2
<1>13. ~BeingTold(b)'
  BY <1>3, <1>7 DEF BeingTold, Telling, Others
<1>14. OwedOf(b)'
  <2>1. CASE wait_task[b] = "WithoutTimeout"
    <3>1. InWait(b) /\ call[b] = "wait"
      BY <1>3, <2>1 DEF RecordOf
    <3>2. ~IsClaimed(b)
      <4>1. ControlOf(b)
        BY <1>3 DEF ControlInv
      <4> QED
        BY <1>3, <2>1, <3>1, <4>1 DEF IsClaimed, InWait, ControlOf, SuspendedSteps, MailboxSuspended
    <3>3. IsClaimed(b)'
      BY <1>1, <1>6, <1>9, <3>1 DEF IsClaimed
    <3> QED
      BY <1>1, <1>3, <1>6, <1>13, <2>1, <3>2, <3>3 DEF OwedOf
  <2>2. CASE wait_task[b] = "WithTimeout"
    <3>1. InWait(b) /\ call[b] = "timeout" /\ ~task_notified[b]
      BY <1>3, <2>2 DEF RecordOf
    <3>2. IsClaimed(b)' <=> IsClaimed(b)
      BY <1>1, <1>9, <3>1 DEF IsClaimed
    <3> QED
      BY <1>1, <1>3, <1>6, <1>13, <2>2, <3>2 DEF OwedOf
  <2>3. CASE wait_task[b] = "NoTask"
    <3>1. IsClaimed(b)' <=> IsClaimed(b)
      BY <1>1, <1>6, <1>9, <2>3 DEF IsClaimed
    <3> QED
      BY <1>1, <1>3, <1>6, <1>13, <2>3, <3>1 DEF OwedOf
  <2> QED
    BY <2>1, <2>2, <2>3 DEF Types, WaitTask
<1>15. count' \in [Box -> Nat]
  BY <1>4, <1>6 DEF Types
<1> QED
  BY <1>8, <1>11, <1>12, <1>14, <1>15, RecordFrame, OwedFrame

\* A switch concerns no mailbox.
LEMMA SwitchRecord ==
    ASSUME Types, ControlInv, RecordInv, OwedInv, Switch
    PROVE  RecordInv' /\ OwedInv'
<1>1. UNCHANGED <<call, whom, ret, m_ret, count, pending_count, wait_task, task_notified,
                  m_locked, m_pending, owed>>
  BY DEF Switch, mbvars, inner, mlock
<1>2. ASSUME NEW c \in Ctx
      PROVE  pc'[c] = pc[c] \/ (pc[c] = "m_yield" /\ pc'[c] = "m_awake")
  <2>1. pc[c] # "yield"
    BY DEF ControlInv, ControlOf, Waiting, SuspendedSteps, MailboxSuspended
  <2> QED
    BY <2>1, SwitchLocals DEF Types
<1>3. \A b \in Box : b \in Ctx
  BY Contexts
<1>4. ASSUME NEW b \in Box
      PROVE  /\ InWait(b)' <=> InWait(b)
             /\ IsClaimed(b)' <=> IsClaimed(b)
             /\ BeingTold(b)' <=> BeingTold(b)
  <2>1. InWait(b)' <=> InWait(b)
    BY <1>1, <1>2, <1>3 DEF InWait
  <2>2. pc'[b] = "m_true" <=> pc[b] = "m_true"
    BY <1>2, <1>3
  <2>3. IsClaimed(b)' <=> IsClaimed(b)
    BY <1>1, <2>1, <2>2 DEF IsClaimed
  <2>4. BeingTold(b)' <=> BeingTold(b)
    BY <1>1, <1>2 DEF BeingTold, Telling
  <2> QED
    BY <2>1, <2>3, <2>4
<1>5. ASSUME NEW b \in Box PROVE RecordOf(b)'
  <2>1. RecordOf(b)
    BY DEF RecordInv
  <2>2. pc'[b] \in {"s_add", "s_insert"} => pc[b] \in {"s_add", "s_insert"}
    BY <1>2, <1>3
  <2>3. (\E d \in Ctx : whom[d] = b /\ pc[d] = "m_run") => (\E d \in Ctx : whom'[d] = b /\ pc'[d] = "m_run")
    BY <1>1, <1>2
  <2> QED
    BY <1>1, <1>4, <2>1, <2>2, <2>3 DEF RecordOf
<1>6. ASSUME NEW d \in Ctx PROVE TellingOf(d)'
  <2>1. TellingOf(d)
    BY DEF RecordInv
  <2>2. /\ Telling(d, "m_told")' <=> Telling(d, "m_told")
        /\ Telling(d, "m_notified")' <=> Telling(d, "m_notified")
        /\ pc'[d] = "m_run" <=> pc[d] = "m_run"
    BY <1>1, <1>2 DEF Telling
  <2>3. ASSUME Telling(d, "m_told") \/ Telling(d, "m_notified") PROVE InWait(whom[d])'
    <3>1. PICK a \in Box : a = whom[d]
      BY <2>3, TellerHolds
    <3>2. InWait(a)
      BY <2>1, <2>3, <3>1 DEF TellingOf
    <3>3. InWait(a)'
      BY <1>4, <3>2
    <3>4. whom'[d] = a
      BY <1>1, <3>1
    <3> QED
      BY <3>3, <3>4 DEF InWait
  <2> QED
    BY <1>1, <2>1, <2>2, <2>3 DEF TellingOf
<1>7. ASSUME NEW b \in Box PROVE OwedOf(b)'
  <2>1. OwedOf(b)
    BY DEF OwedInv
  <2> QED
    BY <1>1, <1>4, <2>1 DEF OwedOf
<1> QED
  BY <1>5, <1>6, <1>7 DEF RecordInv, OwedInv

-----------------------------------------------------------------------------
(***************************************************************************)
(* The owners of blocked tasks.                                            *)
(***************************************************************************)
Recorded(t) == t \in Box /\ wait_task[t] = "WithoutTimeout"

\* Steps that leave the sleep queue alone and wake the tasks of R, if any, that
\* were recorded in a mailbox.
LEMMA BlockedFrame ==
    ASSUME Types, RecordInv, BlockedInv, NEW c \in Ctx, NEW R,
           Others(c), cur' = cur, time_sorted_queue' = time_sorted_queue,
           \A t \in Task : t # c => call'[t] = call[t],
           \A t \in R : Recorded(t),
           \A t \in Task : state'[t] = "Blocked" <=> state[t] = "Blocked" /\ t \notin R,
           \A t \in Task : Recorded(t)' <=> Recorded(t) /\ t \notin R,
           c \in Task => /\ Has(time_sorted_queue, c) => InWait(c)' /\ call'[c] = "timeout"
                         /\ Adding(c)' <=> Adding(c)
                         /\ pc'[c] = "m_awake" => pc[c] = "m_awake"
    PROVE  BlockedInv'
<1>0. \A t \in Task : t \in Ctx
  BY Contexts
<1>1. ASSUME NEW t \in Task
      PROVE  /\ Has(time_sorted_queue, t) => t \in Box /\ call'[t] = "timeout" /\ InWait(t)' /\ ~Adding(t)'
             /\ Adding(t)' <=> Adding(t)
             /\ pc'[t] = "m_awake" => pc[t] = "m_awake"
  <2>1. CASE t = c
    BY <2>1 DEF BlockedInv
  <2>2. CASE t # c
    BY <1>0, <2>2 DEF BlockedInv, Others, InWait, Adding
  <2> QED
    BY <2>1, <2>2
<1>2. ASSUME NEW t \in Task, t \in R PROVE ~Has(time_sorted_queue, t) /\ ~Adding(t)
  <2>1. t \in Box /\ wait_task[t] = "WithoutTimeout"
    BY <1>2 DEF Recorded
  <2> QED
    BY <2>1 DEF RecordInv, RecordOf, BlockedInv, Adding
<1>3. ASSUME NEW t \in Task
      PROVE  (state'[t] = "Blocked") <=>
                 \/ Has(time_sorted_queue, t) \/ Adding(t)' \/ Recorded(t)'
  <2>1. state[t] = "Blocked" <=> Has(time_sorted_queue, t) \/ Adding(t) \/ Recorded(t)
    BY DEF BlockedInv, Recorded
  <2> QED
    BY <1>1, <1>2, <2>1
<1>4. \A t \in Task : t = cur' /\ pc'[t] = "m_awake" => state'[t] # "Blocked"
  BY <1>1 DEF BlockedInv
<1>5. Distinct(time_sorted_queue)
  BY DEF BlockedInv
<1> QED
  BY <1>1, <1>3, <1>4, <1>5 DEF BlockedInv, Recorded

\* Steps that wake nobody.
LEMMA BlockedKeep ==
    ASSUME Types, RecordInv, BlockedInv, NEW c \in Ctx,
           Others(c), cur' = cur, time_sorted_queue' = time_sorted_queue, state' = state,
           \A t \in Task : t # c => call'[t] = call[t],
           \A t \in Task : Recorded(t)' <=> Recorded(t),
           c \in Task => /\ Has(time_sorted_queue, c) => InWait(c)' /\ call'[c] = "timeout"
                         /\ Adding(c)' <=> Adding(c)
                         /\ pc'[c] = "m_awake" => pc[c] = "m_awake"
    PROVE  BlockedInv'
<1> DEFINE R == {}
<1>1. /\ \A t \in R : Recorded(t)
      /\ \A t \in Task : state'[t] = "Blocked" <=> state[t] = "Blocked" /\ t \notin R
      /\ \A t \in Task : Recorded(t)' <=> Recorded(t) /\ t \notin R
  OBVIOUS
<1> HIDE DEF R
<1> QED
  BY <1>1, BlockedFrame

\* Tasks that are taken out of the sleep queue are handed to the scheduler.
LEMMA BlockedRemoval ==
    ASSUME Types, RecordInv, BlockedInv, NEW c \in Ctx, Quiet(c), NEW R, cur' = cur,
           pc[c] \notin {"s_add", "s_insert"},
           R \subseteq {t \in Task : Has(time_sorted_queue, t)},
           time_sorted_queue' = Without(time_sorted_queue, R), accept_task(R)
    PROVE  BlockedInv' /\ time_sorted_queue' \in Seq(Task)
                       /\ state' \in [Task -> {"Ready", "Running", "Blocked"}]
<1>0. \A t \in Task : t \in Ctx
  BY Contexts
<1>1. /\ time_sorted_queue' \in Seq(Task)
      /\ \A t : Has(time_sorted_queue', t) <=> Has(time_sorted_queue, t) /\ t \notin R
      /\ Distinct(time_sorted_queue) => Distinct(time_sorted_queue')
  BY WithoutTasks DEF Types
<1>2. /\ state' \in [Task -> {"Ready", "Running", "Blocked"}]
      /\ \A t \in Task : state'[t] = IF t \in R THEN "Ready" ELSE state[t]
  BY DEF accept_task, Types
<1>3. UNCHANGED <<call, whom, m_ret, wait_task>>
  BY DEF Quiet
<1>4. ASSUME NEW t \in Task
      PROVE  (Adding(t)' <=> Adding(t)) /\ (InWait(t)' <=> InWait(t))
             /\ (pc'[t] = "m_awake" <=> pc[t] = "m_awake")
  <2>1. CASE t = c
    BY <1>3, <2>1 DEF Quiet, Adding, InWait, Waiting
  <2>2. CASE t # c
    BY <1>0, <1>3, <2>2 DEF Quiet, Others, Adding, InWait
  <2> QED
    BY <2>1, <2>2
<1>5. ASSUME NEW t \in R PROVE t \in Task /\ ~Adding(t) /\ ~Recorded(t)
  <2>1. t \in Task /\ Has(time_sorted_queue, t)
    OBVIOUS
  <2>2. t \in Box /\ call[t] = "timeout" /\ ~Adding(t)
    BY <2>1 DEF BlockedInv
  <2>3. wait_task[t] # "WithoutTimeout"
    BY <2>2 DEF RecordInv, RecordOf
  <2> QED
    BY <2>1, <2>2, <2>3 DEF Recorded
<1>6. ASSUME NEW t \in Task
      PROVE  (state'[t] = "Blocked") <=>
                 \/ Has(time_sorted_queue', t) \/ Adding(t)' \/ Recorded(t)'
  <2>1. state[t] = "Blocked" <=> Has(time_sorted_queue, t) \/ Adding(t) \/ Recorded(t)
    BY DEF BlockedInv, Recorded
  <2>2. Recorded(t)' <=> Recorded(t)
    BY <1>3 DEF Recorded
  <2> QED
    BY <1>1, <1>2, <1>4, <1>5, <2>1, <2>2
<1>7. ASSUME NEW t \in Task, Has(time_sorted_queue', t)
      PROVE  t \in Box /\ call'[t] = "timeout" /\ InWait(t)' /\ ~Adding(t)'
  BY <1>1, <1>3, <1>4, <1>7 DEF BlockedInv
<1>8. \A t \in Task : t = cur' /\ pc'[t] = "m_awake" => state'[t] # "Blocked"
  BY <1>2, <1>4 DEF BlockedInv
<1>9. Distinct(time_sorted_queue')
  BY <1>1 DEF BlockedInv
<1> QED
  BY <1>1, <1>2, <1>6, <1>7, <1>8, <1>9 DEF BlockedInv, Recorded

\* The tasks that are woken by the clock are in the queue, and so are those that
\* are taken out.
LEMMA QueuedTasks ==
    ASSUME time_sorted_queue \in Seq(Task)
    PROVE  /\ Expired(time_sorted_queue) \subseteq {t \in Task : Has(time_sorted_queue, t)}
           /\ \A S : S \intersect ToSet(time_sorted_queue) \subseteq {t \in Task : Has(time_sorted_queue, t)}
<1>1. \A i \in DOMAIN time_sorted_queue : time_sorted_queue[i] \in Task
  BY Positions
<1> QED
  BY <1>1 DEF Expired, ToSet, Has

\* A task is put in before the first task with a greater tick, or at the end.
LEMMA PushSorted ==
    ASSUME time_sorted_queue \in Seq(Task), NEW t \in Task
    PROVE  \E at \in 1 .. Len(time_sorted_queue) + 1 :
              /\ push_back_tick_sorted(time_sorted_queue, t, wake_tick[t]) = InsertAt(time_sorted_queue, at, t)
              /\ \A i \in 1 .. Len(time_sorted_queue) :
                    /\ i < at => tick_cmp(wake_tick[t], wake_tick[time_sorted_queue[i]]) # -1
                    /\ i = at => tick_cmp(wake_tick[t], wake_tick[time_sorted_queue[i]]) = -1
<1>0. Len(time_sorted_queue) \in Nat /\ DOMAIN time_sorted_queue = 1 .. Len(time_sorted_queue)
  BY Positions
<1> DEFINE later == {i \in DOMAIN time_sorted_queue :
                        tick_cmp(wake_tick[t], wake_tick[time_sorted_queue[i]]) = -1}
           at == IF later = {} THEN Len(time_sorted_queue) + 1 ELSE Min(later)
<1>1. later \in SUBSET (1 .. Len(time_sorted_queue))
  BY <1>0
<1>2. push_back_tick_sorted(time_sorted_queue, t, wake_tick[t]) = InsertAt(time_sorted_queue, at, t)
  BY DEF push_back_tick_sorted
<1>3. \A i \in 1 .. Len(time_sorted_queue) :
         i \in later <=> tick_cmp(wake_tick[t], wake_tick[time_sorted_queue[i]]) = -1
  BY <1>0
<1> HIDE DEF later
<1>4. later # {} => Min(later) \in later /\ \A i \in later : Min(later) <= i
  BY <1>0, <1>1, FirstPosition
<1>5. /\ at \in 1 .. Len(time_sorted_queue) + 1
      /\ \A i \in 1 .. Len(time_sorted_queue) : (i < at => i \notin later) /\ (i = at => i \in later)
  <2>1. CASE later = {}
    BY <1>0, <2>1
  <2>2. CASE later # {}
    <3>1. at = Min(later)
      BY <2>2
    <3>2. at \in 1 .. Len(time_sorted_queue) /\ at \in later /\ \A i \in later : at <= i
      BY <1>1, <1>4, <2>2, <3>1
    <3> HIDE DEF at
    <3> QED
      BY <1>0, <1>1, <3>2
  <2> QED
    BY <2>1, <2>2
<1> HIDE DEF at
<1> QED
  BY <1>2, <1>3, <1>5

\* The same for Mailbox.
LEMMA InQueue ==
    ASSUME Types
    PROVE  /\ Expired(time_sorted_queue) \subseteq {t \in Task : Has(time_sorted_queue, t)}
           /\ \A S : S \intersect ToSet(time_sorted_queue) \subseteq {t \in Task : Has(time_sorted_queue, t)}
  BY QueuedTasks DEF Types

\* A task is put in at a position of the queue or at its end.
LEMMA PushBack ==
    ASSUME Types, NEW t \in Task
    PROVE  \E at \in 1 .. Len(time_sorted_queue) + 1 :
              push_back_tick_sorted(time_sorted_queue, t, wake_tick[t]) = InsertAt(time_sorted_queue, at, t)
  BY PushSorted DEF Types

\* Steps in the sleep queue.
LEMMA SleepBlocked ==
    ASSUME Types, ControlInv, CallInv, LockInv, RecordInv, BlockedInv, NEW c \in Ctx, InSleep(c)
    PROVE  BlockedInv' /\ Types'
<1>0. ControlOf(c) /\ Quiet(c)
  BY QuietSteps DEF ControlInv
<1>1. /\ cur' = cur /\ UNCHANGED <<call, whom, m_ret, count, pending_count, wait_task, task_notified,
                                   m_locked, m_pending, owed, stale>>
  <2>1. UNCHANGED mbvars
    BY DEF InSleep
  <2>2. UNCHANGED <<cur, call, whom>>
    BY DEF InSleep, SleepStep, s_leave, run_pended_op, wake_expired_tasks,
       drain_delete_buffer, clear_time_to_wakeup, wake_sleeping_tasks, add_guard, add_insert,
       remove_guard, remove_full
  <2> QED
    BY <2>1, <2>2 DEF mbvars, inner, mlock
<1>2. pc' \in [Ctx -> MailboxSteps] /\ ret' \in [Ctx -> MailboxSteps]
  <2>1. CASE s_leave(c)
    <3>1. /\ ret' = ret \/ ret' = [ret EXCEPT ![c] = "home"]
          /\ pc' = [pc EXCEPT ![c] = ret[c]] \/ pc' = [pc EXCEPT ![c] = "s_run"]
      BY <2>1 DEF s_leave, Goto
    <3>2. "home" \in MailboxSteps /\ "s_run" \in MailboxSteps
      BY StepNames
    <3>3. pc \in [Ctx -> MailboxSteps] /\ ret \in [Ctx -> MailboxSteps] /\ ret[c] \in MailboxSteps
      BY DEF Types
    <3>4. ret' \in [Ctx -> MailboxSteps]
      BY <3>1, <3>2, <3>3
    <3>5. pc' \in [Ctx -> MailboxSteps]
      BY <3>1, <3>2, <3>3
    <3> QED
      BY <3>4, <3>5
  <2>2. CASE \/ run_pended_op(c) \/ wake_expired_tasks(c) \/ drain_delete_buffer(c)
             \/ clear_time_to_wakeup(c)
    <3>1. ret' = ret /\ \E n \in {"expire_pended", "s_leave", "drain", "drain_pended", "clear"} :
                            pc' = [pc EXCEPT ![c] = n]
      BY <2>2 DEF run_pended_op, wake_expired_tasks, drain_delete_buffer, clear_time_to_wakeup, Goto
    <3>2. {"expire_pended", "s_leave", "drain", "drain_pended", "clear"} \subseteq MailboxSteps
      BY StepNames
    <3>3. pc \in [Ctx -> MailboxSteps] /\ ret \in [Ctx -> MailboxSteps]
      BY DEF Types
    <3> QED
      BY <3>1, <3>2, <3>3
  <2>3. CASE c = SysTick /\ wake_sleeping_tasks
    BY <2>3, StepNames DEF wake_sleeping_tasks, Goto, Types
  <2>4. CASE c \in Task /\ (add_guard(c) \/ add_insert(c))
    <3>1. ret' = ret /\ \E n \in {"hang", "s_insert", "s_leave"} : pc' = [pc EXCEPT ![c] = n]
      BY <2>4 DEF add_guard, add_insert, Goto
    <3>2. {"hang", "s_insert", "s_leave"} \subseteq MailboxSteps
      BY StepNames
    <3>3. pc \in [Ctx -> MailboxSteps] /\ ret \in [Ctx -> MailboxSteps]
      BY DEF Types
    <3> QED
      BY <3>1, <3>2, <3>3
  <2>5. CASE remove_guard(c)
    <3>1. /\ ret' = ret \/ ret' = [ret EXCEPT ![c] = "home"]
          /\ \/ pc' = [pc EXCEPT ![c] = ret[c]] \/ pc' = [pc EXCEPT ![c] = "s_take"]
             \/ pc' = [pc EXCEPT ![c] = "die"]
      BY <2>5 DEF remove_guard, Goto
    <3>2. {"home", "s_take", "die"} \subseteq MailboxSteps
      BY StepNames
    <3>3. pc \in [Ctx -> MailboxSteps] /\ ret \in [Ctx -> MailboxSteps] /\ ret[c] \in MailboxSteps
      BY DEF Types
    <3>4. ret' \in [Ctx -> MailboxSteps]
      BY <3>1, <3>2, <3>3
    <3>5. pc' \in [Ctx -> MailboxSteps]
      BY <3>1, <3>2, <3>3
    <3> QED
      BY <3>4, <3>5
  <2>6. CASE remove_full(c)
    BY <2>6, StepNames DEF remove_full, Goto, Types
  <2> QED
    BY <2>1, <2>2, <2>3, <2>4, <2>5, <2>6 DEF InSleep, SleepStep
<1>3. time_to_wakeup' \in BOOLEAN /\ s_locked' \in BOOLEAN /\ s_pending' \in BOOLEAN
  BY DEF InSleep, SleepStep, s_leave, run_pended_op, wake_expired_tasks,
     drain_delete_buffer, clear_time_to_wakeup, wake_sleeping_tasks, add_guard, add_insert,
     remove_guard, remove_full, squeue, Lock, Types
<1>4. delete_buffer' \in Seq(Task)
  <2>1. CASE remove_guard(c)
    <3>1. whom[c] \in Task
      <4>1. pc[c] = "s_remove"
        BY <2>1 DEF remove_guard, At
      <4>2. c # SysTick
        BY <1>0, <4>1 DEF ControlOf, TickSteps
      <4>3. whom[c] \in Box
        BY <1>0, <4>1, <4>2 DEF ControlOf, SuspendedSteps, Types
      <4> QED
        BY <4>3, Contexts
    <3>2. Append(delete_buffer, whom[c]) \in Seq(Task)
      BY <3>1 DEF Types
    <3> QED
      BY <2>1, <3>2 DEF remove_guard, Types
  <2>2. CASE drain_delete_buffer(c)
    BY <2>2 DEF drain_delete_buffer
  <2>3. CASE ~remove_guard(c) /\ ~drain_delete_buffer(c)
    <3>1. delete_buffer' = delete_buffer
      BY <2>3 DEF InSleep, SleepStep, s_leave, run_pended_op, wake_expired_tasks,
         clear_time_to_wakeup, wake_sleeping_tasks, add_guard, add_insert, remove_full, squeue
    <3> QED
      BY <3>1 DEF Types
  <2> QED
    BY <2>1, <2>2, <2>3
<1>5. /\ BlockedInv' /\ time_sorted_queue' \in Seq(Task)
      /\ state' \in [Task -> {"Ready", "Running", "Blocked"}]
  <2>1. CASE \/ s_leave(c) \/ run_pended_op(c) \/ clear_time_to_wakeup(c)
             \/ (c = SysTick /\ wake_sleeping_tasks) \/ (c \in Task /\ add_guard(c)) \/ remove_guard(c)
    <3>1. UNCHANGED <<time_sorted_queue, state>>
      BY <2>1 DEF s_leave, run_pended_op, clear_time_to_wakeup, wake_sleeping_tasks, add_guard,
         remove_guard, squeue
    <3>2. c \in Task => (Adding(c)' <=> Adding(c))
      <4>1. CASE c \in Task /\ add_guard(c)
        <5>1. pc[c] = "s_add" /\ Running(c)
          BY <4>1 DEF add_guard, At
        <5>2. ~s_locked
          BY <4>1, <5>1, Alone DEF InQueueLock
        <5>3. Moved(c, "s_insert")
          BY <4>1, <5>2, SleepLocals
        <5> QED
          BY <5>1, <5>3 DEF Adding, Moved, Became
      <4>2. CASE ~(c \in Task /\ add_guard(c))
        <5>1. ~Adding(c)
          BY <2>1, <4>2 DEF s_leave, run_pended_op, clear_time_to_wakeup, wake_sleeping_tasks,
             remove_guard, At, Adding
        <5> QED
          BY <1>0, <5>1 DEF Quiet, Adding
      <4> QED
        BY <4>1, <4>2
    <3>3. c \in Task => (Has(time_sorted_queue, c) => InWait(c)' /\ call'[c] = "timeout")
      BY <1>0, <1>1 DEF BlockedInv, Quiet, InWait, Waiting
    <3>4. pc'[c] # "m_awake"
      BY <1>0 DEF Quiet, Waiting
    <3>5. BlockedInv'
      BY <1>0, <1>1, <3>1, <3>2, <3>3, <3>4, BlockedKeep DEF Quiet, Recorded
    <3> QED
      BY <3>1, <3>5 DEF Types
  <2>2. CASE wake_expired_tasks(c)
    <3>1. /\ time_sorted_queue' = Without(time_sorted_queue, Expired(time_sorted_queue))
          /\ accept_task(Expired(time_sorted_queue)) /\ pc[c] \notin {"s_add", "s_insert"}
      BY <2>2 DEF wake_expired_tasks, remove_tasks, At
    <3> QED
      BY <1>0, <1>1, <3>1, InQueue, BlockedRemoval
  <2>3. CASE drain_delete_buffer(c)
    <3> DEFINE R == ToSet(delete_buffer) \intersect ToSet(time_sorted_queue)
    <3>1. /\ time_sorted_queue' = Without(time_sorted_queue, R)
          /\ accept_task(R) /\ pc[c] \notin {"s_add", "s_insert"}
      BY <2>3 DEF drain_delete_buffer, remove_tasks, At
    <3>2. R \subseteq {t \in Task : Has(time_sorted_queue, t)}
      BY InQueue
    <3> HIDE DEF R
    <3> QED
      BY <1>0, <1>1, <3>1, <3>2, BlockedRemoval
  <2>4. CASE remove_full(c)
    <3> DEFINE R == {whom[c]} \intersect ToSet(time_sorted_queue)
    <3>1. /\ time_sorted_queue' = Without(time_sorted_queue, R)
          /\ accept_task(R) /\ pc[c] \notin {"s_add", "s_insert"}
      BY <2>4 DEF remove_full, remove_tasks, At
    <3>2. R \subseteq {t \in Task : Has(time_sorted_queue, t)}
      BY InQueue
    <3> HIDE DEF R
    <3> QED
      BY <1>0, <1>1, <3>1, <3>2, BlockedRemoval
  <2>5. CASE c \in Task /\ add_insert(c)
    <3>1. /\ pc[c] = "s_insert" /\ Moved(c, "s_leave") /\ state' = state
          /\ time_sorted_queue' = push_back_tick_sorted(time_sorted_queue, c, wake_tick[c])
      BY <2>5, SleepLocals DEF add_insert, At
    <3>2. PICK at \in 1 .. Len(time_sorted_queue) + 1 :
             time_sorted_queue' = InsertAt(time_sorted_queue, at, c)
      BY <2>5, <3>1, PushBack
    <3>3. /\ time_sorted_queue' \in Seq(Task)
          /\ \A u : Has(time_sorted_queue', u) <=> Has(time_sorted_queue, u) \/ u = c
          /\ Distinct(time_sorted_queue) /\ ~Has(time_sorted_queue, c) => Distinct(time_sorted_queue')
      BY <2>5, <3>2, InsertTask DEF Types
    <3>4. Adding(c) /\ ~Adding(c)'
      BY <3>1 DEF Adding, Moved, Became
    <3>5. ~Has(time_sorted_queue, c) /\ state[c] = "Blocked"
      BY <2>5, <3>4 DEF BlockedInv
    <3>6. c \in Box /\ call[c] = "timeout" /\ InWait(c)'
      <4>1. call[c] = "timeout" /\ m_ret[c] = "m_yield"
        BY <2>5, <3>1 DEF CallInv, CallOf
      <4>2. c \in Box /\ whom[c] = c
        BY <2>5, <3>1, <4>1 DEF CallInv, CallOf, Waiting
      <4> QED
        BY <3>1, <4>1, <4>2 DEF InWait, Moved, Became
    <3>7. ASSUME NEW t \in Task, t # c
          PROVE  /\ InWait(t)' <=> InWait(t)
                 /\ Adding(t)' <=> Adding(t)
                 /\ pc'[t] = pc[t]
      BY <1>1, <3>1, <3>7, Contexts DEF InWait, Adding, Moved, Became, Others
    <3>8. ASSUME NEW t \in Task, Has(time_sorted_queue', t)
          PROVE  t \in Box /\ call'[t] = "timeout" /\ InWait(t)' /\ ~Adding(t)'
      BY <1>1, <3>3, <3>4, <3>6, <3>7, <3>8 DEF BlockedInv
    <3>9. ASSUME NEW t \in Task
          PROVE  (state'[t] = "Blocked") <=>
                     \/ Has(time_sorted_queue', t) \/ Adding(t)' \/ Recorded(t)'
      <4>1. state[t] = "Blocked" <=> Has(time_sorted_queue, t) \/ Adding(t) \/ Recorded(t)
        BY DEF BlockedInv, Recorded
      <4>2. Recorded(t)' <=> Recorded(t)
        BY <1>1 DEF Recorded
      <4> QED
        BY <3>1, <3>3, <3>5, <3>7, <4>1, <4>2
    <3>10. \A t \in Task : t = cur' /\ pc'[t] = "m_awake" => state'[t] # "Blocked"
      BY <1>1, <3>1, <3>7 DEF BlockedInv, Moved, Became
    <3>11. Distinct(time_sorted_queue')
      BY <3>3, <3>5 DEF BlockedInv
    <3>12. BlockedInv'
      BY <3>8, <3>9, <3>10, <3>11 DEF BlockedInv, Recorded
    <3> QED
      BY <3>1, <3>3, <3>12 DEF Types
  <2> QED
    BY <2>1, <2>2, <2>3, <2>4, <2>5 DEF InSleep, SleepStep
<1> QED
  BY <1>1, <1>2, <1>3, <1>4, <1>5 DEF Types

\* A tick.
LEMMA TickBlocked ==
    ASSUME Types, ControlInv, CallInv, LockInv, RecordInv, BlockedInv, Tick
    PROVE  BlockedInv' /\ Types'
<1>0. Quiet(SysTick) /\ SysTick \in Ctx /\ SysTick \notin Task
  BY QuietSteps, Contexts
<1>1. UNCHANGED <<cur, state, time_sorted_queue, delete_buffer, time_to_wakeup, s_locked, s_pending,
                  call, whom, ret, count, pending_count, wait_task, task_notified, m_locked,
                  m_pending, m_ret, owed, stale>>
  BY DEF Tick, advance_tick, squeue, mbvars, inner, mlock
<1>2. pc' \in [Ctx -> MailboxSteps]
  BY <1>0, StepNames DEF Tick, advance_tick, Goto, Types
<1>3. BlockedInv'
  BY <1>0, <1>1, BlockedKeep DEF Quiet, Recorded
<1> QED
  BY <1>1, <1>2, <1>3 DEF Types

\* A task that blocks was not blocked, and is recorded or on its way into the queue.
LEMMA BlockedBlocks ==
    ASSUME Types, BlockedInv, NEW t \in Task, t \in Box, Others(t), cur' = cur,
           time_sorted_queue' = time_sorted_queue, call' = call,
           ~InWait(t), ~Adding(t), pc'[t] # "m_awake",
           state' = [state EXCEPT ![t] = "Blocked"],
           \A u \in Task : u # t => (Recorded(u)' <=> Recorded(u)),
           Recorded(t)' \/ Adding(t)'
    PROVE  BlockedInv'
<1>1. ~Has(time_sorted_queue, t)
  BY DEF BlockedInv
<1>2. ASSUME NEW u \in Task, u # t
      PROVE  /\ pc'[u] = pc[u] /\ state'[u] = state[u]
             /\ InWait(u)' <=> InWait(u)
             /\ Adding(u)' <=> Adding(u)
  BY <1>2, Contexts DEF Others, InWait, Adding, Types
<1>3. state'[t] = "Blocked"
  BY DEF Types
<1>4. \A u \in Task : Has(time_sorted_queue', u) =>
         u \in Box /\ call'[u] = "timeout" /\ InWait(u)' /\ ~Adding(u)'
  BY <1>1, <1>2 DEF BlockedInv
<1>5. ASSUME NEW u \in Task
      PROVE  (state'[u] = "Blocked") <=> \/ Has(time_sorted_queue', u) \/ Adding(u)' \/ Recorded(u)'
  <2>1. state[u] = "Blocked" <=> Has(time_sorted_queue, u) \/ Adding(u) \/ Recorded(u)
    BY DEF BlockedInv, Recorded
  <2> QED
    BY <1>2, <1>3, <2>1
<1>6. \A u \in Task : u = cur' /\ pc'[u] = "m_awake" => state'[u] # "Blocked"
  BY <1>2 DEF BlockedInv
<1>7. Distinct(time_sorted_queue')
  BY DEF BlockedInv
<1> QED
  BY <1>4, <1>5, <1>6, <1>7 DEF BlockedInv, Recorded

\* A task blocks itself with its owner recorded.
LEMMA WaitBlocked ==
    ASSUME Types, ControlInv, CallInv, LockInv, RecordInv, BlockedInv, NEW t \in Task,
           \/ \E k \in {"wait", "timeout"} : mailbox_call(t, k)
           \/ wait_counted(t) \/ wait_block(t)
           \/ \E ms \in Durations : wait_block_timeout(t, ms)
           \/ awake(t) \/ wait_return(t)
    PROVE  BlockedInv'
<1>1. /\ cur' = cur /\ time_sorted_queue' = time_sorted_queue /\ Running(t)
      /\ pc[t] \in {"home", "m_wait", "m_awake", "m_true", "m_false"}
  BY DEF mailbox_call, wait_counted, wait_block, wait_block_timeout, awake, wait_return, squeue, At
<1>2. t \in Box /\ t \in Ctx /\ t # Idle /\ t = cur /\ CallOf(t) /\ RecordOf(t)
  <2>1. t \in Box
    BY <1>1 DEF mailbox_call, wait_counted, wait_block, wait_block_timeout, awake, wait_return, At,
       CallInv, CallOf, Waiting
  <2> QED
    BY <1>1, <2>1, Contexts DEF CallInv, RecordInv, Running
<1>3. whom[t] = Idle /\ (InWait(t) <=> pc[t] = "m_awake") /\ ~m_locked[t]
  BY <1>1, <1>2, Entry
<1>4. ~Adding(t) /\ ~Has(time_sorted_queue, t)
  <2>1. ~Adding(t)
    BY <1>1 DEF Adding
  <2>2. pc[t] = "m_awake" => ~Has(time_sorted_queue, t)
    BY <1>2 DEF BlockedInv
  <2>3. pc[t] # "m_awake" => ~Has(time_sorted_queue, t)
    BY <1>3 DEF BlockedInv
  <2> QED
    BY <2>1, <2>2, <2>3
<1>5. CASE \/ \E k \in {"wait", "timeout"} : mailbox_call(t, k)
           \/ wait_counted(t) \/ wait_return(t)
  <2>1. state' = state /\ wait_task' = wait_task /\ \A u \in Task : u # t => call'[u] = call[u]
    BY <1>5 DEF mailbox_call, wait_counted, wait_return, mbvars, inner, Types
  <2>2. Others(t) /\ pc'[t] \in {"m_wait", "m_leave", "home"}
    BY <1>5, WaitLocals DEF Moved, Became
  <2>3. ~Adding(t)' /\ pc'[t] # "m_awake"
    BY <2>2 DEF Adding
  <2> QED
    BY <1>1, <1>2, <1>4, <2>1, <2>2, <2>3, BlockedKeep DEF Recorded
<1>6. CASE awake(t)
  <2>1. state' = state /\ call' = call /\ pc[t] = "m_awake"
    BY <1>6 DEF awake, At
  <2>2. wait_task' = wait_task \/ (call[t] # "wait" /\ wait_task' = [wait_task EXCEPT ![t] = "NoTask"])
    BY <1>6 DEF awake
  <2>3. Others(t) /\ pc'[t] \in {"m_true", "m_leave"}
    BY <1>3, <1>6, WaitLocals DEF Moved, Became
  <2>4. ~Adding(t)' /\ pc'[t] # "m_awake"
    BY <2>3 DEF Adding
  <2>5. \A u \in Task : Recorded(u)' <=> Recorded(u)
    <3>1. ~Recorded(t)
      BY <1>2, <2>1 DEF BlockedInv, Recorded
    <3> QED
      BY <1>2, <2>2, <3>1 DEF Recorded, Types
  <2> QED
    BY <1>1, <1>2, <1>4, <2>1, <2>3, <2>4, <2>5, BlockedKeep
<1>7. CASE wait_block(t)
  <2>1. /\ state' = [state EXCEPT ![t] = "Blocked"] /\ call' = call /\ pc[t] = "m_wait"
        /\ wait_task' = [wait_task EXCEPT ![t] = "WithoutTimeout"]
    BY <1>7 DEF wait_block, At
  <2>2. Others(t) /\ pc'[t] = "m_leave"
    BY <1>7, WaitLocals DEF Became
  <2>3. Recorded(t)' /\ \A u \in Task : u # t => (Recorded(u)' <=> Recorded(u))
    BY <1>2, <2>1 DEF Recorded, Types
  <2> QED
    BY <1>1, <1>2, <1>3, <1>4, <2>1, <2>2, <2>3, BlockedBlocks
<1>8. CASE \E ms \in Durations : wait_block_timeout(t, ms)
  <2>1. /\ state' = [state EXCEPT ![t] = "Blocked"] /\ call' = call /\ pc[t] = "m_wait"
        /\ wait_task' = [wait_task EXCEPT ![t] = "WithTimeout"]
    BY <1>8 DEF wait_block_timeout, At
  <2>2. Others(t) /\ pc'[t] = "s_add"
    BY <1>8, WaitLocals DEF Became
  <2>3. Adding(t)' /\ \A u \in Task : u # t => (Recorded(u)' <=> Recorded(u))
    BY <1>2, <2>1, <2>2 DEF Recorded, Types, Adding
  <2>4. ~InWait(t) /\ pc'[t] # "m_awake"
    BY <1>3, <2>1, <2>2
  <2> QED
    BY <1>1, <1>2, <1>4, <2>1, <2>2, <2>3, <2>4, BlockedBlocks
<1> QED
  BY <1>5, <1>6, <1>7, <1>8

\* What a notification does to the record and to the state of the task.
LEMMA TakeBlocked ==
    ASSUME Types, RecordInv, BlockedInv, NEW c \in Ctx, NEW b \in Box, NEW s, Take(c, b, s)
    PROVE  \E R : /\ \A t \in R : Recorded(t)
                  /\ \A t \in Task : state'[t] = "Blocked" <=> state[t] = "Blocked" /\ t \notin R
                  /\ \A t \in Task : Recorded(t)' <=> Recorded(t) /\ t \notin R
                  /\ state' \in [Task -> {"Ready", "Running", "Blocked"}]
<1>0. wait_task' = [wait_task EXCEPT ![b] = "NoTask"] /\ b \in Task
  BY Contexts DEF Take
<1>1. CASE wait_task[b] = "WithoutTimeout"
  <2> DEFINE R == {b}
  <2>1. accept_task({b})
    BY <1>1 DEF Take
  <2>2. \A t \in R : Recorded(t)
    BY <1>1 DEF Recorded
  <2>3. \A t \in Task : state'[t] = "Blocked" <=> state[t] = "Blocked" /\ t \notin R
    BY <2>1 DEF accept_task
  <2>4. \A t \in Task : Recorded(t)' <=> Recorded(t) /\ t \notin R
    BY <1>0, <1>1 DEF Recorded, Types
  <2>5. state' \in [Task -> {"Ready", "Running", "Blocked"}]
    BY <2>1 DEF accept_task, Types
  <2> QED
    BY <2>2, <2>3, <2>4, <2>5
<1>2. CASE wait_task[b] # "WithoutTimeout"
  <2> DEFINE R == {}
  <2>1. state' = state
    BY <1>2 DEF Take
  <2>2. \A t \in Task : Recorded(t)' <=> Recorded(t)
    BY <1>0, <1>2 DEF Recorded, Types
  <2>3. /\ \A t \in R : Recorded(t)
        /\ \A t \in Task : state'[t] = "Blocked" <=> state[t] = "Blocked" /\ t \notin R
        /\ \A t \in Task : Recorded(t)' <=> Recorded(t) /\ t \notin R
    BY <2>1, <2>2
  <2> HIDE DEF R
  <2>4. state' \in [Task -> {"Ready", "Running", "Blocked"}]
    BY <2>1 DEF Types
  <2> QED
    BY <2>3, <2>4
<1> QED
  BY <1>1, <1>2

\* A notifier frees the task that its mailbox owned, and no other.
LEMMA NotifyBlocked ==
    ASSUME Types, ControlInv, CallInv, LockInv, RecordInv, OwedInv, BlockedInv, NEW c \in Ctx,
           \/ \E b \in Box : notify_pend(c, b) \/ notify_full(c, b)
           \/ notify_told(c) \/ m_leave(c) \/ m_run_pended_op(c) \/ run_pended_notified(c)
    PROVE  BlockedInv' /\ state' \in [Task -> {"Ready", "Running", "Blocked"}]
<1>0. cur' = cur /\ time_sorted_queue' = time_sorted_queue /\ call' = call /\ ControlOf(c)
  BY DEF notify_pend, notify_full, notify_told, m_leave, m_run_pended_op, run_pended_notified,
     squeue, sqvars, ControlInv
<1>1. CASE \E b \in Box : notify_pend(c, b)
  <2>1. Moved(c, pc[c]) /\ state' = state /\ wait_task' = wait_task
    BY <1>1, NotifyLocals DEF notify_pend, sqvars
  <2>2. /\ Adding(c)' <=> Adding(c)
        /\ InWait(c)' <=> InWait(c)
    BY <2>1 DEF Adding, InWait, Moved, Became
  <2>3. Others(c) /\ pc'[c] = pc[c]
    BY <2>1 DEF Moved, Became
  <2>4. c \in Task => (Has(time_sorted_queue, c) => InWait(c)' /\ call'[c] = "timeout")
    BY <1>0, <2>2 DEF BlockedInv
  <2>5. BlockedInv'
    BY <1>0, <2>1, <2>2, <2>3, <2>4, BlockedKeep DEF Recorded
  <2> QED
    BY <2>1, <2>5 DEF Types
<1>2. ASSUME NEW b \in Box, notify_full(c, b)
      PROVE  BlockedInv' /\ state' \in [Task -> {"Ready", "Running", "Blocked"}]
  <2>1. pc[c] = "home" /\ Take(c, b, "m_told")
    BY <1>2, Contexts DEF notify_full, Free, Arrives, At, Irq
  <2>2. whom[c] = Idle
    BY <1>0, <2>1 DEF ControlOf, SuspendedSteps, MailboxSuspended
  <2>3. Others(c) /\ pc'[c] \in {"s_remove", "m_leave"}
    BY <1>2, NotifyLocals DEF Became
  <2>4. ~InWait(c) /\ ~Adding(c) /\ ~Adding(c)' /\ pc'[c] # "m_awake"
    BY <2>1, <2>2, <2>3, Contexts DEF InWait, Adding
  <2>5. PICK R : /\ \A t \in R : Recorded(t)
                 /\ \A t \in Task : state'[t] = "Blocked" <=> state[t] = "Blocked" /\ t \notin R
                 /\ \A t \in Task : Recorded(t)' <=> Recorded(t) /\ t \notin R
                 /\ state' \in [Task -> {"Ready", "Running", "Blocked"}]
    BY <2>1, TakeBlocked
  <2>6. c \in Task => ~Has(time_sorted_queue, c)
    BY <2>4 DEF BlockedInv
  <2>7. BlockedInv'
    BY <1>0, <2>3, <2>4, <2>5, <2>6, BlockedFrame
  <2> QED
    BY <2>5, <2>7
<1>3. CASE notify_told(c) \/ run_pended_notified(c) \/ m_leave(c)
  <2>1. state' = state /\ wait_task' = wait_task /\ pc[c] \in {"m_told", "m_notified", "m_leave"}
    BY <1>3 DEF notify_told, run_pended_notified, m_leave, At, inner
  <2>2. /\ whom[c] # Idle /\ (c # whom[c] => m_ret[c] = "home")
        /\ m_ret[c] \in {"home", "m_true", "m_yield", "m_false"}
    BY <2>1, Holder DEF MailboxSuspended
  <2>3. \/ Moved(c, "m_leave") \/ Moved(c, "m_run")
        \/ Became(c, m_ret[c], Idle, ret[c], "home")
    BY <1>3, NotifyLocals
  <2>4. Others(c) /\ ~Adding(c) /\ ~Adding(c)' /\ pc'[c] # "m_awake"
    BY <2>1, <2>2, <2>3 DEF Moved, Became, Adding
  <2>5. InWait(c) => InWait(c)'
    BY <2>1, <2>2, <2>3 DEF Moved, Became, InWait
  <2>6. c \in Task => (Has(time_sorted_queue, c) => InWait(c)' /\ call'[c] = "timeout")
    BY <1>0, <2>5 DEF BlockedInv
  <2>7. BlockedInv'
    BY <1>0, <2>1, <2>4, <2>6, BlockedKeep DEF Recorded
  <2> QED
    BY <2>1, <2>7 DEF Types
<1>4. CASE m_run_pended_op(c)
  <2>1. pc[c] = "m_run" /\ Take(c, whom[c], "m_notified")
    BY <1>4 DEF m_run_pended_op, At
  <2>2. whom[c] \in Box
    BY <2>1, Holder DEF MailboxSuspended
  <2>3. Moved(c, "m_leave") \/ Became(c, "s_remove", whom[c], "m_notified", m_ret[c])
    BY <1>4, NotifyLocals
  <2>4. Others(c) /\ ~Adding(c) /\ ~Adding(c)' /\ pc'[c] # "m_awake" /\ (InWait(c) => InWait(c)')
    BY <2>1, <2>3 DEF Moved, Became, Adding, InWait
  <2>5. PICK R : /\ \A t \in R : Recorded(t)
                 /\ \A t \in Task : state'[t] = "Blocked" <=> state[t] = "Blocked" /\ t \notin R
                 /\ \A t \in Task : Recorded(t)' <=> Recorded(t) /\ t \notin R
                 /\ state' \in [Task -> {"Ready", "Running", "Blocked"}]
    BY <2>1, <2>2, TakeBlocked
  <2>6. c \in Task => (Has(time_sorted_queue, c) => InWait(c)' /\ call'[c] = "timeout")
    BY <1>0, <2>4 DEF BlockedInv
  <2>7. BlockedInv'
    BY <1>0, <2>4, <2>5, <2>6, BlockedFrame
  <2> QED
    BY <2>5, <2>7
<1> QED
  BY <1>1, <1>2, <1>3, <1>4

\* A switch picks a task that is not blocked.
LEMMA SwitchBlocked ==
    ASSUME Types, ControlInv, BlockedInv, Switch
    PROVE  BlockedInv' /\ Types'
<1>1. UNCHANGED <<time_sorted_queue, delete_buffer, time_to_wakeup, s_locked, s_pending, call, whom,
                  ret, m_ret, count, pending_count, wait_task, task_notified, m_locked, m_pending, owed>>
  BY DEF Switch, mbvars, inner, mlock, squeue
<1>2. ASSUME NEW c \in Ctx
      PROVE  pc'[c] = pc[c] \/ (pc[c] = "m_yield" /\ pc'[c] = "m_awake")
  <2>1. pc[c] # "yield"
    BY DEF ControlInv, ControlOf, Waiting, SuspendedSteps, MailboxSuspended
  <2> QED
    BY <2>1, SwitchLocals DEF Types
<1>3. /\ cur' \in (IF Pickable = {} THEN {Idle} ELSE Pickable)
      /\ state' = [t \in Task |-> IF t = cur' THEN "Running"
                                  ELSE IF state[t] = "Running" THEN "Ready" ELSE state[t]]
  BY DEF Switch, switch
<1>4. cur' = Idle \/ (cur' \in Task /\ state[cur'] # "Blocked")
  BY <1>3 DEF Pickable
<1>5. ASSUME NEW t \in Task PROVE state'[t] = "Blocked" <=> state[t] = "Blocked"
  <2>1. state'[t] = IF t = cur' THEN "Running"
                    ELSE IF state[t] = "Running" THEN "Ready" ELSE state[t]
    BY <1>3
  <2>2. t = cur' => state[t] # "Blocked"
    BY <1>4, Contexts
  <2> QED
    BY <2>1, <2>2
<1>6. \A t \in Task : t = cur' => state'[t] # "Blocked"
  BY <1>3
<1>7. ASSUME NEW t \in Task PROVE (InWait(t)' <=> InWait(t)) /\ (Adding(t)' <=> Adding(t))
  BY <1>1, <1>2, Contexts DEF InWait, Adding
<1>8. BlockedInv'
  BY <1>1, <1>5, <1>6, <1>7 DEF BlockedInv
<1>9. pc' \in [Ctx -> MailboxSteps]
  <2>1. pc' = [c \in Ctx |-> IF c = cur /\ pc[c] = "m_yield" THEN "m_awake"
                             ELSE IF c = cur /\ pc[c] = "yield" THEN "slept" ELSE pc[c]]
    BY SwitchLocals
  <2>2. "m_awake" \in MailboxSteps /\ "slept" \in MailboxSteps
    BY StepNames DEF MailboxSteps, SleepSteps
  <2>3. pc \in [Ctx -> MailboxSteps]
    BY DEF Types
  <2> QED
    BY <2>1, <2>2, <2>3
<1>10. cur' \in Task \union {Idle} /\ state' \in [Task -> {"Ready", "Running", "Blocked"}]
  BY <1>3, <1>4 DEF Types
<1> QED
  BY <1>1, <1>8, <1>9, <1>10 DEF Types

-----------------------------------------------------------------------------
(***************************************************************************)
(* The types.                                                              *)
(***************************************************************************)
\* What a step of the mailbox does not touch.
Apart == UNCHANGED <<cur, time_sorted_queue, delete_buffer, time_to_wakeup, s_locked, s_pending>>

\* The locals keep their types when the ones of a single context are set.
LEMMA LocalTypes ==
    ASSUME Types, NEW c \in Ctx,
           \E p \in MailboxSteps : pc' = [pc EXCEPT ![c] = p],
           ret' = ret \/ \E p \in MailboxSteps : ret' = [ret EXCEPT ![c] = p],
           m_ret' = m_ret \/ \E p \in MailboxSteps : m_ret' = [m_ret EXCEPT ![c] = p],
           whom' = whom \/ \E w \in Box \union {Idle} : whom' = [whom EXCEPT ![c] = w]
    PROVE  /\ pc' \in [Ctx -> MailboxSteps] /\ ret' \in [Ctx -> MailboxSteps]
           /\ m_ret' \in [Ctx -> MailboxSteps] /\ whom' \in [Ctx -> Box \union {Idle}]
<1>1. /\ pc \in [Ctx -> MailboxSteps] /\ ret \in [Ctx -> MailboxSteps]
      /\ m_ret \in [Ctx -> MailboxSteps] /\ whom \in [Ctx -> Box \union {Idle}]
  BY DEF Types
<1>2. pc' \in [Ctx -> MailboxSteps]
  BY <1>1
<1>3. ret' \in [Ctx -> MailboxSteps]
  BY <1>1
<1>4. m_ret' \in [Ctx -> MailboxSteps]
  BY <1>1
<1>5. whom' \in [Ctx -> Box \union {Idle}]
  BY <1>1
<1> QED
  BY <1>2, <1>3, <1>4, <1>5

\* wait and wait_until_timeout.
LEMMA WaitTypes ==
    ASSUME Types, ControlInv, CallInv, LockInv, RecordInv, OwedInv, NEW t \in Task,
           \/ \E k \in {"wait", "timeout"} : mailbox_call(t, k)
           \/ wait_counted(t) \/ wait_block(t)
           \/ \E ms \in Durations : wait_block_timeout(t, ms)
           \/ awake(t) \/ wait_return(t)
    PROVE  Types'
<1>0. /\ t \in Ctx /\ "m_wait" \in MailboxSteps /\ "m_leave" \in MailboxSteps
      /\ "s_add" \in MailboxSteps /\ "m_true" \in MailboxSteps /\ "m_false" \in MailboxSteps
      /\ "m_yield" \in MailboxSteps /\ "hang" \in MailboxSteps /\ "home" \in MailboxSteps
  BY Contexts, StepNames
<1>t. t \in Box
  <2>1. CASE \E k \in {"wait", "timeout"} : mailbox_call(t, k)
    BY <2>1 DEF mailbox_call
  <2>2. CASE ~ \E k \in {"wait", "timeout"} : mailbox_call(t, k)
    <3>1. pc[t] \in Waiting
      BY <2>2 DEF wait_counted, wait_block, wait_block_timeout, awake, wait_return, At, Waiting
    <3> QED
      BY <3>1, <1>0 DEF CallInv, CallOf
  <2> QED
    BY <2>1, <2>2
<1>1. CASE \E k \in {"wait", "timeout"} : mailbox_call(t, k)
  <2>1. PICK k \in {"wait", "timeout"} : mailbox_call(t, k)
    BY <1>1
  <2>2. /\ pc' = [pc EXCEPT ![t] = "m_wait"] /\ call' = [call EXCEPT ![t] = k]
        /\ Apart /\ UNCHANGED <<state, whom, ret, m_ret, count, pending_count, wait_task, task_notified,
                                m_locked, m_pending, owed>>
    BY <2>1 DEF mailbox_call, Goto, mbvars, inner, mlock, squeue, Apart
  <2>3. /\ pc' \in [Ctx -> MailboxSteps] /\ ret' \in [Ctx -> MailboxSteps]
        /\ m_ret' \in [Ctx -> MailboxSteps] /\ whom' \in [Ctx -> Box \union {Idle}]
    BY <1>0, <2>2, LocalTypes
  <2>4. call' \in [Task -> {"none", "wait", "timeout"}]
    BY <2>2 DEF Types
  <2> QED
    BY <2>2, <2>3, <2>4 DEF Types, Apart
<1>2. CASE wait_counted(t)
  <2>1. /\ pc' = [pc EXCEPT ![t] = "m_leave"] /\ m_ret' = [m_ret EXCEPT ![t] = "m_true"]
        /\ whom' = [whom EXCEPT ![t] = t] /\ count[t] > 0
        /\ m_locked' = [m_locked EXCEPT ![t] = TRUE] /\ count' = [count EXCEPT ![t] = @ - 1]
        /\ Apart /\ UNCHANGED <<state, call, ret, pending_count, wait_task, task_notified, m_pending, owed>>
    BY <1>2 DEF wait_counted, LockBox, Goto, squeue, Apart
  <2>2. /\ pc' \in [Ctx -> MailboxSteps] /\ ret' \in [Ctx -> MailboxSteps]
        /\ m_ret' \in [Ctx -> MailboxSteps] /\ whom' \in [Ctx -> Box \union {Idle}]
    BY <1>0, <1>t, <2>1, LocalTypes
  <2>3. count' \in [Box -> Nat] /\ m_locked' \in [Box -> BOOLEAN]
    BY <1>t, <2>1 DEF Types
  <2> QED
    BY <2>1, <2>2, <2>3 DEF Types, Apart
<1>3. CASE wait_block(t)
  <2>1. /\ pc' = [pc EXCEPT ![t] = "m_leave"] /\ m_ret' = [m_ret EXCEPT ![t] = "m_yield"]
        /\ whom' = [whom EXCEPT ![t] = t]
        /\ m_locked' = [m_locked EXCEPT ![t] = TRUE] /\ state' = [state EXCEPT ![t] = "Blocked"]
        /\ wait_task' = [wait_task EXCEPT ![t] = "WithoutTimeout"]
        /\ Apart /\ UNCHANGED <<call, ret, count, pending_count, task_notified, m_pending, owed>>
    BY <1>3 DEF wait_block, LockBox, Goto, squeue, Apart
  <2>2. /\ pc' \in [Ctx -> MailboxSteps] /\ ret' \in [Ctx -> MailboxSteps]
        /\ m_ret' \in [Ctx -> MailboxSteps] /\ whom' \in [Ctx -> Box \union {Idle}]
    BY <1>0, <1>t, <2>1, LocalTypes
  <2>3. /\ m_locked' \in [Box -> BOOLEAN] /\ wait_task' \in [Box -> WaitTask]
        /\ state' \in [Task -> {"Ready", "Running", "Blocked"}]
    BY <1>t, <2>1 DEF Types, WaitTask
  <2> QED
    BY <2>1, <2>2, <2>3 DEF Types, Apart
<1>4. CASE \E ms \in Durations : wait_block_timeout(t, ms)
  <2>1. /\ pc' = [pc EXCEPT ![t] = "s_add"] /\ m_ret' = [m_ret EXCEPT ![t] = "m_yield"]
        /\ whom' = [whom EXCEPT ![t] = t] /\ ret' = [ret EXCEPT ![t] = "m_leave"]
        /\ m_locked' = [m_locked EXCEPT ![t] = TRUE] /\ state' = [state EXCEPT ![t] = "Blocked"]
        /\ wait_task' = [wait_task EXCEPT ![t] = "WithTimeout"]
        /\ task_notified' = [task_notified EXCEPT ![t] = FALSE]
        /\ Apart /\ UNCHANGED <<call, count, pending_count, m_pending, owed>>
    BY <1>4 DEF wait_block_timeout, LockBox, Goto, squeue, Apart
  <2>2. /\ pc' \in [Ctx -> MailboxSteps] /\ ret' \in [Ctx -> MailboxSteps]
        /\ m_ret' \in [Ctx -> MailboxSteps] /\ whom' \in [Ctx -> Box \union {Idle}]
    BY <1>0, <1>t, <2>1, LocalTypes
  <2>3. /\ m_locked' \in [Box -> BOOLEAN] /\ wait_task' \in [Box -> WaitTask]
        /\ state' \in [Task -> {"Ready", "Running", "Blocked"}] /\ task_notified' \in [Box -> BOOLEAN]
    BY <1>t, <2>1 DEF Types, WaitTask
  <2> QED
    BY <2>1, <2>2, <2>3 DEF Types, Apart
<1>5. CASE awake(t)
  <2>1. Apart /\ UNCHANGED <<state, call, ret, count, pending_count, task_notified, m_pending, owed>>
    BY <1>5 DEF awake, squeue, Apart
  <2>2. CASE call[t] = "wait"
    <3>1. pc' = [pc EXCEPT ![t] = "m_true"] /\ UNCHANGED <<wait_task, m_locked, m_ret, whom>>
      BY <1>5, <2>2 DEF awake, Goto
    <3>2. /\ pc' \in [Ctx -> MailboxSteps] /\ ret' \in [Ctx -> MailboxSteps]
          /\ m_ret' \in [Ctx -> MailboxSteps] /\ whom' \in [Ctx -> Box \union {Idle}]
      BY <1>0, <2>1, <3>1, LocalTypes
    <3> QED
      BY <2>1, <3>1, <3>2 DEF Types, Apart
  <2>3. CASE call[t] # "wait"
    <3>1. /\ pc' = [pc EXCEPT ![t] = IF m_locked[t] THEN "hang" ELSE "m_leave"]
          /\ m_ret' = [m_ret EXCEPT ![t] = IF task_notified[t] THEN "m_true" ELSE "m_false"]
          /\ whom' = [whom EXCEPT ![t] = t]
          /\ m_locked' = [m_locked EXCEPT ![t] = TRUE]
          /\ wait_task' = [wait_task EXCEPT ![t] = "NoTask"]
      BY <1>5, <2>3 DEF awake, LockBox, Goto
    <3>2. /\ (IF m_locked[t] THEN "hang" ELSE "m_leave") \in MailboxSteps
          /\ (IF task_notified[t] THEN "m_true" ELSE "m_false") \in MailboxSteps
      BY <1>0
    <3>3. /\ pc' \in [Ctx -> MailboxSteps] /\ ret' \in [Ctx -> MailboxSteps]
          /\ m_ret' \in [Ctx -> MailboxSteps] /\ whom' \in [Ctx -> Box \union {Idle}]
      BY <1>0, <1>t, <2>1, <3>1, <3>2, LocalTypes
    <3>4. m_locked' \in [Box -> BOOLEAN] /\ wait_task' \in [Box -> WaitTask]
      BY <1>t, <3>1 DEF Types, WaitTask
    <3> QED
      BY <2>1, <3>3, <3>4 DEF Types, Apart
  <2> QED
    BY <2>2, <2>3
<1>6. CASE wait_return(t)
  <2>1. /\ pc' = [pc EXCEPT ![t] = "home"] /\ call' = [call EXCEPT ![t] = "none"]
        /\ task_notified' = [task_notified EXCEPT ![t] = FALSE]
        /\ Apart /\ UNCHANGED <<state, whom, ret, count, pending_count, wait_task, m_locked, m_pending, m_ret>>
    BY <1>6 DEF wait_return, Goto, squeue, mlock, Apart
  <2>2. /\ pc' \in [Ctx -> MailboxSteps] /\ ret' \in [Ctx -> MailboxSteps]
        /\ m_ret' \in [Ctx -> MailboxSteps] /\ whom' \in [Ctx -> Box \union {Idle}]
    BY <1>0, <2>1, LocalTypes
  <2>3. call' \in [Task -> {"none", "wait", "timeout"}] /\ task_notified' \in [Box -> BOOLEAN]
    BY <1>t, <2>1 DEF Types
  <2>4. owed' \in [Box -> 0 .. MaxOwed]
    BY <1>6, wait_returnRecord
  <2> QED
    BY <2>1, <2>2, <2>3, <2>4 DEF Types, Apart
<1> QED
  BY <1>1, <1>2, <1>3, <1>4, <1>5, <1>6

\* Notifying, and leaving a mailbox.
LEMMA NotifyTypes ==
    ASSUME Types, ControlInv, CallInv, LockInv, RecordInv, OwedInv, BlockedInv, NEW c \in Ctx,
           \/ \E b \in Box : notify_pend(c, b) \/ notify_full(c, b)
           \/ notify_told(c) \/ m_leave(c) \/ m_run_pended_op(c) \/ run_pended_notified(c)
    PROVE  Types'
<1>0. /\ "m_leave" \in MailboxSteps /\ "s_remove" \in MailboxSteps /\ "m_told" \in MailboxSteps
      /\ "m_notified" \in MailboxSteps /\ "m_run" \in MailboxSteps /\ "home" \in MailboxSteps
  BY StepNames
<1>s. state' \in [Task -> {"Ready", "Running", "Blocked"}]
  BY NotifyBlocked
<1>o. ASSUME NEW b \in Box, owed[b] < MaxOwed, Sent(b) PROVE owed' \in [Box -> 0 .. MaxOwed]
  <2>1. owed \in [Box -> 0 .. MaxOwed] /\ MaxOwed \in Nat
    BY Contexts DEF Types
  <2>2. owed[b] + 1 \in 0 .. MaxOwed
    BY <1>o, <2>1
  <2> QED
    BY <1>o, <2>1, <2>2 DEF Sent
<1>k. ASSUME NEW b \in Box, NEW s \in MailboxSteps, Take(c, b, s)
      PROVE  /\ wait_task' \in [Box -> WaitTask]
             /\ \E p \in MailboxSteps : pc' = [pc EXCEPT ![c] = p]
             /\ ret' = ret \/ ret' = [ret EXCEPT ![c] = s]
  <2>1. wait_task' = [wait_task EXCEPT ![b] = "NoTask"]
    BY <1>k DEF Take
  <2>2. wait_task' \in [Box -> WaitTask]
    BY <2>1 DEF Types, WaitTask
  <2>3. \/ pc' = [pc EXCEPT ![c] = "s_remove"] /\ ret' = [ret EXCEPT ![c] = s]
        \/ pc' = [pc EXCEPT ![c] = "m_leave"] /\ ret' = ret
    BY <1>k DEF Take, CallRemove, Goto
  <2> QED
    BY <1>0, <2>2, <2>3
<1>1. ASSUME NEW b \in Box, notify_pend(c, b) PROVE Types'
  <2>1. /\ UNCHANGED <<cur, state, pc, time_sorted_queue, delete_buffer, time_to_wakeup, s_locked, s_pending,
                       call, whom, ret, count, wait_task, task_notified, m_locked, m_ret>>
        /\ pending_count' = [pending_count EXCEPT ![b] = @ + 1]
        /\ m_pending' = [m_pending EXCEPT ![b] = TRUE]
    BY <1>1 DEF notify_pend, sqvars, squeue
  <2>2. pending_count' \in [Box -> Nat] /\ m_pending' \in [Box -> BOOLEAN]
    BY <2>1 DEF Types
  <2>3. owed' \in [Box -> 0 .. MaxOwed]
    BY <1>1, <1>o DEF notify_pend
  <2> QED
    BY <2>1, <2>2, <2>3 DEF Types
<1>2. ASSUME NEW b \in Box, notify_full(c, b) PROVE Types'
  <2>1. /\ Apart /\ UNCHANGED <<call, pending_count, task_notified, m_pending>>
        /\ m_locked' = [m_locked EXCEPT ![b] = TRUE]
        /\ m_ret' = [m_ret EXCEPT ![c] = "home"] /\ whom' = [whom EXCEPT ![c] = b]
        /\ Take(c, b, "m_told")
        /\ count' = [count EXCEPT ![b] = IF wait_task[b] = "NoTask" THEN @ + 1 ELSE @]
    BY <1>2 DEF notify_full, LockBox, squeue, Apart
  <2>2. /\ wait_task' \in [Box -> WaitTask]
        /\ \E p \in MailboxSteps : pc' = [pc EXCEPT ![c] = p]
        /\ ret' = ret \/ ret' = [ret EXCEPT ![c] = "m_told"]
    BY <1>0, <1>k, <2>1
  <2>3. /\ pc' \in [Ctx -> MailboxSteps] /\ ret' \in [Ctx -> MailboxSteps]
        /\ m_ret' \in [Ctx -> MailboxSteps] /\ whom' \in [Ctx -> Box \union {Idle}]
    BY <1>0, <2>1, <2>2, LocalTypes
  <2>4. count' \in [Box -> Nat] /\ m_locked' \in [Box -> BOOLEAN]
    BY <2>1 DEF Types
  <2>5. owed' \in [Box -> 0 .. MaxOwed]
    BY <1>2, <1>o DEF notify_full
  <2> QED
    BY <1>s, <2>1, <2>2, <2>3, <2>4, <2>5 DEF Types, Apart
<1>3. CASE notify_told(c) \/ run_pended_notified(c)
  <2>1. /\ Apart /\ UNCHANGED <<call, whom, ret, pending_count, wait_task, m_locked, m_pending, m_ret, owed>>
        /\ task_notified' = [task_notified EXCEPT ![whom[c]] = TRUE]
        /\ pc' = [pc EXCEPT ![c] = "m_leave"]
        /\ pc[c] \in MailboxSuspended
    BY <1>3 DEF notify_told, run_pended_notified, Goto, At, squeue, mlock, Apart, MailboxSuspended
  <2>2. whom[c] \in Box
    BY <2>1, Holder
  <2>3. /\ pc' \in [Ctx -> MailboxSteps] /\ ret' \in [Ctx -> MailboxSteps]
        /\ m_ret' \in [Ctx -> MailboxSteps] /\ whom' \in [Ctx -> Box \union {Idle}]
    BY <1>0, <2>1, LocalTypes
  <2>4. task_notified' \in [Box -> BOOLEAN]
    BY <2>1, <2>2 DEF Types
  <2>5. count' \in [Box -> Nat]
    BY <1>3, toldRecord
  <2> QED
    BY <1>s, <2>1, <2>3, <2>4, <2>5 DEF Types, Apart
<1>4. CASE m_leave(c)
  <2>1. /\ Apart /\ UNCHANGED <<call, ret, count, pending_count, wait_task, task_notified, owed>>
        /\ pc[c] \in MailboxSuspended
    BY <1>4 DEF m_leave, At, squeue, inner, Apart, MailboxSuspended
  <2>2. whom[c] \in Box /\ m_ret[c] \in MailboxSteps
    BY <2>1, Holder DEF Types
  <2>3. CASE m_pending[whom[c]]
    <3>1. /\ m_pending' = [m_pending EXCEPT ![whom[c]] = FALSE]
          /\ pc' = [pc EXCEPT ![c] = "m_run"] /\ UNCHANGED <<m_locked, m_ret, whom>>
      BY <1>4, <2>3 DEF m_leave, Goto
    <3>2. /\ pc' \in [Ctx -> MailboxSteps] /\ ret' \in [Ctx -> MailboxSteps]
          /\ m_ret' \in [Ctx -> MailboxSteps] /\ whom' \in [Ctx -> Box \union {Idle}]
      BY <1>0, <2>1, <3>1, LocalTypes
    <3>3. m_pending' \in [Box -> BOOLEAN]
      BY <2>2, <3>1 DEF Types
    <3> QED
      BY <1>s, <2>1, <3>1, <3>2, <3>3 DEF Types, Apart
  <2>4. CASE ~m_pending[whom[c]]
    <3>1. /\ m_locked' = [m_locked EXCEPT ![whom[c]] = FALSE]
          /\ pc' = [pc EXCEPT ![c] = m_ret[c]] /\ m_ret' = [m_ret EXCEPT ![c] = "home"]
          /\ whom' = [whom EXCEPT ![c] = Idle] /\ m_pending' = m_pending
      BY <1>4, <2>4 DEF m_leave, Goto
    <3>2. /\ pc' \in [Ctx -> MailboxSteps] /\ ret' \in [Ctx -> MailboxSteps]
          /\ m_ret' \in [Ctx -> MailboxSteps] /\ whom' \in [Ctx -> Box \union {Idle}]
      BY <1>0, <2>1, <2>2, <3>1, LocalTypes
    <3>3. m_locked' \in [Box -> BOOLEAN]
      BY <2>2, <3>1 DEF Types
    <3> QED
      BY <1>s, <2>1, <3>1, <3>2, <3>3 DEF Types, Apart
  <2> QED
    BY <2>3, <2>4
<1>5. CASE m_run_pended_op(c)
  <2>1. /\ Apart /\ UNCHANGED <<call, whom, task_notified, m_locked, m_pending, m_ret, owed>>
        /\ pending_count' = [pending_count EXCEPT ![whom[c]] = 0]
        /\ Take(c, whom[c], "m_notified")
        /\ pc[c] \in MailboxSuspended
    BY <1>5 DEF m_run_pended_op, At, squeue, mlock, Apart, MailboxSuspended
  <2>2. whom[c] \in Box
    BY <2>1, Holder
  <2>3. /\ wait_task' \in [Box -> WaitTask]
        /\ \E p \in MailboxSteps : pc' = [pc EXCEPT ![c] = p]
        /\ ret' = ret \/ ret' = [ret EXCEPT ![c] = "m_notified"]
    BY <1>0, <1>k, <2>1, <2>2
  <2>4. /\ pc' \in [Ctx -> MailboxSteps] /\ ret' \in [Ctx -> MailboxSteps]
        /\ m_ret' \in [Ctx -> MailboxSteps] /\ whom' \in [Ctx -> Box \union {Idle}]
    BY <1>0, <2>1, <2>3, LocalTypes
  <2>5. pending_count' \in [Box -> Nat]
    BY <2>1, <2>2 DEF Types
  <2>6. count' \in [Box -> Nat]
    BY <1>5, m_runRecord
  <2> QED
    BY <1>s, <2>1, <2>3, <2>4, <2>5, <2>6 DEF Types, Apart
<1> QED
  BY <1>1, <1>2, <1>3, <1>4, <1>5

-----------------------------------------------------------------------------
(***************************************************************************)
(* The inductive invariant.                                                *)
(***************************************************************************)
\* It holds when nobody has called anything yet.
LEMMA InitIInv == Init => IInv
<1> SUFFICES ASSUME Init PROVE IInv
  OBVIOUS
<1>1. /\ cur = Idle /\ state = [t \in Task |-> "Ready"] /\ pc = [c \in Ctx |-> "home"]
      /\ time_sorted_queue = <<>> /\ delete_buffer = <<>> /\ time_to_wakeup = FALSE
      /\ s_locked = FALSE /\ s_pending = FALSE
      /\ call = [t \in Task |-> "none"] /\ whom = [c \in Ctx |-> Idle] /\ ret = [c \in Ctx |-> "home"]
      /\ count = [b \in Box |-> 0] /\ pending_count = [b \in Box |-> 0]
      /\ wait_task = [b \in Box |-> "NoTask"] /\ task_notified = [b \in Box |-> FALSE]
      /\ m_locked = [b \in Box |-> FALSE] /\ m_pending = [b \in Box |-> FALSE]
      /\ m_ret = [c \in Ctx |-> "home"] /\ owed = [b \in Box |-> 0]
  BY DEF Init, InitSleepQueue, InitCore
<1>2. /\ \A c \in Ctx : pc[c] = "home" /\ whom[c] = Idle /\ ret[c] = "home" /\ m_ret[c] = "home"
      /\ \A t \in Task : call[t] = "none" /\ state[t] = "Ready"
      /\ \A b \in Box : /\ count[b] = 0 /\ pending_count[b] = 0 /\ wait_task[b] = "NoTask"
                        /\ ~task_notified[b] /\ ~m_locked[b] /\ ~m_pending[b] /\ owed[b] = 0
  BY <1>1
<1>3. Types
  <2>1. "home" \in MailboxSteps /\ MaxOwed \in Nat
    BY StepNames, Contexts
  <2>2. pc \in [Ctx -> MailboxSteps] /\ ret \in [Ctx -> MailboxSteps] /\ m_ret \in [Ctx -> MailboxSteps]
    BY <1>1, <2>1
  <2>3. whom \in [Ctx -> Box \union {Idle}] /\ owed \in [Box -> 0 .. MaxOwed]
    BY <1>1, <2>1
  <2>4. /\ time_sorted_queue \in Seq(Task) /\ delete_buffer \in Seq(Task)
        /\ count \in [Box -> Nat] /\ pending_count \in [Box -> Nat]
    BY <1>1
  <2>5. /\ wait_task \in [Box -> WaitTask] /\ task_notified \in [Box -> BOOLEAN]
        /\ m_locked \in [Box -> BOOLEAN] /\ m_pending \in [Box -> BOOLEAN]
    BY <1>1 DEF WaitTask
  <2> QED
    BY <1>1, <2>2, <2>3, <2>4, <2>5 DEF Types
<1>4. ControlInv
  BY <1>2 DEF ControlInv, ControlOf, SuspendedSteps, MailboxSuspended, Waiting, TickSteps
<1>5. CallInv
  BY <1>2, Contexts DEF CallInv, CallOf, Waiting
<1>6. LockInv
  <2>1. \A c \in Ctx : pc[c] \notin SuspendedSteps \union MailboxSuspended /\ pc[c] \notin InQueueLock
    BY <1>2 DEF SuspendedSteps, MailboxSuspended, InQueueLock
  <2> QED
    BY <1>1, <1>2, <2>1, Contexts DEF LockInv, BoxLock, QueueLock, OnlyCurrent
<1>7. RecordInv
  BY <1>2, Contexts DEF RecordInv, RecordOf, TellingOf, Telling
<1>8. OwedInv
  BY <1>2, Contexts DEF OwedInv, OwedOf, IsClaimed, BeingTold, InWait, Telling
<1>9. BlockedInv
  BY <1>1, <1>2, Contexts DEF BlockedInv, Distinct, Has, Adding
<1> QED
  BY <1>3, <1>4, <1>5, <1>6, <1>7, <1>8, <1>9 DEF IInv

\* A step of a task in wait or wait_until_timeout, or a call of one, keeps it.
LEMMA WaitIInv ==
    ASSUME IInv, NEW t \in Task,
           \/ \E k \in {"wait", "timeout"} : mailbox_call(t, k)
           \/ wait_counted(t) \/ wait_block(t)
           \/ \E ms \in Durations : wait_block_timeout(t, ms)
           \/ awake(t) \/ wait_return(t)
    PROVE  IInv'
<1>0. Types /\ ControlInv /\ CallInv /\ LockInv /\ RecordInv /\ OwedInv /\ BlockedInv
  BY DEF IInv
<1>1. Types'
  BY <1>0, WaitTypes
<1>2. ControlInv'
  BY <1>0, WaitControl
<1>3. CallInv'
  BY <1>0, WaitCall
<1>4. LockInv'
  BY <1>0, WaitLock
<1>5. RecordInv' /\ OwedInv'
  BY <1>0, mailbox_callRecord, wait_countedRecord, wait_blockRecord, wait_block_timeoutRecord,
     awakeRecord, wait_returnRecord
<1>6. BlockedInv'
  BY <1>0, WaitBlocked
<1> QED
  BY <1>1, <1>2, <1>3, <1>4, <1>5, <1>6 DEF IInv

\* A notification, or a step that leaves a mailbox, keeps it.
LEMMA NotifyIInv ==
    ASSUME IInv, NEW c \in Ctx,
           \/ \E b \in Box : notify_pend(c, b) \/ notify_full(c, b)
           \/ notify_told(c) \/ m_leave(c) \/ m_run_pended_op(c) \/ run_pended_notified(c)
    PROVE  IInv'
<1>0. Types /\ ControlInv /\ CallInv /\ LockInv /\ RecordInv /\ OwedInv /\ BlockedInv
  BY DEF IInv
<1>1. Types'
  BY <1>0, NotifyTypes
<1>2. ControlInv'
  BY <1>0, NotifyControl
<1>3. CallInv'
  BY <1>0, NotifyCall
<1>4. LockInv'
  BY <1>0, NotifyLock
<1>5. RecordInv' /\ OwedInv'
  BY <1>0, notify_pendRecord, notify_fullRecord, toldRecord, m_leaveRecord, m_runRecord
<1>6. BlockedInv'
  BY <1>0, NotifyBlocked
<1> QED
  BY <1>1, <1>2, <1>3, <1>4, <1>5, <1>6 DEF IInv

\* A step in the sleep queue keeps it: the queue moves nothing of a mailbox but
\* the tasks it wakes.
LEMMA SleepIInv ==
    ASSUME IInv, NEW c \in Ctx, InSleep(c) \/ (c = SysTick /\ Tick)
    PROVE  IInv'
<1>0. Types /\ ControlInv /\ CallInv /\ LockInv /\ RecordInv /\ OwedInv /\ BlockedInv
  BY DEF IInv
<1>1. Quiet(c)
  BY <1>0, QuietSteps
<1>2. ControlInv'
  BY <1>0, SleepControl, SwitchControl
<1>3. CallInv'
  BY <1>0, <1>1, QuietCall
<1>4. LockInv'
  BY <1>0, SleepLock, TickLock
<1>5. RecordInv' /\ OwedInv'
  BY <1>0, <1>1, QuietRecord
<1>6. BlockedInv' /\ Types'
  BY <1>0, SleepBlocked, TickBlocked
<1> QED
  BY <1>2, <1>3, <1>4, <1>5, <1>6 DEF IInv

\* A context switch keeps it.
LEMMA SwitchIInv == IInv /\ Switch => IInv'
<1> SUFFICES ASSUME IInv, Switch PROVE IInv'
  OBVIOUS
<1>0. Types /\ ControlInv /\ CallInv /\ LockInv /\ RecordInv /\ OwedInv /\ BlockedInv
  BY DEF IInv
<1>1. ControlInv' /\ CallInv' /\ LockInv'
  BY <1>0, SwitchControl, SwitchCall, SwitchLock
<1>2. RecordInv' /\ OwedInv'
  BY <1>0, SwitchRecord
<1>3. BlockedInv' /\ Types'
  BY <1>0, SwitchBlocked
<1> QED
  BY <1>1, <1>2, <1>3 DEF IInv

\* Nothing happens.
LEMMA StutterIInv == IInv /\ UNCHANGED vars => IInv'
<1> SUFFICES ASSUME IInv, UNCHANGED vars PROVE IInv'
  OBVIOUS
<1>1. UNCHANGED <<cur, state, pc, time_sorted_queue, delete_buffer, time_to_wakeup, s_locked, s_pending,
                  call, whom, ret, count, pending_count, wait_task, task_notified, m_locked, m_pending,
                  m_ret, owed>>
  BY DEF vars, sqvars, squeue, mbvars, inner, mlock
<1>2. Types' /\ ControlInv' /\ CallInv'
  BY <1>1 DEF IInv, Types, ControlInv, ControlOf, CallInv, CallOf
<1>3. LockInv'
  BY <1>1 DEF IInv, LockInv, BoxLock, QueueLock, OnlyCurrent
<1>4. RecordInv'
  BY <1>1 DEF IInv, RecordInv, RecordOf, TellingOf, Telling, InWait
<1>5. OwedInv'
  BY <1>1 DEF IInv, OwedInv, OwedOf, IsClaimed, BeingTold, InWait, Telling
<1>6. BlockedInv'
  BY <1>1 DEF IInv, BlockedInv, Adding, InWait
<1> QED
  BY <1>2, <1>3, <1>4, <1>5, <1>6 DEF IInv

(***************************************************************************)
(* Along every behaviour the contexts keep to their protocol, the two      *)
(* locks have one holder each, the record of a mailbox says what its task  *)
(* does, every notification is accounted for and every blocked task has    *)
(* its owner.                                                              *)
(***************************************************************************)
THEOREM Invariance == Spec => []IInv
<1>1. IInv /\ [Next]_vars => IInv'
  <2> SUFFICES ASSUME IInv, Next PROVE IInv'
    BY StutterIInv
  <2>1. CASE Tick
    BY <2>1, SleepIInv, Contexts
  <2>2. ASSUME NEW c \in Ctx, Step(c) PROVE IInv'
    <3>1. CASE notify_told(c) \/ m_leave(c) \/ m_run_pended_op(c) \/ run_pended_notified(c)
      BY <3>1, NotifyIInv
    <3>2. CASE /\ c \in Task
               /\ \/ wait_counted(c) \/ wait_block(c)
                  \/ \E ms \in Durations : wait_block_timeout(c, ms)
                  \/ awake(c) \/ wait_return(c)
      BY <3>2, WaitIInv
    <3>3. CASE InSleep(c)
      BY <3>3, SleepIInv
    <3>4. CASE die(c) /\ UNCHANGED mbvars
      BY <3>4, StutterIInv DEF die, vars
    <3> QED
      BY <2>2, <3>1, <3>2, <3>3, <3>4 DEF Step, MailboxStep, InSleep, RemoveStep
  <2>3. ASSUME NEW t \in Task, NEW k \in {"wait", "timeout"}, mailbox_call(t, k) PROVE IInv'
    BY <2>3, WaitIInv
  <2>4. ASSUME NEW c \in Ctx, NEW b \in Box, notify_pend(c, b) \/ notify_full(c, b) PROVE IInv'
    BY <2>4, NotifyIInv
  <2>5. CASE Switch
    BY <2>5, SwitchIInv
  <2> QED
    BY <2>1, <2>2, <2>3, <2>4, <2>5 DEF Next
<1> QED
  BY <1>1, InitIInv, PTL DEF Spec

-----------------------------------------------------------------------------
(***************************************************************************)
(* What follows from it.                                                   *)
(***************************************************************************)
\* While a mailbox is unlocked nobody is on its way through it.
LEMMA ClaimOfUnlocked ==
    ASSUME IInv, NEW b \in Box, ~m_locked[b]
    PROVE  /\ Claimed(b) <=> IsClaimed(b)
           /\ InWait(b) <=> pc[b] \in {"m_yield", "m_awake"}
           /\ ~BeingTold(b) /\ pending_count[b] = 0
<1>1. \A d \in Ctx : whom[d] # b
  BY Unlocked DEF IInv, LockInv
<1>2. InWait(b) <=> pc[b] \in {"m_yield", "m_awake"}
  BY <1>1, Contexts DEF InWait
<1>3. ~BeingTold(b) /\ pending_count[b] = 0
  BY Unlocked DEF IInv, LockInv
<1> QED
  BY <1>1, <1>2, <1>3, Contexts DEF Claimed, IsClaimed

(***************************************************************************)
(* A notification is reported by exactly one wait or is still counted, for *)
(* any number of mailboxes and notifiers, however it races with the        *)
(* timeout (notify_allow_isr, run_pended_op and wait_until_timeout of      *)
(* mailbox.rs).                                                            *)
(***************************************************************************)
THEOREM NotificationsAreConserved == Spec => []NotificationsConserved
<1>1. IInv => NotificationsConserved
  <2> SUFFICES ASSUME IInv, NEW b \in Box, ~m_locked[b]
               PROVE  owed[b] = count[b] + pending_count[b] + (IF Claimed(b) THEN 1 ELSE 0)
    BY DEF NotificationsConserved
  <2>1. OwedOf(b) /\ count[b] \in Nat /\ pending_count[b] \in Nat
    BY DEF IInv, OwedInv, Types
  <2>2. (Claimed(b) <=> IsClaimed(b)) /\ ~BeingTold(b)
    BY ClaimOfUnlocked
  <2> QED
    BY <2>1, <2>2 DEF OwedOf
<1> QED
  BY <1>1, Invariance, PTL

(***************************************************************************)
(* A mailbox that is unlocked records a waiting task only if there is      *)
(* nothing for it, and the next wait finds the mailbox unlocked and the    *)
(* record empty (the sanity check of wait and wait_until_timeout).         *)
(***************************************************************************)
THEOREM NoNotificationIsLost == Spec => []NoLostNotification
<1>1. IInv => NoLostNotification
  <2> SUFFICES ASSUME IInv PROVE NoLostNotification
    OBVIOUS
  <2>0. Types /\ ControlInv /\ CallInv /\ LockInv /\ RecordInv
    BY DEF IInv
  <2>1. ASSUME NEW b \in Box, ~m_locked[b], wait_task[b] # "NoTask"
        PROVE  count[b] = 0 /\ pending_count[b] = 0
    BY <2>0, <2>1, ClaimOfUnlocked DEF RecordInv, RecordOf
  <2>2. ASSUME NEW b \in Box, At(b, "m_wait") PROVE Enterable(b)
    <3>1. Running(b) /\ pc[b] = "m_wait"
      BY <2>2 DEF At
    <3>2. ~m_locked[b] /\ ~InWait(b)
      BY <2>0, <3>1, Entry
    <3> QED
      BY <2>0, <3>2 DEF RecordInv, RecordOf, Enterable
  <2> QED
    BY <2>1, <2>2 DEF NoLostNotification
<1> QED
  BY <1>1, Invariance, PTL

(***************************************************************************)
(* A blocked task belongs to the sleep queue or to its mailbox, to exactly *)
(* one of them, and a task that is not blocked to neither; and no context  *)
(* ever finds a lock taken that it must have.                              *)
(***************************************************************************)
THEOREM OneOwnerAtATime == Spec => []OneOwner
<1>1. IInv => OneOwner
  <2> SUFFICES ASSUME IInv PROVE OneOwner
    OBVIOUS
  <2>0. Types /\ ControlInv /\ RecordInv /\ BlockedInv
    BY DEF IInv
  <2>1. \A c \in Ctx : pc[c] # "hang"
    BY <2>0 DEF ControlInv, ControlOf, SuspendedSteps, MailboxSuspended, Waiting
  <2>2. IsInjective(time_sorted_queue)
    BY <2>0 DEF BlockedInv, Distinct, IsInjective
  <2>3. \A t \in Task : Queued(t) <=> Has(time_sorted_queue, t)
    <3>1. time_sorted_queue \in Seq(Task)
      BY <2>0 DEF Types
    <3> QED
      BY <3>1 DEF Queued, Contains, Has
  <2>4. ASSUME NEW t \in Task, pc[t] \notin {"s_add", "s_insert"}
        PROVE  LET waits == t \in Box /\ wait_task[t] = "WithoutTimeout" IN
               /\ state[t] = "Blocked" <=> (Queued(t) \/ waits)
               /\ ~(Queued(t) /\ waits)
    <3>1. state[t] = "Blocked" <=>
             Has(time_sorted_queue, t) \/ (t \in Box /\ wait_task[t] = "WithoutTimeout")
      BY <2>0, <2>4 DEF BlockedInv, Adding
    <3>2. t \in Box /\ wait_task[t] = "WithoutTimeout" => call[t] = "wait"
      BY <2>0 DEF RecordInv, RecordOf
    <3>3. Has(time_sorted_queue, t) => call[t] = "timeout"
      BY <2>0 DEF BlockedInv
    <3> QED
      BY <2>3, <3>1, <3>2, <3>3
  <2> QED
    BY <2>1, <2>2, <2>3, <2>4 DEF OneOwner
<1> QED
  BY <1>1, Invariance, PTL
-----------------------------------------------------------------------------
(***************************************************************************)
(* The clock: ticks that are compared modulo the range of the counter.     *)
(***************************************************************************)
Clock(n) == (TICKS + n) % Modulus

\* The counter has a range, and an interval is less than half of it.
LEMMA TickRange ==
    /\ Half \in Nat /\ Half >= 1 /\ Modulus \in Nat /\ Modulus = 2 * Half
    /\ Interval \in Nat /\ 1 <= Interval /\ Interval < Half
    /\ Durations \subseteq Nat /\ BootedFor \in Nat
    /\ MaxTicksPerHold \in Nat /\ MaxLag \in Nat /\ MaxLate \in Nat
    /\ 1 <= MaxTicksPerHold /\ MaxTicksPerHold <= MaxLag
    /\ MaxLag + MaxTicksPerHold <= MaxLate
    /\ MaxAhead \in Nat /\ Interval <= MaxAhead /\ MaxAhead + Interval < Half
  BY TickAssumption, DurationAssumption, BoundAssumption DEF Modulus

\* Numbers not far out of the range of the counter.
LEMMA NearWrap ==
    \A x \in Int : -Modulus <= x /\ x < 2 * Modulus =>
        x % Modulus = IF x < 0 THEN x + Modulus ELSE IF x < Modulus THEN x ELSE x - Modulus
<1> SUFFICES ASSUME NEW x \in Int, -Modulus <= x, x < 2 * Modulus
             PROVE  x % Modulus = IF x < 0 THEN x + Modulus
                                  ELSE IF x < Modulus THEN x ELSE x - Modulus
  OBVIOUS
<1>0. Modulus \in Nat \ {0}
  BY TickRange
<1>1. CASE x < 0
  BY <1>0, <1>1
<1>2. CASE x \in 0 .. Modulus - 1
  BY <1>0, <1>2
<1>3. CASE x >= Modulus
  BY <1>0, <1>3
<1> QED
  BY <1>0, <1>1, <1>2, <1>3

\* tick_cmp tells two ticks less than half the range apart in their order.
LEMMA TicksCompare ==
    ASSUME TICKS \in Ticks, NEW x \in Int, NEW y \in Int,
           -Modulus <= x, x < Modulus, -Modulus <= y, y < Modulus,
           x - y < Half, y - x < Half
    PROVE  tick_cmp(Clock(x), Clock(y)) = IF x = y THEN 0 ELSE IF x < y THEN -1 ELSE 1
<1>0. /\ Half \in Nat /\ Half >= 1 /\ Modulus \in Nat /\ Modulus = 2 * Half
      /\ TICKS \in Int /\ 0 <= TICKS /\ TICKS < Modulus
  BY TickRange DEF Ticks
<1> DEFINE p == TICKS + x
           q == TICKS + y
           r == p % Modulus
           s == q % Modulus
<1>a. /\ p \in Int /\ -Modulus <= p /\ p < 2 * Modulus
      /\ q \in Int /\ -Modulus <= q /\ q < 2 * Modulus /\ p - q = x - y
  BY <1>0
<1> HIDE DEF p, q
<1>1. /\ r = IF p < 0 THEN p + Modulus ELSE IF p < Modulus THEN p ELSE p - Modulus
      /\ s = IF q < 0 THEN q + Modulus ELSE IF q < Modulus THEN q ELSE q - Modulus
  BY <1>a, NearWrap
<1> HIDE DEF r, s
<1>2. r \in 0 .. Modulus - 1 /\ s \in 0 .. Modulus - 1
  BY <1>0, <1>a, <1>1
<1> DEFINE d == r - s
<1>3. d \in Int /\ -Modulus <= d /\ d < Modulus
      /\ (d = x - y \/ d = (x - y) + Modulus \/ d = (x - y) - Modulus)
  BY <1>0, <1>a, <1>1, <1>2
<1>4. d % Modulus = IF d < 0 THEN d + Modulus ELSE d
  BY <1>0, <1>3, NearWrap
<1> HIDE DEF d
<1>5. d % Modulus = IF x - y < 0 THEN (x - y) + Modulus ELSE x - y
  BY <1>0, <1>3, <1>4
<1>6. tick_cmp(r, s) = IF d % Modulus = 0 THEN 0 ELSE IF d % Modulus < Half THEN 1 ELSE -1
  BY DEF tick_cmp, d
<1> QED
  BY <1>0, <1>5, <1>6 DEF Clock, p, q, r, s

\* The clock moves on.
LEMMA ClockMoves ==
    ASSUME TICKS \in Ticks, TICKS' = (TICKS + 1) % Modulus
    PROVE  /\ TICKS' \in Ticks
           /\ \A n \in Int : -Modulus < n /\ n < Modulus =>
                 (TICKS' + (n - 1)) % Modulus = Clock(n)
<1>0. /\ Half \in Nat /\ Half >= 1 /\ Modulus \in Nat /\ Modulus = 2 * Half
      /\ TICKS \in Int /\ 0 <= TICKS /\ TICKS < Modulus
  BY TickRange DEF Ticks
<1>1. TICKS' = IF TICKS + 1 < Modulus THEN TICKS + 1 ELSE 0
  BY <1>0, NearWrap
<1>2. ASSUME NEW n \in Int, -Modulus < n, n < Modulus
      PROVE  (TICKS' + (n - 1)) % Modulus = (TICKS + n) % Modulus
  <2> DEFINE p == TICKS' + (n - 1)
             q == TICKS + n
  <2>1. /\ p \in Int /\ q \in Int /\ -Modulus <= p /\ p < 2 * Modulus
        /\ -Modulus <= q /\ q < 2 * Modulus /\ (p = q \/ p = q - Modulus)
    BY <1>0, <1>1, <1>2
  <2>2. /\ p % Modulus = IF p < 0 THEN p + Modulus ELSE IF p < Modulus THEN p ELSE p - Modulus
        /\ q % Modulus = IF q < 0 THEN q + Modulus ELSE IF q < Modulus THEN q ELSE q - Modulus
    BY <2>1, NearWrap
  <2> HIDE DEF p, q
  <2>3. p % Modulus = q % Modulus
    BY <1>0, <2>1, <2>2
  <2> QED
    BY <2>3 DEF p, q
<1>3. TICKS' \in Ticks
  BY <1>0, <1>1 DEF Ticks
<1> QED
  BY <1>2, <1>3 DEF Clock

\* A clock reading is a tick.
LEMMA ClockIsTick ==
    ASSUME TICKS \in Ticks
    PROVE  /\ Clock(0) = TICKS
           /\ \A n \in Int : -Modulus <= n /\ n < Modulus => Clock(n) \in Ticks
<1>0. /\ Modulus \in Nat /\ Modulus >= 1 /\ TICKS \in Int /\ 0 <= TICKS /\ TICKS < Modulus
  BY TickRange DEF Ticks
<1>1. ASSUME NEW n \in Int, -Modulus <= n, n < Modulus PROVE Clock(n) \in Ticks
  <2> DEFINE p == TICKS + n
  <2>1. p \in Int /\ -Modulus <= p /\ p < 2 * Modulus
    BY <1>0, <1>1
  <2>2. p % Modulus = IF p < 0 THEN p + Modulus ELSE IF p < Modulus THEN p ELSE p - Modulus
    BY <2>1, NearWrap
  <2> HIDE DEF p
  <2>3. p % Modulus \in 0 .. Modulus - 1
    BY <1>0, <2>1, <2>2
  <2> QED
    BY <2>3 DEF p, Clock, Ticks
<1>2. Clock(0) = TICKS
  BY <1>0, NearWrap DEF Clock
<1> QED
  BY <1>1, <1>2

\* An expired task is queued, and its wake-up tick is not after the clock.
LEMMA ExpiredTick ==
    ASSUME time_sorted_queue \in Seq(Task), NEW t \in Expired(time_sorted_queue)
    PROVE  t \in Task /\ Has(time_sorted_queue, t) /\ tick_cmp(wake_tick[t], TICKS) # 1
<1>1. t \in Task /\ Has(time_sorted_queue, t)
  BY QueuedTasks
<1>2. PICK i \in DOMAIN time_sorted_queue :
         /\ t = time_sorted_queue[i]
         /\ \A k \in 1 .. i : tick_cmp(wake_tick[time_sorted_queue[k]], TICKS) # 1
  BY DEF Expired
<1>3. i \in Nat /\ i >= 1
  BY Positions
<1> QED
  BY <1>1, <1>2, <1>3

-----------------------------------------------------------------------------
(***************************************************************************)
(* The sleep queue and its clients (SleepSpec): nobody wakes early, except *)
(* for a removal that has outlived its wait.                               *)
(*                                                                         *)
(* SqControl says where contexts can be, and that whoever is being taken   *)
(* out of the queue is in a wait with a timeout; SqOwner which tasks are   *)
(* in the queue; and SqTimes ties the ticks that the code compares to the  *)
(* time that is left: as long as a sleeping task has time left, its        *)
(* wake-up tick is the clock plus that time, modulo the range of the       *)
(* counter.                                                                *)
(***************************************************************************)
\* The steps inside the queue's lock; those of a task on its way into the queue; those
\* from when it has been in the queue, or need not be; and those of a context that
\* takes a task out.
Holding == {"s_insert", "s_take", "s_leave", "s_run", "expire", "drain", "expire_pended",
            "drain_pended", "clear"}
Preparing == {"compare", "block", "s_add", "s_insert"}
Settled == {"s_leave", "s_run", "expire_pended", "drain_pended", "clear", "leave_box",
            "s_remove", "s_take", "yield", "slept"}
Removing == {"home", "s_remove", "s_take", "s_leave", "s_run", "expire_pended",
             "drain_pended", "clear"}
Handling == {"home", "s_wake", "expire", "drain", "s_leave", "s_run", "expire_pended",
             "drain_pended", "clear"}
Suspended == SuspendedSteps \union {"leave_box"}

SqTypes ==
    /\ cur \in Task \union {Idle}
    /\ state \in [Task -> {"Ready", "Running", "Blocked"}]
    /\ pc \in [Ctx -> ClientSteps]
    /\ TICKS \in Ticks
    /\ time_sorted_queue \in Seq(Task) /\ delete_buffer \in Seq(Task)
    /\ time_to_wakeup \in BOOLEAN /\ s_locked \in BOOLEAN /\ s_pending \in BOOLEAN
    /\ wake_tick \in [Task -> Ticks]
    /\ next_tick_to_wake \in [Task -> Ticks \union {NoBarrier}]
    /\ call \in [Task -> {"none", "sleep", "barrier", "timeout"}]
    /\ whom \in [Ctx -> Task \union {Idle}]
    /\ ret \in [Ctx -> ClientSteps]
    /\ held \in 0 .. MaxTicksPerHold
    /\ left \in [Task -> -MaxLate .. Modulus - 1]
    /\ until_barrier \in [Task -> 1 - Half .. Half - 1]
    /\ recorded \in [Task -> BOOLEAN] /\ outlived \in [Task -> BOOLEAN]

\* Where a task is in its call, and where it goes on after the queue.
SqControlOf(t) ==
    /\ call[t] = "none" => pc[t] \in Removing /\ ret[t] = "home"
    /\ call[t] # "none" => pc[t] \in {"bsleep"} \union Preparing \union Settled
    /\ call[t] # "none" /\ pc[t] \in SuspendedSteps =>
          ret[t] = IF call[t] = "timeout" THEN "leave_box" ELSE "yield"
    /\ pc[t] \notin SuspendedSteps => ret[t] = "home"
    /\ call[t] # "none" /\ pc[t] \in {"leave_box", "s_remove", "s_take"} => call[t] = "timeout"
    /\ pc[t] \in {"bsleep", "compare", "block"} => call[t] \in {"sleep", "barrier"}
    /\ pc[t] = "bsleep" => call[t] = "barrier"
    /\ call[t] = "barrier" => next_tick_to_wake[t] # NoBarrier
    /\ recorded[t] => call[t] = "timeout" /\ pc[t] \in Settled \union {"s_add", "s_insert"}
    /\ pc[t] \in Suspended => t = cur

SqHandlerOf(e) ==
    /\ ret[e] = "home"
    /\ pc[e] \in IF e = SysTick THEN Handling ELSE Removing \union {"die"}

\* Whoever takes a task out of the queue, the task is in a wait with a timeout.
SqRemoverOf(c) ==
    pc[c] \in {"s_remove", "s_take"} => whom[c] \in Task /\ call[whom[c]] = "timeout"

\* The lock has one holder.
SqLock ==
    /\ s_locked <=> \E c \in Ctx : pc[c] \in Holding
    /\ \A c, d \in Ctx : pc[c] \in Holding /\ pc[d] \in Holding => c = d

SqControl ==
    /\ \A t \in Task : SqControlOf(t)
    /\ \A e \in Irq : SqHandlerOf(e)
    /\ \A c \in Ctx : SqRemoverOf(c)
    /\ SqLock

\* A task is blocked exactly while it is in the queue or on its way into it.  A removal
\* that meets a sleep was there before it.
SqOwnerOf(t) ==
    /\ Adding(t) => state[t] = "Blocked" /\ ~Has(time_sorted_queue, t)
    /\ ~Adding(t) => (state[t] = "Blocked" <=> Has(time_sorted_queue, t))
    /\ ~Adding(t) /\ state[t] = "Blocked" => call[t] # "none" /\ pc[t] \in Settled
    /\ pc[t] = "slept" /\ t = cur => state[t] # "Blocked"
    /\ call[t] \in {"sleep", "barrier"} /\ state[t] = "Blocked" /\ Has(delete_buffer, t) => outlived[t]

SqOwner == Distinct(time_sorted_queue) /\ \A t \in Task : SqOwnerOf(t)

Asleep(t) == pc[t] \in {"compare", "block"} \/ state[t] = "Blocked"

SqTimesOf(t) ==
    /\ Asleep(t) /\ call[t] # "timeout" => left[t] < Half /\ (left[t] > 0 => wake_tick[t] = Clock(left[t]))
    /\ next_tick_to_wake[t] # NoBarrier => next_tick_to_wake[t] = Clock(until_barrier[t])
    /\ call[t] = "barrier" => until_barrier[t] <= MaxAhead
    /\ pc[t] = "bsleep" => until_barrier[t] <= wake_tick[t] /\ wake_tick[t] \in 1 .. MaxAhead
    /\ Asleep(t) /\ call[t] = "barrier" => until_barrier[t] <= 0 \/ until_barrier[t] <= left[t]
    /\ pc[t] \in Settled /\ state[t] # "Blocked" =>
          /\ call[t] = "sleep" => left[t] <= 0 \/ outlived[t]
          /\ call[t] = "barrier" => until_barrier[t] <= 0 \/ outlived[t]

SqTimes == \A t \in Task : SqTimesOf(t)

SqInv == SqTypes /\ SqControl /\ SqOwner /\ SqTimes

-----------------------------------------------------------------------------
\* Tasks, interrupts and the idle task are different, and SysTick takes nobody out.
LEMMA SqContexts ==
    /\ Task \subseteq Ctx /\ Irq \subseteq Ctx /\ Irq \subseteq Int
    /\ \A t \in Task : t \notin Irq /\ t # SysTick
    /\ \A c \in Ctx : (c \in Task \/ c \in Irq) /\ c # Idle
    /\ SysTick \in Irq /\ SysTick \in Ctx /\ SysTick \notin Task /\ Idle \notin Task
    /\ \A c \in Remover : c \in Ctx /\ c # SysTick
<1>1. Irq \subseteq Nat
  BY IrqAssumption DEF Irq
<1>2. /\ Idle \notin Task /\ Idle \notin Nat /\ \A t \in Task : t \notin Nat
  BY TaskAssumption
<1>3. Task \subseteq Ctx /\ Irq \subseteq Ctx /\ \A c \in Ctx : c \in Task \/ c \in Irq
  BY DEF Ctx
<1>4. SysTick \in Irq
  BY SysTickAssumption
<1>5. \A c \in Remover : c \in Ctx /\ c # SysTick
  BY RemoverAssumption
<1> QED
  BY <1>1, <1>2, <1>3, <1>4, <1>5

\* The steps that the actions name are steps.
LEMMA SqStepNames ==
    /\ Holding \subseteq ClientSteps /\ Preparing \subseteq ClientSteps
    /\ Settled \subseteq ClientSteps /\ Holding \subseteq SuspendedSteps
    /\ {"home", "bsleep", "hang", "s_wake", "s_add", "die", "leave_box", "yield"} \subseteq ClientSteps
  BY DEF ClientSteps, SleepSteps, SuspendedSteps, Holding, Preparing, Settled

-----------------------------------------------------------------------------
(***************************************************************************)
(* Where contexts are.                                                     *)
(***************************************************************************)
\* A step that context c takes inside the queue or at its lock, ...
Inside(c) == SleepStep(c) \/ remove_guard(c) \/ remove_full(c)

\* ... from one step inside the lock to another, ...
SqWithin(p, s) ==
    \/ p \in {"s_insert", "s_take", "clear", "drain", "s_run"} /\ s = "s_leave"
    \/ p = "s_leave" /\ s = "s_run"
    \/ p = "s_run" /\ s = "expire_pended"
    \/ p = "expire" /\ s = "drain"
    \/ p = "expire_pended" /\ s = "drain_pended"
    \/ p = "drain_pended" /\ s = "clear"

SqStays(c, s) == SqWithin(pc[c], s) /\ UNCHANGED <<s_locked, held, ret>>

\* ... out of the lock, ...
SqLeaves(c, s) ==
    /\ pc[c] = "s_leave" /\ s = ret[c] /\ ~s_pending
    /\ s_locked' = FALSE /\ held' = 0 /\ ret' = [ret EXCEPT ![c] = "home"]

\* ... into it, ...
SqEnters(c, s) ==
    /\ ~s_locked /\ s_locked' = TRUE /\ held' = 0 /\ UNCHANGED ret
    /\ \/ c \in Task /\ pc[c] = "s_add" /\ s = "s_insert"
       \/ pc[c] = "s_remove" /\ s = "s_take"
       \/ c = SysTick /\ pc[c] = "s_wake" /\ s = "expire"

\* ... or not into it, because it is locked.
SqPends(c, s) ==
    /\ s_locked /\ UNCHANGED <<s_locked, held>>
    /\ \/ pc[c] = "s_remove" /\ s = ret[c] /\ ret' = [ret EXCEPT ![c] = "home"]
       \/ pc[c] = "s_remove" /\ s = "die" /\ ret' = ret
       \/ c = SysTick /\ pc[c] = "s_wake" /\ s = "home" /\ ret' = ret

SqPasses(c, s) ==
    /\ Running(c) /\ pc' = [pc EXCEPT ![c] = s]
    /\ SqStays(c, s) \/ SqLeaves(c, s) \/ SqEnters(c, s) \/ SqPends(c, s)

\* While a task runs no interrupt is active and no other task has the scheduler
\* suspended, so the queue is locked by nobody else.
LEMMA SqAlone ==
    ASSUME SqTypes, SqControl, NEW t \in Task, Running(t)
    PROVE  /\ t = cur /\ \A e \in Irq : pc[e] = "home"
           /\ \A d \in Ctx : d # t => pc[d] \notin Suspended
           /\ s_locked <=> pc[t] \in Holding
<1>1. t = cur /\ \A e \in Irq : pc[e] = "home"
  BY SqContexts DEF Running, ThreadMode
<1>2. "home" \notin Suspended /\ Holding \subseteq Suspended
  BY DEF Suspended, SuspendedSteps, Holding
<1>3. ASSUME NEW d \in Ctx, d # t PROVE pc[d] \notin Suspended
  <2>1. CASE d \in Task
    BY <1>1, <1>3, <2>1 DEF SqControl, SqControlOf
  <2>2. CASE d \in Irq
    BY <1>1, <1>2, <2>2
  <2> QED
    BY <2>1, <2>2, SqContexts
<1>4. s_locked <=> pc[t] \in Holding
  BY <1>2, <1>3, SqContexts DEF SqControl, SqLock
<1> QED
  BY <1>1, <1>3, <1>4

\* A step inside the queue changes the queue and the control of the context only.
LEMMA SqQueueStep ==
    ASSUME SqTypes, SqControl, NEW c \in Ctx, Inside(c)
    PROVE  /\ \E s : SqPasses(c, s)
           /\ UNCHANGED <<cur, TICKS, wake_tick, next_tick_to_wake, until_barrier, call, whom, left>>
<1>1. UNCHANGED <<cur, TICKS, wake_tick, next_tick_to_wake, until_barrier, call, whom, left>>
  BY DEF Inside, SleepStep, s_leave, run_pended_op, wake_expired_tasks, drain_delete_buffer,
     clear_time_to_wakeup, wake_sleeping_tasks, add_guard, add_insert, remove_guard, remove_full,
     barriers
<1>2. CASE s_leave(c)
  <2>1. CASE s_pending
    <3>1. SqPasses(c, "s_run")
      BY <1>2, <2>1 DEF s_leave, At, Goto, SqPasses, SqStays, SqWithin
    <3> QED
      BY <1>1, <3>1
  <2>2. CASE ~s_pending
    <3>1. SqPasses(c, ret[c])
      BY <1>2, <2>2 DEF s_leave, At, Goto, SqPasses, SqLeaves
    <3> QED
      BY <1>1, <3>1
  <2> QED
    BY <2>1, <2>2
<1>3. CASE run_pended_op(c) \/ clear_time_to_wakeup(c) \/ remove_full(c) \/ (c \in Task /\ add_insert(c))
  <2>1. UNCHANGED <<s_locked, held, ret>> /\ Running(c)
    BY <1>3 DEF run_pended_op, clear_time_to_wakeup, remove_full, add_insert, squeue, At
  <2>2. \/ pc[c] \in {"s_run", "clear", "s_take", "s_insert"} /\ Goto(c, "s_leave")
        \/ pc[c] = "s_run" /\ Goto(c, "expire_pended")
    BY <1>3 DEF run_pended_op, clear_time_to_wakeup, remove_full, add_insert, At
  <2>3. SqPasses(c, "s_leave") \/ SqPasses(c, "expire_pended")
    BY <2>1, <2>2 DEF SqPasses, SqStays, SqWithin, Goto
  <2> QED
    BY <1>1, <2>3
<1>4. CASE wake_expired_tasks(c) \/ drain_delete_buffer(c)
  <2>1. UNCHANGED <<s_locked, held, ret>> /\ Running(c)
    BY <1>4 DEF wake_expired_tasks, drain_delete_buffer, At
  <2>2. \/ pc[c] = "expire" /\ Goto(c, "drain")
        \/ pc[c] = "expire_pended" /\ Goto(c, "drain_pended")
        \/ pc[c] = "drain" /\ Goto(c, "s_leave")
        \/ pc[c] = "drain_pended" /\ Goto(c, "clear")
    BY <1>4 DEF wake_expired_tasks, drain_delete_buffer, At
  <2>3. \E s : SqPasses(c, s)
    BY <2>1, <2>2 DEF SqPasses, SqStays, SqWithin, Goto
  <2> QED
    BY <1>1, <2>3
<1>5. CASE c = SysTick /\ wake_sleeping_tasks
  <2>1. SqPasses(c, "home") \/ SqPasses(c, "expire")
    BY <1>5 DEF wake_sleeping_tasks, At, Goto, Lock, SqPasses, SqEnters, SqPends, SqTypes
  <2> QED
    BY <1>1, <2>1
<1>6. CASE c \in Task /\ add_guard(c)
  <2>1. Running(c) /\ pc[c] = "s_add"
    BY <1>6 DEF add_guard, At
  <2>2. ~s_locked
    BY <1>6, <2>1, SqAlone DEF Holding
  <2>3. SqPasses(c, "s_insert")
    BY <1>6, <2>1, <2>2 DEF add_guard, Goto, Lock, SqPasses, SqEnters
  <2> QED
    BY <1>1, <2>3
<1>7. CASE remove_guard(c)
  <2>1. SqPasses(c, "s_take") \/ SqPasses(c, ret[c]) \/ SqPasses(c, "die")
    BY <1>7 DEF remove_guard, At, Goto, Lock, SqPasses, SqEnters, SqPends, SqTypes
  <2> QED
    BY <1>1, <2>1
<1> QED
  BY <1>2, <1>3, <1>4, <1>5, <1>6, <1>7 DEF Inside, SleepStep

\* The lock has one holder: a step that stays on its side of the lock, enters it while
\* it is free, or leaves it.
LEMMA SqLockStep ==
    ASSUME SqTypes, SqLock, NEW c \in Ctx, NEW s, pc' = [pc EXCEPT ![c] = s],
           \/ (s \in Holding <=> pc[c] \in Holding) /\ s_locked' = s_locked
           \/ ~s_locked /\ s_locked' /\ s \in Holding
           \/ pc[c] \in Holding /\ s \notin Holding /\ ~s_locked'
    PROVE  SqLock'
<1>1. pc'[c] = s /\ \A d \in Ctx : d # c => pc'[d] = pc[d]
  BY DEF SqTypes
<1>2. /\ s_locked <=> \E d \in Ctx : pc[d] \in Holding
      /\ \A d, e \in Ctx : pc[d] \in Holding /\ pc[e] \in Holding => d = e
  BY DEF SqLock
<1>3. s_locked' <=> \E d \in Ctx : pc'[d] \in Holding
  BY <1>1, <1>2
<1>4. \A d, e \in Ctx : pc'[d] \in Holding /\ pc'[e] \in Holding => d = e
  BY <1>1, <1>2
<1> QED
  BY <1>3, <1>4 DEF SqLock

\* What a context's own control depends on.
SqSameControl(d) ==
    /\ pc'[d] = pc[d] /\ ret'[d] = ret[d]
    /\ d \in Task => /\ call'[d] = call[d] /\ next_tick_to_wake'[d] = next_tick_to_wake[d]
                     /\ recorded'[d] => recorded[d]

\* A step of context c that leaves the others alone and the current task on the CPU.
LEMMA SqControlFrame ==
    ASSUME SqTypes, SqControl, NEW c \in Ctx, cur' = cur,
           \A d \in Ctx : d # c => SqSameControl(d),
           c \in Task => SqControlOf(c)',
           c \in Irq => SqHandlerOf(c)',
           \A d \in Ctx : SqRemoverOf(d)',
           SqLock'
    PROVE  SqControl'
<1>1. ASSUME NEW t \in Task PROVE SqControlOf(t)'
  <2>1. CASE t = c
    BY <2>1
  <2>2. CASE t # c
    <3>1. SqControlOf(t) /\ SqSameControl(t)
      BY <2>2, SqContexts DEF SqControl
    <3> QED
      BY <3>1 DEF SqControlOf, SqSameControl
  <2> QED
    BY <2>1, <2>2
<1>2. ASSUME NEW e \in Irq PROVE SqHandlerOf(e)'
  <2>1. CASE e = c
    BY <2>1
  <2>2. CASE e # c
    <3>1. SqHandlerOf(e) /\ SqSameControl(e)
      BY <2>2, SqContexts DEF SqControl
    <3> QED
      BY <3>1 DEF SqHandlerOf, SqSameControl
  <2> QED
    BY <2>1, <2>2
<1> QED
  BY <1>1, <1>2 DEF SqControl

\* Steps inside the queue.
LEMMA SqQueueControl ==
    ASSUME SqTypes, SqControl, NEW c \in Ctx, Inside(c), UNCHANGED clients
    PROVE  SqControl'
<1>1. PICK s : SqPasses(c, s)
  BY SqQueueStep
<1>2. UNCHANGED <<cur, call, whom, next_tick_to_wake, recorded>>
  BY SqQueueStep DEF clients
<1>3. /\ Running(c) /\ pc'[c] = s /\ pc' = [pc EXCEPT ![c] = s]
      /\ \A d \in Ctx : d # c => pc'[d] = pc[d] /\ ret'[d] = ret[d]
      /\ ret'[c] = ret[c] \/ ret'[c] = "home"
  BY <1>1 DEF SqPasses, SqStays, SqLeaves, SqEnters, SqPends, SqTypes
<1>4. \A d \in Ctx : d # c => SqSameControl(d)
  BY <1>2, <1>3 DEF SqSameControl
<1>5. ret[c] \in {"home", "leave_box", "yield"}
  <2>1. CASE c \in Task
    <3>1. SqControlOf(c) /\ call[c] \in {"none", "sleep", "barrier", "timeout"}
      BY <2>1 DEF SqControl, SqTypes
    <3>2. pc[c] \in SuspendedSteps \/ pc[c] \notin SuspendedSteps
      OBVIOUS
    <3> QED
      BY <3>1, <3>2 DEF SqControlOf
  <2>2. CASE c \in Irq
    BY <2>2 DEF SqControl, SqHandlerOf
  <2> QED
    BY <2>1, <2>2, SqContexts
<1>6. CASE c \in Task
  <2>1. SqControlOf(c) /\ c = cur /\ (s_locked <=> pc[c] \in Holding) /\ c # SysTick
    BY <1>3, <1>6, SqAlone, SqContexts DEF SqControl
  <2>2. call[c] \in {"none", "sleep", "barrier", "timeout"}
    BY <1>6 DEF SqTypes
  <2>3. \/ /\ SqWithin(pc[c], s) /\ ret'[c] = ret[c]
        \/ pc[c] = "s_leave" /\ s = ret[c] /\ ret'[c] = "home"
        \/ pc[c] = "s_add" /\ s = "s_insert" /\ ret'[c] = ret[c]
        \/ pc[c] = "s_remove" /\ s = "s_take" /\ ret'[c] = ret[c]
    BY <1>1, <1>3, <1>6, <2>1 DEF SqPasses, SqStays, SqLeaves, SqEnters, SqPends, Holding, SqTypes
  <2>4. pc[c] \in SuspendedSteps
    BY <2>3 DEF SqWithin, SuspendedSteps
  <2>5. /\ call[c] = "none" => pc[c] \in Removing /\ ret[c] = "home"
        /\ call[c] # "none" => /\ pc[c] \in {"bsleep"} \union Preparing \union Settled
                               /\ ret[c] = IF call[c] = "timeout" THEN "leave_box" ELSE "yield"
        /\ call[c] # "none" /\ pc[c] \in {"leave_box", "s_remove", "s_take"} => call[c] = "timeout"
        /\ call[c] = "barrier" => next_tick_to_wake[c] # NoBarrier
        /\ recorded[c] => call[c] = "timeout"
    BY <2>1, <2>4 DEF SqControlOf
  <2>6. ASSUME call[c] = "none" PROVE SqControlOf(c)'
    <3>1. s \in Removing /\ ret'[c] = "home" /\ ~recorded[c] /\ s \notin {"bsleep", "compare", "block"}
      BY <2>3, <2>5, <2>6 DEF SqWithin, Removing
    <3> QED
      BY <1>2, <1>3, <1>6, <2>1, <2>6, <3>1 DEF SqControlOf
  <2>7. ASSUME call[c] # "none" PROVE SqControlOf(c)'
    <3>1. s \in Settled \union {"s_insert"} /\ s \notin {"bsleep", "compare", "block"}
      BY <2>2, <2>3, <2>5, <2>7 DEF SqWithin, Preparing, Settled
    <3>2. IF s \in SuspendedSteps THEN ret'[c] = ret[c] ELSE ret'[c] = "home"
      BY <2>2, <2>3, <2>5, <2>7 DEF SqWithin, SuspendedSteps
    <3>3. s \in {"leave_box", "s_remove", "s_take"} => call[c] = "timeout"
      BY <2>2, <2>3, <2>5, <2>7 DEF SqWithin
    <3>4. "s_insert" \in Preparing
      BY DEF Preparing
    <3> QED
      BY <1>2, <1>3, <1>6, <2>1, <2>5, <2>7, <3>1, <3>2, <3>3, <3>4 DEF SqControlOf
  <2>8. SqControlOf(c)'
    BY <2>6, <2>7
  <2>9. SqLock'
    <3>1. \/ (s \in Holding <=> pc[c] \in Holding) /\ s_locked' = s_locked
          \/ ~s_locked /\ s_locked' /\ s \in Holding
          \/ pc[c] \in Holding /\ s \notin Holding /\ ~s_locked'
      BY <1>1, <1>5, <2>1 DEF SqPasses, SqStays, SqWithin, SqLeaves, SqEnters, SqPends, Holding
    <3> QED
      BY <1>3, <3>1, SqLockStep DEF SqControl
  <2>10. SqRemoverOf(c)'
    <3>1. s \in {"s_remove", "s_take"} => pc[c] = "s_remove"
      BY <1>5, <2>3 DEF SqWithin
    <3> QED
      BY <1>2, <1>3, <3>1 DEF SqRemoverOf, SqControl
  <2>11. \A d \in Ctx : SqRemoverOf(d)'
    BY <1>2, <1>3, <2>10 DEF SqRemoverOf, SqControl
  <2> QED
    BY <1>2, <1>4, <1>6, <2>8, <2>9, <2>11, SqContexts, SqControlFrame
<1>7. CASE c \in Irq
  <2>1. SqHandlerOf(c) /\ c \notin Task
    BY <1>7, SqContexts DEF SqControl
  <2>2. ret'[c] = "home" /\ ret[c] = "home"
    BY <1>3, <2>1 DEF SqHandlerOf
  <2>3. pc[c] \in IF c = SysTick THEN Handling ELSE Removing \union {"die"}
    BY <2>1 DEF SqHandlerOf
  <2>4. SqHandlerOf(c)'
    <3>1. s \in IF c = SysTick THEN Handling ELSE Removing \union {"die"}
      BY <1>1, <2>1, <2>2, <2>3 DEF SqPasses, SqStays, SqWithin, SqLeaves, SqEnters, SqPends,
         Handling, Removing
    <3> QED
      BY <1>3, <2>2, <3>1 DEF SqHandlerOf
  <2>5. SqLock'
    <3>1. \/ (s \in Holding <=> pc[c] \in Holding) /\ s_locked' = s_locked
          \/ ~s_locked /\ s_locked' /\ s \in Holding
          \/ pc[c] \in Holding /\ s \notin Holding /\ ~s_locked'
      BY <1>1, <2>1, <2>2 DEF SqPasses, SqStays, SqWithin, SqLeaves, SqEnters, SqPends, Holding
    <3> QED
      BY <1>3, <3>1, SqLockStep DEF SqControl
  <2>6. SqRemoverOf(c)'
    <3>1. s \in {"s_remove", "s_take"} => pc[c] = "s_remove"
      BY <1>1, <2>2 DEF SqPasses, SqStays, SqWithin, SqLeaves, SqEnters, SqPends
    <3> QED
      BY <1>2, <1>3, <3>1 DEF SqRemoverOf, SqControl
  <2>7. \A d \in Ctx : SqRemoverOf(d)'
    BY <1>2, <1>3, <2>6 DEF SqRemoverOf, SqControl
  <2> QED
    BY <1>2, <1>4, <2>1, <2>4, <2>5, <2>7, SqControlFrame
<1> QED
  BY <1>6, <1>7, SqContexts

\* The clock enters the handler.
LEMMA SqTickControl ==
    ASSUME SqTypes, SqControl, advance_tick, UNCHANGED clients
    PROVE  SqControl'
<1>1. /\ pc[SysTick] = "home" /\ pc' = [pc EXCEPT ![SysTick] = "s_wake"]
      /\ UNCHANGED <<cur, call, next_tick_to_wake, ret, whom, s_locked, recorded>>
  BY SqContexts DEF advance_tick, Arrives, Goto, squeue, clients
<1>2. pc'[SysTick] = "s_wake" /\ \A d \in Ctx : d # SysTick => pc'[d] = pc[d]
  BY <1>1, SqContexts DEF SqTypes
<1>3. SqHandlerOf(SysTick)'
  BY <1>1, <1>2, SqContexts DEF SqControl, SqHandlerOf, Handling
<1>4. SqLock'
  <2>1. "s_wake" \notin Holding /\ pc[SysTick] \notin Holding
    BY <1>1 DEF Holding
  <2> QED
    BY <1>1, <2>1, SqContexts, SqLockStep DEF SqControl
<1>5. \A d \in Ctx : SqRemoverOf(d)'
  BY <1>1, <1>2 DEF SqControl, SqRemoverOf
<1>6. \A d \in Ctx : d # SysTick => SqSameControl(d)
  BY <1>1, <1>2 DEF SqSameControl
<1> QED
  BY <1>1, <1>3, <1>4, <1>5, <1>6, SqContexts, SqControlFrame

\* What a task's own data are; the step of another context leaves them alone.
SqSame(u) ==
    /\ state'[u] = state[u] /\ call'[u] = call[u] /\ left'[u] = left[u] /\ wake_tick'[u] = wake_tick[u]
    /\ next_tick_to_wake'[u] = next_tick_to_wake[u] /\ until_barrier'[u] = until_barrier[u]
    /\ recorded'[u] = recorded[u] /\ outlived'[u] = outlived[u]

SqOthers(c) ==
    /\ \A d \in Ctx : d # c => pc'[d] = pc[d] /\ ret'[d] = ret[d] /\ whom'[d] = whom[d]
    /\ \A u \in Task : u # c => SqSame(u)

\* Where a task goes in its call.
SqGoes(t, p, s, k, r) ==
    /\ pc[t] = p /\ pc' = [pc EXCEPT ![t] = s] /\ call'[t] = k /\ ret'[t] = r

\* The steps of a task outside the queue.
LEMMA SqClientStep ==
    ASSUME SqTypes, NEW t \in Task, ClientStep(t)
    PROVE  /\ Running(t) /\ SqOthers(t)
           /\ UNCHANGED <<cur, TICKS, time_sorted_queue, delete_buffer, time_to_wakeup, s_locked,
                          s_pending, held>>
<1>0. t \in Ctx
  BY SqContexts
<1>1. CASE (SleepCall(t) \/ barrier_sleep(t) \/ sleep_compare(t)) /\ UNCHANGED clients
  BY <1>0, <1>1 DEF SleepCall, sleep_ms, barrier_new, barrier_wait, barrier_sleep, sleep_compare,
     BeginSleep, At, Goto, squeue, barriers, clients, SqOthers, SqSame, SqTypes
<1>2. CASE \E ms \in Durations : timed_wait(t, ms)
  BY <1>0, <1>2 DEF timed_wait, At, Goto, squeue, barriers, SqOthers, SqSame, SqTypes
<1>3. CASE block(t) \/ leave_box(t)
  BY <1>0, <1>3 DEF block, sleep_block, leave_box, At, Goto, squeue, barriers, SqOthers, SqSame, SqTypes
<1>4. CASE return(t)
  BY <1>0, <1>4 DEF return, sleep_return, At, Goto, squeue, barriers, SqOthers, SqSame, SqTypes
<1> QED
  BY <1>1, <1>2, <1>3, <1>4 DEF ClientStep

\* Where they go.
SqWays(t) ==
    \/ /\ SqGoes(t, "home", "compare", "sleep", ret[t]) /\ recorded'[t] = recorded[t]
    \/ /\ SqGoes(t, "home", "home", call[t], ret[t]) /\ recorded'[t] = recorded[t]
    \/ /\ SqGoes(t, "home", "bsleep", "barrier", ret[t]) \/ SqGoes(t, "home", "slept", "barrier", ret[t])
       /\ recorded'[t] = recorded[t] /\ next_tick_to_wake'[t] = next_tick_to_wake[t]
       /\ next_tick_to_wake[t] # NoBarrier
    \/ /\ \/ SqGoes(t, "bsleep", "compare", "barrier", ret[t])
          \/ SqGoes(t, "compare", "block", call[t], ret[t]) \/ SqGoes(t, "compare", "slept", call[t], ret[t])
          \/ SqGoes(t, "block", "s_add", call[t], "yield")
          \/ SqGoes(t, "leave_box", "yield", call[t], ret[t])
       /\ recorded'[t] = recorded[t] /\ next_tick_to_wake'[t] = next_tick_to_wake[t]
    \/ SqGoes(t, "home", "s_add", "timeout", "leave_box")
    \/ /\ SqGoes(t, "leave_box", "s_remove", call[t], "leave_box")
       /\ whom'[t] = t /\ recorded'[t] = FALSE /\ next_tick_to_wake'[t] = next_tick_to_wake[t]
    \/ SqGoes(t, "slept", "home", "none", ret[t]) /\ recorded'[t] = FALSE

LEMMA SqClientWays ==
    ASSUME SqTypes, NEW t \in Task, ClientStep(t)
    PROVE  SqWays(t)
<1>0. t \in Ctx
  BY SqContexts
<1>1. CASE /\ \/ \E ms \in Durations : sleep_ms(t, ms)
              \/ barrier_new(t)
           /\ UNCHANGED clients
  BY <1>0, <1>1 DEF sleep_ms, barrier_new, BeginSleep, At, Goto, clients, SqWays, SqGoes, SqTypes
<1>2. CASE barrier_wait(t) /\ UNCHANGED clients
  BY <1>0, <1>2 DEF barrier_wait, At, Goto, barriers, clients, SqWays, SqGoes, SqTypes
<1>3. CASE (barrier_sleep(t) \/ sleep_compare(t)) /\ UNCHANGED clients
  BY <1>0, <1>3 DEF barrier_sleep, sleep_compare, BeginSleep, At, Goto, barriers, clients, SqWays,
     SqGoes, SqTypes
<1>4. CASE \E ms \in Durations : timed_wait(t, ms)
  BY <1>0, <1>4 DEF timed_wait, At, Goto, barriers, SqWays, SqGoes, SqTypes
<1>5. CASE block(t)
  BY <1>0, <1>5 DEF block, sleep_block, At, Goto, barriers, SqWays, SqGoes, SqTypes
<1>6. CASE leave_box(t)
  BY <1>0, <1>6 DEF leave_box, At, Goto, barriers, SqWays, SqGoes, SqTypes
<1>7. CASE return(t)
  BY <1>0, <1>7 DEF return, sleep_return, At, Goto, SqWays, SqGoes, SqTypes
<1> QED
  BY <1>1, <1>2, <1>3, <1>4, <1>5, <1>6, <1>7 DEF ClientStep, SleepCall

LEMMA SqClientControl ==
    ASSUME SqTypes, SqControl, NEW t \in Task, ClientStep(t)
    PROVE  SqControl'
<1>0. /\ t \in Ctx /\ t \notin Irq /\ SqControlOf(t) /\ Running(t) /\ SqOthers(t)
      /\ UNCHANGED <<cur, s_locked>> /\ SqWays(t)
  BY SqContexts, SqClientStep, SqClientWays DEF SqControl
<1>1. /\ t = cur /\ \A d \in Ctx : d # t => pc[d] \notin Suspended
      /\ s_locked <=> pc[t] \in Holding
  BY <1>0, SqAlone
<1>2. PICK s : pc' = [pc EXCEPT ![t] = s]
  BY <1>0 DEF SqWays, SqGoes
<1>3. pc'[t] = s /\ cur' = cur
  BY <1>0, <1>2 DEF SqTypes
<1>4. /\ pc[t] = "home" => call[t] = "none"
      /\ pc[t] = "leave_box" => call[t] = "timeout"
      /\ pc[t] \notin SuspendedSteps => ret[t] = "home"
      /\ pc[t] \in {"compare", "block"} => call[t] \in {"sleep", "barrier"}
      /\ call[t] = "barrier" => next_tick_to_wake[t] # NoBarrier
      /\ recorded[t] => call[t] = "timeout"
  BY <1>0 DEF SqControlOf, Preparing, Settled, Removing
<1>5. SqControlOf(t)'
  <2>0. /\ t = cur' /\ pc'[t] = s /\ (pc[t] \in {"home", "slept", "leave_box", "bsleep", "compare", "block"} => ret[t] = "home")
    BY <1>1, <1>3, <1>4 DEF SuspendedSteps
  <2> USE DEF SqControlOf, Suspended, SuspendedSteps
  <2>1. CASE /\ SqGoes(t, "home", "compare", "sleep", ret[t]) /\ recorded'[t] = recorded[t]
    <3>1. pc'[t] = "compare" /\ call'[t] = "sleep" /\ ret'[t] = "home" /\ ~recorded'[t]
      BY <1>0, <1>4, <2>0, <2>1 DEF SqGoes, SqTypes
    <3> QED
      BY <2>0, <3>1 DEF Preparing
  <2>2. CASE /\ SqGoes(t, "home", "home", call[t], ret[t]) /\ recorded'[t] = recorded[t]
    <3>1. pc'[t] = "home" /\ call'[t] = "none" /\ ret'[t] = "home" /\ ~recorded'[t]
      BY <1>0, <1>4, <2>0, <2>2 DEF SqGoes, SqTypes
    <3> QED
      BY <2>0, <3>1 DEF Removing
  <2>3. CASE /\ SqGoes(t, "home", "bsleep", "barrier", ret[t]) \/ SqGoes(t, "home", "slept", "barrier", ret[t])
             /\ recorded'[t] = recorded[t] /\ next_tick_to_wake'[t] = next_tick_to_wake[t]
             /\ next_tick_to_wake[t] # NoBarrier
    <3>1. /\ pc'[t] \in {"bsleep", "slept"} /\ call'[t] = "barrier" /\ ret'[t] = "home" /\ ~recorded'[t]
          /\ next_tick_to_wake'[t] # NoBarrier
      BY <1>0, <1>4, <2>0, <2>3 DEF SqGoes, SqTypes
    <3> QED
      BY <2>0, <3>1 DEF Settled
  <2>4. CASE /\ \/ SqGoes(t, "bsleep", "compare", "barrier", ret[t])
                \/ SqGoes(t, "compare", "block", call[t], ret[t]) \/ SqGoes(t, "compare", "slept", call[t], ret[t])
             /\ recorded'[t] = recorded[t] /\ next_tick_to_wake'[t] = next_tick_to_wake[t]
    <3>1. /\ pc'[t] \in {"compare", "block", "slept"} /\ call'[t] = call[t] /\ call[t] \in {"sleep", "barrier"}
          /\ ret'[t] = "home" /\ ~recorded'[t] /\ (call[t] = "barrier" => next_tick_to_wake'[t] # NoBarrier)
      <4>1. pc[t] = "bsleep" => call[t] = "barrier"
        BY <1>0
      <4> QED
        BY <1>0, <1>4, <2>0, <2>4, <4>1 DEF SqGoes, SqTypes
    <3> QED
      BY <2>0, <3>1 DEF Preparing, Settled
  <2>5. CASE SqGoes(t, "block", "s_add", call[t], "yield") /\ recorded'[t] = recorded[t]
             /\ next_tick_to_wake'[t] = next_tick_to_wake[t]
    <3>1. /\ pc'[t] = "s_add" /\ call'[t] = call[t] /\ call[t] \in {"sleep", "barrier"} /\ ret'[t] = "yield"
          /\ ~recorded'[t] /\ (call[t] = "barrier" => next_tick_to_wake'[t] # NoBarrier)
      BY <1>0, <1>4, <2>0, <2>5 DEF SqGoes, SqTypes
    <3> QED
      BY <2>0, <3>1 DEF Preparing
  <2>6. CASE \/ SqGoes(t, "leave_box", "yield", call[t], ret[t])
             \/ SqGoes(t, "leave_box", "s_remove", call[t], "leave_box")
    <3>1. call'[t] = "timeout" /\ (\/ pc'[t] = "yield" /\ ret'[t] = "home"
                                   \/ pc'[t] = "s_remove" /\ ret'[t] = "leave_box")
      BY <1>0, <1>4, <2>0, <2>6 DEF SqGoes, SqTypes
    <3> QED
      BY <2>0, <3>1 DEF Settled
  <2>7. CASE SqGoes(t, "home", "s_add", "timeout", "leave_box")
    <3>1. pc'[t] = "s_add" /\ call'[t] = "timeout" /\ ret'[t] = "leave_box"
      BY <1>0, <2>0, <2>7 DEF SqGoes, SqTypes
    <3> QED
      BY <2>0, <3>1 DEF Preparing
  <2>8. CASE SqGoes(t, "slept", "home", "none", ret[t]) /\ recorded'[t] = FALSE
    <3>1. pc'[t] = "home" /\ call'[t] = "none" /\ ret'[t] = "home" /\ ~recorded'[t]
      BY <1>0, <2>0, <2>8 DEF SqGoes, SqTypes
    <3> QED
      BY <2>0, <3>1 DEF Removing
  <2> HIDE DEF SqControlOf, Suspended, SuspendedSteps
  <2> QED
    BY <1>0, <2>1, <2>2, <2>3, <2>4, <2>5, <2>6, <2>7, <2>8 DEF SqWays
<1>6. SqLock'
  <2>1. s \notin Holding /\ pc[t] \notin Holding
    BY <1>0, <1>2, <1>3 DEF SqWays, SqGoes, Holding
  <2> QED
    BY <1>0, <1>2, <2>1, SqLockStep DEF SqControl
<1>7. ASSUME NEW d \in Ctx PROVE SqRemoverOf(d)'
  <2>1. CASE d # t
    <3>1. pc'[d] = pc[d] /\ pc[d] \notin Suspended
      BY <1>0, <1>1, <2>1 DEF SqOthers
    <3> QED
      BY <3>1 DEF SqRemoverOf, Suspended, SuspendedSteps
  <2>2. CASE d = t
    <3>1. ASSUME s \in {"s_remove", "s_take"} PROVE whom'[t] = t /\ call'[t] = "timeout"
      <4>1. /\ \A p, k, r : ~SqGoes(t, p, "home", k, r) /\ ~SqGoes(t, p, "compare", k, r)
                          /\ ~SqGoes(t, p, "bsleep", k, r) /\ ~SqGoes(t, p, "slept", k, r)
                          /\ ~SqGoes(t, p, "block", k, r) /\ ~SqGoes(t, p, "s_add", k, r)
                          /\ ~SqGoes(t, p, "yield", k, r)
        BY <1>0, <1>3, <3>1 DEF SqGoes, SqTypes
      <4>2. SqGoes(t, "leave_box", "s_remove", call[t], "leave_box") /\ whom'[t] = t
        BY <1>0, <4>1 DEF SqWays
      <4> QED
        BY <1>4, <4>2 DEF SqGoes
    <3> QED
      BY <1>3, <2>2, <3>1 DEF SqRemoverOf
  <2> QED
    BY <2>1, <2>2
<1>8. \A d \in Ctx : d # t => SqSameControl(d)
  BY <1>0 DEF SqOthers, SqSame, SqSameControl
<1> QED
  BY <1>0, <1>5, <1>6, <1>7, <1>8, SqControlFrame

\* A context takes a task out of a mailbox: the task is on record, so it waits with a
\* timeout.
LEMMA SqTakeLocals ==
    ASSUME SqTypes, SqControl, NEW c \in Ctx, NEW t \in Task, take_out(c, t)
    PROVE  /\ pc[c] = "home" /\ pc' = [pc EXCEPT ![c] = "s_remove"]
           /\ whom' = [whom EXCEPT ![c] = t] /\ call[t] = "timeout" /\ c # SysTick
           /\ recorded' = [recorded EXCEPT ![t] = FALSE] /\ (c \in Task => c = cur)
           /\ UNCHANGED <<cur, state, TICKS, time_sorted_queue, delete_buffer, time_to_wakeup,
                          s_locked, s_pending, wake_tick, next_tick_to_wake, until_barrier, call,
                          ret, held, left, outlived>>
<1>1. /\ pc' = [pc EXCEPT ![c] = "s_remove"] /\ whom' = [whom EXCEPT ![c] = t]
      /\ recorded' = [recorded EXCEPT ![t] = FALSE] /\ recorded[t] /\ c \in Remover /\ Free(c)
      /\ UNCHANGED <<cur, state, TICKS, time_sorted_queue, delete_buffer, time_to_wakeup,
                     s_locked, s_pending, wake_tick, next_tick_to_wake, until_barrier, call,
                     ret, held, left, outlived>>
  BY DEF take_out, Goto, squeue, barriers
<1>2. pc[c] = "home" /\ (c \in Task => c = cur)
  <2>1. CASE c \in Irq
    <3>1. c \in Int /\ c >= c
      BY <2>1, SqContexts
    <3> QED
      BY <1>1, <2>1, <3>1, SqContexts DEF Free, Arrives
  <2>2. CASE c \notin Irq
    BY <1>1, <2>2 DEF Free, At, Running
  <2> QED
    BY <2>1, <2>2
<1>3. call[t] = "timeout"
  BY <1>1 DEF SqControl, SqControlOf
<1> QED
  BY <1>1, <1>2, <1>3, SqContexts

LEMMA SqTakeControl ==
    ASSUME SqTypes, SqControl, NEW c \in Ctx, NEW t \in Task, take_out(c, t)
    PROVE  SqControl'
<1>1. /\ pc[c] = "home" /\ pc' = [pc EXCEPT ![c] = "s_remove"]
      /\ whom' = [whom EXCEPT ![c] = t] /\ call[t] = "timeout" /\ c # SysTick
      /\ recorded' = [recorded EXCEPT ![t] = FALSE] /\ (c \in Task => c = cur)
      /\ UNCHANGED <<cur, call, ret, next_tick_to_wake, s_locked>>
  BY SqTakeLocals
<1>2. /\ pc'[c] = "s_remove" /\ whom'[c] = t
      /\ \A d \in Ctx : d # c => pc'[d] = pc[d] /\ whom'[d] = whom[d]
      /\ \A u \in Task : recorded'[u] => recorded[u]
  BY <1>1 DEF SqTypes
<1>3. ASSUME c \in Task PROVE SqControlOf(c)'
  <2>1. SqControlOf(c) /\ c = cur
    BY <1>1, <1>3 DEF SqControl
  <2>2. call[c] = "none" /\ ret[c] = "home" /\ ~recorded'[c]
    <3>1. call[c] = "none"
      BY <1>1, <2>1 DEF SqControlOf, Preparing, Settled
    <3> QED
      BY <1>2, <1>3, <2>1, <3>1 DEF SqControlOf
  <2> QED
    BY <1>1, <1>2, <1>3, <2>1, <2>2 DEF SqControlOf, Removing
<1>4. ASSUME c \in Irq PROVE SqHandlerOf(c)'
  BY <1>1, <1>2, <1>4 DEF SqControl, SqHandlerOf, Removing
<1>5. SqLock'
  <2>1. "s_remove" \notin Holding /\ "home" \notin Holding
    BY DEF Holding
  <2> QED
    BY <1>1, <2>1, SqLockStep DEF SqControl
<1>6. \A d \in Ctx : SqRemoverOf(d)'
  BY <1>1, <1>2 DEF SqControl, SqRemoverOf
<1>7. \A d \in Ctx : d # c => SqSameControl(d)
  BY <1>1, <1>2 DEF SqSameControl
<1> QED
  BY <1>1, <1>3, <1>4, <1>5, <1>6, <1>7, SqControlFrame

\* A switch.
LEMMA SqSwitchLocals ==
    ASSUME SqTypes, SleepSwitch
    PROVE  /\ \A e \in Irq : pc[e] = "home"
           /\ \A c \in Ctx : pc'[c] = IF c = cur /\ pc[c] = "yield" THEN "slept" ELSE pc[c]
           /\ pc' \in [Ctx -> ClientSteps]
           /\ cur # Idle => pc[cur] \notin Suspended
           /\ cur' \in Task \union {Idle}
           /\ cur' # Idle => state[cur'] # "Blocked"
           /\ state' = [t \in Task |-> IF t = cur' THEN "Running"
                                       ELSE IF state[t] = "Running" THEN "Ready" ELSE state[t]]
           /\ UNCHANGED <<TICKS, time_sorted_queue, delete_buffer, time_to_wakeup, s_locked,
                          s_pending, wake_tick, next_tick_to_wake, until_barrier, call, whom, ret,
                          held, left, recorded, outlived>>
<1>1. DOMAIN [yield |-> "slept"] = {"yield"} /\ [yield |-> "slept"]["yield"] = "slept"
  OBVIOUS
<1>2. pc' = [c \in Ctx |-> IF c = cur /\ pc[c] \in DOMAIN [yield |-> "slept"]
                           THEN [yield |-> "slept"][pc[c]] ELSE pc[c]]
  BY DEF SleepSwitch, switch
<1>3. cur' \in Task \union {Idle} /\ (cur' # Idle => state[cur'] # "Blocked")
  <2>1. cur' \in IF Pickable = {} THEN {Idle} ELSE Pickable
    BY DEF SleepSwitch, switch
  <2> QED
    BY <2>1 DEF Pickable
<1>4. \A c \in Ctx : pc'[c] = IF c = cur /\ pc[c] = "yield" THEN "slept" ELSE pc[c]
  BY <1>1, <1>2
<1>5. pc' \in [Ctx -> ClientSteps]
  <2>1. "slept" \in ClientSteps
    BY DEF ClientSteps, SleepSteps
  <2>2. \A c \in Ctx : pc'[c] \in ClientSteps
    BY <1>4, <2>1 DEF SqTypes
  <2> QED
    BY <1>2, <2>2
<1>6. /\ \A e \in Irq : pc[e] = "home"
      /\ cur # Idle => pc[cur] \notin Suspended
      /\ state' = [t \in Task |-> IF t = cur' THEN "Running"
                                  ELSE IF state[t] = "Running" THEN "Ready" ELSE state[t]]
      /\ UNCHANGED <<TICKS, time_sorted_queue, delete_buffer, time_to_wakeup, s_locked,
                     s_pending, wake_tick, next_tick_to_wake, until_barrier, call, whom, ret,
                     held, left, recorded, outlived>>
  BY DEF SleepSwitch, switch, ThreadMode, Suspended, squeue, barriers, clients
<1> QED
  BY <1>3, <1>4, <1>5, <1>6

LEMMA SqSwitchControl ==
    ASSUME SqTypes, SqControl, SleepSwitch
    PROVE  SqControl'
<1>1. /\ \A e \in Irq : pc[e] = "home"
      /\ \A c \in Ctx : pc'[c] = IF c = cur /\ pc[c] = "yield" THEN "slept" ELSE pc[c]
      /\ cur # Idle => pc[cur] \notin Suspended
      /\ UNCHANGED <<s_locked, next_tick_to_wake, call, whom, ret, recorded>>
  BY SqSwitchLocals
<1>2. ASSUME NEW t \in Task PROVE SqControlOf(t)' /\ pc'[t] \notin Suspended
  <2>1. SqControlOf(t) /\ t \in Ctx /\ t # Idle
    BY SqContexts DEF SqControl
  <2>2. pc[t] \notin Suspended
    BY <1>1, <2>1 DEF SqControlOf
  <2>3. pc'[t] = pc[t] \/ (pc[t] = "yield" /\ pc'[t] = "slept")
    BY <1>1, <2>1
  <2>4. "slept" \notin Suspended /\ "yield" \in Settled /\ "slept" \in Settled /\ "yield" \notin Removing
        /\ "slept" \notin SuspendedSteps /\ "yield" \notin SuspendedSteps
    BY DEF Suspended, SuspendedSteps, Settled, Removing
  <2> QED
    BY <1>1, <2>1, <2>2, <2>3, <2>4 DEF SqControlOf
<1>3. ASSUME NEW e \in Irq PROVE pc'[e] = pc[e] /\ SqHandlerOf(e)'
  <2>1. pc'[e] = pc[e]
    BY <1>1, SqContexts
  <2> QED
    BY <1>1, <2>1 DEF SqControl, SqHandlerOf
<1>4. \A c \in Ctx : pc'[c] \notin Suspended /\ pc[c] \notin Suspended
  <2>1. "home" \notin Suspended
    BY DEF Suspended, SuspendedSteps
  <2>2. \A t \in Task : pc[t] \notin Suspended
    BY <1>1, SqContexts DEF SqControl, SqControlOf
  <2> QED
    BY <1>1, <1>2, <1>3, <2>1, <2>2, SqContexts
<1>5. \A c \in Ctx : SqRemoverOf(c)'
  BY <1>4 DEF SqRemoverOf, Suspended, SuspendedSteps
<1>6. SqLock'
  <2>1. Holding \subseteq Suspended
    BY DEF Holding, Suspended, SuspendedSteps
  <2> QED
    BY <1>1, <1>4, <2>1 DEF SqControl, SqLock
<1> QED
  BY <1>2, <1>3, <1>5, <1>6 DEF SqControl

-----------------------------------------------------------------------------
(***************************************************************************)
(* Who is in the queue.                                                    *)
(***************************************************************************)
\* What a step inside the queue does to the tasks: nothing, it makes some that are in
\* the queue ready, it inserts its own, or it pends a removal.
SqNoneMoves == UNCHANGED <<time_sorted_queue, state, delete_buffer>>

SqTakesOut(ts) ==
    /\ ts \subseteq {t \in Task : Has(time_sorted_queue, t)}
    /\ time_sorted_queue' = Without(time_sorted_queue, ts) /\ accept_task(ts)
    /\ delete_buffer' = delete_buffer \/ delete_buffer' = <<>>

SqPutsIn(c) ==
    /\ c \in Task /\ pc[c] = "s_insert" /\ UNCHANGED <<state, delete_buffer>>
    /\ time_sorted_queue' = push_back_tick_sorted(time_sorted_queue, c, wake_tick[c])

SqDefers(c) ==
    /\ UNCHANGED <<time_sorted_queue, state>> /\ pc[c] = "s_remove"
    /\ delete_buffer' = Append(delete_buffer, whom[c])

LEMMA SqQueueData ==
    ASSUME SqTypes, SqControl, NEW c \in Ctx, Inside(c)
    PROVE  \/ SqNoneMoves /\ pc[c] # "s_insert"
           \/ (\E ts : SqTakesOut(ts)) /\ pc[c] # "s_insert"
           \/ SqPutsIn(c) \/ SqDefers(c)
<1>0. time_sorted_queue \in Seq(Task)
  BY DEF SqTypes
<1>1. CASE s_leave(c) \/ run_pended_op(c) \/ clear_time_to_wakeup(c) \/ (c = SysTick /\ wake_sleeping_tasks)
           \/ (c \in Task /\ add_guard(c))
  BY <1>1 DEF s_leave, run_pended_op, clear_time_to_wakeup, wake_sleeping_tasks, add_guard, squeue, At,
     SqNoneMoves
<1>2. CASE wake_expired_tasks(c)
  <2>1. SqTakesOut(Expired(time_sorted_queue)) /\ pc[c] # "s_insert"
    BY <1>0, <1>2, QueuedTasks DEF wake_expired_tasks, remove_tasks, At, SqTakesOut
  <2> QED
    BY <2>1
<1>3. CASE drain_delete_buffer(c)
  <2>1. SqTakesOut(ToSet(delete_buffer) \intersect ToSet(time_sorted_queue)) /\ pc[c] # "s_insert"
    BY <1>0, <1>3, QueuedTasks DEF drain_delete_buffer, remove_tasks, At, SqTakesOut
  <2> QED
    BY <2>1
<1>4. CASE remove_full(c)
  <2>1. SqTakesOut({whom[c]} \intersect ToSet(time_sorted_queue)) /\ pc[c] # "s_insert"
    BY <1>0, <1>4, QueuedTasks DEF remove_full, remove_tasks, At, SqTakesOut
  <2> QED
    BY <2>1
<1>5. CASE c \in Task /\ add_insert(c)
  BY <1>5 DEF add_insert, At, SqPutsIn
<1>6. CASE remove_guard(c)
  BY <1>6 DEF remove_guard, At, SqNoneMoves, SqDefers
<1> QED
  BY <1>1, <1>2, <1>3, <1>4, <1>5, <1>6 DEF Inside, SleepStep

\* Where such a step leaves a task that takes it.
SqOnward(t) ==
    \/ pc[t] = "s_add" /\ pc'[t] = "s_insert"
    \/ pc[t] = "s_insert" /\ pc'[t] = "s_leave"
    \/ /\ pc[t] \notin {"s_add", "s_insert"} /\ pc'[t] \notin {"s_add", "s_insert", "slept"}
       /\ call[t] # "none" => pc'[t] \in Settled /\ pc[t] \in Settled

LEMMA SqQueueOnward ==
    ASSUME SqTypes, SqControl, NEW t \in Task, Inside(t)
    PROVE  SqOnward(t) /\ t = cur
<1>1. PICK s : SqPasses(t, s)
  BY SqQueueStep, SqContexts
<1>2. /\ Running(t) /\ pc'[t] = s
  BY <1>1, SqContexts DEF SqPasses, SqTypes
<1>3. SqControlOf(t) /\ t = cur /\ (s_locked <=> pc[t] \in Holding) /\ t # SysTick
  BY <1>2, SqAlone, SqContexts DEF SqControl
<1>4. \/ SqWithin(pc[t], s)
      \/ pc[t] = "s_leave" /\ s = ret[t]
      \/ pc[t] = "s_add" /\ s = "s_insert"
      \/ pc[t] = "s_remove" /\ s = "s_take"
  BY <1>1, <1>3 DEF SqPasses, SqStays, SqLeaves, SqEnters, SqPends, Holding
<1>5. pc[t] \in SuspendedSteps
  BY <1>4 DEF SqWithin, SuspendedSteps
<1>6. /\ ret[t] \in {"home", "leave_box", "yield"} /\ (call[t] # "none" => ret[t] # "home")
      /\ call[t] # "none" => pc[t] \in {"bsleep"} \union Preparing \union Settled
  BY <1>3, <1>5 DEF SqControlOf
<1>7. pc[t] \notin {"bsleep", "compare", "block"}
  BY <1>5 DEF SuspendedSteps
<1>8. CASE pc[t] \in {"s_add", "s_insert"}
  BY <1>2, <1>3, <1>4, <1>8 DEF SqWithin, SqOnward
<1>9. CASE pc[t] \notin {"s_add", "s_insert"}
  <2>1. s \notin {"s_add", "s_insert", "slept"}
    BY <1>4, <1>6, <1>9 DEF SqWithin
  <2>2. call[t] # "none" => s \in Settled /\ pc[t] \in Settled
    BY <1>4, <1>6, <1>7, <1>9 DEF SqWithin, Settled, Preparing
  <2> QED
    BY <1>2, <1>3, <1>9, <2>1, <2>2 DEF SqOnward
<1> QED
  BY <1>8, <1>9

\* A task on its way into the queue is in a call.
LEMMA SqInCall ==
    ASSUME NEW t \in Task, SqControlOf(t), pc[t] \in Preparing
    PROVE  call[t] # "none"
  BY DEF SqControlOf, Preparing, Removing

\* For one task, from what happens to it.
LEMMA SqOwnerStep ==
    ASSUME NEW t \in Task, SqControlOf(t), SqOwnerOf(t), call'[t] = call[t], outlived'[t] = outlived[t], cur' = cur,
           pc'[t] = pc[t] \/ SqOnward(t),
           \/ /\ state'[t] = state[t] /\ (pc[t] # "s_insert" \/ pc'[t] = pc[t])
              /\ Has(time_sorted_queue', t) <=> Has(time_sorted_queue, t)
           \/ /\ state'[t] = "Ready" /\ Has(time_sorted_queue, t)
              /\ ~Has(time_sorted_queue', t)
           \/ /\ state'[t] = state[t] /\ pc[t] = "s_insert" /\ pc'[t] = "s_leave"
              /\ Has(time_sorted_queue', t),
           Has(delete_buffer', t) => Has(delete_buffer, t) \/ call[t] = "timeout"
    PROVE  SqOwnerOf(t)'
<1>0. /\ Adding(t) <=> pc[t] \in {"s_add", "s_insert"}
      /\ Adding(t)' <=> pc'[t] \in {"s_add", "s_insert"}
      /\ "s_leave" \in Settled
      /\ {"s_add", "s_insert"} \intersect Settled = {}
  BY DEF Adding, Settled
<1> DEFINE in == Has(time_sorted_queue, t)
           inP == Has(time_sorted_queue', t)
           db == Has(delete_buffer, t)
           dbP == Has(delete_buffer', t)
<1>1. /\ Adding(t) => state[t] = "Blocked" /\ ~in
      /\ ~Adding(t) => (state[t] = "Blocked" <=> in)
      /\ ~Adding(t) /\ state[t] = "Blocked" => call[t] # "none" /\ pc[t] \in Settled
      /\ pc[t] = "slept" /\ t = cur => state[t] # "Blocked"
      /\ call[t] \in {"sleep", "barrier"} /\ state[t] = "Blocked" /\ db => outlived[t]
  BY DEF SqOwnerOf
<1>2. \/ state'[t] = state[t] /\ (pc[t] # "s_insert" \/ pc'[t] = pc[t]) /\ (inP <=> in)
      \/ state'[t] = "Ready" /\ in /\ ~inP
      \/ state'[t] = state[t] /\ pc[t] = "s_insert" /\ pc'[t] = "s_leave" /\ inP
  OBVIOUS
<1>3. dbP => db \/ call[t] = "timeout"
  OBVIOUS
<1> HIDE DEF in, inP, db, dbP
<1>4. /\ Adding(t)' => state'[t] = "Blocked" /\ ~inP
      /\ ~Adding(t)' => (state'[t] = "Blocked" <=> inP)
  BY <1>0, <1>1, <1>2 DEF SqOnward
<1>5. ~Adding(t)' /\ state'[t] = "Blocked" => call'[t] # "none" /\ pc'[t] \in Settled
  <2> SUFFICES ASSUME ~Adding(t)', state'[t] = "Blocked" PROVE call[t] # "none" /\ pc'[t] \in Settled
    OBVIOUS
  <2>1. CASE pc'[t] = pc[t]
    BY <1>0, <1>1, <1>2, <2>1
  <2>2. CASE SqOnward(t) /\ ~Adding(t)
    BY <1>0, <1>1, <1>2, <2>2 DEF SqOnward
  <2>3. CASE Adding(t) /\ pc'[t] # pc[t]
    <3>1. pc[t] = "s_insert" /\ pc'[t] = "s_leave"
      BY <1>0, <2>3 DEF SqOnward
    <3> QED
      BY <1>0, <3>1, SqInCall DEF Preparing
  <2> QED
    BY <2>1, <2>2, <2>3
<1>6. pc'[t] = "slept" /\ t = cur' => state'[t] # "Blocked"
  BY <1>0, <1>1, <1>2 DEF SqOnward
<1>7. call'[t] \in {"sleep", "barrier"} /\ state'[t] = "Blocked" /\ dbP => outlived'[t]
  BY <1>1, <1>2, <1>3
<1> QED
  BY <1>4, <1>5, <1>6, <1>7 DEF SqOwnerOf, inP, dbP

\* Steps inside the queue.
LEMMA SqQueueOwner ==
    ASSUME SqTypes, SqControl, SqOwner, NEW c \in Ctx, Inside(c), UNCHANGED clients
    PROVE  SqOwner'
<1>0. /\ time_sorted_queue \in Seq(Task) /\ delete_buffer \in Seq(Task)
      /\ Distinct(time_sorted_queue) /\ \A t \in Task : SqOwnerOf(t) /\ SqControlOf(t)
  BY DEF SqTypes, SqOwner, SqControl
<1>1. /\ UNCHANGED <<cur, call>> /\ \A t \in Task : outlived'[t] = outlived[t]
  BY SqQueueStep DEF clients
<1>2. \A t \in Task : pc'[t] = pc[t] \/ (t = c /\ SqOnward(t))
  <2>1. PICK s : SqPasses(c, s)
    BY SqQueueStep
  <2> QED
    BY <2>1, SqQueueOnward, SqContexts DEF SqPasses, SqTypes
<1>3. CASE SqNoneMoves /\ pc[c] # "s_insert"
  <2>1. \A t \in Task : SqOwnerOf(t)'
    BY <1>0, <1>1, <1>2, <1>3, SqOwnerStep DEF SqNoneMoves
  <2> QED
    BY <1>0, <1>3, <2>1 DEF SqOwner, SqNoneMoves
<1>4. CASE (\E ts : SqTakesOut(ts)) /\ pc[c] # "s_insert"
  <2>1. PICK ts : SqTakesOut(ts)
    BY <1>4
  <2>2. /\ \A u : Has(time_sorted_queue', u) <=> Has(time_sorted_queue, u) /\ u \notin ts
        /\ Distinct(time_sorted_queue')
    BY <1>0, <2>1, WithoutTasks DEF SqTakesOut
  <2>3. \A t \in Task : state'[t] = IF t \in ts THEN "Ready" ELSE state[t]
    BY <2>1 DEF SqTakesOut, accept_task
  <2>4. \A t \in ts : Has(time_sorted_queue, t)
    BY <2>1 DEF SqTakesOut
  <2>5. \A t : Has(delete_buffer', t) => Has(delete_buffer, t)
    BY <2>1 DEF SqTakesOut, Has
  <2>6. \A t \in Task : SqOwnerOf(t)'
    BY <1>0, <1>1, <1>2, <1>4, <2>2, <2>3, <2>4, <2>5, SqOwnerStep
  <2> QED
    BY <2>2, <2>6 DEF SqOwner
<1>5. CASE SqPutsIn(c)
  <2>1. PICK at \in 1 .. Len(time_sorted_queue) + 1 :
           push_back_tick_sorted(time_sorted_queue, c, wake_tick[c]) = InsertAt(time_sorted_queue, at, c)
    BY <1>0, <1>5, PushSorted DEF SqPutsIn
  <2>2. ~Has(time_sorted_queue, c) /\ c \in Task
    BY <1>0, <1>5 DEF SqPutsIn, SqOwnerOf, Adding
  <2>3. /\ \A u : Has(time_sorted_queue', u) <=> Has(time_sorted_queue, u) \/ u = c
        /\ Distinct(time_sorted_queue')
    BY <1>0, <1>5, <2>1, <2>2, InsertTask DEF SqPutsIn
  <2>4. pc[c] = "s_insert" /\ pc'[c] = "s_leave"
    <3>1. SqOnward(c)
      BY <2>2, SqQueueOnward
    <3> QED
      BY <1>5, <3>1 DEF SqOnward, SqPutsIn
  <2>5. \A t \in Task : SqOwnerOf(t)'
    BY <1>0, <1>1, <1>2, <1>5, <2>3, <2>4, SqOwnerStep DEF SqPutsIn
  <2> QED
    BY <2>3, <2>5 DEF SqOwner
<1>6. CASE SqDefers(c)
  <2>1. whom[c] \in Task /\ call[whom[c]] = "timeout" /\ pc[c] # "s_insert"
    BY <1>6 DEF SqDefers, SqControl, SqRemoverOf
  <2>2. \A t : Has(delete_buffer', t) => Has(delete_buffer, t) \/ t = whom[c]
    BY <1>0, <1>6, <2>1, AppendTask DEF SqDefers
  <2>3. \A t \in Task : SqOwnerOf(t)'
    BY <1>0, <1>1, <1>2, <1>6, <2>1, <2>2, SqOwnerStep DEF SqDefers
  <2> QED
    BY <1>0, <1>6, <2>3 DEF SqOwner, SqDefers
<1> QED
  BY <1>3, <1>4, <1>5, <1>6, SqQueueData

\* The clock, and whoever takes a task out of a mailbox, touch no task.
LEMMA SqTickOwner ==
    ASSUME SqTypes, SqControl, SqOwner, advance_tick, UNCHANGED clients
    PROVE  SqOwner'
<1>1. /\ pc' = [pc EXCEPT ![SysTick] = "s_wake"]
      /\ UNCHANGED <<cur, state, call, time_sorted_queue, delete_buffer, outlived>>
  BY DEF advance_tick, Goto, squeue, clients
<1>2. \A t \in Task : pc'[t] = pc[t] /\ SqOwnerOf(t) /\ SqControlOf(t)
  BY <1>1, SqContexts DEF SqTypes, SqOwner, SqControl
<1>3. \A t \in Task : SqOwnerOf(t)'
  BY <1>1, <1>2, SqOwnerStep
<1> QED
  BY <1>1, <1>3 DEF SqOwner

LEMMA SqTakeOwner ==
    ASSUME SqTypes, SqControl, SqOwner, NEW c \in Ctx, NEW t \in Task, take_out(c, t)
    PROVE  SqOwner'
<1>1. /\ pc[c] = "home" /\ pc' = [pc EXCEPT ![c] = "s_remove"]
      /\ UNCHANGED <<cur, state, call, time_sorted_queue, delete_buffer, outlived>>
  BY SqTakeLocals
<1>2. ASSUME NEW u \in Task PROVE SqOwnerOf(u)'
  <2>0. SqOwnerOf(u) /\ SqControlOf(u)
    BY DEF SqOwner, SqControl
  <2>1. CASE u # c
    <3>1. pc'[u] = pc[u]
      BY <1>1, <2>1, SqContexts DEF SqTypes
    <3> QED
      BY <1>1, <2>0, <3>1, SqOwnerStep
  <2>2. CASE u = c
    <3>1. pc[u] = "home" /\ pc'[u] = "s_remove"
      BY <1>1, <2>2 DEF SqTypes
    <3>2. call[u] = "none"
      BY <2>0, <3>1 DEF SqControlOf, Preparing, Settled
    <3>3. SqOnward(u)
      BY <3>1, <3>2 DEF SqOnward
    <3> QED
      BY <1>1, <2>0, <3>1, <3>3, SqOwnerStep
  <2> QED
    BY <2>1, <2>2
<1> QED
  BY <1>1, <1>2 DEF SqOwner

\* What a task does to its own state outside the queue.
SqOwnState(t) ==
    \/ /\ state'[t] = state[t] /\ outlived'[t] = outlived[t]
       /\ pc[t] \in {"home", "bsleep", "compare"} /\ pc'[t] \in {"home", "bsleep", "compare", "block", "slept"}
    \/ /\ state'[t] = state[t] /\ outlived'[t] = outlived[t] /\ call'[t] = call[t]
       /\ pc[t] = "leave_box" /\ pc'[t] \in {"yield", "s_remove"}
    \/ state'[t] = state[t] /\ pc[t] = "slept" /\ pc'[t] = "home" /\ call'[t] = "none"
    \/ /\ pc[t] \in {"home", "block"} /\ state'[t] = "Blocked" /\ pc'[t] = "s_add"
       /\ call'[t] = "timeout" \/ outlived'[t] = Has(delete_buffer, t)

LEMMA SqClientState ==
    ASSUME SqTypes, NEW t \in Task, ClientStep(t)
    PROVE  SqOwnState(t)
<1>0. t \in Ctx
  BY SqContexts
<1>1. CASE (SleepCall(t) \/ barrier_sleep(t) \/ sleep_compare(t)) /\ UNCHANGED clients
  BY <1>0, <1>1 DEF SleepCall, sleep_ms, barrier_new, barrier_wait, barrier_sleep, sleep_compare,
     BeginSleep, At, Goto, clients, SqOwnState, SqTypes
<1>2. CASE \E ms \in Durations : timed_wait(t, ms)
  BY <1>0, <1>2 DEF timed_wait, At, Goto, SqOwnState, SqTypes
<1>3. CASE block(t) \/ leave_box(t)
  BY <1>0, <1>3 DEF block, sleep_block, leave_box, At, Goto, SqOwnState, SqTypes
<1>4. CASE return(t)
  BY <1>0, <1>4 DEF return, sleep_return, At, Goto, SqOwnState, SqTypes
<1> QED
  BY <1>1, <1>2, <1>3, <1>4 DEF ClientStep

LEMMA SqClientOwner ==
    ASSUME SqTypes, SqControl, SqOwner, NEW t \in Task, ClientStep(t)
    PROVE  SqOwner'
<1>0. /\ Running(t) /\ SqOthers(t) /\ t = cur /\ cur' = cur
      /\ UNCHANGED <<time_sorted_queue, delete_buffer>> /\ SqOwnState(t)
  BY SqClientStep, SqClientState, SqAlone
<1>1. SqOwnerOf(t) /\ SqControlOf(t)
  BY DEF SqOwner, SqControl
<1>2. ASSUME NEW u \in Task, u # t PROVE SqOwnerOf(u)'
  <2>1. SqOwnerOf(u) /\ SqControlOf(u) /\ SqSame(u) /\ pc'[u] = pc[u]
    BY <1>0, <1>2, SqContexts DEF SqOwner, SqControl, SqOthers
  <2> QED
    BY <1>0, <2>1, SqOwnerStep DEF SqSame
<1>3. SqOwnerOf(t)'
  <2> DEFINE in == Has(time_sorted_queue, t)
             db == Has(delete_buffer, t)
  <2>1. /\ pc[t] \in {"home", "bsleep", "compare", "block", "slept"} => state[t] # "Blocked" /\ ~in
        /\ pc[t] = "leave_box" => (state[t] = "Blocked" <=> in) /\ call[t] = "timeout"
    BY <1>0, <1>1 DEF SqOwnerOf, SqControlOf, Adding, Settled, Removing
  <2>2. /\ Has(time_sorted_queue', t) <=> in
        /\ Has(delete_buffer', t) <=> db
    BY <1>0
  <2>3. SqOwnState(t)
    BY <1>0
  <2> HIDE DEF in, db
  <2>4. Adding(t)' <=> pc'[t] \in {"s_add", "s_insert"}
    BY DEF Adding
  <2>5. CASE /\ state'[t] = state[t] /\ outlived'[t] = outlived[t]
             /\ pc[t] \in {"home", "bsleep", "compare"} /\ pc'[t] \in {"home", "bsleep", "compare", "block", "slept"}
    BY <2>1, <2>2, <2>4, <2>5 DEF SqOwnerOf
  <2>6. CASE /\ state'[t] = state[t] /\ outlived'[t] = outlived[t] /\ call'[t] = call[t]
             /\ pc[t] = "leave_box" /\ pc'[t] \in {"yield", "s_remove"}
    BY <2>1, <2>2, <2>4, <2>6 DEF SqOwnerOf, Settled
  <2>7. CASE state'[t] = state[t] /\ pc[t] = "slept" /\ pc'[t] = "home" /\ call'[t] = "none"
    BY <2>1, <2>2, <2>4, <2>7 DEF SqOwnerOf
  <2>8. CASE /\ pc[t] \in {"home", "block"} /\ state'[t] = "Blocked" /\ pc'[t] = "s_add"
             /\ call'[t] = "timeout" \/ outlived'[t] = Has(delete_buffer, t)
    BY <2>1, <2>2, <2>4, <2>8 DEF SqOwnerOf, db
  <2> QED
    BY <2>3, <2>5, <2>6, <2>7, <2>8 DEF SqOwnState
<1>4. \A u \in Task : SqOwnerOf(u)'
  BY <1>2, <1>3
<1> QED
  BY <1>0, <1>4 DEF SqOwner

LEMMA SqSwitchOwner ==
    ASSUME SqTypes, SqControl, SqOwner, SleepSwitch
    PROVE  SqOwner'
<1>1. /\ \A c \in Ctx : pc'[c] = IF c = cur /\ pc[c] = "yield" THEN "slept" ELSE pc[c]
      /\ cur # Idle => pc[cur] \notin Suspended
      /\ cur' # Idle => state[cur'] # "Blocked"
      /\ \A t \in Task : state'[t] = IF t = cur' THEN "Running"
                                     ELSE IF state[t] = "Running" THEN "Ready" ELSE state[t]
      /\ UNCHANGED <<time_sorted_queue, delete_buffer, call, outlived>>
  BY SqSwitchLocals
<1>2. ASSUME NEW t \in Task PROVE SqOwnerOf(t)'
  <2>1. SqOwnerOf(t) /\ t \in Ctx /\ t # Idle
    BY SqContexts DEF SqOwner
  <2>2. (Adding(t)' <=> Adding(t)) /\ (pc[t] \in Settled => pc'[t] \in Settled)
    BY <1>1, <2>1 DEF Adding, Settled
  <2>3. /\ state'[t] = "Blocked" <=> state[t] = "Blocked"
        /\ t = cur' => state'[t] # "Blocked"
    BY <1>1, <2>1
  <2> DEFINE in == Has(time_sorted_queue, t)
             db == Has(delete_buffer, t)
  <2>4. /\ Adding(t) => state[t] = "Blocked" /\ ~in
        /\ ~Adding(t) => (state[t] = "Blocked" <=> in)
        /\ ~Adding(t) /\ state[t] = "Blocked" => call[t] # "none" /\ pc[t] \in Settled
        /\ call[t] \in {"sleep", "barrier"} /\ state[t] = "Blocked" /\ db => outlived[t]
    BY <2>1 DEF SqOwnerOf
  <2>5. (Has(time_sorted_queue', t) <=> in) /\ (Has(delete_buffer', t) <=> db)
    BY <1>1
  <2> HIDE DEF in, db
  <2> QED
    BY <1>1, <2>2, <2>3, <2>4, <2>5 DEF SqOwnerOf
<1> QED
  BY <1>1, <1>2 DEF SqOwner

-----------------------------------------------------------------------------
(***************************************************************************)
(* The time that is left.                                                  *)
(***************************************************************************)
LEMMA SqNumbers ==
    ASSUME SqTypes, NEW t \in Task
    PROVE  /\ TICKS \in Int /\ 0 <= TICKS /\ TICKS < Modulus
           /\ left[t] \in Int /\ -MaxLate <= left[t] /\ left[t] < Modulus
           /\ until_barrier[t] \in Int /\ 1 - Half <= until_barrier[t] /\ until_barrier[t] < Half
           /\ wake_tick[t] \in Int /\ 0 <= wake_tick[t] /\ wake_tick[t] < Modulus
           /\ next_tick_to_wake[t] # NoBarrier => next_tick_to_wake[t] \in Ticks
<1>1. /\ TICKS \in Ticks /\ left[t] \in -MaxLate .. Modulus - 1 /\ wake_tick[t] \in Ticks
      /\ until_barrier[t] \in 1 - Half .. Half - 1
      /\ next_tick_to_wake[t] \in Ticks \union {NoBarrier}
  BY DEF SqTypes
<1> QED
  BY <1>1, TickRange DEF Ticks

\* A task whose wake-up tick is not after the clock has no time left.
LEMMA Overdue ==
    ASSUME SqTypes, NEW n \in Int, n < Half
    PROVE  /\ n > 0 => tick_cmp(Clock(n), TICKS) = 1 /\ tick_cmp(TICKS, Clock(n)) = -1
           /\ n <= 0 /\ -Half < n => tick_cmp(Clock(n), TICKS) # 1 /\ tick_cmp(TICKS, Clock(n)) # -1
<1>0. TICKS \in Ticks /\ Half \in Nat /\ Half >= 1 /\ Modulus = 2 * Half /\ Clock(0) = TICKS
  BY TickRange, ClockIsTick DEF SqTypes
<1>1. ASSUME -Half < n
      PROVE  /\ tick_cmp(Clock(n), Clock(0)) = IF n = 0 THEN 0 ELSE IF n < 0 THEN -1 ELSE 1
             /\ tick_cmp(Clock(0), Clock(n)) = IF 0 = n THEN 0 ELSE IF 0 < n THEN -1 ELSE 1
  BY <1>0, <1>1, TicksCompare
<1> QED
  BY <1>0, <1>1

\* A step between two ticks that leaves the times of a task alone.
LEMMA SqTimesFrame ==
    ASSUME NEW u \in Task, SqTimesOf(u), UNCHANGED TICKS, SqSame(u),
           /\ pc'[u] \in {"compare", "block"} <=> pc[u] \in {"compare", "block"}
           /\ pc'[u] = "bsleep" => pc[u] = "bsleep"
           /\ pc'[u] \in Settled /\ state[u] # "Blocked" /\ call[u] \in {"sleep", "barrier"} => pc[u] \in Settled
    PROVE  SqTimesOf(u)'
  BY DEF SqTimesOf, SqSame, Asleep, Clock

\* The clock: every time left and every time to a barrier goes down by one.
LEMMA SqTickTimes ==
    ASSUME SqTypes, SqControl, SqOwner, SqTimes, advance_tick, UNCHANGED clients
    PROVE  SqTimes'
<1> SUFFICES ASSUME NEW t \in Task PROVE SqTimesOf(t)'
  BY DEF SqTimes
<1>1. /\ pc'[t] = pc[t] /\ UNCHANGED <<state, call, wake_tick, next_tick_to_wake, outlived>>
      /\ left'[t] = (IF call[t] = "none" THEN 0 ELSE Later(left[t]))
      /\ until_barrier'[t] = (IF next_tick_to_wake[t] = NoBarrier THEN 0 ELSE until_barrier[t] - 1)
      /\ next_tick_to_wake[t] # NoBarrier => until_barrier[t] > 1 - Half
  BY SqContexts DEF advance_tick, TickAllowed, Goto, SqTypes, clients
<1>2. /\ TICKS \in Ticks
      /\ \A n \in Int : -Modulus < n /\ n < Modulus => (TICKS' + (n - 1)) % Modulus = Clock(n)
  BY ClockMoves DEF advance_tick, SqTypes
<1>3. /\ left[t] \in Int /\ -MaxLate <= left[t] /\ left[t] < Modulus
      /\ until_barrier[t] \in Int /\ 1 - Half <= until_barrier[t] /\ until_barrier[t] < Half
      /\ wake_tick[t] \in Int /\ MaxLate \in Nat /\ Half \in Nat /\ Half >= 1 /\ Modulus = 2 * Half
      /\ MaxAhead \in Nat
  BY SqNumbers, TickRange
<1>4. SqTimesOf(t) /\ SqControlOf(t) /\ SqOwnerOf(t)
  BY DEF SqTimes, SqControl, SqOwner
<1>5. Asleep(t)' <=> Asleep(t)
  BY <1>1 DEF Asleep
<1>6. Asleep(t) => call[t] # "none"
  BY <1>4 DEF Asleep, SqControlOf, SqOwnerOf, Adding, Removing
<1>8. call[t] # "none" => left'[t] = IF left[t] > -MaxLate THEN left[t] - 1 ELSE left[t]
  BY <1>1 DEF Later
<1>9. ASSUME Asleep(t), call[t] # "timeout"
      PROVE left'[t] < Half /\ (left'[t] > 0 => wake_tick'[t] = (TICKS' + left'[t]) % Modulus)
  <2>0. call[t] # "none" /\ left[t] < Half /\ (left[t] > 0 => wake_tick[t] = Clock(left[t]))
    BY <1>4, <1>6, <1>9 DEF SqTimesOf
  <2>1. left'[t] < Half /\ (left'[t] > 0 => left[t] > 0 /\ left'[t] = left[t] - 1)
    BY <1>3, <1>8, <2>0
  <2>2. left[t] > 0 => (TICKS' + (left[t] - 1)) % Modulus = Clock(left[t])
    BY <1>2, <1>3
  <2> QED
    BY <1>1, <2>0, <2>1, <2>2
<1>10. ASSUME next_tick_to_wake[t] # NoBarrier
       PROVE  /\ next_tick_to_wake'[t] = (TICKS' + until_barrier'[t]) % Modulus
              /\ until_barrier'[t] = until_barrier[t] - 1
  <2>1. next_tick_to_wake[t] = Clock(until_barrier[t]) /\ until_barrier'[t] = until_barrier[t] - 1
    BY <1>1, <1>4, <1>10 DEF SqTimesOf
  <2>2. (TICKS' + (until_barrier[t] - 1)) % Modulus = Clock(until_barrier[t])
    BY <1>2, <1>3
  <2> QED
    BY <1>1, <2>1, <2>2
<1>11. call[t] = "barrier" => until_barrier'[t] = until_barrier[t] - 1 /\ until_barrier'[t] <= MaxAhead
  <2>1. call[t] = "barrier" => until_barrier'[t] = until_barrier[t] - 1 /\ until_barrier[t] <= MaxAhead
    BY <1>4, <1>10 DEF SqControlOf, SqTimesOf
  <2> QED
    BY <1>3, <2>1
<1>12. pc[t] = "bsleep" => until_barrier'[t] <= wake_tick'[t] /\ wake_tick'[t] \in 1 .. MaxAhead
  <2>1. pc[t] = "bsleep" => call[t] = "barrier" /\ until_barrier[t] <= wake_tick[t] /\ wake_tick[t] \in 1 .. MaxAhead
    BY <1>4 DEF SqControlOf, SqTimesOf
  <2> QED
    BY <1>1, <1>3, <1>11, <2>1
<1>13. Asleep(t) /\ call[t] = "barrier" => until_barrier'[t] <= 0 \/ until_barrier'[t] <= left'[t]
  <2>1. Asleep(t) /\ call[t] = "barrier" => until_barrier[t] <= 0 \/ until_barrier[t] <= left[t]
    BY <1>4 DEF SqTimesOf
  <2> QED
    BY <1>3, <1>8, <1>11, <2>1
<1>14. pc[t] \in Settled /\ state[t] # "Blocked" =>
          /\ call[t] = "sleep" => left'[t] <= 0 \/ outlived[t]
          /\ call[t] = "barrier" => until_barrier'[t] <= 0 \/ outlived[t]
  <2>1. pc[t] \in Settled /\ state[t] # "Blocked" =>
           /\ call[t] = "sleep" => left[t] <= 0 \/ outlived[t]
           /\ call[t] = "barrier" => until_barrier[t] <= 0 \/ outlived[t]
    BY <1>4 DEF SqTimesOf
  <2> QED
    BY <1>3, <1>8, <1>11, <2>1
<1> QED
  BY <1>1, <1>5, <1>9, <1>10, <1>11, <1>12, <1>13, <1>14 DEF SqTimesOf, Clock

\* Whoever is taken out of the queue has no time left, or is taken out by a removal: one
\* that is meant for its wait with a timeout, or one that has outlived its wait.
LEMMA SqTaken ==
    ASSUME SqTypes, SqControl, SqOwner, SqTimes, NEW c \in Ctx, Inside(c), NEW t \in Task,
           state'[t] # state[t]
    PROVE  /\ Has(time_sorted_queue, t) /\ state[t] = "Blocked" /\ state'[t] = "Ready"
           /\ pc[t] \in Settled /\ ~Adding(t)
           /\ call[t] = "timeout" \/ outlived[t] \/ left[t] <= 0
<1>0. SqOwnerOf(t) /\ SqControlOf(t) /\ SqTimesOf(t) /\ call[t] \in {"none", "sleep", "barrier", "timeout"}
      /\ time_sorted_queue \in Seq(Task) /\ left[t] \in Int
  BY SqNumbers DEF SqOwner, SqControl, SqTimes, SqTypes
<1>1. ASSUME Has(time_sorted_queue, t)
      PROVE  state[t] = "Blocked" /\ pc[t] \in Settled /\ ~Adding(t) /\ call[t] # "none"
  BY <1>0, <1>1 DEF SqOwnerOf
<1>2. CASE wake_expired_tasks(c)
  <2>1. t \in Expired(time_sorted_queue) /\ state'[t] = "Ready"
    BY <1>2 DEF wake_expired_tasks, accept_task
  <2>2. Has(time_sorted_queue, t) /\ tick_cmp(wake_tick[t], TICKS) # 1
    BY <1>0, <2>1, ExpiredTick
  <2>3. ASSUME call[t] # "timeout" PROVE left[t] <= 0
    <3>1. left[t] < Half /\ (left[t] > 0 => wake_tick[t] = Clock(left[t]))
      BY <1>0, <1>1, <2>2, <2>3 DEF SqTimesOf, Asleep
    <3>2. left[t] > 0 => tick_cmp(Clock(left[t]), TICKS) = 1
      BY <1>0, <3>1, Overdue
    <3> QED
      BY <1>0, <2>2, <3>1, <3>2
  <2> QED
    BY <1>1, <2>1, <2>2, <2>3
<1>3. CASE drain_delete_buffer(c)
  <2>1. t \in ToSet(delete_buffer) \intersect ToSet(time_sorted_queue) /\ state'[t] = "Ready"
    BY <1>3 DEF drain_delete_buffer, accept_task
  <2>2. Has(delete_buffer, t) /\ Has(time_sorted_queue, t)
    BY <2>1 DEF ToSet, Has
  <2> QED
    BY <1>0, <1>1, <2>1, <2>2 DEF SqOwnerOf
<1>4. CASE remove_full(c)
  <2>1. t \in {whom[c]} \intersect ToSet(time_sorted_queue) /\ state'[t] = "Ready" /\ pc[c] = "s_take"
    BY <1>4 DEF remove_full, accept_task, At
  <2>2. t = whom[c] /\ Has(time_sorted_queue, t)
    BY <2>1 DEF ToSet, Has
  <2>3. call[t] = "timeout"
    BY <2>1, <2>2 DEF SqControl, SqRemoverOf
  <2> QED
    BY <1>1, <2>1, <2>2, <2>3
<1> QED
  BY <1>2, <1>3, <1>4 DEF Inside, SleepStep, s_leave, run_pended_op, clear_time_to_wakeup, wake_sleeping_tasks,
     add_guard, add_insert, remove_guard

\* Steps inside the queue.
LEMMA SqQueueTimes ==
    ASSUME SqTypes, SqControl, SqOwner, SqTimes, NEW c \in Ctx, Inside(c), UNCHANGED clients
    PROVE  SqTimes'
<1>0. /\ UNCHANGED <<TICKS, wake_tick, next_tick_to_wake, until_barrier, call, left, recorded, outlived>>
  BY SqQueueStep DEF clients
<1>1. SqControl'
  BY SqQueueControl
<1>2. ASSUME NEW t \in Task
      PROVE  /\ pc'[t] \in {"compare", "block"} <=> pc[t] \in {"compare", "block"}
             /\ pc'[t] = "bsleep" => pc[t] = "bsleep"
             /\ pc'[t] \in Settled /\ call[t] # "none" => pc[t] \in Settled \union {"s_insert"}
             /\ pc[t] \in Settled /\ call[t] # "none" => pc'[t] \in Settled
  <2>1. SqControlOf(t)' /\ call'[t] = call[t]
    BY <1>0, <1>1 DEF SqControl
  <2>2. pc'[t] = pc[t] \/ SqOnward(t)
    <3>1. PICK s : SqPasses(c, s)
      BY SqQueueStep
    <3> QED
      BY <3>1, SqQueueOnward, SqContexts DEF SqPasses, SqTypes
  <2>3. CASE pc'[t] = pc[t]
    BY <2>3
  <2>4. CASE SqOnward(t)
    <3>1. pc'[t] \in {"compare", "block", "bsleep"} => call[t] # "none"
      BY <2>1 DEF SqControlOf
    <3>2. SqControlOf(t)
      BY DEF SqControl
    <3>3. pc[t] \in {"compare", "block"} => call[t] # "none"
      BY <3>2 DEF SqControlOf
    <3> QED
      BY <2>4, <3>1, <3>3 DEF SqOnward, Settled
  <2> QED
    BY <2>2, <2>3, <2>4
<1>3. ASSUME NEW t \in Task PROVE SqTimesOf(t)'
  <2>0. SqTimesOf(t) /\ SqOwnerOf(t)
    BY DEF SqTimes, SqOwner
  <2>1. CASE state'[t] = state[t]
    <3>1. SqSame(t)
      BY <1>0, <2>1 DEF SqSame
    <3>2. pc[t] = "s_insert" => state[t] = "Blocked"
      BY <2>0 DEF SqOwnerOf, Adding
    <3> QED
      BY <1>0, <1>2, <2>0, <3>1, <3>2, SqTimesFrame
  <2>2. CASE state'[t] # state[t]
    <3>1. /\ state[t] = "Blocked" /\ state'[t] = "Ready" /\ pc[t] \in Settled
          /\ call[t] = "timeout" \/ outlived[t] \/ left[t] <= 0
      BY <2>2, SqTaken
    <3>2. pc[t] \notin {"compare", "block", "bsleep"}
      BY <3>1 DEF Settled
    <3>3. call[t] = "barrier" => outlived[t] \/ until_barrier[t] <= 0
      <4>1. call[t] = "barrier" => until_barrier[t] <= 0 \/ until_barrier[t] <= left[t]
        BY <2>0, <3>1 DEF SqTimesOf, Asleep
      <4>2. left[t] \in Int /\ until_barrier[t] \in Int
        BY SqNumbers
      <4> QED
        BY <3>1, <4>1, <4>2
    <3>4. /\ next_tick_to_wake[t] # NoBarrier => next_tick_to_wake[t] = Clock(until_barrier[t])
          /\ call[t] = "barrier" => until_barrier[t] <= MaxAhead
      BY <2>0 DEF SqTimesOf
    <3>5. ~Asleep(t)' /\ pc'[t] # "bsleep"
      BY <1>2, <3>1, <3>2 DEF Asleep
    <3> QED
      BY <1>0, <3>1, <3>3, <3>4, <3>5 DEF SqTimesOf, Clock
  <2> QED
    BY <2>1, <2>2
<1> QED
  BY <1>3 DEF SqTimes

\* A context takes a task out of a mailbox.
LEMMA SqTakeTimes ==
    ASSUME SqTypes, SqControl, SqTimes, NEW c \in Ctx, NEW t \in Task, take_out(c, t)
    PROVE  SqTimes'
<1>1. /\ pc[c] = "home" /\ pc' = [pc EXCEPT ![c] = "s_remove"]
      /\ UNCHANGED <<state, TICKS, wake_tick, next_tick_to_wake, until_barrier, call, left, outlived>>
  BY SqTakeLocals
<1>2. ASSUME NEW u \in Task PROVE SqTimesOf(u)'
  <2>0. SqTimesOf(u) /\ SqControlOf(u)
    BY DEF SqTimes, SqControl
  <2>1. pc'[u] = pc[u] \/ (pc[u] = "home" /\ pc'[u] = "s_remove")
    BY <1>1, SqContexts DEF SqTypes
  <2>2. pc[u] = "home" => call[u] = "none"
    BY <2>0 DEF SqControlOf, Preparing, Settled
  <2> QED
    BY <1>1, <2>0, <2>1, <2>2 DEF SqTimesOf, Asleep, Clock
<1> QED
  BY <1>2 DEF SqTimes

\* A switch: the task that yielded is where it is when it has slept.
LEMMA SqSwitchTimes ==
    ASSUME SqTypes, SqTimes, SleepSwitch
    PROVE  SqTimes'
<1>1. /\ \A c \in Ctx : pc'[c] = IF c = cur /\ pc[c] = "yield" THEN "slept" ELSE pc[c]
      /\ cur' \in Task \union {Idle}
      /\ cur' # Idle => state[cur'] # "Blocked"
      /\ state' = [t \in Task |-> IF t = cur' THEN "Running"
                                  ELSE IF state[t] = "Running" THEN "Ready" ELSE state[t]]
      /\ UNCHANGED <<TICKS, call, left, wake_tick, next_tick_to_wake, until_barrier, outlived>>
  BY SqSwitchLocals
<1> SUFFICES ASSUME NEW t \in Task PROVE SqTimesOf(t)'
  BY DEF SqTimes
<1>2. /\ SqTimesOf(t) /\ t # Idle
      /\ pc'[t] = IF t = cur /\ pc[t] = "yield" THEN "slept" ELSE pc[t]
      /\ state'[t] = "Blocked" <=> state[t] = "Blocked"
  BY <1>1, SqContexts DEF SqTimes
<1>3. /\ pc'[t] \in Settled <=> pc[t] \in Settled
      /\ pc'[t] \in {"compare", "block"} <=> pc[t] \in {"compare", "block"}
      /\ pc'[t] = "bsleep" <=> pc[t] = "bsleep"
  BY <1>2 DEF Settled
<1> QED
  BY <1>1, <1>2, <1>3 DEF SqTimesOf, Asleep, Clock

\* A barrier that is ahead is as many ticks ahead as the difference says.
LEMMA BarrierAhead ==
    ASSUME SqTypes, NEW n \in Int, -Half < n, n < Half, n > 0
    PROVE  (Clock(n) - TICKS) % Modulus = n
<1>0. /\ Half \in Nat /\ Half >= 1 /\ Modulus = 2 * Half /\ Modulus \in Nat
      /\ TICKS \in Int /\ 0 <= TICKS /\ TICKS < Modulus
  BY TickRange DEF SqTypes, Ticks
<1> DEFINE p == TICKS + n
           r == p % Modulus
           d == r - TICKS
<1>1. p \in Int /\ -Modulus <= p /\ p < 2 * Modulus
  BY <1>0
<1>2. r = IF p < 0 THEN p + Modulus ELSE IF p < Modulus THEN p ELSE p - Modulus
  <2> HIDE DEF p
  <2> QED
    BY <1>1, NearWrap
<1> HIDE DEF r
<1>3. d \in Int /\ -Modulus <= d /\ d < 2 * Modulus /\ (d = n \/ d = n - Modulus)
  BY <1>0, <1>1, <1>2
<1> HIDE DEF d
<1>4. d % Modulus = IF d < 0 THEN d + Modulus ELSE IF d < Modulus THEN d ELSE d - Modulus
  BY <1>3, NearWrap
<1>5. d % Modulus = n
  BY <1>0, <1>3, <1>4
<1> QED
  BY <1>5 DEF d, r, p, Clock

\* The next opening of a barrier.
LEMMA BarrierNext ==
    ASSUME SqTypes, NEW n \in Int, -Half < n, n < Half
    PROVE  (Clock(n) + Interval) % Modulus = Clock(n + Interval)
<1>0. /\ Half \in Nat /\ Half >= 1 /\ Modulus = 2 * Half /\ Modulus \in Nat
      /\ TICKS \in Int /\ 0 <= TICKS /\ TICKS < Modulus
      /\ Interval \in Nat /\ Interval < Half
  BY TickRange DEF SqTypes, Ticks
<1> DEFINE p == TICKS + n
           r == p % Modulus
           x == r + Interval
           y == TICKS + (n + Interval)
<1>1. /\ p \in Int /\ -Modulus <= p /\ p < 2 * Modulus /\ y = p + Interval
      /\ y \in Int /\ -Modulus <= y /\ y < 2 * Modulus
  BY <1>0
<1> HIDE DEF p, y
<1>2. r = IF p < 0 THEN p + Modulus ELSE IF p < Modulus THEN p ELSE p - Modulus
  BY <1>1, NearWrap
<1> HIDE DEF r
<1>3. /\ x \in Int /\ -Modulus <= x /\ x < 2 * Modulus
      /\ x = y \/ x = y + Modulus \/ x = y - Modulus
  BY <1>0, <1>1, <1>2
<1> HIDE DEF x
<1>4. /\ x % Modulus = IF x < 0 THEN x + Modulus ELSE IF x < Modulus THEN x ELSE x - Modulus
      /\ y % Modulus = IF y < 0 THEN y + Modulus ELSE IF y < Modulus THEN y ELSE y - Modulus
  BY <1>1, <1>3, NearWrap
<1>5. x % Modulus = y % Modulus
  BY <1>0, <1>1, <1>3, <1>4
<1> QED
  BY <1>5 DEF Clock, p, r, x, y

\* Steps of a task: the tick it computes is the clock plus the time it has left.
LEMMA SqClientTimes ==
    ASSUME SqTypes, SqControl, SqOwner, SqTimes, NEW t \in Task, ClientStep(t)
    PROVE  SqTimes'
<1>1. /\ t = cur /\ SqControlOf(t) /\ SqOwnerOf(t) /\ SqTimesOf(t) /\ t \in Ctx
      /\ SqOthers(t) /\ UNCHANGED TICKS
  BY SqClientStep, SqAlone, SqContexts DEF SqOwner, SqTimes, SqControl
<1>2. /\ TICKS \in Ticks /\ TICKS \in Int
      /\ left[t] \in Int /\ left[t] < Modulus
      /\ until_barrier[t] \in Int /\ 1 - Half <= until_barrier[t] /\ until_barrier[t] < Half
      /\ wake_tick[t] \in Int /\ 0 <= wake_tick[t] /\ wake_tick[t] < Modulus
      /\ Half \in Nat /\ Half >= 1 /\ Modulus = 2 * Half
      /\ Interval \in Nat /\ 1 <= Interval /\ Interval < Half /\ Durations \subseteq Nat
      /\ MaxAhead \in Nat /\ Interval <= MaxAhead /\ MaxAhead + Interval < Half
  BY SqNumbers, TickRange DEF SqTypes
<1>3. /\ pc[t] \in {"home", "bsleep", "compare", "block", "slept"} => state[t] # "Blocked"
      /\ pc[t] = "home" => call[t] = "none"
      /\ next_tick_to_wake[t] # NoBarrier => next_tick_to_wake[t] = Clock(until_barrier[t])
      /\ call[t] = "barrier" => until_barrier[t] <= MaxAhead /\ next_tick_to_wake[t] # NoBarrier
      /\ pc[t] \in {"bsleep", "compare", "block"} => call[t] # "timeout"
  BY <1>1 DEF SqOwnerOf, SqControlOf, SqTimesOf, Adding, Settled, Removing, Preparing
<1>4. SqTimesOf(t)'
  <2>1. CASE \E ms \in Durations : sleep_ms(t, ms)
    <3>1. PICK ms \in Durations : sleep_ms(t, ms)
      BY <2>1
    <3>2. /\ pc[t] = "home" /\ pc'[t] = "compare" /\ call'[t] = "sleep" /\ left'[t] = ms /\ ms < Half
          /\ wake_tick'[t] = (TICKS + ms) % Modulus
          /\ UNCHANGED <<state, next_tick_to_wake, until_barrier>>
      BY <1>1, <3>1 DEF sleep_ms, BeginSleep, At, Goto, SqTypes, barriers
    <3>3. /\ Asleep(t)' /\ "compare" \notin Settled
      BY <3>2 DEF Asleep, Settled
    <3> QED
      BY <1>1, <1>2, <1>3, <3>2, <3>3 DEF SqTimesOf, Clock
  <2>2. CASE barrier_new(t)
    <3>1. /\ pc[t] = "home" /\ pc'[t] = "home" /\ next_tick_to_wake'[t] = (TICKS + Interval) % Modulus
          /\ until_barrier'[t] = Interval /\ UNCHANGED <<state, call>>
      BY <1>1, <2>2 DEF barrier_new, At, SqTypes
    <3> QED
      BY <1>1, <1>2, <1>3, <3>1 DEF SqTimesOf, Asleep, Clock, Settled
  <2>3. CASE barrier_wait(t)
    <3>1. /\ pc[t] = "home" /\ next_tick_to_wake[t] # NoBarrier /\ call'[t] = "barrier"
          /\ pc'[t] = (IF tick_cmp(TICKS, next_tick_to_wake[t]) = -1 THEN "bsleep" ELSE "slept")
          /\ wake_tick'[t] = (next_tick_to_wake[t] - TICKS) % Modulus
          /\ until_barrier[t] <= MaxAhead
          /\ UNCHANGED <<state, next_tick_to_wake, until_barrier>>
      BY <1>1, <2>3 DEF barrier_wait, At, Goto, SqTypes, barriers
    <3> DEFINE n == until_barrier[t]
    <3>2. next_tick_to_wake[t] = Clock(n) /\ n \in Int /\ -Half < n /\ n < Half /\ n <= MaxAhead
      BY <1>2, <1>3, <3>1
    <3>4. tick_cmp(TICKS, Clock(n)) = -1 <=> n > 0
      <4> HIDE DEF n
      <4> QED
        BY <3>2, Overdue
    <3>5. n > 0 => wake_tick'[t] = n
      BY <3>1, <3>2, BarrierAhead
    <3>6. state[t] # "Blocked"
      BY <1>3, <3>1
    <3>7. /\ pc'[t] = "bsleep" => n > 0 /\ wake_tick'[t] = n
          /\ pc'[t] \in {"bsleep", "slept"}
          /\ pc'[t] = "slept" => n <= 0
      BY <3>1, <3>2, <3>4, <3>5
    <3>8. ~Asleep(t)' /\ "bsleep" \notin Settled
      BY <3>1, <3>6, <3>7 DEF Asleep, Settled
    <3>9. pc'[t] = "bsleep" => until_barrier'[t] <= wake_tick'[t] /\ wake_tick'[t] \in 1 .. MaxAhead
      BY <1>2, <3>1, <3>2, <3>7
    <3> QED
      BY <1>1, <1>2, <3>1, <3>2, <3>7, <3>8, <3>9 DEF SqTimesOf, Clock
  <2>4. CASE barrier_sleep(t)
    <3>1. /\ pc[t] = "bsleep" /\ pc'[t] = "compare" /\ left'[t] = wake_tick[t] /\ call'[t] = "barrier"
          /\ wake_tick'[t] = (TICKS + wake_tick[t]) % Modulus
          /\ UNCHANGED <<state, next_tick_to_wake, until_barrier>>
      BY <1>1, <2>4 DEF barrier_sleep, BeginSleep, Goto, At, SqTypes, barriers
    <3>2. call[t] = "barrier" /\ until_barrier[t] <= wake_tick[t] /\ wake_tick[t] \in 1 .. MaxAhead
      BY <1>1, <3>1 DEF SqTimesOf, SqControlOf
    <3>3. left'[t] < Half /\ until_barrier[t] <= left'[t]
      BY <1>2, <3>1, <3>2
    <3> QED
      BY <1>1, <1>3, <3>1, <3>2, <3>3 DEF SqTimesOf, Asleep, Clock, Settled
  <2>5. CASE sleep_compare(t)
    <3>1. /\ pc[t] = "compare"
          /\ pc'[t] = (IF tick_cmp(TICKS, wake_tick[t]) = -1 THEN "block" ELSE "slept")
          /\ UNCHANGED <<state, next_tick_to_wake, until_barrier, left, wake_tick, call>>
      BY <1>1, <2>5 DEF sleep_compare, At, Goto, SqTypes, barriers
    <3>2. Asleep(t) /\ call[t] # "timeout"
      BY <1>3, <3>1 DEF Asleep
    <3>3. left[t] < Half /\ (left[t] > 0 => tick_cmp(TICKS, wake_tick[t]) = -1)
      <4>1. left[t] < Half /\ (left[t] > 0 => wake_tick[t] = Clock(left[t]))
        BY <1>1, <3>2 DEF SqTimesOf
      <4>2. left[t] > 0 => tick_cmp(TICKS, Clock(left[t])) = -1
        BY <1>2, <4>1, Overdue
      <4> QED
        BY <4>1, <4>2
    <3>4. state[t] # "Blocked"
      BY <1>3, <3>1
    <3>5. pc'[t] = "slept" => left[t] <= 0 /\ (call[t] = "barrier" => until_barrier[t] <= 0)
      BY <1>1, <1>2, <3>1, <3>2, <3>3 DEF SqTimesOf
    <3>6. "block" \notin Settled /\ pc'[t] \in {"block", "slept"}
      BY <3>1 DEF Settled
    <3> QED
      BY <1>1, <1>2, <3>1, <3>2, <3>4, <3>5, <3>6 DEF SqTimesOf, Asleep, Clock
  <2>6. CASE \E ms \in Durations : timed_wait(t, ms)
    <3>1. /\ pc'[t] = "s_add" /\ call'[t] = "timeout"
          /\ UNCHANGED <<next_tick_to_wake, until_barrier>>
      BY <1>1, <2>6 DEF timed_wait, At, Goto, SqTypes, barriers
    <3> QED
      BY <1>1, <3>1 DEF SqTimesOf, Clock
  <2>7. CASE block(t)
    <3>1. /\ pc[t] = "block" /\ pc'[t] = "s_add" /\ state'[t] = "Blocked"
          /\ UNCHANGED <<next_tick_to_wake, until_barrier, left, wake_tick, call>>
      BY <1>1, <2>7 DEF block, sleep_block, At, Goto, SqTypes, barriers
    <3>2. Asleep(t) /\ Asleep(t)' /\ "s_add" \notin Settled
      BY <3>1 DEF Asleep, Settled
    <3> QED
      BY <1>1, <3>1, <3>2 DEF SqTimesOf, Clock
  <2>8. CASE leave_box(t)
    <3>1. /\ pc[t] = "leave_box" /\ pc'[t] \in {"s_remove", "yield"}
          /\ UNCHANGED <<next_tick_to_wake, until_barrier, call>>
      BY <1>1, <2>8 DEF leave_box, At, Goto, SqTypes, barriers
    <3>2. call[t] = "timeout"
      BY <1>1, <3>1 DEF SqControlOf, Removing
    <3> QED
      BY <1>1, <3>1, <3>2 DEF SqTimesOf, Clock
  <2>9. CASE return(t)
    <3>1. pc[t] = "slept" /\ pc'[t] = "home" /\ call'[t] = "none" /\ UNCHANGED state
      BY <1>1, <2>9 DEF return, sleep_return, At, Goto, SqTypes
    <3>2. \/ UNCHANGED <<next_tick_to_wake, until_barrier>>
          \/ /\ call[t] = "barrier"
             /\ next_tick_to_wake'[t] = (next_tick_to_wake[t] + Interval) % Modulus
             /\ until_barrier'[t] = until_barrier[t] + Interval
      BY <1>1, <2>9 DEF return, sleep_return, SqTypes, barriers
    <3>3. next_tick_to_wake'[t] # NoBarrier =>
             next_tick_to_wake'[t] = (TICKS + until_barrier'[t]) % Modulus
      <4>1. CASE UNCHANGED <<next_tick_to_wake, until_barrier>>
        BY <1>3, <4>1 DEF Clock
      <4>2. CASE /\ call[t] = "barrier"
                 /\ next_tick_to_wake'[t] = (next_tick_to_wake[t] + Interval) % Modulus
                 /\ until_barrier'[t] = until_barrier[t] + Interval
        <5>1. next_tick_to_wake[t] = Clock(until_barrier[t])
          BY <1>3, <4>2
        <5>2. (Clock(until_barrier[t]) + Interval) % Modulus = Clock(until_barrier[t] + Interval)
          BY <1>2, BarrierNext
        <5> QED
          BY <4>2, <5>1, <5>2 DEF Clock
      <4> QED
        BY <3>2, <4>1, <4>2
    <3>4. ~Asleep(t)' /\ "home" \notin Settled
      BY <1>3, <3>1 DEF Asleep, Settled
    <3> QED
      BY <1>1, <3>1, <3>3, <3>4 DEF SqTimesOf, Clock
  <2> QED
    BY <2>1, <2>2, <2>3, <2>4, <2>5, <2>6, <2>7, <2>8, <2>9 DEF ClientStep, SleepCall
<1>5. ASSUME NEW u \in Task, u # t PROVE SqTimesOf(u)'
  <2>1. SqTimesOf(u) /\ SqSame(u) /\ pc'[u] = pc[u]
    BY <1>1, <1>5, SqContexts DEF SqTimes, SqOthers
  <2> QED
    BY <1>1, <2>1, SqTimesFrame
<1> QED
  BY <1>4, <1>5 DEF SqTimes

-----------------------------------------------------------------------------
(***************************************************************************)
(* Types.                                                                  *)
(***************************************************************************)
\* The types after a step inside the queue.
LEMMA SqQueueTypes ==
    ASSUME SqTypes, SqControl, NEW c \in Ctx, Inside(c), UNCHANGED clients
    PROVE  SqTypes'
<1>1. UNCHANGED <<cur, TICKS, wake_tick, next_tick_to_wake, until_barrier, call, whom, left, recorded, outlived>>
  BY SqQueueStep DEF clients
<1>2. PICK s : SqPasses(c, s)
  BY SqQueueStep
<1>3. s \in ClientSteps
  BY <1>2, SqStepNames DEF SqPasses, SqStays, SqWithin, SqLeaves, SqEnters, SqPends, SqTypes, Holding
<1>4. pc' \in [Ctx -> ClientSteps] /\ ret' \in [Ctx -> ClientSteps]
  BY <1>2, <1>3, SqStepNames DEF SqPasses, SqStays, SqLeaves, SqEnters, SqPends, SqTypes
<1>5. s_locked' \in BOOLEAN
  BY <1>2 DEF SqPasses, SqStays, SqLeaves, SqEnters, SqPends, SqTypes
<1>6. held' \in 0 .. MaxTicksPerHold
  BY <1>2, TickRange DEF SqPasses, SqStays, SqLeaves, SqEnters, SqPends, SqTypes
<1>7. time_to_wakeup' \in BOOLEAN /\ s_pending' \in BOOLEAN
  BY Zenon DEF Inside, SleepStep, s_leave, run_pended_op, wake_expired_tasks, drain_delete_buffer,
     clear_time_to_wakeup, wake_sleeping_tasks, add_guard, add_insert, remove_guard, remove_full, squeue,
     SqTypes
<1>8. /\ time_sorted_queue' \in Seq(Task) /\ delete_buffer' \in Seq(Task)
      /\ state' \in [Task -> {"Ready", "Running", "Blocked"}]
  <2>0. /\ time_sorted_queue \in Seq(Task) /\ delete_buffer \in Seq(Task)
        /\ state \in [Task -> {"Ready", "Running", "Blocked"}]
    BY DEF SqTypes
  <2>1. CASE SqNoneMoves
    BY <2>0, <2>1 DEF SqNoneMoves
  <2>2. CASE \E ts : SqTakesOut(ts)
    <3>1. PICK ts : SqTakesOut(ts)
      BY <2>2
    <3>2. time_sorted_queue' \in Seq(Task)
      BY <2>0, <3>1, WithoutTasks DEF SqTakesOut
    <3>3. delete_buffer' \in Seq(Task)
      <4>1. <<>> \in Seq(Task)
        OBVIOUS
      <4>2. delete_buffer' = delete_buffer \/ delete_buffer' = <<>>
        BY <3>1 DEF SqTakesOut
      <4> QED
        BY <2>0, <4>1, <4>2
    <3>4. state' \in [Task -> {"Ready", "Running", "Blocked"}]
      BY <2>0, <3>1 DEF SqTakesOut, accept_task
    <3> QED
      BY <3>2, <3>3, <3>4
  <2>3. CASE SqPutsIn(c)
    <3>1. PICK at \in 1 .. Len(time_sorted_queue) + 1 :
             push_back_tick_sorted(time_sorted_queue, c, wake_tick[c]) = InsertAt(time_sorted_queue, at, c)
      BY <2>0, <2>3, PushSorted DEF SqPutsIn
    <3> QED
      BY <2>0, <2>3, <3>1, InsertTask DEF SqPutsIn
  <2>4. CASE SqDefers(c)
    <3>1. whom[c] \in Task
      BY <2>4 DEF SqDefers, SqControl, SqRemoverOf
    <3> QED
      BY <2>0, <2>4, <3>1, AppendTask DEF SqDefers
  <2> QED
    BY <2>1, <2>2, <2>3, <2>4, SqQueueData
<1> QED
  BY <1>1, <1>4, <1>5, <1>6, <1>7, <1>8 DEF SqTypes

\* The types after a tick.
LEMMA SqTickTypes ==
    ASSUME SqTypes, advance_tick, UNCHANGED clients
    PROVE  SqTypes'
<1>0. /\ Half \in Nat /\ Half >= 1 /\ MaxLate \in Nat /\ MaxTicksPerHold \in Nat
      /\ Modulus \in Nat /\ Modulus = 2 * Half
  BY TickRange
<1>1. UNCHANGED <<cur, state, time_sorted_queue, delete_buffer, time_to_wakeup, s_locked, s_pending,
                  wake_tick, next_tick_to_wake, call, whom, ret, recorded, outlived>>
  BY DEF advance_tick, squeue, clients
<1>2. pc' \in [Ctx -> ClientSteps]
  BY SqStepNames DEF advance_tick, Goto, SqTypes
<1>4. held' \in 0 .. MaxTicksPerHold
  <2>1. held' = (IF s_locked THEN held + 1 ELSE 0) /\ (s_locked => held < MaxTicksPerHold)
    BY DEF advance_tick, TickAllowed
  <2> QED
    BY <1>0, <2>1 DEF SqTypes
<1>5. TICKS' \in Ticks
  BY ClockMoves DEF advance_tick, SqTypes
<1>6. left' \in [Task -> -MaxLate .. Modulus - 1]
  <2>1. left' = [t \in Task |-> IF call[t] = "none" THEN 0 ELSE Later(left[t])]
    BY DEF advance_tick
  <2>2. ASSUME NEW t \in Task
        PROVE  0 \in -MaxLate .. Modulus - 1 /\ Later(left[t]) \in -MaxLate .. Modulus - 1
    <3>1. left[t] \in Int /\ -MaxLate <= left[t] /\ left[t] < Modulus
      BY SqNumbers
    <3> QED
      BY <1>0, <3>1 DEF Later
  <2> QED
    BY <2>1, <2>2
<1>7. until_barrier' \in [Task -> 1 - Half .. Half - 1]
  <2>1. /\ until_barrier' = [t \in Task |-> IF next_tick_to_wake[t] = NoBarrier THEN 0
                                            ELSE until_barrier[t] - 1]
        /\ \A t \in Task : next_tick_to_wake[t] # NoBarrier => until_barrier[t] > 1 - Half
    BY DEF advance_tick, TickAllowed
  <2>2. ASSUME NEW t \in Task
        PROVE  /\ 0 \in 1 - Half .. Half - 1
               /\ next_tick_to_wake[t] # NoBarrier => until_barrier[t] - 1 \in 1 - Half .. Half - 1
    <3>1. until_barrier[t] \in Int /\ until_barrier[t] < Half
      BY SqNumbers
    <3> QED
      BY <1>0, <2>1, <3>1
  <2> QED
    BY <2>1, <2>2
<1> QED
  BY <1>1, <1>2, <1>4, <1>5, <1>6, <1>7 DEF SqTypes

\* The types after a step of a task.
LEMMA SqClientTypes ==
    ASSUME SqInv, NEW t \in Task, ClientStep(t)
    PROVE  SqTypes'
<1>0. /\ Half \in Nat /\ Half >= 1 /\ Interval \in Nat /\ Interval >= 1 /\ Interval < Half
      /\ MaxLate \in Nat /\ MaxTicksPerHold \in Nat /\ MaxAhead \in Nat /\ MaxAhead + Interval < Half
      /\ Modulus \in Nat /\ Modulus >= 1 /\ Modulus = 2 * Half /\ Durations \subseteq Nat /\ SqTypes
  BY TickRange DEF SqInv
<1>1. /\ left[t] \in Int /\ wake_tick[t] \in Int /\ TICKS \in Int
      /\ until_barrier[t] \in Int /\ 1 - Half <= until_barrier[t]
      /\ t \in Ctx /\ SqTimesOf(t) /\ SqControlOf(t)
  BY <1>0, SqNumbers, SqContexts DEF SqInv, SqTimes, SqControl
<1>2. UNCHANGED <<cur, TICKS, time_sorted_queue, delete_buffer, time_to_wakeup, s_locked, s_pending, held>>
  BY <1>0, SqClientStep
<1>3. pc' \in [Ctx -> ClientSteps]
  <2>1. SqWays(t)
    BY <1>0, SqClientWays
  <2>2. \E s \in ClientSteps : pc' = [pc EXCEPT ![t] = s]
    BY <2>1 DEF SqWays, SqGoes, ClientSteps, SleepSteps, SuspendedSteps
  <2> QED
    BY <1>0, <2>2 DEF SqTypes
<1>4. /\ state' \in [Task -> {"Ready", "Running", "Blocked"}]
      /\ call' \in [Task -> {"none", "sleep", "barrier", "timeout"}]
      /\ ret' \in [Ctx -> ClientSteps]
      /\ whom' \in [Ctx -> Task \union {Idle}]
  <2>1. \/ UNCHANGED state \/ state' = [state EXCEPT ![t] = "Blocked"]
    BY DEF ClientStep, SleepCall, sleep_ms, barrier_new, barrier_wait,
       barrier_sleep, sleep_compare, timed_wait, block, sleep_block, leave_box, return, sleep_return, BeginSleep
  <2>2. UNCHANGED call \/ \E k \in {"none", "sleep", "barrier", "timeout"} : call' = [call EXCEPT ![t] = k]
    BY DEF ClientStep, SleepCall, sleep_ms, barrier_new, barrier_wait,
       barrier_sleep, sleep_compare, timed_wait, block, sleep_block, leave_box, return, sleep_return, BeginSleep
  <2>3. UNCHANGED ret \/ \E s \in {"yield", "leave_box"} : ret' = [ret EXCEPT ![t] = s]
    BY DEF ClientStep, SleepCall, sleep_ms, barrier_new, barrier_wait,
       barrier_sleep, sleep_compare, timed_wait, block, sleep_block, leave_box, return, sleep_return, BeginSleep
  <2>4. UNCHANGED whom \/ whom' = [whom EXCEPT ![t] = t]
    BY DEF ClientStep, SleepCall, sleep_ms, barrier_new, barrier_wait,
       barrier_sleep, sleep_compare, timed_wait, block, sleep_block, leave_box, return, sleep_return, BeginSleep
  <2>5. "yield" \in ClientSteps /\ "leave_box" \in ClientSteps
    BY SqStepNames
  <2>6. state' \in [Task -> {"Ready", "Running", "Blocked"}]
    BY <1>0, <2>1 DEF SqTypes
  <2>7. call' \in [Task -> {"none", "sleep", "barrier", "timeout"}]
    BY <1>0, <2>2 DEF SqTypes
  <2>8. ret' \in [Ctx -> ClientSteps]
    <3>1. ret \in [Ctx -> ClientSteps]
      BY <1>0 DEF SqTypes
    <3>2. UNCHANGED ret \/ \E s \in ClientSteps : ret' = [ret EXCEPT ![t] = s]
      BY <2>3, <2>5
    <3> QED
      BY <3>1, <3>2
  <2>9. whom' \in [Ctx -> Task \union {Idle}]
    BY <1>0, <2>4 DEF SqTypes
  <2> QED
    BY <2>6, <2>7, <2>8, <2>9
<1>5. recorded' \in [Task -> BOOLEAN] /\ outlived' \in [Task -> BOOLEAN]
  <2>1. \/ UNCHANGED recorded \/ recorded' = [recorded EXCEPT ![t] = TRUE]
        \/ recorded' = [recorded EXCEPT ![t] = FALSE]
    BY DEF ClientStep, timed_wait, block, leave_box, return, clients
  <2>2. \/ UNCHANGED outlived \/ outlived' = [outlived EXCEPT ![t] = FALSE]
        \/ outlived' = [outlived EXCEPT ![t] = Has(delete_buffer, t)]
    BY DEF ClientStep, timed_wait, block, leave_box, return, clients
  <2>3. Has(delete_buffer, t) \in BOOLEAN
    BY DEF Has
  <2>4. recorded \in [Task -> BOOLEAN] /\ outlived \in [Task -> BOOLEAN]
    BY <1>0 DEF SqTypes
  <2>5. recorded' \in [Task -> BOOLEAN]
    BY <2>1, <2>4, Zenon
  <2>6. outlived' \in [Task -> BOOLEAN]
    BY <2>2, <2>3, <2>4, Zenon
  <2> QED
    BY <2>5, <2>6
<1>7. \A x \in Int : x % Modulus \in Ticks
  BY <1>0 DEF Ticks
<1>8. wake_tick' \in [Task -> Ticks]
  <2>1. \/ UNCHANGED wake_tick
        \/ \E w \in Ticks : wake_tick' = [wake_tick EXCEPT ![t] = w]
    <3>2. (TICKS + wake_tick[t]) % Modulus \in Ticks
      BY <1>1, <1>7
    <3>3. next_tick_to_wake[t] # NoBarrier => (next_tick_to_wake[t] - TICKS) % Modulus \in Ticks
      <4>1. next_tick_to_wake[t] # NoBarrier => next_tick_to_wake[t] - TICKS \in Int
        BY <1>0, <1>1, SqNumbers DEF Ticks
      <4> QED
        BY <1>7, <4>1
    <3>4. 0 \in Ticks
      BY <1>0 DEF Ticks
    <3>5. ASSUME NEW ms \in Durations PROVE (TICKS + ms) % Modulus \in Ticks
      <4>1. TICKS + ms \in Int
        BY <1>0, <1>1, <3>5
      <4> QED
        BY <1>7, <4>1
    <3> QED
      BY <3>2, <3>3, <3>4, <3>5 DEF ClientStep, SleepCall, sleep_ms, barrier_new, barrier_wait,
         barrier_sleep, sleep_compare, timed_wait, block, sleep_block, leave_box, return, sleep_return,
         BeginSleep
  <2> QED
    BY <1>0, <2>1 DEF SqTypes
<1>9. left' \in [Task -> -MaxLate .. Modulus - 1]
  <2>1. \/ UNCHANGED left
        \/ \E w \in -MaxLate .. Modulus - 1 : left' = [left EXCEPT ![t] = w]
    <3>1. wake_tick[t] \in -MaxLate .. Modulus - 1
      BY <1>0, SqNumbers
    <3>2. \A ms \in Durations : ms \in -MaxLate .. Modulus - 1
      BY <1>0, DurationAssumption
    <3>3. 0 \in -MaxLate .. Modulus - 1
      BY <1>0
    <3> QED
      BY <3>1, <3>2, <3>3 DEF ClientStep, SleepCall, sleep_ms, barrier_new, barrier_wait,
         barrier_sleep, sleep_compare, timed_wait, block, sleep_block, leave_box, return, sleep_return,
         BeginSleep
  <2> QED
    BY <1>0, <2>1 DEF SqTypes
<1>10. next_tick_to_wake' \in [Task -> Ticks \union {NoBarrier}]
  <2>1. \/ UNCHANGED next_tick_to_wake
        \/ \E w \in Ticks : next_tick_to_wake' = [next_tick_to_wake EXCEPT ![t] = w]
    <3>1. (TICKS + Interval) % Modulus \in Ticks
      <4>1. TICKS + Interval \in Int
        BY <1>0, <1>1
      <4> QED
        BY <1>7, <4>1
    <3>2. next_tick_to_wake[t] \in Int
      BY <1>0 DEF SqTypes, Ticks, NoBarrier
    <3>3. (next_tick_to_wake[t] + Interval) % Modulus \in Ticks
      <4>1. next_tick_to_wake[t] + Interval \in Int
        BY <1>0, <3>2
      <4> QED
        BY <1>7, <4>1
    <3> QED
      BY <3>1, <3>3 DEF ClientStep, SleepCall, sleep_ms, barrier_new, barrier_wait,
         barrier_sleep, sleep_compare, timed_wait, block, sleep_block, leave_box, return, sleep_return,
         barriers
  <2> QED
    BY <1>0, <2>1 DEF SqTypes
<1>11. until_barrier' \in [Task -> 1 - Half .. Half - 1]
  <2>1. \/ UNCHANGED until_barrier
        \/ \E w \in 1 - Half .. Half - 1 : until_barrier' = [until_barrier EXCEPT ![t] = w]
    <3>1. Interval \in 1 - Half .. Half - 1
      BY <1>0
    <3>2. call[t] = "barrier" => until_barrier[t] + Interval \in 1 - Half .. Half - 1
      <4>1. call[t] = "barrier" => until_barrier[t] <= MaxAhead
        BY <1>1 DEF SqTimesOf
      <4> QED
        BY <1>0, <1>1, <4>1
    <3> QED
      BY <3>1, <3>2 DEF ClientStep, SleepCall, sleep_ms, barrier_new, barrier_wait,
         barrier_sleep, sleep_compare, timed_wait, block, sleep_block, leave_box, return, sleep_return,
         barriers
  <2> QED
    BY <1>0, <2>1 DEF SqTypes
<1> QED
  BY <1>0, <1>2, <1>3, <1>4, <1>5, <1>8, <1>9, <1>10, <1>11 DEF SqTypes

\* The types after a removal from a mailbox.
LEMMA SqTakeTypes ==
    ASSUME SqTypes, SqControl, NEW c \in Ctx, NEW t \in Task, take_out(c, t)
    PROVE  SqTypes'
<1>1. /\ pc' = [pc EXCEPT ![c] = "s_remove"] /\ whom' = [whom EXCEPT ![c] = t]
      /\ recorded' = [recorded EXCEPT ![t] = FALSE]
      /\ UNCHANGED <<cur, state, TICKS, time_sorted_queue, delete_buffer, time_to_wakeup,
                     s_locked, s_pending, wake_tick, next_tick_to_wake, until_barrier, call,
                     ret, held, left, outlived>>
  BY SqTakeLocals
<1>2. pc' \in [Ctx -> ClientSteps] /\ whom' \in [Ctx -> Task \union {Idle}]
  BY <1>1 DEF SqTypes, ClientSteps, SleepSteps, SuspendedSteps
<1>3. recorded' \in [Task -> BOOLEAN]
  BY <1>1, Zenon DEF SqTypes
<1> QED
  BY <1>1, <1>2, <1>3 DEF SqTypes

\* The types after a switch.
LEMMA SqSwitchTypes ==
    ASSUME SqTypes, SleepSwitch
    PROVE  SqTypes'
<1>1. /\ pc' \in [Ctx -> ClientSteps]
      /\ cur' \in Task \union {Idle}
      /\ state' = [t \in Task |-> IF t = cur' THEN "Running"
                                  ELSE IF state[t] = "Running" THEN "Ready" ELSE state[t]]
      /\ UNCHANGED <<TICKS, time_sorted_queue, delete_buffer, time_to_wakeup, s_locked,
                     s_pending, wake_tick, next_tick_to_wake, until_barrier, call, whom, ret,
                     held, left, recorded, outlived>>
  BY SqSwitchLocals
<1>3. state' \in [Task -> {"Ready", "Running", "Blocked"}]
  BY <1>1 DEF SqTypes
<1> QED
  BY <1>1, <1>3 DEF SqTypes

-----------------------------------------------------------------------------
(***************************************************************************)
(* The invariant of the sleep queue.                                       *)
(***************************************************************************)
LEMMA SqInitInv == SleepInit => SqInv
<1> SUFFICES ASSUME SleepInit PROVE SqInv
  OBVIOUS
<1>0. /\ Half \in Nat /\ Half >= 1 /\ MaxLate \in Nat /\ MaxTicksPerHold \in Nat
      /\ Modulus \in Nat /\ Modulus >= 1 /\ BootedFor \in Nat
  BY TickRange
<1>1. SqTypes
  <2>1. /\ TICKS \in Ticks /\ 0 \in Ticks /\ 0 \in 0 .. MaxTicksPerHold /\ 0 \in -MaxLate .. Modulus - 1
        /\ 0 \in 1 - Half .. Half - 1
    BY <1>0 DEF SleepInit, InitSleepQueue, Ticks
  <2>2. <<>> \in Seq(Task)
    OBVIOUS
  <2>3. FALSE \in BOOLEAN
    OBVIOUS
  <2>4. recorded \in [Task -> BOOLEAN] /\ outlived \in [Task -> BOOLEAN]
    BY <2>3, Zenon DEF SleepInit
  <2> QED
    BY <2>1, <2>2, <2>3, <2>4, SqStepNames DEF SleepInit, InitSleepQueue, InitCore, SqTypes
<1>2. /\ \A c \in Ctx : pc[c] = "home" /\ ret[c] = "home"
      /\ \A t \in Task : call[t] = "none" /\ ~recorded[t]
      /\ ~s_locked /\ ~s_pending
  BY DEF SleepInit, InitSleepQueue, InitCore
<1>3. SqControl
  <2>1. \A t \in Task : SqControlOf(t)
    BY <1>2, SqContexts DEF SqControlOf, Removing, Suspended, SuspendedSteps
  <2>2. \A e \in Irq : SqHandlerOf(e)
    BY <1>2, SqContexts DEF SqHandlerOf, Removing, Handling
  <2>3. \A c \in Ctx : SqRemoverOf(c)
    BY <1>2 DEF SqRemoverOf
  <2>4. SqLock
    BY <1>2 DEF SqLock, Holding
  <2> QED
    BY <2>1, <2>2, <2>3, <2>4 DEF SqControl
<1>4. /\ \A t \in Task : pc[t] = "home" /\ state[t] = "Ready" /\ next_tick_to_wake[t] = NoBarrier
      /\ \A u : ~Has(time_sorted_queue, u)
      /\ Distinct(time_sorted_queue)
  BY <1>2, SqContexts DEF SleepInit, InitSleepQueue, InitCore, Has, Distinct
<1>5. SqOwner
  BY <1>2, <1>4 DEF SqOwner, SqOwnerOf, Adding, Settled
<1>6. SqTimes
  BY <1>2, <1>4 DEF SqTimes, SqTimesOf, Asleep, Settled
<1> QED
  BY <1>1, <1>3, <1>5, <1>6 DEF SqInv

\* A step that changes nothing.
LEMMA SqStutter ==
    ASSUME SqInv, UNCHANGED clvars
    PROVE  SqInv'
<1>0. SqTypes /\ SqControl /\ SqOwner /\ SqTimes
  BY DEF SqInv
<1>1. UNCHANGED <<cur, state, pc, TICKS, time_sorted_queue, delete_buffer, time_to_wakeup, s_locked,
                  s_pending, wake_tick, next_tick_to_wake, until_barrier, call, whom, ret, held, left,
                  recorded, outlived>>
  BY DEF clvars, sqvars, squeue, barriers, clients
<1>2. SqTypes'
  BY <1>0, <1>1 DEF SqTypes
<1>3. SqControl'
  BY <1>0, <1>1 DEF SqControl, SqControlOf, SqHandlerOf, SqRemoverOf, SqLock
<1>4. SqOwner'
  BY <1>0, <1>1 DEF SqOwner, SqOwnerOf, Adding
<1>5. SqTimes'
  BY <1>0, <1>1 DEF SqTimes, SqTimesOf, Asleep, Clock
<1> QED
  BY <1>2, <1>3, <1>4, <1>5 DEF SqInv

\* The steps there are.
LEMMA SqSteps ==
    ASSUME [SleepNext]_clvars
    PROVE  \/ advance_tick /\ UNCHANGED clients
           \/ \E c \in Ctx : Inside(c) /\ UNCHANGED clients
           \/ \E t \in Task : ClientStep(t)
           \/ \E c \in Ctx, t \in Task : take_out(c, t)
           \/ SleepSwitch
           \/ UNCHANGED clvars
<1>1. ASSUME NEW c \in Ctx, die(c), UNCHANGED clients PROVE UNCHANGED clvars
  BY <1>1 DEF die, clvars
<1> QED
  BY <1>1 DEF SleepNext, RemoveStep, Inside

\* Every step keeps the invariant.
LEMMA SqNextInv == SqInv /\ [SleepNext]_clvars => SqInv'
<1> SUFFICES ASSUME SqInv, [SleepNext]_clvars PROVE SqInv'
  OBVIOUS
<1>0. SqTypes /\ SqControl /\ SqOwner /\ SqTimes
  BY DEF SqInv
<1>1. CASE advance_tick /\ UNCHANGED clients
  BY <1>0, <1>1, SqTickTypes, SqTickControl, SqTickOwner, SqTickTimes DEF SqInv
<1>2. ASSUME NEW c \in Ctx, Inside(c), UNCHANGED clients PROVE SqInv'
  BY <1>0, <1>2, SqQueueTypes, SqQueueControl, SqQueueOwner, SqQueueTimes DEF SqInv
<1>3. ASSUME NEW t \in Task, ClientStep(t) PROVE SqInv'
  BY <1>0, <1>3, SqClientTypes, SqClientControl, SqClientOwner, SqClientTimes DEF SqInv
<1>4. ASSUME NEW c \in Ctx, NEW t \in Task, take_out(c, t) PROVE SqInv'
  BY <1>0, <1>4, SqTakeTypes, SqTakeControl, SqTakeOwner, SqTakeTimes DEF SqInv
<1>5. CASE SleepSwitch
  BY <1>0, <1>5, SqSwitchTypes, SqSwitchControl, SqSwitchOwner, SqSwitchTimes DEF SqInv
<1>6. CASE UNCHANGED clvars
  BY <1>6, SqStutter
<1> QED
  BY <1>1, <1>2, <1>3, <1>4, <1>5, <1>6, SqSteps

(***************************************************************************)
(* The inductive invariant of the sleep queue and its clients.             *)
(***************************************************************************)
THEOREM SleepInvariance == SleepSpec => []SqInv
  BY SqInitInv, SqNextInv, PTL DEF SleepSpec

(***************************************************************************)
(* Nobody returns from sleep_ms or from IntervalBarrier::wait before the   *)
(* time, for any width of the counter, any durations, any number of tasks, *)
(* any delay between the readings of the clock, and with any contexts that *)
(* take tasks out of the queue -- except for the task for which, as it     *)
(* blocked, a removal meant for an earlier wait was still in               *)
(* delete_buffer.                                                          *)
(***************************************************************************)
THEOREM NobodyWakesEarly == SleepSpec => []NoEarlyWakeup
<1>1. SqInv => NoEarlyWakeup
  BY DEF SqInv, SqTimes, SqTimesOf, Settled, NoEarlyWakeup
<1> QED
  BY <1>1, SleepInvariance, PTL

-----------------------------------------------------------------------------
(***************************************************************************)
(* The order of the queue.  tick_cmp is exact only for ticks less than     *)
(* half the range apart, so the argument is about how late a task in the   *)
(* queue can be.  While the queue is unlocked it is at most MaxLag ticks   *)
(* late, what it was when it came in; a holder that has seen ticks lets    *)
(* nobody stay who is late, except for the ticks that came after it has    *)
(* looked: those can be forgotten when the flag is cleared, and are at     *)
(* most MaxTicksPerHold.                                                   *)
(***************************************************************************)
Member(t) == Has(time_sorted_queue, t)

\* A task on its way into the queue or in it: its tick is the clock plus the
\* time it has left.
SqDueOf(t) ==
    /\ Member(t) \/ pc[t] \in Preparing => left[t] + MaxLag < Half /\ wake_tick[t] = Clock(left[t])
    /\ pc[t] \in Preparing => left[t] >= -MaxLag

SqDue == \A t \in Task : SqDueOf(t)

SqGap == \A t, u \in Task : pc[t] \in Preparing /\ Member(u) => left[t] - left[u] < Half

\* How late the tasks in the queue are.  A holder that SysTick has interrupted counts the
\* ticks; one that has interrupted SysTick sees none, but SysTick has counted its own.
Late(n) == \A t \in Task : Member(t) => left[t] >= -n
HeldBelow == \E d \in Task \union 1 .. SysTick - 1 : pc[d] \in Holding
Slack == IF pc[SysTick] = "home" \/ HeldBelow THEN held ELSE 1

\* The holder is going to wake the tasks whose time has come.
WillExpire(c) ==
    \/ s_pending /\ time_to_wakeup /\ pc[c] \in {"s_insert", "s_take", "s_leave"}
    \/ time_to_wakeup /\ pc[c] = "s_run"
    \/ pc[c] = "expire_pended"

SqHolderOf(c) ==
    /\ pc[c] \in {"drain_pended", "clear"} => Late(held)
    /\ pc[c] \in Holding /\ pc[SysTick] = "home" =>
          held = 0 \/ WillExpire(c) \/ (pc[c] # "s_insert" /\ Late(held))

SqFloor ==
    /\ Late(MaxLag + Slack)
    /\ ~s_locked => held = 0
    /\ pc[SysTick] \in Holding \ {"expire"} => Late(0)
    /\ \A c \in Ctx \ {SysTick} : SqHolderOf(c)

SqOrder == QueueOrdered /\ SqDue /\ SqGap /\ SqFloor

-----------------------------------------------------------------------------
\* A task in the queue is in a call and past its insertion.
LEMMA SqMember ==
    ASSUME SqInv, NEW t \in Task, Member(t)
    PROVE  /\ pc[t] \in Settled /\ pc[t] \notin Preparing /\ state[t] = "Blocked" /\ call[t] # "none"
           /\ t = cur => pc[t] # "slept"
<1>1. SqOwnerOf(t) /\ SqControlOf(t)
  BY DEF SqInv, SqOwner, SqControl
<1>2. state[t] = "Blocked" /\ pc[t] \in Settled /\ call[t] # "none" /\ (t = cur => pc[t] # "slept")
  BY <1>1 DEF SqOwnerOf, Member
<1>3. pc[t] \notin Preparing
  BY <1>2 DEF Settled, Preparing
<1> QED
  BY <1>2, <1>3

\* How late a task in the queue can be at most.
LEMMA SqLateness ==
    ASSUME SqInv, SqFloor, NEW t \in Task, Member(t)
    PROVE  /\ left[t] \in Int /\ left[t] >= -(MaxLag + Slack) /\ Slack \in Nat
           /\ Slack <= MaxTicksPerHold
<1>1. left[t] \in Int
  BY SqNumbers DEF SqInv
<1>2. Slack \in Nat /\ Slack <= MaxTicksPerHold
  BY TickRange DEF SqInv, SqTypes, Slack
<1> QED
  BY <1>1, <1>2 DEF SqFloor, Late

\* Interrupts below SysTick and tasks are the contexts it preempts; what runs while SysTick
\* is active is SysTick or above it.
LEMMA SqLevels ==
    /\ Task \union 1 .. SysTick - 1 \subseteq Ctx \ {SysTick}
    /\ \A c \in Ctx : c \notin Task \union 1 .. SysTick - 1 => c \in Irq /\ c >= SysTick
    /\ \A c \in Ctx : Running(c) /\ c # SysTick /\ pc[SysTick] # "home" =>
          c \notin Task \union 1 .. SysTick - 1
<1>1. NIrq \in Nat /\ Irq = 1 .. NIrq /\ SysTick \in 1 .. NIrq /\ Ctx = Task \union Irq
  BY IrqAssumption, SysTickAssumption DEF Irq, Ctx
<1>2. \A t \in Task : t \notin Irq /\ t # SysTick
  BY SqContexts
<1>3. Task \union 1 .. SysTick - 1 \subseteq Ctx \ {SysTick}
  BY <1>1, <1>2
<1>4. \A c \in Ctx : c \notin Task \union 1 .. SysTick - 1 => c \in Irq /\ c >= SysTick
  BY <1>1
<1>5. ASSUME NEW c \in Ctx, Running(c), c # SysTick, pc[SysTick] # "home"
      PROVE  c \notin Task \union 1 .. SysTick - 1
  <2>1. c \in Irq
    BY <1>1, <1>5 DEF Running, ThreadMode
  <2>2. \A e \in Irq : e > c => pc[e] = "home"
    BY <1>5, <2>1 DEF Running
  <2>3. ~(SysTick > c)
    BY <1>1, <1>5, <2>2
  <2> QED
    BY <1>1, <1>2, <2>1, <2>3
<1> QED
  BY <1>3, <1>4, <1>5

\* A holder that SysTick has interrupted.
LEMMA SqBelow ==
    ASSUME SqTypes, SqControl, \A e \in Irq : e > SysTick => pc[e] = "home", pc[SysTick] \notin Holding
    PROVE  s_locked <=> HeldBelow
<1>1. s_locked <=> \E c \in Ctx : pc[c] \in Holding
  BY DEF SqControl, SqLock
<1>2. "home" \notin Holding
  BY DEF Holding
<1>3. ASSUME NEW c \in Ctx, pc[c] \in Holding PROVE c \in Task \union 1 .. SysTick - 1
  <2>1. CASE c \in Irq /\ c >= SysTick
    <3>1. c = SysTick \/ c > SysTick
      BY <2>1, SqContexts
    <3> QED
      BY <1>2, <1>3, <2>1, <3>1
  <2> QED
    BY <2>1, SqLevels
<1>4. Task \union 1 .. SysTick - 1 \subseteq Ctx
  BY SqLevels
<1> QED
  BY <1>1, <1>3, <1>4 DEF HeldBelow

(***************************************************************************)
(* The clock: all tasks on their way into the queue or in it are one tick  *)
(* nearer to their time, and the history has not stopped counting.         *)
(***************************************************************************)
LEMMA SqTickOrder ==
    ASSUME WithinMargin, SqInv, SqOrder, advance_tick, UNCHANGED clients
    PROVE  SqOrder'
<1>0. /\ Half \in Nat /\ Modulus = 2 * Half /\ MaxLag \in Nat /\ MaxTicksPerHold \in Nat /\ MaxLate \in Nat
      /\ 1 <= MaxTicksPerHold /\ MaxLag + MaxTicksPerHold <= MaxLate
      /\ SqTypes /\ SqControl
  BY TickRange DEF SqInv
<1>1. /\ pc[SysTick] = "home" /\ pc' = [pc EXCEPT ![SysTick] = "s_wake"]
      /\ left' = [t \in Task |-> IF call[t] = "none" THEN 0 ELSE Later(left[t])]
      /\ held' = (IF s_locked THEN held + 1 ELSE 0) /\ (s_locked => held < MaxTicksPerHold)
      /\ \A t \in Task : pc[t] \in Preparing => left[t] > -MaxLag
      /\ UNCHANGED <<time_sorted_queue, s_locked, s_pending, time_to_wakeup, wake_tick>>
  BY SqContexts DEF advance_tick, Arrives, Goto, squeue, TickAllowed, Preparing
<1>2. pc'[SysTick] = "s_wake" /\ \A d \in Ctx : d # SysTick => pc'[d] = pc[d]
  BY <1>0, <1>1, SqContexts DEF SqTypes
<1>a. \A t \in Task : pc'[t] = pc[t]
  BY <1>2, SqContexts
<1>3. \A t : Member(t)' <=> Member(t)
  BY <1>1 DEF Member
<1>4. /\ held \in Nat /\ Slack = held /\ (~s_locked => held = 0) /\ (s_locked => held < MaxTicksPerHold)
  BY <1>0, <1>1 DEF SqTypes, Slack, SqOrder, SqFloor
<1>5. ASSUME NEW t \in Task, Member(t) \/ pc[t] \in Preparing
      PROVE  /\ left[t] \in Int /\ left'[t] = left[t] - 1 /\ left[t] > -MaxLate
             /\ left[t] < Modulus
  <2>1. left[t] \in Int /\ left[t] < Modulus
    BY <1>0, SqNumbers
  <2>2. left[t] > -MaxLate
    <3>1. CASE Member(t)
      <4>1. left[t] >= -(MaxLag + held)
        BY <1>4, <3>1, SqLateness DEF SqOrder
      <4>2. held < MaxTicksPerHold
        BY <1>0, <1>4
      <4> QED
        BY <1>0, <1>4, <2>1, <4>1, <4>2
    <3>2. CASE pc[t] \in Preparing
      BY <1>0, <1>1, <2>1, <3>2
    <3> QED
      BY <1>5, <3>1, <3>2
  <2>3. call[t] # "none"
    <3>1. CASE Member(t)
      BY <3>1, SqMember
    <3>2. CASE pc[t] \in Preparing
      BY <1>0, <3>2, SqInCall DEF SqControl
    <3> QED
      BY <1>5, <3>1, <3>2
  <2> QED
    BY <1>1, <2>1, <2>2, <2>3 DEF Later
<1>6. QueueOrdered'
  <2>1. \A i \in DOMAIN time_sorted_queue : time_sorted_queue[i] \in Task /\ Member(time_sorted_queue[i])
    BY <1>0, Positions DEF SqTypes, Member, Has
  <2>2. ASSUME NEW i \in DOMAIN time_sorted_queue, NEW j \in DOMAIN time_sorted_queue, i < j
        PROVE  left'[time_sorted_queue[i]] <= left'[time_sorted_queue[j]]
    <3>1. left[time_sorted_queue[i]] <= left[time_sorted_queue[j]]
      BY <2>2 DEF SqOrder, QueueOrdered
    <3>2. /\ left[time_sorted_queue[i]] \in Int /\ left'[time_sorted_queue[i]] = left[time_sorted_queue[i]] - 1
          /\ left[time_sorted_queue[j]] \in Int /\ left'[time_sorted_queue[j]] = left[time_sorted_queue[j]] - 1
      BY <1>5, <2>1
    <3> QED
      BY <3>1, <3>2
  <2> QED
    BY <1>1, <2>2 DEF QueueOrdered
<1>7. SqDue'
  <2> SUFFICES ASSUME NEW t \in Task PROVE SqDueOf(t)'
    BY DEF SqDue
  <2>1. CASE Member(t) \/ pc[t] \in Preparing
    <3>1. /\ left[t] \in Int /\ left'[t] = left[t] - 1 /\ left[t] > -MaxLate /\ left[t] < Modulus
      BY <1>5, <2>1
    <3>2. left[t] + MaxLag < Half /\ wake_tick[t] = Clock(left[t])
      BY <2>1 DEF SqOrder, SqDue, SqDueOf
    <3>a. MaxLag + MaxTicksPerHold < Half
      BY DEF WithinMargin
    <3>3. left[t] > -Modulus
      <4>1. CASE Member(t)
        <5>1. left[t] >= -(MaxLag + Slack) /\ Slack <= MaxTicksPerHold /\ Slack \in Nat
          BY <4>1, SqLateness DEF SqOrder
        <5> QED
          BY <1>0, <3>1, <3>a, <5>1
      <4>2. CASE pc[t] \in Preparing
        <5>1. left[t] > -MaxLag
          BY <1>1, <4>2
        <5> QED
          BY <1>0, <3>1, <3>a, <5>1
      <4> QED
        BY <2>1, <4>1, <4>2
    <3>4. (TICKS' + (left[t] - 1)) % Modulus = Clock(left[t])
      <4>1. TICKS \in Ticks /\ TICKS' = (TICKS + 1) % Modulus
        BY <1>0 DEF advance_tick, SqTypes
      <4>2. -Modulus < left[t] /\ left[t] < Modulus
        BY <1>0, <3>1, <3>3
      <4> QED
        BY <3>1, <4>1, <4>2, ClockMoves
    <3>5. pc[t] \in Preparing => left'[t] >= -MaxLag
      BY <1>0, <1>1, <3>1
    <3> QED
      BY <1>0, <1>1, <1>a, <1>3, <3>1, <3>2, <3>4, <3>5 DEF SqDueOf, Clock
  <2>2. CASE ~(Member(t) \/ pc[t] \in Preparing)
    BY <1>a, <1>3, <2>2 DEF SqDueOf
  <2> QED
    BY <2>1, <2>2
<1>8. SqGap'
  <2>1. ASSUME NEW t \in Task, NEW u \in Task, pc[t] \in Preparing, Member(u)
        PROVE  left'[t] - left'[u] < Half
    <3>1. left[t] - left[u] < Half
      BY <2>1 DEF SqOrder, SqGap
    <3> QED
      BY <1>0, <1>5, <2>1, <3>1
  <2> QED
    BY <1>a, <1>3, <2>1 DEF SqGap
<1>9. SqFloor'
  <2>1. \A n \in Nat : Late(n) => \A t \in Task : Member(t)' => left'[t] >= -(n + 1)
    BY <1>3, <1>5 DEF Late
  <2>2. Slack' = held + 1
    <3>1. \A e \in Irq : e > SysTick => pc[e] = "home"
      BY SqContexts DEF advance_tick, Arrives
    <3>2. pc[SysTick] \notin Holding
      BY <1>1 DEF Holding
    <3>3. s_locked <=> HeldBelow
      BY <1>0, <3>1, <3>2, SqBelow
    <3>4. HeldBelow' <=> HeldBelow
      BY <1>2, SqLevels DEF HeldBelow
    <3> QED
      BY <1>1, <1>2, <1>4, <3>3, <3>4 DEF Slack
  <2>3. Late(MaxLag + Slack)'
    <3>1. Late(MaxLag + held) /\ MaxLag + held \in Nat
      BY <1>0, <1>4 DEF SqOrder, SqFloor
    <3>2. \A t \in Task : Member(t)' => left'[t] >= -((MaxLag + held) + 1)
      BY <2>1, <3>1
    <3>3. MaxLag + Slack' = (MaxLag + held) + 1
      BY <1>0, <1>4, <2>2
    <3> QED
      BY <3>2, <3>3 DEF Late
  <2>4. ASSUME NEW c \in Ctx, c # SysTick PROVE SqHolderOf(c)'
    <3>1. ASSUME pc[c] \in {"drain_pended", "clear"} PROVE Late(held)'
      <4>1. pc[c] \in Holding
        BY <3>1 DEF Holding
      <4>2. Late(held) /\ s_locked
        BY <1>0, <2>4, <3>1, <4>1 DEF SqOrder, SqFloor, SqHolderOf, SqControl, SqLock
      <4>3. held' = held + 1
        BY <1>1, <4>2
      <4> QED
        BY <1>4, <2>1, <4>2, <4>3 DEF Late
    <3> QED
      BY <1>2, <2>4, <3>1 DEF SqHolderOf
  <2>5. pc'[SysTick] \notin Holding
    BY <1>2 DEF Holding
  <2> QED
    BY <1>1, <1>2, <1>4, <2>3, <2>4, <2>5 DEF SqFloor
<1> QED
  BY <1>6, <1>7, <1>8, <1>9 DEF SqOrder

\* A step between two ticks after which nobody is in the queue who was not in it before.
LateKept == \A n : Late(n) => \A t \in Task : Member(t)' => left'[t] >= -n

\* ... and nobody new is on the way into it either.
LEMMA SqStill ==
    ASSUME SqOrder, UNCHANGED <<TICKS, left, wake_tick>>,
           \A t \in Task : /\ Member(t)' => Member(t)
                           /\ pc'[t] \in Preparing => pc[t] \in Preparing
    PROVE  /\ SqDue' /\ SqGap' /\ LateKept
           /\ time_sorted_queue' = time_sorted_queue => QueueOrdered'
<1>1. ASSUME NEW t \in Task PROVE SqDueOf(t)'
  <2>1. SqDueOf(t)
    BY DEF SqOrder, SqDue
  <2>2. /\ Member(t)' => Member(t)
        /\ pc'[t] \in Preparing => pc[t] \in Preparing
        /\ left'[t] = left[t] /\ wake_tick'[t] = wake_tick[t] /\ TICKS' = TICKS
    OBVIOUS
  <2> QED
    BY <2>1, <2>2 DEF SqDueOf, Clock
<1>2. SqGap'
  BY DEF SqOrder, SqGap
<1>3. LateKept
  BY DEF Late, LateKept
<1>4. time_sorted_queue' = time_sorted_queue => QueueOrdered'
  BY DEF SqOrder, QueueOrdered
<1> QED
  BY <1>1, <1>2, <1>3, <1>4 DEF SqDue

\* Who is less late is also no later than a larger bound says.
LEMMA LateBy ==
    ASSUME SqTypes, NEW m \in Int, NEW n \in Int, m <= n, Late(m)
    PROVE  Late(n)
<1>1. ASSUME NEW t \in Task, Member(t) PROVE left[t] >= -n
  <2>1. left[t] >= -m /\ left[t] \in Int
    BY <1>1, SqNumbers DEF Late
  <2> QED
    BY <2>1
<1> QED
  BY <1>1 DEF Late

\* Whoever wake_expired_tasks leaves in the queue has time left: the tasks are in
\* their order, so the loop stops at the first that has.
LEMMA SqRemaining ==
    ASSUME WithinMargin, SqInv, SqOrder, NEW t \in Task, Member(t), t \notin Expired(time_sorted_queue)
    PROVE  left[t] > 0
<1>0. /\ SqTypes /\ SqFloor /\ Half \in Nat /\ MaxLag \in Nat /\ MaxTicksPerHold \in Nat
      /\ MaxLag + MaxTicksPerHold < Half
  BY TickRange DEF SqInv, SqOrder, WithinMargin
<1>1. PICK i \in DOMAIN time_sorted_queue : time_sorted_queue[i] = t
  BY DEF Member, Has
<1>2. PICK k \in 1 .. i : tick_cmp(wake_tick[time_sorted_queue[k]], TICKS) = 1
  BY <1>1 DEF Expired
<1>3. /\ i \in Nat /\ k \in Nat /\ k <= i /\ k \in DOMAIN time_sorted_queue
      /\ time_sorted_queue[k] \in Task /\ Member(time_sorted_queue[k])
  <2>1. /\ DOMAIN time_sorted_queue = 1 .. Len(time_sorted_queue) /\ Len(time_sorted_queue) \in Nat
        /\ \A j \in DOMAIN time_sorted_queue : j \in Nat /\ time_sorted_queue[j] \in Task
    BY <1>0, Positions DEF SqTypes
  <2>2. i \in Nat /\ k \in Nat /\ k <= i /\ k \in DOMAIN time_sorted_queue
    BY <1>1, <1>2, <2>1
  <2> QED
    BY <2>1, <2>2 DEF Member, Has
<1> DEFINE u == time_sorted_queue[k]
<1>4. u \in Task /\ Member(u) /\ tick_cmp(wake_tick[u], TICKS) = 1
  BY <1>2, <1>3
<1> HIDE DEF u
<1>5. left[u] \in Int /\ left[u] + MaxLag < Half /\ wake_tick[u] = Clock(left[u])
  BY <1>0, <1>4, SqNumbers DEF SqOrder, SqDue, SqDueOf
<1>a. left[u] < Half
  BY <1>0, <1>5
<1>6. left[u] > -Half
  <2>1. left[u] >= -(MaxLag + Slack) /\ Slack \in Nat /\ Slack <= MaxTicksPerHold
    BY <1>0, <1>4, SqLateness
  <2> QED
    BY <1>0, <1>5, <2>1
<1>7. left[u] <= 0 => tick_cmp(Clock(left[u]), TICKS) # 1
  BY <1>0, <1>5, <1>a, <1>6, Overdue
<1>8. left[u] > 0
  BY <1>4, <1>5, <1>7
<1>9. left[u] <= left[t]
  <2>1. CASE k = i
    BY <1>1, <1>5, <2>1 DEF u
  <2>2. CASE k # i
    <3>1. k < i
      BY <1>3, <2>2
    <3> QED
      BY <1>1, <1>3, <3>1 DEF SqOrder, QueueOrdered, u
  <2> QED
    BY <2>1, <2>2
<1>10. left[t] \in Int
  BY <1>0, SqNumbers
<1> QED
  BY <1>5, <1>8, <1>9, <1>10

\* What the holder of the lock does next while it keeps it.
SqHolds(c) ==
    \/ pc[c] = "s_leave" /\ pc'[c] = "s_run" /\ s_pending /\ UNCHANGED time_to_wakeup
    \/ /\ pc[c] = "s_run" /\ pc'[c] = (IF time_to_wakeup THEN "expire_pended" ELSE "s_leave")
       /\ UNCHANGED <<time_to_wakeup, s_pending>>
    \/ /\ pc[c] \in {"s_take", "s_insert"} /\ pc'[c] = "s_leave"
       /\ UNCHANGED <<time_to_wakeup, s_pending>>
    \/ /\ \/ pc[c] = "expire" /\ pc'[c] = "drain"
          \/ pc[c] = "expire_pended" /\ pc'[c] = "drain_pended"
       /\ time_sorted_queue' = Without(time_sorted_queue, Expired(time_sorted_queue))
    \/ pc[c] = "drain" /\ pc'[c] = "s_leave"
    \/ pc[c] = "drain_pended" /\ pc'[c] = "clear"
    \/ pc[c] = "clear" /\ pc'[c] = "s_leave"

LEMMA SqHolder ==
    ASSUME SqTypes, SqControl, NEW c \in Ctx, Inside(c), pc[c] \in Holding, s_locked'
    PROVE  SqHolds(c)
<1>1. pc \in [Ctx -> ClientSteps]
  BY DEF SqTypes
<1>2. CASE s_leave(c)
  <2>1. s_pending
    BY <1>2 DEF s_leave
  <2> QED
    BY <1>1, <1>2, <2>1 DEF s_leave, At, Goto, SqHolds
<1>3. CASE run_pended_op(c)
  BY <1>1, <1>3 DEF run_pended_op, At, Goto, squeue, SqHolds
<1>4. CASE wake_expired_tasks(c)
  BY <1>1, <1>4 DEF wake_expired_tasks, remove_tasks, At, Goto, SqHolds
<1>5. CASE drain_delete_buffer(c) \/ clear_time_to_wakeup(c)
  BY <1>1, <1>5 DEF drain_delete_buffer, clear_time_to_wakeup, At, Goto, SqHolds
<1>6. CASE remove_full(c) \/ (c \in Task /\ add_insert(c))
  BY <1>1, <1>6 DEF remove_full, add_insert, At, Goto, SqHolds
<1>7. CASE remove_guard(c) \/ (c \in Task /\ add_guard(c)) \/ (c = SysTick /\ wake_sleeping_tasks)
  BY <1>7 DEF remove_guard, add_guard, wake_sleeping_tasks, At, Holding
<1> QED
  BY <1>2, <1>3, <1>4, <1>5, <1>6, <1>7 DEF Inside, SleepStep

\* A context other than SysTick is not at the steps that are SysTick's.
LEMMA SqNotSysTick ==
    ASSUME SqControl, NEW c \in Ctx, c # SysTick
    PROVE  pc[c] \notin {"expire", "drain", "s_wake"}
<1>1. CASE c \in Task
  <2>1. SqControlOf(c)
    BY <1>1 DEF SqControl
  <2> QED
    BY <2>1 DEF SqControlOf, Removing, Preparing, Settled
<1>2. CASE c \in Irq
  <2>1. SqHandlerOf(c)
    BY <1>2 DEF SqControl
  <2> QED
    BY <2>1 DEF SqHandlerOf, Removing
<1> QED
  BY <1>1, <1>2, SqContexts

\* A step inside the queue other than an insertion.
LEMMA SqInsideStill ==
    ASSUME SqInv, SqOrder, NEW c \in Ctx, Inside(c), UNCHANGED clients, pc[c] # "s_insert"
    PROVE  QueueOrdered' /\ SqDue' /\ SqGap' /\ LateKept
<1>0. SqTypes /\ SqControl /\ time_sorted_queue \in Seq(Task) /\ SqControl'
  BY SqQueueControl DEF SqInv, SqTypes
<1>1. UNCHANGED <<TICKS, left, wake_tick, call>>
  BY <1>0, SqQueueStep
<1>2. \/ UNCHANGED time_sorted_queue
      \/ \E ts : time_sorted_queue' = Without(time_sorted_queue, ts)
  <2>1. \/ SqNoneMoves /\ pc[c] # "s_insert"
        \/ (\E ts : SqTakesOut(ts)) /\ pc[c] # "s_insert"
        \/ SqPutsIn(c) \/ SqDefers(c)
    BY <1>0, SqQueueData
  <2> QED
    BY <2>1 DEF SqNoneMoves, SqTakesOut, SqPutsIn, SqDefers
<1>3. ASSUME NEW t \in Task PROVE Member(t)' => Member(t)
  BY <1>0, <1>2, WithoutTasks DEF Member
<1>4. ASSUME NEW t \in Task, pc'[t] \in Preparing PROVE pc[t] \in Preparing
  <2>1. CASE pc'[t] = pc[t]
    BY <1>4, <2>1
  <2>2. CASE pc'[t] # pc[t]
    <3>1. t = c
      <4>1. PICK s : SqPasses(c, s)
        BY <1>0, SqQueueStep
      <4> QED
        BY <1>0, <2>2, <4>1, SqContexts DEF SqPasses, SqTypes
    <3>2. SqOnward(t)
      BY <1>0, <3>1, SqQueueOnward
    <3>3. call[t] # "none"
      <4>1. SqControlOf(t)' /\ call'[t] = call[t]
        BY <1>0, <1>1 DEF SqControl
      <4> QED
        BY <1>4, <4>1 DEF SqControlOf, Preparing, Removing
    <3> QED
      BY <1>4, <3>2, <3>3 DEF SqOnward, Preparing, Settled
  <2> QED
    BY <2>1, <2>2
<1>5. /\ SqDue' /\ SqGap' /\ LateKept
      /\ time_sorted_queue' = time_sorted_queue => QueueOrdered'
  BY <1>1, <1>3, <1>4, SqStill
<1>6. ASSUME NEW ts, time_sorted_queue' = Without(time_sorted_queue, ts) PROVE QueueOrdered'
  BY <1>0, <1>1, <1>6, WithoutOrder DEF SqOrder, QueueOrdered
<1> QED
  BY <1>2, <1>5, <1>6

(***************************************************************************)
(* How late the tasks are, over the steps inside the queue other than an   *)
(* insertion.                                                              *)
(***************************************************************************)
\* The holder keeps the lock.
LEMMA SqStaysFloor ==
    ASSUME WithinMargin, SqInv, SqOrder, SqTypes', NEW c \in Ctx, Inside(c), UNCHANGED clients,
           pc[c] \in Holding, pc'[c] \in Holding, pc[c] # "s_insert", s_locked',
           UNCHANGED <<held, s_locked>>, \A d \in Ctx : d # c => pc'[d] = pc[d]
    PROVE  SqFloor'
<1>0. /\ SqTypes /\ SqControl /\ SqFloor /\ held \in Nat /\ MaxLag \in Nat /\ SysTick \in Ctx
      /\ time_sorted_queue \in Seq(Task)
  <2>1. SqTypes /\ SqControl /\ SqFloor /\ SysTick \in Ctx /\ time_sorted_queue \in Seq(Task)
    BY SqContexts DEF SqInv, SqOrder, SqTypes
  <2>2. held \in Nat /\ MaxLag \in Nat
    BY <2>1, TickRange DEF SqTypes
  <2> QED
    BY <2>1, <2>2
<1>1. LateKept
  BY SqInsideStill
<1>2. SqHolds(c)
  BY <1>0, SqHolder
<1>3. pc[SysTick] = "home" <=> pc'[SysTick] = "home"
  <2>1. "home" \notin Holding
    BY DEF Holding
  <2> QED
    BY <1>0, <2>1
<1>4. Slack' = Slack
  <2>1. HeldBelow' <=> HeldBelow
    BY SqLevels DEF HeldBelow
  <2> QED
    BY <1>3, <2>1 DEF Slack
<1>5. Late(MaxLag + Slack)'
  BY <1>0, <1>1, <1>4 DEF SqFloor, Late, LateKept
<1>6. Late(held) => Late(held)'
  BY <1>1 DEF Late, LateKept
<1>7. pc[c] \in {"expire", "expire_pended"} => \A n \in Nat : \A t \in Task : Member(t)' => left'[t] >= -n
  <2> SUFFICES ASSUME pc[c] \in {"expire", "expire_pended"}, NEW t \in Task, Member(t)', NEW n \in Nat
               PROVE  left'[t] >= -n
    OBVIOUS
  <2>1. time_sorted_queue' = Without(time_sorted_queue, Expired(time_sorted_queue))
    BY <1>2 DEF SqHolds
  <2>2. Member(t) /\ t \notin Expired(time_sorted_queue)
    BY <1>0, <2>1, WithoutTasks DEF Member
  <2>3. left[t] > 0 /\ left[t] \in Int /\ left' = left
    BY <1>0, <2>2, SqRemaining, SqNumbers, SqQueueStep
  <2> QED
    BY <2>3
<1>8. \A d \in Ctx : d # c => pc[d] \notin Holding /\ pc'[d] \notin Holding
  BY <1>0 DEF SqControl, SqLock
<1>9. ASSUME NEW d \in Ctx, d # SysTick PROVE SqHolderOf(d)'
  <2>1. CASE d # c
    <3>1. pc'[d] \notin Holding
      BY <1>8, <2>1
    <3> QED
      BY <3>1 DEF SqHolderOf, Holding
  <2>2. CASE d = c
    <3>1. SqHolderOf(c) /\ pc[c] \notin {"expire", "drain"}
      BY <1>0, <1>9, <2>2, SqNotSysTick DEF SqFloor
    <3>2. pc[c] = "expire_pended" => Late(held)'
      BY <1>0, <1>7 DEF Late
    <3>3. pc'[c] \in {"drain_pended", "clear"} => Late(held)'
      BY <1>2, <1>6, <3>1, <3>2 DEF SqHolds, SqHolderOf
    <3>4. ASSUME pc'[SysTick] = "home" PROVE held' = 0 \/ WillExpire(c)' \/ (pc'[c] # "s_insert" /\ Late(held)')
      <4>1. held = 0 \/ WillExpire(c) \/ Late(held)
        BY <1>3, <3>1, <3>4 DEF SqHolderOf
      <4>2. pc'[c] # "s_insert"
        BY <1>2 DEF SqHolds
      <4>3. CASE held = 0 \/ Late(held)
        BY <1>6, <4>2, <4>3
      <4>4. CASE WillExpire(c)
        <5>1. WillExpire(c)' \/ Late(held)'
          BY <1>2, <3>1, <3>2, <4>4 DEF SqHolds, WillExpire
        <5> QED
          BY <4>2, <5>1
      <4> QED
        BY <4>1, <4>3, <4>4
    <3> QED
      BY <2>2, <3>3, <3>4 DEF SqHolderOf
  <2> QED
    BY <2>1, <2>2
<1>10. pc'[SysTick] \in Holding \ {"expire"} => Late(0)'
  <2>1. CASE c = SysTick
    <3>1. pc[c] = "expire" => Late(0)'
      BY <1>7 DEF Late
    <3>2. pc[c] # "expire" => Late(0)'
      BY <1>0, <1>1, <2>1 DEF SqFloor, LateKept, Late
    <3> QED
      BY <3>1, <3>2
  <2>2. CASE c # SysTick
    BY <1>0, <1>8, <2>2
  <2> QED
    BY <2>1, <2>2
<1> QED
  BY <1>5, <1>9, <1>10 DEF SqFloor

\* The holder leaves: nobody in the queue is more than MaxLag late.
LEMMA SqLeavesFloor ==
    ASSUME SqInv, SqOrder, NEW c \in Ctx, LateKept, Running(c), pc[c] = "s_leave", ~s_pending,
           ~s_locked', held' = 0, pc'[c] = ret[c], \A d \in Ctx : d # c => pc'[d] = pc[d]
    PROVE  SqFloor'
<1>0. /\ SqTypes /\ SqControl /\ SqFloor /\ held \in Nat /\ MaxLag \in Nat /\ MaxTicksPerHold \in Nat
      /\ MaxTicksPerHold <= MaxLag /\ held <= MaxTicksPerHold /\ SysTick \in Ctx
  <2>1. SqTypes /\ SqControl /\ SqFloor /\ SysTick \in Ctx
    BY SqContexts DEF SqInv, SqOrder
  <2>2. /\ held \in Nat /\ MaxLag \in Nat /\ MaxTicksPerHold \in Nat
        /\ MaxTicksPerHold <= MaxLag /\ held <= MaxTicksPerHold
    BY <2>1, TickRange DEF SqTypes
  <2> QED
    BY <2>1, <2>2
<1>1. pc[c] \in Holding /\ "home" \notin Holding
  BY DEF Holding
<1>2. \A d \in Ctx : d # c => pc[d] \notin Holding /\ pc'[d] \notin Holding
  BY <1>0, <1>1 DEF SqControl, SqLock
<1>3. pc'[c] \notin Holding /\ (c = SysTick => pc'[c] = "home")
  <2>1. CASE c \in Task
    <3>1. SqControlOf(c) /\ pc[c] \in SuspendedSteps /\ c # SysTick
      BY <1>0, <1>1, <2>1, SqStepNames, SqContexts DEF SqControl
    <3>2. ret[c] \in {"home", "leave_box", "yield"}
      BY <3>1 DEF SqControlOf
    <3> QED
      BY <3>1, <3>2 DEF Holding
  <2>2. CASE c \in Irq
    BY <1>0, <1>1, <2>2 DEF SqControl, SqHandlerOf
  <2> QED
    BY <2>1, <2>2, SqContexts
<1>4. \A d \in Ctx : pc'[d] \notin Holding
  BY <1>2, <1>3
<1>5. \A d \in Ctx : SqHolderOf(d)'
  BY <1>4 DEF SqHolderOf, Holding
<1>6. Late(MaxLag + Slack)'
  <2>1. CASE pc'[SysTick] = "home"
    <3>1. MaxLag + Slack' = MaxLag
      BY <1>0, <2>1 DEF Slack
    <3>2. Late(MaxLag)
      <4>1. CASE c = SysTick
        <5>1. Late(0)
          BY <1>0, <1>1, <4>1 DEF SqFloor
        <5> QED
          BY <1>0, <5>1, LateBy
      <4>2. CASE c # SysTick
        <5>1. pc[SysTick] = "home" /\ SqHolderOf(c)
          BY <1>0, <2>1, <4>2 DEF SqFloor
        <5>2. held = 0 \/ Late(held)
          BY <1>1, <5>1 DEF SqHolderOf, WillExpire
        <5>3. CASE held = 0
          <6>1. MaxLag + Slack = MaxLag
            BY <1>0, <5>1, <5>3 DEF Slack
          <6> QED
            BY <1>0, <6>1 DEF SqFloor
        <5>4. CASE Late(held)
          BY <1>0, <5>4, LateBy
        <5> QED
          BY <5>2, <5>3, <5>4
      <4> QED
        BY <4>1, <4>2
    <3> QED
      BY <3>1, <3>2 DEF Late, LateKept
  <2>2. CASE pc'[SysTick] # "home"
    <3>1. c # SysTick /\ pc[SysTick] # "home"
      BY <1>0, <1>3, <2>2
    <3>2. c \notin Task \union 1 .. SysTick - 1
      BY <3>1, SqLevels
    <3>3. ~HeldBelow /\ ~HeldBelow'
      BY <1>2, <1>4, <3>2, SqLevels DEF HeldBelow
    <3>4. Slack' = Slack
      BY <2>2, <3>1, <3>3 DEF Slack
    <3> QED
      BY <1>0, <3>4 DEF SqFloor, Late, LateKept
  <2> QED
    BY <2>1, <2>2
<1> QED
  BY <1>0, <1>4, <1>5, <1>6 DEF SqFloor

\* A context enters the lock.
LEMMA SqEntersFloor ==
    ASSUME SqInv, SqOrder, NEW c \in Ctx, LateKept, Running(c), ~s_locked, s_locked', held' = 0,
           c = SysTick => pc[c] = "s_wake" /\ pc'[c] = "expire",
           c # SysTick => pc'[c] \in {"s_insert", "s_take"},
           \A d \in Ctx : d # c => pc'[d] = pc[d]
    PROVE  SqFloor'
<1>0. /\ SqTypes /\ SqControl /\ SqFloor /\ held = 0 /\ SysTick \in Ctx
  BY SqContexts DEF SqInv, SqOrder, SqFloor
<1>1. \A d \in Ctx : pc[d] \notin Holding
  BY <1>0 DEF SqControl, SqLock
<1>2. \A d \in Ctx : d # c => pc'[d] \notin Holding
  BY <1>1
<1>3. ~HeldBelow
  BY <1>1, SqLevels DEF HeldBelow
<1>4. Slack' = Slack
  <2>1. CASE c = SysTick
    <3>1. ~HeldBelow'
      BY <1>2, <2>1, SqLevels DEF HeldBelow
    <3> QED
      BY <1>3, <2>1, <3>1 DEF Slack
  <2>2. CASE c # SysTick /\ pc[SysTick] = "home"
    BY <1>0, <2>2 DEF Slack
  <2>3. CASE c # SysTick /\ pc[SysTick] # "home"
    <3>1. c \notin Task \union 1 .. SysTick - 1
      BY <2>3, SqLevels
    <3>2. ~HeldBelow'
      BY <1>2, <3>1, SqLevels DEF HeldBelow
    <3> QED
      BY <1>0, <1>3, <2>3, <3>2 DEF Slack
  <2> QED
    BY <2>1, <2>2, <2>3
<1>5. Late(MaxLag + Slack)'
  BY <1>0, <1>4 DEF SqFloor, Late, LateKept
<1>6. \A d \in Ctx \ {SysTick} : SqHolderOf(d)'
  <2> SUFFICES ASSUME NEW d \in Ctx, d # SysTick PROVE SqHolderOf(d)'
    OBVIOUS
  <2>1. pc'[d] \notin {"drain_pended", "clear"}
    <3>1. CASE d = c
      BY <2>1, <3>1
    <3>2. CASE d # c
      BY <1>2, <3>2 DEF Holding
    <3> QED
      BY <3>1, <3>2
  <2> QED
    BY <2>1 DEF SqHolderOf
<1>7. pc'[SysTick] \notin Holding \ {"expire"}
  BY <1>0, <1>2
<1> QED
  BY <1>5, <1>6, <1>7 DEF SqFloor

\* A context finds the queue locked and pends its operation.
LEMMA SqPendsFloor ==
    ASSUME SqInv, SqOrder, NEW c \in Ctx, LateKept, Running(c), s_locked, UNCHANGED <<s_locked, held>>,
           pc[c] \notin Holding, pc'[c] \notin Holding,
           c = SysTick => pc'[c] = "home" /\ s_pending' /\ time_to_wakeup',
           c # SysTick => s_pending' \in {s_pending, TRUE} /\ UNCHANGED time_to_wakeup,
           \A d \in Ctx : d # c => pc'[d] = pc[d]
    PROVE  SqFloor'
<1>0. /\ SqTypes /\ SqControl /\ SqFloor /\ SysTick \in Ctx
  BY SqContexts DEF SqInv, SqOrder
<1>1. HeldBelow' <=> HeldBelow
  BY SqLevels DEF HeldBelow
<1>2. Slack' = Slack
  <2>1. CASE c # SysTick
    BY <1>0, <1>1, <2>1 DEF Slack
  <2>2. CASE c = SysTick
    <3>1. \A e \in Irq : e > SysTick => pc[e] = "home"
      BY <2>2, SqContexts DEF Running
    <3>2. HeldBelow
      BY <1>0, <2>2, <3>1, SqBelow
    <3> QED
      BY <1>1, <3>2 DEF Slack
  <2> QED
    BY <2>1, <2>2
<1>3. Late(MaxLag + Slack)' /\ (Late(held) => Late(held)') /\ (Late(0) => Late(0)')
  BY <1>0, <1>2 DEF SqFloor, Late, LateKept
<1>4. ASSUME NEW d \in Ctx, d # SysTick PROVE SqHolderOf(d)'
  <2>1. CASE pc'[d] \notin Holding
    BY <2>1 DEF SqHolderOf, Holding
  <2>2. CASE pc'[d] \in Holding
    <3>1. d # c /\ pc'[d] = pc[d] /\ SqHolderOf(d)
      BY <1>0, <1>4, <2>2 DEF SqFloor
    <3>2. pc'[d] \in {"drain_pended", "clear"} => Late(held)'
      BY <1>3, <3>1 DEF SqHolderOf
    <3>3. ASSUME pc'[SysTick] = "home"
          PROVE  held' = 0 \/ WillExpire(d)' \/ (pc'[d] # "s_insert" /\ Late(held)')
      <4>1. CASE c = SysTick
        <5>1. pc[d] \notin {"expire", "drain"}
          BY <1>0, <1>4, SqNotSysTick
        <5>2. WillExpire(d)' \/ pc'[d] \in {"drain_pended", "clear"}
          BY <2>2, <3>1, <4>1, <5>1 DEF WillExpire, Holding
        <5> QED
          BY <3>2, <5>2
      <4>2. CASE c # SysTick
        <5>1. held = 0 \/ WillExpire(d) \/ (pc[d] # "s_insert" /\ Late(held))
          BY <1>0, <2>2, <3>1, <3>3, <4>2 DEF SqHolderOf
        <5>2. WillExpire(d) => WillExpire(d)'
          BY <3>1, <4>2 DEF WillExpire
        <5> QED
          BY <1>3, <3>1, <5>1, <5>2
      <4> QED
        BY <4>1, <4>2
    <3> QED
      BY <3>2, <3>3 DEF SqHolderOf
  <2> QED
    BY <2>1, <2>2
<1>5. pc'[SysTick] \in Holding \ {"expire"} => Late(0)'
  BY <1>0, <1>3 DEF SqFloor
<1> QED
  BY <1>0, <1>3, <1>4, <1>5 DEF SqFloor

\* Steps inside the queue other than an insertion.
LEMMA SqInsideOrder ==
    ASSUME WithinMargin, SqInv, SqOrder, NEW c \in Ctx, Inside(c), UNCHANGED clients, pc[c] # "s_insert"
    PROVE  SqOrder'
<1>0. SqTypes /\ SqControl /\ SqTypes' /\ SysTick \in Ctx
  BY SqQueueTypes, SqContexts DEF SqInv
<1>1. QueueOrdered' /\ SqDue' /\ SqGap' /\ LateKept
  BY SqInsideStill
<1>2. PICK s : SqPasses(c, s)
  BY <1>0, SqQueueStep
<1>3. /\ Running(c) /\ pc'[c] = s /\ \A d \in Ctx : d # c => pc'[d] = pc[d]
      /\ SqStays(c, s) \/ SqLeaves(c, s) \/ SqEnters(c, s) \/ SqPends(c, s)
  BY <1>0, <1>2 DEF SqPasses, SqTypes
<1>4. CASE SqStays(c, s)
  <2>1. pc[c] \in Holding /\ pc'[c] \in Holding /\ UNCHANGED <<held, s_locked>>
    BY <1>3, <1>4 DEF SqStays, SqWithin, Holding
  <2>2. s_locked'
    BY <1>0, <2>1 DEF SqControl, SqLock
  <2>3. SqFloor'
    BY <1>0, <1>3, <2>1, <2>2, SqStaysFloor
  <2> QED
    BY <1>1, <2>3 DEF SqOrder
<1>5. CASE SqLeaves(c, s)
  <2>1. SqFloor'
    BY <1>1, <1>3, <1>5, SqLeavesFloor DEF SqLeaves
  <2> QED
    BY <1>1, <2>1 DEF SqOrder
<1>6. CASE SqEnters(c, s)
  <2>1. c = SysTick => pc[c] = "s_wake" /\ pc'[c] = "expire"
    <3>1. pc[SysTick] \in Handling /\ SysTick \notin Task
      BY <1>0, SqContexts DEF SqControl, SqHandlerOf
    <3> QED
      BY <1>3, <1>6, <3>1 DEF SqEnters, Handling
  <2>2. c # SysTick => pc'[c] \in {"s_insert", "s_take"}
    BY <1>3, <1>6 DEF SqEnters
  <2>3. SqFloor'
    BY <1>1, <1>3, <1>6, <2>1, <2>2, SqEntersFloor DEF SqEnters
  <2> QED
    BY <1>1, <2>3 DEF SqOrder
<1>7. CASE SqPends(c, s)
  <2>1. s_locked /\ UNCHANGED <<s_locked, held>> /\ pc[c] \notin Holding
    BY <1>7 DEF SqPends, Holding
  <2>2. pc'[c] \notin Holding
    <3>1. SqLock'
      BY <1>0, SqQueueControl DEF SqControl
    <3>2. PICK d \in Ctx : pc[d] \in Holding
      BY <1>0, <2>1 DEF SqControl, SqLock
    <3>3. d # c /\ pc'[d] \in Holding
      BY <1>3, <2>1, <3>2
    <3> QED
      BY <3>1, <3>3 DEF SqLock
  <2>3. CASE c = SysTick
    <3>1. pc[SysTick] \in Handling
      BY <1>0, SqContexts DEF SqControl, SqHandlerOf
    <3>2. pc[SysTick] = "s_wake"
      BY <1>7, <2>3, <3>1 DEF SqPends, Handling
    <3>3. wake_sleeping_tasks
      BY <2>3, <3>2, SqContexts DEF Inside, SleepStep, s_leave, run_pended_op, wake_expired_tasks,
         drain_delete_buffer, clear_time_to_wakeup, add_guard, add_insert, remove_guard, remove_full, At
    <3>4. pc'[c] = "home" /\ s_pending' /\ time_to_wakeup'
      BY <1>0, <2>1, <2>3, <3>3 DEF wake_sleeping_tasks, Goto, SqTypes
    <3>5. SqFloor'
      BY <1>1, <1>3, <2>1, <2>2, <2>3, <3>4, SqPendsFloor
    <3> QED
      BY <1>1, <3>5 DEF SqOrder
  <2>4. CASE c # SysTick
    <3>1. pc[c] = "s_remove"
      BY <1>7, <2>4 DEF SqPends
    <3>2. remove_guard(c)
      BY <2>4, <3>1 DEF Inside, SleepStep, s_leave, run_pended_op, wake_expired_tasks,
         drain_delete_buffer, clear_time_to_wakeup, add_guard, add_insert, remove_guard, remove_full, At
    <3>3. s_pending' \in {s_pending, TRUE} /\ UNCHANGED time_to_wakeup
      BY <2>1, <3>2 DEF remove_guard
    <3>4. SqFloor'
      BY <1>1, <1>3, <2>1, <2>2, <2>4, <3>3, SqPendsFloor
    <3> QED
      BY <1>1, <3>4 DEF SqOrder
  <2> QED
    BY <2>3, <2>4
<1> QED
  BY <1>3, <1>4, <1>5, <1>6, <1>7

\* push_back_tick_sorted compares ticks less than half the range apart, so it
\* finds the place the absolute times ask for.
LEMMA SqPlace ==
    ASSUME WithinMargin, SqInv, SqOrder, NEW t \in Task, pc[t] \in Preparing, NEW u \in Task, Member(u)
    PROVE  /\ left[t] \in Int /\ left[u] \in Int
           /\ tick_cmp(wake_tick[t], wake_tick[u]) = -1 <=> left[t] < left[u]
<1>0. /\ SqTypes /\ SqFloor /\ TICKS \in Ticks /\ Half \in Nat /\ Modulus = 2 * Half
      /\ MaxLag \in Nat /\ MaxTicksPerHold \in Nat /\ MaxLag + MaxTicksPerHold < Half
  BY TickRange DEF SqInv, SqTypes, SqOrder, WithinMargin
<1>1. left[t] \in Int /\ left[u] \in Int
  BY <1>0, SqNumbers
<1>2. /\ left[t] + MaxLag < Half /\ left[t] >= -MaxLag /\ wake_tick[t] = Clock(left[t])
      /\ left[u] + MaxLag < Half /\ wake_tick[u] = Clock(left[u])
      /\ left[t] - left[u] < Half
  BY DEF SqOrder, SqDue, SqDueOf, SqGap
<1>3. left[u] >= -(MaxLag + Slack) /\ Slack \in Nat /\ Slack <= MaxTicksPerHold
  BY <1>0, SqLateness
<1>4. /\ -Modulus <= left[t] /\ left[t] < Modulus /\ -Modulus <= left[u] /\ left[u] < Modulus
      /\ left[u] - left[t] < Half
  BY <1>0, <1>1, <1>2, <1>3
<1>5. tick_cmp(Clock(left[t]), Clock(left[u])) =
         IF left[t] = left[u] THEN 0 ELSE IF left[t] < left[u] THEN -1 ELSE 1
  BY <1>0, <1>1, <1>2, <1>4, TicksCompare
<1> QED
  BY <1>1, <1>2, <1>5

\* The insertion.
LEMMA SqInsertOrder ==
    ASSUME WithinMargin, SqInv, SqOrder, NEW t \in Ctx, Inside(t), pc[t] = "s_insert"
    PROVE  SqOrder'
<1>0. /\ SqTypes /\ SqControl /\ SqFloor /\ t \in Task /\ time_sorted_queue \in Seq(Task)
      /\ MaxLag \in Nat /\ Half \in Nat /\ held \in Nat
  <2>1. SqTypes /\ SqControl /\ SqFloor /\ time_sorted_queue \in Seq(Task)
    BY DEF SqInv, SqOrder, SqTypes
  <2>2. MaxLag \in Nat /\ Half \in Nat /\ held \in Nat
    BY <2>1, TickRange DEF SqTypes
  <2>3. t \in Task
    <3>1. t \in Irq => pc[t] \in Handling \union Removing \union {"die"}
      BY <2>1 DEF SqControl, SqHandlerOf
    <3> QED
      BY <3>1, SqContexts DEF Handling, Removing
  <2> QED
    BY <2>1, <2>2, <2>3
<1>a. add_insert(t)
  BY <1>0, SqContexts DEF Inside, SleepStep, s_leave, run_pended_op, wake_expired_tasks, drain_delete_buffer,
     clear_time_to_wakeup, add_guard, remove_guard, remove_full, At
<1>1. /\ Running(t) /\ pc[t] = "s_insert" /\ pc'[t] = "s_leave" /\ pc[t] \in Preparing
      /\ \A d \in Ctx : d # t => pc'[d] = pc[d]
      /\ UNCHANGED <<TICKS, left, wake_tick, held, s_locked, s_pending, time_to_wakeup>>
      /\ time_sorted_queue' = push_back_tick_sorted(time_sorted_queue, t, wake_tick[t])
  BY <1>0, <1>a DEF add_insert, At, Goto, SqTypes, Preparing
<1>2. PICK at \in 1 .. Len(time_sorted_queue) + 1 :
         /\ time_sorted_queue' = InsertAt(time_sorted_queue, at, t)
         /\ \A i \in 1 .. Len(time_sorted_queue) :
               /\ i < at => tick_cmp(wake_tick[t], wake_tick[time_sorted_queue[i]]) # -1
               /\ i = at => tick_cmp(wake_tick[t], wake_tick[time_sorted_queue[i]]) = -1
  BY <1>0, <1>1, PushSorted
<1>3. /\ \A i \in 1 .. Len(time_sorted_queue) + 1 :
            time_sorted_queue'[i] = IF i < at THEN time_sorted_queue[i] ELSE IF i = at THEN t
                                    ELSE time_sorted_queue[i - 1]
      /\ DOMAIN time_sorted_queue' = 1 .. Len(time_sorted_queue) + 1
      /\ \A u : Member(u)' <=> Member(u) \/ u = t
      /\ Len(time_sorted_queue) \in Nat /\ DOMAIN time_sorted_queue = 1 .. Len(time_sorted_queue)
  <2>1. /\ time_sorted_queue' \in Seq(Task) /\ Len(time_sorted_queue') = Len(time_sorted_queue) + 1
        /\ \A i \in 1 .. Len(time_sorted_queue) + 1 :
              time_sorted_queue'[i] = IF i < at THEN time_sorted_queue[i] ELSE IF i = at THEN t
                                      ELSE time_sorted_queue[i - 1]
        /\ \A u : Has(time_sorted_queue', u) <=> Has(time_sorted_queue, u) \/ u = t
    BY <1>0, <1>2, InsertTask
  <2>2. DOMAIN time_sorted_queue' = 1 .. Len(time_sorted_queue')
    BY <2>1, Positions
  <2> QED
    BY <1>0, <2>1, <2>2, Positions DEF Member
<1> DEFINE n == Len(time_sorted_queue)
           L == [i \in 1 .. n |-> left[time_sorted_queue[i]]]
<1>4. ASSUME NEW i \in 1 .. n
      PROVE  L[i] \in Int /\ left[t] \in Int /\ (i < at => L[i] <= left[t]) /\ (i = at => left[t] < L[i])
  <2>1. time_sorted_queue[i] \in Task /\ Member(time_sorted_queue[i])
    BY <1>0, <1>3, Positions DEF Member, Has
  <2>2. /\ left[t] \in Int /\ left[time_sorted_queue[i]] \in Int
        /\ (tick_cmp(wake_tick[t], wake_tick[time_sorted_queue[i]]) = -1
              <=> left[t] < left[time_sorted_queue[i]])
    BY <1>0, <1>1, <2>1, SqPlace
  <2> QED
    BY <1>2, <2>2
<1>5. \A i, j \in 1 .. n : i < j => L[i] <= L[j]
  BY <1>3 DEF SqOrder, QueueOrdered
<1>6. QueueOrdered'
  <2> DEFINE M == [i \in 1 .. n + 1 |-> left[time_sorted_queue'[i]]]
  <2>1. ASSUME NEW i \in 1 .. n + 1
        PROVE  M[i] = IF i < at THEN L[i] ELSE IF i = at THEN left[t] ELSE L[i - 1]
    <3>1. CASE i < at
      <4>1. i \in 1 .. n /\ time_sorted_queue'[i] = time_sorted_queue[i]
        BY <1>2, <1>3, <3>1
      <4> QED
        BY <3>1, <4>1
    <3>2. CASE i = at
      BY <1>3, <3>2
    <3>3. CASE i > at
      <4>1. i - 1 \in 1 .. n /\ time_sorted_queue'[i] = time_sorted_queue[i - 1]
        BY <1>2, <1>3, <3>3
      <4> QED
        BY <1>2, <3>3, <4>1
    <3> QED
      BY <1>2, <1>3, <3>1, <3>2, <3>3
  <2>2. n \in Nat /\ at \in 1 .. n + 1
    BY <1>2, <1>3
  <2>3. \A i \in 1 .. n + 1 : M[i] = left[time_sorted_queue'[i]]
    OBVIOUS
  <2> HIDE DEF M, L, n
  <2>4. ASSUME NEW i \in 1 .. n + 1, NEW j \in 1 .. n + 1, i < j PROVE M[i] <= M[j]
    <3>1. CASE j < at
      <4>1. i \in 1 .. n /\ j \in 1 .. n
        BY <2>2, <2>4, <3>1
      <4> QED
        BY <1>5, <2>1, <2>2, <2>4, <3>1, <4>1
    <3>2. CASE j = at
      <4>1. i \in 1 .. n /\ i < at
        BY <2>2, <2>4, <3>2
      <4> QED
        BY <1>4, <2>1, <2>2, <3>2, <4>1
    <3>3. CASE j > at
      <4>1. j - 1 \in 1 .. n /\ at \in 1 .. n /\ at <= j - 1
        BY <2>2, <2>4, <3>3
      <4>2. /\ left[t] < L[at] /\ L[at] <= L[j - 1] /\ M[j] = L[j - 1]
            /\ left[t] \in Int /\ L[at] \in Int /\ L[j - 1] \in Int
        BY <1>4, <1>5, <2>1, <2>2, <3>3, <4>1
      <4>3. CASE i < at
        <5>1. i \in 1 .. n /\ M[i] = L[i] /\ L[i] <= left[t] /\ L[i] \in Int
          BY <1>4, <2>1, <2>2, <4>1, <4>3
        <5> QED
          BY <4>2, <5>1
      <4>4. CASE i = at
        <5>1. M[i] = left[t]
          BY <2>1, <4>4
        <5> QED
          BY <4>2, <5>1
      <4>5. CASE i > at
        <5>1. i - 1 \in 1 .. n /\ i - 1 < j - 1 /\ M[i] = L[i - 1]
          BY <2>1, <2>2, <2>4, <4>5
        <5> QED
          BY <1>5, <4>1, <4>2, <5>1
      <4> QED
        BY <2>2, <4>3, <4>4, <4>5
    <3> QED
      BY <2>2, <3>1, <3>2, <3>3
  <2> QED
    BY <1>1, <1>3, <2>3, <2>4 DEF QueueOrdered, n
<1>7. ASSUME NEW u \in Task PROVE SqDueOf(u)'
  <2>1. SqDueOf(u) /\ TICKS' = TICKS /\ left'[u] = left[u] /\ wake_tick'[u] = wake_tick[u]
        /\ (Member(u)' <=> Member(u) \/ u = t) /\ (u # t => pc'[u] = pc[u])
    BY <1>1, <1>3, SqContexts DEF SqOrder, SqDue
  <2>2. pc'[t] \notin Preparing
    BY <1>1 DEF Preparing
  <2> QED
    BY <1>1, <2>1, <2>2 DEF SqDueOf, Clock
<1>8. ASSUME NEW a \in Task, NEW b \in Task, pc'[a] \in Preparing, Member(b)'
      PROVE  left'[a] - left'[b] < Half
  <2>1. a # t /\ pc[a] \in Preparing /\ left'[a] = left[a] /\ left'[b] = left[b]
    BY <1>1, <1>8, SqContexts DEF Preparing
  <2>2. CASE b # t
    BY <1>3, <1>8, <2>1, <2>2 DEF SqOrder, SqGap
  <2>3. CASE b = t
    <3>1. left[a] + MaxLag < Half /\ left[t] >= -MaxLag /\ left[a] \in Int /\ left[t] \in Int
      BY <1>0, <1>1, <2>1, SqNumbers DEF SqOrder, SqDue, SqDueOf
    <3> QED
      BY <1>0, <2>1, <2>3, <3>1
  <2> QED
    BY <2>2, <2>3
<1>9. SqFloor'
  <2>1. /\ pc[SysTick] = "home" /\ pc'[SysTick] = "home" /\ SysTick \in Ctx /\ SysTick # t
        /\ \A d \in Ctx : d # t => pc[d] \notin Holding /\ pc'[d] \notin Holding
        /\ pc[t] \in Holding /\ s_locked
    <3>1. SysTick \in Irq /\ SysTick \in Ctx /\ SysTick # t
      BY <1>0, SqContexts
    <3>2. pc[t] \in Holding /\ \A e \in Irq : pc[e] = "home"
      BY <1>0, <1>1, SqAlone DEF Holding
    <3>3. s_locked /\ \A d \in Ctx : d # t => pc[d] \notin Holding
      BY <1>0, <3>2 DEF SqControl, SqLock
    <3> QED
      BY <1>1, <3>1, <3>2, <3>3
  <2>2. Slack = held /\ Slack' = held
    BY <1>1, <2>1 DEF Slack
  <2>3. ASSUME NEW u \in Task, Member(u)' PROVE left'[u] >= -(MaxLag + held)
    <3>1. CASE u = t
      <4>1. left[t] >= -MaxLag /\ left[t] \in Int
        BY <1>0, <1>1, SqNumbers DEF SqOrder, SqDue, SqDueOf
      <4> QED
        BY <1>0, <1>1, <3>1, <4>1
    <3>2. CASE u # t
      BY <1>0, <1>1, <1>3, <2>2, <2>3, <3>2 DEF SqFloor, Late
    <3> QED
      BY <3>1, <3>2
  <2>4. held = 0 \/ WillExpire(t)
    BY <1>0, <1>1, <2>1 DEF SqFloor, SqHolderOf
  <2>5. SqHolderOf(t)'
    BY <1>1, <2>4 DEF SqHolderOf, WillExpire
  <2>6. ASSUME NEW d \in Ctx, d # t PROVE SqHolderOf(d)'
    <3>1. pc'[d] \notin Holding
      BY <2>1, <2>6
    <3> QED
      BY <3>1 DEF SqHolderOf, Holding
  <2>7. Late(MaxLag + Slack)'
    BY <2>2, <2>3 DEF Late
  <2>8. pc'[SysTick] \notin Holding /\ s_locked'
    BY <1>1, <2>1 DEF Holding
  <2> QED
    BY <2>5, <2>6, <2>7, <2>8 DEF SqFloor
<1> QED
  BY <1>6, <1>7, <1>8, <1>9 DEF SqOrder, SqDue, SqGap

(***************************************************************************)
(* Steps outside the queue.                                                *)
(***************************************************************************)
\* What a task does to its own times.
SqOwnTimes(t) ==
    \/ /\ left'[t] = left[t] /\ wake_tick'[t] = wake_tick[t]
       /\ pc'[t] \in Preparing => pc[t] \in Preparing
    \/ pc[t] \in {"home", "slept"} /\ pc'[t] \notin Preparing
    \/ /\ pc[t] \in {"home", "bsleep"}
       /\ \E ms \in Durations \union {wake_tick[t]} :
             /\ pc[t] = "home" => ms \in Durations
             /\ pc[t] = "bsleep" => ms = wake_tick[t]
             /\ left'[t] = ms /\ wake_tick'[t] = (TICKS + ms) % Modulus

LEMMA SqClientClock ==
    ASSUME SqTypes, NEW t \in Task, ClientStep(t)
    PROVE  SqOwnTimes(t) /\ pc[t] \notin Holding /\ pc'[t] \notin Holding
<1>0. t \in Ctx
  BY SqContexts
<1>1. CASE \E ms \in Durations : sleep_ms(t, ms)
  BY <1>0, <1>1 DEF sleep_ms, BeginSleep, At, Goto, SqOwnTimes, Holding, SqTypes
<1>2. CASE \E ms \in Durations : timed_wait(t, ms)
  BY <1>0, <1>2 DEF timed_wait, At, Goto, SqOwnTimes, Holding, SqTypes
<1>3. CASE barrier_sleep(t)
  BY <1>0, <1>3 DEF barrier_sleep, BeginSleep, At, Goto, SqOwnTimes, Holding, SqTypes
<1>4. CASE barrier_new(t) \/ barrier_wait(t)
  BY <1>0, <1>4 DEF barrier_new, barrier_wait, At, Goto, SqOwnTimes, Holding, Preparing, SqTypes
<1>5. CASE sleep_compare(t) \/ block(t)
  BY <1>0, <1>5 DEF sleep_compare, block, sleep_block, At, Goto, SqOwnTimes, Holding, Preparing, SqTypes
<1>6. CASE leave_box(t)
  BY <1>0, <1>6 DEF leave_box, At, Goto, SqOwnTimes, Holding, Preparing, SqTypes
<1>7. CASE return(t)
  BY <1>0, <1>7 DEF return, sleep_return, At, Goto, SqOwnTimes, Holding, Preparing, SqTypes
<1> QED
  BY <1>1, <1>2, <1>3, <1>4, <1>5, <1>6, <1>7 DEF ClientStep, SleepCall

\* A task that is not about to be in the queue finds it unlocked.
LEMMA SqClientOrder ==
    ASSUME WithinMargin, SqInv, SqOrder, NEW t \in Task, ClientStep(t)
    PROVE  SqOrder'
<1>0. /\ SqTypes /\ SqControl /\ SqOwnerOf(t) /\ SqFloor /\ SqControlOf(t) /\ SqTimesOf(t) /\ t \in Ctx
  BY SqContexts DEF SqInv, SqOwner, SqOrder, SqControl, SqTimes
<1>a. /\ MaxLag \in Nat /\ Half \in Nat /\ MaxAhead \in Nat /\ Durations \subseteq Nat
      /\ MaxAhead + MaxLag < Half /\ \A ms \in Durations : ms + MaxLag < Half
  BY TickRange DEF WithinMargin
<1>1. /\ Running(t) /\ SqOthers(t)
      /\ UNCHANGED <<TICKS, time_sorted_queue, time_to_wakeup, s_locked, s_pending, held>>
  BY <1>0, SqClientStep
<1>2. SqOwnTimes(t) /\ pc[t] \notin Holding /\ pc'[t] \notin Holding
  BY <1>0, SqClientClock
<1>3. /\ pc[SysTick] = "home" /\ pc'[SysTick] = "home" /\ ~s_locked /\ t = cur /\ SysTick \in Ctx
      /\ \A d \in Ctx : pc'[d] \notin Holding
  <2>1. t = cur /\ (\A e \in Irq : pc[e] = "home") /\ ~s_locked
    BY <1>0, <1>1, <1>2, SqAlone
  <2>2. SysTick \in Irq /\ SysTick \in Ctx /\ SysTick # t
    BY SqContexts
  <2>3. \A d \in Ctx : pc[d] \notin Holding
    BY <1>0, <2>1 DEF SqControl, SqLock
  <2> QED
    BY <1>1, <1>2, <2>1, <2>2, <2>3 DEF SqOthers
<1>4. held = 0 /\ Late(MaxLag)
  <2>1. held = 0
    BY <1>0, <1>3 DEF SqFloor
  <2>2. MaxLag + Slack = MaxLag
    BY <1>a, <1>3, <2>1 DEF Slack
  <2> QED
    BY <1>0, <2>1, <2>2 DEF SqFloor
<1>5. \A u : Member(u)' <=> Member(u)
  BY <1>1 DEF Member
<1>6. \A u \in Task : u # t => pc'[u] = pc[u] /\ left'[u] = left[u] /\ wake_tick'[u] = wake_tick[u]
  BY <1>1, SqContexts DEF SqOthers, SqSame
<1>7. Member(t) => left'[t] = left[t] /\ wake_tick'[t] = wake_tick[t] /\ pc'[t] \notin Preparing
  <2> SUFFICES ASSUME Member(t) PROVE left'[t] = left[t] /\ wake_tick'[t] = wake_tick[t] /\ pc'[t] \notin Preparing
    OBVIOUS
  <2>1. pc[t] \in Settled /\ pc[t] \notin Preparing /\ call[t] # "none" /\ pc[t] # "slept"
    BY <1>3, SqMember
  <2>2. pc[t] \notin {"home", "bsleep", "slept"}
    BY <2>1 DEF Settled
  <2> QED
    BY <1>2, <2>1, <2>2 DEF SqOwnTimes
<1>8. pc'[t] \in Preparing => /\ left'[t] \in Int /\ left'[t] + MaxLag < Half /\ left'[t] >= -MaxLag
                              /\ wake_tick'[t] = (TICKS + left'[t]) % Modulus
  <2> SUFFICES ASSUME pc'[t] \in Preparing
               PROVE  /\ left'[t] \in Int /\ left'[t] + MaxLag < Half /\ left'[t] >= -MaxLag
                      /\ wake_tick'[t] = (TICKS + left'[t]) % Modulus
    OBVIOUS
  <2>1. CASE pc[t] \in Preparing /\ left'[t] = left[t] /\ wake_tick'[t] = wake_tick[t]
    <3>1. SqDueOf(t) /\ left[t] \in Int
      BY <1>0, SqNumbers DEF SqOrder, SqDue
    <3> QED
      BY <2>1, <3>1 DEF SqDueOf, Clock
  <2>2. CASE \E ms \in Durations \union {wake_tick[t]} :
                /\ pc[t] = "home" => ms \in Durations
                /\ pc[t] = "bsleep" => ms = wake_tick[t]
                /\ left'[t] = ms /\ wake_tick'[t] = (TICKS + ms) % Modulus
                /\ pc[t] \in {"home", "bsleep"}
    <3>1. PICK ms \in Durations \union {wake_tick[t]} :
                /\ pc[t] = "home" => ms \in Durations
                /\ pc[t] = "bsleep" => ms = wake_tick[t]
                /\ left'[t] = ms /\ wake_tick'[t] = (TICKS + ms) % Modulus
                /\ pc[t] \in {"home", "bsleep"}
      BY <2>2
    <3>2. ms \in Nat /\ ms + MaxLag < Half
      <4>1. CASE pc[t] = "home"
        BY <1>a, <3>1, <4>1
      <4>2. CASE pc[t] = "bsleep"
        <5>1. wake_tick[t] \in 1 .. MaxAhead
          BY <1>0, <4>2 DEF SqTimesOf
        <5> QED
          BY <1>a, <3>1, <4>2, <5>1
      <4> QED
        BY <3>1, <4>1, <4>2
    <3> QED
      BY <1>a, <3>1, <3>2
  <2> QED
    BY <1>2, <2>1, <2>2 DEF SqOwnTimes
<1>9. \A u \in Task : Member(u) => left'[u] = left[u] /\ wake_tick'[u] = wake_tick[u]
  BY <1>6, <1>7
<1>10. QueueOrdered'
  <2>1. \A i \in DOMAIN time_sorted_queue : time_sorted_queue[i] \in Task /\ Member(time_sorted_queue[i])
    BY <1>0, Positions DEF SqTypes, Member, Has
  <2>2. \A i \in DOMAIN time_sorted_queue : left'[time_sorted_queue[i]] = left[time_sorted_queue[i]]
    BY <1>9, <2>1
  <2> QED
    BY <1>1, <2>2 DEF SqOrder, QueueOrdered
<1>11. ASSUME NEW u \in Task PROVE SqDueOf(u)'
  <2>1. SqDueOf(u) /\ TICKS' = TICKS
    BY <1>1 DEF SqOrder, SqDue
  <2>2. CASE u # t
    BY <1>5, <1>6, <2>1, <2>2 DEF SqDueOf, Clock
  <2>3. CASE u = t
    <3>1. Member(u)' => left'[u] + MaxLag < Half /\ wake_tick'[u] = (TICKS + left'[u]) % Modulus
      BY <1>5, <1>9, <2>1 DEF SqDueOf, Clock
    <3> QED
      BY <1>8, <2>1, <2>3, <3>1 DEF SqDueOf, Clock
  <2> QED
    BY <2>2, <2>3
<1>12. ASSUME NEW v \in Task, NEW u \in Task, pc'[v] \in Preparing, Member(u)'
       PROVE  left'[v] - left'[u] < Half
  <2>1. Member(u) /\ left'[u] = left[u]
    BY <1>5, <1>9, <1>12
  <2>2. CASE v = t
    <3>1. left[u] >= -MaxLag /\ left[u] \in Int
      BY <1>0, <1>4, <2>1, SqNumbers DEF Late
    <3>2. left'[v] \in Int /\ left'[v] + MaxLag < Half
      BY <1>8, <1>12, <2>2
    <3> QED
      BY <1>a, <2>1, <3>1, <3>2
  <2>3. CASE v # t
    BY <1>6, <1>12, <2>1, <2>3 DEF SqOrder, SqGap
  <2> QED
    BY <2>2, <2>3
<1>13. SqFloor'
  <2>1. MaxLag + Slack' = MaxLag
    BY <1>a, <1>1, <1>3, <1>4 DEF Slack
  <2>2. Late(MaxLag + Slack)'
    BY <1>4, <1>5, <1>9, <2>1 DEF Late
  <2>3. \A d \in Ctx : SqHolderOf(d)'
    BY <1>3 DEF SqHolderOf, Holding
  <2> QED
    BY <1>1, <1>3, <1>4, <2>2, <2>3 DEF SqFloor
<1> QED
  BY <1>10, <1>11, <1>12, <1>13 DEF SqOrder, SqDue, SqGap

\* Steps that leave the queue, the clock and the lock as they are, and nobody gets into
\* the lock or on the way into the queue.
LEMMA SqAsideOrder ==
    ASSUME SqOrder,
           UNCHANGED <<TICKS, time_sorted_queue, time_to_wakeup, s_locked, s_pending, wake_tick, held, left>>,
           \A d \in Ctx : \/ pc'[d] = pc[d]
                          \/ /\ d # SysTick /\ pc[d] \notin Holding
                             /\ pc'[d] \notin Holding \union Preparing
    PROVE  SqOrder'
<1>0. SysTick \in Ctx /\ Task \subseteq Ctx /\ SqFloor
  BY SqContexts DEF SqOrder
<1>1. \A t : Member(t)' <=> Member(t)
  BY DEF Member
<1>2. SqDue' /\ SqGap' /\ LateKept /\ QueueOrdered'
  BY <1>0, <1>1, SqStill
<1>3. pc'[SysTick] = pc[SysTick]
  BY <1>0
<1>4. Slack' = Slack
  <2>1. HeldBelow' <=> HeldBelow
    BY SqLevels DEF HeldBelow
  <2> QED
    BY <1>3, <2>1 DEF Slack
<1>5. Late(MaxLag + Slack)' /\ (Late(held) => Late(held)') /\ (Late(0) => Late(0)')
  BY <1>0, <1>2, <1>4 DEF SqFloor, Late, LateKept
<1>6. ASSUME NEW d \in Ctx, d # SysTick PROVE SqHolderOf(d)'
  <2>1. CASE pc'[d] = pc[d]
    <3>1. SqHolderOf(d) /\ (WillExpire(d) => WillExpire(d)')
      BY <1>0, <1>6, <2>1 DEF SqFloor, WillExpire
    <3> QED
      BY <1>3, <1>5, <2>1, <3>1 DEF SqHolderOf
  <2>2. CASE pc'[d] \notin Holding
    BY <2>2 DEF SqHolderOf, Holding
  <2> QED
    BY <1>6, <2>1, <2>2
<1>7. SqFloor'
  BY <1>0, <1>3, <1>5, <1>6 DEF SqFloor
<1> QED
  BY <1>2, <1>7 DEF SqOrder

\* A context takes a task out of a mailbox; a switch; nothing.
LEMMA SqOutsideOrder ==
    ASSUME SqInv, SqOrder,
           (\E c \in Ctx, t \in Task : take_out(c, t)) \/ SleepSwitch \/ UNCHANGED clvars
    PROVE  SqOrder'
<1>0. SqTypes /\ SqControl
  BY DEF SqInv
<1>1. ASSUME NEW c \in Ctx, NEW t \in Task, take_out(c, t) PROVE SqOrder'
  <2>1. /\ pc[c] = "home" /\ pc' = [pc EXCEPT ![c] = "s_remove"] /\ c # SysTick
        /\ UNCHANGED <<TICKS, time_sorted_queue, time_to_wakeup, s_locked, s_pending, wake_tick, held, left>>
    BY <1>0, <1>1, SqTakeLocals
  <2>2. pc'[c] = "s_remove" /\ \A d \in Ctx : d # c => pc'[d] = pc[d]
    BY <1>0, <2>1 DEF SqTypes
  <2>3. pc[c] \notin Holding /\ pc'[c] \notin Holding \union Preparing
    BY <2>1, <2>2 DEF Holding, Preparing
  <2> QED
    BY <2>1, <2>2, <2>3, SqAsideOrder
<1>2. CASE SleepSwitch
  <2>1. /\ \A e \in Irq : pc[e] = "home"
        /\ \A c \in Ctx : pc'[c] = IF c = cur /\ pc[c] = "yield" THEN "slept" ELSE pc[c]
        /\ UNCHANGED <<TICKS, time_sorted_queue, time_to_wakeup, s_locked, s_pending, wake_tick, held, left>>
    BY <1>0, <1>2, SqSwitchLocals
  <2>2. ASSUME NEW d \in Ctx, pc'[d] # pc[d]
        PROVE  d # SysTick /\ pc[d] \notin Holding /\ pc'[d] \notin Holding \union Preparing
    <3>1. pc[d] = "yield" /\ pc'[d] = "slept"
      BY <2>1, <2>2
    <3>2. pc[SysTick] = "home"
      BY <2>1, SqContexts
    <3> QED
      BY <3>1, <3>2 DEF Holding, Preparing
  <2> QED
    BY <2>1, <2>2, SqAsideOrder
<1>3. CASE UNCHANGED clvars
  <2>1. UNCHANGED <<pc, TICKS, time_sorted_queue, time_to_wakeup, s_locked, s_pending, wake_tick, held, left>>
    BY <1>3 DEF clvars, sqvars, squeue
  <2> QED
    BY <2>1, SqAsideOrder
<1> QED
  BY <1>1, <1>2, <1>3

\* The queue starts empty.
LEMMA SqInitOrder ==
    ASSUME SleepInit PROVE SqOrder
<1>1. /\ time_sorted_queue = <<>> /\ held = 0 /\ \A c \in Ctx : pc[c] = "home"
  BY DEF SleepInit, InitSleepQueue, InitCore
<1>2. \A t : ~Member(t)
  BY <1>1 DEF Member, Has
<1>3. QueueOrdered
  BY <1>1 DEF QueueOrdered
<1>4. \A c \in Ctx : pc[c] \notin Holding /\ pc[c] \notin Preparing
  BY <1>1 DEF Holding, Preparing
<1>5. SqDue /\ SqGap
  BY <1>2, <1>4, SqContexts DEF SqDue, SqDueOf, SqGap
<1>6. \A n : Late(n)
  BY <1>2 DEF Late
<1>7. SqFloor
  BY <1>1, <1>4, <1>6 DEF SqFloor, SqHolderOf
<1> QED
  BY <1>3, <1>5, <1>7 DEF SqOrder

\* Every step keeps the order.
LEMMA SqNextOrder ==
    ASSUME WithinMargin, SqInv, SqOrder, [SleepNext]_clvars PROVE SqOrder'
<1>1. CASE advance_tick /\ UNCHANGED clients
  BY <1>1, SqTickOrder
<1>2. ASSUME NEW c \in Ctx, Inside(c), UNCHANGED clients PROVE SqOrder'
  <2>1. CASE pc[c] = "s_insert"
    BY <1>2, <2>1, SqInsertOrder
  <2>2. CASE pc[c] # "s_insert"
    BY <1>2, <2>2, SqInsideOrder
  <2> QED
    BY <2>1, <2>2
<1>3. ASSUME NEW t \in Task, ClientStep(t) PROVE SqOrder'
  BY <1>3, SqClientOrder
<1>4. CASE (\E c \in Ctx, t \in Task : take_out(c, t)) \/ SleepSwitch \/ UNCHANGED clvars
  BY <1>4, SqOutsideOrder
<1> QED
  BY <1>1, <1>2, <1>3, <1>4, SqSteps

(***************************************************************************)
(* The queue is in the order of the absolute wake-up times, for any width  *)
(* of the counter, any number of tasks and any contexts that take tasks    *)
(* out of it, as long as no sleeping time plus the lag of a task that is   *)
(* on its way into the queue comes to half the range: up to there tick_cmp *)
(* never compares ticks too far apart.                                     *)
(***************************************************************************)
THEOREM QueueStaysOrdered ==
    ASSUME WithinMargin PROVE SleepSpec => []QueueOrdered
<1>1. SleepInit => SqInv /\ SqOrder
  BY SqInitInv, SqInitOrder
<1>2. (SqInv /\ SqOrder) /\ [SleepNext]_clvars => (SqInv /\ SqOrder)'
  BY SqNextInv, SqNextOrder
<1>3. SqOrder => QueueOrdered
  BY DEF SqOrder
<1> QED
  BY <1>1, <1>2, <1>3, PTL DEF SleepSpec
-----------------------------------------------------------------------------
(***************************************************************************)
(* What wait_until_timeout returns.  While a task waits with a timeout, it *)
(* is woken because its time has come, because it is being told, or by a   *)
(* removal that was pended for an earlier wait: whoever pends a removal is *)
(* telling the task, and marks it before it leaves the mailbox.            *)
(***************************************************************************)
InTimeout(b) == InWait(b) /\ call[b] = "timeout"
Tells(c, b) == whom[c] = b /\ (Telling(c, "m_told") \/ Telling(c, "m_notified"))
Told(b) == task_notified[b] \/ \E c \in Ctx : Tells(c, b)
Failing(b) == pc[b] = "m_false" \/ (whom[b] = b /\ m_ret[b] = "m_false")
Slept(b) == Has(time_sorted_queue, b) \/ Adding(b)

EarlyOf(b) ==
    /\ InTimeout(b) /\ state[b] # "Blocked" => left[b] <= 0 \/ stale[b] \/ Told(b)
    /\ InTimeout(b) /\ Has(delete_buffer, b) => stale[b] \/ Told(b)
    /\ Failing(b) => left[b] <= 0 \/ stale[b]
    /\ Slept(b) /\ left[b] > 0 => wake_tick[b] = Clock(left[b])

EarlyTypes ==
    /\ TICKS \in Ticks /\ left \in [Task -> Int] /\ wake_tick \in [Task -> Int]
    /\ stale \in [Box -> BOOLEAN]
    /\ \A t \in Task : left[t] < Half

EarlyInv ==
    /\ EarlyTypes
    /\ \A c \in Ctx : pc[c] = "s_take" => ret[c] \in {"m_told", "m_notified"}
    /\ \A b \in Box : EarlyOf(b)

-----------------------------------------------------------------------------
\* A wake-up tick that is still to come compares as later than the clock.
LEMMA OverdueTick ==
    ASSUME TICKS \in Ticks, NEW n \in Int, 0 < n, n < Half
    PROVE  tick_cmp(Clock(n), TICKS) = 1
<1>0. Half \in Nat /\ Half >= 1 /\ Modulus = 2 * Half /\ Clock(0) = TICKS
  BY TickRange, ClockIsTick
<1>1. tick_cmp(Clock(n), Clock(0)) = IF n = 0 THEN 0 ELSE IF n < 0 THEN -1 ELSE 1
  BY <1>0, TicksCompare
<1> QED
  BY <1>0, <1>1

\* A step that leaves the time of b alone.
LEMMA EarlyKeep ==
    ASSUME NEW b \in Box, EarlyOf(b), UNCHANGED TICKS, left'[b] = left[b],
           stale'[b] = stale[b], wake_tick'[b] = wake_tick[b],
           InTimeout(b)' => InTimeout(b),
           InTimeout(b)' /\ Told(b) => Told(b)',
           InTimeout(b)' /\ state'[b] # "Blocked" =>
              state[b] # "Blocked" \/ left[b] <= 0 \/ stale[b] \/ Told(b)',
           InTimeout(b)' /\ Has(delete_buffer', b) => Has(delete_buffer, b) \/ Told(b)',
           Failing(b)' => Failing(b),
           Slept(b)' => Slept(b)
    PROVE  EarlyOf(b)'
<1>1. InTimeout(b)' /\ state'[b] # "Blocked" => left'[b] <= 0 \/ stale'[b] \/ Told(b)'
  BY DEF EarlyOf
<1>2. InTimeout(b)' /\ Has(delete_buffer', b) => stale'[b] \/ Told(b)'
  BY DEF EarlyOf
<1>3. Failing(b)' => left'[b] <= 0 \/ stale'[b]
  BY DEF EarlyOf
<1>4. Slept(b)' /\ left'[b] > 0 => wake_tick'[b] = (TICKS' + left'[b]) % Modulus
  BY DEF EarlyOf, Clock
<1> QED
  BY <1>1, <1>2, <1>3, <1>4 DEF EarlyOf, Clock

\* A step in the sleep queue or of the clock, as the waits see it.
LEMMA QuietEarly ==
    ASSUME NEW c \in Ctx, Quiet(c), NEW b \in Box
    PROVE  /\ InTimeout(b)' <=> InTimeout(b)
           /\ Told(b)' <=> Told(b)
           /\ Failing(b)' <=> Failing(b)
           /\ \A d \in Ctx : Tells(d, b)' <=> Tells(d, b)
           /\ Adding(b)' => Adding(b)
<1>1. b \in Ctx
  BY Contexts
<1>2. /\ UNCHANGED <<call, whom, m_ret, task_notified>>
      /\ pc'[b] = pc[b] \/ (b = c /\ pc[b] \notin Waiting /\ pc'[b] \notin Waiting)
  BY <1>1 DEF Quiet, Others
<1>3. InTimeout(b)' <=> InTimeout(b)
  BY <1>2 DEF InTimeout, InWait, Waiting
<1>4. Failing(b)' <=> Failing(b)
  BY <1>2 DEF Failing, Waiting
<1>5. ASSUME NEW d \in Ctx PROVE Tells(d, b)' <=> Tells(d, b)
  <2>1. CASE d = c
    BY <1>2, <2>1 DEF Quiet, Tells
  <2>2. CASE d # c
    BY <1>2, <2>2 DEF Quiet, Others, Tells, Telling
  <2> QED
    BY <2>1, <2>2
<1>6. Told(b)' <=> Told(b)
  BY <1>2, <1>5 DEF Told
<1>7. Adding(b)' => Adding(b)
  BY <1>1 DEF Quiet, Others, Adding
<1> QED
  BY <1>3, <1>4, <1>5, <1>6, <1>7

\* A step changes the locals of one context only, and gets to s_take from s_remove.
LEMMA TakeSteps ==
    ASSUME EarlyInv, NEW c \in Ctx, Others(c),
           pc'[c] = "s_take" => ret'[c] \in {"m_told", "m_notified"}
    PROVE  \A d \in Ctx : pc'[d] = "s_take" => ret'[d] \in {"m_told", "m_notified"}
  BY DEF EarlyInv, Others

\* The sleep queue.
LEMMA SleepEarly ==
    ASSUME IInv, EarlyInv, NEW c \in Ctx, InSleep(c)
    PROVE  EarlyInv'
<1>0. /\ Types /\ ControlInv /\ LockInv /\ CallInv /\ BlockedInv /\ ControlOf(c) /\ EarlyTypes
      /\ Quiet(c) /\ Others(c)
  BY QuietSteps DEF IInv, ControlInv, EarlyInv, Quiet
<1>1. UNCHANGED <<TICKS, left, wake_tick, stale, whom>>
  BY DEF InSleep, mbvars, SleepStep, s_leave, run_pended_op, wake_expired_tasks,
     drain_delete_buffer, clear_time_to_wakeup, wake_sleeping_tasks, add_guard, add_insert,
     remove_guard, remove_full
<1>2. EarlyTypes'
  BY <1>0, <1>1 DEF EarlyTypes
<1>3. \A d \in Ctx : pc'[d] = "s_take" => ret'[d] \in {"m_told", "m_notified"}
  <2>1. ASSUME pc'[c] = "s_take" PROVE ret'[c] \in {"m_told", "m_notified"}
    <3>1. CASE remove_guard(c)
      <4>1. pc[c] = "s_remove" /\ (Returned(c) \/ Moved(c, "s_take") \/ Moved(c, "die"))
        BY <3>1, <1>0, SleepLocals DEF remove_guard, At
      <4> QED
        BY <1>0, <2>1, <4>1 DEF ControlOf, Returned, Moved, Became
    <3>2. CASE s_leave(c)
      <4>1. pc[c] = "s_leave" /\ (Returned(c) \/ Moved(c, "s_run"))
        BY <3>2, <1>0, SleepLocals DEF s_leave, At
      <4>2. ret[c] \in {"home", "m_leave", "m_told", "m_notified"}
        BY <1>0, <4>1 DEF ControlOf, SuspendedSteps
      <4> QED
        BY <2>1, <4>1, <4>2 DEF Returned, Moved, Became
    <3>3. CASE ~remove_guard(c) /\ ~s_leave(c)
      <4>1. \E p \in {"s_leave", "expire_pended", "drain", "drain_pended", "clear", "home", "expire", "hang", "s_insert"} :
               Moved(c, p)
        BY <1>0, <3>3, SleepLocals DEF InSleep, SleepStep
      <4> QED
        BY <2>1, <4>1 DEF Moved, Became
    <3> QED
      BY <3>1, <3>2, <3>3
  <2> QED
    BY <1>0, <2>1, TakeSteps
<1>4. ASSUME NEW b \in Box PROVE EarlyOf(b)'
  <2>0. b \in Task /\ EarlyOf(b) /\ left[b] \in Int /\ left[b] < Half
    BY <1>0, Contexts DEF EarlyInv, EarlyTypes
  <2>1. /\ InTimeout(b)' <=> InTimeout(b)
        /\ Told(b)' <=> Told(b)
        /\ Failing(b)' <=> Failing(b)
        /\ Adding(b)' => Adding(b)
    BY <1>0, QuietEarly
  <2>2. ASSUME NEW ts, time_sorted_queue' = Without(time_sorted_queue, ts), accept_task(ts),
               delete_buffer' = delete_buffer \/ delete_buffer' = <<>>,
               b \in ts => left[b] <= 0 \/ stale[b] \/ Told(b)
        PROVE  EarlyOf(b)'
    <3>1. Has(time_sorted_queue', b) => Has(time_sorted_queue, b)
      BY <1>0, <2>2, WithoutTasks DEF Types
    <3>2. state'[b] = IF b \in ts THEN "Ready" ELSE state[b]
      BY <2>0, <2>2 DEF accept_task
    <3>3. Has(delete_buffer', b) => Has(delete_buffer, b)
      BY <2>2 DEF Has
    <3> QED
      BY <1>1, <2>0, <2>1, <2>2, <3>1, <3>2, <3>3, EarlyKeep DEF Slept
  <2>3. CASE wake_expired_tasks(c)
    <3>1. /\ time_sorted_queue' = Without(time_sorted_queue, Expired(time_sorted_queue))
          /\ accept_task(Expired(time_sorted_queue)) /\ delete_buffer' = delete_buffer
      BY <2>3 DEF wake_expired_tasks, remove_tasks
    <3>2. ASSUME b \in Expired(time_sorted_queue) PROVE left[b] <= 0
      <4>1. Has(time_sorted_queue, b) /\ tick_cmp(wake_tick[b], TICKS) # 1
        BY <1>0, <3>2, ExpiredTick DEF Types
      <4>2. left[b] > 0 => wake_tick[b] = Clock(left[b])
        BY <2>0, <4>1 DEF EarlyOf, Slept
      <4>3. left[b] > 0 => tick_cmp(Clock(left[b]), TICKS) = 1
        BY <1>0, <2>0, OverdueTick DEF EarlyTypes
      <4> QED
        BY <2>0, <4>1, <4>2, <4>3
    <3> QED
      BY <2>2, <3>1, <3>2
  <2>4. CASE drain_delete_buffer(c)
    <3> DEFINE R == ToSet(delete_buffer) \intersect ToSet(time_sorted_queue)
    <3>1. /\ time_sorted_queue' = Without(time_sorted_queue, R)
          /\ accept_task(R) /\ delete_buffer' = <<>>
      BY <2>4 DEF drain_delete_buffer, remove_tasks
    <3>2. ASSUME b \in R PROVE stale[b] \/ Told(b)
      <4>1. Has(delete_buffer, b) /\ Has(time_sorted_queue, b)
        BY <3>2 DEF ToSet, Has
      <4>2. InTimeout(b)
        BY <1>0, <2>0, <4>1 DEF BlockedInv, InTimeout
      <4> QED
        BY <2>0, <4>1, <4>2 DEF EarlyOf
    <3> HIDE DEF R
    <3> QED
      BY <2>2, <3>1, <3>2
  <2>5. CASE remove_full(c)
    <3> DEFINE R == {whom[c]} \intersect ToSet(time_sorted_queue)
    <3>1. /\ time_sorted_queue' = Without(time_sorted_queue, R) /\ pc[c] = "s_take"
          /\ accept_task(R) /\ delete_buffer' = delete_buffer
      BY <2>5 DEF remove_full, remove_tasks, At
    <3>2. b \in R => Told(b)
      BY <3>1 DEF EarlyInv, Told, Tells, Telling
    <3> HIDE DEF R
    <3> QED
      BY <2>2, <3>1, <3>2
  <2>6. CASE c \in Task /\ add_insert(c)
    <3>1. /\ time_sorted_queue' = push_back_tick_sorted(time_sorted_queue, c, wake_tick[c])
          /\ pc[c] = "s_insert" /\ UNCHANGED <<state, delete_buffer>>
      BY <2>6 DEF add_insert, At
    <3>2. Has(time_sorted_queue', b) => Has(time_sorted_queue, b) \/ b = c
      BY <1>0, <2>6, <3>1, PushBack, InsertTask DEF Types
    <3>3. Slept(b)' => Slept(b)
      BY <2>1, <3>1, <3>2 DEF Slept, Adding
    <3> QED
      BY <1>1, <2>0, <2>1, <3>1, <3>3, EarlyKeep
  <2>7. CASE remove_guard(c)
    <3>1. UNCHANGED <<time_sorted_queue, state>> /\ pc[c] = "s_remove"
      BY <2>7 DEF remove_guard, At
    <3>2. Has(delete_buffer', b) => Has(delete_buffer, b) \/ b = whom[c]
      <4>1. delete_buffer' = delete_buffer \/ delete_buffer' = Append(delete_buffer, whom[c])
        BY <2>7 DEF remove_guard
      <4>2. \A i \in DOMAIN Append(delete_buffer, whom[c]) :
               \/ i \in DOMAIN delete_buffer /\ Append(delete_buffer, whom[c])[i] = delete_buffer[i]
               \/ Append(delete_buffer, whom[c])[i] = whom[c]
        BY <1>0 DEF Types
      <4> QED
        BY <4>1, <4>2 DEF Has
    <3>3. b = whom[c] => Told(b)
      BY <1>0, <3>1 DEF ControlOf, Told, Tells, Telling
    <3> QED
      BY <1>1, <2>0, <2>1, <3>1, <3>2, <3>3, EarlyKeep DEF Slept
  <2>8. CASE \/ s_leave(c) \/ run_pended_op(c) \/ clear_time_to_wakeup(c)
             \/ (c = SysTick /\ wake_sleeping_tasks) \/ (c \in Task /\ add_guard(c))
    <3>1. UNCHANGED <<time_sorted_queue, state, delete_buffer>>
      BY <2>8 DEF s_leave, run_pended_op, clear_time_to_wakeup, wake_sleeping_tasks, add_guard, squeue
    <3> QED
      BY <1>1, <2>0, <2>1, <3>1, EarlyKeep DEF Slept
  <2> QED
    BY <2>3, <2>4, <2>5, <2>6, <2>7, <2>8 DEF InSleep, SleepStep
<1> QED
  BY <1>2, <1>3, <1>4 DEF EarlyInv

\* The clock: whoever has time left has one tick less.
LEMMA TickEarly ==
    ASSUME IInv, EarlyInv, Tick
    PROVE  EarlyInv'
<1>0. /\ Types /\ EarlyTypes /\ Quiet(SysTick) /\ Others(SysTick) /\ SysTick \in Ctx
      /\ Half \in Nat /\ Half >= 1 /\ Modulus = 2 * Half /\ MaxLate \in Nat
  BY QuietSteps, Contexts, TickRange DEF IInv, EarlyInv, Quiet
<1>1. /\ UNCHANGED <<state, wake_tick, stale, time_sorted_queue, delete_buffer, ret>>
      /\ left' = [t \in Task |-> IF call[t] = "none" THEN 0 ELSE Later(left[t])]
      /\ TICKS' = (TICKS + 1) % Modulus /\ pc'[SysTick] = "s_wake"
  BY <1>0 DEF Tick, advance_tick, mbvars, squeue, Goto, Types
<1>2. /\ TICKS' \in Ticks
      /\ \A n \in Int : -Modulus < n /\ n < Modulus => (TICKS' + (n - 1)) % Modulus = Clock(n)
  BY <1>0, <1>1, ClockMoves DEF EarlyTypes
<1>3. ASSUME NEW t \in Task
      PROVE  /\ left[t] \in Int /\ left'[t] \in Int /\ left'[t] < Half
             /\ left[t] <= 0 => left'[t] <= 0
             /\ left'[t] > 0 => left'[t] = left[t] - 1
  <2>1. left[t] \in Int /\ left[t] < Half
    BY <1>0 DEF EarlyTypes
  <2>2. left'[t] = IF call[t] = "none" THEN 0 ELSE IF left[t] > -MaxLate THEN left[t] - 1 ELSE left[t]
    BY <1>1 DEF Later
  <2> QED
    BY <1>0, <2>1, <2>2
<1>4. EarlyTypes'
  <2>1. left' \in [Task -> Int]
    BY <1>1, <1>3
  <2> QED
    BY <1>0, <1>1, <1>2, <1>3, <2>1 DEF EarlyTypes
<1>5. \A d \in Ctx : pc'[d] = "s_take" => ret'[d] \in {"m_told", "m_notified"}
  BY <1>0, <1>1, TakeSteps
<1>6. ASSUME NEW b \in Box PROVE EarlyOf(b)'
  <2>0. b \in Task /\ EarlyOf(b)
    BY Contexts DEF EarlyInv
  <2>1. /\ InTimeout(b)' <=> InTimeout(b)
        /\ Told(b)' <=> Told(b)
        /\ Failing(b)' <=> Failing(b)
        /\ Adding(b)' => Adding(b)
    BY <1>0, QuietEarly
  <2>2. left[b] \in Int /\ (left[b] <= 0 => left'[b] <= 0) /\ (left'[b] > 0 => left'[b] = left[b] - 1)
        /\ left[b] < Half /\ left'[b] \in Int
    BY <1>0, <1>3, <2>0 DEF EarlyTypes
  <2>3. ASSUME Slept(b)', left'[b] > 0 PROVE wake_tick'[b] = (TICKS' + left'[b]) % Modulus
    <3>1. Slept(b) /\ left[b] > 0 /\ wake_tick[b] = Clock(left[b])
      BY <1>1, <2>0, <2>1, <2>2, <2>3 DEF Slept, EarlyOf
    <3>2. -Modulus < left[b] /\ left[b] < Modulus
      BY <1>0, <2>2, <3>1
    <3>3. (TICKS' + (left[b] - 1)) % Modulus = Clock(left[b])
      BY <1>2, <2>2, <3>2
    <3> QED
      BY <1>1, <2>2, <2>3, <3>1, <3>3
  <2>4. InTimeout(b)' /\ state'[b] # "Blocked" => left'[b] <= 0 \/ stale'[b] \/ Told(b)'
    BY <1>1, <2>0, <2>1, <2>2 DEF EarlyOf
  <2>5. InTimeout(b)' /\ Has(delete_buffer', b) => stale'[b] \/ Told(b)'
    BY <1>1, <2>0, <2>1 DEF EarlyOf
  <2>6. Failing(b)' => left'[b] <= 0 \/ stale'[b]
    BY <1>1, <2>0, <2>1, <2>2 DEF EarlyOf
  <2> QED
    BY <2>3, <2>4, <2>5, <2>6 DEF EarlyOf, Clock
<1> QED
  BY <1>4, <1>5, <1>6 DEF EarlyInv

\* A step of task t in its own mailbox leaves the other waits alone: nobody but t
\* is inside a mailbox while it runs.
LEMMA OtherWaits ==
    ASSUME IInv, EarlyInv, NEW t \in Task, Running(t), Others(t), NEW b \in Box, b # t,
           UNCHANGED <<TICKS, time_sorted_queue, delete_buffer>>,
           left'[b] = left[b], stale'[b] = stale[b], wake_tick'[b] = wake_tick[b],
           call'[b] = call[b], task_notified'[b] = task_notified[b], state'[b] = state[b],
           whom[t] # b
    PROVE  EarlyOf(b)'
<1>0. ControlInv /\ LockInv /\ EarlyOf(b) /\ b \in Ctx
  BY Contexts DEF IInv, EarlyInv
<1>1. /\ pc'[b] = pc[b] /\ whom'[b] = whom[b] /\ m_ret'[b] = m_ret[b]
  BY <1>0 DEF Others
<1>2. ~ \E d \in Ctx : Tells(d, b)
  <2>1. \A d \in Ctx : d # t => whom[d] = Idle
    BY <1>0, Alone
  <2> QED
    BY <2>1, Contexts DEF Tells
<1>3. /\ InTimeout(b)' <=> InTimeout(b)
      /\ Failing(b)' <=> Failing(b)
      /\ Adding(b)' <=> Adding(b)
      /\ Told(b) => Told(b)'
  BY <1>1, <1>2 DEF InTimeout, InWait, Failing, Adding, Told
<1> QED
  BY <1>0, <1>3, EarlyKeep DEF Slept

\* The calls of a task and its waits.
LEMMA WaitEarly ==
    ASSUME TimeoutsBelowHalf, IInv, EarlyInv, NEW t \in Task,
           \/ \E k \in {"wait", "timeout"} : mailbox_call(t, k)
           \/ wait_counted(t) \/ wait_block(t)
           \/ \E ms \in Durations : wait_block_timeout(t, ms)
           \/ awake(t) \/ wait_return(t)
    PROVE  EarlyInv'
<1>0. /\ Types /\ EarlyTypes /\ ControlInv /\ CallInv /\ LockInv /\ BlockedInv /\ ControlOf(t) /\ CallOf(t)
      /\ t \in Ctx
  BY Contexts DEF IInv, EarlyInv, ControlInv, CallInv
<1>1. /\ Running(t) /\ UNCHANGED <<TICKS, time_sorted_queue, delete_buffer>>
      /\ pc[t] \in {"home", "m_wait", "m_awake", "m_true", "m_false"}
      /\ \A b \in Box : b # t => /\ left'[b] = left[b] /\ stale'[b] = stale[b] /\ wake_tick'[b] = wake_tick[b]
                                 /\ call'[b] = call[b] /\ task_notified'[b] = task_notified[b]
                                 /\ state'[b] = state[b]
  <2>1. \A b \in Box : b \in Task
    BY Contexts
  <2> QED
    BY <1>0, <2>1 DEF mailbox_call, wait_counted, wait_block, wait_block_timeout, awake, wait_return, At,
       mbvars, inner, squeue, Types, EarlyTypes
<1>2. /\ whom[t] = Idle /\ ret[t] = "home"
  BY <1>0, <1>1 DEF ControlOf, SuspendedSteps, MailboxSuspended
<1>3. Others(t) /\ pc'[t] # "s_take"
  <2>1. \/ Moved(t, "m_wait") \/ Moved(t, "m_true") \/ Moved(t, "home")
        \/ \E p \in {"m_leave", "s_add", "hang"} : \E r, m : Became(t, p, t, r, m)
    BY <1>0, WaitLocals
  <2> QED
    BY <2>1 DEF Moved, Became
<1>4. \A d \in Ctx : pc'[d] = "s_take" => ret'[d] \in {"m_told", "m_notified"}
  BY <1>0, <1>3, TakeSteps
<1>5. ASSUME NEW b \in Box, b # t PROVE EarlyOf(b)'
  BY <1>1, <1>2, <1>3, <1>5, OtherWaits, Contexts
<1>6. ASSUME t \in Box
      PROVE  EarlyOf(t) /\ left[t] \in Int
  BY <1>0, <1>6 DEF EarlyInv, EarlyTypes
<1>7. CASE (\E k \in {"wait", "timeout"} : mailbox_call(t, k)) \/ wait_counted(t) \/ wait_block(t)
  <2>1. UNCHANGED <<left, stale, wake_tick>>
    BY <1>7 DEF mailbox_call, wait_counted, wait_block, mbvars
  <2>2. EarlyTypes'
    BY <1>0, <1>1, <2>1 DEF EarlyTypes
  <2>3. ASSUME t \in Box PROVE EarlyOf(t)'
    <3>1. ~InTimeout(t)' /\ ~Failing(t)' /\ ~Adding(t)'
      <4>1. CASE \E k \in {"wait", "timeout"} : mailbox_call(t, k)
        <5>1. Moved(t, "m_wait")
          BY <1>0, <4>1, WaitLocals
        <5> QED
          BY <1>2, <2>3, <5>1, Contexts DEF Moved, Became, InTimeout, InWait, Failing, Adding
      <4>2. CASE wait_counted(t)
        <5>1. \E r : Became(t, "m_leave", t, r, "m_true")
          BY <1>0, <4>2, WaitLocals
        <5> QED
          BY <5>1 DEF Became, InTimeout, InWait, Failing, Adding
      <4>3. CASE wait_block(t)
        <5>1. (\E r : Became(t, "m_leave", t, r, "m_yield")) /\ call'[t] = "wait"
          BY <1>0, <4>3, WaitLocals DEF wait_block
        <5> QED
          BY <5>1 DEF Became, InTimeout, InWait, Failing, Adding
      <4> QED
        BY <1>7, <4>1, <4>2, <4>3
    <3>2. Has(time_sorted_queue', t) => Has(time_sorted_queue, t)
      BY <1>1
    <3> QED
      BY <1>1, <1>6, <2>1, <2>3, <3>1, <3>2 DEF EarlyOf, Slept, Clock
  <2> QED
    BY <1>4, <1>5, <2>2, <2>3 DEF EarlyInv
<1>8. ASSUME NEW ms \in Durations, wait_block_timeout(t, ms) PROVE EarlyInv'
  <2>1. /\ ms \in Int /\ ms < Half
        /\ left' = [left EXCEPT ![t] = ms] /\ wake_tick' = [wake_tick EXCEPT ![t] = (TICKS + ms) % Modulus]
        /\ stale' = [stale EXCEPT ![t] = Contains(delete_buffer, t)]
        /\ state' = [state EXCEPT ![t] = "Blocked"] /\ TICKS' = TICKS
    BY <1>8, DurationAssumption DEF wait_block_timeout, TimeoutsBelowHalf
  <2>2. t \in Box
    <3>1. call[t] = "timeout"
      BY <1>8 DEF wait_block_timeout
    <3> QED
      BY <1>0, <3>1 DEF CallOf
  <2>3. Contains(delete_buffer, t) \in BOOLEAN /\ (Has(delete_buffer, t) => Contains(delete_buffer, t))
    BY <1>0 DEF Contains, Has, Types
  <2>4. (TICKS + ms) % Modulus \in Int
    <3>1. Modulus \in Nat \ {0} /\ TICKS + ms \in Int
      BY <1>0, <2>1, TickRange DEF EarlyTypes, Ticks
    <3> HIDE DEF Modulus
    <3> QED
      BY <3>1
  <2>5. EarlyTypes'
    BY <1>0, <2>1, <2>3, <2>4 DEF EarlyTypes
  <2>6. EarlyOf(t)'
    <3>1. /\ left'[t] = ms /\ wake_tick'[t] = (TICKS + ms) % Modulus
          /\ stale'[t] = Contains(delete_buffer, t) /\ state'[t] = "Blocked"
      BY <1>0, <2>1, <2>2 DEF EarlyTypes, Types
    <3>2. Became(t, "s_add", t, "m_leave", "m_yield")
      BY <1>0, <1>8, WaitLocals
    <3>3. ~Failing(t)'
      BY <3>2 DEF Became, Failing
    <3>4. Has(delete_buffer', t) => stale'[t]
      BY <1>1, <2>3, <3>1
    <3>5. wake_tick'[t] = (TICKS' + left'[t]) % Modulus
      BY <2>1, <3>1
    <3> QED
      BY <3>1, <3>3, <3>4, <3>5 DEF EarlyOf, Clock
  <2> QED
    BY <1>4, <1>5, <2>5, <2>6 DEF EarlyInv
<1>9. CASE awake(t)
  <2>1. UNCHANGED <<left, stale, wake_tick, state, call>> /\ pc[t] = "m_awake"
    BY <1>9 DEF awake, At
  <2>2. EarlyTypes'
    BY <1>0, <1>1, <2>1 DEF EarlyTypes
  <2>3. ASSUME t \in Box PROVE EarlyOf(t)'
    <3>1. \/ call[t] = "wait" /\ Moved(t, "m_true")
          \/ /\ call[t] # "wait"
             /\ \E p \in {"m_leave", "hang"} :
                   Became(t, p, t, ret[t], IF task_notified[t] THEN "m_true" ELSE "m_false")
      BY <1>0, <1>9, WaitLocals
    <3>2. ~InTimeout(t)' /\ ~Adding(t)' /\ (Failing(t)' => call[t] # "wait" /\ ~task_notified[t])
      BY <1>2, <2>3, <3>1, Contexts DEF Moved, Became, InTimeout, InWait, Failing, Adding
    <3>3. Failing(t)' => left[t] <= 0 \/ stale[t]
      <4>1. ~ \E d \in Ctx : Tells(d, t)
        <5>1. \A d \in Ctx : d # t => whom[d] = Idle
          BY <1>0, <1>1, Alone
        <5> QED
          BY <1>2, <5>1, Contexts DEF Tells
      <4>2. call[t] # "wait" => InTimeout(t) /\ state[t] # "Blocked"
        <5>1. t = cur
          BY <1>0, <1>1, Alone
        <5>2. call[t] # "none"
          BY <1>0, <2>1 DEF CallOf, Waiting
        <5> QED
          BY <1>0, <2>1, <5>1, <5>2 DEF InTimeout, InWait, BlockedInv, Types
      <4> QED
        BY <1>6, <2>3, <3>2, <4>1, <4>2 DEF EarlyOf, Told
    <3>4. Has(time_sorted_queue', t) => Has(time_sorted_queue, t)
      BY <1>1
    <3> QED
      BY <1>1, <1>6, <2>1, <2>3, <3>2, <3>3, <3>4 DEF EarlyOf, Slept, Clock
  <2> QED
    BY <1>4, <1>5, <2>2, <2>3 DEF EarlyInv
<1>10. CASE wait_return(t)
  <2>1. /\ left' = [left EXCEPT ![t] = 0] /\ wake_tick' = [wake_tick EXCEPT ![t] = 0]
        /\ stale' = [stale EXCEPT ![t] = FALSE]
    BY <1>10 DEF wait_return
  <2>2. EarlyTypes'
    <3>1. left' \in [Task -> Int] /\ wake_tick' \in [Task -> Int]
      BY <1>0, <2>1 DEF EarlyTypes
    <3>2. stale' \in [Box -> BOOLEAN]
      BY <1>0, <2>1 DEF EarlyTypes
    <3>3. 0 < Half
      BY TickRange
    <3>4. \A u \in Task : left'[u] < Half
      BY <1>0, <2>1, <3>3 DEF EarlyTypes
    <3>5. TICKS' \in Ticks
      BY <1>0, <1>1 DEF EarlyTypes
    <3> QED
      BY <3>1, <3>2, <3>4, <3>5 DEF EarlyTypes
  <2>3. ASSUME t \in Box PROVE EarlyOf(t)'
    <3>1. left'[t] = 0
      BY <1>0, <2>1 DEF EarlyTypes
    <3>2. Moved(t, "home")
      BY <1>0, <1>10, WaitLocals
    <3>3. ~InTimeout(t)'
      BY <1>2, <2>3, <3>2, Contexts DEF Moved, Became, InTimeout, InWait
    <3> QED
      BY <3>1, <3>3 DEF EarlyOf
  <2> QED
    BY <1>4, <1>5, <2>2, <2>3 DEF EarlyInv
<1> QED
  BY <1>7, <1>8, <1>9, <1>10
\* Notifying, and leaving a mailbox: the task that is told is marked before its
\* mailbox is left, and one that waits with a timeout is not handed over.
LEMMA NotifyEarly ==
    ASSUME IInv, EarlyInv, NEW c \in Ctx,
           \/ \E a \in Box : notify_pend(c, a) \/ notify_full(c, a)
           \/ notify_told(c) \/ m_leave(c) \/ m_run_pended_op(c) \/ run_pended_notified(c)
    PROVE  EarlyInv'
<1>0. /\ Types /\ EarlyTypes /\ ControlInv /\ CallInv /\ LockInv /\ RecordInv /\ OwedInv /\ ControlOf(c)
  BY DEF IInv, EarlyInv, ControlInv
<1>1. UNCHANGED <<TICKS, left, wake_tick, stale, time_sorted_queue, delete_buffer, call>>
  BY DEF notify_pend, notify_full, notify_told, m_leave, m_run_pended_op, run_pended_notified,
     squeue, sqvars
<1>2. EarlyTypes'
  BY <1>0, <1>1 DEF EarlyTypes
\* What is left to show of a step.
<1>3. ASSUME Others(c), pc'[c] # "s_take",
             c \in Box => /\ InWait(c)' => InWait(c)
                          /\ Failing(c)' => Failing(c)
                          /\ Adding(c)' => Adding(c),
             \A b \in Box : Tells(c, b) => Told(b)',
             \A b \in Box : task_notified[b] => task_notified'[b],
             \A b \in Box : call[b] = "timeout" => state'[b] = state[b]
      PROVE  EarlyInv'
  <2>1. \A d \in Ctx : pc'[d] = "s_take" => ret'[d] \in {"m_told", "m_notified"}
    BY <1>3, TakeSteps
  <2>2. ASSUME NEW b \in Box PROVE EarlyOf(b)'
    <3>0. b \in Ctx /\ EarlyOf(b)
      BY Contexts DEF EarlyInv
    <3>1. b # c => pc'[b] = pc[b] /\ whom'[b] = whom[b] /\ m_ret'[b] = m_ret[b]
      BY <1>3, <3>0 DEF Others
    <3>2. /\ InWait(b)' => InWait(b)
          /\ Failing(b)' => Failing(b)
          /\ Adding(b)' => Adding(b)
      BY <1>3, <2>2, <3>1 DEF InWait, Failing, Adding
    <3>3. InTimeout(b)' => InTimeout(b) /\ state'[b] = state[b]
      BY <1>1, <1>3, <3>2 DEF InTimeout
    <3>4. Told(b) => Told(b)'
      <4>1. ASSUME NEW d \in Ctx, Tells(d, b), d # c PROVE Tells(d, b)'
        BY <1>3, <4>1 DEF Others, Tells, Telling
      <4> QED
        BY <1>3, <4>1 DEF Told
    <3> QED
      BY <1>1, <3>0, <3>2, <3>3, <3>4, EarlyKeep DEF Slept
  <2> QED
    BY <1>2, <2>1, <2>2 DEF EarlyInv
<1>4. ASSUME NEW a \in Box, NEW s, Take(c, a, s), NEW b \in Box, call[b] = "timeout"
      PROVE  state'[b] = state[b]
  <2>1. CASE wait_task[a] = "WithoutTimeout"
    <3>1. a # b /\ b \in Task
      BY <1>0, <1>4, <2>1, Contexts DEF RecordInv, RecordOf
    <3>2. accept_task({a})
      BY <1>4, <2>1 DEF Take
    <3> QED
      BY <3>1, <3>2 DEF accept_task
  <2>2. CASE wait_task[a] # "WithoutTimeout"
    BY <1>4, <2>2 DEF Take
  <2> QED
    BY <2>1, <2>2
<1>5. ASSUME NEW a \in Box, notify_pend(c, a) PROVE EarlyInv'
  <2>1. Moved(c, pc[c]) /\ UNCHANGED <<state, task_notified>>
    BY <1>0, <1>5, NotifyLocals DEF notify_pend, sqvars
  <2>2. /\ Others(c) /\ pc'[c] = pc[c] /\ whom'[c] = whom[c] /\ ret'[c] = ret[c] /\ m_ret'[c] = m_ret[c]
    BY <2>1 DEF Moved, Became
  <2>3. pc[c] = "home"
    BY <1>5, Contexts DEF notify_pend, Free, Arrives, At, Irq
  <2>4. \A b \in Box : Tells(c, b) => Told(b)'
    BY <2>2 DEF Tells, Telling, Told
  <2> QED
    BY <1>3, <2>1, <2>2, <2>3, <2>4 DEF InWait, Failing, Adding
<1>6. ASSUME NEW a \in Box, notify_full(c, a) PROVE EarlyInv'
  <2>1. pc[c] = "home" /\ Take(c, a, "m_told") /\ UNCHANGED task_notified
    BY <1>6, Contexts DEF notify_full, Free, Arrives, At, Irq
  <2>2. whom[c] = Idle
    BY <1>0, <2>1 DEF ControlOf, SuspendedSteps, MailboxSuspended
  <2>3. \E p \in {"s_remove", "m_leave"} : \E r : Became(c, p, a, r, "home")
    BY <1>0, <1>6, NotifyLocals
  <2>4. Others(c) /\ pc'[c] \in {"s_remove", "m_leave"} /\ m_ret'[c] = "home"
    BY <2>3 DEF Became
  <2>5. \A b \in Box : ~Tells(c, b)
    BY <2>2, Contexts DEF Tells
  <2>6. ~InWait(c)' /\ ~Failing(c)' /\ ~Adding(c)'
    BY <2>4 DEF InWait, Failing, Adding
  <2> QED
    BY <1>3, <1>4, <2>1, <2>4, <2>5, <2>6
<1>7. CASE notify_told(c) \/ run_pended_notified(c)
  <2>1. /\ pc[c] \in {"m_told", "m_notified"} /\ state' = state
        /\ task_notified' = [task_notified EXCEPT ![whom[c]] = TRUE]
    BY <1>7 DEF notify_told, run_pended_notified, At
  <2>2. whom[c] \in Box
    BY <1>0, <2>1, Holder DEF MailboxSuspended
  <2>3. Moved(c, "m_leave")
    BY <1>0, <1>7, NotifyLocals
  <2>4. \A b \in Box : (task_notified[b] => task_notified'[b]) /\ (b = whom[c] => task_notified'[b])
    BY <1>0, <2>1 DEF Types
  <2>5. \A b \in Box : Tells(c, b) => Told(b)'
    BY <2>4 DEF Tells, Told
  <2>6. /\ Others(c) /\ pc'[c] = "m_leave"
        /\ InWait(c)' => InWait(c)
        /\ Failing(c)' => Failing(c)
        /\ ~Adding(c)'
    BY <2>3 DEF Moved, Became, InWait, Failing, Adding
  <2> QED
    BY <1>3, <2>1, <2>4, <2>5, <2>6
<1>8. CASE m_leave(c)
  <2>1. pc[c] = "m_leave" /\ UNCHANGED <<state, task_notified>>
    BY <1>8 DEF m_leave, At, inner
  <2>2. /\ whom[c] # Idle /\ ret[c] = "home" /\ (c # whom[c] => m_ret[c] = "home")
        /\ m_ret[c] \in {"home", "m_true", "m_yield", "m_false"}
    BY <1>0, <2>1, Holder DEF MailboxSuspended
  <2>3. Moved(c, "m_run") \/ Became(c, m_ret[c], Idle, ret[c], "home")
    BY <1>0, <1>8, NotifyLocals
  <2>4. /\ Others(c) /\ pc'[c] # "s_take"
        /\ InWait(c)' => InWait(c)
        /\ Failing(c)' => Failing(c)
        /\ ~Adding(c)'
    BY <2>2, <2>3 DEF Moved, Became, InWait, Failing, Adding
  <2>5. \A b \in Box : ~Tells(c, b)
    BY <2>1, <2>2 DEF Tells, Telling
  <2> QED
    BY <1>3, <2>1, <2>4, <2>5
<1>9. CASE m_run_pended_op(c)
  <2>1. pc[c] = "m_run" /\ Take(c, whom[c], "m_notified") /\ UNCHANGED task_notified
    BY <1>9 DEF m_run_pended_op, At
  <2>2. whom[c] \in Box /\ ret[c] = "home"
    BY <1>0, <2>1, Holder DEF MailboxSuspended
  <2>3. Moved(c, "m_leave") \/ Became(c, "s_remove", whom[c], "m_notified", m_ret[c])
    BY <1>0, <1>9, NotifyLocals
  <2>4. /\ Others(c) /\ pc'[c] # "s_take"
        /\ InWait(c)' => InWait(c)
        /\ Failing(c)' => Failing(c)
        /\ ~Adding(c)'
    BY <2>3 DEF Moved, Became, InWait, Failing, Adding
  <2>5. \A b \in Box : ~Tells(c, b)
    BY <2>1, <2>2 DEF Tells, Telling
  <2> QED
    BY <1>3, <1>4, <2>1, <2>2, <2>4, <2>5
<1> QED
  BY <1>5, <1>6, <1>7, <1>8, <1>9

\* A switch blocks and frees nobody.
LEMMA SwitchEarly ==
    ASSUME IInv, EarlyInv, Switch
    PROVE  EarlyInv'
<1>0. Types /\ ControlInv /\ EarlyTypes
  BY DEF IInv, EarlyInv
<1>1. UNCHANGED <<TICKS, left, wake_tick, stale, time_sorted_queue, delete_buffer, call, whom, ret, m_ret,
                  task_notified>>
  BY DEF Switch, mbvars, inner, squeue
<1>2. ASSUME NEW d \in Ctx
      PROVE  pc'[d] = pc[d] \/ (pc[d] = "m_yield" /\ pc'[d] = "m_awake")
  <2>1. pc[d] # "yield"
    BY <1>0 DEF ControlInv, ControlOf, Waiting, SuspendedSteps, MailboxSuspended
  <2> QED
    BY <1>0, <2>1, SwitchLocals
<1>3. ASSUME NEW t \in Task, state'[t] # "Blocked" PROVE state[t] # "Blocked"
  <2>1. /\ cur' \in (IF Pickable = {} THEN {Idle} ELSE Pickable)
        /\ state' = [u \in Task |-> IF u = cur' THEN "Running"
                                    ELSE IF state[u] = "Running" THEN "Ready" ELSE state[u]]
    BY DEF Switch, switch
  <2>2. t = cur' => state[t] # "Blocked"
    BY <2>1, Contexts DEF Pickable
  <2> QED
    BY <1>3, <2>1, <2>2
<1>4. EarlyTypes'
  BY <1>0, <1>1 DEF EarlyTypes
<1>5. \A d \in Ctx : pc'[d] = "s_take" => ret'[d] \in {"m_told", "m_notified"}
  BY <1>1, <1>2 DEF EarlyInv
<1>6. ASSUME NEW b \in Box PROVE EarlyOf(b)'
  <2>0. b \in Ctx /\ b \in Task /\ EarlyOf(b)
    BY Contexts DEF EarlyInv
  <2>1. /\ InTimeout(b)' => InTimeout(b)
        /\ Failing(b)' => Failing(b)
        /\ Adding(b)' => Adding(b)
    BY <1>1, <1>2, <2>0 DEF InTimeout, InWait, Failing, Adding
  <2>2. \A d \in Ctx : Tells(d, b) => Tells(d, b)'
    BY <1>1, <1>2 DEF Tells, Telling
  <2>3. Told(b) => Told(b)'
    BY <1>1, <2>2 DEF Told
  <2> QED
    BY <1>1, <1>3, <2>0, <2>1, <2>3, EarlyKeep DEF Slept
<1> QED
  BY <1>4, <1>5, <1>6 DEF EarlyInv

\* Nobody waits at the start.
LEMMA InitEarly == Init => EarlyInv
<1> SUFFICES ASSUME Init PROVE EarlyInv
  OBVIOUS
<1>1. /\ TICKS = BootedFor % Modulus /\ left = [t \in Task |-> 0] /\ wake_tick = [t \in Task |-> 0]
      /\ stale = [b \in Box |-> FALSE] /\ pc = [c \in Ctx |-> "home"]
      /\ whom = [c \in Ctx |-> Idle] /\ m_ret = [c \in Ctx |-> "home"]
  BY DEF Init, InitSleepQueue, InitCore
<1>2. 0 < Half /\ Half \in Nat /\ BootedFor \in Nat /\ Modulus = 2 * Half
  BY TickRange
<1>3. TICKS \in Ticks
  <2>1. \A m \in Nat : m > 0 => BootedFor % m \in 0 .. (m - 1)
    BY <1>2
  <2>2. Modulus \in Nat /\ Modulus > 0
    BY <1>2
  <2> QED
    BY <1>1, <2>1, <2>2 DEF Ticks
<1>4. EarlyTypes
  BY <1>1, <1>2, <1>3 DEF EarlyTypes
<1>5. ASSUME NEW b \in Box PROVE EarlyOf(b)
  <2>1. b \in Ctx /\ b \in Task
    BY Contexts
  <2>2. left[b] = 0 /\ ~InWait(b)
    BY <1>1, <2>1 DEF InWait
  <2> QED
    BY <2>2 DEF EarlyOf, InTimeout
<1> QED
  BY <1>1, <1>4, <1>5 DEF EarlyInv

\* Nothing happens.
LEMMA StutterEarly ==
    ASSUME EarlyInv, UNCHANGED vars
    PROVE  EarlyInv'
<1>1. UNCHANGED <<state, pc, TICKS, left, wake_tick, stale, time_sorted_queue, delete_buffer, call, whom, ret,
                  m_ret, task_notified>>
  BY DEF vars, sqvars, squeue, mbvars, inner
<1> QED
  BY <1>1 DEF EarlyInv, EarlyTypes, EarlyOf, InTimeout, InWait, Failing, Slept, Adding, Told, Tells,
     Telling, Clock

(***************************************************************************)
(* A wait with a timeout returns false only after its time, or when a      *)
(* removal that was pended for an earlier wait of the task was still       *)
(* buffered as it began.                                                   *)
(***************************************************************************)
THEOREM FalseOnlyAfterTheTime ==
    ASSUME TimeoutsBelowHalf
    PROVE  Spec => []EarlyFalseOnlyIfStale
<1>1. IInv /\ EarlyInv /\ [Next]_vars => EarlyInv'
  <2> SUFFICES ASSUME IInv, EarlyInv, Next PROVE EarlyInv'
    BY StutterEarly
  <2>1. CASE Tick
    BY <2>1, TickEarly
  <2>2. ASSUME NEW c \in Ctx, Step(c) PROVE EarlyInv'
    <3>1. CASE notify_told(c) \/ m_leave(c) \/ m_run_pended_op(c) \/ run_pended_notified(c)
      BY <3>1, NotifyEarly
    <3>2. CASE /\ c \in Task
               /\ \/ wait_counted(c) \/ wait_block(c)
                  \/ \E ms \in Durations : wait_block_timeout(c, ms)
                  \/ awake(c) \/ wait_return(c)
      BY <3>2, WaitEarly
    <3>3. CASE InSleep(c)
      BY <3>3, SleepEarly
    <3>4. CASE die(c) /\ UNCHANGED mbvars
      BY <3>4, StutterEarly DEF die, vars
    <3> QED
      BY <2>2, <3>1, <3>2, <3>3, <3>4 DEF Step, MailboxStep, InSleep, RemoveStep
  <2>3. ASSUME NEW t \in Task, NEW k \in {"wait", "timeout"}, mailbox_call(t, k) PROVE EarlyInv'
    BY <2>3, WaitEarly
  <2>4. ASSUME NEW c \in Ctx, NEW b \in Box, notify_pend(c, b) \/ notify_full(c, b) PROVE EarlyInv'
    BY <2>4, NotifyEarly
  <2>5. CASE Switch
    BY <2>5, SwitchEarly
  <2> QED
    BY <2>1, <2>2, <2>3, <2>4, <2>5 DEF Next
<1>2. EarlyInv => EarlyFalseOnlyIfStale
  BY DEF EarlyInv, EarlyOf, Failing, EarlyFalseOnlyIfStale
<1> QED
  BY <1>1, <1>2, InitEarly, Invariance, PTL DEF Spec
=============================================================================
