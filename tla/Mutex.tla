------------------------------- MODULE Mutex -------------------------------
(***************************************************************************)
(* The mutex of src/sync/mutex.rs with priority inheritance                *)
(* (src/task/priority.rs), and condition variables that release one while  *)
(* a task waits (wait_until_with_lock in src/sync/wait_queue.rs).  Mutexes *)
(* and condition variables each have a WaitQueue.                          *)
(*                                                                         *)
(* A mutex is a raw spin lock, which the guard stands for, and an owner    *)
(* field behind a spin lock of its own that is asserted to be free         *)
(* (lock_now_or_die).  What happens with the scheduler suspended is one    *)
(* step unless an interrupt handler can tell the difference.               *)
(***************************************************************************)
EXTENDS WaitQueue

CONSTANTS
    Mtx, CV,             \* the mutexes and the condition variables
    MutexOf,             \* the mutex that guards the data of each of the latter
    Level,               \* the priorities that are used
    InitialPriority,
    Calls, IrqCalls,     \* the calls that tasks and interrupt handlers make
    MaxNotify            \* bound: no interrupt arrives while so many are pended

\* The idle task locks nothing.
NoOne == Idle

ASSUME MutexAssumption ==
    /\ WQ = Mtx \union CV /\ Mtx \intersect CV = {}
    /\ MutexOf \in [CV -> Mtx]
ASSUME LevelAssumption == Level \subseteq Nat /\ InitialPriority \in [Task -> Level]

VARIABLES
    intrinsic,     \* intrinsic priority; a task inherits while its effective
                   \* priority is another one
    guard,         \* who has the guard of a mutex, that is its raw spin lock
    owner,         \* GenericMutex::owner
    owner_locked,  \* the spin lock around it
    predicate,     \* the data of a condition variable, as its predicate sees it
    monitor        \* the condition variable in whose wait a task is

mutexes == <<guard, owner, owner_locked>>
data == <<predicate, monitor>>
vars == <<wqvars, priority, intrinsic, mutexes, data>>

MutexSuspended == {"inherit"}
MutexSteps == MutexSuspended \union {"home", "try", "contend", "monitor", "yield_unlocked",
                                     "relock", "release", "isr"}

Init ==
    /\ InitWaitQueue
    /\ priority = InitialPriority /\ intrinsic = InitialPriority
    /\ guard = [m \in Mtx |-> NoOne]
    /\ owner = [m \in Mtx |-> NoOne]
    /\ owner_locked = [m \in Mtx |-> FALSE]
    /\ predicate = [v \in CV |-> FALSE]
    /\ monitor = [t \in Task |-> NoQueue]

-----------------------------------------------------------------------------
(***************************************************************************)
(* Faults: what a plausible mistake in mutex.rs or task_struct.rs would    *)
(* make of an operator below.  No specification uses them.                 *)
(***************************************************************************)
\* The owner keeps the priority it has inherited.
keep_priority(o) == UNCHANGED priority

\* The raw lock is released before the owner is taken.
unlock_raw_first(t, m) ==
    /\ At(t, "home") /\ guard[m] = t
    /\ wq' = [wq EXCEPT ![t] = m]
    /\ guard' = [guard EXCEPT ![m] = NoOne]
    /\ Goto(t, "release")
    /\ UNCHANGED <<cur, state, queues, ret, priority, intrinsic, owner, owner_locked, data>>

\* A task that goes to wait releases the mutex and notifies nobody.
unlock_silently(t) ==
    LET m == MutexOf[wq[t]] IN
    /\ At(t, "cond") /\ wq[t] \in CV /\ ~predicate[wq[t]]
    /\ priority' = [priority EXCEPT ![owner[m]] = intrinsic[owner[m]]]
    /\ owner' = [owner EXCEPT ![m] = NoOne]
    /\ guard' = [guard EXCEPT ![m] = NoOne]
    /\ ret' = [ret EXCEPT ![t] = "yield_unlocked"]
    /\ Goto(t, "enqueue")
    /\ UNCHANGED <<cur, state, queues, wq, intrinsic, owner_locked, data>>

-----------------------------------------------------------------------------
(***************************************************************************)
(* TaskPriority.                                                           *)
(***************************************************************************)
\* try_inherit_from, ceil_priority_from
ceil_priority_from(o, t) ==
    priority' = [priority EXCEPT ![o] = IF priority[t] < @ THEN priority[t] ELSE @]

restore_intrinsic_priority(o) == priority' = [priority EXCEPT ![o] = intrinsic[o]]

\* change_current_priority, change_intrinsic: a task goes on inheriting what
\* is more urgent than its new priority.
change_intrinsic(t, p) ==
    /\ At(t, "home") /\ "priority" \in Calls
    /\ intrinsic' = [intrinsic EXCEPT ![t] = p]
    /\ priority' = [priority EXCEPT ![t] = IF @ < intrinsic[t] /\ @ < p THEN @ ELSE p]
    /\ UNCHANGED <<wqvars, mutexes, data>>

-----------------------------------------------------------------------------
(***************************************************************************)
(* lock and try_lock.                                                      *)
(***************************************************************************)
Acquire(t, m) ==
    /\ guard' = [guard EXCEPT ![m] = t]
    /\ owner' = [owner EXCEPT ![m] = t]

\* Where a task goes on that has got the mutex: it returns, or it is in the
\* loop of wait_until_with_lock.
Locked(t) == IF monitor[t] = NoQueue THEN "home" ELSE "monitor"

lock(t, m) ==
    /\ At(t, "home") /\ "lock" \in Calls
    /\ guard[m] # t
    /\ wq' = [wq EXCEPT ![t] = m]
    /\ Goto(t, "try")
    /\ UNCHANGED <<cur, state, queues, ret, priority, intrinsic, mutexes, data>>

try_lock(t) ==
    /\ At(t, "try")
    /\ IF guard[wq[t]] = NoOne
         THEN /\ Acquire(t, wq[t])
              /\ Goto(t, Locked(t))
              /\ wq' = [wq EXCEPT ![t] = monitor[t]]
         ELSE Goto(t, "contend") /\ UNCHANGED <<guard, owner, wq>>
    /\ UNCHANGED <<cur, state, queues, ret, priority, intrinsic, owner_locked, data>>

\* Priority inheritance: the owner field is locked, read and unlocked.
contend(t) ==
    /\ At(t, "contend")
    /\ owner_locked' = [owner_locked EXCEPT ![wq[t]] = TRUE]
    /\ Goto(t, IF owner_locked[wq[t]] THEN "hang" ELSE "inherit")
    /\ UNCHANGED <<cur, state, queues, wq, ret, priority, intrinsic, guard, owner, data>>

inherit(t) ==
    /\ At(t, "inherit")
    /\ IF owner[wq[t]] # NoOne THEN ceil_priority_from(owner[wq[t]], t) ELSE UNCHANGED priority
    /\ owner_locked' = [owner_locked EXCEPT ![wq[t]] = FALSE]
    /\ Goto(t, "wait")
    /\ UNCHANGED <<cur, state, queues, wq, ret, intrinsic, guard, owner, data>>

\* wait_until with try_lock for a predicate.
lock_until(t) ==
    /\ wq[t] \in Mtx
    /\ wait_condition(t, guard[wq[t]] = NoOne, Locked(t))
    /\ IF guard[wq[t]] = NoOne THEN Acquire(t, wq[t]) ELSE UNCHANGED <<guard, owner>>
    /\ UNCHANGED <<priority, intrinsic, owner_locked, data>>

-----------------------------------------------------------------------------
(***************************************************************************)
(* Drop of the guard: the owner, the raw lock, a notification.             *)
(***************************************************************************)
unlock(t, m) ==
    /\ At(t, "home") /\ guard[m] = t
    /\ wq' = [wq EXCEPT ![t] = m]
    /\ IF owner_locked[m]
         THEN Goto(t, "hang") /\ UNCHANGED <<owner, priority>>
         ELSE /\ owner' = [owner EXCEPT ![m] = NoOne]
              /\ restore_intrinsic_priority(owner[m])
              /\ Goto(t, "release")
    /\ UNCHANGED <<cur, state, queues, ret, intrinsic, guard, owner_locked, data>>

release(c) ==
    /\ At(c, "release")
    /\ guard' = [guard EXCEPT ![wq[c]] = NoOne]
    /\ Goto(c, "notify")
    /\ UNCHANGED <<cur, state, queues, wq, ret, priority, intrinsic, owner, owner_locked, data>>

-----------------------------------------------------------------------------
(***************************************************************************)
(* wait_until_with_lock: a task that has the mutex and finds the predicate *)
(* false releases the mutex and goes into the queue of the condition       *)
(* variable, all with that queue locked.  A notified task locks the mutex  *)
(* again.  Whoever sees the predicate true consumes it.                    *)
(***************************************************************************)
wait_until_with_lock(t, v) ==
    /\ At(t, "home") /\ guard[MutexOf[v]] = t
    /\ monitor' = [monitor EXCEPT ![t] = v]
    /\ wq' = [wq EXCEPT ![t] = v]
    /\ Goto(t, "wait")
    /\ UNCHANGED <<cur, state, queues, ret, priority, intrinsic, mutexes, predicate>>

predicate_met(t) ==
    /\ wq[t] \in CV /\ predicate[wq[t]]
    /\ wait_condition(t, TRUE, "home")
    /\ predicate' = [predicate EXCEPT ![wq[t]] = FALSE]
    /\ monitor' = [monitor EXCEPT ![t] = NoQueue]
    /\ UNCHANGED <<priority, intrinsic, mutexes>>

\* The guard is dropped here: no task can come between its three parts.
unlock_and_into_lock_ref(t) ==
    LET m == MutexOf[wq[t]] IN
    /\ At(t, "cond") /\ wq[t] \in CV /\ ~predicate[wq[t]]
    /\ restore_intrinsic_priority(owner[m])
    /\ owner' = [owner EXCEPT ![m] = NoOne]
    /\ guard' = [guard EXCEPT ![m] = NoOne]
    /\ Wake(m, 1)
    /\ ret' = [ret EXCEPT ![t] = "yield_unlocked"]
    /\ Goto(t, IF owner_locked[m] THEN "hang" ELSE "enqueue")
    /\ UNCHANGED <<cur, notify_cnt, locked, wq, intrinsic, owner_locked, data>>

relock(t) ==
    /\ At(t, "relock")
    /\ wq' = [wq EXCEPT ![t] = MutexOf[monitor[t]]]
    /\ Goto(t, "try")
    /\ UNCHANGED <<cur, state, queues, ret, priority, intrinsic, mutexes, data>>

\* The loop of wait_until_with_lock, with the mutex locked again.
wait_again(t) ==
    /\ At(t, "monitor")
    /\ wq' = [wq EXCEPT ![t] = monitor[t]]
    /\ Goto(t, "wait")
    /\ UNCHANGED <<cur, state, queues, ret, priority, intrinsic, mutexes, data>>

\* A task makes the predicate true under the mutex and notifies.
signal(t, v) ==
    /\ At(t, "home") /\ guard[MutexOf[v]] = t
    /\ predicate' = [predicate EXCEPT ![v] = TRUE]
    /\ wq' = [wq EXCEPT ![t] = v]
    /\ Goto(t, "notify")
    /\ UNCHANGED <<cur, state, queues, ret, priority, intrinsic, mutexes, monitor>>

-----------------------------------------------------------------------------
(***************************************************************************)
(* Interrupt handlers notify a condition variable, or try to lock a mutex  *)
(* and drop the guard; they do not become the owner.                       *)
(***************************************************************************)
IrqAllowed(e) == Arrives(e) /\ \A q \in WQ : notify_cnt[q] < MaxNotify

irq_notify(e, v) ==
    /\ IrqAllowed(e) /\ "notify" \in IrqCalls
    /\ wq' = [wq EXCEPT ![e] = v]
    /\ Goto(e, "notify")
    /\ UNCHANGED <<cur, state, queues, ret, priority, intrinsic, mutexes, data>>

irq_try_lock(e, m) ==
    /\ IrqAllowed(e) /\ "try_lock" \in IrqCalls
    /\ guard[m] = NoOne
    /\ guard' = [guard EXCEPT ![m] = e]
    /\ wq' = [wq EXCEPT ![e] = m]
    /\ Goto(e, "isr")
    /\ UNCHANGED <<cur, state, queues, ret, priority, intrinsic, owner, owner_locked, data>>

irq_drop(e) ==
    /\ At(e, "isr")
    /\ Goto(e, IF owner_locked[wq[e]] THEN "hang" ELSE "release")
    /\ UNCHANGED <<cur, state, queues, wq, ret, priority, intrinsic, mutexes, data>>

-----------------------------------------------------------------------------
TaskStep(t) ==
    \/ try_lock(t) \/ contend(t) \/ inherit(t) \/ lock_until(t)
    \/ predicate_met(t) \/ unlock_and_into_lock_ref(t) \/ relock(t) \/ wait_again(t)

Step(c) ==
    \/ WaitQueueStep(c) /\ UNCHANGED <<priority, intrinsic, mutexes, data>>
    \/ release(c)
    \/ c \in Task /\ TaskStep(c)
    \/ c \in Irq /\ irq_drop(c)

Call(t) ==
    \/ \E m \in Mtx : lock(t, m) \/ unlock(t, m)
    \/ \E v \in CV : wait_until_with_lock(t, v) \/ signal(t, v)
    \/ \E p \in Level : change_intrinsic(t, p)

IrqCall(e) ==
    \/ \E v \in CV : irq_notify(e, v)
    \/ \E m \in Mtx : irq_try_lock(e, m)

Switch ==
    /\ switch(SuspendedSteps \union MutexSuspended,
              [yield |-> "wait", yield_unlocked |-> "relock"])
    /\ UNCHANGED <<queues, wq, ret, priority, intrinsic, mutexes, data>>

Next ==
    \/ \E c \in Ctx : Step(c)
    \/ \E t \in Task : Call(t)
    \/ \E e \in Irq : IrqCall(e)
    \/ Switch

Spec == Init /\ [][Next]_vars

-----------------------------------------------------------------------------
TypeOK ==
    /\ TypeOKWaitQueue(MutexSteps)
    /\ priority \in [Task -> Level] /\ intrinsic \in [Task -> Level]
    /\ guard \in [Mtx -> Ctx \union {NoOne}]
    /\ owner \in [Mtx -> Task \union {NoOne}]
    /\ owner_locked \in [Mtx -> BOOLEAN]
    /\ predicate \in [CV -> BOOLEAN]
    /\ monitor \in [Task -> CV \union {NoQueue}]

(***************************************************************************)
(* The recorded owner of a mutex has its guard, and a task that has the    *)
(* guard is recorded until it begins to release: nobody is taken for the   *)
(* owner, boosted or unboosted in place of another task.  And no task ever *)
(* finds the owner field or a wait queue locked, which it would die of.    *)
(***************************************************************************)
OwnerTruthful ==
    /\ \A t \in Task : pc[t] # "hang"
    /\ \A m \in Mtx :
          /\ owner[m] # NoOne => guard[m] = owner[m]
          /\ guard[m] \in Task /\ owner[m] = NoOne => pc[guard[m]] = "release" /\ wq[guard[m]] = m

(***************************************************************************)
(* A task inherits a priority only while it owns a mutex, and what it      *)
(* inherits is more urgent than its own: no boost outlives the mutexes it  *)
(* was given for, whatever the order of contention, release, waiting on a  *)
(* condition variable and change of priority.                              *)
(***************************************************************************)
InheritsWhileOwner ==
    \A t \in Task :
        priority[t] # intrinsic[t] =>
            priority[t] < intrinsic[t] /\ \E m \in Mtx : owner[m] = t

(***************************************************************************)
(* "causing a deadlock" is what the comment in the drop of a guard says    *)
(* would follow from notifying too early: a free mutex never has a task in *)
(* its queue without somebody who is about to notify or to try again, and  *)
(* no task waits for a true predicate unless somebody is about to notify   *)
(* or to look.                                                             *)
(***************************************************************************)
Announced(q) ==
    \/ notify_cnt[q] > 0
    \/ \E c \in Ctx : wq[c] = q /\ pc[c] \in {"notify", "pop", "pend"}
Trying(m) ==
    \E t \in Task : /\ wq[t] = m /\ ~Contains(queue[m], t)
                     /\ pc[t] \in {"try", "contend", "inherit", "wait", "cond", "leave", "yield"}

NoLostWakeup ==
    /\ \A m \in Mtx : queue[m] # <<>> /\ guard[m] = NoOne => Announced(m) \/ Trying(m)
    /\ \A v \in CV : queue[v] # <<>> /\ predicate[v] =>
          Announced(v) \/ \E t \in Task : monitor[t] = v /\ ~Contains(queue[v], t)
=============================================================================
