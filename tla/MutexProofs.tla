---------------------------- MODULE MutexProofs ----------------------------
(***************************************************************************)
(* Proofs about Mutex: owners, priority inheritance, and the wake-ups of   *)
(* mutexes and of condition variables that release one, for any tasks,     *)
(* priorities, mutexes and condition variables and any nesting of          *)
(* interrupts.                                                             *)
(***************************************************************************)
EXTENDS Mutex, TaskListProofs

(***************************************************************************)
(* The inductive invariant.                                                *)
(***************************************************************************)
\* Each context keeps the locals that its code needs; a task never hangs.
Inside(c) == pc[c] \in {"cond", "enqueue", "pop", "leave"}
Locking == {"try", "contend", "inherit"}
InQueueCode == {"wait", "cond", "enqueue", "leave", "yield", "yield_unlocked", "notify", "pop", "pend"}

ControlOf(c) ==
    /\ c \in Task => pc[c] \notin {"hang", "isr"}
    /\ c \in Irq => /\ pc[c] \in {"home", "isr", "release", "notify", "pop", "pend", "leave", "hang"}
                    /\ ret[c] = "home"
    /\ pc[c] \in Locking \union {"release", "isr", "yield"} => wq[c] \in Mtx
    /\ pc[c] \in InQueueCode => wq[c] \in WQ
    /\ \/ ret[c] = "home" /\ pc[c] # "enqueue"
       \/ ret[c] = "yield" /\ pc[c] \in {"enqueue", "leave"} /\ wq[c] \in Mtx
       \/ ret[c] = "yield_unlocked" /\ pc[c] \in {"enqueue", "leave"} /\ wq[c] \in CV
       \/ ret[c] = "monitor" /\ pc[c] = "leave" /\ wq[c] \in Mtx

ControlInv == \A c \in Ctx : ControlOf(c)

\* A task in wait_until_with_lock: it waits in the queue of its condition variable,
\* or for the mutex of that, or has the guard and is about to look at the predicate.
Asking(t) ==
    \/ pc[t] \in Locking \union {"wait", "cond", "yield"}
    \/ pc[t] = "leave" /\ ret[t] = "yield"
Looks(t) ==
    \/ pc[t] = "monitor"
    \/ pc[t] \in {"wait", "cond"} /\ wq[t] \in CV
    \/ pc[t] = "leave" /\ ret[t] = "monitor"
Unlocked(t) ==
    \/ pc[t] \in {"yield_unlocked", "relock"}
    \/ pc[t] \in {"enqueue", "leave"} /\ ret[t] = "yield_unlocked"
Elsewhere(t) ==
    \/ pc[t] \in {"home", "release", "notify", "pop", "pend"}
    \/ pc[t] = "leave" /\ ret[t] = "home"

MonitorOf(t) ==
    /\ Elsewhere(t) => monitor[t] = NoQueue
    /\ Unlocked(t) => monitor[t] \in CV /\ wq[t] = monitor[t]
    /\ Looks(t) => monitor[t] \in CV /\ guard[MutexOf[monitor[t]]] = t
    /\ pc[t] \in {"wait", "cond"} /\ wq[t] \in CV => wq[t] = monitor[t]
    /\ pc[t] \in InQueueCode \union Locking /\ wq[t] \in Mtx /\ ~Elsewhere(t) =>
          monitor[t] = NoQueue \/ (monitor[t] \in CV /\ MutexOf[monitor[t]] = wq[t])

MonitorInv == \A t \in Task : MonitorOf(t)

\* The locks of the wait queues and of the owner fields have one holder each,
\* and a task that is not current has none.
LockInv ==
    /\ \A q \in WQ : locked[q] <=> \E c \in Ctx : Inside(c) /\ wq[c] = q
    /\ \A c, d \in Ctx : Inside(c) /\ Inside(d) /\ wq[c] = wq[d] => c = d
    /\ \A t \in Task : t # cur => pc[t] \notin SuspendedSteps \union MutexSuspended
    /\ \A m \in Mtx : owner_locked[m] <=> \E t \in Task : pc[t] = "inherit" /\ wq[t] = m

\* A task in a queue is blocked and on its way to, or at, its yield.
Waits(t) ==
    /\ state[t] = "Blocked"
    /\ \/ pc[t] = "leave" /\ ret[t] \in {"yield", "yield_unlocked"}
       \/ pc[t] \in {"yield", "yield_unlocked"}
       \/ pc[t] \in {"wait", "relock"} /\ t # cur

InPlace(t, q) ==
    /\ wq[t] = q /\ Waits(t)
    /\ q \in CV => Unlocked(t)
    /\ q \in Mtx => Asking(t)

QueueInv ==
    \A q \in WQ :
        /\ Distinct(queue[q])
        /\ \A t \in Task : Has(queue[q], t) => InPlace(t, q)

\* The recorded owner has the guard, and who releases a guard has it.
OwnerInv ==
    /\ \A m \in Mtx : owner[m] # NoOne => guard[m] = owner[m]
    /\ \A m \in Mtx : guard[m] \in Task /\ owner[m] = NoOne =>
          pc[guard[m]] = "release" /\ wq[guard[m]] = m
    /\ \A c \in Ctx : pc[c] \in {"release", "isr"} => guard[wq[c]] = c /\ owner[wq[c]] = NoOne

\* Somebody announces, or tries again, from the moment a task has found that it
\* must wait.
SomeoneWaits(q) == queue[q] # <<>> \/ \E t \in Task : pc[t] = "enqueue" /\ wq[t] = q
Coming(m) == \E t \in Task : wq[t] = m /\ ~Has(queue[m], t) /\ Asking(t)
Looking(v) == \E t \in Task : /\ monitor[t] = v /\ ~Has(queue[v], t)
                              /\ ~(pc[t] = "enqueue" /\ wq[t] = v)

MutexBacked(m) == SomeoneWaits(m) /\ guard[m] = NoOne => Announced(m) \/ Coming(m)
MonitorBacked(v) == SomeoneWaits(v) /\ predicate[v] => Announced(v) \/ Looking(v)

BackedInv ==
    /\ \A m \in Mtx : MutexBacked(m)
    /\ \A v \in CV : MonitorBacked(v)

IInv ==
    /\ TypeOK /\ ControlInv /\ MonitorInv /\ LockInv /\ QueueInv
    /\ OwnerInv /\ InheritsWhileOwner /\ BackedInv
-----------------------------------------------------------------------------
(***************************************************************************)
(* Facts about the constants.                                              *)
(***************************************************************************)
\* Tasks are no interrupt levels, and the idle task is neither.
LEMMA Contexts ==
    /\ Task \subseteq Ctx /\ Irq \subseteq Ctx
    /\ \A t \in Task : t \notin Irq
    /\ \A c \in Ctx : (c \in Task \/ c \in Irq) /\ c # NoOne
    /\ NoOne \notin Task
<1>1. Irq \subseteq Nat
  BY IrqAssumption DEF Irq
<1> QED
  BY <1>1, TaskAssumption DEF Ctx, NoOne

\* A wait queue belongs to a mutex or to a condition variable.
LEMMA Queues ==
    /\ Mtx \subseteq WQ /\ CV \subseteq WQ
    /\ \A q \in WQ : q \in Mtx \/ q \in CV
    /\ \A m \in Mtx : m \notin CV
    /\ \A v \in CV : MutexOf[v] \in Mtx
    /\ NoQueue \notin WQ /\ NoQueue \notin CV /\ NoQueue \notin Mtx
  BY MutexAssumption, QueueAssumption

Steps == WaitQueueSteps \union MutexSteps

\* What TypeOK says of each variable.
Types ==
    /\ cur \in Task \union {Idle}
    /\ state \in [Task -> {"Ready", "Running", "Blocked"}]
    /\ pc \in [Ctx -> Steps]
    /\ queue \in [WQ -> Seq(Task)]
    /\ notify_cnt \in [WQ -> Nat]
    /\ locked \in [WQ -> BOOLEAN]
    /\ wq \in [Ctx -> WQ \union {NoQueue}]
    /\ ret \in [Ctx -> Steps]
    /\ priority \in [Task -> Level] /\ intrinsic \in [Task -> Level]
    /\ guard \in [Mtx -> Ctx \union {NoOne}]
    /\ owner \in [Mtx -> Task \union {NoOne}]
    /\ owner_locked \in [Mtx -> BOOLEAN]
    /\ predicate \in [CV -> BOOLEAN]
    /\ monitor \in [Task -> CV \union {NoQueue}]

\* TypeOK, variable by variable.
LEMMA TypesOf == TypeOK <=> Types
  BY DEF TypeOK, Types, TypeOKWaitQueue, TypeOKCore, Steps

-----------------------------------------------------------------------------
(***************************************************************************)
(* What a step does to the locals of the context that takes it; those of   *)
(* the others stay.                                                        *)
(***************************************************************************)
Others(c) ==
    /\ \A d \in Ctx : d # c => pc'[d] = pc[d] /\ wq'[d] = wq[d] /\ ret'[d] = ret[d]
    /\ \A t \in Task : t # c => monitor'[t] = monitor[t]

Became(c, p, q, r, v) ==
    /\ pc'[c] = p /\ wq'[c] = q /\ ret'[c] = r /\ monitor'[c] = v
    /\ Others(c)

QueueStep(c) == WaitQueueStep(c) /\ UNCHANGED <<priority, intrinsic, mutexes, data>>

\* The steps inside a wait queue.
LEMMA QueueLocals ==
    ASSUME Types, NEW c \in Ctx, QueueStep(c)
    PROVE  /\ notify_guard(c) =>
                Became(c, IF locked[wq[c]] THEN "pend" ELSE "pop", wq[c], "home", monitor[c])
           /\ notify_full(c) \/ run_pended_op(c) \/ wait_enqueue(c) =>
                Became(c, "leave", wq[c], ret[c], monitor[c])
           /\ notify_pend(c) \/ (leave(c) /\ ret[c] = "home") =>
                Became(c, "home", NoQueue, "home", monitor[c])
           /\ leave(c) /\ ret[c] # "home" => Became(c, ret[c], wq[c], "home", monitor[c])
           /\ wait_guard(c) =>
                Became(c, IF locked[wq[c]] THEN "hang" ELSE "cond", wq[c], ret[c], monitor[c])
<1>0. monitor' = monitor
  BY DEF QueueStep, data
<1>1. notify_guard(c) =>
        Became(c, IF locked[wq[c]] THEN "pend" ELSE "pop", wq[c], "home", monitor[c])
  BY <1>0 DEF Types, notify_guard, Goto, Became, Others
<1>2. notify_full(c) \/ run_pended_op(c) \/ wait_enqueue(c) =>
        Became(c, "leave", wq[c], ret[c], monitor[c])
  BY <1>0 DEF Types, notify_full, run_pended_op, wait_enqueue, Goto, Became, Others, At
<1>3. notify_pend(c) \/ (leave(c) /\ ret[c] = "home") => Became(c, "home", NoQueue, "home", monitor[c])
  BY <1>0 DEF Types, notify_pend, leave, Return, Goto, Became, Others
<1>4. leave(c) /\ ret[c] # "home" => Became(c, ret[c], wq[c], "home", monitor[c])
  BY <1>0 DEF Types, leave, Goto, Became, Others
<1>5. wait_guard(c) =>
        Became(c, IF locked[wq[c]] THEN "hang" ELSE "cond", wq[c], ret[c], monitor[c])
  BY <1>0 DEF Types, wait_guard, Goto, Became, Others
<1> QED
  BY <1>1, <1>2, <1>3, <1>4, <1>5

\* Calls of a task.
LEMMA CallLocals ==
    ASSUME Types, NEW t \in Task
    PROVE  /\ \A m \in Mtx : lock(t, m) => Became(t, "try", m, ret[t], monitor[t])
           /\ \A m \in Mtx : unlock(t, m) =>
                 Became(t, IF owner_locked[m] THEN "hang" ELSE "release", m, ret[t], monitor[t])
           /\ \A v \in CV : wait_until_with_lock(t, v) => Became(t, "wait", v, ret[t], v)
           /\ \A v \in CV : signal(t, v) => Became(t, "notify", v, ret[t], monitor[t])
           /\ \A p \in Level : change_intrinsic(t, p) => Became(t, pc[t], wq[t], ret[t], monitor[t])
<1>0. t \in Ctx
  BY Contexts
<1>1. \A m \in Mtx : lock(t, m) => Became(t, "try", m, ret[t], monitor[t])
  BY <1>0 DEF Types, lock, Goto, Became, Others, data
<1>2. \A m \in Mtx : unlock(t, m) =>
        Became(t, IF owner_locked[m] THEN "hang" ELSE "release", m, ret[t], monitor[t])
  BY <1>0 DEF Types, unlock, Goto, Became, Others, data
<1>3. \A v \in CV : wait_until_with_lock(t, v) => Became(t, "wait", v, ret[t], v)
  BY <1>0 DEF Types, wait_until_with_lock, Goto, Became, Others
<1>4. \A v \in CV : signal(t, v) => Became(t, "notify", v, ret[t], monitor[t])
  BY <1>0 DEF Types, signal, Goto, Became, Others
<1>5. \A p \in Level : change_intrinsic(t, p) => Became(t, pc[t], wq[t], ret[t], monitor[t])
  BY <1>0 DEF Types, change_intrinsic, wqvars, Became, Others, data
<1> QED
  BY <1>1, <1>2, <1>3, <1>4, <1>5

\* Interrupt handlers, and whoever releases a guard.
LEMMA HandlerLocals ==
    ASSUME Types, NEW c \in Ctx
    PROVE  /\ \A v \in CV : irq_notify(c, v) => Became(c, "notify", v, ret[c], monitor[c])
           /\ \A m \in Mtx : irq_try_lock(c, m) => Became(c, "isr", m, ret[c], monitor[c])
           /\ irq_drop(c) => Became(c, IF owner_locked[wq[c]] THEN "hang" ELSE "release",
                                    wq[c], ret[c], monitor[c])
           /\ release(c) => Became(c, "notify", wq[c], ret[c], monitor[c])
<1>1. \A v \in CV : irq_notify(c, v) => Became(c, "notify", v, ret[c], monitor[c])
  BY DEF Types, irq_notify, Goto, Became, Others, data
<1>2. \A m \in Mtx : irq_try_lock(c, m) => Became(c, "isr", m, ret[c], monitor[c])
  BY DEF Types, irq_try_lock, Goto, Became, Others, data
<1>3. irq_drop(c) => Became(c, IF owner_locked[wq[c]] THEN "hang" ELSE "release",
                            wq[c], ret[c], monitor[c])
  BY DEF Types, irq_drop, Goto, Became, Others, data
<1>4. release(c) => Became(c, "notify", wq[c], ret[c], monitor[c])
  BY DEF Types, release, Goto, Became, Others, data
<1> QED
  BY <1>1, <1>2, <1>3, <1>4

\* The other steps of a task.
LEMMA TaskLocals ==
    ASSUME Types, NEW t \in Task
    PROVE  /\ try_lock(t) =>
                IF guard[wq[t]] = NoOne
                  THEN Became(t, Locked(t), monitor[t], ret[t], monitor[t])
                  ELSE Became(t, "contend", wq[t], ret[t], monitor[t])
           /\ contend(t) => Became(t, IF owner_locked[wq[t]] THEN "hang" ELSE "inherit",
                                   wq[t], ret[t], monitor[t])
           /\ inherit(t) => Became(t, "wait", wq[t], ret[t], monitor[t])
           /\ lock_until(t) =>
                IF guard[wq[t]] = NoOne
                  THEN Became(t, "leave", wq[t], Locked(t), monitor[t])
                  ELSE Became(t, "enqueue", wq[t], "yield", monitor[t])
           /\ predicate_met(t) => Became(t, "leave", wq[t], "home", NoQueue)
           /\ unlock_and_into_lock_ref(t) =>
                Became(t, IF owner_locked[MutexOf[wq[t]]] THEN "hang" ELSE "enqueue",
                       wq[t], "yield_unlocked", monitor[t])
           /\ relock(t) => Became(t, "try", MutexOf[monitor[t]], ret[t], monitor[t])
           /\ wait_again(t) => Became(t, "wait", monitor[t], ret[t], monitor[t])
<1>0. t \in Ctx
  BY Contexts
<1>1. try_lock(t) =>
        IF guard[wq[t]] = NoOne
          THEN Became(t, Locked(t), monitor[t], ret[t], monitor[t])
          ELSE Became(t, "contend", wq[t], ret[t], monitor[t])
  BY <1>0 DEF Types, try_lock, Goto, Became, Others, data
<1>2. contend(t) => Became(t, IF owner_locked[wq[t]] THEN "hang" ELSE "inherit",
                           wq[t], ret[t], monitor[t])
  BY <1>0 DEF Types, contend, Goto, Became, Others, data
<1>3. inherit(t) => Became(t, "wait", wq[t], ret[t], monitor[t])
  BY <1>0 DEF Types, inherit, Goto, Became, Others, data
<1>4. lock_until(t) =>
        IF guard[wq[t]] = NoOne
          THEN Became(t, "leave", wq[t], Locked(t), monitor[t])
          ELSE Became(t, "enqueue", wq[t], "yield", monitor[t])
  BY <1>0 DEF Types, lock_until, wait_condition, Goto, Became, Others, data
<1>5. predicate_met(t) => Became(t, "leave", wq[t], "home", NoQueue)
  BY <1>0 DEF Types, predicate_met, wait_condition, Goto, Became, Others
<1>6. unlock_and_into_lock_ref(t) =>
        Became(t, IF owner_locked[MutexOf[wq[t]]] THEN "hang" ELSE "enqueue",
               wq[t], "yield_unlocked", monitor[t])
  BY <1>0 DEF Types, unlock_and_into_lock_ref, Goto, Became, Others, data
<1>7. relock(t) => Became(t, "try", MutexOf[monitor[t]], ret[t], monitor[t])
  BY <1>0 DEF Types, relock, Goto, Became, Others, data
<1>8. wait_again(t) => Became(t, "wait", monitor[t], ret[t], monitor[t])
  BY <1>0 DEF Types, wait_again, Goto, Became, Others, data
<1> QED
  BY <1>1, <1>2, <1>3, <1>4, <1>5, <1>6, <1>7, <1>8

-----------------------------------------------------------------------------
(***************************************************************************)
(* Types.                                                                  *)
(***************************************************************************)
\* Waking tasks keeps the queues and the states well typed.
LEMMA WakeTypes ==
    ASSUME Types, NEW q \in WQ, NEW n \in Nat, Wake(q, n)
    PROVE  /\ queue' \in [WQ -> Seq(Task)]
           /\ state' \in [Task -> {"Ready", "Running", "Blocked"}]
<1>1. Without(queue[q], Popped(priority, queue[q], n)) \in Seq(Task)
  BY WithoutTasks DEF Types
<1> QED
  BY <1>1 DEF Types, Wake, accept_task

\* The steps that the actions name are steps.
LEMMA StepNames ==
    /\ {"home", "wait", "cond", "enqueue", "leave", "yield", "notify", "pop", "pend", "hang"} \subseteq Steps
    /\ {"try", "contend", "inherit", "monitor", "yield_unlocked", "relock", "release", "isr"} \subseteq Steps
  BY DEF Steps, WaitQueueSteps, SuspendedSteps, MutexSteps, MutexSuspended

\* Every step keeps the variables well typed.
LEMMA TypeStep ==
    ASSUME Types, ControlInv, MonitorInv, Next PROVE Types'
<1>0. Task \subseteq Ctx /\ Irq \subseteq Ctx
  BY Contexts
<1> USE StepNames
<1>1. ASSUME NEW c \in Ctx, QueueStep(c) PROVE Types'
  <2>0. UNCHANGED <<priority, intrinsic, guard, owner, owner_locked, predicate, monitor>>
    BY <1>1 DEF QueueStep, mutexes, data
  <2>1. CASE notify_guard(c)
    BY <2>0, <2>1 DEF notify_guard, Goto, Types
  <2>2. CASE notify_full(c)
    <3>1. wq[c] \in WQ
      BY <2>2 DEF notify_full, At, ControlInv, ControlOf, InQueueCode
    <3>2. queue' \in [WQ -> Seq(Task)] /\ state' \in [Task -> {"Ready", "Running", "Blocked"}]
      BY <2>2, <3>1, WakeTypes DEF notify_full
    <3> QED
      BY <2>0, <2>2, <3>2 DEF notify_full, Goto, Types
  <2>3. CASE notify_pend(c)
    <3>1. wq[c] \in WQ
      BY <2>3 DEF notify_pend, At, ControlInv, ControlOf, InQueueCode
    <3>2. wq' \in [Ctx -> WQ \union {NoQueue}]
      BY <2>3 DEF notify_pend, Return, Types
    <3>3. notify_cnt' \in [WQ -> Nat]
      BY <2>3, <3>1 DEF notify_pend, Types
    <3>4. pc' \in [Ctx -> Steps] /\ ret' \in [Ctx -> Steps]
      BY <2>3 DEF notify_pend, Return, Goto, Types
    <3> QED
      BY <2>0, <2>3, <3>2, <3>3, <3>4 DEF notify_pend, Types
  <2>4. CASE run_pended_op(c)
    <3>1. wq[c] \in WQ
      BY <2>4 DEF run_pended_op, At, ControlInv, ControlOf, InQueueCode
    <3>2. queue' \in [WQ -> Seq(Task)] /\ state' \in [Task -> {"Ready", "Running", "Blocked"}]
      BY <2>4, <3>1, WakeTypes DEF run_pended_op, Types
    <3> QED
      BY <2>0, <2>4, <3>2 DEF run_pended_op, Types
  <2>5. CASE leave(c)
    <3>1. wq' \in [Ctx -> WQ \union {NoQueue}]
      BY <2>5 DEF leave, Return, Types
    <3>2. pc' \in [Ctx -> Steps] /\ ret' \in [Ctx -> Steps]
      BY <2>5 DEF leave, Return, Goto, Types
    <3>3. locked' \in [WQ -> BOOLEAN]
      BY <2>5 DEF leave, Types
    <3> QED
      BY <2>0, <2>5, <3>1, <3>2, <3>3 DEF leave, Types
  <2>6. CASE c \in Task /\ wait_guard(c)
    BY <2>0, <2>6 DEF wait_guard, Goto, Types
  <2>7. CASE c \in Task /\ wait_enqueue(c)
    <3>1. wq[c] \in WQ
      BY <2>7 DEF wait_enqueue, At, ControlInv, ControlOf, InQueueCode
    <3>2. Append(queue[wq[c]], c) \in Seq(Task)
      BY <2>7, <3>1, AppendTask DEF Types
    <3> QED
      BY <2>0, <2>7, <3>2 DEF wait_enqueue, Goto, Types
  <2> QED
    BY <1>1, <2>1, <2>2, <2>3, <2>4, <2>5, <2>6, <2>7 DEF QueueStep, WaitQueueStep
<1>2. ASSUME Switch PROVE Types'
  <2>1. /\ cur' \in Task \union {Idle}
        /\ state' \in [Task -> {"Ready", "Running", "Blocked"}]
    BY <1>2 DEF Switch, switch, Pickable, Types
  <2>2. pc' \in [Ctx -> Steps]
    BY <1>2 DEF Switch, switch, Types
  <2> QED
    BY <1>2, <2>1, <2>2 DEF Switch, Types, queues, mutexes, data
<1>3. ASSUME NEW t \in Task, Call(t) PROVE Types'
  <2>1. ASSUME NEW m \in Mtx, lock(t, m) PROVE Types'
    BY <1>0, <2>1, Queues DEF lock, Goto, Types, queues, mutexes, data
  <2>2. ASSUME NEW m \in Mtx, unlock(t, m) PROVE Types'
    <3>1. priority' \in [Task -> Level]
      BY <2>2 DEF unlock, restore_intrinsic_priority, Types
    <3>2. owner' \in [Mtx -> Task \union {NoOne}] /\ pc' \in [Ctx -> Steps]
      BY <2>2 DEF unlock, Goto, Types
    <3> QED
      BY <1>0, <2>2, <3>1, <3>2, Queues DEF unlock, Types, queues, data
  <2>3. ASSUME NEW v \in CV, wait_until_with_lock(t, v) PROVE Types'
    BY <1>0, <2>3, Queues DEF wait_until_with_lock, Goto, Types, queues, mutexes
  <2>4. ASSUME NEW v \in CV, signal(t, v) PROVE Types'
    BY <1>0, <2>4, Queues DEF signal, Goto, Types, queues, mutexes
  <2>5. ASSUME NEW p \in Level, change_intrinsic(t, p) PROVE Types'
    <3>1. intrinsic' \in [Task -> Level] /\ priority' \in [Task -> Level]
      BY <2>5 DEF change_intrinsic, Types
    <3> QED
      BY <2>5, <3>1 DEF change_intrinsic, wqvars, queues, mutexes, data, Types
  <2> QED
    BY <1>3, <2>1, <2>2, <2>3, <2>4, <2>5 DEF Call
<1>4. ASSUME NEW e \in Irq, IrqCall(e) PROVE Types'
  <2>1. ASSUME NEW v \in CV, irq_notify(e, v) PROVE Types'
    BY <1>0, <2>1, Queues DEF irq_notify, Goto, Types, queues, mutexes, data
  <2>2. ASSUME NEW m \in Mtx, irq_try_lock(e, m) PROVE Types'
    BY <1>0, <2>2, Queues DEF irq_try_lock, Goto, Types, queues, data
  <2> QED
    BY <1>4, <2>1, <2>2 DEF IrqCall
<1>5. ASSUME NEW c \in Ctx, release(c) \/ irq_drop(c) PROVE Types'
  <2>1. CASE release(c)
    BY <2>1 DEF release, Goto, Types, queues, data
  <2>2. CASE irq_drop(c)
    BY <2>2 DEF irq_drop, Goto, Types, queues, mutexes, data
  <2> QED
    BY <1>5, <2>1, <2>2
<1>6. ASSUME NEW t \in Task, TaskStep(t) PROVE Types'
  <2>0. t \in Ctx /\ Locked(t) \in Steps /\ monitor[t] \in WQ \union {NoQueue}
    BY <1>0, Queues DEF Locked, Types
  <2>1. CASE try_lock(t)
    <3>1. wq' \in [Ctx -> WQ \union {NoQueue}]
      BY <2>0, <2>1 DEF try_lock, Types
    <3>2. pc' \in [Ctx -> Steps]
      BY <2>0, <2>1 DEF try_lock, Goto, Types
    <3>3. guard' \in [Mtx -> Ctx \union {NoOne}] /\ owner' \in [Mtx -> Task \union {NoOne}]
      BY <2>0, <2>1 DEF try_lock, Acquire, Types
    <3> QED
      BY <2>1, <3>1, <3>2, <3>3 DEF try_lock, queues, data, Types
  <2>2. CASE contend(t)
    BY <2>2 DEF contend, Goto, queues, data, Types
  <2>3. CASE inherit(t)
    <3>1. priority' \in [Task -> Level]
      <4>1. CASE owner[wq[t]] = NoOne
        BY <2>3, <4>1 DEF inherit, Types
      <4>2. CASE owner[wq[t]] # NoOne
        <5> DEFINE o == owner[wq[t]]
        <5>1. priority' = [priority EXCEPT ![o] = IF priority[t] < @ THEN priority[t] ELSE @]
          BY <2>3, <4>2 DEF inherit, ceil_priority_from
        <5>2. priority[t] \in Level /\ \A u \in Task : priority[u] \in Level
          BY DEF Types
        <5> HIDE DEF o
        <5> QED
          BY <5>1, <5>2 DEF Types
      <4> QED
        BY <4>1, <4>2
    <3> QED
      BY <2>3, <3>1 DEF inherit, Goto, queues, data, Types
  <2>4. CASE lock_until(t)
    <3>1. pc' \in [Ctx -> Steps] /\ ret' \in [Ctx -> Steps]
      BY <2>0, <2>4 DEF lock_until, wait_condition, Goto, Types
    <3>2. guard' \in [Mtx -> Ctx \union {NoOne}] /\ owner' \in [Mtx -> Task \union {NoOne}]
      BY <2>0, <2>4 DEF lock_until, Acquire, Types
    <3> QED
      BY <2>4, <3>1, <3>2 DEF lock_until, wait_condition, queues, data, Types
  <2>5. CASE predicate_met(t)
    BY <2>5 DEF predicate_met, wait_condition, Goto, queues, mutexes, Types
  <2>6. CASE unlock_and_into_lock_ref(t)
    <3>1. MutexOf[wq[t]] \in WQ
      BY <2>6, Queues DEF unlock_and_into_lock_ref
    <3>2. queue' \in [WQ -> Seq(Task)] /\ state' \in [Task -> {"Ready", "Running", "Blocked"}]
      BY <2>6, <3>1, WakeTypes DEF unlock_and_into_lock_ref
    <3>3. priority' \in [Task -> Level]
      BY <2>6 DEF unlock_and_into_lock_ref, restore_intrinsic_priority, Types
    <3>4. guard' \in [Mtx -> Ctx \union {NoOne}] /\ owner' \in [Mtx -> Task \union {NoOne}]
      BY <2>6 DEF unlock_and_into_lock_ref, Types
    <3> QED
      BY <2>6, <3>2, <3>3, <3>4 DEF unlock_and_into_lock_ref, Goto, data, Types
  <2>7. CASE relock(t)
    <3>1. MutexOf[monitor[t]] \in WQ
      BY <2>7, Queues DEF relock, At, MonitorInv, MonitorOf, Unlocked
    <3> QED
      BY <2>7, <3>1 DEF relock, Goto, queues, mutexes, data, Types
  <2>8. CASE wait_again(t)
    BY <2>0, <2>8 DEF wait_again, Goto, queues, mutexes, data, Types
  <2> QED
    BY <1>6, <2>1, <2>2, <2>3, <2>4, <2>5, <2>6, <2>7, <2>8 DEF TaskStep
<1> QED
  BY <1>0, <1>1, <1>2, <1>3, <1>4, <1>5, <1>6 DEF Next, Step, QueueStep

-----------------------------------------------------------------------------
(***************************************************************************)
(* Control.                                                                *)
(***************************************************************************)
\* A task that takes a step is the current one.
LEMMA RunningTask ==
    ASSUME NEW c \in Ctx, Running(c) PROVE c \in Task => c = cur
  BY Contexts DEF Running

\* A running task that is not inside a wait queue finds all of them unlocked, and
\* unless it looks at an owner field it finds those unlocked.
LEMMA TaskFindsUnlocked ==
    ASSUME LockInv, NEW t \in Task, Running(t)
    PROVE  /\ ~Inside(t) => \A q \in WQ : ~locked[q]
           /\ pc[t] # "inherit" => \A m \in Mtx : ~owner_locked[m]
<1>1. t = cur /\ \A e \in Irq : pc[e] = "home"
  BY Contexts DEF Running, ThreadMode
<1>2. ASSUME ~Inside(t), NEW c \in Ctx PROVE ~Inside(c)
  <2>1. CASE c \in Irq
    BY <1>1, <2>1 DEF Inside
  <2>2. CASE c \in Task
    BY <1>1, <1>2, <2>2 DEF Inside, LockInv, SuspendedSteps
  <2> QED
    BY <2>1, <2>2, Contexts
<1>3. ASSUME pc[t] # "inherit", NEW u \in Task PROVE pc[u] # "inherit"
  BY <1>1, <1>3 DEF LockInv, MutexSuspended
<1> QED
  BY <1>2, <1>3 DEF LockInv

\* The step of one context, in one of the forms that the proofs distinguish.
Moves(c) ==
    \/ QueueStep(c) \/ release(c)
    \/ c \in Task /\ (TaskStep(c) \/ Call(c))
    \/ c \in Irq /\ (irq_drop(c) \/ IrqCall(c))

\* A step is a switch or one context's.
LEMMA NextMoves ==
    ASSUME Next PROVE Switch \/ \E c \in Ctx : Moves(c)
  BY Contexts DEF Next, Step, Moves, QueueStep

\* A step that moves one context only has to bring it to the right place.
LEMMA ControlFrame ==
    ASSUME ControlInv, NEW c \in Ctx, Others(c), ControlOf(c)' PROVE ControlInv'
<1> SUFFICES ASSUME NEW d \in Ctx, d # c PROVE ControlOf(d)'
  BY DEF ControlInv
<1> QED
  BY DEF Others, ControlInv, ControlOf

\* What a switch does to the places of the tasks.
LEMMA SwitchLocals ==
    ASSUME Switch
    PROVE  /\ \A c \in Ctx : \/ pc'[c] = pc[c]
                             \/ c = cur /\ pc[c] = "yield" /\ pc'[c] = "wait"
                             \/ c = cur /\ pc[c] = "yield_unlocked" /\ pc'[c] = "relock"
           /\ UNCHANGED <<queue, notify_cnt, locked, wq, ret, priority, intrinsic, guard,
                          owner, owner_locked, predicate, monitor>>
           /\ ThreadMode
           /\ cur # Idle => pc[cur] \notin SuspendedSteps \union MutexSuspended
           /\ cur' = Idle \/ (cur' \in Task /\ state[cur'] # "Blocked")
           /\ \A t \in Task : t # cur' /\ state[t] = "Blocked" => state'[t] = "Blocked"
<1>1. \A c \in Ctx : \/ pc'[c] = pc[c]
                     \/ c = cur /\ pc[c] = "yield" /\ pc'[c] = "wait"
                     \/ c = cur /\ pc[c] = "yield_unlocked" /\ pc'[c] = "relock"
  BY DEF Switch, switch
<1>2. UNCHANGED <<queue, notify_cnt, locked, wq, ret, priority, intrinsic, guard,
                  owner, owner_locked, predicate, monitor>>
  BY DEF Switch, queues, mutexes, data
<1>3. ThreadMode /\ (cur # Idle => pc[cur] \notin SuspendedSteps \union MutexSuspended)
  BY DEF Switch, switch
<1>4. /\ cur' = Idle \/ (cur' \in Task /\ state[cur'] # "Blocked")
      /\ \A t \in Task : t # cur' /\ state[t] = "Blocked" => state'[t] = "Blocked"
  BY DEF Switch, switch, Pickable
<1> QED
  BY <1>1, <1>2, <1>3, <1>4

\* Every step keeps the contexts where they belong.
LEMMA ControlStep ==
    ASSUME Types, ControlInv, MonitorInv, LockInv, Next PROVE ControlInv'
<1>1. ASSUME Switch PROVE ControlInv'
  <2> SUFFICES ASSUME NEW c \in Ctx PROVE ControlOf(c)'
    BY DEF ControlInv
  <2>1. /\ UNCHANGED <<wq, ret>>
        /\ \/ pc'[c] = pc[c]
           \/ pc[c] = "yield" /\ pc'[c] = "wait"
           \/ pc[c] = "yield_unlocked" /\ pc'[c] = "relock"
    BY <1>1, SwitchLocals
  <2> QED
    BY <2>1, Queues DEF ControlInv, ControlOf, Locking, InQueueCode
<1>2. ASSUME NEW c \in Ctx, Moves(c) PROVE ControlInv'
  <2>0. ControlOf(c) /\ (c \in Task \/ c \in Irq) /\ (c \in Task => c \notin Irq)
    BY Contexts DEF ControlInv
  <2> SUFFICES Others(c) /\ ControlOf(c)'
    BY ControlFrame
  <2>1. CASE QueueStep(c)
    <3>1. CASE notify_guard(c)
      <4>1. Became(c, IF locked[wq[c]] THEN "pend" ELSE "pop", wq[c], "home", monitor[c])
        BY <2>1, <3>1, QueueLocals
      <4>2. pc[c] = "notify"
        BY <3>1 DEF notify_guard, At
      <4> QED
        BY <2>0, <4>1, <4>2 DEF Became, ControlOf, Locking, InQueueCode
    <3>2. CASE notify_full(c) \/ run_pended_op(c) \/ (c \in Task /\ wait_enqueue(c))
      <4>1. Became(c, "leave", wq[c], ret[c], monitor[c])
        BY <2>1, <3>2, QueueLocals
      <4>2. pc[c] \in {"pop", "leave", "enqueue"}
        BY <3>2 DEF notify_full, run_pended_op, wait_enqueue, At
      <4> QED
        BY <2>0, <4>1, <4>2 DEF Became, ControlOf, Locking, InQueueCode
    <3>3. CASE notify_pend(c) \/ (leave(c) /\ ret[c] = "home")
      <4>1. Became(c, "home", NoQueue, "home", monitor[c])
        BY <2>1, <3>3, QueueLocals
      <4> QED
        BY <2>0, <4>1 DEF Became, ControlOf, Locking, InQueueCode
    <3>4. CASE leave(c) /\ ret[c] # "home"
      <4>1. Became(c, ret[c], wq[c], "home", monitor[c])
        BY <2>1, <3>4, QueueLocals
      <4>2. pc[c] = "leave"
        BY <3>4 DEF leave, At
      <4> QED
        BY <2>0, <3>4, <4>1, <4>2 DEF Became, ControlOf, Locking, InQueueCode
    <3>5. CASE c \in Task /\ wait_guard(c)
      <4>1. pc[c] = "wait" /\ Running(c) /\ ~Inside(c)
        BY <3>5 DEF wait_guard, At, Inside
      <4>2. ~locked[wq[c]]
        BY <2>0, <3>5, <4>1, TaskFindsUnlocked DEF ControlOf, InQueueCode
      <4>3. Became(c, "cond", wq[c], ret[c], monitor[c])
        BY <2>1, <3>5, <4>2, QueueLocals
      <4> QED
        BY <2>0, <3>5, <4>1, <4>3 DEF Became, ControlOf, Locking, InQueueCode
    <3> QED
      BY <2>1, <3>1, <3>2, <3>3, <3>4, <3>5 DEF QueueStep, WaitQueueStep
  <2>2. CASE release(c)
    <3>1. Became(c, "notify", wq[c], ret[c], monitor[c]) /\ pc[c] = "release"
      BY <2>2, HandlerLocals DEF release, At
    <3> QED
      BY <2>0, <3>1, Queues DEF Became, ControlOf, Locking, InQueueCode
  <2>3. CASE c \in Irq /\ irq_drop(c)
    <3>1. Became(c, IF owner_locked[wq[c]] THEN "hang" ELSE "release", wq[c], ret[c], monitor[c])
          /\ pc[c] = "isr"
      BY <2>3, HandlerLocals DEF irq_drop, At
    <3> QED
      BY <2>0, <2>3, <3>1 DEF Became, ControlOf, Locking, InQueueCode
  <2>4. CASE c \in Irq /\ IrqCall(c)
    <3>1. pc[c] = "home"
      BY <2>4, IrqAssumption DEF IrqCall, irq_notify, irq_try_lock, IrqAllowed, Arrives, Irq
    <3>2. ASSUME NEW v \in CV, irq_notify(c, v) PROVE Others(c) /\ ControlOf(c)'
      BY <2>0, <2>4, <3>1, <3>2, HandlerLocals, Queues DEF Became, ControlOf, Locking, InQueueCode
    <3>3. ASSUME NEW m \in Mtx, irq_try_lock(c, m) PROVE Others(c) /\ ControlOf(c)'
      BY <2>0, <2>4, <3>1, <3>3, HandlerLocals, Queues DEF Became, ControlOf, Locking, InQueueCode
    <3> QED
      BY <2>4, <3>2, <3>3 DEF IrqCall
  <2>5. CASE c \in Task /\ Call(c)
    <3>1. pc[c] = "home" /\ Running(c)
      BY <2>5 DEF Call, lock, unlock, wait_until_with_lock, signal, change_intrinsic, At
    <3>2. \A m \in Mtx : ~owner_locked[m]
      BY <2>5, <3>1, TaskFindsUnlocked
    <3>3. ret[c] = "home" /\ c \notin Irq
      BY <2>0, <2>5, <3>1 DEF ControlOf
    <3>4. \/ \E m \in Mtx : Became(c, "try", m, ret[c], monitor[c])
          \/ \E m \in Mtx : Became(c, "release", m, ret[c], monitor[c])
          \/ \E v \in CV : Became(c, "wait", v, ret[c], v)
          \/ \E v \in CV : Became(c, "notify", v, ret[c], monitor[c])
          \/ Became(c, pc[c], wq[c], ret[c], monitor[c])
      BY <2>5, <3>2, CallLocals DEF Call
    <3> QED
      BY <3>1, <3>3, <3>4, Queues DEF Became, ControlOf, Locking, InQueueCode
  <2>6. CASE c \in Task /\ TaskStep(c)
    <3>0. /\ c \notin Irq /\ Locked(c) \in {"home", "monitor"}
          /\ Locked(c) = "home" <=> monitor[c] = NoQueue
          /\ monitor[c] \in CV \union {NoQueue}
      BY <2>0, <2>6 DEF Locked, Types
    <3>1. CASE try_lock(c)
      <4>1. pc[c] = "try"
        BY <3>1 DEF try_lock, At
      <4>2. \/ Became(c, Locked(c), monitor[c], ret[c], monitor[c])
            \/ Became(c, "contend", wq[c], ret[c], monitor[c])
        BY <2>6, <3>1, TaskLocals
      <4> QED
        BY <2>0, <3>0, <4>1, <4>2, Queues DEF Became, ControlOf, Locking, InQueueCode
    <3>2. CASE contend(c)
      <4>1. pc[c] = "contend" /\ Running(c)
        BY <3>2 DEF contend, At
      <4>2. ~owner_locked[wq[c]]
        BY <2>0, <2>6, <4>1, TaskFindsUnlocked DEF ControlOf, Locking
      <4>3. Became(c, "inherit", wq[c], ret[c], monitor[c])
        BY <2>6, <3>2, <4>2, TaskLocals
      <4> QED
        BY <2>0, <3>0, <4>1, <4>3 DEF Became, ControlOf, Locking, InQueueCode
    <3>3. CASE inherit(c)
      <4>1. pc[c] = "inherit" /\ Became(c, "wait", wq[c], ret[c], monitor[c])
        BY <2>6, <3>3, TaskLocals DEF inherit, At
      <4> QED
        BY <2>0, <3>0, <4>1, Queues DEF Became, ControlOf, Locking, InQueueCode
    <3>4. CASE lock_until(c)
      <4>1. pc[c] = "cond" /\ wq[c] \in Mtx
        BY <3>4 DEF lock_until, wait_condition, At
      <4>2. \/ Became(c, "leave", wq[c], Locked(c), monitor[c])
            \/ Became(c, "enqueue", wq[c], "yield", monitor[c])
        BY <2>6, <3>4, TaskLocals
      <4> QED
        BY <2>0, <3>0, <4>1, <4>2, Queues DEF Became, ControlOf, Locking, InQueueCode
    <3>5. CASE predicate_met(c)
      <4>1. pc[c] = "cond" /\ Became(c, "leave", wq[c], "home", NoQueue)
        BY <2>6, <3>5, TaskLocals DEF predicate_met, wait_condition, At
      <4> QED
        BY <2>0, <3>0, <4>1 DEF Became, ControlOf, Locking, InQueueCode
    <3>6. CASE unlock_and_into_lock_ref(c)
      <4>1. pc[c] = "cond" /\ wq[c] \in CV /\ Running(c)
        BY <3>6 DEF unlock_and_into_lock_ref, At
      <4>2. ~owner_locked[MutexOf[wq[c]]]
        BY <2>6, <4>1, TaskFindsUnlocked, Queues
      <4>3. Became(c, "enqueue", wq[c], "yield_unlocked", monitor[c])
        BY <2>6, <3>6, <4>2, TaskLocals
      <4> QED
        BY <2>0, <3>0, <4>1, <4>3, Queues DEF Became, ControlOf, Locking, InQueueCode
    <3>7. CASE relock(c)
      <4>1. pc[c] = "relock" /\ Became(c, "try", MutexOf[monitor[c]], ret[c], monitor[c])
        BY <2>6, <3>7, TaskLocals DEF relock, At
      <4>2. MutexOf[monitor[c]] \in Mtx
        BY <2>6, <4>1, Queues DEF MonitorInv, MonitorOf, Unlocked
      <4> QED
        BY <2>0, <3>0, <4>1, <4>2 DEF Became, ControlOf, Locking, InQueueCode
    <3>8. CASE wait_again(c)
      <4>1. pc[c] = "monitor" /\ Became(c, "wait", monitor[c], ret[c], monitor[c])
        BY <2>6, <3>8, TaskLocals DEF wait_again, At
      <4>2. monitor[c] \in WQ
        BY <2>6, <4>1, Queues DEF MonitorInv, MonitorOf, Looks
      <4> QED
        BY <2>0, <3>0, <4>1, <4>2 DEF Became, ControlOf, Locking, InQueueCode
    <3> QED
      BY <2>6, <3>1, <3>2, <3>3, <3>4, <3>5, <3>6, <3>7, <3>8 DEF TaskStep
  <2> QED
    BY <1>2, <2>1, <2>2, <2>3, <2>4, <2>5, <2>6 DEF Moves
<1> QED
  BY <1>1, <1>2, NextMoves

-----------------------------------------------------------------------------
(***************************************************************************)
(* Waits on condition variables.                                           *)
(***************************************************************************)
\* What the steps of each kind do to the guards.
LEMMA GuardSteps ==
    ASSUME Types, NEW c \in Ctx
    PROVE  /\ QueueStep(c) => guard' = guard
           /\ release(c) => guard' = [guard EXCEPT ![wq[c]] = NoOne]
           /\ c \in Irq /\ irq_drop(c) => guard' = guard
           /\ \A v \in CV : irq_notify(c, v) => guard' = guard
           /\ \A m \in Mtx : irq_try_lock(c, m) =>
                 guard[m] = NoOne /\ guard' = [guard EXCEPT ![m] = c]
           /\ Call(c) => guard' = guard
           /\ try_lock(c) \/ lock_until(c) =>
                 IF guard[wq[c]] = NoOne THEN guard' = [guard EXCEPT ![wq[c]] = c]
                                         ELSE guard' = guard
           /\ contend(c) \/ inherit(c) \/ predicate_met(c) \/ relock(c) \/ wait_again(c) =>
                 guard' = guard
           /\ unlock_and_into_lock_ref(c) =>
                 guard' = [guard EXCEPT ![MutexOf[wq[c]]] = NoOne]
<1>1. QueueStep(c) => guard' = guard
  BY DEF QueueStep, mutexes
<1>2. /\ release(c) => guard' = [guard EXCEPT ![wq[c]] = NoOne]
      /\ c \in Irq /\ irq_drop(c) => guard' = guard
  BY DEF release, irq_drop, mutexes
<1>3. /\ \A v \in CV : irq_notify(c, v) => guard' = guard
      /\ \A m \in Mtx : irq_try_lock(c, m) =>
            guard[m] = NoOne /\ guard' = [guard EXCEPT ![m] = c]
  BY DEF irq_notify, irq_try_lock, mutexes
<1>4. Call(c) => guard' = guard
  BY DEF Call, lock, unlock, wait_until_with_lock, signal, change_intrinsic, mutexes
<1>5. try_lock(c) \/ lock_until(c) =>
        IF guard[wq[c]] = NoOne THEN guard' = [guard EXCEPT ![wq[c]] = c]
                                ELSE guard' = guard
  BY DEF try_lock, lock_until, Acquire
<1>6. /\ contend(c) \/ inherit(c) \/ predicate_met(c) \/ relock(c) \/ wait_again(c) =>
            guard' = guard
      /\ unlock_and_into_lock_ref(c) => guard' = [guard EXCEPT ![MutexOf[wq[c]]] = NoOne]
  BY DEF contend, inherit, predicate_met, relock, wait_again, unlock_and_into_lock_ref, mutexes
<1> QED
  BY <1>1, <1>2, <1>3, <1>4, <1>5, <1>6

\* Nobody takes away another context's guard.
LEMMA GuardKept ==
    ASSUME Types, MonitorInv, OwnerInv, NEW c \in Ctx, Moves(c),
           NEW m \in Mtx, guard[m] # NoOne, guard[m] # c
    PROVE  guard'[m] = guard[m]
<1>1. CASE QueueStep(c) \/ (c \in Irq /\ irq_drop(c)) \/ (c \in Task /\ Call(c))
  BY <1>1, GuardSteps
<1>2. CASE release(c)
  <2>1. guard[wq[c]] = c
    BY <1>2 DEF release, At, OwnerInv
  <2> QED
    BY <1>2, <2>1, GuardSteps DEF Types
<1>3. CASE c \in Irq /\ IrqCall(c)
  <2>1. guard' = guard \/ \E k \in Mtx : guard[k] = NoOne /\ guard' = [guard EXCEPT ![k] = c]
    BY <1>3, GuardSteps DEF IrqCall
  <2> QED
    BY <2>1 DEF Types
<1>4. CASE c \in Task /\ TaskStep(c)
  <2>1. CASE unlock_and_into_lock_ref(c)
    <3>1. Looks(c) /\ wq[c] = monitor[c]
      BY <1>4, <2>1 DEF unlock_and_into_lock_ref, At, Looks, MonitorInv, MonitorOf
    <3>2. guard[MutexOf[wq[c]]] = c
      BY <1>4, <3>1 DEF MonitorInv, MonitorOf
    <3> QED
      BY <2>1, <3>2, GuardSteps DEF Types
  <2>2. CASE try_lock(c) \/ lock_until(c)
    BY <2>2, GuardSteps DEF Types
  <2> QED
    BY <1>4, <2>1, <2>2, GuardSteps DEF TaskStep
<1> QED
  BY <1>1, <1>2, <1>3, <1>4 DEF Moves

\* A step only has to bring its own task to the right place.
LEMMA MonitorFrame ==
    ASSUME Types, MonitorInv, OwnerInv, NEW c \in Ctx, Moves(c), Others(c),
           c \in Task => MonitorOf(c)'
    PROVE  MonitorInv'
<1> SUFFICES ASSUME NEW t \in Task, t # c PROVE MonitorOf(t)'
  BY DEF MonitorInv
<1>1. /\ pc'[t] = pc[t] /\ wq'[t] = wq[t] /\ ret'[t] = ret[t] /\ monitor'[t] = monitor[t]
      /\ t \in Ctx /\ t # NoOne
  BY Contexts DEF Others
<1>2. MonitorOf(t)
  BY DEF MonitorInv
<1>3. Looks(t) => guard'[MutexOf[monitor[t]]] = t
  BY <1>1, <1>2, GuardKept, Queues DEF MonitorOf
<1> QED
  BY <1>1, <1>2, <1>3 DEF MonitorOf, Elsewhere, Unlocked, Looks

\* Every step keeps the condition variables with those who wait for them.
LEMMA MonitorStep ==
    ASSUME Types, ControlInv, MonitorInv, LockInv, OwnerInv, Next PROVE MonitorInv'
<1>1. ASSUME Switch PROVE MonitorInv'
  <2> SUFFICES ASSUME NEW t \in Task PROVE MonitorOf(t)'
    BY DEF MonitorInv
  <2>1. /\ UNCHANGED <<wq, ret, monitor, guard>>
        /\ \/ pc'[t] = pc[t]
           \/ pc[t] = "yield" /\ pc'[t] = "wait"
           \/ pc[t] = "yield_unlocked" /\ pc'[t] = "relock"
    BY <1>1, SwitchLocals, Contexts
  <2>2. ControlOf(t) /\ MonitorOf(t)
    BY Contexts DEF ControlInv, MonitorInv
  <2> QED
    BY <2>1, <2>2, Queues DEF ControlOf, MonitorOf, Elsewhere, Unlocked, Looks, Locking, InQueueCode
<1>2. ASSUME NEW c \in Ctx, Moves(c) PROVE MonitorInv'
  <2>0. ControlOf(c) /\ (c \in Task => MonitorOf(c)) /\ (c \in Task => c \notin Irq)
        /\ (c \in Task => monitor[c] \in CV \union {NoQueue})
    BY Contexts DEF ControlInv, MonitorInv, Types
  <2> SUFFICES Others(c) /\ (c \in Task => MonitorOf(c)')
    BY <1>2, MonitorFrame
  <2>1. CASE QueueStep(c)
    <3>0. guard' = guard
      BY <2>1, GuardSteps
    <3>1. CASE notify_guard(c)
      <4>1. Became(c, IF locked[wq[c]] THEN "pend" ELSE "pop", wq[c], "home", monitor[c])
        BY <2>1, <3>1, QueueLocals
      <4>2. pc[c] = "notify"
        BY <3>1 DEF notify_guard, At
      <4> QED
        BY <2>0, <3>0, <4>1, <4>2 DEF Became, MonitorOf, Elsewhere, Unlocked, Looks
    <3>2. CASE notify_full(c) \/ run_pended_op(c)
      <4>1. Became(c, "leave", wq[c], ret[c], monitor[c])
        BY <2>1, <3>2, QueueLocals
      <4>2. pc[c] = "leave" \/ (pc[c] = "pop" /\ ret[c] = "home")
        BY <2>0, <3>2 DEF notify_full, run_pended_op, At, ControlOf
      <4> QED
        BY <2>0, <3>0, <4>1, <4>2 DEF Became, MonitorOf, Elsewhere, Unlocked, Looks, Locking, InQueueCode
    <3>3. CASE c \in Task /\ wait_enqueue(c)
      <4>1. Became(c, "leave", wq[c], ret[c], monitor[c])
        BY <2>1, <3>3, QueueLocals
      <4>2. pc[c] = "enqueue"
        BY <3>3 DEF wait_enqueue, At
      <4> QED
        BY <2>0, <3>0, <4>1, <4>2, Queues
           DEF Became, ControlOf, MonitorOf, Elsewhere, Unlocked, Looks, Locking, InQueueCode
    <3>4. CASE notify_pend(c) \/ (leave(c) /\ ret[c] = "home")
      <4>1. Became(c, "home", NoQueue, "home", monitor[c])
        BY <2>1, <3>4, QueueLocals
      <4>2. Elsewhere(c)
        BY <3>4 DEF notify_pend, leave, At, Elsewhere
      <4> QED
        BY <2>0, <4>1, <4>2 DEF Became, MonitorOf, Elsewhere, Unlocked, Looks, Locking, InQueueCode
    <3>5. CASE leave(c) /\ ret[c] # "home"
      <4>1. Became(c, ret[c], wq[c], "home", monitor[c])
        BY <2>1, <3>5, QueueLocals
      <4>2. pc[c] = "leave"
        BY <3>5 DEF leave, At
      <4> QED
        BY <2>0, <3>0, <3>5, <4>1, <4>2, Queues
           DEF Became, ControlOf, MonitorOf, Elsewhere, Unlocked, Looks, Locking, InQueueCode
    <3>6. CASE c \in Task /\ wait_guard(c)
      <4>1. pc[c] = "wait" /\ Running(c) /\ ~Inside(c)
        BY <3>6 DEF wait_guard, At, Inside
      <4>2. ~locked[wq[c]]
        BY <2>0, <3>6, <4>1, TaskFindsUnlocked DEF ControlOf, InQueueCode
      <4>3. Became(c, "cond", wq[c], ret[c], monitor[c])
        BY <2>1, <3>6, <4>2, QueueLocals
      <4> QED
        BY <2>0, <3>0, <3>6, <4>1, <4>3
           DEF Became, ControlOf, MonitorOf, Elsewhere, Unlocked, Looks, Locking, InQueueCode
    <3> QED
      BY <2>1, <3>1, <3>2, <3>3, <3>4, <3>5, <3>6 DEF QueueStep, WaitQueueStep
  <2>2. CASE release(c)
    <3>1. Became(c, "notify", wq[c], ret[c], monitor[c]) /\ pc[c] = "release"
      BY <2>2, HandlerLocals DEF release, At
    <3> QED
      BY <2>0, <3>1 DEF Became, MonitorOf, Elsewhere, Unlocked, Looks
  <2>3. CASE c \in Irq /\ (irq_drop(c) \/ IrqCall(c))
    BY <2>0, <2>3, HandlerLocals DEF Became, IrqCall
  <2>4. CASE c \in Task /\ Call(c)
    <3>1. pc[c] = "home" /\ Running(c)
      BY <2>4 DEF Call, lock, unlock, wait_until_with_lock, signal, change_intrinsic, At
    <3>2. \A m \in Mtx : ~owner_locked[m]
      BY <2>4, <3>1, TaskFindsUnlocked
    <3>3. monitor[c] = NoQueue /\ guard' = guard /\ ret[c] = "home"
      BY <2>0, <2>4, <3>1, GuardSteps DEF ControlOf, MonitorOf, Elsewhere
    <3>4. \/ \E m \in Mtx : Became(c, "try", m, ret[c], monitor[c])
          \/ \E m \in Mtx : Became(c, "release", m, ret[c], monitor[c])
          \/ \E v \in CV : Became(c, "wait", v, ret[c], v) /\ guard[MutexOf[v]] = c
          \/ \E v \in CV : Became(c, "notify", v, ret[c], monitor[c])
          \/ Became(c, pc[c], wq[c], ret[c], monitor[c])
      BY <2>4, <3>2, CallLocals DEF Call, wait_until_with_lock
    <3> QED
      BY <3>1, <3>3, <3>4, Queues
         DEF Became, MonitorOf, Elsewhere, Unlocked, Looks, Locking, InQueueCode
  <2>5. CASE c \in Task /\ TaskStep(c)
    <3>0. /\ Locked(c) \in {"home", "monitor"}
          /\ Locked(c) = "home" <=> monitor[c] = NoQueue
      BY <2>0, <2>5 DEF Locked
    <3>1. CASE try_lock(c)
      <4>1. pc[c] = "try" /\ wq[c] \in Mtx
        BY <2>0, <3>1 DEF try_lock, At, ControlOf, Locking
      <4>2. \/ Became(c, Locked(c), monitor[c], ret[c], monitor[c])
               /\ guard' = [guard EXCEPT ![wq[c]] = c]
            \/ Became(c, "contend", wq[c], ret[c], monitor[c])
        BY <2>5, <3>1, TaskLocals, GuardSteps
      <4>3. monitor[c] = NoQueue \/ (monitor[c] \in CV /\ MutexOf[monitor[c]] = wq[c])
        BY <2>0, <2>5, <4>1 DEF MonitorOf, Locking, Elsewhere
      <4>4. CASE Became(c, "contend", wq[c], ret[c], monitor[c])
        BY <4>1, <4>3, <4>4 DEF Became, MonitorOf, Elsewhere, Unlocked, Looks
      <4>5. CASE /\ Became(c, Locked(c), monitor[c], ret[c], monitor[c])
                 /\ guard' = [guard EXCEPT ![wq[c]] = c]
        <5>1. guard'[wq[c]] = c
          BY <4>1, <4>5 DEF Types
        <5> QED
          BY <3>0, <4>3, <4>5, <5>1, Queues
             DEF Became, MonitorOf, Elsewhere, Unlocked, Looks, Locking, InQueueCode
      <4> QED
        BY <4>2, <4>4, <4>5
    <3>2. CASE contend(c)
      <4>1. pc[c] = "contend" /\ Running(c)
        BY <3>2 DEF contend, At
      <4>2. ~owner_locked[wq[c]]
        BY <2>0, <2>5, <4>1, TaskFindsUnlocked DEF ControlOf, Locking
      <4>3. Became(c, "inherit", wq[c], ret[c], monitor[c])
        BY <2>5, <3>2, <4>2, TaskLocals
      <4> QED
        BY <2>0, <4>1, <4>3 DEF Became, ControlOf, MonitorOf, Elsewhere, Unlocked, Looks, Locking, InQueueCode
    <3>3. CASE inherit(c)
      <4>1. pc[c] = "inherit" /\ Became(c, "wait", wq[c], ret[c], monitor[c])
        BY <2>5, <3>3, TaskLocals DEF inherit, At
      <4>2. wq[c] \in Mtx /\ wq[c] \notin CV
        BY <2>0, <4>1, Queues DEF ControlOf, Locking
      <4> QED
        BY <2>0, <4>1, <4>2 DEF Became, MonitorOf, Elsewhere, Unlocked, Looks, Locking, InQueueCode
    <3>4. CASE lock_until(c)
      <4>1. pc[c] = "cond" /\ wq[c] \in Mtx /\ wq[c] \notin CV
        BY <3>4, Queues DEF lock_until, wait_condition, At
      <4>2. \/ Became(c, "leave", wq[c], Locked(c), monitor[c])
               /\ guard' = [guard EXCEPT ![wq[c]] = c]
            \/ Became(c, "enqueue", wq[c], "yield", monitor[c])
        BY <2>5, <3>4, TaskLocals, GuardSteps
      <4>3. monitor[c] = NoQueue \/ (monitor[c] \in CV /\ MutexOf[monitor[c]] = wq[c])
        BY <2>0, <2>5, <4>1 DEF MonitorOf, InQueueCode, Elsewhere
      <4>4. CASE Became(c, "enqueue", wq[c], "yield", monitor[c])
        BY <4>1, <4>3, <4>4 DEF Became, MonitorOf, Elsewhere, Unlocked, Looks
      <4>5. CASE /\ Became(c, "leave", wq[c], Locked(c), monitor[c])
                 /\ guard' = [guard EXCEPT ![wq[c]] = c]
        <5>1. guard'[wq[c]] = c
          BY <4>1, <4>5 DEF Types
        <5> QED
          BY <3>0, <4>3, <4>5, <5>1, Queues
             DEF Became, MonitorOf, Elsewhere, Unlocked, Looks, Locking, InQueueCode
      <4> QED
        BY <4>2, <4>4, <4>5
    <3>5. CASE predicate_met(c)
      <4>1. pc[c] = "cond" /\ Became(c, "leave", wq[c], "home", NoQueue)
        BY <2>5, <3>5, TaskLocals DEF predicate_met, wait_condition, At
      <4> QED
        BY <4>1 DEF Became, MonitorOf, Elsewhere, Unlocked, Looks
    <3>6. CASE unlock_and_into_lock_ref(c)
      <4>1. pc[c] = "cond" /\ wq[c] \in CV /\ Running(c)
        BY <3>6 DEF unlock_and_into_lock_ref, At
      <4>2. ~owner_locked[MutexOf[wq[c]]]
        BY <2>5, <4>1, TaskFindsUnlocked, Queues
      <4>3. Became(c, "enqueue", wq[c], "yield_unlocked", monitor[c])
        BY <2>5, <3>6, <4>2, TaskLocals
      <4> QED
        BY <2>0, <2>5, <4>1, <4>3, Queues DEF Became, MonitorOf, Elsewhere, Unlocked, Looks
    <3>7. CASE relock(c)
      <4>1. pc[c] = "relock" /\ Became(c, "try", MutexOf[monitor[c]], ret[c], monitor[c])
        BY <2>5, <3>7, TaskLocals DEF relock, At
      <4> QED
        BY <2>0, <2>5, <4>1 DEF Became, MonitorOf, Elsewhere, Unlocked, Looks
    <3>8. CASE wait_again(c)
      <4>1. pc[c] = "monitor" /\ Became(c, "wait", monitor[c], ret[c], monitor[c]) /\ guard' = guard
        BY <2>5, <3>8, TaskLocals, GuardSteps DEF wait_again, At
      <4> QED
        BY <2>0, <2>5, <4>1, Queues DEF Became, MonitorOf, Elsewhere, Unlocked, Looks
    <3> QED
      BY <2>5, <3>1, <3>2, <3>3, <3>4, <3>5, <3>6, <3>7, <3>8 DEF TaskStep
  <2> QED
    BY <1>2, <2>1, <2>2, <2>3, <2>4, <2>5 DEF Moves
<1> QED
  BY <1>1, <1>2, NextMoves

-----------------------------------------------------------------------------
(***************************************************************************)
(* The locks of the wait queues and of the owner fields.                   *)
(***************************************************************************)
\* The part about owner fields, when the step is not one that looks at one.
LEMMA OwnerLockFrame ==
    ASSUME LockInv, NEW c \in Ctx, Others(c), UNCHANGED owner_locked,
           pc[c] # "inherit", pc'[c] # "inherit"
    PROVE  \A m \in Mtx : owner_locked'[m] <=> \E t \in Task : pc'[t] = "inherit" /\ wq'[t] = m
<1>1. \A t \in Task : /\ pc'[t] = "inherit" <=> pc[t] = "inherit"
                      /\ pc[t] = "inherit" => wq'[t] = wq[t]
  BY Contexts DEF Others
<1> QED
  BY <1>1 DEF LockInv

\* A step that neither enters nor leaves the lock of a wait queue.
LEMMA LockFrame ==
    ASSUME LockInv, NEW c \in Ctx, Others(c), UNCHANGED <<cur, locked, owner_locked>>,
           Inside(c)' <=> Inside(c), Inside(c) => wq'[c] = wq[c],
           c \in Task => c = cur, pc[c] # "inherit", pc'[c] # "inherit"
    PROVE  LockInv'
<1>1. \A d \in Ctx : /\ Inside(d)' <=> Inside(d)
                     /\ Inside(d) => wq'[d] = wq[d]
  BY DEF Others, Inside
<1>2. \A t \in Task : t # cur => pc'[t] = pc[t]
  BY Contexts DEF Others
<1>3. \A m \in Mtx : owner_locked'[m] <=> \E t \in Task : pc'[t] = "inherit" /\ wq'[t] = m
  BY OwnerLockFrame
<1> QED
  BY <1>1, <1>2, <1>3 DEF LockInv

\* A step that takes a free lock.
LEMMA LockEnter ==
    ASSUME Types, LockInv, NEW c \in Ctx, Others(c), UNCHANGED <<cur, owner_locked>>,
           wq[c] \in WQ, ~locked[wq[c]], locked' = [locked EXCEPT ![wq[c]] = TRUE],
           ~Inside(c), Inside(c)', wq'[c] = wq[c], c \in Task => c = cur, pc[c] # "inherit"
    PROVE  LockInv'
<1>1. \A d \in Ctx : d # c => (Inside(d)' <=> Inside(d)) /\ wq'[d] = wq[d]
  BY DEF Others, Inside
<1>2. \A d \in Ctx : Inside(d) => wq[d] # wq[c]
  BY DEF LockInv
<1>3. \A t \in Task : t # cur => pc'[t] = pc[t]
  BY Contexts DEF Others
<1>4. \A q \in WQ : locked'[q] <=> \E d \in Ctx : Inside(d)' /\ wq'[d] = q
  <2>1. ASSUME NEW q \in WQ, q # wq[c]
        PROVE  locked'[q] <=> \E d \in Ctx : Inside(d)' /\ wq'[d] = q
    <3>1. locked'[q] = locked[q]
      BY <2>1 DEF Types
    <3> QED
      BY <1>1, <2>1, <3>1 DEF LockInv
  <2>2. locked'[wq[c]]
    BY DEF Types
  <2> QED
    BY <2>1, <2>2
<1>5. \A m \in Mtx : owner_locked'[m] <=> \E t \in Task : pc'[t] = "inherit" /\ wq'[t] = m
  BY OwnerLockFrame DEF Inside
<1> QED
  BY <1>1, <1>2, <1>3, <1>4, <1>5 DEF LockInv

\* A step that leaves the lock it holds.
LEMMA LockLeave ==
    ASSUME Types, LockInv, NEW c \in Ctx, Others(c), UNCHANGED <<cur, owner_locked>>,
           wq[c] \in WQ, locked' = [locked EXCEPT ![wq[c]] = FALSE],
           Inside(c), ~Inside(c)', c \in Task => c = cur, pc'[c] # "inherit"
    PROVE  LockInv'
<1>1. \A d \in Ctx : d # c => (Inside(d)' <=> Inside(d)) /\ wq'[d] = wq[d]
  BY DEF Others, Inside
<1>2. \A d \in Ctx : Inside(d) /\ wq[d] = wq[c] => d = c
  BY DEF LockInv
<1>3. \A t \in Task : t # cur => pc'[t] = pc[t]
  BY Contexts DEF Others
<1>4. \A q \in WQ : locked'[q] <=> \E d \in Ctx : Inside(d)' /\ wq'[d] = q
  <2>1. ASSUME NEW q \in WQ, q # wq[c]
        PROVE  locked'[q] <=> \E d \in Ctx : Inside(d)' /\ wq'[d] = q
    <3>1. locked'[q] = locked[q]
      BY <2>1 DEF Types
    <3> QED
      BY <1>1, <2>1, <3>1 DEF LockInv
  <2>2. ~locked'[wq[c]] /\ ~\E d \in Ctx : Inside(d)' /\ wq'[d] = wq[c]
    BY <1>1, <1>2 DEF Types
  <2> QED
    BY <2>1, <2>2
<1>5. \A m \in Mtx : owner_locked'[m] <=> \E t \in Task : pc'[t] = "inherit" /\ wq'[t] = m
  BY OwnerLockFrame DEF Inside
<1> QED
  BY <1>1, <1>2, <1>3, <1>4, <1>5 DEF LockInv

\* A step that takes or gives back the lock of an owner field.
LEMMA OwnerLockStep ==
    ASSUME Types, ControlInv, LockInv, NEW t \in Task, contend(t) \/ inherit(t)
    PROVE  LockInv'
<1>0. t \in Ctx /\ Running(t) /\ t = cur
  BY Contexts, RunningTask DEF contend, inherit, At
<1>1. wq[t] \in Mtx /\ UNCHANGED <<cur, locked>>
  BY <1>0 DEF contend, inherit, At, ControlInv, ControlOf, Locking, queues
<1>2. /\ Others(t) /\ ~Inside(t) /\ ~Inside(t)'
  <2>1. pc[t] = "contend" => ~owner_locked[wq[t]]
    BY <1>0, <1>1, TaskFindsUnlocked
  <2> QED
    BY <2>1, TaskLocals DEF Became, Inside, contend, inherit, At
<1>3. \A d \in Ctx : (Inside(d)' <=> Inside(d)) /\ (Inside(d) => wq'[d] = wq[d])
  BY <1>2 DEF Others, Inside
<1>4. \A u \in Task : u # cur => pc'[u] = pc[u] /\ wq'[u] = wq[u] /\ pc[u] # "inherit"
  BY <1>0, <1>2, Contexts DEF Others, LockInv, MutexSuspended
<1>5. \A m \in Mtx : owner_locked'[m] <=> \E u \in Task : pc'[u] = "inherit" /\ wq'[u] = m
  <2>1. CASE contend(t)
    <3>1. \A m \in Mtx : ~owner_locked[m]
      BY <1>0, <2>1, TaskFindsUnlocked DEF contend, At
    <3>2. pc'[t] = "inherit" /\ wq'[t] = wq[t]
      BY <1>1, <2>1, <3>1, TaskLocals DEF Became
    <3>3. owner_locked' = [owner_locked EXCEPT ![wq[t]] = TRUE]
      BY <2>1 DEF contend
    <3> QED
      BY <1>0, <1>1, <1>4, <3>1, <3>2, <3>3 DEF Types
  <2>2. CASE inherit(t)
    <3>1. pc[t] = "inherit" /\ pc'[t] = "wait"
      BY <2>2, TaskLocals DEF Became, inherit, At
    <3>2. owner_locked' = [owner_locked EXCEPT ![wq[t]] = FALSE]
      BY <2>2 DEF inherit
    <3>3. \A m \in Mtx : owner_locked[m] => m = wq[t]
      BY <1>0, <1>4 DEF LockInv
    <3> QED
      BY <1>0, <1>1, <1>4, <3>1, <3>2, <3>3 DEF Types
  <2> QED
    BY <2>1, <2>2
<1> QED
  BY <1>0, <1>1, <1>3, <1>4, <1>5 DEF LockInv

\* Every step keeps one holder per lock.
LEMMA LockStep ==
    ASSUME Types, ControlInv, MonitorInv, LockInv, Next PROVE LockInv'
<1>1. ASSUME Switch PROVE LockInv'
  <2>1. /\ UNCHANGED <<wq, locked, owner_locked>>
        /\ cur # Idle => pc[cur] \notin SuspendedSteps \union MutexSuspended
    BY <1>1, SwitchLocals
  <2>2. \A c \in Ctx : /\ Inside(c)' <=> Inside(c)
                       /\ pc'[c] = "inherit" <=> pc[c] = "inherit"
    BY <1>1, SwitchLocals DEF Inside
  <2>3. \A t \in Task : t \in Ctx /\ t # Idle
    BY Contexts DEF NoOne
  <2>4. \A t \in Task : pc[t] \notin SuspendedSteps \union MutexSuspended
    BY <2>1, <2>3 DEF LockInv
  <2>5. \A t \in Task : pc'[t] \notin SuspendedSteps \union MutexSuspended
    BY <1>1, <2>3, <2>4, SwitchLocals DEF SuspendedSteps, MutexSuspended
  <2> QED
    BY <2>1, <2>2, <2>3, <2>5 DEF LockInv
<1>2. ASSUME NEW c \in Ctx, Moves(c) PROVE LockInv'
  <2>0. ControlOf(c) /\ (c \in Task \/ c \in Irq) /\ (c \in Task => c \notin Irq)
    BY Contexts DEF ControlInv
  <2>1. CASE QueueStep(c)
    <3>0. owner_locked' = owner_locked
      BY <2>1 DEF QueueStep, mutexes
    <3>1. CASE notify_guard(c)
      <4>1. Became(c, IF locked[wq[c]] THEN "pend" ELSE "pop", wq[c], "home", monitor[c])
        BY <2>1, <3>1, QueueLocals
      <4>2. pc[c] = "notify" /\ (c \in Task => c = cur) /\ cur' = cur
            /\ locked' = [locked EXCEPT ![wq[c]] = TRUE]
        BY <3>1, RunningTask DEF notify_guard, At
      <4>3. wq[c] \in WQ
        BY <2>0, <4>2 DEF ControlOf, InQueueCode
      <4>4. CASE locked[wq[c]]
        <5>1. locked' = locked
          BY <4>2, <4>3, <4>4 DEF Types
        <5> QED
          BY <3>0, <4>1, <4>2, <4>4, <5>1, LockFrame DEF Became, Inside
      <4>5. CASE ~locked[wq[c]]
        BY <3>0, <4>1, <4>2, <4>3, <4>5, LockEnter DEF Became, Inside
      <4> QED
        BY <4>4, <4>5
    <3>2. CASE notify_full(c) \/ run_pended_op(c) \/ (c \in Task /\ wait_enqueue(c))
      <4>1. Became(c, "leave", wq[c], ret[c], monitor[c])
        BY <2>1, <3>2, QueueLocals
      <4>2. pc[c] \in {"pop", "leave", "enqueue"} /\ (c \in Task => c = cur) /\ UNCHANGED <<cur, locked>>
        BY <3>2, RunningTask DEF notify_full, run_pended_op, wait_enqueue, At
      <4> QED
        BY <3>0, <4>1, <4>2, LockFrame DEF Became, Inside
    <3>3. CASE notify_pend(c)
      <4>1. Became(c, "home", NoQueue, "home", monitor[c])
        BY <2>1, <3>3, QueueLocals
      <4>2. pc[c] = "pend" /\ (c \in Task => c = cur) /\ UNCHANGED <<cur, locked>>
        BY <3>3, RunningTask DEF notify_pend, At
      <4> QED
        BY <3>0, <4>1, <4>2, LockFrame DEF Became, Inside
    <3>4. CASE leave(c)
      <4>1. /\ pc[c] = "leave" /\ Inside(c) /\ (c \in Task => c = cur) /\ cur' = cur
            /\ locked' = [locked EXCEPT ![wq[c]] = FALSE]
        BY <3>4, RunningTask DEF leave, At, Inside
      <4>2. wq[c] \in WQ
        BY <2>0, <4>1 DEF ControlOf, InQueueCode
      <4>3. Others(c) /\ ~Inside(c)' /\ pc'[c] # "inherit"
        BY <2>0, <2>1, <3>4, <4>1, QueueLocals DEF Became, Inside, ControlOf
      <4> QED
        BY <3>0, <4>1, <4>2, <4>3, LockLeave
    <3>5. CASE c \in Task /\ wait_guard(c)
      <4>1. /\ pc[c] = "wait" /\ Running(c) /\ ~Inside(c) /\ c = cur /\ cur' = cur
            /\ locked' = [locked EXCEPT ![wq[c]] = TRUE]
        BY <3>5, RunningTask DEF wait_guard, At, Inside
      <4>2. wq[c] \in WQ /\ ~locked[wq[c]]
        BY <2>0, <3>5, <4>1, TaskFindsUnlocked DEF ControlOf, InQueueCode
      <4>3. Became(c, "cond", wq[c], ret[c], monitor[c])
        BY <2>1, <3>5, <4>2, QueueLocals
      <4> QED
        BY <3>0, <4>1, <4>2, <4>3, LockEnter DEF Became, Inside
    <3> QED
      BY <2>1, <3>1, <3>2, <3>3, <3>4, <3>5 DEF QueueStep, WaitQueueStep
  <2>2. CASE release(c)
    <3>1. Became(c, "notify", wq[c], ret[c], monitor[c]) /\ pc[c] = "release"
          /\ (c \in Task => c = cur) /\ UNCHANGED <<cur, locked, owner_locked>>
      BY <2>2, HandlerLocals, RunningTask DEF release, At, queues
    <3> QED
      BY <3>1, LockFrame DEF Became, Inside
  <2>3. CASE c \in Irq /\ (irq_drop(c) \/ IrqCall(c))
    <3>1. /\ Others(c) /\ UNCHANGED <<cur, locked, owner_locked>>
          /\ pc'[c] \in {"notify", "isr", "hang", "release"}
      BY <2>3, HandlerLocals DEF Became, IrqCall, irq_drop, irq_notify, irq_try_lock, queues, mutexes
    <3>2. pc[c] \in {"isr", "home"}
      BY <2>3, IrqAssumption
         DEF IrqCall, irq_drop, irq_notify, irq_try_lock, IrqAllowed, Arrives, Irq, At
    <3> QED
      BY <2>0, <2>3, <3>1, <3>2, LockFrame DEF Inside
  <2>4. CASE c \in Task /\ Call(c)
    <3>1. pc[c] = "home" /\ c = cur /\ UNCHANGED <<cur, locked, owner_locked>>
      BY <2>4, RunningTask
         DEF Call, lock, unlock, wait_until_with_lock, signal, change_intrinsic, At, queues, wqvars, mutexes
    <3>2. Others(c) /\ pc'[c] \in {"home", "try", "hang", "release", "wait", "notify"}
      BY <2>4, <3>1, CallLocals DEF Call, Became
    <3> QED
      BY <3>1, <3>2, LockFrame DEF Inside
  <2>5. CASE c \in Task /\ (contend(c) \/ inherit(c))
    BY <2>5, OwnerLockStep
  <2>6. CASE c \in Task /\ (try_lock(c) \/ relock(c) \/ wait_again(c))
    <3>1. /\ pc[c] \in {"try", "relock", "monitor"} /\ c = cur
          /\ UNCHANGED <<cur, locked, owner_locked>>
      BY <2>6, RunningTask DEF try_lock, relock, wait_again, At, queues, mutexes
    <3>2. Others(c) /\ pc'[c] \in {"home", "monitor", "contend", "try", "wait"}
      BY <2>6, TaskLocals DEF Became, Locked
    <3> QED
      BY <3>1, <3>2, LockFrame DEF Inside
  <2>7. CASE c \in Task /\ (lock_until(c) \/ predicate_met(c) \/ unlock_and_into_lock_ref(c))
    <3>1. /\ pc[c] = "cond" /\ c = cur /\ Running(c) /\ UNCHANGED <<cur, locked, owner_locked>>
      BY <2>7, RunningTask
         DEF lock_until, predicate_met, wait_condition, unlock_and_into_lock_ref, At, queues, mutexes
    <3>2. Others(c) /\ wq'[c] = wq[c] /\ pc'[c] \in {"leave", "enqueue"}
      <4>1. unlock_and_into_lock_ref(c) => ~owner_locked[MutexOf[wq[c]]]
        BY <2>7, <3>1, TaskFindsUnlocked, Queues DEF unlock_and_into_lock_ref
      <4> QED
        BY <2>7, <4>1, TaskLocals DEF Became
    <3> QED
      BY <3>1, <3>2, LockFrame DEF Inside
  <2> QED
    BY <1>2, <2>1, <2>2, <2>3, <2>4, <2>5, <2>6, <2>7 DEF Moves, TaskStep
<1> QED
  BY <1>1, <1>2, NextMoves

-----------------------------------------------------------------------------
(***************************************************************************)
(* The tasks in the queues.                                                *)
(***************************************************************************)
\* What taking n tasks out of a queue does.
LEMMA WakeEffect ==
    ASSUME Types, QueueInv, NEW q \in WQ, NEW n \in Nat, Wake(q, n)
    PROVE  LET ts == Popped(priority, queue[q], n) IN
           /\ \A p \in WQ : Distinct(queue'[p])
           /\ \A p \in WQ : \A t \in Task : Has(queue'[p], t) <=> Has(queue[p], t) /\ t \notin ts
           /\ \A t \in ts : t \in Task /\ Has(queue[q], t)
           /\ \A t \in Task : t \notin ts => state'[t] = state[t]
           /\ \A p \in WQ : p # q => queue'[p] = queue[p]
           /\ queue'[q] # <<>> /\ n > 0 => ts # {}
<1> DEFINE ts == Popped(priority, queue[q], n)
<1>1. queue[q] \in Seq(Task) /\ Distinct(queue[q]) /\ priority \in [Task -> Nat]
  BY LevelAssumption DEF Types, QueueInv
<1>2. /\ \A u \in ts : Has(queue[q], u)
      /\ IsFiniteSet(ts)
      /\ (\E u : Has(queue[q], u) /\ u \notin ts) => Cardinality(ts) = n
  BY <1>1, PoppedTasks
<1> HIDE DEF ts
<1>3. /\ Without(queue[q], ts) \in Seq(Task)
      /\ \A u : Has(Without(queue[q], ts), u) <=> Has(queue[q], u) /\ u \notin ts
      /\ Distinct(Without(queue[q], ts))
  BY <1>1, WithoutTasks
<1>4. /\ queue' = [queue EXCEPT ![q] = Without(queue[q], ts)]
      /\ state' = [t \in Task |-> IF t \in ts THEN "Ready" ELSE state[t]]
  BY DEF Wake, accept_task, ts
<1>5. queue'[q] = Without(queue[q], ts) /\ \A p \in WQ : p # q => queue'[p] = queue[p]
  BY <1>4 DEF Types
<1>6. \A u \in ts : u \in Task
  BY <1>1, <1>2, HasSomething
<1>7. \A p \in WQ : Distinct(queue'[p])
  BY <1>3, <1>5 DEF QueueInv
<1>8. ASSUME NEW p \in WQ, NEW t \in Task
      PROVE  Has(queue'[p], t) <=> Has(queue[p], t) /\ t \notin ts
  <2>1. CASE p = q
    BY <1>3, <1>5, <2>1
  <2>2. CASE p # q
    <3>1. ASSUME Has(queue[p], t) PROVE t \notin ts
      BY <1>2, <2>2, <3>1 DEF QueueInv, InPlace
    <3> QED
      BY <1>5, <2>2, <3>1
  <2> QED
    BY <2>1, <2>2
<1>9. \A t \in Task : t \notin ts => state'[t] = state[t]
  BY <1>4
<1>10. ASSUME queue'[q] # <<>>, n > 0 PROVE ts # {}
  <2>1. PICK u \in Task : Has(queue'[q], u)
    BY <1>3, <1>5, <1>10, HasSomething
  <2>2. Cardinality(ts) = n
    BY <1>2, <1>8, <2>1
  <2>3. Cardinality({}) = 0
    BY FS_EmptySet
  <2>4. ASSUME ts = {} PROVE FALSE
    <3>1. Cardinality(ts) = 0
      BY <2>3, <2>4
    <3> QED
      BY <1>10, <2>2, <3>1
  <2> QED
    BY <2>4
<1> QED
  BY <1>2, <1>5, <1>6, <1>7, <1>8, <1>9, <1>10 DEF ts

\* Who is not waiting is in no queue.
LEMMA NotQueued ==
    ASSUME QueueInv, NEW t \in Task,
           \/ pc[t] \notin {"leave", "yield", "yield_unlocked", "wait", "relock"}
           \/ pc[t] = "leave" /\ ret[t] \notin {"yield", "yield_unlocked"}
           \/ pc[t] \in {"wait", "relock"} /\ t = cur
    PROVE  \A q \in WQ : ~Has(queue[q], t)
  BY DEF QueueInv, InPlace, Waits

\* A step that leaves the queues alone.
LEMMA QueueFrame ==
    ASSUME QueueInv, NEW c \in Ctx, Others(c), UNCHANGED <<queue, state, cur>>,
           c \in Task => \A q \in WQ : Has(queue[q], c) => InPlace(c, q)'
    PROVE  QueueInv'
<1> SUFFICES ASSUME NEW q \in WQ, NEW t \in Task, Has(queue[q], t)
             PROVE  InPlace(t, q)'
  BY DEF QueueInv
<1>1. CASE t = c
  BY <1>1
<1>2. CASE t # c
  <2>1. /\ pc'[t] = pc[t] /\ wq'[t] = wq[t] /\ ret'[t] = ret[t]
        /\ state'[t] = state[t] /\ cur' = cur
    BY <1>2, Contexts DEF Others
  <2> QED
    BY <2>1 DEF QueueInv, InPlace, Waits, Unlocked, Asking
<1> QED
  BY <1>1, <1>2

\* A step that wakes tasks.
LEMMA QueueWoken ==
    ASSUME Types, QueueInv, NEW c \in Ctx, Others(c), UNCHANGED cur,
           NEW q \in WQ, NEW n \in Nat, Wake(q, n),
           c \in Task => \/ \A p \in WQ : ~Has(queue[p], c)
                         \/ pc'[c] = pc[c] /\ wq'[c] = wq[c] /\ ret'[c] = ret[c]
    PROVE  QueueInv'
<1> DEFINE ts == Popped(priority, queue[q], n)
<1>1. /\ \A p \in WQ : Distinct(queue'[p])
      /\ \A p \in WQ : \A t \in Task : Has(queue'[p], t) <=> Has(queue[p], t) /\ t \notin ts
      /\ \A t \in Task : t \notin ts => state'[t] = state[t]
  BY WakeEffect
<1> HIDE DEF ts
<1> SUFFICES ASSUME NEW p \in WQ, NEW t \in Task, Has(queue'[p], t)
             PROVE  InPlace(t, p)'
  BY <1>1 DEF QueueInv
<1>2. Has(queue[p], t) /\ state'[t] = state[t] /\ InPlace(t, p)
  BY <1>1 DEF QueueInv
<1>3. pc'[t] = pc[t] /\ wq'[t] = wq[t] /\ ret'[t] = ret[t] /\ cur' = cur
  BY <1>2, Contexts DEF Others
<1> QED
  BY <1>2, <1>3 DEF InPlace, Waits, Unlocked, Asking

\* Every step keeps the queues to blocked tasks that wait for them.
LEMMA QueueInvStep ==
    ASSUME Types, ControlInv, MonitorInv, LockInv, QueueInv, Next PROVE QueueInv'
<1>1. ASSUME Switch PROVE QueueInv'
  <2>1. UNCHANGED <<queue, wq, ret>>
    BY <1>1, SwitchLocals
  <2> SUFFICES ASSUME NEW q \in WQ, NEW t \in Task, Has(queue[q], t)
               PROVE  InPlace(t, q)'
    BY <2>1 DEF QueueInv
  <2>2. InPlace(t, q) /\ state[t] = "Blocked" /\ t \in Ctx /\ t # Idle
    BY Contexts DEF QueueInv, InPlace, Waits, NoOne
  <2>3. t # cur' /\ state'[t] = "Blocked"
    BY <1>1, <2>2, SwitchLocals
  <2>4. \/ pc'[t] = pc[t]
        \/ pc[t] = "yield" /\ pc'[t] = "wait"
        \/ pc[t] = "yield_unlocked" /\ pc'[t] = "relock"
    BY <1>1, <2>2, SwitchLocals
  <2> QED
    BY <2>1, <2>2, <2>3, <2>4 DEF InPlace, Waits, Unlocked, Asking, Locking
<1>2. ASSUME NEW c \in Ctx, Moves(c) PROVE QueueInv'
  <2>0. ControlOf(c)
    BY DEF ControlInv
  <2>1. CASE QueueStep(c)
    <3>1. CASE notify_guard(c) \/ notify_pend(c) \/ (c \in Task /\ wait_guard(c))
      <4>1. Others(c) /\ UNCHANGED <<queue, state, cur>>
        BY <2>1, <3>1, QueueLocals DEF Became, notify_guard, notify_pend, wait_guard
      <4>2. c \in Task => \A q \in WQ : ~Has(queue[q], c)
        <5>1. pc[c] \in {"notify", "pend"} \/ (pc[c] = "wait" /\ (c \in Task => c = cur))
          BY <3>1, RunningTask DEF notify_guard, notify_pend, wait_guard, At
        <5> QED
          BY <5>1, NotQueued
      <4> QED
        BY <4>1, <4>2, QueueFrame
    <3>2. CASE notify_full(c) \/ run_pended_op(c)
      <4>1. Became(c, "leave", wq[c], ret[c], monitor[c])
        BY <2>1, <3>2, QueueLocals
      <4>2. pc[c] \in {"pop", "leave"} /\ cur' = cur
        BY <3>2 DEF notify_full, run_pended_op, At
      <4>3. wq[c] \in WQ
        BY <2>0, <4>2 DEF ControlOf, InQueueCode
      <4>4. PICK n \in Nat : Wake(wq[c], n)
        BY <3>2, <4>3 DEF notify_full, run_pended_op, Types
      <4>5. c \in Task /\ pc[c] = "pop" => \A p \in WQ : ~Has(queue[p], c)
        BY NotQueued
      <4> QED
        BY <4>1, <4>2, <4>3, <4>4, <4>5, QueueWoken DEF Became
    <3>3. CASE leave(c)
      <4>1. pc[c] = "leave" /\ UNCHANGED <<queue, state, cur>>
        BY <3>3 DEF leave, At
      <4>2. CASE ret[c] \notin {"yield", "yield_unlocked"}
        <5>1. Others(c)
          BY <2>1, <3>3, QueueLocals DEF Became
        <5>2. c \in Task => \A q \in WQ : ~Has(queue[q], c)
          BY <4>1, <4>2, NotQueued
        <5> QED
          BY <4>1, <5>1, <5>2, QueueFrame
      <4>3. CASE ret[c] \in {"yield", "yield_unlocked"}
        <5>1. Became(c, ret[c], wq[c], "home", monitor[c])
          BY <2>1, <3>3, <4>3, QueueLocals
        <5>2. ASSUME c \in Task, NEW q \in WQ, Has(queue[q], c) PROVE InPlace(c, q)'
          <6>1. InPlace(c, q)
            BY <5>2 DEF QueueInv
          <6> QED
            BY <2>0, <4>1, <4>3, <5>1, <6>1, Queues
               DEF Became, InPlace, Waits, ControlOf, Unlocked, Asking, Locking
        <5> QED
          BY <4>1, <5>1, <5>2, QueueFrame DEF Became
      <4> QED
        BY <4>2, <4>3
    <3>4. CASE c \in Task /\ wait_enqueue(c)
      <4>1. Became(c, "leave", wq[c], ret[c], monitor[c])
        BY <2>1, <3>4, QueueLocals
      <4>2. /\ pc[c] = "enqueue" /\ cur' = cur /\ c \in Task
            /\ state' = [state EXCEPT ![c] = "Blocked"]
            /\ queue' = [queue EXCEPT ![wq[c]] = Append(@, c)]
        BY <3>4 DEF wait_enqueue, At
      <4>3. /\ wq[c] \in WQ
            /\ \/ ret[c] = "yield" /\ wq[c] \in Mtx /\ wq[c] \notin CV
               \/ ret[c] = "yield_unlocked" /\ wq[c] \in CV /\ wq[c] \notin Mtx
        BY <2>0, <4>2, Queues DEF ControlOf, InQueueCode
      <4>4. \A q \in WQ : ~Has(queue[q], c)
        BY <4>2, NotQueued
      <4>5. /\ queue'[wq[c]] = Append(queue[wq[c]], c)
            /\ \A q \in WQ : q # wq[c] => queue'[q] = queue[q]
        BY <4>2, <4>3 DEF Types
      <4>6. /\ \A u : Has(Append(queue[wq[c]], c), u) <=> Has(queue[wq[c]], u) \/ u = c
            /\ Distinct(Append(queue[wq[c]], c))
        BY <4>2, <4>3, <4>4, AppendTask DEF Types, QueueInv
      <4>7. state'[c] = "Blocked" /\ \A t \in Task : t # c => state'[t] = state[t]
        BY <4>2 DEF Types
      <4>8. \A q \in WQ : Distinct(queue'[q])
        BY <4>5, <4>6 DEF QueueInv
      <4> SUFFICES ASSUME NEW q \in WQ, NEW t \in Task, Has(queue'[q], t)
                   PROVE  InPlace(t, q)'
        BY <4>8 DEF QueueInv
      <4>9. CASE t = c
        <5>1. q = wq[c]
          BY <4>4, <4>5, <4>9
        <5> QED
          BY <4>1, <4>3, <4>7, <4>9, <5>1 DEF Became, InPlace, Waits, Unlocked, Asking
      <4>10. CASE t # c
        <5>1. InPlace(t, q)
          BY <4>5, <4>6, <4>10 DEF QueueInv
        <5>2. /\ pc'[t] = pc[t] /\ wq'[t] = wq[t] /\ ret'[t] = ret[t] /\ state'[t] = state[t]
          BY <4>1, <4>7, <4>10, Contexts DEF Became, Others
        <5> QED
          BY <4>2, <5>1, <5>2 DEF InPlace, Waits, Unlocked, Asking
      <4> QED
        BY <4>9, <4>10
    <3> QED
      BY <2>1, <3>1, <3>2, <3>3, <3>4 DEF QueueStep, WaitQueueStep
  <2>2. CASE release(c)
    <3>1. Others(c) /\ pc[c] = "release" /\ UNCHANGED <<queue, state, cur>>
      BY <2>2, HandlerLocals DEF Became, release, At, queues
    <3> QED
      BY <3>1, NotQueued, QueueFrame
  <2>3. CASE c \in Irq /\ (irq_drop(c) \/ IrqCall(c))
    <3>1. Others(c) /\ UNCHANGED <<queue, state, cur>>
      BY <2>3, HandlerLocals DEF Became, IrqCall, irq_drop, irq_notify, irq_try_lock, queues
    <3> QED
      BY <2>3, <3>1, Contexts, QueueFrame
  <2>4. CASE c \in Task /\ Call(c)
    <3>1. pc[c] = "home" /\ UNCHANGED <<queue, state, cur>>
      BY <2>4
         DEF Call, lock, unlock, wait_until_with_lock, signal, change_intrinsic, At, queues, wqvars
    <3>2. Others(c)
      BY <2>4, CallLocals DEF Call, Became
    <3> QED
      BY <2>4, <3>1, <3>2, NotQueued, QueueFrame
  <2>5. CASE c \in Task /\ unlock_and_into_lock_ref(c)
    <3>1. /\ pc[c] = "cond" /\ wq[c] \in CV /\ cur' = cur /\ Wake(MutexOf[wq[c]], 1)
      BY <2>5 DEF unlock_and_into_lock_ref, At
    <3>2. Others(c)
      BY <2>5, TaskLocals DEF Became
    <3>3. MutexOf[wq[c]] \in WQ /\ \A p \in WQ : ~Has(queue[p], c)
      BY <2>5, <3>1, NotQueued, Queues
    <3> QED
      BY <3>1, <3>2, <3>3, QueueWoken
  <2>6. CASE c \in Task /\ TaskStep(c) /\ ~unlock_and_into_lock_ref(c)
    <3>1. /\ pc[c] \in {"try", "contend", "inherit", "cond", "relock", "monitor"}
          /\ UNCHANGED <<queue, state, cur>> /\ (c \in Task => c = cur)
      BY <2>6, RunningTask
         DEF TaskStep, try_lock, contend, inherit, lock_until, predicate_met, wait_condition,
             relock, wait_again, At, queues
    <3>2. Others(c)
      BY <2>6, TaskLocals DEF Became, TaskStep
    <3> QED
      BY <2>6, <3>1, <3>2, NotQueued, QueueFrame
  <2> QED
    BY <1>2, <2>1, <2>2, <2>3, <2>4, <2>5, <2>6 DEF Moves
<1> QED
  BY <1>1, <1>2, NextMoves

-----------------------------------------------------------------------------
(***************************************************************************)
(* Owners.                                                                 *)
(***************************************************************************)
\* Guards and owners change as little as the contexts that release one.
LEMMA OwnerFrame ==
    ASSUME OwnerInv, NEW c \in Ctx, Others(c), UNCHANGED <<guard, owner>>,
           pc[c] # "release", pc'[c] \in {"release", "isr"} => pc[c] = "isr" /\ c \in Irq,
           pc'[c] \in {"release", "isr"} => wq'[c] = wq[c]
    PROVE  OwnerInv'
<1>1. \A d \in Ctx : d # c => pc'[d] = pc[d] /\ wq'[d] = wq[d]
  BY DEF Others
<1>2. \A d \in Ctx : pc'[d] \in {"release", "isr"} => guard[wq'[d]] = d /\ owner[wq'[d]] = NoOne
  BY <1>1 DEF OwnerInv
<1>3. ASSUME NEW m \in Mtx, guard[m] \in Task, owner[m] = NoOne
      PROVE  pc'[guard[m]] = "release" /\ wq'[guard[m]] = m
  <2>1. pc[guard[m]] = "release" /\ wq[guard[m]] = m
    BY <1>3 DEF OwnerInv
  <2> QED
    BY <1>1, <1>3, <2>1, Contexts
<1> QED
  BY <1>2, <1>3 DEF OwnerInv

\* A step that takes a free mutex, or records or forgets an owner, touches that
\* mutex only.
LEMMA OwnerChange ==
    ASSUME OwnerInv, NEW c \in Ctx, Others(c), NEW m \in Mtx,
           guard[m] \in {NoOne, c},
           \A k \in Mtx : k # m => guard'[k] = guard[k] /\ owner'[k] = owner[k],
           owner'[m] # NoOne => guard'[m] = owner'[m],
           guard'[m] \in Task /\ owner'[m] = NoOne =>
              guard'[m] = c /\ pc'[c] = "release" /\ wq'[c] = m,
           pc[c] = "release" => wq[c] = m,
           pc'[c] \in {"release", "isr"} => wq'[c] = m /\ guard'[m] = c /\ owner'[m] = NoOne,
           \A d \in Ctx : pc[d] \in {"release", "isr"} => wq[d] \in Mtx
    PROVE  OwnerInv'
<1>1. \A d \in Ctx : d # c => pc'[d] = pc[d] /\ wq'[d] = wq[d]
  BY DEF Others
<1>2. \A d \in Ctx : d # c /\ pc[d] \in {"release", "isr"} => wq[d] # m
  BY Contexts DEF OwnerInv
<1>3. \A d \in Ctx : pc'[d] \in {"release", "isr"} => guard'[wq'[d]] = d /\ owner'[wq'[d]] = NoOne
  BY <1>1, <1>2 DEF OwnerInv
<1>4. ASSUME NEW k \in Mtx PROVE owner'[k] # NoOne => guard'[k] = owner'[k]
  BY DEF OwnerInv
<1>5. ASSUME NEW k \in Mtx, guard'[k] \in Task, owner'[k] = NoOne
      PROVE  pc'[guard'[k]] = "release" /\ wq'[guard'[k]] = k
  <2>1. CASE k = m
    BY <1>5, <2>1
  <2>2. CASE k # m
    <3>1. guard'[k] = guard[k] /\ owner[k] = NoOne
      BY <1>5, <2>2
    <3>2. pc[guard[k]] = "release" /\ wq[guard[k]] = k
      BY <1>5, <3>1 DEF OwnerInv
    <3>3. guard[k] # c
      BY <2>2, <3>2
    <3> QED
      BY <1>1, <1>5, <3>1, <3>2, <3>3, Contexts
  <2> QED
    BY <2>1, <2>2
<1> QED
  BY <1>3, <1>4, <1>5 DEF OwnerInv

\* A task that goes to wait for a false predicate owns the mutex it gives up.
LEMMA GivesUpOwn ==
    ASSUME Types, MonitorInv, OwnerInv, NEW t \in Task, unlock_and_into_lock_ref(t)
    PROVE  /\ MutexOf[wq[t]] \in Mtx /\ guard[MutexOf[wq[t]]] = t /\ owner[MutexOf[wq[t]]] = t
           /\ wq[t] \in CV /\ monitor[t] = wq[t] /\ pc[t] = "cond"
<1>1. pc[t] = "cond" /\ wq[t] \in CV
  BY DEF unlock_and_into_lock_ref, At
<1>2. monitor[t] = wq[t] /\ guard[MutexOf[wq[t]]] = t
  BY <1>1 DEF MonitorInv, MonitorOf, Looks
<1>3. MutexOf[wq[t]] \in Mtx
  BY <1>1, Queues
<1>4. owner[MutexOf[wq[t]]] # NoOne
  BY <1>1, <1>2, <1>3 DEF OwnerInv
<1> QED
  BY <1>1, <1>2, <1>3, <1>4 DEF OwnerInv

\* A task at home owns the mutexes whose guards it has.
LEMMA OwnsAtHome ==
    ASSUME OwnerInv, NEW t \in Task, pc[t] = "home", NEW m \in Mtx, guard[m] = t
    PROVE  owner[m] = t
<1>1. owner[m] # NoOne
  BY DEF OwnerInv
<1> QED
  BY <1>1 DEF OwnerInv

\* Every step keeps the owner fields true.
LEMMA OwnerStep ==
    ASSUME Types, ControlInv, MonitorInv, LockInv, OwnerInv, Next PROVE OwnerInv'
<1>1. ASSUME Switch PROVE OwnerInv'
  <2>1. UNCHANGED <<guard, owner, wq>>
    BY <1>1, SwitchLocals
  <2>2. \A c \in Ctx : /\ pc'[c] = "release" <=> pc[c] = "release"
                       /\ pc'[c] = "isr" <=> pc[c] = "isr"
    BY <1>1, SwitchLocals
  <2> QED
    BY <2>1, <2>2, Contexts DEF OwnerInv
<1>2. ASSUME NEW c \in Ctx, Moves(c) PROVE OwnerInv'
  <2>0. /\ ControlOf(c) /\ (c \in Task => c \notin Irq) /\ c # NoOne
        /\ \A d \in Ctx : pc[d] \in {"release", "isr"} => wq[d] \in Mtx
    BY Contexts DEF ControlInv, ControlOf
  <2>1. CASE QueueStep(c)
    <3>1. UNCHANGED <<guard, owner>>
      BY <2>1 DEF QueueStep, mutexes
    <3>2. Others(c) /\ pc[c] # "release" /\ pc'[c] \notin {"release", "isr"}
      <4>1. pc[c] \in {"notify", "pop", "pend", "leave", "wait", "enqueue"}
        BY <2>1 DEF QueueStep, WaitQueueStep, notify_guard, notify_full, notify_pend, run_pended_op,
                    leave, wait_guard, wait_enqueue, At
      <4>2. pc[c] = "leave" => ret[c] \in {"home", "yield", "yield_unlocked", "monitor"}
        BY <2>0 DEF ControlOf
      <4>3. leave(c) => pc[c] = "leave"
        BY DEF leave, At
      <4> QED
        BY <2>1, <4>1, <4>2, <4>3, QueueLocals DEF Became, QueueStep, WaitQueueStep
    <3> QED
      BY <3>1, <3>2, OwnerFrame
  <2>2. CASE release(c)
    <3>1. /\ Became(c, "notify", wq[c], ret[c], monitor[c]) /\ pc[c] = "release"
          /\ guard' = [guard EXCEPT ![wq[c]] = NoOne] /\ owner' = owner
      BY <2>2, HandlerLocals DEF release, At
    <3>2. wq[c] \in Mtx /\ guard[wq[c]] = c /\ owner[wq[c]] = NoOne
      BY <2>0, <3>1 DEF OwnerInv
    <3>3. guard'[wq[c]] = NoOne /\ \A k \in Mtx : k # wq[c] => guard'[k] = guard[k]
      BY <3>1, <3>2 DEF Types
    <3>4. pc'[c] = "notify" /\ Others(c)
      BY <3>1 DEF Became
    <3> QED
      BY <2>0, <3>1, <3>2, <3>3, <3>4, Contexts, OwnerChange
  <2>3. CASE c \in Irq /\ irq_drop(c)
    <3>1. /\ Others(c) /\ pc[c] = "isr" /\ wq'[c] = wq[c] /\ UNCHANGED <<guard, owner>>
      BY <2>3, HandlerLocals DEF Became, irq_drop, At, mutexes
    <3> QED
      BY <2>3, <3>1, OwnerFrame
  <2>4. CASE c \in Irq /\ IrqCall(c)
    <3>1. pc[c] = "home"
      BY <2>4, IrqAssumption DEF IrqCall, irq_notify, irq_try_lock, IrqAllowed, Arrives, Irq
    <3>2. ASSUME NEW v \in CV, irq_notify(c, v) PROVE OwnerInv'
      <4>1. Others(c) /\ pc'[c] = "notify" /\ UNCHANGED <<guard, owner>>
        BY <3>2, HandlerLocals DEF Became, irq_notify, mutexes
      <4> QED
        BY <3>1, <4>1, OwnerFrame
    <3>3. ASSUME NEW m \in Mtx, irq_try_lock(c, m) PROVE OwnerInv'
      <4>1. /\ Others(c) /\ pc'[c] = "isr" /\ wq'[c] = m /\ guard[m] = NoOne
            /\ guard' = [guard EXCEPT ![m] = c] /\ owner' = owner
        BY <3>3, HandlerLocals DEF Became, irq_try_lock
      <4>2. guard'[m] = c /\ \A k \in Mtx : k # m => guard'[k] = guard[k]
        BY <4>1 DEF Types
      <4>3. owner[m] = NoOne
        BY <4>1 DEF OwnerInv
      <4> QED
        BY <2>0, <2>4, <3>1, <4>1, <4>2, <4>3, OwnerChange
    <3> QED
      BY <2>4, <3>2, <3>3 DEF IrqCall
  <2>5. CASE c \in Task /\ Call(c)
    <3>1. pc[c] = "home" /\ Running(c)
      BY <2>5 DEF Call, lock, unlock, wait_until_with_lock, signal, change_intrinsic, At
    <3>2. ASSUME NEW m \in Mtx, unlock(c, m) PROVE OwnerInv'
      <4>1. guard[m] = c /\ ~owner_locked[m]
        BY <2>5, <3>1, <3>2, TaskFindsUnlocked DEF unlock
      <4>2. /\ Others(c) /\ pc'[c] = "release" /\ wq'[c] = m
            /\ owner' = [owner EXCEPT ![m] = NoOne] /\ guard' = guard
        BY <2>5, <3>2, <4>1, CallLocals DEF Became, unlock
      <4>3. owner'[m] = NoOne /\ \A k \in Mtx : k # m => owner'[k] = owner[k]
        BY <4>2 DEF Types
      <4> QED
        BY <2>0, <3>1, <4>1, <4>2, <4>3, OwnerChange
    <3>3. CASE ~\E m \in Mtx : unlock(c, m)
      <4>1. UNCHANGED <<guard, owner>>
        BY <2>5, <3>3 DEF Call, lock, wait_until_with_lock, signal, change_intrinsic, mutexes
      <4>2. Others(c) /\ pc'[c] \notin {"release", "isr"}
        BY <2>5, <3>1, <3>3, CallLocals DEF Call, Became
      <4> QED
        BY <3>1, <4>1, <4>2, OwnerFrame
    <3> QED
      BY <3>2, <3>3
  <2>6. CASE c \in Task /\ (try_lock(c) \/ lock_until(c)) /\ guard[wq[c]] = NoOne
    <3>1. pc[c] \in {"try", "cond"} /\ wq[c] \in Mtx
      BY <2>0, <2>6 DEF try_lock, lock_until, wait_condition, At, ControlOf, Locking
    <3>2. /\ guard' = [guard EXCEPT ![wq[c]] = c] /\ owner' = [owner EXCEPT ![wq[c]] = c]
      BY <2>6 DEF try_lock, lock_until, Acquire
    <3>3. Others(c) /\ pc'[c] \in {"home", "monitor", "leave"}
      BY <2>6, TaskLocals DEF Became, Locked
    <3>4. /\ guard'[wq[c]] = c /\ owner'[wq[c]] = c
          /\ \A k \in Mtx : k # wq[c] => guard'[k] = guard[k] /\ owner'[k] = owner[k]
      BY <3>1, <3>2 DEF Types
    <3> QED
      BY <2>0, <2>6, <3>1, <3>3, <3>4, OwnerChange
  <2>7. CASE c \in Task /\ unlock_and_into_lock_ref(c)
    <3> DEFINE m == MutexOf[wq[c]]
    <3>1. m \in Mtx /\ guard[m] = c /\ pc[c] = "cond"
      BY <2>7, GivesUpOwn
    <3>2. guard' = [guard EXCEPT ![m] = NoOne] /\ owner' = [owner EXCEPT ![m] = NoOne]
      BY <2>7 DEF unlock_and_into_lock_ref
    <3>3. Others(c) /\ pc'[c] \in {"hang", "enqueue"}
      BY <2>7, TaskLocals DEF Became
    <3> HIDE DEF m
    <3>4. /\ guard'[m] = NoOne /\ owner'[m] = NoOne
          /\ \A k \in Mtx : k # m => guard'[k] = guard[k] /\ owner'[k] = owner[k]
      BY <3>1, <3>2 DEF Types
    <3> QED
      BY <2>0, <3>1, <3>3, <3>4, Contexts, OwnerChange
  <2>8. CASE /\ c \in Task /\ TaskStep(c) /\ ~unlock_and_into_lock_ref(c)
             /\ ~((try_lock(c) \/ lock_until(c)) /\ guard[wq[c]] = NoOne)
    <3>1. /\ pc[c] \in {"try", "contend", "inherit", "cond", "relock", "monitor"}
          /\ UNCHANGED <<guard, owner>>
      BY <2>8
         DEF TaskStep, try_lock, contend, inherit, lock_until, predicate_met, wait_condition,
             relock, wait_again, At, mutexes
    <3>2. Others(c) /\ pc'[c] \notin {"release", "isr"}
      BY <2>8, TaskLocals DEF Became, TaskStep
    <3> QED
      BY <3>1, <3>2, OwnerFrame
  <2> QED
    BY <1>2, <2>1, <2>2, <2>3, <2>4, <2>5, <2>6, <2>7, <2>8 DEF Moves, TaskStep
<1> QED
  BY <1>1, <1>2, NextMoves

-----------------------------------------------------------------------------
(***************************************************************************)
(* Priority inheritance.                                                   *)
(***************************************************************************)
\* Every step keeps the boosts to the owners.
LEMMA InheritStep ==
    ASSUME Types, ControlInv, MonitorInv, LockInv, OwnerInv, InheritsWhileOwner, Next
    PROVE  InheritsWhileOwner'
<1>0. \A t \in Task : priority[t] \in Nat /\ intrinsic[t] \in Nat
  BY LevelAssumption DEF Types
<1>1. ASSUME UNCHANGED <<priority, intrinsic>>, \A m \in Mtx : owner[m] # NoOne => owner'[m] = owner[m]
      PROVE  InheritsWhileOwner'
  BY <1>1, Contexts DEF InheritsWhileOwner
<1>2. ASSUME Switch PROVE InheritsWhileOwner'
  BY <1>1, <1>2, SwitchLocals
<1>3. ASSUME NEW t \in Task, NEW m \in Mtx, owner[m] = t,
             priority' = [priority EXCEPT ![t] = intrinsic[t]],
             owner' = [owner EXCEPT ![m] = NoOne], intrinsic' = intrinsic
      PROVE  InheritsWhileOwner'
  <2> SUFFICES ASSUME NEW u \in Task, priority'[u] # intrinsic[u]
               PROVE  priority'[u] < intrinsic[u] /\ \E k \in Mtx : owner'[k] = u
    BY <1>3 DEF InheritsWhileOwner
  <2>1. u # t /\ priority'[u] = priority[u]
    BY <1>3 DEF Types
  <2>2. PICK k \in Mtx : owner[k] = u /\ priority[u] < intrinsic[u]
    BY <2>1 DEF InheritsWhileOwner
  <2>3. owner'[k] = u
    BY <1>3, <2>1, <2>2 DEF Types
  <2> QED
    BY <2>1, <2>2, <2>3
<1>4. ASSUME NEW c \in Ctx, Moves(c) PROVE InheritsWhileOwner'
  <2>0. ControlOf(c)
    BY DEF ControlInv
  <2>1. CASE QueueStep(c) \/ release(c) \/ (c \in Irq /\ (irq_drop(c) \/ IrqCall(c)))
    <3>1. UNCHANGED <<priority, intrinsic, owner>>
      BY <2>1 DEF QueueStep, release, irq_drop, IrqCall, irq_notify, irq_try_lock, mutexes
    <3> QED
      BY <1>1, <3>1
  <2>2. CASE c \in Task /\ Call(c)
    <3>1. pc[c] = "home" /\ Running(c)
      BY <2>2 DEF Call, lock, unlock, wait_until_with_lock, signal, change_intrinsic, At
    <3>2. ASSUME NEW m \in Mtx, unlock(c, m) PROVE InheritsWhileOwner'
      <4>1. owner[m] = c /\ ~owner_locked[m]
        BY <2>2, <3>1, <3>2, TaskFindsUnlocked, OwnsAtHome DEF unlock
      <4>2. /\ priority' = [priority EXCEPT ![c] = intrinsic[c]]
            /\ owner' = [owner EXCEPT ![m] = NoOne] /\ intrinsic' = intrinsic
        BY <3>2, <4>1 DEF unlock, restore_intrinsic_priority
      <4> QED
        BY <1>3, <2>2, <4>1, <4>2
    <3>3. ASSUME NEW p \in Level, change_intrinsic(c, p) PROVE InheritsWhileOwner'
      <4>1. /\ intrinsic' = [intrinsic EXCEPT ![c] = p] /\ owner' = owner
            /\ priority' = [priority EXCEPT ![c] = IF @ < intrinsic[c] /\ @ < p THEN @ ELSE p]
        BY <3>3 DEF change_intrinsic, mutexes
      <4> SUFFICES ASSUME NEW u \in Task, priority'[u] # intrinsic'[u]
                   PROVE  priority'[u] < intrinsic'[u] /\ \E k \in Mtx : owner[k] = u
        BY <4>1 DEF InheritsWhileOwner
      <4>2. CASE u = c
        <5>1. intrinsic'[c] = p /\ priority'[c] = IF priority[c] < intrinsic[c] /\ priority[c] < p
                                                    THEN priority[c] ELSE p
          BY <2>2, <4>1 DEF Types
        <5>2. priority[c] < intrinsic[c] /\ priority[c] < p /\ priority'[c] = priority[c]
          BY <4>2, <5>1
        <5>3. priority[c] # intrinsic[c]
          BY <1>0, <2>2, <5>2
        <5> QED
          BY <2>2, <4>2, <5>1, <5>2, <5>3 DEF InheritsWhileOwner
      <4>3. CASE u # c
        <5>1. intrinsic'[u] = intrinsic[u] /\ priority'[u] = priority[u]
          BY <4>1, <4>3 DEF Types
        <5> QED
          BY <5>1 DEF InheritsWhileOwner
      <4> QED
        BY <4>2, <4>3
    <3>4. CASE ~(\E m \in Mtx : unlock(c, m)) /\ ~(\E p \in Level : change_intrinsic(c, p))
      <4>1. UNCHANGED <<priority, intrinsic, owner>>
        BY <2>2, <3>4 DEF Call, lock, wait_until_with_lock, signal, mutexes
      <4> QED
        BY <1>1, <4>1
    <3> QED
      BY <3>2, <3>3, <3>4
  <2>3. CASE c \in Task /\ (try_lock(c) \/ lock_until(c)) /\ guard[wq[c]] = NoOne
    <3>1. wq[c] \in Mtx
      BY <2>0, <2>3 DEF try_lock, lock_until, At, ControlOf, Locking
    <3>2. owner' = [owner EXCEPT ![wq[c]] = c] /\ UNCHANGED <<priority, intrinsic>>
      BY <2>3 DEF try_lock, lock_until, Acquire
    <3>3. owner[wq[c]] = NoOne
      BY <2>3, <3>1 DEF OwnerInv
    <3>4. \A m \in Mtx : owner[m] # NoOne => owner'[m] = owner[m]
      BY <3>1, <3>2, <3>3 DEF Types
    <3> QED
      BY <1>1, <3>2, <3>4
  <2>4. CASE c \in Task /\ inherit(c)
    <3>1. CASE owner[wq[c]] = NoOne
      <4>1. UNCHANGED <<priority, intrinsic, owner>>
        BY <2>4, <3>1 DEF inherit
      <4> QED
        BY <1>1, <4>1
    <3>2. CASE owner[wq[c]] # NoOne
      <4> DEFINE o == owner[wq[c]]
      <4>1. /\ priority' = [priority EXCEPT ![o] = IF priority[c] < @ THEN priority[c] ELSE @]
            /\ UNCHANGED <<intrinsic, owner>>
        BY <2>4, <3>2 DEF inherit, ceil_priority_from
      <4>2. wq[c] \in Mtx
        BY <2>0, <2>4 DEF inherit, At, ControlOf, Locking
      <4>3. o \in Task
        BY <3>2, <4>2 DEF Types
      <4>4. \E k \in Mtx : owner[k] = o
        BY <4>2
      <4> HIDE DEF o
      <4> SUFFICES ASSUME NEW u \in Task, priority'[u] # intrinsic[u]
                   PROVE  priority'[u] < intrinsic[u] /\ \E k \in Mtx : owner[k] = u
        BY <4>1 DEF InheritsWhileOwner
      <4>5. CASE u = o
        <5>1. priority'[o] = IF priority[c] < priority[o] THEN priority[c] ELSE priority[o]
          BY <4>1, <4>3 DEF Types
        <5>2. priority[o] <= intrinsic[o]
          BY <1>0, <4>3 DEF InheritsWhileOwner
        <5>3. priority'[o] <= priority[o] /\ priority'[o] \in Nat
          BY <1>0, <2>4, <4>3, <5>1
        <5>4. priority'[o] < intrinsic[o]
          BY <1>0, <4>3, <4>5, <5>2, <5>3
        <5> QED
          BY <4>4, <4>5, <5>4
      <4>6. CASE u # o
        <5>1. priority'[u] = priority[u]
          BY <4>1, <4>6 DEF Types
        <5> QED
          BY <5>1 DEF InheritsWhileOwner
      <4> QED
        BY <4>5, <4>6
    <3> QED
      BY <3>1, <3>2
  <2>5. CASE c \in Task /\ unlock_and_into_lock_ref(c)
    <3>1. MutexOf[wq[c]] \in Mtx /\ owner[MutexOf[wq[c]]] = c
      BY <2>5, GivesUpOwn
    <3>2. /\ priority' = [priority EXCEPT ![c] = intrinsic[c]]
          /\ owner' = [owner EXCEPT ![MutexOf[wq[c]]] = NoOne] /\ intrinsic' = intrinsic
      BY <2>5, <3>1 DEF unlock_and_into_lock_ref, restore_intrinsic_priority
    <3> QED
      BY <1>3, <2>5, <3>1, <3>2
  <2>6. CASE /\ c \in Task /\ TaskStep(c) /\ ~unlock_and_into_lock_ref(c) /\ ~inherit(c)
             /\ ~((try_lock(c) \/ lock_until(c)) /\ guard[wq[c]] = NoOne)
    <3>1. UNCHANGED <<priority, intrinsic, owner>>
      BY <2>6
         DEF TaskStep, try_lock, contend, lock_until, predicate_met, relock, wait_again, mutexes
    <3> QED
      BY <1>1, <3>1
  <2> QED
    BY <1>4, <2>1, <2>2, <2>3, <2>4, <2>5, <2>6 DEF Moves, TaskStep
<1> QED
  BY <1>2, <1>4, NextMoves

-----------------------------------------------------------------------------
(***************************************************************************)
(* No lost wakeups.                                                        *)
(***************************************************************************)
Notifies(c, q) == wq[c] = q /\ pc[c] \in {"notify", "pop", "pend"}
Comes(t, m) == wq[t] = m /\ ~Has(queue[m], t) /\ Asking(t)
LooksAt(t, v) == monitor[t] = v /\ ~Has(queue[v], t) /\ ~(pc[t] = "enqueue" /\ wq[t] = v)

\* The witnesses of what backs a waiting task.
LEMMA Witnesses ==
    /\ \A q \in WQ : Announced(q) <=> notify_cnt[q] > 0 \/ \E c \in Ctx : Notifies(c, q)
    /\ \A m \in Mtx : Coming(m) <=> \E t \in Task : Comes(t, m)
    /\ \A v \in CV : Looking(v) <=> \E t \in Task : LooksAt(t, v)
  BY DEF Announced, Notifies, Coming, Comes, Looking, LooksAt

\* The same in the next state.
LEMMA WitnessesAfter ==
    /\ \A q \in WQ : Announced(q)' <=> notify_cnt'[q] > 0 \/ \E c \in Ctx : Notifies(c, q)'
    /\ \A m \in Mtx : Coming(m)' <=> \E t \in Task : Comes(t, m)'
    /\ \A v \in CV : Looking(v)' <=> \E t \in Task : LooksAt(t, v)'
  BY DEF Announced, Notifies, Coming, Comes, Looking, LooksAt

\* A step that leaves the queue of a mutex alone.
LEMMA MutexFrame ==
    ASSUME NEW c \in Ctx, Others(c), NEW m \in Mtx, MutexBacked(m), queue'[m] = queue[m],
           guard'[m] = NoOne => guard[m] = NoOne \/ Notifies(c, m)',
           guard'[m] = NoOne /\ pc'[c] = "enqueue" /\ wq'[c] = m => pc[c] = "enqueue" /\ wq[c] = m,
           notify_cnt[m] > 0 => notify_cnt'[m] > 0,
           Notifies(c, m) => Notifies(c, m)' \/ notify_cnt'[m] > 0,
           c \in Task /\ guard'[m] = NoOne /\ Comes(c, m) => wq'[c] = m /\ Asking(c)'
    PROVE  MutexBacked(m)'
<1> SUFFICES ASSUME SomeoneWaits(m)', guard'[m] = NoOne PROVE Announced(m)' \/ Coming(m)'
  BY DEF MutexBacked
<1>0. m \in WQ
  BY Queues
<1>1. CASE Notifies(c, m)'
  BY <1>0, <1>1, WitnessesAfter
<1>2. CASE ~Notifies(c, m)'
  <2>1. SomeoneWaits(m) /\ guard[m] = NoOne
    BY <1>2, Contexts DEF SomeoneWaits, Others
  <2>2. CASE notify_cnt[m] > 0
    BY <1>0, <2>2, WitnessesAfter
  <2>3. ASSUME NEW d \in Ctx, Notifies(d, m) PROVE Announced(m)'
    <3>1. Notifies(d, m)' \/ notify_cnt'[m] > 0
      BY <2>3 DEF Others, Notifies
    <3> QED
      BY <1>0, <3>1, WitnessesAfter
  <2>4. ASSUME NEW t \in Task, Comes(t, m) PROVE Coming(m)'
    <3>1. wq'[t] = m /\ Asking(t)' /\ ~Has(queue'[m], t)
      BY <2>4, Contexts DEF Others, Comes, Asking
    <3> QED
      BY <3>1 DEF Coming
  <2> QED
    BY <1>0, <2>1, <2>2, <2>3, <2>4, Witnesses DEF MutexBacked
<1> QED
  BY <1>1, <1>2

\* A step that leaves the queue of a condition variable alone.
LEMMA MonitorBackedFrame ==
    ASSUME NEW c \in Ctx, Others(c), NEW v \in CV, MonitorBacked(v), queue'[v] = queue[v],
           predicate'[v] => predicate[v] \/ Notifies(c, v)',
           predicate'[v] /\ pc'[c] = "enqueue" /\ wq'[c] = v => pc[c] = "enqueue" /\ wq[c] = v,
           notify_cnt[v] > 0 => notify_cnt'[v] > 0,
           Notifies(c, v) => Notifies(c, v)' \/ notify_cnt'[v] > 0,
           c \in Task /\ predicate'[v] /\ LooksAt(c, v) =>
              monitor'[c] = v /\ ~(pc'[c] = "enqueue" /\ wq'[c] = v)
    PROVE  MonitorBacked(v)'
<1> SUFFICES ASSUME SomeoneWaits(v)', predicate'[v] PROVE Announced(v)' \/ Looking(v)'
  BY DEF MonitorBacked
<1>0. v \in WQ
  BY Queues
<1>1. CASE Notifies(c, v)'
  BY <1>0, <1>1, WitnessesAfter
<1>2. CASE ~Notifies(c, v)'
  <2>1. SomeoneWaits(v) /\ predicate[v]
    BY <1>2, Contexts DEF SomeoneWaits, Others
  <2>2. CASE notify_cnt[v] > 0
    BY <1>0, <2>2, WitnessesAfter
  <2>3. ASSUME NEW d \in Ctx, Notifies(d, v) PROVE Announced(v)'
    <3>1. Notifies(d, v)' \/ notify_cnt'[v] > 0
      BY <2>3 DEF Others, Notifies
    <3> QED
      BY <1>0, <3>1, WitnessesAfter
  <2>4. ASSUME NEW t \in Task, LooksAt(t, v) PROVE Looking(v)'
    <3>1. monitor'[t] = v /\ ~(pc'[t] = "enqueue" /\ wq'[t] = v) /\ ~Has(queue'[v], t)
      BY <2>4, Contexts DEF Others, LooksAt
    <3> QED
      BY <3>1 DEF Looking
  <2> QED
    BY <1>0, <2>1, <2>2, <2>3, <2>4, Witnesses DEF MonitorBacked
<1> QED
  BY <1>1, <1>2

\* Both, for a step that leaves all queues, guards and predicates alone.
LEMMA BackedFrame ==
    ASSUME BackedInv, NEW c \in Ctx, Others(c), queue' = queue,
           UNCHANGED <<guard, predicate>>,
           pc'[c] # "enqueue",
           \A q \in WQ : notify_cnt[q] > 0 => notify_cnt'[q] > 0,
           \A q \in WQ : Notifies(c, q) => Notifies(c, q)' \/ notify_cnt'[q] > 0,
           c \in Task => /\ \A m \in Mtx : Comes(c, m) => wq'[c] = m /\ Asking(c)'
                         /\ monitor'[c] = monitor[c] \/ monitor[c] = NoQueue
    PROVE  BackedInv'
<1>1. ASSUME NEW m \in Mtx PROVE MutexBacked(m)'
  <2>1. MutexBacked(m) /\ m \in WQ
    BY Queues DEF BackedInv
  <2> QED
    BY <2>1, MutexFrame
<1>2. ASSUME NEW v \in CV PROVE MonitorBacked(v)'
  <2>1. MonitorBacked(v) /\ v \in WQ
    BY Queues DEF BackedInv
  <2>2. c \in Task /\ LooksAt(c, v) => monitor'[c] = v
    BY Queues DEF LooksAt
  <2> QED
    BY <2>1, <2>2, MonitorBackedFrame
<1> QED
  BY <1>1, <1>2 DEF BackedInv

\* Nobody else is inside a wait queue that somebody is inside of.
LEMMA NobodyEnqueues ==
    ASSUME LockInv, NEW c \in Ctx, Inside(c), pc[c] # "enqueue"
    PROVE  \A t \in Task : ~(pc[t] = "enqueue" /\ wq[t] = wq[c])
  BY Contexts DEF LockInv, Inside

\* Who has been woken tries again.
LEMMA WokenBacked ==
    ASSUME Types, MonitorInv, QueueInv, NEW c \in Ctx, Others(c),
           NEW q \in WQ, NEW n \in Nat, n > 0, Wake(q, n),
           c \in Task => \/ \A p \in WQ : ~Has(queue[p], c)
                         \/ /\ pc'[c] = pc[c] /\ wq'[c] = wq[c] /\ ret'[c] = ret[c]
                            /\ monitor'[c] = monitor[c],
           \A t \in Task : ~(pc'[t] = "enqueue" /\ wq'[t] = q),
           SomeoneWaits(q)'
    PROVE  /\ q \in Mtx => Coming(q)'
           /\ q \in CV => Looking(q)'
<1> DEFINE ts == Popped(priority, queue[q], n)
<1>1. queue'[q] # <<>>
  BY DEF SomeoneWaits
<1>2. /\ \A p \in WQ : \A t \in Task : Has(queue'[p], t) <=> Has(queue[p], t) /\ t \notin ts
      /\ \A t \in ts : t \in Task /\ Has(queue[q], t)
      /\ ts # {}
  BY <1>1, WakeEffect
<1> HIDE DEF ts
<1>3. PICK t \in ts : t \in Task /\ Has(queue[q], t) /\ ~Has(queue'[q], t)
  BY <1>2
<1>4. InPlace(t, q)
  BY <1>3 DEF QueueInv
<1>5. pc'[t] = pc[t] /\ wq'[t] = wq[t] /\ ret'[t] = ret[t] /\ monitor'[t] = monitor[t]
  BY <1>3, Contexts DEF Others
<1>6. ASSUME q \in Mtx PROVE Coming(q)'
  BY <1>3, <1>4, <1>5, <1>6 DEF Coming, InPlace, Asking
<1>7. ASSUME q \in CV PROVE Looking(q)'
  <2>1. monitor[t] = q
    BY <1>3, <1>4, <1>7 DEF InPlace, MonitorInv, MonitorOf
  <2> QED
    BY <1>3, <1>5, <2>1 DEF Looking
<1> QED
  BY <1>6, <1>7

\* Taking tasks out of the queue that a context is inside of.
LEMMA BackedWoken ==
    ASSUME Types, ControlInv, MonitorInv, LockInv, QueueInv, BackedInv,
           NEW c \in Ctx, Others(c), UNCHANGED <<guard, predicate>>,
           NEW n \in Nat, n > 0, Wake(wq[c], n), pc[c] \in {"pop", "leave"},
           pc'[c] = "leave", wq'[c] = wq[c], ret'[c] = ret[c], monitor'[c] = monitor[c],
           \A q \in WQ : q # wq[c] => notify_cnt'[q] = notify_cnt[q]
    PROVE  BackedInv'
<1>0. wq[c] \in WQ /\ Inside(c)
  BY DEF ControlInv, ControlOf, InQueueCode, Inside
<1>1. \A q \in WQ : q # wq[c] => queue'[q] = queue[q]
  BY <1>0, WakeEffect
<1>2. \A t \in Task : ~(pc'[t] = "enqueue" /\ wq'[t] = wq[c])
  <2>1. \A t \in Task : ~(pc[t] = "enqueue" /\ wq[t] = wq[c])
    BY <1>0, NobodyEnqueues
  <2> QED
    BY <2>1, Contexts DEF Others
<1>3. c \in Task => \/ \A p \in WQ : ~Has(queue[p], c)
                    \/ /\ pc'[c] = pc[c] /\ wq'[c] = wq[c] /\ ret'[c] = ret[c]
                       /\ monitor'[c] = monitor[c]
  <2>1. c \in Task /\ pc[c] = "pop" => \A p \in WQ : ~Has(queue[p], c)
    BY NotQueued
  <2> QED
    BY <2>1
<1>4. SomeoneWaits(wq[c])' => /\ wq[c] \in Mtx => Coming(wq[c])'
                              /\ wq[c] \in CV => Looking(wq[c])'
  <2> SUFFICES ASSUME NEW q \in WQ, q = wq[c], SomeoneWaits(q)'
               PROVE  (q \in Mtx => Coming(q)') /\ (q \in CV => Looking(q)')
    BY <1>0 DEF SomeoneWaits, Coming, Looking
  <2> QED
    BY <1>2, <1>3, WokenBacked
<1>5. ASSUME NEW m \in Mtx PROVE MutexBacked(m)'
  <2>0. m \in WQ /\ MutexBacked(m)
    BY Queues DEF BackedInv
  <2>1. CASE m = wq[c]
    BY <1>4, <2>1 DEF MutexBacked, SomeoneWaits, Coming
  <2>2. CASE m # wq[c]
    BY <1>1, <2>0, <2>2, MutexFrame DEF Notifies, Comes
  <2> QED
    BY <2>1, <2>2
<1>6. ASSUME NEW v \in CV PROVE MonitorBacked(v)'
  <2>0. v \in WQ /\ MonitorBacked(v)
    BY Queues DEF BackedInv
  <2>1. CASE v = wq[c]
    BY <1>4, <2>1 DEF MonitorBacked, SomeoneWaits, Looking
  <2>2. CASE v # wq[c]
    BY <1>1, <2>0, <2>2, MonitorBackedFrame DEF Notifies, LooksAt
  <2> QED
    BY <2>1, <2>2
<1> QED
  BY <1>5, <1>6 DEF BackedInv

\* Every step keeps somebody who announces or tries again.
LEMMA BackedStep ==
    ASSUME Types, ControlInv, MonitorInv, LockInv, QueueInv, OwnerInv, BackedInv, Next
    PROVE  BackedInv'
<1>1. ASSUME Switch PROVE BackedInv'
  <2>1. UNCHANGED <<queue, notify_cnt, wq, ret, guard, predicate, monitor>>
    BY <1>1, SwitchLocals
  <2>2. \A c \in Ctx : \/ pc'[c] = pc[c]
                       \/ pc[c] = "yield" /\ pc'[c] = "wait"
                       \/ pc[c] = "yield_unlocked" /\ pc'[c] = "relock"
    BY <1>1, SwitchLocals
  <2>3. \A q \in WQ : /\ SomeoneWaits(q)' => SomeoneWaits(q)
                      /\ Announced(q) => Announced(q)'
    BY <2>1, <2>2, Contexts DEF SomeoneWaits, Announced
  <2>4. \A t \in Task : Asking(t) => Asking(t)'
    BY <2>1, <2>2, Contexts DEF Asking, Locking
  <2>5. \A m \in Mtx : Coming(m) => Coming(m)'
    BY <2>1, <2>4 DEF Coming
  <2>6. \A v \in CV : Looking(v) => Looking(v)'
    BY <2>1, <2>2, Contexts DEF Looking
  <2> QED
    BY <2>1, <2>3, <2>5, <2>6, Queues DEF BackedInv, MutexBacked, MonitorBacked
<1>2. ASSUME NEW c \in Ctx, Moves(c) PROVE BackedInv'
  <2>0. ControlOf(c) /\ (c \in Task => c \notin Irq) /\ c # NoOne
    BY Contexts DEF ControlInv
  <2>1. CASE QueueStep(c)
    <3>0. UNCHANGED <<guard, predicate>>
      BY <2>1 DEF QueueStep, mutexes, data
    <3>1. CASE notify_guard(c)
      <4>1. /\ Became(c, IF locked[wq[c]] THEN "pend" ELSE "pop", wq[c], "home", monitor[c])
            /\ pc[c] = "notify" /\ UNCHANGED <<queue, notify_cnt>>
        BY <2>1, <3>1, QueueLocals DEF notify_guard, At
      <4> QED
        BY <3>0, <4>1, BackedFrame DEF Became, Notifies, Comes, Asking, Locking
    <3>2. CASE notify_pend(c)
      <4>1. /\ Became(c, "home", NoQueue, "home", monitor[c]) /\ pc[c] = "pend" /\ queue' = queue
            /\ notify_cnt' = [notify_cnt EXCEPT ![wq[c]] = @ + 1]
        BY <2>1, <3>2, QueueLocals DEF notify_pend, At
      <4>2. \A q \in WQ : /\ notify_cnt[q] > 0 => notify_cnt'[q] > 0
                          /\ wq[c] = q => notify_cnt'[q] > 0
        BY <4>1 DEF Types
      <4> QED
        BY <3>0, <4>1, <4>2, BackedFrame DEF Became, Notifies, Comes, Asking, Locking
    <3>3. CASE leave(c)
      <4>1. pc[c] = "leave" /\ UNCHANGED <<queue, notify_cnt>>
        BY <3>3 DEF leave, At
      <4>2. CASE ret[c] = "home"
        <5>1. Became(c, "home", NoQueue, "home", monitor[c])
          BY <2>1, <3>3, <4>2, QueueLocals
        <5> QED
          BY <3>0, <4>1, <4>2, <5>1, BackedFrame DEF Became, Notifies, Comes, Asking, Locking
      <4>3. CASE ret[c] # "home"
        <5>1. Became(c, ret[c], wq[c], "home", monitor[c])
          BY <2>1, <3>3, <4>3, QueueLocals
        <5>2. ret[c] \in {"yield", "yield_unlocked", "monitor"}
          BY <2>0, <4>3 DEF ControlOf
        <5> QED
          BY <3>0, <4>1, <5>1, <5>2, BackedFrame DEF Became, Notifies, Comes, Asking, Locking
      <4> QED
        BY <4>2, <4>3
    <3>4. CASE c \in Task /\ wait_guard(c)
      <4>1. pc[c] = "wait" /\ Running(c) /\ ~Inside(c) /\ UNCHANGED <<queue, notify_cnt>>
        BY <3>4 DEF wait_guard, At, Inside
      <4>2. ~locked[wq[c]]
        BY <2>0, <3>4, <4>1, TaskFindsUnlocked DEF ControlOf, InQueueCode
      <4>3. Became(c, "cond", wq[c], ret[c], monitor[c])
        BY <2>1, <3>4, <4>2, QueueLocals
      <4> QED
        BY <3>0, <4>1, <4>3, BackedFrame DEF Became, Notifies, Comes, Asking, Locking
    <3>5. CASE notify_full(c) \/ run_pended_op(c)
      <4>1. Became(c, "leave", wq[c], ret[c], monitor[c])
        BY <2>1, <3>5, QueueLocals
      <4>2. pc[c] \in {"pop", "leave"}
        BY <3>5 DEF notify_full, run_pended_op, At
      <4>3. wq[c] \in WQ
        BY <2>0, <4>2 DEF ControlOf, InQueueCode
      <4>4. PICK n \in Nat : Wake(wq[c], n) /\ n > 0
        BY <3>5, <4>3 DEF notify_full, run_pended_op, Types
      <4>5. \A q \in WQ : q # wq[c] => notify_cnt'[q] = notify_cnt[q]
        BY <3>5 DEF notify_full, run_pended_op, Types
      <4> QED
        BY <3>0, <4>1, <4>2, <4>4, <4>5, BackedWoken DEF Became
    <3>6. CASE c \in Task /\ wait_enqueue(c)
      <4>1. Became(c, "leave", wq[c], ret[c], monitor[c])
        BY <2>1, <3>6, QueueLocals
      <4>2. /\ pc[c] = "enqueue" /\ notify_cnt' = notify_cnt
            /\ queue' = [queue EXCEPT ![wq[c]] = Append(@, c)]
        BY <3>6 DEF wait_enqueue, At
      <4>3. wq[c] \in WQ
        BY <2>0, <4>2 DEF ControlOf, InQueueCode
      <4>4. \A q \in WQ : /\ q # wq[c] => queue'[q] = queue[q]
                          /\ \A t \in Task : t # c => (Has(queue'[q], t) <=> Has(queue[q], t))
        <5>1. \A u : Has(Append(queue[wq[c]], c), u) <=> Has(queue[wq[c]], u) \/ u = c
          BY <3>6, <4>3, AppendTask DEF Types
        <5>2. \A q \in WQ : queue'[q] = IF q = wq[c] THEN Append(queue[wq[c]], c) ELSE queue[q]
          BY <4>2 DEF Types
        <5> QED
          BY <5>1, <5>2
      <4>5. \A q \in WQ : SomeoneWaits(q)' => SomeoneWaits(q)
        BY <3>6, <4>1, <4>2, <4>4, Contexts DEF SomeoneWaits, Became, Others
      <4>6. \A q \in WQ : Announced(q) => Announced(q)'
        BY <4>1, <4>2 DEF Announced, Became, Others
      <4>7. \A m \in Mtx : Coming(m) => Coming(m)'
        <5>1. \A m \in Mtx : ~Comes(c, m)
          BY <4>2 DEF Comes, Asking, Locking
        <5>2. \A m \in Mtx : \A t \in Task : t # c /\ Comes(t, m) => Comes(t, m)'
          BY <4>1, <4>4, Contexts, Queues DEF Comes, Asking, Became, Others
        <5> QED
          BY <5>1, <5>2, Witnesses, WitnessesAfter
      <4>8. \A v \in CV : Looking(v) => Looking(v)'
        <5>1. ASSUME NEW v \in CV, LooksAt(c, v) PROVE Looking(v)'
          <6>1. v # wq[c] /\ v \in WQ
            BY <4>2, <5>1, Queues DEF LooksAt
          <6>2. LooksAt(c, v)'
            BY <4>1, <4>4, <5>1, <6>1 DEF LooksAt, Became
          <6> QED
            BY <3>6, <6>2, WitnessesAfter
        <5>2. \A v \in CV : \A t \in Task : t # c /\ LooksAt(t, v) => LooksAt(t, v)'
          BY <4>1, <4>4, Contexts, Queues DEF LooksAt, Became, Others
        <5> QED
          BY <5>1, <5>2, Witnesses, WitnessesAfter
      <4> QED
        BY <3>0, <4>5, <4>6, <4>7, <4>8, Queues DEF BackedInv, MutexBacked, MonitorBacked
    <3> QED
      BY <2>1, <3>1, <3>2, <3>3, <3>4, <3>5, <3>6 DEF QueueStep, WaitQueueStep
  <2>2. CASE release(c)
    <3>1. /\ Became(c, "notify", wq[c], ret[c], monitor[c]) /\ pc[c] = "release"
          /\ guard' = [guard EXCEPT ![wq[c]] = NoOne]
          /\ UNCHANGED <<queue, notify_cnt, predicate>>
      BY <2>2, HandlerLocals DEF release, At, queues, data
    <3>2. ASSUME NEW m \in Mtx PROVE MutexBacked(m)'
      <4>1. MutexBacked(m)
        BY DEF BackedInv
      <4>2. guard'[m] = NoOne => guard[m] = NoOne \/ wq[c] = m
        BY <3>1 DEF Types
      <4> QED
        BY <3>1, <4>1, <4>2, MutexFrame DEF Became, Notifies, Comes, Asking, Locking
    <3>3. ASSUME NEW v \in CV PROVE MonitorBacked(v)'
      <4>1. MonitorBacked(v)
        BY DEF BackedInv
      <4> QED
        BY <3>1, <4>1, MonitorBackedFrame DEF Became, Notifies, LooksAt
    <3> QED
      BY <3>2, <3>3 DEF BackedInv
  <2>3. CASE c \in Irq /\ (irq_drop(c) \/ \E v \in CV : irq_notify(c, v))
    <3>1. pc[c] \in {"home", "isr"}
      BY <2>3, IrqAssumption DEF irq_drop, irq_notify, IrqAllowed, Arrives, At, Irq
    <3>2. /\ Others(c) /\ pc'[c] # "enqueue"
          /\ UNCHANGED <<queue, notify_cnt, guard, predicate>>
      BY <2>3, HandlerLocals DEF Became, irq_drop, irq_notify, queues, mutexes, data
    <3> QED
      BY <2>0, <2>3, <3>1, <3>2, BackedFrame DEF Notifies
  <2>4. ASSUME NEW k \in Mtx, c \in Irq, irq_try_lock(c, k) PROVE BackedInv'
    <3>1. pc[c] = "home"
      BY <2>4, IrqAssumption DEF irq_try_lock, IrqAllowed, Arrives, Irq
    <3>2. /\ Others(c) /\ pc'[c] = "isr" /\ guard' = [guard EXCEPT ![k] = c]
          /\ UNCHANGED <<queue, notify_cnt, predicate>>
      BY <2>4, HandlerLocals DEF Became, irq_try_lock, queues, data
    <3>3. ASSUME NEW m \in Mtx PROVE MutexBacked(m)'
      <4>1. MutexBacked(m)
        BY DEF BackedInv
      <4>2. guard'[m] = NoOne => guard[m] = NoOne
        BY <2>0, <3>2 DEF Types
      <4> QED
        BY <2>0, <2>4, <3>1, <3>2, <4>1, <4>2, MutexFrame DEF Notifies
    <3>4. ASSUME NEW v \in CV PROVE MonitorBacked(v)'
      <4>1. MonitorBacked(v)
        BY DEF BackedInv
      <4> QED
        BY <2>0, <2>4, <3>1, <3>2, <4>1, MonitorBackedFrame DEF Notifies
    <3> QED
      BY <3>3, <3>4 DEF BackedInv
  <2>5. CASE c \in Task /\ Call(c)
    <3>1. pc[c] = "home" /\ monitor[c] = NoQueue
      <4>1. pc[c] = "home"
        BY <2>5 DEF Call, lock, unlock, wait_until_with_lock, signal, change_intrinsic, At
      <4> QED
        BY <2>5, <4>1 DEF MonitorInv, MonitorOf, Elsewhere
    <3>2. ASSUME NEW k \in CV, signal(c, k) PROVE BackedInv'
      <4>1. /\ Became(c, "notify", k, ret[c], monitor[c]) /\ predicate' = [predicate EXCEPT ![k] = TRUE]
            /\ UNCHANGED <<queue, notify_cnt, guard>>
        BY <2>5, <3>2, CallLocals DEF signal, queues, mutexes
      <4>2. ASSUME NEW m \in Mtx PROVE MutexBacked(m)'
        <5>1. MutexBacked(m)
          BY DEF BackedInv
        <5> QED
          BY <3>1, <4>1, <5>1, MutexFrame DEF Became, Notifies, Comes, Asking, Locking
      <4>3. ASSUME NEW v \in CV PROVE MonitorBacked(v)'
        <5>1. MonitorBacked(v)
          BY DEF BackedInv
        <5>2. predicate'[v] => predicate[v] \/ v = k
          BY <4>1 DEF Types
        <5> QED
          BY <3>1, <4>1, <5>1, <5>2, MonitorBackedFrame DEF Became, Notifies, LooksAt
      <4> QED
        BY <4>2, <4>3 DEF BackedInv
    <3>3. CASE ~\E v \in CV : signal(c, v)
      <4>1. UNCHANGED <<queue, notify_cnt, guard, predicate>>
        BY <2>5, <3>3
           DEF Call, lock, unlock, wait_until_with_lock, change_intrinsic, queues, wqvars, mutexes, data
      <4>2. Others(c) /\ pc'[c] # "enqueue"
        BY <2>5, <3>1, CallLocals DEF Call, Became
      <4> QED
        BY <3>1, <4>1, <4>2, BackedFrame DEF Notifies, Comes, Asking, Locking
    <3> QED
      BY <3>2, <3>3
  <2>6. CASE c \in Task /\ (contend(c) \/ inherit(c) \/ relock(c) \/ wait_again(c))
    <3>1. UNCHANGED <<queue, notify_cnt, guard, predicate>>
      BY <2>6 DEF contend, inherit, relock, wait_again, queues, mutexes, data
    <3>2. /\ pc[c] \in {"contend", "inherit", "relock", "monitor"} /\ Running(c)
          /\ pc[c] = "contend" => contend(c)
          /\ pc[c] = "inherit" => inherit(c)
      BY <2>6 DEF contend, inherit, relock, wait_again, At
    <3>3. pc[c] = "contend" => ~owner_locked[wq[c]]
      BY <2>0, <2>6, <3>2, TaskFindsUnlocked DEF ControlOf, Locking
    <3>4. /\ Others(c) /\ monitor'[c] = monitor[c] /\ pc'[c] \in {"hang", "inherit", "wait", "try"}
          /\ pc[c] \in {"contend", "inherit"} => wq'[c] = wq[c] /\ pc'[c] \in {"inherit", "wait"}
      BY <2>6, <3>2, <3>3, TaskLocals DEF Became
    <3> QED
      BY <3>1, <3>2, <3>4, BackedFrame DEF Notifies, Comes, Asking, Locking
  <2>7. CASE c \in Task /\ (try_lock(c) \/ lock_until(c))
    <3>1. pc[c] \in {"try", "cond"} /\ wq[c] \in Mtx /\ wq[c] \notin CV
          /\ UNCHANGED <<queue, notify_cnt, predicate>>
      BY <2>0, <2>7, Queues
         DEF try_lock, lock_until, wait_condition, At, ControlOf, Locking, queues, data
    <3>2. /\ Others(c) /\ monitor'[c] = monitor[c]
          /\ guard[wq[c]] # NoOne =>
                /\ guard' = guard /\ wq'[c] = wq[c] /\ pc'[c] \in {"contend", "enqueue"}
          /\ guard[wq[c]] = NoOne =>
                /\ guard' = [guard EXCEPT ![wq[c]] = c]
                /\ pc'[c] \in {"home", "monitor", "leave"}
      BY <2>7, TaskLocals, GuardSteps DEF Became, Locked
    <3>3. ASSUME NEW m \in Mtx PROVE MutexBacked(m)'
      <4>1. MutexBacked(m)
        BY DEF BackedInv
      <4>2. guard'[m] = NoOne => guard[m] = NoOne /\ m # wq[c]
        BY <2>0, <3>1, <3>2 DEF Types
      <4> QED
        BY <3>1, <3>2, <4>1, <4>2, MutexFrame DEF Notifies, Comes
    <3>4. ASSUME NEW v \in CV PROVE MonitorBacked(v)'
      <4>1. MonitorBacked(v)
        BY DEF BackedInv
      <4>2. ~(pc'[c] = "enqueue" /\ wq'[c] = v)
        BY <3>1, <3>2
      <4> QED
        BY <3>1, <3>2, <4>1, <4>2, MonitorBackedFrame DEF Notifies, LooksAt
    <3> QED
      BY <3>3, <3>4 DEF BackedInv
  <2>8. CASE c \in Task /\ predicate_met(c)
    <3>1. /\ pc[c] = "cond" /\ wq[c] \in CV /\ wq[c] \notin Mtx
          /\ predicate' = [predicate EXCEPT ![wq[c]] = FALSE]
          /\ UNCHANGED <<queue, notify_cnt, guard>>
      BY <2>8, Queues DEF predicate_met, wait_condition, At, queues, mutexes
    <3>2. Became(c, "leave", wq[c], "home", NoQueue) /\ monitor[c] = wq[c]
      BY <2>8, <3>1, TaskLocals DEF MonitorInv, MonitorOf
    <3>3. ASSUME NEW m \in Mtx PROVE MutexBacked(m)'
      <4>1. MutexBacked(m) /\ m # wq[c]
        BY <3>1 DEF BackedInv
      <4> QED
        BY <3>1, <3>2, <4>1, MutexFrame DEF Became, Notifies, Comes
    <3>4. ASSUME NEW v \in CV PROVE MonitorBacked(v)'
      <4>1. MonitorBacked(v)
        BY DEF BackedInv
      <4>2. predicate'[v] => predicate[v] /\ v # wq[c]
        BY <3>1 DEF Types
      <4> QED
        BY <3>1, <3>2, <4>1, <4>2, MonitorBackedFrame DEF Became, Notifies, LooksAt
    <3> QED
      BY <3>3, <3>4 DEF BackedInv
  <2>9. CASE c \in Task /\ unlock_and_into_lock_ref(c)
    <3>0. PICK k \in Mtx : k = MutexOf[wq[c]]
      BY <2>9, GivesUpOwn
    <3>1. /\ k \in Mtx /\ k \in WQ /\ k \notin CV /\ guard[k] = c
          /\ pc[c] = "cond" /\ wq[c] \in CV /\ wq[c] \notin Mtx /\ monitor[c] = wq[c]
      BY <2>9, <3>0, GivesUpOwn, Queues
    <3>2. /\ guard' = [guard EXCEPT ![k] = NoOne] /\ Wake(k, 1) /\ ~predicate[wq[c]] /\ Running(c)
          /\ UNCHANGED <<notify_cnt, predicate>>
      BY <2>9, <3>0 DEF unlock_and_into_lock_ref, data, At
    <3>3. ~owner_locked[k]
      BY <2>9, <3>1, <3>2, TaskFindsUnlocked
    <3>4. Became(c, "enqueue", wq[c], "yield_unlocked", monitor[c])
      BY <2>9, <3>0, <3>3, TaskLocals
    <3>5. \A q \in WQ : q # k => queue'[q] = queue[q]
      BY <3>1, <3>2, WakeEffect
    <3>6. \A t \in Task : ~(pc'[t] = "enqueue" /\ wq'[t] = k)
      <4>1. \A t \in Task : t # c => pc[t] # "enqueue"
        BY <2>9, <3>2, RunningTask DEF LockInv, SuspendedSteps
      <4> QED
        BY <3>1, <3>4, <4>1, Contexts DEF Became, Others
    <3>7. \A p \in WQ : ~Has(queue[p], c)
      BY <2>9, <3>1, NotQueued
    <3>8. SomeoneWaits(k)' => Coming(k)'
      BY <3>1, <3>2, <3>4, <3>6, <3>7, WokenBacked DEF Became
    <3>9. ASSUME NEW m \in Mtx PROVE MutexBacked(m)'
      <4>1. CASE m = k
        BY <3>8, <4>1 DEF MutexBacked, SomeoneWaits, Coming
      <4>2. CASE m # k
        <5>1. MutexBacked(m) /\ m # wq[c] /\ queue'[m] = queue[m]
          BY <3>1, <3>5, <4>2, Queues DEF BackedInv
        <5>2. guard'[m] = guard[m]
          BY <3>2, <4>2 DEF Types
        <5> QED
          BY <3>1, <3>2, <3>4, <5>1, <5>2, MutexFrame DEF Became, Notifies, Comes
      <4> QED
        BY <4>1, <4>2
    <3>10. ASSUME NEW v \in CV PROVE MonitorBacked(v)'
      <4>1. MonitorBacked(v) /\ queue'[v] = queue[v]
        BY <3>1, <3>5, Queues DEF BackedInv
      <4>2. predicate'[v] => predicate[v] /\ v # wq[c]
        BY <3>2
      <4> QED
        BY <3>1, <3>2, <3>4, <4>1, <4>2, MonitorBackedFrame DEF Became, Notifies, LooksAt
    <3> QED
      BY <3>9, <3>10 DEF BackedInv
  <2> QED
    BY <1>2, <2>1, <2>2, <2>3, <2>4, <2>5, <2>6, <2>7, <2>8, <2>9 DEF Moves, IrqCall, TaskStep
<1> QED
  BY <1>1, <1>2, NextMoves

-----------------------------------------------------------------------------
(***************************************************************************)
(* The theorems.                                                           *)
(***************************************************************************)
\* The initial states satisfy the invariant.
LEMMA Initially == Init => IInv
<1> SUFFICES ASSUME Init PROVE IInv
  OBVIOUS
<1> USE DEF Init, InitWaitQueue, InitCore
<1>0. \A c \in Ctx : pc[c] = "home" /\ ret[c] = "home" /\ wq[c] = NoQueue
  OBVIOUS
<1>1. \A t \in Task : t \in Ctx /\ monitor[t] = NoQueue
  BY Contexts
<1>2. \A q \in WQ : queue[q] = <<>> /\ ~locked[q] /\ notify_cnt[q] = 0
  OBVIOUS
<1>3. \A m \in Mtx : owner[m] = NoOne /\ guard[m] = NoOne /\ ~owner_locked[m]
  OBVIOUS
<1>4. TypeOK
  <2>1. Types
    BY StepNames, LevelAssumption DEF Types, NoOne
  <2> QED
    BY <2>1, TypesOf
<1>5. ControlInv
  BY <1>0, Contexts DEF ControlInv, ControlOf, Locking, InQueueCode
<1>6. MonitorInv
  BY <1>0, <1>1, Queues DEF MonitorInv, MonitorOf, Elsewhere, Unlocked, Looks, Locking, InQueueCode
<1>7. LockInv
  BY <1>0, <1>1, <1>2, <1>3 DEF LockInv, Inside, SuspendedSteps, MutexSuspended
<1>8. QueueInv
  BY <1>2 DEF QueueInv, Distinct, Has
<1>9. OwnerInv
  BY <1>0, <1>3, Contexts DEF OwnerInv
<1>10. InheritsWhileOwner
  BY DEF InheritsWhileOwner
<1>11. BackedInv
  <2>1. \A q \in WQ : ~SomeoneWaits(q)
    BY <1>0, <1>1, <1>2 DEF SomeoneWaits
  <2> QED
    BY <2>1, Queues DEF BackedInv, MutexBacked, MonitorBacked
<1> QED
  BY <1>4, <1>5, <1>6, <1>7, <1>8, <1>9, <1>10, <1>11 DEF IInv


\* The inductive invariant holds: its parts support each other, and with them the
\* properties below.
THEOREM Invariance == Spec => []IInv
<1>1. ASSUME IInv, [Next]_vars PROVE IInv'
  <2>0. /\ Types /\ ControlInv /\ MonitorInv /\ LockInv /\ QueueInv /\ OwnerInv
        /\ InheritsWhileOwner /\ BackedInv
    BY <1>1, TypesOf DEF IInv
  <2>1. CASE Next
    <3>1. Types'
      BY <2>0, <2>1, TypeStep
    <3>2. TypeOK'
      BY <3>1, TypesOf, PTL
    <3>3. ControlInv' /\ MonitorInv' /\ LockInv' /\ QueueInv'
      BY <2>0, <2>1, ControlStep, MonitorStep, LockStep, QueueInvStep
    <3>4. OwnerInv' /\ InheritsWhileOwner' /\ BackedInv'
      BY <2>0, <2>1, OwnerStep, InheritStep, BackedStep
    <3> QED
      BY <3>2, <3>3, <3>4 DEF IInv
  <2>2. CASE UNCHANGED vars
    <3>1. UNCHANGED <<cur, state, pc, queue, notify_cnt, locked, wq, ret, priority, intrinsic,
                      guard, owner, owner_locked, predicate, monitor>>
      BY <2>2 DEF vars, wqvars, queues, mutexes, data
    <3>2. TypeOK'
      BY <1>1, <3>1 DEF IInv, TypeOK, TypeOKWaitQueue, TypeOKCore
    <3>3. ControlInv' /\ MonitorInv'
      BY <2>0, <3>1 DEF ControlInv, ControlOf, MonitorInv, MonitorOf, Elsewhere, Unlocked, Looks
    <3>4. LockInv' /\ QueueInv'
      BY <2>0, <3>1 DEF LockInv, Inside, QueueInv, InPlace, Waits, Unlocked, Asking
    <3>5. OwnerInv' /\ InheritsWhileOwner'
      BY <2>0, <3>1 DEF OwnerInv, InheritsWhileOwner
    <3>6. BackedInv'
      BY <2>0, <3>1 DEF BackedInv, MutexBacked, MonitorBacked, SomeoneWaits, Announced, Coming,
         Looking, Asking
    <3> QED
      BY <3>2, <3>3, <3>4, <3>5, <3>6 DEF IInv
  <2> QED
    BY <1>1, <2>1, <2>2
<1> QED
  BY <1>1, Initially, PTL DEF Spec

\* Every variable keeps its type.
THEOREM TypeCorrectness == Spec => []TypeOK
<1>1. IInv => TypeOK
  BY DEF IInv
<1> QED
  BY <1>1, Invariance, PTL

\* The owner field tells the truth (mutex.rs, lock and the drop of a guard), and no
\* task dies of lock_now_or_die.
THEOREM OwnerIsTruthful == Spec => []OwnerTruthful
<1>1. IInv => OwnerTruthful
  <2> SUFFICES ASSUME IInv PROVE OwnerTruthful
    OBVIOUS
  <2>1. \A t \in Task : pc[t] # "hang"
    BY Contexts DEF IInv, ControlInv, ControlOf
  <2> QED
    BY <2>1 DEF IInv, OwnerInv, OwnerTruthful
<1> QED
  BY <1>1, Invariance, PTL

\* No boost outlives the mutexes it was given for (priority.rs).
THEOREM BoostEndsWithOwnership == Spec => []InheritsWhileOwner
<1>1. IInv => InheritsWhileOwner
  BY DEF IInv
<1> QED
  BY <1>1, Invariance, PTL

\* No wake-up is lost, neither of a mutex nor of a condition variable whose predicate
\* is guarded by one (the drop of a guard in mutex.rs, wait_until_with_lock).
THEOREM NoWakeupIsLost == Spec => []NoLostWakeup
<1>1. IInv => NoLostWakeup
  <2> SUFFICES ASSUME IInv PROVE NoLostWakeup
    OBVIOUS
  <2>0. Types /\ BackedInv
    BY TypesOf DEF IInv
  <2>1. \A q \in WQ : \A t \in Task : Contains(queue[q], t) <=> Has(queue[q], t)
    <3> SUFFICES ASSUME NEW q \in WQ, NEW t \in Task
                 PROVE  Contains(queue[q], t) <=> Has(queue[q], t)
      OBVIOUS
    <3>1. queue[q] \in Seq(Task)
      BY <2>0 DEF Types
    <3>2. DOMAIN queue[q] = 1 .. Len(queue[q])
      BY <3>1
    <3> QED
      BY <3>2 DEF Contains, Has
  <2>2. ASSUME NEW m \in Mtx, queue[m] # <<>>, guard[m] = NoOne PROVE Announced(m) \/ Trying(m)
    <3>1. Announced(m) \/ Coming(m)
      BY <2>0, <2>2 DEF BackedInv, MutexBacked, SomeoneWaits
    <3>2. Coming(m) => Trying(m)
      BY <2>1, Queues DEF Coming, Trying, Asking, Locking
    <3> QED
      BY <3>1, <3>2
  <2>3. ASSUME NEW v \in CV, queue[v] # <<>>, predicate[v]
        PROVE  Announced(v) \/ \E t \in Task : monitor[t] = v /\ ~Contains(queue[v], t)
    <3>1. Announced(v) \/ Looking(v)
      BY <2>0, <2>3 DEF BackedInv, MonitorBacked, SomeoneWaits
    <3>2. Looking(v) => \E t \in Task : monitor[t] = v /\ ~Contains(queue[v], t)
      BY <2>1, Queues DEF Looking
    <3> QED
      BY <3>1, <3>2
  <2> QED
    BY <2>2, <2>3 DEF NoLostWakeup
<1> QED
  BY <1>1, Invariance, PTL
=============================================================================
