--------------------------- MODULE SemaphoreProofs ---------------------------
(***************************************************************************)
(* Proofs about Semaphore, and with it about WaitQueue and the condition   *)
(* variables, for any tasks and priorities, any nesting of interrupts and  *)
(* any limit of the counter.                                               *)
(***************************************************************************)
EXTENDS Semaphore, TaskListProofs

(***************************************************************************)
(* The inductive invariant.                                                *)
(***************************************************************************)
\* Not yet through its wait: the call has still to change the counter.
Asking(c) ==
    \/ pc[c] \in {"wait", "cond", "enqueue", "yield", "load", "cas"}
    \/ pc[c] = "leave" /\ ret[c] # "home"

\* Each context keeps the locals that its call needs, only a blocking call of a
\* task waits, and what compare_exchange stores is in range.
ControlOf(c) ==
    /\ pc[c] # "hang"
    /\ Asking(c) => wq[c] = Awaits(call[c].dir)
    /\ Served(c) => wq[c] = Announces(call[c].dir)
    /\ pc[c] \in {"wait", "cond", "enqueue", "yield"} \/ ret[c] # "home"
          => call[c].blocking
    /\ call[c].blocking => c \in Task
    /\ \/ ret[c] = "home" /\ pc[c] # "enqueue"
       \/ ret[c] = "yield" /\ pc[c] \in {"enqueue", "leave"}
       \/ ret[c] = "load" /\ pc[c] = "leave"
    /\ pc[c] = "cas" => Room(call[c].dir, seen[c]) > 0

ControlInv == \A c \in Ctx : ControlOf(c)

\* The lock of a wait queue has one holder, and a task that is not current is
\* not inside.
Inside(c) == pc[c] \in {"cond", "enqueue", "pop", "leave"}

LockInv ==
    /\ \A q \in WQ : locked[q] <=> \E c \in Ctx : Inside(c) /\ wq[c] = q
    /\ \A c, d \in Ctx : Inside(c) /\ Inside(d) /\ wq[c] = wq[d] => c = d
    /\ \A t \in Task : t # cur => pc[t] \notin SuspendedSteps

\* A task in a queue is blocked and on its way to, or at, the yield of wait_until.
Waits(t) ==
    /\ state[t] = "Blocked" /\ call[t].blocking
    /\ \/ pc[t] = "leave" /\ ret[t] = "yield"
       \/ pc[t] = "yield"
       \/ pc[t] = "wait" /\ t # cur

QueueInv ==
    \A q \in WQ :
        /\ Distinct(queue[q])
        /\ \A t \in Task : Has(queue[q], t) => wq[t] = q /\ Waits(t)

\* The announcements outnumber what the counter allows, from the moment a task
\* has found that it must wait.
Queued(t) == \E q \in WQ : Has(queue[q], t)
Coming(q) == {t \in Task : wq[t] = q /\ call[t].blocking /\ ~Queued(t)
                           /\ Asking(t) /\ pc[t] # "enqueue"}
SomeoneWaits(q) == queue[q] # <<>> \/ \E t \in Task : pc[t] = "enqueue" /\ wq[t] = q

Backed(d) ==
    SomeoneWaits(Awaits(d)) =>
        Room(d, count) <= Cardinality(Coming(Awaits(d))) + Cardinality(Announcing(Awaits(d)))
                          + notify_cnt[Awaits(d)]

BackedInv == \A d \in Dir : Backed(d)

\* Nobody's priority changes.
PriorityInv == priority = Priority

IInv == TypeOK /\ PriorityInv /\ ControlInv /\ LockInv /\ QueueInv /\ BackedInv
-----------------------------------------------------------------------------
(***************************************************************************)
(* Facts about the constants.                                              *)
(***************************************************************************)
Other(d) == IF d = "down" THEN "up" ELSE "down"

\* Each direction waits where the other one announces.
LEMMA Directions ==
    /\ \A d \in Dir : /\ Awaits(d) \in WQ /\ Announces(d) \in WQ /\ Awaits(d) # Announces(d)
                      /\ Other(d) \in Dir /\ Other(d) # d /\ Announces(d) = Awaits(Other(d))
    /\ \A d, e \in Dir : d = e \/ e = Other(d)
    /\ \A d, e \in Dir : Awaits(d) = Awaits(e) => d = e
    /\ \A q \in WQ : \E d \in Dir : q = Awaits(d)
    /\ NoQueue \notin WQ
  BY CondVarAssumption, QueueAssumption DEF Dir, Awaits, Announces, Other

\* Tasks are no interrupt levels, and there are finitely many contexts.
LEMMA Contexts ==
    /\ Task \subseteq Ctx /\ Irq \subseteq Ctx /\ Irq \subseteq Nat
    /\ \A t \in Task : t \notin Irq /\ t # Idle
    /\ \A c \in Ctx : c \in Task \/ c \in Irq
    /\ IsFiniteSet(Task) /\ IsFiniteSet(Ctx)
<1>1. Irq \subseteq Nat /\ IsFiniteSet(Irq)
  BY IrqAssumption, FS_Interval DEF Irq
<1>2. IsFiniteSet(Ctx)
  BY <1>1, TaskAssumption, FS_Union DEF Ctx
<1> QED
  BY <1>1, <1>2, TaskAssumption DEF Ctx

\* What a direction does to the room of both.
LEMMA Rooms ==
    ASSUME NEW d \in Dir, NEW n \in 0 .. max_count
    PROVE  /\ Room(d, n) \in 0 .. max_count
           /\ Room(d, n) > 0 => /\ Changed(d, n) \in 0 .. max_count
                                /\ Room(d, Changed(d, n)) = Room(d, n) - 1
                                /\ Room(Other(d), Changed(d, n)) = Room(Other(d), n) + 1
  BY CountAssumption DEF Dir, Room, Changed, Other

\* What a call consists of.
LEMMA CallFields ==
    /\ NoCall \in Call
    /\ \A k \in Call : k.dir \in Dir /\ k.blocking \in BOOLEAN
  BY DEF Call, NoCall, Dir

-----------------------------------------------------------------------------
(***************************************************************************)
(* The actions of a context, with what all of them have in common: they    *)
(* leave the locals of every other context alone.                          *)
(***************************************************************************)
Others(c) ==
    \A d \in Ctx : d # c => /\ pc'[d] = pc[d] /\ wq'[d] = wq[d] /\ ret'[d] = ret[d]
                            /\ call'[d] = call[d] /\ seen'[d] = seen[d]

WQStep(c) ==
    /\ WaitQueueStep(c)
    /\ call' = IF pc'[c] = "home" THEN [call EXCEPT ![c] = NoCall] ELSE call
    /\ UNCHANGED <<count, seen>>

\* What TypeOK says of each variable.
Types ==
    /\ cur \in Task \union {Idle}
    /\ state \in [Task -> {"Ready", "Running", "Blocked"}]
    /\ pc \in [Ctx -> WaitQueueSteps \union {"home", "load", "cas"}]
    /\ queue \in [WQ -> Seq(Task)]
    /\ notify_cnt \in [WQ -> Nat]
    /\ locked \in [WQ -> BOOLEAN]
    /\ wq \in [Ctx -> WQ \union {NoQueue}]
    /\ ret \in [Ctx -> WaitQueueSteps \union {"home", "load", "cas"}]
    /\ count \in 0 .. max_count
    /\ call \in [Ctx -> Call]
    /\ seen \in [Ctx -> 0 .. max_count]

\* TypeOK, variable by variable.
LEMMA TypesOf == TypeOK <=> Types
  BY DEF TypeOK, Types, TypeOKWaitQueue, TypeOKCore

\* A context that is inside a wait queue works on one of the two.
LEMMA WorksOn ==
    ASSUME Types, ControlInv, NEW c \in Ctx, Asking(c) \/ Served(c) \/ Inside(c)
    PROVE  /\ wq[c] \in WQ
           /\ Asking(c) => wq[c] = Awaits(call[c].dir)
           /\ Served(c) => wq[c] = Announces(call[c].dir)
           /\ call[c].dir \in Dir
<1>1. call[c].dir \in Dir
  BY CallFields DEF Types
<1>2. Asking(c) \/ Served(c)
  BY DEF Asking, Served, Inside
<1> QED
  BY <1>1, <1>2, Directions DEF ControlInv, ControlOf

\* Waking tasks keeps the queues and the states well typed.
LEMMA WakeTypes ==
    ASSUME Types, NEW q \in WQ, NEW n \in Nat, Wake(q, n)
    PROVE  /\ queue' \in [WQ -> Seq(Task)]
           /\ state' \in [Task -> {"Ready", "Running", "Blocked"}]
<1>1. Without(queue[q], Popped(priority, queue[q], n)) \in Seq(Task)
  BY WithoutTasks DEF Types
<1> QED
  BY <1>1 DEF Types, Wake, accept_task

\* Every step keeps the variables well typed.
LEMMA TypeStep ==
    ASSUME Types, ControlInv, Next PROVE Types'
<1>0. /\ Task \subseteq Ctx /\ Irq \subseteq Ctx /\ NoCall \in Call /\ 0 \in 0 .. max_count
  BY Contexts, CallFields, CountAssumption
<1>1. ASSUME NEW c \in Ctx, NEW k \in Call, Begin(c, k) PROVE Types'
  <2>1. Awaits(k.dir) \in WQ
    BY CallFields, Directions
  <2> QED
    BY <1>1, <2>1 DEF Begin, Goto, Types, queues, WaitQueueSteps, SuspendedSteps
<1>2. ASSUME Switch PROVE Types'
  <2>1. /\ cur' \in Task \union {Idle}
        /\ state' \in [Task -> {"Ready", "Running", "Blocked"}]
    BY <1>2 DEF Switch, pick_next, switch, Pickable, Types
  <2>2. pc' \in [Ctx -> WaitQueueSteps \union {"home", "load", "cas"}]
    BY <1>2 DEF Switch, pick_next, switch, Types, WaitQueueSteps
  <2> QED
    BY <1>2, <2>1, <2>2 DEF Switch, pick_next, switch, Types, queues
<1>3. ASSUME NEW c \in Ctx, WQStep(c) PROVE Types'
  <2>0. call' \in [Ctx -> Call] /\ count' \in 0 .. max_count /\ seen' \in [Ctx -> 0 .. max_count]
    BY <1>0, <1>3 DEF WQStep, Types
  <2>1. CASE notify_guard(c)
    BY <2>0, <2>1 DEF notify_guard, Goto, Types, WaitQueueSteps, SuspendedSteps
  <2>2. CASE notify_full(c)
    <3>1. wq[c] \in WQ
      BY <2>2, WorksOn DEF notify_full, At, Inside
    <3>2. queue' \in [WQ -> Seq(Task)] /\ state' \in [Task -> {"Ready", "Running", "Blocked"}]
      BY <2>2, <3>1, WakeTypes DEF notify_full
    <3> QED
      BY <2>0, <2>2, <3>2 DEF notify_full, Goto, Types, WaitQueueSteps, SuspendedSteps
  <2>3. CASE notify_pend(c)
    <3>1. wq[c] \in WQ
      BY <2>3, WorksOn DEF notify_pend, At, Served
    <3>2. wq' \in [Ctx -> WQ \union {NoQueue}]
      BY <2>3 DEF notify_pend, Return, Types
    <3> QED
      BY <2>0, <2>3, <3>1, <3>2 DEF notify_pend, Return, Goto, Types, WaitQueueSteps, SuspendedSteps
  <2>4. CASE run_pended_op(c)
    <3>1. wq[c] \in WQ
      BY <2>4, WorksOn DEF run_pended_op, At, Inside
    <3>2. queue' \in [WQ -> Seq(Task)] /\ state' \in [Task -> {"Ready", "Running", "Blocked"}]
      BY <2>4, <3>1, WakeTypes DEF run_pended_op, Types
    <3> QED
      BY <2>0, <2>4, <3>2 DEF run_pended_op, Types
  <2>5. CASE leave(c)
    <3>1. wq' \in [Ctx -> WQ \union {NoQueue}]
      BY <2>5 DEF leave, Return, Types
    <3>2. /\ pc' \in [Ctx -> WaitQueueSteps \union {"home", "load", "cas"}]
          /\ ret' \in [Ctx -> WaitQueueSteps \union {"home", "load", "cas"}]
      <4> DEFINE S == WaitQueueSteps \union {"home", "load", "cas"}
      <4>1. pc \in [Ctx -> S] /\ ret \in [Ctx -> S] /\ ret[c] \in S /\ "home" \in S
        BY DEF Types
      <4>2. pc' = [pc EXCEPT ![c] = ret[c]] /\ ret' = [ret EXCEPT ![c] = "home"]
        BY <2>5 DEF leave, Return, Goto
      <4> HIDE DEF S
      <4>3. pc' \in [Ctx -> S] /\ ret' \in [Ctx -> S]
        BY <4>1, <4>2
      <4> QED
        BY <4>3 DEF S
    <3>3. locked' \in [WQ -> BOOLEAN]
      BY <2>5 DEF leave, Types
    <3> QED
      BY <2>0, <2>5, <3>1, <3>2, <3>3 DEF leave, Types
  <2>6. CASE c \in Task /\ wait_guard(c)
    BY <2>0, <2>6 DEF wait_guard, Goto, Types, WaitQueueSteps, SuspendedSteps
  <2>7. CASE c \in Task /\ wait_enqueue(c)
    <3>1. wq[c] \in WQ
      BY <2>7, WorksOn DEF wait_enqueue, At, Inside
    <3>2. Append(queue[wq[c]], c) \in Seq(Task)
      BY <2>7, <3>1, AppendTask DEF Types
    <3> QED
      BY <2>0, <2>7, <3>2 DEF wait_enqueue, Goto, Types, WaitQueueSteps, SuspendedSteps
  <2> QED
    BY <1>3, <2>1, <2>2, <2>3, <2>4, <2>5, <2>6, <2>7 DEF WQStep, WaitQueueStep
<1>4. ASSUME NEW t \in Task, wait_without_lock_until(t) PROVE Types'
  BY <1>4 DEF wait_without_lock_until, wait_condition, Goto, queues, Types, WaitQueueSteps, SuspendedSteps
<1>5. ASSUME NEW c \in Ctx, load(c) PROVE Types'
  <2>1. wq' \in [Ctx -> WQ \union {NoQueue}]
    BY <1>5 DEF load, Return, Types
  <2>2. /\ pc' \in [Ctx -> WaitQueueSteps \union {"home", "load", "cas"}]
        /\ ret' \in [Ctx -> WaitQueueSteps \union {"home", "load", "cas"}]
    <3> DEFINE S == WaitQueueSteps \union {"home", "load", "cas"}
    <3>1. /\ pc \in [Ctx -> S] /\ ret \in [Ctx -> S] /\ ret[c] \in S
          /\ {"home", "wait", "load", "cas"} \subseteq S
      BY DEF Types, WaitQueueSteps
    <3>2. \E n \in {"home", "wait", "load", "cas", ret[c]} :
              pc' = [pc EXCEPT ![c] = n] /\ ret' \in {ret, [ret EXCEPT ![c] = "home"]}
      BY <1>5 DEF load, Return, Goto
    <3> HIDE DEF S
    <3>3. pc' \in [Ctx -> S] /\ ret' \in [Ctx -> S]
      BY <3>1, <3>2
    <3> QED
      BY <3>3 DEF S
  <2>3. call' \in [Ctx -> Call] /\ seen' \in [Ctx -> 0 .. max_count]
    <3>1. call' \in {call, [call EXCEPT ![c] = NoCall]} /\ seen' \in {seen, [seen EXCEPT ![c] = count]}
      BY <1>5 DEF load
    <3>2. call \in [Ctx -> Call] /\ seen \in [Ctx -> 0 .. max_count] /\ count \in 0 .. max_count
      BY DEF Types
    <3>3. call' \in [Ctx -> Call]
      BY <1>0, <3>1, <3>2
    <3>4. seen' \in [Ctx -> 0 .. max_count]
      BY <3>1, <3>2
    <3> QED
      BY <3>3, <3>4
  <2> QED
    BY <1>5, <2>1, <2>2, <2>3 DEF load, queues, Types
<1>6. ASSUME NEW c \in Ctx, compare_exchange(c) PROVE Types'
  <2>1. call[c].dir \in Dir
    BY CallFields DEF Types
  <2>2. pc[c] = "cas"
    BY <1>6 DEF compare_exchange, At
  <2>3. Changed(call[c].dir, seen[c]) \in 0 .. max_count
    BY <2>1, <2>2, Rooms DEF ControlInv, ControlOf, Types
  <2>4. Announces(call[c].dir) \in WQ
    BY <2>1, Directions
  <2> QED
    BY <1>0, <1>6, <2>3, <2>4
       DEF compare_exchange, Retry, Goto, queues, Types, WaitQueueSteps, SuspendedSteps
<1> QED
  BY <1>0, <1>1, <1>2, <1>3, <1>4, <1>5, <1>6 DEF Next, Step, WQStep, task_call, irq_call
\* The locals of context c after its step; those of the others stay.
Became(c, p, q, r, k) ==
    /\ pc'[c] = p /\ wq'[c] = q /\ ret'[c] = r /\ call'[c] = k
    /\ Others(c)

\* A call begins.
LEMMA BeginLocals ==
    ASSUME Types, NEW c \in Ctx, NEW k \in Call, Begin(c, k)
    PROVE  Became(c, IF k.blocking THEN "wait" ELSE "load", Awaits(k.dir), ret[c], k)
  BY DEF Types, Begin, Goto, Became, Others

\* The steps inside a wait queue.
LEMMA QueueLocals ==
    ASSUME Types, NEW c \in Ctx, WQStep(c)
    PROVE  /\ notify_guard(c) =>
                Became(c, IF locked[wq[c]] THEN "pend" ELSE "pop", wq[c], "home", call[c])
           /\ notify_full(c) \/ run_pended_op(c) \/ wait_enqueue(c) =>
                Became(c, "leave", wq[c], ret[c], call[c])
           /\ notify_pend(c) \/ (leave(c) /\ ret[c] = "home") =>
                Became(c, "home", NoQueue, "home", NoCall)
           /\ leave(c) /\ ret[c] # "home" => Became(c, ret[c], wq[c], "home", call[c])
           /\ wait_guard(c) =>
                Became(c, IF locked[wq[c]] THEN "hang" ELSE "cond", wq[c], ret[c], call[c])
<1>0. seen' = seen /\ call' = IF pc'[c] = "home" THEN [call EXCEPT ![c] = NoCall] ELSE call
  BY DEF WQStep
<1>1. notify_guard(c) =>
        Became(c, IF locked[wq[c]] THEN "pend" ELSE "pop", wq[c], "home", call[c])
  BY <1>0 DEF Types, notify_guard, Goto, Became, Others
<1>2. notify_full(c) \/ run_pended_op(c) \/ wait_enqueue(c) =>
        Became(c, "leave", wq[c], ret[c], call[c])
  BY <1>0 DEF Types, notify_full, run_pended_op, wait_enqueue, Goto, Became, Others, At
<1>3. notify_pend(c) \/ (leave(c) /\ ret[c] = "home") => Became(c, "home", NoQueue, "home", NoCall)
  BY <1>0 DEF Types, notify_pend, leave, Return, Goto, Became, Others
<1>4. leave(c) /\ ret[c] # "home" => Became(c, ret[c], wq[c], "home", call[c])
  BY <1>0 DEF Types, leave, Goto, Became, Others
<1>5. wait_guard(c) =>
        Became(c, IF locked[wq[c]] THEN "hang" ELSE "cond", wq[c], ret[c], call[c])
  BY <1>0 DEF Types, wait_guard, Goto, Became, Others
<1> QED
  BY <1>1, <1>2, <1>3, <1>4, <1>5

\* The steps of the semaphore's own code.
LEMMA CallLocals ==
    ASSUME Types, NEW c \in Ctx
    PROVE  /\ wait_without_lock_until(c) =>
                IF Room(call[c].dir, count) > 0
                  THEN Became(c, "leave", wq[c], "load", call[c])
                  ELSE Became(c, "enqueue", wq[c], "yield", call[c])
           /\ load(c) =>
                \/ Room(call[c].dir, count) > 0 /\ seen'[c] = count
                   /\ Became(c, "cas", wq[c], ret[c], call[c])
                \/ Room(call[c].dir, count) = 0 /\ call[c].blocking
                   /\ Became(c, "wait", wq[c], ret[c], call[c])
                \/ Room(call[c].dir, count) = 0 /\ ~call[c].blocking
                   /\ Became(c, "home", NoQueue, "home", NoCall)
           /\ compare_exchange(c) =>
                IF count = seen[c]
                  THEN Became(c, "notify", Announces(call[c].dir), ret[c], call[c])
                  ELSE Became(c, Retry(c), wq[c], ret[c], call[c])
<1>1. wait_without_lock_until(c) =>
        IF Room(call[c].dir, count) > 0
          THEN Became(c, "leave", wq[c], "load", call[c])
          ELSE Became(c, "enqueue", wq[c], "yield", call[c])
  BY DEF Types, wait_without_lock_until, wait_condition, Goto, Became, Others
<1>2. load(c) =>
        \/ Room(call[c].dir, count) > 0 /\ seen'[c] = count
           /\ Became(c, "cas", wq[c], ret[c], call[c])
        \/ Room(call[c].dir, count) = 0 /\ call[c].blocking
           /\ Became(c, "wait", wq[c], ret[c], call[c])
        \/ Room(call[c].dir, count) = 0 /\ ~call[c].blocking
           /\ Became(c, "home", NoQueue, "home", NoCall)
  BY DEF Types, load, Return, Goto, Became, Others
<1>3. compare_exchange(c) =>
        IF count = seen[c]
          THEN Became(c, "notify", Announces(call[c].dir), ret[c], call[c])
          ELSE Became(c, Retry(c), wq[c], ret[c], call[c])
  BY DEF Types, compare_exchange, Goto, Became, Others
<1> QED
  BY <1>1, <1>2, <1>3

-----------------------------------------------------------------------------
(***************************************************************************)
(* Control.                                                                *)
(***************************************************************************)
\* A running task finds nobody inside a wait queue: the lock is free.
LEMMA TaskFindsUnlocked ==
    ASSUME Types, ControlInv, LockInv, NEW t \in Task, Running(t), ~Inside(t),
           NEW q \in WQ
    PROVE  ~locked[q]
<1>1. t = cur /\ \A e \in Irq : pc[e] = "home"
  BY Contexts DEF Running, ThreadMode
<1>2. ASSUME NEW c \in Ctx PROVE ~Inside(c)
  <2>1. CASE c \in Irq
    BY <1>1, <2>1 DEF Inside
  <2>2. CASE c \in Task
    BY <1>1, <2>2 DEF Inside, LockInv, SuspendedSteps
  <2> QED
    BY <2>1, <2>2, Contexts
<1> QED
  BY <1>2 DEF LockInv

\* A step that moves one context only has to bring it to the right place.
LEMMA ControlFrame ==
    ASSUME ControlInv, NEW c \in Ctx, Others(c), ControlOf(c)' PROVE ControlInv'
<1> SUFFICES ASSUME NEW d \in Ctx, d # c PROVE ControlOf(d)'
  BY DEF ControlInv
<1> QED
  BY DEF Others, ControlInv, ControlOf, Asking, Served

\* Every step keeps the contexts where they belong.
LEMMA ControlStep ==
    ASSUME Types, ControlInv, LockInv, Next PROVE ControlInv'
<1>1. ASSUME NEW c \in Ctx, NEW k \in Call, Begin(c, k), pc[c] = "home",
             k.blocking => c \in Task
      PROVE  ControlInv'
  <2>1. Became(c, IF k.blocking THEN "wait" ELSE "load", Awaits(k.dir), ret[c], k)
    BY <1>1, BeginLocals
  <2>2. ret[c] = "home"
    BY <1>1 DEF ControlInv, ControlOf
  <2>3. ControlOf(c)'
    BY <1>1, <2>1, <2>2 DEF Became, ControlOf, Asking, Served
  <2> QED
    BY <2>1, <2>3, ControlFrame DEF Became
<1>2. ASSUME Switch PROVE ControlInv'
  <2> SUFFICES ASSUME NEW c \in Ctx PROVE ControlOf(c)'
    BY DEF ControlInv
  <2>1. /\ \/ pc'[c] = pc[c]
           \/ pc[c] = "yield" /\ pc'[c] = "wait"
        /\ UNCHANGED <<wq, ret, call, seen>>
    BY <1>2 DEF Switch, pick_next, switch
  <2> QED
    BY <2>1 DEF ControlInv, ControlOf, Asking, Served
<1>3. ASSUME NEW c \in Ctx, WQStep(c) PROVE ControlInv'
  <2>0. ControlOf(c) /\ c \in Ctx /\ call[c].dir \in Dir
    BY CallFields DEF ControlInv, Types
  <2>1. CASE notify_guard(c)
    <3>1. Became(c, IF locked[wq[c]] THEN "pend" ELSE "pop", wq[c], "home", call[c])
      BY <1>3, <2>1, QueueLocals
    <3>2. pc[c] = "notify" /\ Served(c)
      BY <2>1 DEF notify_guard, At, Served
    <3>3. ControlOf(c)'
      BY <2>0, <3>1, <3>2 DEF Became, ControlOf, Asking, Served
    <3> QED
      BY <3>1, <3>3, ControlFrame DEF Became
  <2>2. CASE notify_full(c) \/ run_pended_op(c) \/ wait_enqueue(c)
    <3>1. Became(c, "leave", wq[c], ret[c], call[c])
      BY <1>3, <2>2, QueueLocals
    <3>2. pc[c] \in {"pop", "leave", "enqueue"}
      BY <2>2 DEF notify_full, run_pended_op, wait_enqueue, At
    <3>3. ControlOf(c)'
      BY <2>0, <3>1, <3>2 DEF Became, ControlOf, Asking, Served
    <3> QED
      BY <3>1, <3>3, ControlFrame DEF Became
  <2>3. CASE notify_pend(c) \/ (leave(c) /\ ret[c] = "home")
    <3>1. Became(c, "home", NoQueue, "home", NoCall)
      BY <1>3, <2>3, QueueLocals
    <3>2. ControlOf(c)'
      BY <3>1 DEF Became, ControlOf, Asking, Served, NoCall
    <3> QED
      BY <3>1, <3>2, ControlFrame DEF Became
  <2>4. CASE leave(c) /\ ret[c] # "home"
    <3>1. Became(c, ret[c], wq[c], "home", call[c])
      BY <1>3, <2>4, QueueLocals
    <3>2. pc[c] = "leave"
      BY <2>4 DEF leave, At
    <3>3. ControlOf(c)'
      BY <2>0, <2>4, <3>1, <3>2 DEF Became, ControlOf, Asking, Served
    <3> QED
      BY <3>1, <3>3, ControlFrame DEF Became
  <2>5. CASE c \in Task /\ wait_guard(c)
    <3>1. pc[c] = "wait" /\ Running(c) /\ ~Inside(c) /\ Asking(c)
      BY <2>5 DEF wait_guard, At, Inside, Asking
    <3>2. ~locked[wq[c]]
      BY <2>5, <3>1, TaskFindsUnlocked, WorksOn
    <3>3. Became(c, "cond", wq[c], ret[c], call[c])
      BY <1>3, <2>5, <3>2, QueueLocals
    <3>4. ControlOf(c)'
      BY <2>0, <3>1, <3>3 DEF Became, ControlOf, Asking, Served
    <3> QED
      BY <3>3, <3>4, ControlFrame DEF Became
  <2> QED
    BY <1>3, <2>1, <2>2, <2>3, <2>4, <2>5 DEF WQStep, WaitQueueStep
<1>4. ASSUME NEW c \in Ctx, wait_without_lock_until(c) PROVE ControlInv'
  <2>0. ControlOf(c) /\ pc[c] = "cond"
    BY <1>4 DEF ControlInv, wait_without_lock_until, wait_condition, At
  <2>1. \/ Became(c, "leave", wq[c], "load", call[c])
        \/ Became(c, "enqueue", wq[c], "yield", call[c])
    BY <1>4, CallLocals
  <2>2. ControlOf(c)'
    BY <2>0, <2>1 DEF Became, ControlOf, Asking, Served
  <2> QED
    BY <2>1, <2>2, ControlFrame DEF Became
<1>5. ASSUME NEW c \in Ctx, load(c) PROVE ControlInv'
  <2>0. ControlOf(c) /\ pc[c] = "load" /\ call[c].dir \in Dir
    BY <1>5, CallFields DEF ControlInv, load, At, Types
  <2>1. CASE Room(call[c].dir, count) > 0 /\ seen'[c] = count
             /\ Became(c, "cas", wq[c], ret[c], call[c])
    <3>1. ControlOf(c)'
      BY <2>0, <2>1 DEF Became, ControlOf, Asking, Served
    <3> QED
      BY <2>1, <3>1, ControlFrame DEF Became
  <2>2. CASE call[c].blocking /\ Became(c, "wait", wq[c], ret[c], call[c])
    <3>1. c \in Task
      BY <2>2, <2>0 DEF ControlOf
    <3>2. ControlOf(c)'
      BY <2>0, <2>2, <3>1 DEF Became, ControlOf, Asking, Served
    <3> QED
      BY <2>2, <3>2, ControlFrame DEF Became
  <2>3. CASE Became(c, "home", NoQueue, "home", NoCall)
    <3>1. ControlOf(c)'
      BY <2>3 DEF Became, ControlOf, Asking, Served, NoCall
    <3> QED
      BY <2>3, <3>1, ControlFrame DEF Became
  <2> QED
    BY <1>5, <2>1, <2>2, <2>3, CallLocals
<1>6. ASSUME NEW c \in Ctx, compare_exchange(c) PROVE ControlInv'
  <2>0. ControlOf(c) /\ pc[c] = "cas" /\ call[c].dir \in Dir
    BY <1>6, CallFields DEF ControlInv, compare_exchange, At, Types
  <2>1. CASE Became(c, "notify", Announces(call[c].dir), ret[c], call[c])
    <3>1. ControlOf(c)'
      BY <2>0, <2>1 DEF Became, ControlOf, Asking, Served
    <3> QED
      BY <2>1, <3>1, ControlFrame DEF Became
  <2>2. CASE Became(c, Retry(c), wq[c], ret[c], call[c])
    <3>1. ControlOf(c)'
      BY <2>0, <2>2 DEF Became, ControlOf, Asking, Served, Retry
    <3> QED
      BY <2>2, <3>1, ControlFrame DEF Became
  <2> QED
    BY <1>6, <2>1, <2>2, CallLocals
<1>7. ASSUME NEW t \in Task, NEW k \in Call, task_call(t, k) PROVE ControlInv'
  BY <1>1, <1>7, Contexts DEF task_call, At
<1>8. ASSUME NEW e \in Irq, NEW k \in Call, irq_call(e, k) PROVE ControlInv'
  <2>1. pc[e] = "home"
    BY <1>8, Contexts DEF irq_call, Arrives
  <2> QED
    BY <1>1, <1>8, <2>1, Contexts DEF irq_call
<1> QED
  BY <1>2, <1>3, <1>4, <1>5, <1>6, <1>7, <1>8, Contexts DEF Next, Step, WQStep
-----------------------------------------------------------------------------
(***************************************************************************)
(* The locks of the wait queues.                                           *)
(***************************************************************************)
\* A task that takes a step is the current one.
LEMMA RunningTask ==
    ASSUME NEW c \in Ctx, Running(c) PROVE c \in Task => c = cur
  BY Contexts DEF Running

\* A step that neither enters nor leaves a lock.
LEMMA LockFrame ==
    ASSUME LockInv, NEW c \in Ctx, Others(c), UNCHANGED <<cur, locked>>,
           Inside(c)' <=> Inside(c), Inside(c) => wq'[c] = wq[c],
           c \in Task => c = cur
    PROVE  LockInv'
<1>1. \A d \in Ctx : /\ Inside(d)' <=> Inside(d)
                     /\ Inside(d) => wq'[d] = wq[d]
  BY DEF Others, Inside
<1>2. \A t \in Task : t # cur => pc'[t] = pc[t]
  BY Contexts DEF Others
<1> QED
  BY <1>1, <1>2 DEF LockInv

\* A step that takes a free lock.
LEMMA LockEnter ==
    ASSUME Types, LockInv, NEW c \in Ctx, Others(c), UNCHANGED cur,
           wq[c] \in WQ, ~locked[wq[c]], locked' = [locked EXCEPT ![wq[c]] = TRUE],
           ~Inside(c), Inside(c)', wq'[c] = wq[c], c \in Task => c = cur
    PROVE  LockInv'
<1>1. \A d \in Ctx : d # c => (Inside(d)' <=> Inside(d)) /\ wq'[d] = wq[d]
  BY DEF Others, Inside
<1>2. \A d \in Ctx : Inside(d) => wq[d] # wq[c]
  BY DEF LockInv
<1>3. \A t \in Task : t # cur => pc'[t] = pc[t]
  BY Contexts DEF Others
<1>4. \A q \in WQ : locked'[q] <=> \E d \in Ctx : Inside(d)' /\ wq'[d] = q
  BY <1>1 DEF LockInv, Types
<1> QED
  BY <1>1, <1>2, <1>3, <1>4 DEF LockInv

\* A step that leaves the lock it holds.
LEMMA LockLeave ==
    ASSUME Types, LockInv, NEW c \in Ctx, Others(c), UNCHANGED cur,
           wq[c] \in WQ, locked' = [locked EXCEPT ![wq[c]] = FALSE],
           Inside(c), ~Inside(c)', c \in Task => c = cur
    PROVE  LockInv'
<1>1. \A d \in Ctx : d # c => (Inside(d)' <=> Inside(d)) /\ wq'[d] = wq[d]
  BY DEF Others, Inside
<1>2. \A d \in Ctx : Inside(d) /\ wq[d] = wq[c] => d = c
  BY DEF LockInv
<1>3. \A t \in Task : t # cur => pc'[t] = pc[t]
  BY Contexts DEF Others
<1>4. \A q \in WQ : locked'[q] <=> \E d \in Ctx : Inside(d)' /\ wq'[d] = q
  <2>1. ASSUME NEW q \in WQ, q # wq[c]
        PROVE  locked'[q] <=> \E d \in Ctx : Inside(d)' /\ wq'[d] = q
    <3>1. locked'[q] = locked[q]
      BY <2>1 DEF Types
    <3> QED
      BY <1>1, <2>1, <3>1 DEF LockInv
  <2>2. ~locked'[wq[c]] /\ ~\E d \in Ctx : Inside(d)' /\ wq'[d] = wq[c]
    BY <1>1, <1>2 DEF Types
  <2> QED
    BY <2>1, <2>2
<1> QED
  BY <1>1, <1>2, <1>3, <1>4 DEF LockInv

\* Every step keeps one holder per lock.
LEMMA LockStep ==
    ASSUME Types, ControlInv, LockInv, Next PROVE LockInv'
<1>1. ASSUME NEW c \in Ctx, NEW k \in Call, Begin(c, k), pc[c] = "home", c \in Task => c = cur
      PROVE  LockInv'
  <2>1. Others(c) /\ ~Inside(c) /\ ~Inside(c)' /\ UNCHANGED <<cur, locked>>
    BY <1>1, BeginLocals DEF Became, Inside, Begin, queues
  <2> QED
    BY <1>1, <2>1, LockFrame
<1>2. ASSUME Switch PROVE LockInv'
  <2>1. \A c \in Ctx : pc'[c] = pc[c] \/ (pc[c] = "yield" /\ pc'[c] = "wait")
    BY <1>2 DEF Switch, pick_next, switch
  <2>2. UNCHANGED <<wq, locked>> /\ (cur # Idle => pc[cur] \notin SuspendedSteps)
    BY <1>2 DEF Switch, pick_next, switch, queues
  <2>3. \A c \in Ctx : Inside(c)' <=> Inside(c)
    BY <2>1 DEF Inside
  <2>4. \A t \in Task : t \in Ctx /\ t # Idle
    BY Contexts
  <2>5. \A t \in Task : pc'[t] \notin SuspendedSteps
    BY <2>1, <2>2, <2>4 DEF LockInv, SuspendedSteps
  <2> QED
    BY <2>2, <2>3, <2>5 DEF LockInv
<1>3. ASSUME NEW c \in Ctx, WQStep(c) PROVE LockInv'
  <2>1. CASE notify_guard(c)
    <3>1. Became(c, IF locked[wq[c]] THEN "pend" ELSE "pop", wq[c], "home", call[c])
      BY <1>3, <2>1, QueueLocals
    <3>2. pc[c] = "notify" /\ Served(c) /\ (c \in Task => c = cur) /\ cur' = cur
          /\ locked' = [locked EXCEPT ![wq[c]] = TRUE]
      BY <2>1, RunningTask DEF notify_guard, At, Served
    <3>3. wq[c] \in WQ
      BY <3>2, WorksOn
    <3>4. CASE locked[wq[c]]
      <4>1. locked' = locked
        BY <3>2, <3>3, <3>4 DEF Types
      <4> QED
        BY <3>1, <3>2, <3>4, <4>1, LockFrame DEF Became, Inside
    <3>5. CASE ~locked[wq[c]]
      BY <3>1, <3>2, <3>3, <3>5, LockEnter DEF Became, Inside
    <3> QED
      BY <3>4, <3>5
  <2>2. CASE notify_full(c) \/ run_pended_op(c) \/ wait_enqueue(c)
    <3>1. Became(c, "leave", wq[c], ret[c], call[c])
      BY <1>3, <2>2, QueueLocals
    <3>2. pc[c] \in {"pop", "leave", "enqueue"} /\ (c \in Task => c = cur) /\ UNCHANGED <<cur, locked>>
      BY <2>2, RunningTask DEF notify_full, run_pended_op, wait_enqueue, At
    <3> QED
      BY <3>1, <3>2, LockFrame DEF Became, Inside
  <2>3. CASE notify_pend(c)
    <3>1. Became(c, "home", NoQueue, "home", NoCall)
      BY <1>3, <2>3, QueueLocals
    <3>2. pc[c] = "pend" /\ (c \in Task => c = cur) /\ UNCHANGED <<cur, locked>>
      BY <2>3, RunningTask DEF notify_pend, At
    <3> QED
      BY <3>1, <3>2, LockFrame DEF Became, Inside
  <2>4. CASE leave(c)
    <3>1. /\ pc[c] = "leave" /\ Inside(c) /\ (c \in Task => c = cur) /\ cur' = cur
          /\ locked' = [locked EXCEPT ![wq[c]] = FALSE]
      BY <2>4, RunningTask DEF leave, At, Inside
    <3>2. wq[c] \in WQ
      BY <3>1, WorksOn
    <3>3. Others(c) /\ ~Inside(c)'
      <4>1. CASE ret[c] = "home"
        BY <1>3, <2>4, <4>1, QueueLocals DEF Became, Inside
      <4>2. CASE ret[c] # "home"
        <5>1. ret[c] \in {"yield", "load"}
          BY <3>1, <4>2 DEF ControlInv, ControlOf
        <5> QED
          BY <1>3, <2>4, <4>2, <5>1, QueueLocals DEF Became, Inside
      <4> QED
        BY <4>1, <4>2
    <3> QED
      BY <3>1, <3>2, <3>3, LockLeave
  <2>5. CASE c \in Task /\ wait_guard(c)
    <3>1. /\ pc[c] = "wait" /\ Running(c) /\ ~Inside(c) /\ Asking(c) /\ c = cur /\ cur' = cur
          /\ locked' = [locked EXCEPT ![wq[c]] = TRUE]
      BY <2>5, RunningTask DEF wait_guard, At, Inside, Asking
    <3>2. wq[c] \in WQ /\ ~locked[wq[c]]
      BY <2>5, <3>1, TaskFindsUnlocked, WorksOn
    <3>3. Became(c, "cond", wq[c], ret[c], call[c])
      BY <1>3, <2>5, <3>2, QueueLocals
    <3> QED
      BY <3>1, <3>2, <3>3, LockEnter DEF Became, Inside
  <2> QED
    BY <1>3, <2>1, <2>2, <2>3, <2>4, <2>5 DEF WQStep, WaitQueueStep
<1>4. ASSUME NEW c \in Ctx, wait_without_lock_until(c) PROVE LockInv'
  <2>0. pc[c] = "cond" /\ (c \in Task => c = cur) /\ UNCHANGED <<cur, locked>>
    BY <1>4, RunningTask DEF wait_without_lock_until, wait_condition, At, queues
  <2>1. \/ Became(c, "leave", wq[c], "load", call[c])
        \/ Became(c, "enqueue", wq[c], "yield", call[c])
    BY <1>4, CallLocals
  <2> QED
    BY <2>0, <2>1, LockFrame DEF Became, Inside
<1>5. ASSUME NEW c \in Ctx, load(c) \/ compare_exchange(c) PROVE LockInv'
  <2>0. ~Inside(c) /\ (c \in Task => c = cur) /\ UNCHANGED <<cur, locked>>
    BY <1>5, RunningTask DEF load, compare_exchange, At, queues, Inside
  <2>1. Others(c) /\ ~Inside(c)'
    BY <1>5, CallLocals DEF Became, Inside, Retry
  <2> QED
    BY <2>0, <2>1, LockFrame
<1>6. ASSUME NEW t \in Task, NEW k \in Call, task_call(t, k) PROVE LockInv'
  BY <1>1, <1>6, Contexts, RunningTask DEF task_call, At
<1>7. ASSUME NEW e \in Irq, NEW k \in Call, irq_call(e, k) PROVE LockInv'
  <2>1. pc[e] = "home"
    BY <1>7, Contexts DEF irq_call, Arrives
  <2> QED
    BY <1>1, <1>7, <2>1, Contexts DEF irq_call
<1> QED
  BY <1>2, <1>3, <1>4, <1>5, <1>6, <1>7, Contexts DEF Next, Step, WQStep
-----------------------------------------------------------------------------
(***************************************************************************)
(* The tasks in the queues.                                                *)
(***************************************************************************)
\* What taking n tasks out of a queue does.
LEMMA WakeEffect ==
    ASSUME Types, PriorityInv, QueueInv, NEW q \in WQ, NEW n \in Nat, Wake(q, n)
    PROVE  LET ts == Popped(priority, queue[q], n) IN
           /\ \A p \in WQ : Distinct(queue'[p])
           /\ \A p \in WQ : \A t \in Task : Has(queue'[p], t) <=> Has(queue[p], t) /\ t \notin ts
           /\ \A t \in ts : t \in Task /\ Has(queue[q], t)
           /\ \A t \in Task : t \notin ts => state'[t] = state[t]
           /\ IsFiniteSet(ts)
           /\ queue'[q] # <<>> => Cardinality(ts) = n
<1> DEFINE ts == Popped(priority, queue[q], n)
<1>1. queue[q] \in Seq(Task) /\ Distinct(queue[q]) /\ priority \in [Task -> Nat]
  BY PriorityAssumption DEF Types, QueueInv, PriorityInv
<1>2. /\ \A u \in ts : Has(queue[q], u)
      /\ IsFiniteSet(ts)
      /\ (\E u : Has(queue[q], u) /\ u \notin ts) => Cardinality(ts) = n
  BY <1>1, PoppedTasks
<1> HIDE DEF ts
<1>3. /\ Without(queue[q], ts) \in Seq(Task)
      /\ \A u : Has(Without(queue[q], ts), u) <=> Has(queue[q], u) /\ u \notin ts
      /\ Distinct(Without(queue[q], ts))
  BY <1>1, WithoutTasks
<1>4. /\ queue' = [queue EXCEPT ![q] = Without(queue[q], ts)]
      /\ state' = [t \in Task |-> IF t \in ts THEN "Ready" ELSE state[t]]
  BY DEF Wake, accept_task, ts
<1>5. queue'[q] = Without(queue[q], ts) /\ \A p \in WQ : p # q => queue'[p] = queue[p]
  BY <1>4 DEF Types
<1>6. \A u \in ts : u \in Task
  BY <1>1, <1>2, HasSomething
<1>7. \A p \in WQ : Distinct(queue'[p])
  BY <1>3, <1>5 DEF QueueInv
<1>8. ASSUME NEW p \in WQ, NEW t \in Task
      PROVE  Has(queue'[p], t) <=> Has(queue[p], t) /\ t \notin ts
  <2>1. CASE p = q
    BY <1>3, <1>5, <2>1
  <2>2. CASE p # q
    <3>1. ASSUME Has(queue[p], t) PROVE t \notin ts
      BY <1>2, <2>2, <3>1 DEF QueueInv
    <3> QED
      BY <1>5, <2>2, <3>1
  <2> QED
    BY <2>1, <2>2
<1>9. \A t \in Task : t \notin ts => state'[t] = state[t]
  BY <1>4
<1>10. ASSUME queue'[q] # <<>> PROVE Cardinality(ts) = n
  <2>1. PICK u \in Task : Has(queue'[q], u)
    BY <1>3, <1>5, <1>10, HasSomething
  <2> QED
    BY <1>2, <1>8, <2>1
<1> QED
  BY <1>2, <1>6, <1>7, <1>8, <1>9, <1>10 DEF ts

\* Who is not waiting is in no queue.
LEMMA NotQueued ==
    ASSUME QueueInv, NEW t \in Task,
           \/ pc[t] \notin {"leave", "yield", "wait"}
           \/ pc[t] = "leave" /\ ret[t] # "yield"
           \/ pc[t] = "wait" /\ t = cur
    PROVE  \A q \in WQ : ~Has(queue[q], t)
  BY DEF QueueInv, Waits

\* A step that leaves the queues alone.
LEMMA QueueFrame ==
    ASSUME QueueInv, NEW c \in Ctx, Others(c), UNCHANGED <<queue, state, cur>>,
           c \in Task => \A q \in WQ : Has(queue[q], c) => wq'[c] = q /\ Waits(c)'
    PROVE  QueueInv'
<1> SUFFICES ASSUME NEW q \in WQ, NEW t \in Task, Has(queue[q], t)
             PROVE  wq'[t] = q /\ Waits(t)'
  BY DEF QueueInv
<1>1. CASE t = c
  BY <1>1
<1>2. CASE t # c
  <2>1. /\ pc'[t] = pc[t] /\ wq'[t] = wq[t] /\ ret'[t] = ret[t] /\ call'[t] = call[t]
        /\ state'[t] = state[t] /\ cur' = cur
    BY <1>2, Contexts DEF Others
  <2> QED
    BY <2>1 DEF QueueInv, Waits
<1> QED
  BY <1>1, <1>2

\* Every step keeps the queues to blocked tasks that wait for them.
LEMMA QueueStep ==
    ASSUME Types, PriorityInv, ControlInv, LockInv, QueueInv, Next PROVE QueueInv'
<1>1. ASSUME NEW c \in Ctx, NEW k \in Call, Begin(c, k), pc[c] = "home" PROVE QueueInv'
  <2>1. Others(c) /\ UNCHANGED <<queue, state, cur>>
    BY <1>1, BeginLocals DEF Became, Begin, queues
  <2>2. c \in Task => \A q \in WQ : ~Has(queue[q], c)
    BY <1>1, NotQueued
  <2> QED
    BY <2>1, <2>2, QueueFrame
<1>2. ASSUME Switch PROVE QueueInv'
  <2>1. \A c \in Ctx : pc'[c] = pc[c] \/ (c = cur /\ pc[c] = "yield" /\ pc'[c] = "wait")
    BY <1>2 DEF Switch, pick_next, switch
  <2>2. UNCHANGED <<queue, wq, ret, call>>
    BY <1>2 DEF Switch, pick_next, queues
  <2>3. /\ cur' = Idle \/ (cur' \in Task /\ state[cur'] # "Blocked")
        /\ \A t \in Task : t # cur' /\ state[t] = "Blocked" => state'[t] = "Blocked"
    BY <1>2 DEF Switch, pick_next, switch, Pickable
  <2> SUFFICES ASSUME NEW q \in WQ, NEW t \in Task, Has(queue[q], t)
               PROVE  wq'[t] = q /\ Waits(t)'
    BY <2>2 DEF QueueInv
  <2>4. wq[t] = q /\ Waits(t) /\ state[t] = "Blocked" /\ t \in Ctx /\ t # Idle
    BY Contexts DEF QueueInv, Waits
  <2>5. t # cur' /\ state'[t] = "Blocked"
    BY <2>3, <2>4
  <2>6. pc[t] = "leave" /\ ret[t] = "yield" => pc'[t] = "leave"
    BY <2>1, <2>4
  <2>7. pc[t] \in {"yield", "wait"} => pc'[t] \in {"yield", "wait"}
    BY <2>1, <2>4
  <2> QED
    BY <2>2, <2>4, <2>5, <2>6, <2>7 DEF Waits
<1>3. ASSUME NEW c \in Ctx, WQStep(c) PROVE QueueInv'
  <2>1. CASE notify_guard(c) \/ notify_pend(c) \/ (c \in Task /\ wait_guard(c))
    <3>1. Others(c) /\ UNCHANGED <<queue, state, cur>>
      BY <1>3, <2>1, QueueLocals DEF Became, notify_guard, notify_pend, wait_guard
    <3>2. c \in Task => \A q \in WQ : ~Has(queue[q], c)
      <4>1. pc[c] \in {"notify", "pend"} \/ (pc[c] = "wait" /\ (c \in Task => c = cur))
        BY <2>1, RunningTask DEF notify_guard, notify_pend, wait_guard, At
      <4> QED
        BY <4>1, NotQueued
    <3> QED
      BY <3>1, <3>2, QueueFrame
  <2>2. CASE notify_full(c) \/ run_pended_op(c)
    <3>1. Became(c, "leave", wq[c], ret[c], call[c])
      BY <1>3, <2>2, QueueLocals
    <3>2. pc[c] \in {"pop", "leave"} /\ cur' = cur /\ Inside(c)
      BY <2>2 DEF notify_full, run_pended_op, At, Inside
    <3>3. wq[c] \in WQ
      BY <3>2, WorksOn
    <3>4. PICK n \in Nat : Wake(wq[c], n)
      BY <2>2, <3>3 DEF notify_full, run_pended_op, Types
    <3> DEFINE ts == Popped(priority, queue[wq[c]], n)
    <3>5. /\ \A p \in WQ : Distinct(queue'[p])
          /\ \A p \in WQ : \A t \in Task : Has(queue'[p], t) <=> Has(queue[p], t) /\ t \notin ts
          /\ \A t \in Task : t \notin ts => state'[t] = state[t]
      BY <3>3, <3>4, WakeEffect
    <3> HIDE DEF ts
    <3> SUFFICES ASSUME NEW q \in WQ, NEW t \in Task, Has(queue'[q], t)
                 PROVE  wq'[t] = q /\ Waits(t)'
      BY <3>5 DEF QueueInv
    <3>6. Has(queue[q], t) /\ state'[t] = state[t] /\ wq[t] = q /\ Waits(t)
      BY <3>5 DEF QueueInv
    <3>7. /\ pc'[t] = pc[t] \/ (t = c /\ pc[t] = "pop") 
          /\ wq'[t] = wq[t] /\ ret'[t] = ret[t] /\ call'[t] = call[t]
      BY <3>1, <3>2, Contexts DEF Became, Others
    <3>8. pc'[t] = pc[t]
      BY <3>6, <3>7 DEF Waits
    <3> QED
      BY <3>2, <3>6, <3>7, <3>8 DEF Waits
  <2>3. CASE leave(c)
    <3>1. pc[c] = "leave" /\ UNCHANGED <<queue, state, cur>>
      BY <2>3 DEF leave, At
    <3>2. CASE ret[c] # "yield"
      <4>1. Others(c)
        BY <1>3, <2>3, QueueLocals DEF Became
      <4>2. c \in Task => \A q \in WQ : ~Has(queue[q], c)
        BY <3>1, <3>2, NotQueued
      <4> QED
        BY <3>1, <4>1, <4>2, QueueFrame
    <3>3. CASE ret[c] = "yield"
      <4>1. Became(c, "yield", wq[c], "home", call[c])
        BY <1>3, <2>3, <3>3, QueueLocals
      <4>2. ASSUME c \in Task, NEW q \in WQ, Has(queue[q], c) PROVE wq'[c] = q /\ Waits(c)'
        <5>1. wq[c] = q /\ state[c] = "Blocked" /\ call[c].blocking
          BY <4>2 DEF QueueInv, Waits
        <5> QED
          BY <3>1, <4>1, <5>1 DEF Became, Waits
      <4> QED
        BY <3>1, <4>1, <4>2, QueueFrame DEF Became
    <3> QED
      BY <3>2, <3>3
  <2>4. CASE c \in Task /\ wait_enqueue(c)
    <3>1. Became(c, "leave", wq[c], ret[c], call[c])
      BY <1>3, <2>4, QueueLocals
    <3>2. /\ pc[c] = "enqueue" /\ cur' = cur /\ Inside(c) /\ c \in Task
          /\ state' = [state EXCEPT ![c] = "Blocked"]
          /\ queue' = [queue EXCEPT ![wq[c]] = Append(@, c)]
      BY <2>4 DEF wait_enqueue, At, Inside
    <3>3. wq[c] \in WQ /\ ret[c] = "yield" /\ call[c].blocking
      BY <3>2, WorksOn DEF ControlInv, ControlOf
    <3>4. \A q \in WQ : ~Has(queue[q], c)
      BY <3>2, NotQueued
    <3>5. /\ queue'[wq[c]] = Append(queue[wq[c]], c)
          /\ \A q \in WQ : q # wq[c] => queue'[q] = queue[q]
      BY <3>2, <3>3 DEF Types
    <3>6. /\ \A u : Has(Append(queue[wq[c]], c), u) <=> Has(queue[wq[c]], u) \/ u = c
          /\ Distinct(Append(queue[wq[c]], c))
      BY <3>2, <3>3, <3>4, AppendTask DEF Types, QueueInv
    <3>7. state'[c] = "Blocked" /\ \A t \in Task : t # c => state'[t] = state[t]
      BY <3>2 DEF Types
    <3>8. \A q \in WQ : Distinct(queue'[q])
      BY <3>5, <3>6 DEF QueueInv
    <3> SUFFICES ASSUME NEW q \in WQ, NEW t \in Task, Has(queue'[q], t)
                 PROVE  wq'[t] = q /\ Waits(t)'
      BY <3>8 DEF QueueInv
    <3>9. CASE t = c
      <4>1. q = wq[c]
        BY <3>4, <3>5, <3>9
      <4> QED
        BY <3>1, <3>3, <3>7, <3>9, <4>1 DEF Became, Waits
    <3>10. CASE t # c
      <4>1. Has(queue[q], t)
        BY <3>5, <3>6, <3>10
      <4>2. /\ pc'[t] = pc[t] /\ wq'[t] = wq[t] /\ ret'[t] = ret[t] /\ call'[t] = call[t]
            /\ state'[t] = state[t]
        BY <3>1, <3>7, <3>10, Contexts DEF Became, Others
      <4> QED
        BY <3>2, <4>1, <4>2 DEF QueueInv, Waits
    <3> QED
      BY <3>9, <3>10
  <2> QED
    BY <1>3, <2>1, <2>2, <2>3, <2>4 DEF WQStep, WaitQueueStep
<1>4. ASSUME NEW c \in Ctx, wait_without_lock_until(c) \/ load(c) \/ compare_exchange(c)
      PROVE  QueueInv'
  <2>1. /\ pc[c] \in {"cond", "load", "cas"} /\ UNCHANGED <<queue, state, cur>>
    BY <1>4 DEF wait_without_lock_until, wait_condition, load, compare_exchange, At, queues
  <2>2. Others(c)
    BY <1>4, CallLocals DEF Became
  <2>3. c \in Task => \A q \in WQ : ~Has(queue[q], c)
    BY <2>1, NotQueued
  <2> QED
    BY <2>1, <2>2, <2>3, QueueFrame
<1>5. ASSUME NEW t \in Task, NEW k \in Call, task_call(t, k) PROVE QueueInv'
  BY <1>1, <1>5, Contexts DEF task_call, At
<1>6. ASSUME NEW e \in Irq, NEW k \in Call, irq_call(e, k) PROVE QueueInv'
  <2>1. pc[e] = "home"
    BY <1>6, Contexts DEF irq_call, Arrives
  <2> QED
    BY <1>1, <1>6, <2>1, Contexts DEF irq_call
<1> QED
  BY <1>2, <1>3, <1>4, <1>5, <1>6, Contexts DEF Next, Step, WQStep
-----------------------------------------------------------------------------
(***************************************************************************)
(* Announcements.                                                          *)
(***************************************************************************)
\* The sets that are counted are finite, so they can only count more when they grow.
LEMMA Counts ==
    ASSUME NEW q
    PROVE  /\ IsFiniteSet(Coming(q)) /\ IsFiniteSet(Coming(q)')
           /\ IsFiniteSet(Announcing(q)) /\ IsFiniteSet(Announcing(q)')
           /\ Cardinality(Coming(q)) \in Nat /\ Cardinality(Coming(q)') \in Nat
           /\ Cardinality(Announcing(q)) \in Nat /\ Cardinality(Announcing(q)') \in Nat
           /\ Coming(q) \subseteq Coming(q)' => Cardinality(Coming(q)) <= Cardinality(Coming(q)')
           /\ Announcing(q) \subseteq Announcing(q)' =>
                 Cardinality(Announcing(q)) <= Cardinality(Announcing(q)')
<1>1. Coming(q) \in SUBSET Task /\ Coming(q)' \in SUBSET Task
  BY DEF Coming
<1>2. Announcing(q) \in SUBSET Ctx /\ Announcing(q)' \in SUBSET Ctx
  BY DEF Announcing
<1> DEFINE A == Coming(q)
           B == Coming(q)'
           C == Announcing(q)
           D == Announcing(q)'
<1>3. IsFiniteSet(A) /\ IsFiniteSet(B) /\ IsFiniteSet(C) /\ IsFiniteSet(D)
  BY <1>1, <1>2, Contexts, FS_Subset
<1> HIDE DEF A, B, C, D
<1>4. /\ Cardinality(A) \in Nat /\ Cardinality(B) \in Nat
      /\ Cardinality(C) \in Nat /\ Cardinality(D) \in Nat
  BY <1>3, FS_CardinalityType
<1>5. /\ A \subseteq B => Cardinality(A) <= Cardinality(B)
      /\ C \subseteq D => Cardinality(C) <= Cardinality(D)
  BY <1>3, FS_Subset
<1> QED
  BY <1>3, <1>4, <1>5 DEF A, B, C, D

\* A step that takes nothing away from what backs the waiting calls.
LEMMA BackedFrame ==
    ASSUME Types, Types', NEW d \in Dir, Backed(d),
           SomeoneWaits(Awaits(d))' => SomeoneWaits(Awaits(d)),
           count' = count, notify_cnt'[Awaits(d)] = notify_cnt[Awaits(d)],
           Coming(Awaits(d)) \subseteq Coming(Awaits(d))',
           Announcing(Awaits(d)) \subseteq Announcing(Awaits(d))'
    PROVE  Backed(d)'
<1> DEFINE q == Awaits(d)
<1>1. q \in WQ /\ notify_cnt[q] \in Nat /\ Room(d, count) \in Nat
  BY Directions, Rooms DEF Types
<1>2. /\ Cardinality(Coming(q)) \in Nat /\ Cardinality(Coming(q)') \in Nat
      /\ Cardinality(Announcing(q)) \in Nat /\ Cardinality(Announcing(q)') \in Nat
      /\ Cardinality(Coming(q)) <= Cardinality(Coming(q)')
      /\ Cardinality(Announcing(q)) <= Cardinality(Announcing(q)')
  BY Counts
<1>3. SUFFICES ASSUME SomeoneWaits(q)'
               PROVE  Room(d, count)' <= Cardinality(Coming(q)') + Cardinality(Announcing(q)')
                                         + notify_cnt'[q]
  BY DEF Backed
<1>4. Room(d, count)' = Room(d, count)
  BY DEF Room
<1>5. Room(d, count) <= Cardinality(Coming(q)) + Cardinality(Announcing(q)) + notify_cnt[q]
  BY <1>3 DEF Backed
<1> QED
  BY <1>1, <1>2, <1>4, <1>5

\* Steps of one context that leave the queues alone: only that context can leave
\* one of the sets.
LEMMA MovesAlone ==
    ASSUME Types, NEW c \in Ctx, Others(c), queue' = queue, NEW q
    PROVE  /\ \A t \in Task : t # c => (t \in Coming(q) <=> t \in Coming(q)')
           /\ \A x \in Ctx : x # c => (x \in Announcing(q) <=> x \in Announcing(q)')
           /\ SomeoneWaits(q)' /\ ~(c \in Task /\ pc'[c] = "enqueue" /\ wq'[c] = q)
                 => SomeoneWaits(q)
<1>1. \A t \in Task : Queued(t)' <=> Queued(t)
  BY DEF Queued
<1>2. ASSUME NEW t \in Task, t # c
      PROVE  /\ wq'[t] = wq[t] /\ call'[t] = call[t] /\ pc'[t] = pc[t]
             /\ (Asking(t)' <=> Asking(t))
  BY <1>2, Contexts DEF Others, Asking
<1>3. \A t \in Task : t # c => (t \in Coming(q) <=> t \in Coming(q)')
  BY <1>1, <1>2 DEF Coming
<1>4. \A x \in Ctx : x # c => (x \in Announcing(q) <=> x \in Announcing(q)')
  BY DEF Announcing, Others
<1>5. SomeoneWaits(q)' /\ ~(c \in Task /\ pc'[c] = "enqueue" /\ wq'[c] = q) => SomeoneWaits(q)
  BY <1>2 DEF SomeoneWaits
<1> QED
  BY <1>3, <1>4, <1>5

\* Such a step keeps everything backed if the context itself stays in the sets.
LEMMA BackedAlone ==
    ASSUME Types, Types', BackedInv, NEW c \in Ctx, Others(c),
           UNCHANGED <<queue, count, notify_cnt>>, pc'[c] # "enqueue",
           \A q \in WQ : /\ c \in Coming(q) => c \in Coming(q)'
                         /\ c \in Announcing(q) => c \in Announcing(q)'
    PROVE  BackedInv'
<1> SUFFICES ASSUME NEW d \in Dir PROVE Backed(d)'
  BY DEF BackedInv
<1> DEFINE q == Awaits(d)
<1>1. q \in WQ /\ Backed(d)
  BY Directions DEF BackedInv
<1>2. Coming(q) \subseteq Task /\ Announcing(q) \subseteq Ctx
  BY DEF Coming, Announcing
<1>3. Coming(q) \subseteq Coming(q)' /\ Announcing(q) \subseteq Announcing(q)'
  BY <1>1, <1>2, MovesAlone
<1>4. SomeoneWaits(q)' => SomeoneWaits(q)
  BY MovesAlone
<1> QED
  BY <1>1, <1>3, <1>4, BackedFrame

\* Tasks that are taken out of a queue are under way again, and nobody else stops to be.
LEMMA BackedWake ==
    ASSUME Types, Types', PriorityInv, ControlInv, LockInv, QueueInv,
           NEW c \in Ctx, Became(c, "leave", wq[c], ret[c], call[c]),
           pc[c] \in {"pop", "leave"},
           NEW n \in Nat, wq[c] \in WQ, Wake(wq[c], n), NEW q \in WQ
    PROVE  /\ SomeoneWaits(q)' => queue'[q] # <<>> \/ q # wq[c]
           /\ SomeoneWaits(q)' => SomeoneWaits(q)
           /\ Coming(q) \subseteq Coming(q)'
           /\ q = wq[c] /\ queue'[q] # <<>> =>
                 Cardinality(Coming(q)') >= Cardinality(Coming(q)) + n
<1> DEFINE ts == Popped(priority, queue[wq[c]], n)
<1>1. /\ \A p \in WQ : \A t \in Task : Has(queue'[p], t) <=> Has(queue[p], t) /\ t \notin ts
      /\ \A t \in ts : t \in Task /\ Has(queue[wq[c]], t)
      /\ IsFiniteSet(ts)
      /\ queue'[wq[c]] # <<>> => Cardinality(ts) = n
  BY WakeEffect
<1> HIDE DEF ts
<1>2. \A t \in Task : /\ wq'[t] = wq[t] /\ call'[t] = call[t] /\ ret'[t] = ret[t]
                      /\ pc'[t] = pc[t] \/ (pc[t] = "pop" /\ pc'[t] = "leave" /\ t = c)
  BY Contexts DEF Became, Others
<1>3. \A t \in Task : pc[t] = "pop" => ~Asking(t)
  BY DEF Asking
<1>4. \A t \in Task : Asking(t) => Asking(t)'
  BY <1>2, <1>3 DEF Asking
<1>5. \A t \in Task : pc[t] = "enqueue" /\ wq[t] = wq[c] => FALSE
  <2> SUFFICES ASSUME NEW t \in Task, pc[t] = "enqueue", wq[t] = wq[c] PROVE FALSE
    OBVIOUS
  <2>1. Inside(t) /\ Inside(c) /\ t \in Ctx
    BY Contexts DEF Inside
  <2>2. t = c
    BY <2>1 DEF LockInv
  <2> QED
    BY <2>2
<1>6. \A t \in Task : pc'[t] = "enqueue" => pc[t] = "enqueue"
  BY <1>2
<1>7. SomeoneWaits(q)' => queue'[q] # <<>> \/ q # wq[c]
  BY <1>2, <1>5, <1>6 DEF SomeoneWaits
<1>8. queue'[q] # <<>> => queue[q] # <<>>
  <2>1. queue[q] \in Seq(Task) /\ queue'[q] \in Seq(Task)
    BY DEF Types
  <2> QED
    BY <2>1, <1>1, HasSomething
<1>9. SomeoneWaits(q)' => SomeoneWaits(q)
  BY <1>2, <1>6, <1>8 DEF SomeoneWaits
<1>10. \A t \in Task : ~Queued(t) => ~Queued(t)'
  BY <1>1 DEF Queued
<1>11. Coming(q) \subseteq Coming(q)'
  BY <1>2, <1>4, <1>6, <1>10 DEF Coming
<1>12. ASSUME q = wq[c], queue'[q] # <<>>
       PROVE  Cardinality(Coming(q)') >= Cardinality(Coming(q)) + n
  <2>1. ASSUME NEW t \in ts PROVE t \in Coming(q)' /\ t \notin Coming(q)
    <3>1. t \in Task /\ Has(queue[q], t)
      BY <1>1, <1>12, <2>1
    <3>2. wq[t] = q /\ call[t].blocking /\ Asking(t) /\ pc[t] # "enqueue" /\ Queued(t)
      BY <3>1 DEF QueueInv, Waits, Asking, Queued
    <3>3. ~Queued(t)'
      <4> SUFFICES ASSUME NEW p \in WQ, Has(queue'[p], t) PROVE FALSE
        BY DEF Queued
      <4> QED
        BY <1>1, <2>1, <3>1
    <3> QED
      BY <1>2, <1>4, <1>6, <3>1, <3>2, <3>3 DEF Coming
  <2> DEFINE A == Coming(q)
             B == Coming(q)'
  <2>2. IsFiniteSet(A) /\ IsFiniteSet(B) /\ Cardinality(A) \in Nat /\ Cardinality(B) \in Nat
    BY Counts
  <2>3. A \intersect ts = {} /\ A \union ts \subseteq B
    BY <1>11, <2>1
  <2> HIDE DEF A, B
  <2>4. Cardinality(A \union ts) = Cardinality(A) + Cardinality(ts) - 0
    BY <1>1, <2>2, <2>3, FS_Union, FS_EmptySet
  <2>5. Cardinality(A \union ts) <= Cardinality(B)
    BY <2>2, <2>3, FS_Subset
  <2>6. Cardinality(ts) = n
    BY <1>1, <1>12
  <2>7. Cardinality(B) >= Cardinality(A) + n
    BY <2>2, <2>4, <2>5, <2>6
  <2> QED
    BY <2>7 DEF A, B
<1> QED
  BY <1>7, <1>9, <1>11, <1>12

\* One announcement less.
LEMMA LessAnnouncing ==
    ASSUME NEW c \in Ctx, NEW q, c \in Announcing(q), Announcing(q)' = Announcing(q) \ {c}
    PROVE  Cardinality(Announcing(q)') = Cardinality(Announcing(q)) - 1
<1> DEFINE A == Announcing(q)
           B == Announcing(q)'
<1>1. IsFiniteSet(A)
  BY Counts
<1> HIDE DEF A
<1>2. Cardinality(A \ {c}) = Cardinality(A) - 1
  <2>1. c \in A
    BY DEF A
  <2> QED
    BY <1>1, <2>1, FS_RemoveElement
<1> QED
  BY <1>2 DEF A

\* Every step leaves each waiting call backed.
LEMMA BackedStep ==
    ASSUME Types, Types', PriorityInv, ControlInv, LockInv, QueueInv, BackedInv, Next
    PROVE  BackedInv'
<1>1. ASSUME NEW c \in Ctx, NEW k \in Call, Begin(c, k), pc[c] = "home" PROVE BackedInv'
  <2>1. /\ Became(c, IF k.blocking THEN "wait" ELSE "load", Awaits(k.dir), ret[c], k)
        /\ UNCHANGED <<queue, count, notify_cnt>>
    BY <1>1, BeginLocals DEF Begin, queues
  <2>2. ret[c] = "home"
    BY <1>1 DEF ControlInv, ControlOf
  <2>3. \A q : c \notin Coming(q) /\ c \notin Announcing(q)
    BY <1>1, <2>2 DEF Coming, Announcing, Asking
  <2> QED
    BY <2>1, <2>3, BackedAlone DEF Became
<1>2. ASSUME Switch PROVE BackedInv'
  <2>1. /\ \A c \in Ctx : pc'[c] = pc[c] \/ (c = cur /\ pc[c] = "yield" /\ pc'[c] = "wait")
        /\ UNCHANGED <<queue, wq, ret, call, count, notify_cnt>>
    BY <1>2 DEF Switch, pick_next, switch, queues
  <2>2. \A t \in Task : /\ Asking(t)' <=> Asking(t)
                        /\ Queued(t)' <=> Queued(t)
                        /\ pc'[t] = "enqueue" <=> pc[t] = "enqueue"
    BY <2>1, Contexts DEF Asking, Queued
  <2>3. \A q : /\ Coming(q)' = Coming(q)
               /\ Announcing(q)' = Announcing(q)
               /\ SomeoneWaits(q)' <=> SomeoneWaits(q)
    BY <2>1, <2>2 DEF Coming, Announcing, SomeoneWaits
  <2> QED
    BY <2>1, <2>3, BackedFrame DEF BackedInv
<1>3. ASSUME NEW c \in Ctx, WQStep(c) PROVE BackedInv'
  <2>0. count' = count
    BY <1>3 DEF WQStep
  <2>1. CASE notify_guard(c)
    <3>1. /\ Became(c, IF locked[wq[c]] THEN "pend" ELSE "pop", wq[c], "home", call[c])
          /\ UNCHANGED <<queue, notify_cnt>> /\ pc[c] = "notify"
      BY <1>3, <2>1, QueueLocals DEF notify_guard, At
    <3>2. \A q : /\ c \notin Coming(q)
                 /\ c \in Announcing(q) => c \in Announcing(q)'
      BY <3>1 DEF Coming, Announcing, Asking, Became, ControlInv, ControlOf
    <3> QED
      BY <2>0, <3>1, <3>2, BackedAlone DEF Became
  <2>2. CASE notify_full(c)
    <3>1. /\ Became(c, "leave", wq[c], ret[c], call[c])
          /\ pc[c] = "pop" /\ Inside(c) /\ Wake(wq[c], 1) /\ notify_cnt' = notify_cnt
      BY <1>3, <2>2, QueueLocals DEF notify_full, At, Inside
    <3>2. wq[c] \in WQ
      BY <3>1, WorksOn
    <3> SUFFICES ASSUME NEW d \in Dir PROVE Backed(d)'
      BY DEF BackedInv
    <3> DEFINE q == Awaits(d)
    <3>3. q \in WQ /\ Backed(d) /\ notify_cnt[q] \in Nat /\ Room(d, count) \in Nat
      <4>1. q \in WQ /\ Backed(d)
        BY Directions DEF BackedInv
      <4>2. notify_cnt[q] \in Nat /\ count \in 0 .. max_count
        BY <4>1 DEF Types
      <4> QED
        BY <4>1, <4>2, Rooms
    <3>4. /\ SomeoneWaits(q)' => queue'[q] # <<>> \/ q # wq[c]
          /\ SomeoneWaits(q)' => SomeoneWaits(q)
          /\ Coming(q) \subseteq Coming(q)'
          /\ q = wq[c] /\ queue'[q] # <<>> =>
                Cardinality(Coming(q)') >= Cardinality(Coming(q)) + 1
      BY <3>1, <3>2, <3>3, BackedWake
    <3>5. \A x \in Ctx : x # c => (x \in Announcing(q) <=> x \in Announcing(q)')
      BY <3>1 DEF Became, Others, Announcing
    <3>6. CASE q # wq[c]
      <4>1. c \notin Announcing(q)
        BY <3>6 DEF Announcing
      <4>2. Announcing(q) \subseteq Announcing(q)'
        BY <3>5, <4>1 DEF Announcing
      <4> QED
        BY <2>0, <3>1, <3>3, <3>4, <4>2, BackedFrame
    <3>7. CASE q = wq[c]
      <4>1. c \in Announcing(q) /\ c \notin Announcing(q)'
        BY <3>1, <3>7 DEF Announcing, Became
      <4>2. Announcing(q) \subseteq Ctx /\ Announcing(q)' \subseteq Ctx
        BY DEF Announcing
      <4>3. Announcing(q)' = Announcing(q) \ {c}
        BY <3>5, <4>1, <4>2
      <4>4. Cardinality(Announcing(q)') = Cardinality(Announcing(q)) - 1
        BY <4>1, <4>3, LessAnnouncing
      <4> SUFFICES ASSUME SomeoneWaits(q)'
                   PROVE  Room(d, count)' <= Cardinality(Coming(q)') + Cardinality(Announcing(q)')
                                             + notify_cnt'[q]
        BY DEF Backed
      <4>5. Room(d, count)' = Room(d, count) /\ notify_cnt'[q] = notify_cnt[q]
        BY <2>0, <3>1 DEF Room
      <4>6. Room(d, count) <= Cardinality(Coming(q)) + Cardinality(Announcing(q)) + notify_cnt[q]
        BY <3>3, <3>4 DEF Backed
      <4>7. Cardinality(Coming(q)') >= Cardinality(Coming(q)) + 1
        BY <3>4, <3>7
      <4>8. /\ Cardinality(Coming(q)) \in Nat /\ Cardinality(Coming(q)') \in Nat
            /\ Cardinality(Announcing(q)) \in Nat /\ Cardinality(Announcing(q)') \in Nat
        BY Counts
      <4> QED
        BY <3>3, <4>4, <4>5, <4>6, <4>7, <4>8
    <3> QED
      BY <3>6, <3>7
  <2>3. CASE notify_pend(c)
    <3>1. /\ Became(c, "home", NoQueue, "home", NoCall) /\ pc[c] = "pend" /\ Served(c)
          /\ queue' = queue /\ notify_cnt' = [notify_cnt EXCEPT ![wq[c]] = @ + 1]
      BY <1>3, <2>3, QueueLocals DEF notify_pend, At, Served
    <3>2. wq[c] \in WQ
      BY <3>1, WorksOn
    <3> SUFFICES ASSUME NEW d \in Dir PROVE Backed(d)'
      BY DEF BackedInv
    <3> DEFINE q == Awaits(d)
    <3>3. q \in WQ /\ Backed(d) /\ notify_cnt[q] \in Nat /\ Room(d, count) \in Nat
      BY Directions, Rooms DEF BackedInv, Types
    <3>4. /\ \A t \in Task : t # c => (t \in Coming(q) <=> t \in Coming(q)')
          /\ \A x \in Ctx : x # c => (x \in Announcing(q) <=> x \in Announcing(q)')
          /\ SomeoneWaits(q)' => SomeoneWaits(q)
      BY <3>1, MovesAlone DEF Became
    <3>5. Coming(q) \subseteq Coming(q)'
      <4>1. c \notin Coming(q)
        BY <3>1 DEF Coming, Asking
      <4> QED
        BY <3>4, <4>1 DEF Coming
    <3>6. CASE q # wq[c]
      <4>1. c \notin Announcing(q) /\ notify_cnt'[q] = notify_cnt[q]
        BY <3>1, <3>3, <3>6 DEF Announcing, Types
      <4>2. Announcing(q) \subseteq Announcing(q)'
        BY <3>4, <4>1 DEF Announcing
      <4> QED
        BY <2>0, <3>3, <3>4, <3>5, <4>1, <4>2, BackedFrame
    <3>7. CASE q = wq[c]
      <4>1. c \in Announcing(q) /\ c \notin Announcing(q)'
        BY <3>1, <3>7 DEF Announcing, Became
      <4>2. Announcing(q) \subseteq Ctx /\ Announcing(q)' \subseteq Ctx
        BY DEF Announcing
      <4>3. Announcing(q)' = Announcing(q) \ {c}
        BY <3>4, <4>1, <4>2
      <4>4. Cardinality(Announcing(q)') = Cardinality(Announcing(q)) - 1
        BY <4>1, <4>3, LessAnnouncing
      <4> SUFFICES ASSUME SomeoneWaits(q)'
                   PROVE  Room(d, count)' <= Cardinality(Coming(q)') + Cardinality(Announcing(q)')
                                             + notify_cnt'[q]
        BY DEF Backed
      <4>5. Room(d, count)' = Room(d, count) /\ notify_cnt'[q] = notify_cnt[q] + 1
        BY <2>0, <3>1, <3>3, <3>7 DEF Room, Types
      <4>6. Room(d, count) <= Cardinality(Coming(q)) + Cardinality(Announcing(q)) + notify_cnt[q]
        BY <3>3, <3>4 DEF Backed
      <4>7. Cardinality(Coming(q)) <= Cardinality(Coming(q)')
        BY <3>5, Counts
      <4>8. /\ Cardinality(Coming(q)) \in Nat /\ Cardinality(Coming(q)') \in Nat
            /\ Cardinality(Announcing(q)) \in Nat /\ Cardinality(Announcing(q)') \in Nat
        BY Counts
      <4> QED
        BY <3>3, <4>4, <4>5, <4>6, <4>7, <4>8
    <3> QED
      BY <3>6, <3>7
  <2>4. CASE run_pended_op(c)
    <3>1. /\ Became(c, "leave", wq[c], ret[c], call[c])
          /\ pc[c] = "leave" /\ Inside(c) /\ Wake(wq[c], notify_cnt[wq[c]])
          /\ notify_cnt' = [notify_cnt EXCEPT ![wq[c]] = 0]
      BY <1>3, <2>4, QueueLocals DEF run_pended_op, At, Inside
    <3>2. wq[c] \in WQ /\ notify_cnt[wq[c]] \in Nat
      BY <3>1, WorksOn DEF Types
    <3> SUFFICES ASSUME NEW d \in Dir PROVE Backed(d)'
      BY DEF BackedInv
    <3> DEFINE q == Awaits(d)
    <3>3. q \in WQ /\ Backed(d) /\ notify_cnt[q] \in Nat /\ Room(d, count) \in Nat
      BY Directions, Rooms DEF BackedInv, Types
    <3>8. PICK n \in Nat : n = notify_cnt[wq[c]]
      BY <3>2
    <3>4. /\ SomeoneWaits(q)' => queue'[q] # <<>> \/ q # wq[c]
          /\ SomeoneWaits(q)' => SomeoneWaits(q)
          /\ Coming(q) \subseteq Coming(q)'
          /\ q = wq[c] /\ queue'[q] # <<>> =>
                Cardinality(Coming(q)') >= Cardinality(Coming(q)) + n
      <4>1. Wake(wq[c], n)
        BY <3>1, <3>8
      <4> QED
        BY <3>1, <3>2, <3>3, <4>1, BackedWake
    <3>5. Announcing(q) \subseteq Announcing(q)'
      BY <3>1 DEF Became, Others, Announcing
    <3>6. CASE q # wq[c]
      <4>1. notify_cnt'[q] = notify_cnt[q]
        BY <3>1, <3>3, <3>6 DEF Types
      <4> QED
        BY <2>0, <3>3, <3>4, <3>5, <4>1, BackedFrame
    <3>7. CASE q = wq[c]
      <4> SUFFICES ASSUME SomeoneWaits(q)'
                   PROVE  Room(d, count)' <= Cardinality(Coming(q)') + Cardinality(Announcing(q)')
                                             + notify_cnt'[q]
        BY DEF Backed
      <4>5. Room(d, count)' = Room(d, count) /\ notify_cnt'[q] = 0 /\ n = notify_cnt[q]
        BY <2>0, <3>8, <3>1, <3>3, <3>7 DEF Room, Types
      <4>6. Room(d, count) <= Cardinality(Coming(q)) + Cardinality(Announcing(q)) + notify_cnt[q]
        BY <3>3, <3>4 DEF Backed
      <4>7. /\ Cardinality(Coming(q)') >= Cardinality(Coming(q)) + n
            /\ Cardinality(Announcing(q)) <= Cardinality(Announcing(q)')
        BY <3>4, <3>5, <3>7, Counts
      <4>8. /\ Cardinality(Coming(q)) \in Nat /\ Cardinality(Coming(q)') \in Nat
            /\ Cardinality(Announcing(q)) \in Nat /\ Cardinality(Announcing(q)') \in Nat
        BY Counts
      <4> QED
        BY <3>3, <4>5, <4>6, <4>7, <4>8
    <3> QED
      BY <3>6, <3>7
  <2>5. CASE leave(c)
    <3>1. pc[c] = "leave" /\ UNCHANGED <<queue, notify_cnt>>
      BY <2>5 DEF leave, At
    <3>2. Others(c) /\ (ret[c] = "home" => pc'[c] = "home")
          /\ (ret[c] # "home" => pc'[c] = ret[c] /\ wq'[c] = wq[c] /\ call'[c] = call[c])
      BY <1>3, <2>5, QueueLocals DEF Became
    <3>3. ret[c] \in {"home", "yield", "load"}
      BY <3>1 DEF ControlInv, ControlOf
    <3>4. Queued(c)' <=> Queued(c)
      BY <3>1 DEF Queued
    <3>5. \A q : /\ c \in Coming(q) => c \in Coming(q)'
                 /\ c \notin Announcing(q)
      BY <3>1, <3>2, <3>3, <3>4 DEF Coming, Asking, Announcing
    <3> QED
      BY <2>0, <3>1, <3>2, <3>3, <3>5, BackedAlone
  <2>6. CASE c \in Task /\ wait_guard(c)
    <3>1. pc[c] = "wait" /\ Running(c) /\ ~Inside(c) /\ Asking(c) /\ UNCHANGED <<queue, notify_cnt>>
      BY <2>6 DEF wait_guard, At, Inside, Asking
    <3>2. ~locked[wq[c]]
      BY <2>6, <3>1, TaskFindsUnlocked, WorksOn
    <3>3. Became(c, "cond", wq[c], ret[c], call[c])
      BY <1>3, <2>6, <3>2, QueueLocals
    <3>4. Queued(c)' <=> Queued(c)
      BY <3>1 DEF Queued
    <3>5. \A q : /\ c \in Coming(q) => c \in Coming(q)'
                 /\ c \notin Announcing(q)
      BY <3>1, <3>3, <3>4 DEF Coming, Asking, Announcing, Became
    <3> QED
      BY <2>0, <3>1, <3>3, <3>5, BackedAlone DEF Became
  <2>7. CASE c \in Task /\ wait_enqueue(c)
    <3>1. /\ Became(c, "leave", wq[c], ret[c], call[c]) /\ pc[c] = "enqueue" /\ Inside(c)
          /\ notify_cnt' = notify_cnt /\ queue' = [queue EXCEPT ![wq[c]] = Append(@, c)]
      BY <1>3, <2>7, QueueLocals DEF wait_enqueue, At, Inside
    <3>2. wq[c] \in WQ
      BY <3>1, WorksOn
    <3>3. /\ queue'[wq[c]] = Append(queue[wq[c]], c)
          /\ \A q \in WQ : q # wq[c] => queue'[q] = queue[q]
          /\ \A u : Has(Append(queue[wq[c]], c), u) <=> Has(queue[wq[c]], u) \/ u = c
      BY <2>7, <3>1, <3>2, AppendTask DEF Types
    <3>4. \A t \in Task : t # c /\ Queued(t)' => Queued(t)
      BY <3>3 DEF Queued
    <3>5. \A t \in Task : t # c => /\ pc'[t] = pc[t] /\ wq'[t] = wq[t]
                                   /\ call'[t] = call[t] /\ (Asking(t)' <=> Asking(t))
      BY <3>1, Contexts DEF Became, Others, Asking
    <3> SUFFICES ASSUME NEW d \in Dir PROVE Backed(d)'
      BY DEF BackedInv
    <3> DEFINE q == Awaits(d)
    <3>6. q \in WQ /\ Backed(d)
      BY Directions DEF BackedInv
    <3>7. SomeoneWaits(q)' => SomeoneWaits(q)
      <4>1. CASE q = wq[c]
        BY <2>7, <3>1, <4>1 DEF SomeoneWaits
      <4>2. CASE q # wq[c]
        BY <3>1, <3>3, <3>5, <3>6, <4>2 DEF SomeoneWaits, Became
      <4> QED
        BY <4>1, <4>2
    <3>8. Coming(q) \subseteq Coming(q)'
      BY <3>1, <3>4, <3>5 DEF Coming
    <3>9. Announcing(q) \subseteq Announcing(q)'
      BY <3>1 DEF Became, Others, Announcing
    <3> QED
      BY <2>0, <3>1, <3>6, <3>7, <3>8, <3>9, BackedFrame
  <2> QED
    BY <1>3, <2>1, <2>2, <2>3, <2>4, <2>5, <2>6, <2>7 DEF WQStep, WaitQueueStep
<1>4. ASSUME NEW c \in Ctx, wait_without_lock_until(c) PROVE BackedInv'
  <2>0. pc[c] = "cond" /\ UNCHANGED <<queue, count, notify_cnt>> /\ Asking(c)
    BY <1>4 DEF wait_without_lock_until, wait_condition, At, queues, Asking
  <2>1. call[c].dir \in Dir /\ wq[c] = Awaits(call[c].dir)
    BY <2>0, WorksOn
  <2>2. Queued(c)' <=> Queued(c)
    BY <2>0 DEF Queued
  <2>3. CASE Became(c, "leave", wq[c], "load", call[c])
    <3>1. \A q : /\ c \in Coming(q) => c \in Coming(q)'
                 /\ c \notin Announcing(q)
      BY <2>0, <2>2, <2>3 DEF Coming, Asking, Announcing, Became
    <3> QED
      BY <2>0, <2>3, <3>1, BackedAlone DEF Became
  <2>4. CASE ~(Room(call[c].dir, count) > 0) /\ Became(c, "enqueue", wq[c], "yield", call[c])
    <3> SUFFICES ASSUME NEW d \in Dir PROVE Backed(d)'
      BY DEF BackedInv
    <3> DEFINE q == Awaits(d)
    <3>1. q \in WQ /\ Backed(d) /\ notify_cnt[q] \in Nat /\ Room(d, count) \in Nat
      BY Directions, Rooms DEF BackedInv, Types
    <3>2. CASE d = call[c].dir
      <4>1. Room(d, count)' = 0 /\ notify_cnt'[q] = notify_cnt[q]
        BY <2>0, <2>4, <3>1, <3>2 DEF Room
      <4>2. Cardinality(Coming(q)') \in Nat /\ Cardinality(Announcing(q)') \in Nat
        BY Counts
      <4>3. Room(d, count)' <= Cardinality(Coming(q)') + Cardinality(Announcing(q)') + notify_cnt'[q]
        BY <3>1, <4>1, <4>2
      <4> QED
        BY <4>3 DEF Backed
    <3>3. CASE d # call[c].dir
      <4>1. q # wq[c]
        BY <2>1, <3>3, Directions
      <4>2. /\ \A t \in Task : t # c => (t \in Coming(q) <=> t \in Coming(q)')
            /\ \A x \in Ctx : x # c => (x \in Announcing(q) <=> x \in Announcing(q)')
            /\ SomeoneWaits(q)' => SomeoneWaits(q)
        BY <2>0, <2>4, <4>1, MovesAlone DEF Became
      <4>3. c \notin Coming(q) /\ c \notin Announcing(q)
        BY <4>1 DEF Coming, Announcing
      <4>4. Coming(q) \subseteq Coming(q)' /\ Announcing(q) \subseteq Announcing(q)'
        BY <4>2, <4>3 DEF Coming, Announcing
      <4> QED
        BY <2>0, <3>1, <4>2, <4>4, BackedFrame
    <3> QED
      BY <3>2, <3>3
  <2> QED
    BY <1>4, <2>3, <2>4, CallLocals
<1>5. ASSUME NEW c \in Ctx, load(c) PROVE BackedInv'
  <2>0. pc[c] = "load" /\ UNCHANGED <<queue, count, notify_cnt>>
    BY <1>5 DEF load, At, queues
  <2>1. Queued(c)' <=> Queued(c)
    BY <2>0 DEF Queued
  <2>2. CASE \/ Became(c, "cas", wq[c], ret[c], call[c])
             \/ Became(c, "wait", wq[c], ret[c], call[c])
    <3>1. \A q : /\ c \in Coming(q) => c \in Coming(q)'
                 /\ c \notin Announcing(q)
      BY <2>0, <2>1, <2>2 DEF Coming, Asking, Announcing, Became
    <3> QED
      BY <2>0, <2>2, <3>1, BackedAlone DEF Became
  <2>3. CASE ~call[c].blocking /\ Became(c, "home", NoQueue, "home", NoCall)
    <3>1. \A q : c \notin Coming(q) /\ c \notin Announcing(q)
      BY <2>0, <2>3 DEF Coming, Announcing
    <3> QED
      BY <2>0, <2>3, <3>1, BackedAlone DEF Became
  <2> QED
    BY <1>5, <2>2, <2>3, CallLocals
<1>6. ASSUME NEW c \in Ctx, compare_exchange(c) PROVE BackedInv'
  <2>0. pc[c] = "cas" /\ UNCHANGED <<queue, notify_cnt>> /\ Asking(c)
    BY <1>6 DEF compare_exchange, At, queues, Asking
  <2>1. Queued(c)' <=> Queued(c)
    BY <2>0 DEF Queued
  <2>2. CASE count # seen[c]
    <3>1. Became(c, Retry(c), wq[c], ret[c], call[c]) /\ count' = count
      BY <1>6, <2>2, CallLocals DEF compare_exchange
    <3>2. Retry(c) \in {"wait", "load"}
      BY DEF Retry
    <3>3. \A q : /\ c \in Coming(q) => c \in Coming(q)'
                 /\ c \notin Announcing(q)
      BY <2>0, <2>1, <3>1, <3>2 DEF Coming, Asking, Announcing, Became
    <3> QED
      BY <2>0, <3>1, <3>2, <3>3, BackedAlone DEF Became
  <2>3. CASE count = seen[c]
    <3>1. Became(c, "notify", Announces(call[c].dir), ret[c], call[c])
      BY <1>6, <2>3, CallLocals
    <3>2. /\ call[c].dir \in Dir /\ wq[c] = Awaits(call[c].dir)
          /\ Room(call[c].dir, count) > 0 /\ count' = Changed(call[c].dir, count)
      BY <1>6, <2>0, <2>3, WorksOn DEF ControlInv, ControlOf, compare_exchange
    <3> SUFFICES ASSUME NEW d \in Dir PROVE Backed(d)'
      BY DEF BackedInv
    <3> DEFINE q == Awaits(d)
               C == Coming(q)
               C1 == Coming(q)'
               A == Announcing(q)
               A1 == Announcing(q)'
    <3>3. q \in WQ /\ Backed(d) /\ notify_cnt[q] \in Nat /\ Room(d, count) \in Nat
      BY Directions, Rooms DEF BackedInv, Types
    <3>4. /\ \A t \in Task : t # c => (t \in C <=> t \in C1)
          /\ \A x \in Ctx : x # c => (x \in A <=> x \in A1)
          /\ SomeoneWaits(q)' => SomeoneWaits(q)
          /\ C \subseteq Task /\ A \subseteq Ctx
      BY <2>0, <3>1, MovesAlone DEF Became, Coming, Announcing
    <3>5. c \notin A
      BY <2>0 DEF Announcing
    <3>6. /\ IsFiniteSet(C) /\ IsFiniteSet(C1) /\ IsFiniteSet(A) /\ IsFiniteSet(A1)
          /\ Cardinality(C) \in Nat /\ Cardinality(C1) \in Nat
          /\ Cardinality(A) \in Nat /\ Cardinality(A1) \in Nat
      BY Counts
    <3> SUFFICES ASSUME SomeoneWaits(q)'
                 PROVE  Room(d, count)' <= Cardinality(C1) + Cardinality(A1) + notify_cnt'[q]
      BY DEF Backed
    <3>7. Room(d, count) <= Cardinality(C) + Cardinality(A) + notify_cnt[q]
          /\ notify_cnt'[q] = notify_cnt[q]
      BY <2>0, <3>3, <3>4 DEF Backed
    <3>8. CASE d = call[c].dir
      <4>1. Room(d, count)' = Room(d, count) - 1
        BY <3>2, <3>8, Rooms DEF Types, Room
      <4>2. A \subseteq A1 /\ C \ {c} \subseteq C1
        BY <3>4, <3>5
      <4> HIDE DEF C, C1, A, A1
      <4>3. Cardinality(A) <= Cardinality(A1)
        BY <3>6, <4>2, FS_Subset
      <4>4. Cardinality(C \ {c}) >= Cardinality(C) - 1 /\ Cardinality(C \ {c}) \in Nat
        <5>1. /\ IsFiniteSet(C \ {c})
              /\ Cardinality(C \ {c}) = IF c \in C THEN Cardinality(C) - 1 ELSE Cardinality(C)
          BY <3>6, FS_RemoveElement
        <5>2. Cardinality(C \ {c}) \in Nat
          BY <5>1, FS_CardinalityType
        <5> QED
          BY <3>6, <5>1, <5>2
      <4>5. Cardinality(C \ {c}) <= Cardinality(C1)
        BY <3>6, <4>2, FS_Subset
      <4> QED
        BY <3>3, <3>6, <3>7, <4>1, <4>3, <4>4, <4>5
    <3>9. CASE d # call[c].dir
      <4>0. d = Other(call[c].dir) /\ q # wq[c] /\ q = Announces(call[c].dir)
        BY <3>2, <3>9, Directions
      <4>1. Room(d, count)' = Room(d, count) + 1
        BY <3>2, <4>0, Rooms DEF Types, Room
      <4>2. c \in A1
        BY <3>1, <4>0 DEF Announcing, Became
      <4>3. A \union {c} \subseteq A1
        BY <3>4, <4>2
      <4>4. c \notin C
        BY <4>0 DEF Coming
      <4>5. C \subseteq C1
        BY <3>4, <4>4
      <4> HIDE DEF C, C1, A, A1
      <4>6. Cardinality(A \union {c}) = Cardinality(A) + 1 /\ IsFiniteSet(A \union {c})
        BY <3>5, <3>6, FS_AddElement
      <4>7. Cardinality(A \union {c}) <= Cardinality(A1)
        BY <3>6, <4>3, FS_Subset
      <4>8. Cardinality(C) <= Cardinality(C1)
        BY <3>6, <4>5, FS_Subset
      <4> QED
        BY <3>3, <3>6, <3>7, <4>1, <4>6, <4>7, <4>8
    <3> QED
      BY <3>8, <3>9
  <2> QED
    BY <2>2, <2>3
<1>7. ASSUME NEW t \in Task, NEW k \in Call, task_call(t, k) PROVE BackedInv'
  BY <1>1, <1>7, Contexts DEF task_call, At
<1>8. ASSUME NEW e \in Irq, NEW k \in Call, irq_call(e, k) PROVE BackedInv'
  <2>1. pc[e] = "home"
    BY <1>8, Contexts DEF irq_call, Arrives
  <2> QED
    BY <1>1, <1>8, <2>1, Contexts DEF irq_call
<1> QED
  BY <1>2, <1>3, <1>4, <1>5, <1>6, <1>7, <1>8, Contexts DEF Next, Step, WQStep

-----------------------------------------------------------------------------
\* The initial state satisfies the inductive invariant.
LEMMA Initially == Init => IInv
<1> SUFFICES ASSUME Init PROVE IInv
  OBVIOUS
<1>1. /\ cur = Idle /\ state = [t \in Task |-> "Ready"] /\ pc = [c \in Ctx |-> "home"]
      /\ queue = [q \in WQ |-> <<>>] /\ notify_cnt = [q \in WQ |-> 0]
      /\ locked = [q \in WQ |-> FALSE] /\ wq = [c \in Ctx |-> NoQueue]
      /\ ret = [c \in Ctx |-> "home"] /\ priority = Priority /\ count = init_count
      /\ call = [c \in Ctx |-> NoCall] /\ seen = [c \in Ctx |-> 0]
  BY DEF Init, InitWaitQueue, InitCore
<1>2. TypeOK
  <2>1. Types
    BY <1>1, CountAssumption, CallFields DEF Types
  <2> QED
    BY <2>1, TypesOf
<1>3. ControlInv
  BY <1>1 DEF ControlInv, ControlOf, Asking, Served, NoCall
<1>4. LockInv
  BY <1>1, Contexts DEF LockInv, Inside, SuspendedSteps
<1>5. QueueInv
  BY <1>1 DEF QueueInv, Distinct, Has
<1>6. BackedInv
  BY <1>1, Contexts, Directions DEF BackedInv, Backed, SomeoneWaits
<1> QED
  BY <1>1, <1>2, <1>3, <1>4, <1>5, <1>6 DEF IInv, PriorityInv

\* The conjunction is inductive, for any tasks, priorities, interrupt levels and limits.
THEOREM Invariance == Spec => []IInv
<1>1. ASSUME IInv, [Next]_vars PROVE IInv'
  <2>0. Types /\ PriorityInv /\ ControlInv /\ LockInv /\ QueueInv /\ BackedInv
    BY <1>1, TypesOf DEF IInv
  <2>1. CASE Next
    <3>1. Types'
      BY <2>0, <2>1, TypeStep
    <3>2. TypeOK'
      BY <3>1, TypesOf, PTL
    <3>3. PriorityInv'
      BY <2>0, <2>1 DEF PriorityInv, Next, Step, Switch
    <3>4. ControlInv' /\ LockInv' /\ QueueInv' /\ BackedInv'
      BY <2>0, <2>1, <3>1, ControlStep, LockStep, QueueStep, BackedStep
    <3> QED
      BY <3>2, <3>3, <3>4 DEF IInv
  <2>2. CASE UNCHANGED vars
    <3>1. UNCHANGED <<cur, state, queue, notify_cnt, locked, pc, wq, ret, priority, count, call, seen>>
      BY <2>2 DEF vars, wqvars, queues
    <3>2. TypeOK'
      BY <1>1, <3>1 DEF IInv, TypeOK, TypeOKWaitQueue, TypeOKCore
    <3>3. PriorityInv' /\ ControlInv' /\ LockInv' /\ QueueInv'
      BY <2>0, <3>1 DEF PriorityInv, ControlInv, ControlOf, Asking, Served, LockInv, Inside,
         QueueInv, Waits
    <3>4. \A d \in Dir : /\ SomeoneWaits(Awaits(d))' <=> SomeoneWaits(Awaits(d))
                         /\ Coming(Awaits(d))' = Coming(Awaits(d))
                         /\ Announcing(Awaits(d))' = Announcing(Awaits(d))
      BY <3>1 DEF SomeoneWaits, Coming, Announcing, Queued, Asking
    <3>5. BackedInv'
      BY <2>0, <3>1, <3>4 DEF BackedInv, Backed, Room
    <3> QED
      BY <3>2, <3>3, <3>5 DEF IInv
  <2> QED
    BY <1>1, <2>1, <2>2
<1> QED
  BY <1>1, Initially, PTL DEF Spec

\* Every variable keeps its type; in particular the counter stays between 0 and
\* max_count whoever races for it.
THEOREM TypeCorrectness == Spec => []TypeOK
<1>1. IInv => TypeOK
  BY DEF IInv
<1> QED
  BY <1>1, Invariance, PTL

\* No wake-up is lost (wait_queue.rs, l. 180): whenever a task sits in a queue, as
\* many calls as the counter allows are under way or still being announced.
THEOREM NoWakeupIsLost == Spec => []NoLostWakeup
<1>1. IInv => NoLostWakeup
  <2> SUFFICES ASSUME IInv, NEW d \in Dir, queue[Awaits(d)] # <<>>
               PROVE  Room(d, count) <= Cardinality(UnderWay(d))
                                        + Cardinality(Announcing(Awaits(d)))
                                        + notify_cnt[Awaits(d)]
    BY DEF NoLostWakeup
  <2> DEFINE q == Awaits(d)
             U == UnderWay(d)
             C == Coming(q)
  <2>0. Types /\ ControlInv /\ BackedInv /\ q \in WQ
    BY TypesOf, Directions DEF IInv
  <2>1. C \subseteq U
    <3> SUFFICES ASSUME NEW t \in Task, t \in C PROVE t \in U
      BY DEF Coming
    <3>1. wq[t] = q /\ call[t].blocking /\ ~Queued(t) /\ Asking(t) /\ t \in Ctx
      BY Contexts DEF Coming
    <3>2. call[t].dir = d /\ call[t] \in Call
      BY <2>0, <3>1, WorksOn, Directions DEF Types
    <3>3. call[t] = [dir |-> d, blocking |-> TRUE]
      BY <3>1, <3>2 DEF Call
    <3>4. ~InQueue(t)
      <4> SUFFICES ASSUME NEW p \in WQ, Contains(queue[p], t) PROVE FALSE
        BY DEF InQueue
      <4>1. queue[p] \in Seq(Task)
        BY <2>0 DEF Types
      <4>2. Has(queue[p], t)
        BY <4>1 DEF Contains, Has
      <4> QED
        BY <3>1, <4>2 DEF Queued
    <3> QED
      BY <3>1, <3>3, <3>4 DEF UnderWay, Asking
  <2>2. U \subseteq Task
    BY DEF UnderWay
  <2>3. Room(d, count) <= Cardinality(C) + Cardinality(Announcing(q)) + notify_cnt[q]
    BY <2>0 DEF BackedInv, Backed, SomeoneWaits
  <2>4. /\ Cardinality(C) \in Nat /\ Cardinality(Announcing(q)) \in Nat /\ notify_cnt[q] \in Nat
        /\ Room(d, count) \in Nat
    BY <2>0, Counts, Rooms DEF Types
  <2> HIDE DEF C, U
  <2>5. IsFiniteSet(U) /\ Cardinality(U) \in Nat /\ Cardinality(C) <= Cardinality(U)
    BY <2>1, <2>2, Contexts, FS_Subset, FS_CardinalityType
  <2>6. Room(d, count) <= Cardinality(U) + Cardinality(Announcing(q)) + notify_cnt[q]
    BY <2>3, <2>4, <2>5
  <2> QED
    BY <2>6 DEF U
<1> QED
  BY <1>1, Invariance, PTL

-----------------------------------------------------------------------------
(***************************************************************************)
(* Refinement.  The linearisation point of a call is its successful        *)
(* compare_exchange; a try_ call that gives up does so at its load.        *)
(***************************************************************************)
PhaseOf(c) == IF pc[c] = "home" THEN <<"out">>
              ELSE IF Served(c) THEN <<"served", call[c]>>
              ELSE <<"asked", call[c]>>

Phases == [c \in Ctx |-> PhaseOf(c)]

\* The phase of a context that stands still does not change.
LEMMA PhaseFrame ==
    ASSUME NEW c \in Ctx, Others(c)
    PROVE  Phases' = [Phases EXCEPT ![c] = PhaseOf(c)']
<1>1. \A d \in Ctx : d # c => PhaseOf(d)' = PhaseOf(d)
  BY DEF Others, PhaseOf, Served
<1> QED
  BY <1>1 DEF Phases

\* The semaphore of semaphore.rs implements CountingSemaphore: every call takes
\* effect exactly once between its begin and its return, in spite of retries,
\* wake-ups and interrupts, and a try_ call fails only at the limit.
THEOREM SemaphoreCounts == Spec => ImplementsCounting
<1>1. Init => Counting!Init
  BY DEF Init, InitWaitQueue, InitCore, Counting!Init
<1>2. ASSUME IInv, [Next]_vars PROVE [Counting!Next]_<<count, Phases>>
  <2>0. Types /\ ControlInv /\ LockInv
    BY <1>2, TypesOf DEF IInv
  <2>a. ASSUME NEW c \in Ctx, Others(c), PhaseOf(c)' = PhaseOf(c), count' = count
        PROVE  UNCHANGED <<count, Phases>>
    <3>1. Phases' = [Phases EXCEPT ![c] = Phases[c]]
      BY <2>a, PhaseFrame DEF Phases
    <3> QED
      BY <2>a, <3>1 DEF Phases
  <2>b. \A c \in Ctx : Phases[c] = PhaseOf(c) /\ call[c] \in Call /\ call[c].dir \in Dir
    BY <2>0, CallFields DEF Phases, Types
  <2>1. ASSUME NEW c \in Ctx, NEW k \in Call, Begin(c, k), pc[c] = "home"
        PROVE  Counting!Ask(c, k)
    <3>1. Became(c, IF k.blocking THEN "wait" ELSE "load", Awaits(k.dir), ret[c], k)
      BY <2>0, <2>1, BeginLocals
    <3>2. PhaseOf(c) = <<"out">> /\ PhaseOf(c)' = <<"asked", k>> /\ count' = count
      BY <2>1, <3>1 DEF PhaseOf, Served, Became, Begin
    <3>3. Phases' = [Phases EXCEPT ![c] = <<"asked", k>>]
      BY <3>1, <3>2, PhaseFrame DEF Became
    <3> QED
      BY <2>b, <3>2, <3>3 DEF Counting!Ask, Phases, PhaseOf
  <2>2. ASSUME Switch PROVE UNCHANGED <<count, Phases>>
    <3>1. /\ \A c \in Ctx : pc'[c] = pc[c] \/ (pc[c] = "yield" /\ pc'[c] = "wait")
          /\ UNCHANGED <<ret, call, count>>
      BY <2>2 DEF Switch, pick_next, switch
    <3>2. \A c \in Ctx : PhaseOf(c)' = PhaseOf(c)
      BY <3>1 DEF PhaseOf, Served
    <3> QED
      BY <3>1, <3>2 DEF Phases
  <2>3. ASSUME NEW c \in Ctx, NEW k \in Call, k = call[c], WQStep(c)
        PROVE  Counting!Return(c, k) \/ UNCHANGED <<count, Phases>>
    <3>0. ControlOf(c) /\ count' = count
      BY <2>0, <2>3 DEF ControlInv, WQStep
    <3>1. CASE notify_pend(c) \/ (leave(c) /\ ret[c] = "home")
      <4>1. Became(c, "home", NoQueue, "home", NoCall)
        BY <2>0, <2>3, <3>1, QueueLocals
      <4>2. PhaseOf(c) = <<"served", call[c]>> /\ PhaseOf(c)' = <<"out">>
        BY <3>1, <4>1 DEF PhaseOf, Served, Became, notify_pend, leave, At
      <4>3. Phases' = [Phases EXCEPT ![c] = <<"out">>]
        BY <4>1, <4>2, PhaseFrame DEF Became
      <4> QED
        BY <2>b, <2>3, <3>0, <4>2, <4>3 DEF Counting!Return, Phases, PhaseOf
    <3>2. CASE notify_guard(c) \/ notify_full(c)
      <4>1. /\ Others(c) /\ call'[c] = call[c] /\ pc'[c] \in {"pend", "pop", "leave"}
            /\ ret'[c] = "home" /\ pc[c] \in {"notify", "pop"}
        BY <2>0, <2>3, <3>0, <3>2, QueueLocals DEF Became, notify_guard, notify_full, At, ControlOf
      <4>2. PhaseOf(c)' = PhaseOf(c)
        BY <4>1 DEF PhaseOf, Served
      <4> QED
        BY <2>a, <3>0, <4>1, <4>2
    <3>3. CASE run_pended_op(c) \/ wait_enqueue(c)
      <4>1. Became(c, "leave", wq[c], ret[c], call[c]) /\ pc[c] \in {"leave", "enqueue"}
        BY <2>0, <2>3, <3>3, QueueLocals DEF run_pended_op, wait_enqueue, At
      <4>2. PhaseOf(c)' = PhaseOf(c)
        BY <3>0, <4>1 DEF PhaseOf, Served, Became, ControlOf
      <4> QED
        BY <2>a, <3>0, <4>1, <4>2 DEF Became
    <3>4. CASE leave(c) /\ ret[c] # "home"
      <4>1. Became(c, ret[c], wq[c], "home", call[c]) /\ pc[c] = "leave"
        BY <2>0, <2>3, <3>4, QueueLocals DEF leave, At
      <4>2. ret[c] \in {"yield", "load"}
        BY <3>0, <3>4, <4>1 DEF ControlOf
      <4>3. PhaseOf(c)' = PhaseOf(c)
        BY <3>4, <4>1, <4>2 DEF PhaseOf, Served, Became
      <4> QED
        BY <2>a, <3>0, <4>1, <4>3 DEF Became
    <3>5. CASE wait_guard(c)
      <4>1. /\ Others(c) /\ call'[c] = call[c] /\ pc'[c] \in {"hang", "cond"} /\ pc[c] = "wait"
        BY <2>0, <2>3, <3>5, QueueLocals DEF Became, wait_guard, At
      <4>2. PhaseOf(c)' = PhaseOf(c)
        BY <4>1 DEF PhaseOf, Served
      <4> QED
        BY <2>a, <3>0, <4>1, <4>2
    <3> QED
      BY <2>3, <3>1, <3>2, <3>3, <3>4, <3>5 DEF WQStep, WaitQueueStep
  <2>4. ASSUME NEW c \in Ctx, wait_without_lock_until(c) PROVE UNCHANGED <<count, Phases>>
    <3>1. /\ \/ Became(c, "leave", wq[c], "load", call[c])
             \/ Became(c, "enqueue", wq[c], "yield", call[c])
          /\ pc[c] = "cond" /\ count' = count
      BY <2>0, <2>4, CallLocals DEF wait_without_lock_until, wait_condition, At
    <3>2. PhaseOf(c)' = PhaseOf(c)
      BY <3>1 DEF PhaseOf, Served, Became
    <3> QED
      BY <2>a, <3>1, <3>2 DEF Became
  <2>5. ASSUME NEW c \in Ctx, NEW k \in Call, k = call[c], load(c)
        PROVE  Counting!Refuse(c, k) \/ UNCHANGED <<count, Phases>>
    <3>0. pc[c] = "load" /\ count' = count
      BY <2>5 DEF load, At
    <3>1. CASE \/ Became(c, "cas", wq[c], ret[c], call[c])
               \/ Became(c, "wait", wq[c], ret[c], call[c])
      <4>1. PhaseOf(c)' = PhaseOf(c)
        BY <3>0, <3>1 DEF PhaseOf, Served, Became
      <4> QED
        BY <2>a, <3>0, <3>1, <4>1 DEF Became
    <3>2. CASE /\ Room(call[c].dir, count) = 0 /\ ~call[c].blocking
               /\ Became(c, "home", NoQueue, "home", NoCall)
      <4>1. PhaseOf(c) = <<"asked", call[c]>> /\ PhaseOf(c)' = <<"out">>
        BY <3>0, <3>2 DEF PhaseOf, Served, Became
      <4>2. Phases' = [Phases EXCEPT ![c] = <<"out">>]
        BY <3>2, <4>1, PhaseFrame DEF Became
      <4>3. Counting!Room(call[c].dir) = 0
        BY <3>2 DEF Counting!Room, Room
      <4> QED
        BY <2>b, <2>5, <3>0, <3>2, <4>1, <4>2, <4>3 DEF Counting!Refuse, Phases, PhaseOf
    <3> QED
      BY <2>0, <2>5, <3>1, <3>2, CallLocals
  <2>6. ASSUME NEW c \in Ctx, NEW k \in Call, k = call[c], compare_exchange(c)
        PROVE  Counting!Serve(c, k) \/ UNCHANGED <<count, Phases>>
    <3>0. pc[c] = "cas" /\ ControlOf(c)
      BY <2>0, <2>6 DEF compare_exchange, At, ControlInv
    <3>1. CASE count = seen[c]
      <4>1. Became(c, "notify", Announces(call[c].dir), ret[c], call[c])
        BY <2>0, <2>6, <3>1, CallLocals
      <4>2. PhaseOf(c) = <<"asked", call[c]>> /\ PhaseOf(c)' = <<"served", call[c]>>
        BY <3>0, <4>1 DEF PhaseOf, Served, Became
      <4>3. Phases' = [Phases EXCEPT ![c] = <<"served", call[c]>>]
        BY <4>1, <4>2, PhaseFrame DEF Became
      <4>4. Counting!Room(call[c].dir) > 0
        BY <3>0, <3>1 DEF ControlOf, Counting!Room, Room
      <4>5. count' = IF call[c].dir = "down" THEN count - 1 ELSE count + 1
        BY <2>6, <3>1 DEF compare_exchange, Changed
      <4> QED
        BY <2>b, <2>6, <4>2, <4>3, <4>4, <4>5 DEF Counting!Serve, Phases, PhaseOf
    <3>2. CASE count # seen[c]
      <4>1. Became(c, Retry(c), wq[c], ret[c], call[c]) /\ count' = count
        BY <2>0, <2>6, <3>2, CallLocals DEF compare_exchange
      <4>2. PhaseOf(c)' = PhaseOf(c)
        BY <3>0, <4>1 DEF PhaseOf, Served, Became, Retry
      <4> QED
        BY <2>a, <4>1, <4>2 DEF Became
    <3> QED
      BY <3>1, <3>2
  <2>7. ASSUME NEW c \in Ctx, NEW k \in Call,
               Counting!Ask(c, k) \/ Counting!Serve(c, k) \/ Counting!Refuse(c, k) \/ Counting!Return(c, k)
        PROVE  Counting!Next
    <3>1. k \in Counting!Call
      BY DEF Call, Dir, Counting!Call
    <3> QED
      BY <2>7, <3>1 DEF Counting!Next
  <2>8. ASSUME NEW t \in Task, NEW k \in Call, task_call(t, k) PROVE Counting!Next
    BY <2>1, <2>7, <2>8, Contexts DEF task_call, At
  <2>9. ASSUME NEW e \in Irq, NEW k \in Call, irq_call(e, k) PROVE Counting!Next
    <3>1. pc[e] = "home"
      BY <2>9, Contexts DEF irq_call, Arrives
    <3> QED
      BY <2>1, <2>7, <2>9, <3>1, Contexts DEF irq_call
  <2>10. CASE UNCHANGED vars
    BY <2>10 DEF vars, wqvars, Phases, PhaseOf, Served
  <2>11. ASSUME NEW c \in Ctx, Step(c) PROVE Counting!Next \/ UNCHANGED <<count, Phases>>
    <3>1. call[c] \in Call
      BY <2>b
    <3>2. PICK k \in Call : k = call[c]
      BY <3>1
    <3>3. \/ Counting!Serve(c, k) \/ Counting!Refuse(c, k) \/ Counting!Return(c, k)
          \/ UNCHANGED <<count, Phases>>
      BY <2>3, <2>4, <2>5, <2>6, <2>11, <3>2 DEF Step, WQStep
    <3> QED
      BY <2>7, <3>3
  <2> QED
    BY <1>2, <2>2, <2>8, <2>9, <2>10, <2>11 DEF Next
<1> QED
  BY <1>1, <1>2, Invariance, PTL DEF Spec, ImplementsCounting, Counting!Spec, Phases, PhaseOf
=============================================================================
