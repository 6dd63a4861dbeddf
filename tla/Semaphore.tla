----------------------------- MODULE Semaphore -----------------------------
(***************************************************************************)
(* The semaphore of src/sync/semaphore.rs on two condition variables       *)
(* (src/sync/condvar.rs), each a WaitQueue: down waits for an increment    *)
(* and announces a decrement, up the other way round.  The counter itself  *)
(* is outside the locks: it is loaded, and changed by a compare_exchange   *)
(* that fails if somebody changed it in between.                           *)
(***************************************************************************)
EXTENDS WaitQueue

CONSTANTS
    Priority,    \* of each task
    max_count, init_count,
    MaxNotify    \* bound: no interrupt arrives while so many are pended

ASSUME CountAssumption ==
    max_count \in Nat /\ init_count \in Nat /\ init_count <= max_count

ASSUME PriorityAssumption == Priority \in [Task -> Nat]

ASSUME CondVarAssumption == WQ = {"cv_incremented", "cv_decremented"}

VARIABLES
    count,   \* Semaphore::count
    call,    \* the call each context is in
    seen     \* cur_cnt of that call

vars == <<wqvars, priority, count, call, seen>>

Dir == {"up", "down"}
Call == [dir : Dir, blocking : BOOLEAN]
NoCall == [dir |-> "up", blocking |-> FALSE]

Awaits(d) == IF d = "down" THEN "cv_incremented" ELSE "cv_decremented"
Announces(d) == IF d = "down" THEN "cv_decremented" ELSE "cv_incremented"

\* How many calls in direction d the counter value n allows.
Room(d, n) == IF d = "down" THEN n ELSE max_count - n

Changed(d, n) == IF d = "down" THEN n - 1 ELSE n + 1

Init ==
    /\ InitWaitQueue
    /\ priority = Priority
    /\ count = init_count
    /\ call = [c \in Ctx |-> NoCall]
    /\ seen = [c \in Ctx |-> 0]

\* Back to the head of the loop: a blocking call waits again.
Retry(c) == IF call[c].blocking THEN "wait" ELSE "load"

-----------------------------------------------------------------------------
(***************************************************************************)
(* Faults: what a plausible mistake in semaphore.rs would make of an       *)
(* action below.  No specification uses them.                              *)
(***************************************************************************)
\* The counter is changed by a store: an update in between is overwritten.
store_change(c) ==
    /\ At(c, "cas")
    /\ count' = Changed(call[c].dir, seen[c])
    /\ wq' = [wq EXCEPT ![c] = Announces(call[c].dir)]
    /\ Goto(c, "notify")
    /\ seen' = [seen EXCEPT ![c] = 0]
    /\ UNCHANGED <<cur, state, queues, ret, call>>

-----------------------------------------------------------------------------
\* A task calls up, down, try_up_allow_isr or try_down_allow_isr ...
Begin(c, k) ==
    /\ call' = [call EXCEPT ![c] = k]
    /\ wq' = [wq EXCEPT ![c] = Awaits(k.dir)]
    /\ Goto(c, IF k.blocking THEN "wait" ELSE "load")
    /\ UNCHANGED <<cur, state, queues, ret, count, seen>>

task_call(t, k) == At(t, "home") /\ Begin(t, k)

\* ... and an interrupt handler one of the latter two.
irq_call(e, k) ==
    /\ ~k.blocking
    /\ \A q \in WQ : notify_cnt[q] < MaxNotify
    /\ Arrives(e)
    /\ Begin(e, k)

\* CondVar::wait_without_lock_until with the predicate of up and down.
wait_without_lock_until(t) ==
    /\ wait_condition(t, Room(call[t].dir, count) > 0, "load")
    /\ UNCHANGED <<count, call, seen>>

load(c) ==
    /\ At(c, "load")
    /\ \/ /\ Room(call[c].dir, count) > 0
          /\ seen' = [seen EXCEPT ![c] = count]
          /\ Goto(c, "cas")
          /\ UNCHANGED <<wq, ret, call>>
       \/ /\ Room(call[c].dir, count) = 0 /\ call[c].blocking
          /\ Goto(c, "wait")
          /\ UNCHANGED <<wq, ret, call, seen>>
       \/ /\ Room(call[c].dir, count) = 0 /\ ~call[c].blocking
          /\ Return(c)
          /\ call' = [call EXCEPT ![c] = NoCall]
          /\ UNCHANGED seen
    /\ UNCHANGED <<cur, state, queues, count>>

compare_exchange(c) ==
    /\ At(c, "cas")
    /\ IF count = seen[c]
         THEN /\ count' = Changed(call[c].dir, seen[c])
              /\ wq' = [wq EXCEPT ![c] = Announces(call[c].dir)]
              /\ Goto(c, "notify")
         ELSE /\ Goto(c, Retry(c))
              /\ UNCHANGED <<count, wq>>
    /\ seen' = [seen EXCEPT ![c] = 0]
    /\ UNCHANGED <<cur, state, queues, ret, call>>

-----------------------------------------------------------------------------
Step(c) ==
    /\ \/ /\ WaitQueueStep(c)
          /\ call' = IF pc'[c] = "home" THEN [call EXCEPT ![c] = NoCall] ELSE call
          /\ UNCHANGED <<count, seen>>
       \/ c \in Task /\ wait_without_lock_until(c)
       \/ load(c)
       \/ compare_exchange(c)
    /\ UNCHANGED priority

Switch == pick_next /\ UNCHANGED <<priority, count, call, seen>>

Next ==
    \/ \E c \in Ctx : Step(c)
    \/ \E t \in Task, k \in Call : task_call(t, k) /\ UNCHANGED priority
    \/ \E e \in Irq, k \in Call : irq_call(e, k) /\ UNCHANGED priority
    \/ Switch

Spec == Init /\ [][Next]_vars

(***************************************************************************)
(* Fairness: interrupt handlers finish, and a ready task eventually gets   *)
(* the CPU, which the scheduler grants when more urgent tasks block.       *)
(***************************************************************************)
Fairness ==
    /\ \A e \in Irq : SF_vars(Step(e))
    /\ \A t \in Task : SF_vars(Step(t)) /\ SF_vars(Switch /\ cur' = t)

FairSpec == Spec /\ Fairness

-----------------------------------------------------------------------------
TypeOK ==
    /\ TypeOKWaitQueue({"home", "load", "cas"})
    /\ count \in 0 .. max_count
    /\ call \in [Ctx -> Call]
    /\ seen \in [Ctx -> 0 .. max_count]

(***************************************************************************)
(* The predicate is evaluated with the queue locked "to prevent deadlock"  *)
(* (wait_queue.rs, l. 180): no wake-up is lost.  Whenever a task sits in a *)
(* wait queue although the counter would let it proceed, the way has been  *)
(* announced: at least as many calls as the counter allows are under way   *)
(* or still being announced (by a notifier before its pop or in            *)
(* notify_cnt).                                                            *)
(***************************************************************************)
InQueue(t) == \E q \in WQ : Contains(queue[q], t)
UnderWay(d) ==
    {t \in Task : call[t] = [dir |-> d, blocking |-> TRUE] /\ ~InQueue(t)
                  /\ pc[t] \in {"wait", "cond", "enqueue", "leave", "yield", "load", "cas"}}
Announcing(q) == {c \in Ctx : wq[c] = q /\ pc[c] \in {"notify", "pop", "pend"}}

NoLostWakeup ==
    \A d \in Dir :
        queue[Awaits(d)] # <<>> =>
            Room(d, count) <= Cardinality(UnderWay(d))
                              + Cardinality(Announcing(Awaits(d)))
                              + notify_cnt[Awaits(d)]

(***************************************************************************)
(* Every call of up, down, try_up_allow_isr and try_down_allow_isr takes   *)
(* effect exactly once while it is under way, in spite of the retries and  *)
(* of everybody who changes the counter between its load and its           *)
(* compare_exchange, and a try_ call fails only at the limit.              *)
(***************************************************************************)
Served(c) == pc[c] \in {"notify", "pop", "pend"} \/ (pc[c] = "leave" /\ ret[c] = "home")

Counting == INSTANCE CountingSemaphore
            WITH phase <- [c \in Ctx |-> IF pc[c] = "home" THEN <<"out">>
                                         ELSE IF Served(c) THEN <<"served", call[c]>>
                                         ELSE <<"asked", call[c]>>]

ImplementsCounting == Counting!Spec

(***************************************************************************)
(* When the counter stays so that a waiting call can proceed, somebody is  *)
(* taken out of the queue.                                                 *)
(***************************************************************************)
WaitersProceed ==
    \A d \in Dir :
        (queue[Awaits(d)] # <<>> /\ Room(d, count) > 0) ~>
            (queue[Awaits(d)] = <<>> \/ Room(d, count) = 0)
=============================================================================
