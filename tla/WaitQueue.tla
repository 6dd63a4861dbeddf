----------------------------- MODULE WaitQueue -----------------------------
(***************************************************************************)
(* The wait queue of src/sync/wait_queue.rs, as its clients (CondVar,      *)
(* Semaphore, Mutex) drive it: tasks block in it until a predicate holds,  *)
(* tasks and interrupt handlers notify it.                                 *)
(*                                                                         *)
(* The soft lock around the queue is taken at its word (PendableOps, which *)
(* SoftLock is proved to implement): the holder leaves only when nothing   *)
(* is pended.  Only a client changes priority, no action here speaks of    *)
(* it.                                                                     *)
(***************************************************************************)
EXTENDS SingleCore, TaskList

CONSTANTS
    WQ           \* the wait queues

NoQueue == "none"

ASSUME QueueAssumption == NoQueue \notin WQ

VARIABLES
    priority,    \* effective priority of each task, smaller is more urgent
    queue,       \* Inner::queue of each wait queue
    notify_cnt,  \* Inner::notify_cnt of each wait queue
    locked,      \* the soft lock of each wait queue
    wq,          \* the wait queue a context is working on
    ret          \* where a context goes on after it has left the queue

queues == <<queue, notify_cnt, locked>>
wqvars == <<cur, state, queues, pc, wq, ret>>

\* A context inside a wait queue has the scheduler suspended.
SuspendedSteps == {"cond", "enqueue", "pop", "pend", "leave"}
WaitQueueSteps == SuspendedSteps \union {"wait", "yield", "notify", "hang"}

InitWaitQueue ==
    /\ InitCore
    /\ queue = [q \in WQ |-> <<>>]
    /\ notify_cnt = [q \in WQ |-> 0]
    /\ locked = [q \in WQ |-> FALSE]
    /\ wq = [c \in Ctx |-> NoQueue]
    /\ ret = [c \in Ctx |-> "home"]

\* Return to the caller's code; the locals of the call are gone.
Return(c) ==
    /\ Goto(c, "home")
    /\ wq' = [wq EXCEPT ![c] = NoQueue]
    /\ ret' = [ret EXCEPT ![c] = "home"]

-----------------------------------------------------------------------------
\* A task that yielded goes round the loop of wait_until when it is picked.
pick_next ==
    /\ switch(SuspendedSteps, [yield |-> "wait"])
    /\ UNCHANGED <<queues, wq, ret>>

\* Pop a task n times, or as often as there is one, and hand each to
\* Scheduler::accept_task.
Wake(q, n) ==
    LET popped == Popped(priority, queue[q], n) IN
    /\ queue' = [queue EXCEPT ![q] = Without(@, popped)]
    /\ accept_task(popped)

-----------------------------------------------------------------------------
(***************************************************************************)
(* Faults: what a plausible mistake in wait_queue.rs would make of an      *)
(* action below.  No specification uses them.                              *)
(***************************************************************************)
\* One task is notified however many notifications are pended.
run_one_pended_op(c) ==
    /\ At(c, "leave") /\ notify_cnt[wq[c]] > 0
    /\ Wake(wq[c], 1)
    /\ notify_cnt' = [notify_cnt EXCEPT ![wq[c]] = 0]
    /\ UNCHANGED <<cur, locked, pc, wq, ret>>

\* A notification that meets a locked queue is dropped.
notify_dropped(c) ==
    /\ At(c, "pend")
    /\ Return(c)
    /\ UNCHANGED <<cur, state, queues>>

-----------------------------------------------------------------------------
(***************************************************************************)
(* wait_until: with the queue locked the predicate is evaluated, and if it *)
(* fails the task goes into the queue; then the lock is left.  An          *)
(* interrupt can come between any two of these.                            *)
(***************************************************************************)
wait_guard(t) ==
    /\ At(t, "wait")
    /\ locked' = [locked EXCEPT ![wq[t]] = TRUE]
    /\ Goto(t, IF locked[wq[t]] THEN "hang" ELSE "cond")
    /\ UNCHANGED <<cur, state, queue, notify_cnt, wq, ret>>

wait_condition(t, met, continue) ==
    /\ At(t, "cond")
    /\ ret' = [ret EXCEPT ![t] = IF met THEN continue ELSE "yield"]
    /\ Goto(t, IF met THEN "leave" ELSE "enqueue")
    /\ UNCHANGED <<cur, state, queues, wq>>

wait_enqueue(t) ==
    /\ At(t, "enqueue")
    /\ state' = [state EXCEPT ![t] = "Blocked"]
    /\ queue' = [queue EXCEPT ![wq[t]] = Append(@, t)]
    /\ Goto(t, "leave")
    /\ UNCHANGED <<cur, notify_cnt, locked, wq, ret>>

(***************************************************************************)
(* notify_one_allow_isr.                                                   *)
(***************************************************************************)
notify_guard(c) ==
    /\ At(c, "notify")
    /\ locked' = [locked EXCEPT ![wq[c]] = TRUE]
    /\ ret' = [ret EXCEPT ![c] = "home"]
    /\ Goto(c, IF locked[wq[c]] THEN "pend" ELSE "pop")
    /\ UNCHANGED <<cur, state, queue, notify_cnt, wq>>

notify_full(c) ==
    /\ At(c, "pop")
    /\ Wake(wq[c], 1)
    /\ Goto(c, "leave")
    /\ UNCHANGED <<cur, notify_cnt, locked, wq, ret>>

notify_pend(c) ==
    /\ At(c, "pend")
    /\ notify_cnt' = [notify_cnt EXCEPT ![wq[c]] = @ + 1]
    /\ Return(c)
    /\ UNCHANGED <<cur, state, queue, locked>>

(***************************************************************************)
(* Leaving the soft lock: run_pended_op as long as something is pended.    *)
(***************************************************************************)
run_pended_op(c) ==
    /\ At(c, "leave") /\ notify_cnt[wq[c]] > 0
    /\ Wake(wq[c], notify_cnt[wq[c]])
    /\ notify_cnt' = [notify_cnt EXCEPT ![wq[c]] = 0]
    /\ UNCHANGED <<cur, locked, pc, wq, ret>>

leave(c) ==
    /\ At(c, "leave") /\ notify_cnt[wq[c]] = 0
    /\ locked' = [locked EXCEPT ![wq[c]] = FALSE]
    /\ IF ret[c] = "home"
         THEN Return(c)
         ELSE Goto(c, ret[c]) /\ ret' = [ret EXCEPT ![c] = "home"] /\ UNCHANGED wq
    /\ UNCHANGED <<cur, state, queue, notify_cnt>>

WaitQueueStep(c) ==
    \/ notify_guard(c) \/ notify_full(c) \/ notify_pend(c)
    \/ run_pended_op(c) \/ leave(c)
    \/ c \in Task /\ (wait_guard(c) \/ wait_enqueue(c))

TypeOKWaitQueue(ClientSteps) ==
    /\ TypeOKCore(WaitQueueSteps \union ClientSteps)
    /\ queue \in [WQ -> Seq(Task)]
    /\ notify_cnt \in [WQ -> Nat]
    /\ locked \in [WQ -> BOOLEAN]
    /\ wq \in [Ctx -> WQ \union {NoQueue}]
    /\ ret \in [Ctx -> WaitQueueSteps \union ClientSteps]
=============================================================================
