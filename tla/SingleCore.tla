---------------------------- MODULE SingleCore ----------------------------
(***************************************************************************)
(* Who runs on the one core, for the modules of the synchronisation and    *)
(* time primitives.  It is what Scheduler is checked to provide: the       *)
(* current task runs when no interrupt is active, an interrupt handler     *)
(* runs until it returns or a more urgent one arrives, a switch never      *)
(* happens while the current task has the scheduler suspended, and a ready *)
(* task may be picked whenever it is not.  Any ready task may be picked,   *)
(* so every priority order is included.                                    *)
(***************************************************************************)
EXTENDS Naturals, FiniteSets

CONSTANTS
    Task, Idle,
    NIrq         \* number of nested interrupt priorities

Irq == 1 .. NIrq
Ctx == Task \union Irq

ASSUME TaskAssumption == Idle \notin Task \union Nat /\ Task \intersect Nat = {} /\ IsFiniteSet(Task)
ASSUME IrqAssumption == NIrq \in Nat

VARIABLES
    cur,         \* the task on the CPU
    state,       \* Task::state
    pc           \* the step each context is at; "home" is outside the primitives

InitCore ==
    /\ cur = Idle
    /\ state = [t \in Task |-> "Ready"]
    /\ pc = [c \in Ctx |-> "home"]

ThreadMode == \A e \in Irq : pc[e] = "home"

Running(c) ==
    IF c \in Irq THEN pc[c] # "home" /\ \A e \in Irq : e > c => pc[e] = "home"
                 ELSE c = cur /\ ThreadMode

At(c, s) == Running(c) /\ pc[c] = s

Goto(c, s) == pc' = [pc EXCEPT ![c] = s]

\* An interrupt of priority e preempts everything less urgent.
Arrives(e) == \A f \in Irq : f >= e => pc[f] = "home"

\* A task is outside the primitives, or an interrupt handler is free to start.
Free(c) == IF c \in Irq THEN Arrives(c) ELSE At(c, "home")

-----------------------------------------------------------------------------
(***************************************************************************)
(* The scheduler.                                                          *)
(***************************************************************************)
\* Scheduler::accept_task of every task in ts.
accept_task(ts) == state' = [t \in Task |-> IF t \in ts THEN "Ready" ELSE state[t]]

Pickable == {t \in Task : state[t] = "Ready" \/ (t = cur /\ state[t] = "Running")}

\* pick_next, when the current task is not at one of the steps suspended.
\* The switch is what yield_current_task waits for: a task that was at step s
\* of the domain of resume goes on at resume[s] when it is picked again.
switch(suspended, resume) ==
    /\ ThreadMode
    /\ cur # Idle => pc[cur] \notin suspended
    /\ cur' \in IF Pickable = {} THEN {Idle} ELSE Pickable
    /\ state' = [t \in Task |-> IF t = cur' THEN "Running"
                                ELSE IF state[t] = "Running" THEN "Ready" ELSE state[t]]
    /\ pc' = [c \in Ctx |-> IF c = cur /\ pc[c] \in DOMAIN resume THEN resume[pc[c]]
                            ELSE pc[c]]

TypeOKCore(Steps) ==
    /\ cur \in Task \union {Idle}
    /\ state \in [Task -> {"Ready", "Running", "Blocked"}]
    /\ pc \in [Ctx -> Steps]
=============================================================================
