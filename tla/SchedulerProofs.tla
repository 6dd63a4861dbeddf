--------------------------- MODULE SchedulerProofs ---------------------------
(***************************************************************************)
(* The theorems about Scheduler. IInv is inductive because its parts need  *)
(* one another: pick_next finds the scheduler resumed because who is       *)
(* switched out owns no suspension; insert_buffer has room because the     *)
(* tasks in it are in no other place and the quota counts them; the quota  *)
(* is exact because a task that is destroyed is the current one; and no    *)
(* preemption is missed because who makes a task ready holds a suspension  *)
(* that it has still to give back.                                         *)
(***************************************************************************)
EXTENDS Scheduler, TLAPS, FiniteSetTheorems, WellFoundedInduction, SequenceTheorems

(***************************************************************************)
(* The inductive invariant.  SuspensionInv (in Scheduler) is about         *)
(* SUSPEND_CNT and the lock of the ready queue; the parts below add where  *)
(* each context can be, where each task struct is, what the quota counts   *)
(* and what is owed to a task that should preempt.                         *)
(***************************************************************************)
AcceptSteps == {"accept", "guard", "full", "pend"}
DropSteps == {"flag", "swap", "drain", "unlock", "check", "relock", "dec", "chk"}
NotifySteps == {"pop", "outer_dec", "outer_chk"} \union AcceptSteps \union DropSteps

KernSteps == {"idle", "destroy", "pick", "pick_guard", "pick_body"} \union (DropSteps \ {"flag"})
IrqSteps == {"idle", "isr"} \union NotifySteps
TaskSteps == {"run", "dead", "enqueue", "yield", "setprio", "quota", "cas", "build"}
             \union NotifySteps

\* Each context stays within the code it can run, and knows where to go on
\* after Scheduler::resume.
ControlOf(c) ==
    /\ c = Kern => pc[c] \in KernSteps /\ (pc[c] \in CallSteps => ret[c] = "idle")
    /\ c \in Irq => pc[c] \in IrqSteps /\ (pc[c] \in CallSteps => ret[c] = "outer_dec")
    /\ c \in Task =>
         /\ pc[c] \in TaskSteps
         /\ \/ ret[c] = "run"
            \/ ret[c] = "yield" /\ pc[c] \in {"dec", "chk"}
            \/ ret[c] = "outer_dec" /\ pc[c] \in CallSteps
    /\ c = Idle => pc[c] \in {"yield", "run"}

ControlInv == \A c \in Ctx : ControlOf(c)

\* SUSPEND_CNT covers what the current task owns, whoever runs.
CoversCurrent == SUSPEND_CNT >= Own(CUR_TASK)

Handing(c) == pc[c] \in AcceptSteps
Has(list, t) == \E i \in DOMAIN list : list[i] = t
Distinct(list) == \A i, j \in DOMAIN list : list[i] = list[j] => i = j
InReady(t) == Has(ready_linked_list, t)
InBuffer(t) == Has(insert_buffer, t)
BeingWoken(t) == state[t] \in {"Initializing", "Blocked"}

\* No task is twice in a list, in two lists or in two hands ...
PlaceInv ==
    /\ Distinct(ready_linked_list) /\ Distinct(insert_buffer)
    /\ \A c, d \in Ctx : Handing(c) /\ Handing(d) /\ arg[c] = arg[d] => c = d
    /\ \A c \in Ctx : Handing(c) => ~InBuffer(arg[c]) /\ arg[c] \notin waiting
    /\ \A t \in waiting : ~InBuffer(t)
    \* ... and its state says where it is.
    /\ \A t \in Task : InReady(t) <=> state[t] = "Ready"
    /\ \A t \in Task : InBuffer(t) => BeingWoken(t)
    /\ \A c \in Ctx : Handing(c) => BeingWoken(arg[c])
    /\ \A t \in waiting : state[t] = "Blocked"
    /\ \A t \in Task : BeingWoken(t) => \/ t \in waiting \/ InBuffer(t)
                                    \/ \E c \in Ctx : Handing(c) /\ arg[c] = t

Picking == pc[Kern] \in {"pick", "pick_guard", "pick_body"}

AboutToYield ==
    \/ pendsv \/ Picking \/ pc[CUR_TASK] = "yield"
    \/ pc[CUR_TASK] \in {"dec", "chk"} /\ ret[CUR_TASK] = "yield"

\* The current task has left state Running only on its way to pick_next.
CurrentInv ==
    /\ \A t \in Task : state[t] \in {"Running", "Destructing"} => t = CUR_TASK
    /\ state[CUR_TASK] \notin {"Unborn", "Initializing"}
    /\ state[CUR_TASK] = "Running" \/ AboutToYield
    /\ pc[Kern] = "destroy" => state[CUR_TASK] = "Running" /\ pc[CUR_TASK] = "dead"
    /\ \A t \in Task : state[t] = "Destructing" => pc[t] = "dead"
    /\ \A t \in Task : state[t] = "Unborn" => pc[t] \in {"run", "dead"}
    /\ state[Idle] \in {"Running", "Ready"}

Alive == {t \in Task : state[t] # "Unborn"}
Building == {t \in Task : pc[t] = "build"}

QuotaInv ==
    /\ IsFiniteSet(Alive) /\ IsFiniteSet(Building)
    /\ EXIST_TASK_NUM = Cardinality(Alive) + Cardinality(Building)
    /\ EXIST_TASK_NUM <= MAX_TASK_NUMBER
    /\ \A t \in Task : pc[t] = "cas" => seen[t] < MAX_TASK_NUMBER

\* What is pended is drained by the holder of the lock or by who has just left it.
PendedInv ==
    /\ pending => \E c \in Ctx : Holder(c) \/ Releasing(c)
    /\ insert_buffer # <<>> => pending \/ \E c \in Ctx : pc[c] \in {"flag", "drain"}

OnStack(c) == c = CUR_TASK \/ (c \in Exc /\ Active(c))
PreemptInv ==
    /\ PENDING_CTXT_SWITCH /\ SUSPEND_CNT = 0 =>
          AboutToYield \/ \E c \in Ctx : OnStack(c) /\ pc[c] \in {"chk", "outer_chk"}
    /\ ALLOW_TASK_PREEMPTION =>
          \/ PENDING_CTXT_SWITCH \/ AboutToYield
          \/ \A t \in Task : state[t] = "Ready" => priority[t] >= priority[CUR_TASK]

IInv ==
    /\ SuspensionInv /\ CoversCurrent /\ ControlInv /\ PlaceInv /\ CurrentInv
    /\ QuotaInv /\ PendedInv /\ PreemptInv

-----------------------------------------------------------------------------
(***************************************************************************)
(* Lemmas.                                                                 *)
(***************************************************************************)
\* A set of natural numbers has a smallest element.
LEMMA SmallestNat ==
    ASSUME NEW T \in SUBSET Nat, T # {}
    PROVE  \E x \in T : \A y \in T : x <= y
<1>1. \E x \in T : \A y \in T : ~ (<<y, x>> \in OpToRel(<, Nat))
  BY NatLessThanWellFounded, WFMin, Zenon
<1>2. \A x, y \in T : y < x => <<y, x>> \in OpToRel(<, Nat)
  BY Zenon DEF OpToRel
<1>3. \E x \in T : \A y \in T : ~ (y < x)
  BY <1>1, <1>2, Zenon
<1> QED
  BY <1>3

\* pop_highest_priority finds a position of a list that is not empty, and a
\* task there that no other in the list is more urgent than.
LEMMA HighestPositionExists ==
    ASSUME priority \in [Task -> Level], NEW list \in Seq(Task), list # <<>>
    PROVE  /\ HighestPosition(list) \in DOMAIN list
           /\ \A j \in DOMAIN list :
                 priority[list[HighestPosition(list)]] <= priority[list[j]]
<1> DEFINE P == {priority[list[i]] : i \in DOMAIN list}
<1>1. P \in SUBSET Nat /\ P # {}
  <2>1. \A i \in DOMAIN list : list[i] \in Task
    OBVIOUS
  <2>2. \A i \in DOMAIN list : priority[list[i]] \in Nat
    BY <2>1, PriorityAssumption
  <2>3. 1 \in DOMAIN list
    OBVIOUS
  <2> QED
    BY <2>2, <2>3
<1>2. PICK p \in P : \A q \in P : p <= q
  BY <1>1, SmallestNat
<1> DEFINE I == {i \in DOMAIN list : priority[list[i]] = p}
<1>3. I \in SUBSET Nat /\ I # {}
  BY <1>2
<1>4. PICK i \in I : \A j \in I : i <= j
  BY <1>3, SmallestNat
<1>5. /\ i \in DOMAIN list
      /\ \A j \in DOMAIN list : priority[list[i]] <= priority[list[j]]
      /\ \A j \in DOMAIN list : j < i => priority[list[i]] < priority[list[j]]
  <2>1. \A j \in DOMAIN list : priority[list[j]] \in P
    OBVIOUS
  <2>2. \A j \in DOMAIN list : priority[list[j]] \in Nat /\ p <= priority[list[j]]
    BY <2>1, <1>1, <1>2
  <2>3. i \in DOMAIN list /\ priority[list[i]] = p /\ p \in Nat
    BY <1>1, <1>2, <1>4
  <2>4. \A j \in DOMAIN list : j < i => priority[list[j]] # p
    BY <1>4
  <2> QED
    BY <2>2, <2>3, <2>4
<1> QED
  BY <1>5 DEF HighestPosition

\* Removing one element of a sequence shifts the later ones down.
LEMMA RemoveAtProperties ==
    ASSUME NEW S, NEW s \in Seq(S), NEW i \in 1 .. Len(s)
    PROVE  /\ RemoveAt(s, i) \in Seq(S)
           /\ Len(RemoveAt(s, i)) = Len(s) - 1
           /\ \A j \in 1 .. Len(s) - 1 :
                 RemoveAt(s, i)[j] = IF j < i THEN s[j] ELSE s[j + 1]
<1> DEFINE l == SubSeq(s, 1, i - 1)
           r == SubSeq(s, i + 1, Len(s))
<1>1. /\ l \in Seq(S) /\ Len(l) = i - 1
      /\ \A j \in 1 .. i - 1 : l[j] = s[j]
  OBVIOUS
<1>2. /\ r \in Seq(S) /\ Len(r) = Len(s) - i
      /\ \A j \in 1 .. Len(s) - i : r[j] = s[j + i]
  OBVIOUS
<1> HIDE DEF l, r
<1>3. /\ l \o r \in Seq(S) /\ Len(l \o r) = Len(s) - 1
      /\ \A j \in 1 .. Len(s) - 1 : (l \o r)[j] = IF j < i THEN s[j] ELSE s[j + 1]
  <2>1. /\ l \o r \in Seq(S) /\ Len(l \o r) = Len(l) + Len(r)
        /\ \A j \in 1 .. Len(l) + Len(r) :
              (l \o r)[j] = IF j <= Len(l) THEN l[j] ELSE r[j - Len(l)]
    BY <1>1, <1>2, ConcatProperties
  <2>2. \A j \in 1 .. Len(s) - 1 : ~(j < i) => j - (i - 1) \in 1 .. Len(s) - i
    OBVIOUS
  <2>3. \A j \in 1 .. Len(s) - 1 : ~(j < i) => r[j - (i - 1)] = s[j + 1]
    BY <1>2, <2>2
  <2> QED
    BY <1>1, <1>2, <2>1, <2>3
<1> QED
  BY <1>3 DEF RemoveAt, l, r

\* Tasks and exception levels are different contexts.
LEMMA Contexts ==
    /\ Exc \subseteq Nat /\ Kern \in Exc /\ Irq \subseteq Exc /\ Kern \notin Irq
    /\ \A e \in Exc : e = Kern \/ e \in Irq
    /\ \A e \in Irq : Kern < e
    /\ \A t \in Task : t \notin Exc
BY TaskAssumption, IrqAssumption DEF Exc, Kern, Irq

OwnNat == \A c \in Ctx : Own(c) \in Nat

\* What a context owns is a number of suspensions.
LEMMA OwnType == TypeOK => OwnNat
<1> SUFFICES ASSUME TypeOK, NEW c \in Ctx PROVE Own(c) \in Nat
  BY DEF OwnNat
<1>1. CASE c \in Task
  <2>1. guards[c] \in {0, 1}
    BY <1>1 DEF TypeOK
  <2> QED
    BY <1>1, <2>1 DEF Own
<1>2. CASE c \notin Task
  BY <1>2 DEF Own
<1> QED
  BY <1>1, <1>2

\* A context that runs changes what it owns together with SUSPEND_CNT, and
\* nothing else about the stack.
LEMMA StackStep ==
    ASSUME TypeOK, TypeOK', SuspensionStack, CoversCurrent,
           NEW c \in Ctx, Running(c),
           Own(c)' - Own(c) = SUSPEND_CNT' - SUSPEND_CNT,
           c \in Exc => Active(c)',
           \A d \in Ctx \ {c} : Own(d)' = Own(d),
           \A e \in Exc \ {c} : pc'[e] = pc[e],
           CUR_TASK' = CUR_TASK, entry' = entry
    PROVE  SuspensionStack' /\ CoversCurrent'
<1> USE Contexts
<1>1. \A d \in Ctx : Own(d) \in Nat /\ Own(d)' \in Nat
  <2>1. OwnNat /\ OwnNat'
    BY OwnType, PTL
  <2> QED
    BY <2>1 DEF OwnNat
<1>2. SUSPEND_CNT \in Nat /\ SUSPEND_CNT' \in Nat /\ entry \in [Exc -> Nat] /\ CUR_TASK \in Ctx
  BY DEF TypeOK, Ctx
<1>3. CASE c \in Task
  <2>1. c = CUR_TASK /\ ThreadMode /\ ThreadMode'
    BY <1>3 DEF Running, ThreadMode
  <2> QED
    BY <2>1, <1>1, <1>2 DEF SuspensionStack, ThreadMode, Active, CoversCurrent
<1>4. CASE c \in Exc
  <2>1. Active(c) /\ (\A e \in Exc : e > c => ~Active(e)) /\ c # CUR_TASK
    BY <1>4, <1>2 DEF Running, Active, TypeOK
  <2>2. \A e \in Exc : Active(e)' <=> Active(e)
    BY <2>1, <1>4 DEF Active
  <2>3. Own(CUR_TASK)' = Own(CUR_TASK)
    BY <2>1, <1>2
  <2>4. SUSPEND_CNT = entry[c] + Own(c) /\ entry[c] >= Own(CUR_TASK)
    BY <2>1, <1>4 DEF SuspensionStack
  <2>5. SUSPEND_CNT' = entry[c] + Own(c)'
    BY <2>4, <1>1, <1>2, <1>4
  <2>6. ~ThreadMode'
    BY <2>2, <2>1, <1>4 DEF ThreadMode, Active
  <2>7. \A e, f \in Exc : e < f /\ Active(f) => e # c
    BY <2>1, <1>4
  <2> HIDE DEF Own, Active
  <2>8. CoversCurrent'
    BY <2>3, <2>4, <2>5, <1>1, <1>2, <1>4 DEF CoversCurrent
  <2>9. \A e \in Exc : Active(e) => entry[e] >= Own(CUR_TASK)'
    BY <2>3 DEF SuspensionStack
  <2>10. \A e, f \in Exc : /\ e < f /\ Active(e) /\ Active(f)
                           /\ \A g \in Exc : e < g /\ g < f => ~Active(g)
                          => entry[f] = entry[e] + Own(e)'
    BY <2>7 DEF SuspensionStack, Ctx
  <2>11. \A e \in Exc : e < c \/ e > c \/ e = c
    BY <1>4
  <2>13. \A e \in Exc : Active(e) /\ (\A f \in Exc : f > e => ~Active(f)) => e = c
    BY <2>1, <2>11, <1>4
  <2>12. \A e \in Exc : Active(e) /\ (\A f \in Exc : f < e => ~Active(f))
                     => entry[e] = Own(CUR_TASK)'
    BY <2>3 DEF SuspensionStack
  <2> QED
    BY <2>2, <2>5, <2>6, <2>8, <2>9, <2>10, <2>12, <2>13 DEF SuspensionStack
<1> QED
  BY <1>3, <1>4 DEF Ctx

\* What a running context owns is part of SUSPEND_CNT.
LEMMA RunningOwns ==
    ASSUME TypeOK, SuspensionStack, NEW c \in Ctx, Running(c)
    PROVE  SUSPEND_CNT >= Own(c)
<1> USE Contexts
<1>1. SUSPEND_CNT \in Nat /\ entry \in [Exc -> Nat] /\ Own(c) \in Nat
  BY OwnType DEF TypeOK, OwnNat
<1>2. CASE c \in Exc
  BY <1>1, <1>2 DEF Running, SuspensionStack, Active
<1>3. CASE c \in Task
  BY <1>1, <1>3 DEF Running, SuspensionStack
<1> QED
  BY <1>2, <1>3 DEF Ctx


\* What pick_body does when it does not give up: the task it switches to is
\* taken out of the list, and no task left in the list is more urgent.
Switches ==
    /\ pc[Kern] = "pick_body" /\ pc' = [pc EXCEPT ![Kern] = "swap"]
    /\ CUR_TASK' \in Task /\ CUR_TASK_IDLE' = (CUR_TASK' = Idle)
    /\ PENDING_CTXT_SWITCH' = FALSE
    /\ ret' = [ret EXCEPT ![Kern] = "idle"]
    /\ state' = SwitchedState(CUR_TASK')
    /\ EXIST_TASK_NUM' = IF state[CUR_TASK] = "Destructing"
                         THEN EXIST_TASK_NUM - 1 ELSE EXIST_TASK_NUM
    /\ ready_linked_list' \in Seq(Task)
    /\ \E pos \in DOMAIN Requeued :
          /\ CUR_TASK' = Requeued[pos]
          /\ ready_linked_list' = RemoveAt(Requeued, pos)
    /\ \A i \in DOMAIN Requeued : priority[CUR_TASK'] <= priority[Requeued[i]]
    /\ UNCHANGED <<locked, pending, insert_buffer, priority, waiting, guards, arg, seen,
                   entry, SUSPEND_CNT, pendsv>>

\* pick_body, when it does not give up, does what Switches says.
LEMMA PickSwitches ==
    ASSUME TypeOK, pick_body, ~(state[CUR_TASK] = "Initializing" \/ Requeued = <<>>)
    PROVE  Switches /\ Requeued \in Seq(Task)
<1>1. Requeued \in Seq(Task)
  <2>1. CUR_TASK \in Task /\ ready_linked_list \in Seq(Task)
    BY DEF TypeOK
  <2> QED
    BY <2>1 DEF Requeued
<1>2. /\ HighestPosition(Requeued) \in DOMAIN Requeued
      /\ \A j \in DOMAIN Requeued :
            priority[Requeued[HighestPosition(Requeued)]] <= priority[Requeued[j]]
  BY <1>1, HighestPositionExists DEF TypeOK
<1> DEFINE pos == HighestPosition(Requeued)
           next == Requeued[pos]
<1>3. next \in Task /\ RemoveAt(Requeued, pos) \in Seq(Task)
  <2>1. pos \in 1 .. Len(Requeued)
    BY <1>1, <1>2
  <2> QED
    BY <1>1, <2>1, RemoveAtProperties
<1> HIDE DEF pos, next
<1>4. /\ pc[Kern] = "pick_body" /\ pc' = [pc EXCEPT ![Kern] = "swap"]
      /\ ready_linked_list' = RemoveAt(Requeued, pos)
      /\ state' = SwitchedState(next)
      /\ EXIST_TASK_NUM' = IF state[CUR_TASK] = "Destructing"
                           THEN EXIST_TASK_NUM - 1 ELSE EXIST_TASK_NUM
      /\ CUR_TASK' = next /\ CUR_TASK_IDLE' = (next = Idle)
      /\ PENDING_CTXT_SWITCH' = FALSE
      /\ ret' = [ret EXCEPT ![Kern] = "idle"]
      /\ UNCHANGED <<locked, pending, insert_buffer, priority, waiting, guards, arg, seen,
                   entry, SUSPEND_CNT, pendsv>>
  BY DEF pick_body, At, Goto, pos, next
<1>5. pos \in DOMAIN Requeued /\ next = Requeued[pos]
      /\ \A j \in DOMAIN Requeued : priority[next] <= priority[Requeued[j]]
  BY <1>2 DEF pos, next
<1> QED
  BY <1>1, <1>3, <1>4, <1>5 DEF Switches
-----------------------------------------------------------------------------
(***************************************************************************)
(* Every action preserves the types.                                       *)
(***************************************************************************)
\* Every action preserves TypeOK; SUSPEND_CNT and EXIST_TASK_NUM are
\* decremented only by who has incremented them, so they never wrap.
LEMMA TypeStep ==
    ASSUME IInv, Next
    PROVE  TypeOK'
<1>0. TypeOK /\ SuspensionStack /\ QuotaInv
  BY DEF IInv, SuspensionInv
<1>a. Cardinality(Alive) \in Nat /\ Cardinality(Building) \in Nat
      /\ (Alive # {} => Cardinality(Alive) # 0) /\ (Building # {} => Cardinality(Building) # 0)
  BY <1>0, FS_CardinalityType, FS_EmptySet DEF QuotaInv
<1> USE DEF queue, task, switch, frame, Goto
<1>1. ASSUME NEW c \in Ctx, KernelStep(c) PROVE TypeOK'
  <2>0. arg[c] \in Task /\ insert_buffer \in Seq(Task) /\ ready_linked_list \in Seq(Task)
    BY <1>0 DEF TypeOK
  <2>1. CASE accept_suspend(c)
    BY <1>0, <2>1 DEF accept_suspend, Suspend, TypeOK, Step
  <2>2. CASE accept_guard(c)
    BY <1>0, <2>2 DEF accept_guard, TypeOK, Step
  <2>3. CASE accept_full(c)
    <3>1. Append(ready_linked_list, arg[c]) \in Seq(Task)
      BY <2>0
    <3> QED
      BY <1>0, <2>0, <2>3, <3>1 DEF accept_full, LinkReady, TypeOK, Step, TaskState, should_preempt
  <2>4. CASE accept_pend(c)
    <3>1. Append(insert_buffer, arg[c]) \in Seq(Task)
      BY <2>0
    <3> QED
      BY <1>0, <2>4, <3>1 DEF accept_pend, TypeOK, Step
  <2>5. CASE drop_pend_only(c)
    BY <1>0, <2>5 DEF drop_pend_only, TypeOK, Step
  <2>6. CASE drop_swap_pending(c)
    BY <1>0, <2>6 DEF drop_swap_pending, TypeOK, Step
  <2>7. CASE run_pended_op(c)
    <3>1. CASE insert_buffer = <<>>
      BY <1>0, <2>7, <3>1 DEF run_pended_op, TypeOK, Step
    <3>2. CASE insert_buffer # <<>>
      <4>1. Head(insert_buffer) \in Task /\ Tail(insert_buffer) \in Seq(Task)
        BY <2>0, <3>2
      <4>2. Append(ready_linked_list, Head(insert_buffer)) \in Seq(Task)
        BY <2>0, <4>1
      <4>3. /\ LinkReady(Head(insert_buffer)) /\ insert_buffer' = Tail(insert_buffer)
            /\ UNCHANGED <<pc, locked, pending, priority, waiting, guards, EXIST_TASK_NUM,
                           switch, frame, SUSPEND_CNT, pendsv>>
        BY <2>7, <3>2 DEF run_pended_op
      <4> QED
        BY <1>0, <4>1, <4>2, <4>3 DEF LinkReady, TypeOK, TaskState, should_preempt
    <3> QED
      BY <3>1, <3>2
  <2>8. CASE drop_unlock(c)
    BY <1>0, <2>8 DEF drop_unlock, TypeOK, Step
  <2>9. CASE drop_check_pending(c)
    BY <1>0, <2>9 DEF drop_check_pending, TypeOK, Step
  <2>10. CASE drop_relock(c)
    BY <1>0, <2>10 DEF drop_relock, TypeOK, Step
  <2>11. CASE resume_dec(c)
    <3>1. Own(c) >= 1
      <4>1. pc[c] \in SuspendedSteps
        BY <2>11 DEF resume_dec, SuspendedSteps, CallSteps
      <4>2. c \in Task => guards[c] \in {0, 1}
        BY <1>0 DEF TypeOK
      <4> QED
        BY <4>1, <4>2 DEF Own
    <3>2. SUSPEND_CNT >= Own(c)
      BY <1>0, <2>11, RunningOwns DEF resume_dec
    <3>3. SUSPEND_CNT - 1 \in Nat
      BY <1>0, <3>1, <3>2, OwnType DEF TypeOK, OwnNat
    <3> QED
      BY <1>0, <2>11, <3>3 DEF resume_dec, TypeOK, Step
  <2>12. CASE resume_chk(c)
    BY <1>0, <2>12, TaskAssumption DEF resume_chk, TypeOK, Step, Home
  <2>13. CASE notify_pop(c)
    <3>1. CASE waiting = {} /\ Goto(c, "outer_dec") /\ UNCHANGED <<waiting, arg, ret>>
      BY <1>0, <2>13, <3>1 DEF notify_pop, TypeOK, Step
    <3>2. ASSUME NEW t \in waiting, waiting' = waiting \ {t}, arg' = [arg EXCEPT ![c] = t],
                 ret' = [ret EXCEPT ![c] = "outer_dec"], Goto(c, "accept")
          PROVE  TypeOK'
      BY <1>0, <2>13, <3>2 DEF notify_pop, TypeOK, Step
    <3> QED
      BY <2>13, <3>1, <3>2 DEF notify_pop
  <2> QED
    BY <1>1, <2>1, <2>2, <2>3, <2>4, <2>5, <2>6, <2>7, <2>8, <2>9, <2>10, <2>11, <2>12,
       <2>13 DEF KernelStep
<1>2. ASSUME NEW c \in Ctx, notify(c) PROVE TypeOK'
  BY <1>0, <1>2 DEF notify, TypeOK, Step, Suspend
<1>3. CASE PickNext
  <2>0. Kern \in Ctx /\ Kern \in Exc
    BY Contexts DEF Ctx
  <2>1. CASE pendsv_entry
    BY <1>0, <2>0, <2>1 DEF pendsv_entry, Enter, TypeOK, Step
  <2>2. CASE pick_suspend
    <3>0. pc \in [Ctx -> Step] /\ SUSPEND_CNT \in Nat /\ {"die", "pick_guard"} \subseteq Step
      BY <1>0 DEF TypeOK, Step
    <3>1. pc' \in [Ctx -> Step] /\ SUSPEND_CNT' \in Nat
      BY <2>0, <2>2, <3>0 DEF pick_suspend, Suspend
    <3> QED
      BY <1>0, <2>0, <2>2, <3>1 DEF pick_suspend, TypeOK
  <2>3. CASE pick_guard
    BY <1>0, <2>0, <2>3 DEF pick_guard, TypeOK, Step
  <2>4. CASE pick_body
    <3>1. CASE state[CUR_TASK] = "Initializing" \/ Requeued = <<>>
      BY <1>0, <2>0, <2>4, <3>1 DEF pick_body, TypeOK, Step
    <3>2. CASE ~(state[CUR_TASK] = "Initializing" \/ Requeued = <<>>)
      <4>1. Switches
        BY <1>0, <2>4, <3>2, PickSwitches
      <4>2. EXIST_TASK_NUM' \in Nat
        <5>1. state[CUR_TASK] = "Destructing" => CUR_TASK \in Alive
          BY <1>0 DEF Alive, TypeOK
        <5> QED
          BY <1>0, <1>a, <4>1, <5>1 DEF Switches, QuotaInv, TypeOK
      <4>3. state' \in [Task -> TaskState]
        BY <1>0, <4>1 DEF Switches, SwitchedState, TypeOK, TaskState
      <4> QED
        BY <1>0, <2>0, <4>1, <4>2, <4>3 DEF Switches, TypeOK, Step
    <3> QED
      BY <3>1, <3>2
  <2> QED
    BY <1>3, <2>1, <2>2, <2>3, <2>4 DEF PickNext
<1>4. ASSUME NEW t \in Task, TaskStep(t) PROVE TypeOK'
  <2>0. t \in Ctx
    BY DEF Ctx
  <2>1. CASE yield_current_task(t)
    BY <1>0, <2>0, <2>1 DEF yield_current_task, TypeOK, Step
  <2>2. CASE block_enqueue(t)
    BY <1>0, <2>0, <2>2 DEF block_enqueue, TypeOK, Step, TaskState
  <2>3. CASE quota_load(t)
    BY <1>0, <2>0, <2>3 DEF quota_load, TypeOK, Step
  <2>4. CASE quota_cas(t)
    <3>0. pc \in [Ctx -> Step] /\ EXIST_TASK_NUM \in Nat /\ {"build", "quota"} \subseteq Step
      BY <1>0 DEF TypeOK, Step
    <3>1. pc' \in [Ctx -> Step] /\ EXIST_TASK_NUM' \in Nat
      BY <2>0, <2>4, <3>0 DEF quota_cas
    <3> QED
      BY <1>0, <2>0, <2>4, <3>1 DEF quota_cas, TypeOK
  <2>5. CASE build(t)
    <3>1. EXIST_TASK_NUM - 1 \in Nat
      <4>1. t \in Building
        BY <2>5 DEF Building, build, At
      <4> QED
        BY <1>0, <1>a, <4>1 DEF QuotaInv
    <3>2. ASSUME NEW n \in Task, state' = [state EXCEPT ![n] = "Initializing"],
                 priority' = [priority EXCEPT ![n] = InitialPriority[n]],
                 arg' = [arg EXCEPT ![t] = n], ret' = [ret EXCEPT ![t] = "run"],
                 pc' = [pc EXCEPT ![t] = "accept", ![n] = "run"], UNCHANGED EXIST_TASK_NUM
          PROVE  TypeOK'
      <4>1. n \in Ctx /\ InitialPriority[n] \in Level
        BY PriorityAssumption DEF Ctx
      <4> QED
        BY <1>0, <2>0, <2>5, <3>2, <4>1 DEF build, TypeOK, Step, TaskState
    <3>3. CASE EXIST_TASK_NUM' = EXIST_TASK_NUM - 1 /\ Goto(t, "run")
               /\ UNCHANGED <<state, priority, arg, ret>>
      BY <1>0, <2>0, <2>5, <3>1, <3>3 DEF build, TypeOK, Step
    <3> QED
      BY <2>5, <3>2, <3>3 DEF build
  <2>6. ASSUME NEW p \in Level, change_intrinsic_priority(t, p) PROVE TypeOK'
    BY <1>0, <2>0, <2>6 DEF change_intrinsic_priority, TypeOK, Step
  <2> QED
    BY <1>4, <2>1, <2>2, <2>3, <2>4, <2>5, <2>6 DEF TaskStep
<1>5. ASSUME NEW t \in Task, TaskCall(t) PROVE TypeOK'
  <2>0. t \in Ctx /\ Kern \in Ctx /\ Kern \in Exc
    BY Contexts DEF Ctx
  <2>1. CASE hold_guard(t)
    BY <1>0, <2>0, <2>1 DEF hold_guard, Suspend, TypeOK, Step
  <2>2. CASE drop_guard(t)
    BY <1>0, <2>0, <2>2 DEF drop_guard, TypeOK, Step
  <2>3. CASE yield_current(t) \/ spawn(t)
    BY <1>0, <2>0, <2>3 DEF yield_current, spawn, TypeOK, Step
  <2>4. CASE block(t)
    BY <1>0, <2>0, <2>4 DEF block, Suspend, TypeOK, Step
  <2>6. CASE change_current_priority(t)
    BY <1>0, <2>0, <2>6 DEF change_current_priority, Suspend, TypeOK, Step
  <2>5. CASE svc_destroy_current_task(t)
    BY <1>0, <2>0, <2>5 DEF svc_destroy_current_task, TypeOK, Step
  <2> QED
    BY <1>5, <2>1, <2>2, <2>3, <2>4, <2>5, <2>6 DEF TaskCall
<1>6. ASSUME NEW e \in Irq, irq_entry(e) \/ irq_return(e) PROVE TypeOK'
  <2>0. e \in Ctx /\ e \in Exc
    BY Contexts DEF Ctx
  <2>1. CASE irq_entry(e)
    BY <1>0, <2>0, <2>1 DEF irq_entry, Enter, TypeOK, Step
  <2>2. CASE irq_return(e)
    BY <1>0, <2>0, <2>2 DEF irq_return, TypeOK, Step
  <2> QED
    BY <1>6, <2>1, <2>2
<1>7. CASE drop_current_task_from_svc
  BY <1>0, <1>7, Contexts DEF drop_current_task_from_svc, TypeOK, Step, TaskState, Ctx
<1> QED
  BY <1>1, <1>2, <1>3, <1>4, <1>5, <1>6, <1>7 DEF Next
-----------------------------------------------------------------------------
(***************************************************************************)
(* None of the places where the kernel gives up is reached.                *)
(***************************************************************************)
\* accept_task finds room in insert_buffer: the tasks in it and the one in
\* hand are different tasks that the quota counts.
LEMMA BufferHasRoom ==
    ASSUME TypeOK, PlaceInv, QuotaInv, NEW c \in Ctx, Handing(c)
    PROVE  Len(insert_buffer) < MAX_TASK_NUMBER
<1> DEFINE n == Len(insert_buffer)
           B == {insert_buffer[i] : i \in 1 .. n}
           f == [i \in 1 .. n |-> insert_buffer[i]]
<1>1. insert_buffer \in Seq(Task) /\ n \in Nat /\ DOMAIN insert_buffer = 1 .. n
      /\ arg[c] \in Task
  BY DEF TypeOK
<1>2. B \subseteq Alive /\ arg[c] \in Alive /\ arg[c] \notin B
  <2>1. \A i \in 1 .. n : insert_buffer[i] \in Task /\ InBuffer(insert_buffer[i])
    BY <1>1 DEF InBuffer, Has
  <2>2. \A i \in 1 .. n : insert_buffer[i] \in Alive
    BY <2>1 DEF PlaceInv, BeingWoken, Alive
  <2>3. arg[c] \in Alive /\ ~InBuffer(arg[c])
    BY <1>1 DEF PlaceInv, BeingWoken, Alive
  <2> QED
    BY <1>1, <2>2, <2>3 DEF InBuffer, Has
<1>3. f \in Bijection(1 .. n, B)
  <2>1. f \in Injection(1 .. n, B)
    <3>1. \A i, j \in 1 .. n : insert_buffer[i] = insert_buffer[j] => i = j
      BY <1>1 DEF PlaceInv, Distinct
    <3> QED
      BY <3>1 DEF Injection, IsInjective
  <2>2. f \in Surjection(1 .. n, B)
    BY DEF Surjection
  <2> QED
    BY <2>1, <2>2 DEF Bijection
<1>4. IsFiniteSet(1 .. n) /\ Cardinality(1 .. n) = n
  BY <1>1, FS_Interval
<1>5. IsFiniteSet(B) /\ Cardinality(B) = n
  BY <1>3, <1>4, FS_Bijection DEF ExistsBijection
<1> HIDE DEF B, f, n
<1>6. IsFiniteSet(B \union {arg[c]}) /\ Cardinality(B \union {arg[c]}) = n + 1
  BY <1>2, <1>5, FS_AddElement
<1>7. Cardinality(B \union {arg[c]}) <= Cardinality(Alive) /\ IsFiniteSet(Alive)
  BY <1>2, <1>6, FS_Subset DEF QuotaInv
<1>8. Cardinality(Alive) \in Nat /\ Cardinality(Building) \in Nat
  BY FS_CardinalityType DEF QuotaInv
<1> QED
  BY <1>1, <1>6, <1>7, <1>8, QuotaAssumption DEF QuotaInv, TypeOK, n

\* A holder of the lock owns a suspension.
LEMMA HolderOwns ==
    ASSUME TypeOK, NEW c \in Ctx, Holder(c) \/ Pender(c) \/ Releasing(c)
    PROVE  Own(c) >= 1
<1>1. pc[c] \in SuspendedSteps
  BY DEF Holder, Pender, Releasing, SuspendedSteps, CallSteps
<1>2. c \in Task => guards[c] \in {0, 1}
  BY DEF TypeOK
<1> QED
  BY <1>1, <1>2 DEF Own

\* While pick_next runs, the task it replaces owns nothing.
LEMMA PickFindsResumed ==
    ASSUME SuspensionInv, Running(Kern)
    PROVE  /\ SUSPEND_CNT = Own(Kern) /\ entry[Kern] = 0
           /\ \A t \in Task : Own(t) = 0
<1>1. Kern \in Exc /\ Kern \in Ctx /\ CUR_TASK \in Ctx
  BY Contexts DEF Ctx, SuspensionInv, TypeOK
<1>2. Active(Kern) /\ (\A e \in Exc : e > Kern => ~Active(e)) /\ (\A e \in Exc : e < Kern => ~Active(e))
  BY <1>1, Contexts DEF Running, Active, Kern, Exc
<1>3. SUSPEND_CNT = entry[Kern] + Own(Kern) /\ entry[Kern] = Own(CUR_TASK)
  BY <1>1, <1>2 DEF SuspensionInv, SuspensionStack
<1>4. \A t \in Task : Own(t) = 0
  BY <1>2 DEF SuspensionInv, SwitchedOutOwnNothing
<1>5. Own(Kern) \in Nat /\ CUR_TASK \in Task
  BY <1>1, OwnType DEF SuspensionInv, OwnNat, TypeOK
<1> QED
  BY <1>3, <1>4, <1>5

\* pick_next finds the ready queue unlocked (scheduler.rs l. 193): a holder
\* of the lock owns a suspension, and nothing below PendSV owns one.
LEMMA PickFindsUnlocked ==
    ASSUME SuspensionInv, Running(Kern), ~Holder(Kern)
    PROVE  ~locked
<1> SUFFICES ASSUME locked PROVE FALSE
  OBVIOUS
<1>1. PICK d \in Ctx : Holder(d)
  BY DEF SuspensionInv, ReadyQueueLock
<1>2. CASE d \in Task
  <2>1. Own(d) = 0 /\ Own(d) >= 1
    BY <1>1, <1>2, PickFindsResumed, HolderOwns DEF SuspensionInv
  <2> QED
    BY <2>1
<1>3. CASE d \in Exc
  <2>1. d # Kern /\ d > Kern
    BY <1>1, <1>3, Contexts
  <2> QED
    BY <1>1, <1>3, <2>1, Contexts DEF Running, Holder
<1> QED
  BY <1>2, <1>3 DEF Ctx

\* Nobody above a context that runs has the lock.
LEMMA RelockFindsUnlocked ==
    ASSUME SuspensionInv, NEW c \in Ctx, Running(c), Releasing(c)
    PROVE  ~locked
<1> SUFFICES ASSUME locked PROVE FALSE
  OBVIOUS
<1>1. PICK d \in Ctx : Holder(d) /\ Below(c, d)
  BY DEF SuspensionInv, ReadyQueueLock
<1> QED
  BY <1>1, Contexts DEF Running, Below, Holder, ThreadMode

\* There is a task to run: the idle task never blocks.
LEMMA SomethingToRun ==
    ASSUME TypeOK, PlaceInv, CurrentInv
    PROVE  state[CUR_TASK] # "Initializing" /\ Requeued # <<>>
<1>1. CUR_TASK \in Task /\ Idle \in Task /\ ready_linked_list \in Seq(Task)
  BY TaskAssumption DEF TypeOK
<1>2. CASE state[Idle] = "Running"
  <2>1. state[CUR_TASK] = "Running"
    BY <1>1, <1>2 DEF CurrentInv
  <2>2. Append(ready_linked_list, CUR_TASK) # <<>>
    BY <1>1, AppendProperties
  <2> QED
    BY <2>1, <2>2 DEF Requeued
<1>3. CASE state[Idle] = "Ready"
  <2>1. ready_linked_list # <<>>
    BY <1>1, <1>3 DEF PlaceInv, InReady, Has
  <2>2. Append(ready_linked_list, CUR_TASK) # <<>>
    BY <1>1, AppendProperties
  <2> QED
    BY <2>1, <2>2 DEF Requeued, CurrentInv
<1> QED
  BY <1>2, <1>3 DEF CurrentInv
-----------------------------------------------------------------------------
(***************************************************************************)
(* Every action keeps each context within its code.                        *)
(***************************************************************************)
\* A step of one context leaves the others where they are.
LEMMA ControlFrame ==
    ASSUME TypeOK, ControlInv, NEW c \in Ctx, NEW s, NEW r,
           pc' = [pc EXCEPT ![c] = s], ret' = [ret EXCEPT ![c] = r], ControlOf(c)'
    PROVE  ControlInv'
BY DEF ControlInv, ControlOf, TypeOK

Moves(c, s, r) == pc' = [pc EXCEPT ![c] = s] /\ ret' = [ret EXCEPT ![c] = r]

\* Every action keeps each context within the code it can run; in
\* particular none takes one of the branches that give up.
LEMMA ControlStep ==
    ASSUME IInv, Next
    PROVE  ControlInv'
<1>0. TypeOK /\ ControlInv /\ PlaceInv /\ QuotaInv /\ CurrentInv /\ SuspensionInv
      /\ pc \in [Ctx -> Step] /\ ret \in [Ctx -> {"run", "yield", "idle", "outer_dec"}]
  BY DEF IInv, SuspensionInv, TypeOK
<1> USE DEF queue, task, switch, frame, Goto
<1>1. ASSUME NEW c \in Ctx, KernelStep(c) PROVE ControlInv'
  <2>0. ControlOf(c) /\ (c = Kern \/ c \in Irq \/ c \in Task) /\ (c \in Task => c \notin Irq /\ c # Kern)
        /\ (c \in Irq => c # Kern) /\ (c = Idle => c \in Task)
    BY <1>0, Contexts, TaskAssumption DEF Ctx, ControlInv
  <2> USE DEF ControlOf, KernSteps, IrqSteps, TaskSteps, NotifySteps, AcceptSteps, DropSteps, CallSteps
  <2>1. CASE accept_suspend(c)
    <3>1. ControlOf(c)' /\ Moves(c, "guard", ret[c])
      BY <1>0, <2>0, <2>1 DEF accept_suspend, At, Moves
    <3> QED
      BY <1>0, <3>1, ControlFrame DEF Moves
  <2>2. CASE accept_guard(c)
    <3>1. ControlOf(c)' /\ (Moves(c, "pend", ret[c]) \/ Moves(c, "full", ret[c]))
      BY <1>0, <2>0, <2>2 DEF accept_guard, At, Moves
    <3> QED
      BY <1>0, <3>1, ControlFrame DEF Moves
  <2>3. CASE accept_full(c)
    <3>1. ControlOf(c)' /\ Moves(c, "swap", ret[c])
      BY <1>0, <2>0, <2>3 DEF accept_full, At, Moves
    <3> QED
      BY <1>0, <3>1, ControlFrame DEF Moves
  <2>4. CASE accept_pend(c)
    <3>1. ControlOf(c)' /\ Moves(c, "flag", ret[c])
      BY <1>0, <2>0, <2>4, BufferHasRoom DEF accept_pend, At, Moves, Handing, AcceptSteps
    <3> QED
      BY <1>0, <3>1, ControlFrame DEF Moves
  <2>5. CASE drop_pend_only(c)
    <3>1. ControlOf(c)' /\ Moves(c, "dec", ret[c])
      BY <1>0, <2>0, <2>5 DEF drop_pend_only, At, Moves
    <3> QED
      BY <1>0, <3>1, ControlFrame DEF Moves
  <2>6. CASE drop_swap_pending(c)
    <3>1. ControlOf(c)' /\ (Moves(c, "drain", ret[c]) \/ Moves(c, "unlock", ret[c]))
      BY <1>0, <2>0, <2>6 DEF drop_swap_pending, At, Moves
    <3> QED
      BY <1>0, <3>1, ControlFrame DEF Moves
  <2>7. CASE run_pended_op(c)
    <3>1. ControlOf(c)' /\ (Moves(c, "unlock", ret[c]) \/ Moves(c, "drain", ret[c]))
      BY <1>0, <2>0, <2>7 DEF run_pended_op, At, Moves
    <3> QED
      BY <1>0, <3>1, ControlFrame DEF Moves
  <2>8. CASE drop_unlock(c)
    <3>1. ControlOf(c)' /\ Moves(c, "check", ret[c])
      BY <1>0, <2>0, <2>8 DEF drop_unlock, At, Moves
    <3> QED
      BY <1>0, <3>1, ControlFrame DEF Moves
  <2>9. CASE drop_check_pending(c)
    <3>1. ControlOf(c)' /\ (Moves(c, "relock", ret[c]) \/ Moves(c, "dec", ret[c]))
      BY <1>0, <2>0, <2>9 DEF drop_check_pending, At, Moves
    <3> QED
      BY <1>0, <3>1, ControlFrame DEF Moves
  <2>10. CASE drop_relock(c)
    <3>1. ControlOf(c)' /\ Moves(c, "swap", ret[c])
      BY <1>0, <2>0, <2>10, RelockFindsUnlocked DEF drop_relock, At, Moves, Releasing
    <3> QED
      BY <1>0, <3>1, ControlFrame DEF Moves
  <2>11. CASE resume_dec(c)
    <3>1. ControlOf(c)' /\ (Moves(c, "chk", ret[c]) \/ Moves(c, "outer_chk", ret[c]))
      BY <1>0, <2>0, <2>11 DEF resume_dec, At, Moves
    <3> QED
      BY <1>0, <3>1, ControlFrame DEF Moves
  <2>12. CASE resume_chk(c)
    <3>1. ControlOf(c)' /\ (Moves(c, ret[c], "run") \/ Moves(c, Home(c), "run"))
      BY <1>0, <2>0, <2>12 DEF resume_chk, At, Moves, Home
    <3> QED
      BY <1>0, <3>1, ControlFrame DEF Moves
  <2>13. CASE notify_pop(c)
    <3>1. ControlOf(c)' /\ (Moves(c, "outer_dec", ret[c]) \/ Moves(c, "accept", "outer_dec"))
      BY <1>0, <2>0, <2>13 DEF notify_pop, At, Moves
    <3> QED
      BY <1>0, <3>1, ControlFrame DEF Moves
  <2> QED
    BY <1>1, <2>1, <2>2, <2>3, <2>4, <2>5, <2>6, <2>7, <2>8, <2>9, <2>10, <2>11, <2>12, <2>13 DEF KernelStep
<1>2. ASSUME NEW c \in Ctx, notify(c) PROVE ControlInv'
  <2>0. ControlOf(c) /\ (c = Kern \/ c \in Irq \/ c \in Task) /\ (c \in Task => c \notin Irq /\ c # Kern)
        /\ (c \in Irq => c # Kern)
    BY <1>0, Contexts DEF Ctx, ControlInv
  <2>1. ControlOf(c)' /\ Moves(c, "pop", ret[c])
    BY <1>0, <2>0, <1>2 DEF notify, UserCode, At, Home, Moves, ControlOf, KernSteps, IrqSteps,
       TaskSteps, NotifySteps, CallSteps
  <2> QED
    BY <1>0, <2>1, ControlFrame DEF Moves
<1>3. CASE PickNext
  <2>0. ControlOf(Kern) /\ Kern \in Ctx /\ Kern \notin Irq /\ Kern \notin Task /\ Kern # Idle
    BY <1>0, Contexts, TaskAssumption DEF Ctx, ControlInv
  <2> USE DEF ControlOf, KernSteps, DropSteps, CallSteps, Moves
  <2>1. CASE pendsv_entry
    <3>1. ControlOf(Kern)' /\ Moves(Kern, "pick", ret[Kern])
      BY <1>0, <2>0, <2>1 DEF pendsv_entry, Enter
    <3> QED
      BY <1>0, <2>0, <3>1, ControlFrame
  <2>2. CASE pick_suspend
    <3>1. SUSPEND_CNT = 0
      <4>1. Running(Kern) /\ pc[Kern] = "pick"
        BY <2>2 DEF pick_suspend, At
      <4>2. Own(Kern) = 0
        BY <2>0, <4>1 DEF Own, SuspendedSteps
      <4> QED
        BY <1>0, <4>1, <4>2, PickFindsResumed
    <3>2. ControlOf(Kern)' /\ Moves(Kern, "pick_guard", ret[Kern])
      BY <1>0, <2>0, <2>2, <3>1 DEF pick_suspend
    <3> QED
      BY <1>0, <2>0, <3>2, ControlFrame
  <2>3. CASE pick_guard
    <3>1. ~locked
      BY <1>0, <2>3, PickFindsUnlocked DEF pick_guard, At, Holder
    <3>2. ControlOf(Kern)' /\ Moves(Kern, "pick_body", ret[Kern])
      BY <1>0, <2>0, <2>3, <3>1 DEF pick_guard
    <3> QED
      BY <1>0, <2>0, <3>2, ControlFrame
  <2>4. CASE pick_body
    <3>1. Switches
      BY <1>0, <2>4, SomethingToRun, PickSwitches
    <3>2. ControlOf(Kern)' /\ Moves(Kern, "swap", "idle")
      BY <1>0, <2>0, <3>1 DEF Switches
    <3> QED
      BY <1>0, <2>0, <3>2, ControlFrame
  <2> QED
    BY <1>3, <2>1, <2>2, <2>3, <2>4 DEF PickNext
<1>4. ASSUME NEW t \in Task, TaskStep(t) PROVE ControlInv'
  <2>0. ControlOf(t) /\ t \in Ctx /\ t \notin Irq /\ t # Kern
    BY <1>0, Contexts DEF Ctx, ControlInv
  <2> USE DEF ControlOf, TaskSteps, NotifySteps, DropSteps, AcceptSteps, CallSteps, Moves
  <2>1. CASE yield_current_task(t)
    <3>1. ControlOf(t)' /\ Moves(t, "run", ret[t])
      BY <1>0, <2>0, <2>1 DEF yield_current_task, At
    <3> QED
      BY <1>0, <2>0, <3>1, ControlFrame
  <2>2. CASE block_enqueue(t)
    <3>1. ControlOf(t)' /\ Moves(t, "dec", "yield")
      BY <1>0, <2>0, <2>2 DEF block_enqueue, At
    <3> QED
      BY <1>0, <2>0, <3>1, ControlFrame
  <2>3. CASE quota_load(t)
    <3>1. ControlOf(t)' /\ (Moves(t, "cas", ret[t]) \/ Moves(t, "run", ret[t]))
      BY <1>0, <2>0, <2>3 DEF quota_load, At
    <3> QED
      BY <1>0, <2>0, <3>1, ControlFrame
  <2>4. CASE quota_cas(t)
    <3>1. ControlOf(t)' /\ (Moves(t, "build", ret[t]) \/ Moves(t, "quota", ret[t]))
      BY <1>0, <2>0, <2>4 DEF quota_cas, At
    <3> QED
      BY <1>0, <2>0, <3>1, ControlFrame
  <2>5. CASE build(t)
    <3>1. ASSUME NEW n \in Task, state[n] = "Unborn", ret' = [ret EXCEPT ![t] = "run"],
                 pc' = [pc EXCEPT ![t] = "accept", ![n] = "run"]
          PROVE  ControlInv'
      <4>1. pc[n] \in {"run", "dead"} /\ n \in Ctx /\ pc[t] = "build" /\ n # t
        BY <1>0, <3>1, <2>5 DEF CurrentInv, Ctx, build, At
      <4>2. ControlOf(n) /\ n \notin Irq /\ n # Kern
        BY <1>0, <4>1, Contexts DEF ControlInv, Ctx
      <4>3. ControlOf(t)'
        BY <1>0, <2>0, <3>1, <4>1
      <4>4. ControlOf(n)'
        BY <1>0, <4>2, <3>1, <4>1
      <4>5. \A d \in Ctx \ {t, n} : pc'[d] = pc[d] /\ ret'[d] = ret[d]
        BY <1>0, <2>0, <3>1, <4>1
      <4>6. \A d \in Ctx \ {t, n} : ControlOf(d)'
        BY <1>0, <4>5 DEF ControlInv
      <4> QED
        BY <4>3, <4>4, <4>6 DEF ControlInv
    <3>2. CASE Goto(t, "run") /\ UNCHANGED ret
      <4>1. ControlOf(t)' /\ Moves(t, "run", ret[t])
        BY <1>0, <2>0, <2>5, <3>2 DEF build, At
      <4> QED
        BY <1>0, <2>0, <4>1, ControlFrame
    <3> QED
      BY <2>5, <3>1, <3>2 DEF build
  <2>6. ASSUME NEW p \in Level, change_intrinsic_priority(t, p) PROVE ControlInv'
    <3>1. ControlOf(t)' /\ Moves(t, "dec", "yield")
      BY <1>0, <2>0, <2>6 DEF change_intrinsic_priority, At
    <3> QED
      BY <1>0, <2>0, <3>1, ControlFrame
  <2> QED
    BY <1>4, <2>1, <2>2, <2>3, <2>4, <2>5, <2>6 DEF TaskStep
<1>5. ASSUME NEW t \in Task, TaskCall(t) PROVE ControlInv'
  <2>0. ControlOf(t) /\ t \in Ctx /\ t \notin Irq /\ t # Kern
    BY <1>0, Contexts DEF Ctx, ControlInv
  <2> USE DEF ControlOf, TaskSteps, NotifySteps, DropSteps, CallSteps, Moves, UserCode, At, Home
  <2>1. CASE hold_guard(t)
    BY <1>0, <2>1 DEF hold_guard, ControlInv
  <2>2. CASE drop_guard(t)
    <3>1. ControlOf(t)' /\ Moves(t, "dec", "run")
      BY <1>0, <2>0, <2>2 DEF drop_guard
    <3> QED
      BY <1>0, <2>0, <3>1, ControlFrame
  <2>3. CASE yield_current(t)
    <3>1. ControlOf(t)' /\ Moves(t, "yield", ret[t])
      BY <1>0, <2>0, <2>3 DEF yield_current
    <3> QED
      BY <1>0, <2>0, <3>1, ControlFrame
  <2>4. CASE block(t)
    <3>1. ControlOf(t)' /\ Moves(t, "enqueue", ret[t])
      BY <1>0, <2>0, <2>4 DEF block
    <3> QED
      BY <1>0, <2>0, <3>1, ControlFrame
  <2>5. CASE change_current_priority(t)
    <3>1. ControlOf(t)' /\ Moves(t, "setprio", ret[t])
      BY <1>0, <2>0, <2>5 DEF change_current_priority
    <3> QED
      BY <1>0, <2>0, <3>1, ControlFrame
  <2>6. CASE spawn(t)
    <3>1. ControlOf(t)' /\ Moves(t, "quota", ret[t])
      BY <1>0, <2>0, <2>6 DEF spawn
    <3> QED
      BY <1>0, <2>0, <3>1, ControlFrame
  <2>7. CASE svc_destroy_current_task(t)
    <3>1. /\ pc' = [pc EXCEPT ![t] = "dead", ![Kern] = "destroy"] /\ ret' = ret
          /\ pc[t] = "run" /\ t # Idle /\ Kern \in Ctx /\ Kern \notin Irq /\ Kern \notin Task /\ Kern # Idle
      BY <2>7, Contexts, TaskAssumption DEF svc_destroy_current_task, Ctx
    <3>2. ControlOf(t)'
      BY <1>0, <2>0, <3>1
    <3>3. ControlOf(Kern)'
      BY <1>0, <2>0, <3>1 DEF KernSteps
    <3>4. \A d \in Ctx \ {t, Kern} : pc'[d] = pc[d] /\ ret'[d] = ret[d]
      BY <1>0, <2>0, <3>1
    <3>5. \A d \in Ctx \ {t, Kern} : ControlOf(d)'
      BY <1>0, <3>4 DEF ControlInv
    <3> QED
      BY <3>2, <3>3, <3>5 DEF ControlInv
  <2> QED
    BY <1>5, <2>1, <2>2, <2>3, <2>4, <2>5, <2>6, <2>7 DEF TaskCall
<1>6. ASSUME NEW e \in Irq, irq_entry(e) \/ irq_return(e) PROVE ControlInv'
  <2>0. ControlOf(e) /\ e \in Ctx /\ e # Kern /\ e \notin Task /\ e # Idle
    BY <1>0, Contexts, TaskAssumption DEF Ctx, ControlInv
  <2> USE DEF ControlOf, IrqSteps, CallSteps, Moves
  <2>1. CASE irq_entry(e)
    <3>1. ControlOf(e)' /\ Moves(e, "isr", ret[e])
      BY <1>0, <2>0, <2>1 DEF irq_entry, Enter
    <3> QED
      BY <1>0, <2>0, <3>1, ControlFrame
  <2>2. CASE irq_return(e)
    <3>1. ControlOf(e)' /\ Moves(e, "idle", ret[e])
      BY <1>0, <2>0, <2>2 DEF irq_return
    <3> QED
      BY <1>0, <2>0, <3>1, ControlFrame
  <2> QED
    BY <1>6, <2>1, <2>2
<1>7. CASE drop_current_task_from_svc
  <2>0. ControlOf(Kern) /\ Kern \in Ctx /\ Kern \notin Irq /\ Kern \notin Task /\ Kern # Idle
    BY <1>0, Contexts, TaskAssumption DEF Ctx, ControlInv
  <2>1. ControlOf(Kern)' /\ Moves(Kern, "idle", ret[Kern])
    BY <1>0, <2>0, <1>7 DEF drop_current_task_from_svc, ControlOf, KernSteps, CallSteps, Moves
  <2> QED
    BY <1>0, <2>0, <2>1, ControlFrame DEF Moves
<1> QED
  BY <1>1, <1>2, <1>3, <1>4, <1>5, <1>6, <1>7 DEF Next
-----------------------------------------------------------------------------
(***************************************************************************)
(* Every action keeps SUSPEND_CNT what the contexts on the stack own.      *)
(***************************************************************************)
\* The suspensions of a context do not depend on the other contexts.
LEMMA OwnFrame ==
    ASSUME TypeOK, TypeOK', NEW d \in Ctx, pc'[d] = pc[d], ret'[d] = ret[d],
           d \in Task => guards'[d] = guards[d]
    PROVE  Own(d)' = Own(d)
BY DEF Own

LeavesNoGuard(t) ==
    \/ pc[t] \in {"yield", "enqueue", "setprio", "dead"}
    \/ pc[t] \in {"dec", "chk"} /\ ret[t] = "yield"
    => guards[t] = 0

\* A step of a running context that stays where it is on the stack.
LEMMA SuspensionFrame ==
    ASSUME SuspensionInv, CoversCurrent, TypeOK',
           NEW c \in Ctx, Running(c), NEW s, NEW r, Moves(c, s, r),
           c \in Exc => s # "idle",
           \A t \in Task \ {c} : guards'[t] = guards[t],
           Own(c)' - Own(c) = SUSPEND_CNT' - SUSPEND_CNT,
           CUR_TASK' = CUR_TASK, entry' = entry,
           pendsv' => pendsv \/ Own(CUR_TASK)' = 0,
           c \in Task => LeavesNoGuard(c)'
    PROVE  SuspensionStack' /\ CoversCurrent' /\ SwitchedOutOwnNothing'
<1>0. /\ TypeOK /\ SuspensionStack /\ SwitchedOutOwnNothing
      /\ pc \in [Ctx -> Step] /\ ret \in [Ctx -> {"run", "yield", "idle", "outer_dec"}]
      /\ CUR_TASK \in Task /\ CUR_TASK \in Ctx
  BY DEF SuspensionInv, TypeOK, Ctx
<1>1. \A d \in Ctx \ {c} : pc'[d] = pc[d] /\ ret'[d] = ret[d]
  BY <1>0 DEF Moves
<1>2. \A d \in Ctx \ {c} : Own(d)' = Own(d)
  BY <1>0, <1>1, OwnFrame
<1>3. c \in Exc => Active(c)'
  BY <1>0 DEF Active, Moves
<1>4. SuspensionStack' /\ CoversCurrent'
  <2>1. \A e \in Exc \ {c} : pc'[e] = pc[e]
    BY <1>1 DEF Ctx
  <2> QED
    BY <1>0, <1>2, <1>3, <2>1, StackStep
<1>5. c \in Task => c = CUR_TASK /\ ~pendsv /\ ~Active(Kern)
  BY Contexts DEF Running, ThreadMode, Active
<1>6. \A t \in Task : t # CUR_TASK => Own(t)' = 0
  BY <1>0, <1>2, <1>5 DEF SwitchedOutOwnNothing, Ctx
<1>7. (pendsv \/ Active(Kern))' => Own(CUR_TASK)' = 0
  <2>1. CASE c \in Task
    BY <1>0, <1>1, <1>5, <2>1, Contexts DEF Active, Ctx
  <2>2. CASE c \in Exc
    <3>1. Own(CUR_TASK)' = Own(CUR_TASK)
      BY <1>0, <1>2, <2>2, Contexts
    <3>2. Active(Kern)' => Active(Kern)
      BY <1>0, <1>1, <2>2, Contexts DEF Active, Ctx, Running
    <3> QED
      BY <1>0, <3>1, <3>2 DEF SwitchedOutOwnNothing
  <2> QED
    BY <2>1, <2>2 DEF Ctx
<1>8. \A t \in Task : LeavesNoGuard(t)'
  BY <1>0, <1>1 DEF SwitchedOutOwnNothing, LeavesNoGuard, Ctx
<1> QED
  BY <1>4, <1>6, <1>7, <1>8 DEF SwitchedOutOwnNothing, LeavesNoGuard

\* SUSPEND_CNT remains the sum of what the contexts on the stack own, and a
\* task that leaves the CPU owns nothing.
LEMMA SuspensionStep ==
    ASSUME IInv, Next, ~SuspendedPriorityChange
    PROVE  SuspensionStack' /\ CoversCurrent' /\ SwitchedOutOwnNothing'
<1> DEFINE Goal == SuspensionStack' /\ CoversCurrent' /\ SwitchedOutOwnNothing'
<1>0. /\ TypeOK /\ TypeOK' /\ SuspensionInv /\ CoversCurrent /\ ControlInv
      /\ SuspensionStack /\ SwitchedOutOwnNothing /\ PlaceInv /\ QuotaInv /\ CurrentInv
      /\ pc \in [Ctx -> Step] /\ ret \in [Ctx -> {"run", "yield", "idle", "outer_dec"}]
      /\ guards \in [Task -> {0, 1}] /\ SUSPEND_CNT \in Nat /\ entry \in [Exc -> Nat]
      /\ CUR_TASK \in Task /\ CUR_TASK \in Ctx
  BY TypeStep DEF IInv, SuspensionInv, TypeOK, Ctx
<1> HIDE DEF Goal
<1> USE DEF queue, task, switch, frame, Goto
<1>1. ASSUME NEW c \in Ctx, KernelStep(c) PROVE Goal
  <2>0. /\ ControlOf(c) /\ (c \in Exc \/ c \in Task) /\ ~(c \in Exc /\ c \in Task)
        /\ (c \in Exc => c = Kern \/ c \in Irq) /\ (c \in Irq => c # Kern) /\ (c \in Irq => c \in Exc) /\ (c = Kern => c \in Exc)
        /\ (c \in Task => guards[c] \in {0, 1})
    BY <1>0, Contexts, TaskAssumption DEF Ctx, ControlInv
  <2> USE DEF ControlOf, KernSteps, IrqSteps, TaskSteps, NotifySteps, AcceptSteps, DropSteps,
              CallSteps, SuspendedSteps, Own, LeavesNoGuard
  <2>1. CASE accept_suspend(c)
    <3>1. /\ Running(c) /\ Moves(c, "guard", ret[c])
          /\ UNCHANGED <<guards, CUR_TASK, entry, pendsv>>
      BY <1>0, <2>0, <2>1 DEF accept_suspend, At, Moves
    <3>2. /\ Own(c)' - Own(c) = SUSPEND_CNT' - SUSPEND_CNT
          /\ c \in Task => LeavesNoGuard(c)'
      BY <1>0, <2>0, <2>1, <3>1 DEF accept_suspend, At, Suspend, Moves
    <3> QED
      BY <1>0, <3>1, <3>2, SuspensionFrame DEF Goal
  <2>2. CASE accept_guard(c)
    <3>1. /\ Running(c) /\ (Moves(c, "pend", ret[c]) \/ Moves(c, "full", ret[c]))
          /\ UNCHANGED <<guards, CUR_TASK, entry, pendsv>>
      BY <1>0, <2>0, <2>2 DEF accept_guard, At, Moves
    <3>2. /\ Own(c)' - Own(c) = SUSPEND_CNT' - SUSPEND_CNT
          /\ c \in Task => LeavesNoGuard(c)'
      BY <1>0, <2>0, <2>2, <3>1 DEF accept_guard, At, Suspend, Moves
    <3> QED
      BY <1>0, <3>1, <3>2, SuspensionFrame DEF Goal
  <2>3. CASE accept_full(c)
    <3>1. /\ Running(c) /\ Moves(c, "swap", ret[c])
          /\ UNCHANGED <<guards, CUR_TASK, entry, pendsv>>
      BY <1>0, <2>0, <2>3 DEF accept_full, At, Moves
    <3>2. /\ Own(c)' - Own(c) = SUSPEND_CNT' - SUSPEND_CNT
          /\ c \in Task => LeavesNoGuard(c)'
      BY <1>0, <2>0, <2>3, <3>1 DEF accept_full, At, Suspend, Moves
    <3> QED
      BY <1>0, <3>1, <3>2, SuspensionFrame DEF Goal
  <2>4. CASE accept_pend(c)
    <3>1. /\ Running(c) /\ Moves(c, "flag", ret[c])
          /\ UNCHANGED <<guards, CUR_TASK, entry, pendsv>>
      BY <1>0, <2>0, <2>4, BufferHasRoom DEF accept_pend, At, Moves, Handing
    <3>2. /\ Own(c)' - Own(c) = SUSPEND_CNT' - SUSPEND_CNT
          /\ c \in Task => LeavesNoGuard(c)'
      BY <1>0, <2>0, <2>4, <3>1 DEF accept_pend, At, Suspend, Moves
    <3> QED
      BY <1>0, <3>1, <3>2, SuspensionFrame DEF Goal
  <2>5. CASE drop_pend_only(c)
    <3>1. /\ Running(c) /\ Moves(c, "dec", ret[c])
          /\ UNCHANGED <<guards, CUR_TASK, entry, pendsv>>
      BY <1>0, <2>0, <2>5 DEF drop_pend_only, At, Moves
    <3>2. /\ Own(c)' - Own(c) = SUSPEND_CNT' - SUSPEND_CNT
          /\ c \in Task => LeavesNoGuard(c)'
      BY <1>0, <2>0, <2>5, <3>1 DEF drop_pend_only, At, Suspend, Moves
    <3> QED
      BY <1>0, <3>1, <3>2, SuspensionFrame DEF Goal
  <2>6. CASE drop_swap_pending(c)
    <3>1. /\ Running(c) /\ (Moves(c, "drain", ret[c]) \/ Moves(c, "unlock", ret[c]))
          /\ UNCHANGED <<guards, CUR_TASK, entry, pendsv>>
      BY <1>0, <2>0, <2>6 DEF drop_swap_pending, At, Moves
    <3>2. /\ Own(c)' - Own(c) = SUSPEND_CNT' - SUSPEND_CNT
          /\ c \in Task => LeavesNoGuard(c)'
      BY <1>0, <2>0, <2>6, <3>1 DEF drop_swap_pending, At, Suspend, Moves
    <3> QED
      BY <1>0, <3>1, <3>2, SuspensionFrame DEF Goal
  <2>7. CASE run_pended_op(c)
    <3>1. /\ Running(c) /\ (Moves(c, "unlock", ret[c]) \/ Moves(c, "drain", ret[c]))
          /\ UNCHANGED <<guards, CUR_TASK, entry, pendsv>>
      BY <1>0, <2>0, <2>7 DEF run_pended_op, At, Moves
    <3>2. /\ Own(c)' - Own(c) = SUSPEND_CNT' - SUSPEND_CNT
          /\ c \in Task => LeavesNoGuard(c)'
      BY <1>0, <2>0, <2>7, <3>1 DEF run_pended_op, At, Suspend, Moves
    <3> QED
      BY <1>0, <3>1, <3>2, SuspensionFrame DEF Goal
  <2>8. CASE drop_unlock(c)
    <3>1. /\ Running(c) /\ Moves(c, "check", ret[c])
          /\ UNCHANGED <<guards, CUR_TASK, entry, pendsv>>
      BY <1>0, <2>0, <2>8 DEF drop_unlock, At, Moves
    <3>2. /\ Own(c)' - Own(c) = SUSPEND_CNT' - SUSPEND_CNT
          /\ c \in Task => LeavesNoGuard(c)'
      BY <1>0, <2>0, <2>8, <3>1 DEF drop_unlock, At, Suspend, Moves
    <3> QED
      BY <1>0, <3>1, <3>2, SuspensionFrame DEF Goal
  <2>9. CASE drop_check_pending(c)
    <3>1. /\ Running(c) /\ (Moves(c, "relock", ret[c]) \/ Moves(c, "dec", ret[c]))
          /\ UNCHANGED <<guards, CUR_TASK, entry, pendsv>>
      BY <1>0, <2>0, <2>9 DEF drop_check_pending, At, Moves
    <3>2. /\ Own(c)' - Own(c) = SUSPEND_CNT' - SUSPEND_CNT
          /\ c \in Task => LeavesNoGuard(c)'
      BY <1>0, <2>0, <2>9, <3>1 DEF drop_check_pending, At, Suspend, Moves
    <3> QED
      BY <1>0, <3>1, <3>2, SuspensionFrame DEF Goal
  <2>10. CASE drop_relock(c)
    <3>1. /\ Running(c) /\ Moves(c, "swap", ret[c])
          /\ UNCHANGED <<guards, CUR_TASK, entry, pendsv>>
      BY <1>0, <2>0, <2>10, RelockFindsUnlocked DEF drop_relock, At, Moves, Releasing
    <3>2. /\ Own(c)' - Own(c) = SUSPEND_CNT' - SUSPEND_CNT
          /\ c \in Task => LeavesNoGuard(c)'
      BY <1>0, <2>0, <2>10, <3>1 DEF drop_relock, At, Suspend, Moves
    <3> QED
      BY <1>0, <3>1, <3>2, SuspensionFrame DEF Goal
  <2>11. CASE resume_dec(c)
    <3>1. /\ Running(c) /\ pc[c] \in {"dec", "outer_dec"} /\ SUSPEND_CNT' = SUSPEND_CNT - 1
          /\ UNCHANGED <<guards, CUR_TASK, entry, pendsv>>
          /\ pc[c] = "dec" => Moves(c, "chk", ret[c])
          /\ pc[c] = "outer_dec" => Moves(c, "outer_chk", ret[c])
      BY <1>0, <2>11 DEF resume_dec, Moves
    <3>2. CASE pc[c] = "dec"
      <4>1. Own(c)' = Own(c) - 1 /\ Own(c) \in Nat /\ (c \in Task => LeavesNoGuard(c)')
        BY <1>0, <2>0, <3>1, <3>2 DEF Moves, SwitchedOutOwnNothing
      <4> HIDE DEF Own, LeavesNoGuard
      <4>2. Own(c)' - Own(c) = SUSPEND_CNT' - SUSPEND_CNT
        BY <1>0, <3>1, <4>1
      <4> QED
        BY <1>0, <3>1, <3>2, <4>1, <4>2, SuspensionFrame DEF Goal
    <3>3. CASE pc[c] = "outer_dec"
      <4>1. Own(c)' = Own(c) - 1 /\ Own(c) \in Nat /\ (c \in Task => LeavesNoGuard(c)')
        BY <1>0, <2>0, <3>1, <3>3 DEF Moves
      <4> HIDE DEF Own, LeavesNoGuard
      <4>2. Own(c)' - Own(c) = SUSPEND_CNT' - SUSPEND_CNT
        BY <1>0, <3>1, <4>1
      <4> QED
        BY <1>0, <3>1, <3>3, <4>1, <4>2, SuspensionFrame DEF Goal
    <3> QED
      BY <3>1, <3>2, <3>3
  <2>12. CASE resume_chk(c)
    <3>0. /\ Running(c) /\ pc[c] \in {"chk", "outer_chk"}
          /\ UNCHANGED <<guards, CUR_TASK, entry, SUSPEND_CNT>>
          /\ (pendsv' => pendsv \/ SUSPEND_CNT = 0)
          /\ (Moves(c, ret[c], "run") \/ Moves(c, Home(c), "run"))
          /\ pc'[c] = IF pc[c] = "chk" THEN ret[c] ELSE Home(c)
      BY <1>0, <2>12 DEF resume_chk, Moves
    <3>1. Own(c)' = Own(c) /\ Own(c) \in Nat
      BY <1>0, <2>0, <3>0 DEF Home, Moves
    <3>2. Own(CUR_TASK)' = Own(CUR_TASK) /\ Own(CUR_TASK) \in Nat
      <4> HIDE DEF Own
      <4>1. c # CUR_TASK => pc'[CUR_TASK] = pc[CUR_TASK] /\ ret'[CUR_TASK] = ret[CUR_TASK]
        BY <1>0, <3>0 DEF Moves
      <4>3. Own(CUR_TASK) \in Nat
        BY <1>0, OwnType DEF OwnNat
      <4>2. c # CUR_TASK => Own(CUR_TASK)' = Own(CUR_TASK)
        BY <1>0, <3>0, <4>1, OwnFrame
      <4> QED
        BY <1>0, <3>0, <3>1, <4>2, <4>3
    <3>3. pendsv' => pendsv \/ Own(CUR_TASK)' = 0
      <4> HIDE DEF Own
      <4> QED
        BY <1>0, <3>0, <3>2 DEF CoversCurrent
    <3>4. c \in Task => LeavesNoGuard(c)'
      BY <1>0, <2>0, <3>0 DEF Home, Moves, SwitchedOutOwnNothing
    <3>5. CASE c # Kern
      <4>1. \E s : Moves(c, s, "run") /\ (c \in Exc => s # "idle")
        <5>1. CASE pc[c] = "chk"
          <6>1. Moves(c, ret[c], "run") /\ (c \in Exc => ret[c] # "idle")
            BY <1>0, <2>0, <2>12, <3>5, <5>1 DEF resume_chk, Moves
          <6> QED
            BY <6>1
        <5>2. CASE pc[c] = "outer_chk"
          <6>1. Moves(c, Home(c), "run") /\ Home(c) # "idle"
            BY <1>0, <2>12, <5>2 DEF resume_chk, Moves, Home
          <6> QED
            BY <6>1
        <5> QED
          BY <3>0, <5>1, <5>2
      <4> HIDE DEF Own, LeavesNoGuard
      <4>3. Own(c)' - Own(c) = SUSPEND_CNT' - SUSPEND_CNT
        BY <1>0, <3>0, <3>1
      <4> QED
        BY <1>0, <3>0, <3>3, <3>4, <4>1, <4>3, SuspensionFrame DEF Goal
    <3>6. CASE c = Kern
      <4>1. pc[c] = "chk" /\ ret[c] = "idle" /\ Moves(Kern, "idle", "run")
        BY <1>0, <2>0, <3>0, <3>6 DEF Moves
      <4>2. Own(Kern) = 0
        BY <2>0, <3>6, <4>1
      <4>3. SUSPEND_CNT = 0 /\ \A t \in Task : Own(t) = 0
        BY <1>0, <3>0, <3>6, <4>2, PickFindsResumed
      <4> HIDE DEF Own
      <4>4. \A t \in Task : pc'[t] = pc[t] /\ ret'[t] = ret[t]
        BY <1>0, <2>0, <3>6, <4>1 DEF Moves, Ctx
      <4>5. \A t \in Task : Own(t)' = 0
        BY <1>0, <3>0, <4>3, <4>4, OwnFrame DEF Ctx
      <4>6. ThreadMode' /\ \A e \in Exc : ~Active(e)'
        BY <1>0, <3>0, <3>6, <4>1, Contexts DEF ThreadMode, Running, Active, Moves, Ctx
      <4> QED
        BY <1>0, <3>0, <4>3, <4>4, <4>5, <4>6, Contexts
           DEF Goal, SuspensionStack, CoversCurrent, SwitchedOutOwnNothing
    <3> QED
      BY <3>5, <3>6
  <2>13. CASE notify_pop(c)
    <3>1. /\ Running(c) /\ (Moves(c, "outer_dec", ret[c]) \/ Moves(c, "accept", "outer_dec"))
          /\ UNCHANGED <<guards, CUR_TASK, entry, pendsv>>
      BY <1>0, <2>0, <2>13 DEF notify_pop, At, Moves
    <3>2. /\ Own(c)' - Own(c) = SUSPEND_CNT' - SUSPEND_CNT
          /\ c \in Task => LeavesNoGuard(c)'
      BY <1>0, <2>0, <2>13, <3>1 DEF notify_pop, At, Suspend, Moves
    <3> QED
      BY <1>0, <3>1, <3>2, SuspensionFrame DEF Goal
  <2> QED
    BY <1>1, <2>1, <2>2, <2>3, <2>4, <2>5, <2>6, <2>7, <2>8, <2>9, <2>10, <2>11, <2>12, <2>13 DEF KernelStep
<1>2. ASSUME NEW c \in Ctx, notify(c) PROVE Goal
  <2>1. /\ Running(c) /\ Moves(c, "pop", ret[c]) /\ UNCHANGED <<guards, CUR_TASK, entry, pendsv>>
        /\ pc[c] \in {"run", "isr"} /\ SUSPEND_CNT' = SUSPEND_CNT + 1
    BY <1>0, <1>2 DEF notify, UserCode, At, Home, Moves, Suspend
  <2>2. /\ Own(c)' - Own(c) = SUSPEND_CNT' - SUSPEND_CNT
        /\ c \in Task => LeavesNoGuard(c)'
    BY <1>0, <2>1 DEF Own, LeavesNoGuard, Moves, CallSteps, SuspendedSteps
  <2> QED
    BY <1>0, <2>1, <2>2, SuspensionFrame DEF Goal
<1>3. CASE PickNext
  <2>0. ControlOf(Kern) /\ Kern \in Ctx /\ Kern \notin Irq /\ Kern \notin Task /\ Kern \in Exc
    BY <1>0, Contexts DEF Ctx, ControlInv
  <2>1. CASE pendsv_entry
    <3>1. /\ Moves(Kern, "pick", ret[Kern]) /\ UNCHANGED <<guards, CUR_TASK, SUSPEND_CNT>>
          /\ pendsv /\ ThreadMode /\ entry' = [entry EXCEPT ![Kern] = SUSPEND_CNT] /\ ~pendsv'
      BY <1>0, <2>1 DEF pendsv_entry, Enter, Moves
    <3>2. SUSPEND_CNT = 0 /\ \A t \in Task : Own(t) = 0
      BY <1>0, <3>1 DEF SuspensionStack, SwitchedOutOwnNothing
    <3>3. \A t \in Task : pc'[t] = pc[t] /\ ret'[t] = ret[t]
      BY <1>0, <2>0, <3>1 DEF Moves, Ctx
    <3>4. \A t \in Task : Own(t)' = 0
      BY <1>0, <3>1, <3>2, <3>3, OwnFrame DEF Ctx
    <3>5. \A e \in Exc : Active(e)' <=> e = Kern
      BY <1>0, <2>0, <3>1 DEF Active, ThreadMode, Moves, Ctx
    <3>6. Own(Kern)' = 0 /\ entry'[Kern] = 0 /\ ~ThreadMode'
      BY <1>0, <2>0, <3>1, <3>2 DEF Own, Moves, CallSteps, SuspendedSteps, ThreadMode
    <3> QED
      BY <1>0, <2>0, <3>1, <3>2, <3>3, <3>4, <3>5, <3>6, Contexts
         DEF Goal, SuspensionStack, CoversCurrent, SwitchedOutOwnNothing
  <2>2. CASE pick_suspend
    <3>1. Running(Kern) /\ pc[Kern] = "pick"
      BY <2>2 DEF pick_suspend, At
    <3>2. Own(Kern) = 0
      BY <2>0, <3>1 DEF Own, SuspendedSteps, CallSteps
    <3>3. SUSPEND_CNT = 0
      BY <1>0, <3>1, <3>2, PickFindsResumed
    <3>4. /\ Moves(Kern, "pick_guard", ret[Kern]) /\ UNCHANGED <<guards, CUR_TASK, entry, pendsv>>
          /\ SUSPEND_CNT' = SUSPEND_CNT + 1
      BY <1>0, <2>2, <3>3 DEF pick_suspend, Moves, Suspend
    <3>5. Own(Kern)' = 1
      BY <1>0, <2>0, <3>4 DEF Own, SuspendedSteps, CallSteps, Moves
    <3> QED
      BY <1>0, <2>0, <3>1, <3>2, <3>3, <3>4, <3>5, SuspensionFrame DEF Goal
  <2>3. CASE pick_guard
    <3>1. Running(Kern) /\ pc[Kern] = "pick_guard"
      BY <2>3 DEF pick_guard, At
    <3>2. ~locked
      BY <1>0, <3>1, PickFindsUnlocked DEF Holder
    <3>3. /\ Moves(Kern, "pick_body", ret[Kern])
          /\ UNCHANGED <<guards, CUR_TASK, entry, pendsv, SUSPEND_CNT>>
      BY <1>0, <2>3, <3>2 DEF pick_guard, Moves
    <3>4. Own(Kern) = 1 /\ Own(Kern)' = 1
      BY <1>0, <2>0, <3>1, <3>3 DEF Own, SuspendedSteps, CallSteps, Moves
    <3> QED
      BY <1>0, <2>0, <3>1, <3>3, <3>4, SuspensionFrame DEF Goal
  <2>4. CASE pick_body
    <3>1. Switches /\ Running(Kern)
      BY <1>0, <2>4, SomethingToRun, PickSwitches DEF pick_body, At
    <3>2. /\ SUSPEND_CNT = Own(Kern) /\ entry[Kern] = 0 /\ \A t \in Task : Own(t) = 0
      BY <1>0, <3>1, PickFindsResumed
    <3>3. Own(Kern) = 1 /\ Own(Kern)' = 1
      BY <1>0, <2>0, <3>1 DEF Switches, Own, SuspendedSteps, CallSteps
    <3>4. \A t \in Task : pc'[t] = pc[t] /\ ret'[t] = ret[t]
      BY <1>0, <2>0, <3>1 DEF Switches, Ctx
    <3>5. \A t \in Task : Own(t)' = 0
      BY <1>0, <3>1, <3>2, <3>4, OwnFrame DEF Ctx, Switches
    <3>6. (\A e \in Exc : Active(e)' <=> e = Kern) /\ ~ThreadMode'
      BY <1>0, <2>0, <3>1, Contexts DEF Active, ThreadMode, Running, Switches, Ctx
    <3>7. UNCHANGED <<guards, entry, SUSPEND_CNT>> /\ CUR_TASK' \in Task
      BY <3>1 DEF Switches
    <3> QED
      BY <1>0, <2>0, <3>2, <3>3, <3>4, <3>5, <3>6, <3>7, Contexts
         DEF Goal, SuspensionStack, CoversCurrent, SwitchedOutOwnNothing
  <2> QED
    BY <1>3, <2>1, <2>2, <2>3, <2>4 DEF PickNext
<1>4. ASSUME NEW t \in Task, TaskStep(t) PROVE Goal
  <2>0. ControlOf(t) /\ t \in Ctx /\ t \notin Irq /\ t # Kern /\ t \notin Exc /\ guards[t] \in {0, 1}
    BY <1>0, Contexts DEF Ctx, ControlInv
  <2> USE DEF ControlOf, TaskSteps, NotifySteps, DropSteps, AcceptSteps, CallSteps, SuspendedSteps,
              Moves, Own, LeavesNoGuard, At
  <2>1. CASE yield_current_task(t)
    <3>1. /\ Running(t) /\ t = CUR_TASK /\ Moves(t, "run", ret[t])
          /\ UNCHANGED <<guards, CUR_TASK, entry, SUSPEND_CNT>>
      BY <1>0, <2>0, <2>1 DEF yield_current_task, Running
    <3>2. /\ Own(t)' - Own(t) = SUSPEND_CNT' - SUSPEND_CNT
          /\ LeavesNoGuard(t)' /\ (pendsv' => pendsv \/ Own(t)' = 0)
          /\ \A u \in Task \ {t} : guards'[u] = guards[u]
      BY <1>0, <2>0, <2>1, <3>1 DEF yield_current_task, SwitchedOutOwnNothing
    <3> HIDE DEF Own, LeavesNoGuard, Moves
    <3> QED
      BY <1>0, <2>0, <3>1, <3>2, SuspensionFrame DEF Goal
  <2>2. CASE block_enqueue(t)
    <3>1. /\ Running(t) /\ t = CUR_TASK /\ Moves(t, "dec", "yield")
          /\ UNCHANGED <<guards, CUR_TASK, entry, SUSPEND_CNT, pendsv>>
      BY <1>0, <2>0, <2>2 DEF block_enqueue, Running
    <3>2. /\ Own(t)' - Own(t) = SUSPEND_CNT' - SUSPEND_CNT
          /\ LeavesNoGuard(t)' /\ (pendsv' => pendsv \/ Own(t)' = 0)
          /\ \A u \in Task \ {t} : guards'[u] = guards[u]
      BY <1>0, <2>0, <2>2, <3>1 DEF block_enqueue, SwitchedOutOwnNothing
    <3> HIDE DEF Own, LeavesNoGuard, Moves
    <3> QED
      BY <1>0, <2>0, <3>1, <3>2, SuspensionFrame DEF Goal
  <2>3. CASE quota_load(t)
    <3>1. /\ Running(t) /\ t = CUR_TASK /\ (Moves(t, "cas", ret[t]) \/ Moves(t, "run", ret[t]))
          /\ UNCHANGED <<guards, CUR_TASK, entry, SUSPEND_CNT, pendsv>>
      BY <1>0, <2>0, <2>3 DEF quota_load, Running
    <3>2. /\ Own(t)' - Own(t) = SUSPEND_CNT' - SUSPEND_CNT
          /\ LeavesNoGuard(t)' /\ (pendsv' => pendsv \/ Own(t)' = 0)
          /\ \A u \in Task \ {t} : guards'[u] = guards[u]
      BY <1>0, <2>0, <2>3, <3>1 DEF quota_load, SwitchedOutOwnNothing
    <3> HIDE DEF Own, LeavesNoGuard, Moves
    <3> QED
      BY <1>0, <2>0, <3>1, <3>2, SuspensionFrame DEF Goal
  <2>4. CASE quota_cas(t)
    <3>1. /\ Running(t) /\ t = CUR_TASK /\ (Moves(t, "build", ret[t]) \/ Moves(t, "quota", ret[t]))
          /\ UNCHANGED <<guards, CUR_TASK, entry, SUSPEND_CNT, pendsv>>
      BY <1>0, <2>0, <2>4 DEF quota_cas, Running
    <3>2. /\ Own(t)' - Own(t) = SUSPEND_CNT' - SUSPEND_CNT
          /\ LeavesNoGuard(t)' /\ (pendsv' => pendsv \/ Own(t)' = 0)
          /\ \A u \in Task \ {t} : guards'[u] = guards[u]
      BY <1>0, <2>0, <2>4, <3>1 DEF quota_cas, SwitchedOutOwnNothing
    <3> HIDE DEF Own, LeavesNoGuard, Moves
    <3> QED
      BY <1>0, <2>0, <3>1, <3>2, SuspensionFrame DEF Goal
  <2>5. CASE build(t)
    <3>0. /\ Running(t) /\ t = CUR_TASK /\ pc[t] = "build" /\ ThreadMode /\ ~pendsv
          /\ UNCHANGED <<guards, CUR_TASK, entry, SUSPEND_CNT, pendsv>>
      BY <1>0, <2>0, <2>5 DEF build, Running
    <3>1. ASSUME NEW u \in Task, state[u] = "Unborn", ret' = [ret EXCEPT ![t] = "run"],
                 pc' = [pc EXCEPT ![t] = "accept", ![u] = "run"]
          PROVE  Goal
      <4>1. u # t /\ u \in Ctx
        BY <1>0, <3>0, <3>1 DEF CurrentInv, Ctx
      <4>2. Own(t)' = Own(t) /\ LeavesNoGuard(t)'
        BY <1>0, <2>0, <3>0, <3>1, <4>1
      <4>3. guards[u] = 0 /\ Own(u)' = 0 /\ LeavesNoGuard(u)'
        BY <1>0, <3>0, <3>1, <4>1, TaskAssumption DEF SwitchedOutOwnNothing
      <4> HIDE DEF Own
      <4>4. \A v \in Ctx \ {t, u} : pc'[v] = pc[v] /\ ret'[v] = ret[v]
        BY <1>0, <2>0, <3>1, <4>1
      <4>5. \A v \in Ctx \ {t, u} : Own(v)' = Own(v)
        BY <1>0, <3>0, <4>4, OwnFrame
      <4>6. \A v \in Task \ {t} : Own(v)' = 0
        BY <1>0, <3>0, <4>3, <4>5 DEF SwitchedOutOwnNothing, Ctx
      <4>7. ThreadMode' /\ \A e \in Exc : ~Active(e)'
        BY <3>0, <4>1, <4>4, <2>0, Contexts DEF ThreadMode, Active, Ctx
      <4>8. SUSPEND_CNT' = Own(CUR_TASK)'
        BY <1>0, <3>0, <4>2 DEF SuspensionStack
      <4>9. \A v \in Task : LeavesNoGuard(v)'
        BY <1>0, <3>0, <4>2, <4>3, <4>4 DEF SwitchedOutOwnNothing, Ctx
      <4> QED
        BY <1>0, <3>0, <4>6, <4>7, <4>8, <4>9, Contexts
           DEF Goal, SuspensionStack, CoversCurrent, SwitchedOutOwnNothing
    <3>2. CASE Goto(t, "run") /\ UNCHANGED ret
      <4>1. Moves(t, "run", ret[t])
        BY <1>0, <2>0, <3>2
      <4>2. Own(t)' = Own(t) /\ LeavesNoGuard(t)'
        BY <1>0, <2>0, <3>0, <3>2
      <4> HIDE DEF Own
      <4>3. Own(t)' - Own(t) = SUSPEND_CNT' - SUSPEND_CNT
        BY <1>0, <2>0, <3>0, <4>2, OwnType DEF OwnNat
      <4> QED
        BY <1>0, <2>0, <3>0, <4>1, <4>2, <4>3, SuspensionFrame DEF Goal
    <3> QED
      BY <2>5, <3>1, <3>2 DEF build
  <2>6. ASSUME NEW p \in Level, change_intrinsic_priority(t, p) PROVE Goal
    <3>1. /\ Running(t) /\ t = CUR_TASK /\ Moves(t, "dec", "yield")
          /\ UNCHANGED <<guards, CUR_TASK, entry, SUSPEND_CNT, pendsv>>
      BY <1>0, <2>0, <2>6 DEF change_intrinsic_priority, Running
    <3>2. /\ Own(t)' - Own(t) = SUSPEND_CNT' - SUSPEND_CNT
          /\ LeavesNoGuard(t)' /\ (pendsv' => pendsv \/ Own(t)' = 0)
          /\ \A u \in Task \ {t} : guards'[u] = guards[u]
      BY <1>0, <2>0, <2>6, <3>1 DEF change_intrinsic_priority, SwitchedOutOwnNothing
    <3> HIDE DEF Own, LeavesNoGuard, Moves
    <3> QED
      BY <1>0, <2>0, <3>1, <3>2, SuspensionFrame DEF Goal
  <2> QED
    BY <1>4, <2>1, <2>2, <2>3, <2>4, <2>5, <2>6 DEF TaskStep
<1>5. ASSUME NEW t \in Task, TaskCall(t) PROVE Goal
  <2>0. ControlOf(t) /\ t \in Ctx /\ t \notin Irq /\ t # Kern /\ t \notin Exc /\ guards[t] \in {0, 1}
    BY <1>0, Contexts DEF Ctx, ControlInv
  <2> USE DEF ControlOf, TaskSteps, NotifySteps, DropSteps, AcceptSteps, CallSteps, SuspendedSteps,
              Moves, Own, LeavesNoGuard, At, UserCode, Home, Suspend
  <2>1. CASE hold_guard(t)
    <3>1. /\ Running(t) /\ t = CUR_TASK /\ Moves(t, pc[t], ret[t])
          /\ UNCHANGED <<CUR_TASK, entry, pendsv>>
      BY <1>0, <2>0, <2>1 DEF hold_guard, Running
    <3>2. /\ Own(t)' - Own(t) = SUSPEND_CNT' - SUSPEND_CNT
          /\ LeavesNoGuard(t)' /\ (pendsv' => pendsv \/ Own(t)' = 0)
          /\ \A u \in Task \ {t} : guards'[u] = guards[u]
      BY <1>0, <2>0, <2>1, <3>1 DEF hold_guard, SwitchedOutOwnNothing
    <3> HIDE DEF Own, LeavesNoGuard, Moves
    <3> QED
      BY <1>0, <2>0, <3>1, <3>2, SuspensionFrame DEF Goal
  <2>2. CASE drop_guard(t)
    <3>1. /\ Running(t) /\ t = CUR_TASK /\ Moves(t, "dec", "run")
          /\ UNCHANGED <<CUR_TASK, entry, SUSPEND_CNT, pendsv>>
      BY <1>0, <2>0, <2>2 DEF drop_guard, Running
    <3>2. /\ Own(t)' - Own(t) = SUSPEND_CNT' - SUSPEND_CNT
          /\ LeavesNoGuard(t)' /\ (pendsv' => pendsv \/ Own(t)' = 0)
          /\ \A u \in Task \ {t} : guards'[u] = guards[u]
      BY <1>0, <2>0, <2>2, <3>1 DEF drop_guard, SwitchedOutOwnNothing
    <3> HIDE DEF Own, LeavesNoGuard, Moves
    <3> QED
      BY <1>0, <2>0, <3>1, <3>2, SuspensionFrame DEF Goal
  <2>3. CASE yield_current(t)
    <3>1. /\ Running(t) /\ t = CUR_TASK /\ Moves(t, "yield", ret[t])
          /\ UNCHANGED <<guards, CUR_TASK, entry, SUSPEND_CNT, pendsv>>
      BY <1>0, <2>0, <2>3 DEF yield_current, Running
    <3>0. ThreadMode /\ SUSPEND_CNT = 0 /\ pc[t] = "run"
      BY <1>0, <2>0, <2>3 DEF yield_current, Running
    <3>3. guards[t] = 0
      BY <1>0, <2>0, <3>0, <3>1 DEF SuspensionStack
    <3>2. /\ Own(t)' - Own(t) = SUSPEND_CNT' - SUSPEND_CNT
          /\ LeavesNoGuard(t)' /\ (pendsv' => pendsv \/ Own(t)' = 0)
          /\ \A u \in Task \ {t} : guards'[u] = guards[u]
      BY <1>0, <2>0, <2>3, <3>1, <3>3 DEF yield_current, SwitchedOutOwnNothing
    <3> HIDE DEF Own, LeavesNoGuard, Moves
    <3> QED
      BY <1>0, <2>0, <3>1, <3>2, SuspensionFrame DEF Goal
  <2>4. CASE block(t)
    <3>1. /\ Running(t) /\ t = CUR_TASK /\ Moves(t, "enqueue", ret[t])
          /\ UNCHANGED <<guards, CUR_TASK, entry, pendsv>>
      BY <1>0, <2>0, <2>4 DEF block, Running
    <3>0. ThreadMode /\ SUSPEND_CNT = 0 /\ pc[t] = "run"
      BY <1>0, <2>0, <2>4 DEF block, Running
    <3>3. guards[t] = 0
      BY <1>0, <2>0, <3>0, <3>1 DEF SuspensionStack
    <3>2. /\ Own(t)' - Own(t) = SUSPEND_CNT' - SUSPEND_CNT
          /\ LeavesNoGuard(t)' /\ (pendsv' => pendsv \/ Own(t)' = 0)
          /\ \A u \in Task \ {t} : guards'[u] = guards[u]
      BY <1>0, <2>0, <2>4, <3>1, <3>3 DEF block, SwitchedOutOwnNothing
    <3> HIDE DEF Own, LeavesNoGuard, Moves
    <3> QED
      BY <1>0, <2>0, <3>1, <3>2, SuspensionFrame DEF Goal
  <2>5. CASE change_current_priority(t)
    <3>1. /\ Running(t) /\ t = CUR_TASK /\ Moves(t, "setprio", ret[t])
          /\ UNCHANGED <<guards, CUR_TASK, entry, pendsv>>
      BY <1>0, <2>0, <2>5 DEF change_current_priority, Running
    <3>0. ThreadMode /\ SUSPEND_CNT = 0 /\ pc[t] = "run"
      BY <1>0, <2>0, <2>5 DEF change_current_priority, Running
    <3>3. guards[t] = 0
      BY <1>0, <2>0, <3>0, <3>1 DEF SuspensionStack
    <3>2. /\ Own(t)' - Own(t) = SUSPEND_CNT' - SUSPEND_CNT
          /\ LeavesNoGuard(t)' /\ (pendsv' => pendsv \/ Own(t)' = 0)
          /\ \A u \in Task \ {t} : guards'[u] = guards[u]
      BY <1>0, <2>0, <2>5, <3>1, <3>3 DEF change_current_priority, SwitchedOutOwnNothing
    <3> HIDE DEF Own, LeavesNoGuard, Moves
    <3> QED
      BY <1>0, <2>0, <3>1, <3>2, SuspensionFrame DEF Goal
  <2>6. CASE spawn(t)
    <3>1. /\ Running(t) /\ t = CUR_TASK /\ Moves(t, "quota", ret[t])
          /\ UNCHANGED <<guards, CUR_TASK, entry, SUSPEND_CNT, pendsv>>
      BY <1>0, <2>0, <2>6 DEF spawn, Running
    <3>2. /\ Own(t)' - Own(t) = SUSPEND_CNT' - SUSPEND_CNT
          /\ LeavesNoGuard(t)' /\ (pendsv' => pendsv \/ Own(t)' = 0)
          /\ \A u \in Task \ {t} : guards'[u] = guards[u]
      BY <1>0, <2>0, <2>6, <3>1 DEF spawn, SwitchedOutOwnNothing
    <3> HIDE DEF Own, LeavesNoGuard, Moves
    <3> QED
      BY <1>0, <2>0, <3>1, <3>2, SuspensionFrame DEF Goal
  <2>7. CASE svc_destroy_current_task(t)
    <3>1. /\ pc' = [pc EXCEPT ![t] = "dead", ![Kern] = "destroy"] /\ ret' = ret
          /\ pc[t] = "run" /\ t = CUR_TASK /\ guards[t] = 0 /\ ThreadMode /\ ~pendsv
          /\ entry' = [entry EXCEPT ![Kern] = SUSPEND_CNT]
          /\ UNCHANGED <<guards, CUR_TASK, SUSPEND_CNT, pendsv>>
          /\ Kern \in Ctx /\ Kern \in Exc /\ Kern \notin Task
      BY <1>0, <2>0, <2>7, Contexts DEF svc_destroy_current_task, Running, Ctx
    <3>2. Own(t) = 0 /\ Own(t)' = 0 /\ Own(Kern)' = 0
      BY <1>0, <2>0, <3>1
    <3>3. SUSPEND_CNT = 0
      BY <1>0, <3>1, <3>2 DEF SuspensionStack
    <3> HIDE DEF Own
    <3>4. \A u \in Task \ {t} : pc'[u] = pc[u] /\ ret'[u] = ret[u]
      BY <1>0, <2>0, <3>1 DEF Ctx
    <3>5. \A u \in Task : Own(u)' = 0
      BY <1>0, <3>1, <3>2, <3>4, OwnFrame DEF Ctx, SwitchedOutOwnNothing
    <3>6. (\A e \in Exc : Active(e)' <=> e = Kern) /\ ~ThreadMode'
      BY <1>0, <2>0, <3>1 DEF Active, ThreadMode, Ctx
    <3>7. \A u \in Task : LeavesNoGuard(u)'
      BY <1>0, <3>1, <3>4 DEF SwitchedOutOwnNothing
    <3>8. SwitchedOutOwnNothing'
      BY <1>0, <3>1, <3>5, <3>7 DEF SwitchedOutOwnNothing
    <3> HIDE DEF LeavesNoGuard, Moves
    <3>9. SuspensionStack' /\ CoversCurrent'
      BY <1>0, <3>1, <3>2, <3>3, <3>5, <3>6, Contexts DEF SuspensionStack, CoversCurrent
    <3> QED
      BY <3>8, <3>9 DEF Goal
  <2> QED
    BY <1>5, <2>1, <2>2, <2>3, <2>4, <2>5, <2>6, <2>7 DEF TaskCall
<1>6. ASSUME NEW e \in Irq, irq_entry(e) \/ irq_return(e) PROVE Goal
  <2>0. e \in Ctx /\ e # Kern /\ e \notin Task /\ e \in Exc /\ e \in Nat /\ Exc \subseteq Nat
    BY Contexts DEF Ctx
  <2>1. CASE irq_entry(e)
    <3>1. /\ Moves(e, "isr", ret[e]) /\ (\A f \in Exc : f >= e => ~Active(f))
          /\ entry' = [entry EXCEPT ![e] = SUSPEND_CNT]
          /\ UNCHANGED <<guards, CUR_TASK, SUSPEND_CNT, pendsv>>
      BY <1>0, <2>0, <2>1 DEF irq_entry, Enter, Moves, Active
    <3>2. \A d \in Ctx \ {e} : pc'[d] = pc[d] /\ ret'[d] = ret[d]
      BY <1>0, <2>0, <3>1 DEF Moves
    <3>3. \A d \in Ctx \ {e} : Own(d)' = Own(d)
      BY <1>0, <3>1, <3>2, OwnFrame
    <3>4. Own(e)' = 0 /\ ~ThreadMode'
      BY <1>0, <2>0, <3>1 DEF Own, Moves, CallSteps, SuspendedSteps, ThreadMode
    <3>5. \A f \in Exc : Active(f)' <=> Active(f) \/ f = e
      BY <1>0, <2>0, <3>1, <3>2 DEF Active, Moves, Ctx
    <3>6. SwitchedOutOwnNothing'
      BY <1>0, <2>0, <3>1, <3>2, <3>3, <3>5, Contexts DEF SwitchedOutOwnNothing, Ctx
    <3>7. CoversCurrent' /\ Own(CUR_TASK)' = Own(CUR_TASK)
      BY <1>0, <2>0, <3>1, <3>3 DEF CoversCurrent
    <3>8. \A d \in Exc \ {e} : entry'[d] = entry[d] /\ Own(d)' = Own(d)
      BY <1>0, <3>1, <3>3 DEF Ctx
    <3>9. entry'[e] = SUSPEND_CNT
      BY <1>0, <2>0, <3>1
    <3>10. \A f \in Exc : f < e \/ f = e \/ f > e
      BY <2>0
    <3>11. \A f \in Exc : Active(f)' /\ (\A g \in Exc : g > f => ~Active(g)') => f = e
      BY <2>0, <3>1, <3>5, <3>10
    <3>12. ASSUME NEW d \in Exc, NEW f \in Exc, d < f, Active(d)', Active(f)',
                  \A g \in Exc : d < g /\ g < f => ~Active(g)'
           PROVE  entry'[f] = entry'[d] + Own(d)'
      <4>1. d # e
        BY <2>0, <3>1, <3>5, <3>12
      <4>2. CASE f = e
        <5>1. Active(d) /\ \A g \in Exc : g > d => ~Active(g)
          BY <2>0, <3>1, <3>5, <3>12, <4>1, <4>2, <3>10
        <5>2. SUSPEND_CNT = entry[d] + Own(d)
          BY <1>0, <5>1 DEF SuspensionStack
        <5> QED
          BY <3>8, <3>9, <4>1, <4>2, <5>2
      <4>3. CASE f # e
        <5>1. Active(d) /\ Active(f) /\ \A g \in Exc : d < g /\ g < f => ~Active(g)
          BY <3>5, <3>12, <4>1, <4>3
        <5>2. entry[f] = entry[d] + Own(d)
          BY <1>0, <3>12, <5>1 DEF SuspensionStack
        <5> QED
          BY <3>8, <4>1, <4>3, <5>2
      <4> QED
        BY <4>2, <4>3
    <3>13. ASSUME NEW f \in Exc, Active(f)', \A g \in Exc : g < f => ~Active(g)'
           PROVE  entry'[f] = Own(CUR_TASK)'
      <4>1. CASE f = e
        <5>1. \A g \in Exc : ~Active(g)
          BY <2>0, <3>1, <3>5, <3>10, <3>13, <4>1
        <5>2. SUSPEND_CNT = Own(CUR_TASK)
          BY <1>0, <5>1 DEF SuspensionStack, ThreadMode, Active
        <5> QED
          BY <3>7, <3>9, <4>1, <5>2
      <4>2. CASE f # e
        <5>1. Active(f) /\ \A g \in Exc : g < f => ~Active(g)
          BY <3>5, <3>13, <4>2
        <5> QED
          BY <1>0, <3>7, <3>8, <4>2, <5>1 DEF SuspensionStack
      <4> QED
        BY <4>1, <4>2
    <3>14. \A f \in Exc : Active(f)' => entry'[f] >= Own(CUR_TASK)'
      BY <1>0, <3>5, <3>7, <3>8, <3>9 DEF SuspensionStack, CoversCurrent
    <3>15. SUSPEND_CNT' = entry'[e] + Own(e)'
      BY <1>0, <3>1, <3>4, <3>9
    <3>16. SuspensionStack'
      BY <3>4, <3>11, <3>12, <3>13, <3>14, <3>15 DEF SuspensionStack
    <3> QED
      BY <3>6, <3>7, <3>16 DEF Goal
  <2>2. CASE irq_return(e)
    <3>1. /\ Moves(e, "idle", ret[e]) /\ Active(e) /\ (\A f \in Exc : f > e => ~Active(f))
          /\ entry' = [entry EXCEPT ![e] = 0] /\ pc[e] = "isr"
          /\ UNCHANGED <<guards, CUR_TASK, SUSPEND_CNT, pendsv>>
      BY <1>0, <2>0, <2>2 DEF irq_return, Moves, Active, At, Running
    <3>2. \A d \in Ctx \ {e} : pc'[d] = pc[d] /\ ret'[d] = ret[d]
      BY <1>0, <2>0, <3>1 DEF Moves
    <3>3. \A d \in Ctx \ {e} : Own(d)' = Own(d)
      BY <1>0, <3>1, <3>2, OwnFrame
    <3>4. Own(e) = 0
      BY <1>0, <2>0, <3>1 DEF Own, CallSteps, SuspendedSteps
    <3>5. \A f \in Exc : Active(f)' <=> Active(f) /\ f # e
      BY <1>0, <2>0, <3>1, <3>2 DEF Active, Moves, Ctx
    <3>6. SwitchedOutOwnNothing'
      BY <1>0, <2>0, <3>1, <3>2, <3>3, <3>5, Contexts DEF SwitchedOutOwnNothing, Ctx
    <3>7. CoversCurrent' /\ Own(CUR_TASK)' = Own(CUR_TASK)
      BY <1>0, <2>0, <3>1, <3>3 DEF CoversCurrent
    <3>8. \A d \in Exc \ {e} : entry'[d] = entry[d] /\ Own(d)' = Own(d)
      BY <1>0, <3>1, <3>3 DEF Ctx
    <3>9. SUSPEND_CNT = entry[e]
      BY <1>0, <2>0, <3>1, <3>4 DEF SuspensionStack
    <3>10. \A f \in Exc : f < e \/ f = e \/ f > e
      BY <2>0
    <3>11. ASSUME ThreadMode' PROVE SUSPEND_CNT' = Own(CUR_TASK)'
      <4>1. \A f \in Exc : f < e => ~Active(f)
        BY <2>0, <3>5, <3>11 DEF ThreadMode, Active
      <4>2. entry[e] = Own(CUR_TASK)
        BY <1>0, <2>0, <3>1, <4>1 DEF SuspensionStack
      <4> QED
        BY <3>1, <3>7, <3>9, <4>2
    <3>12. ASSUME NEW f \in Exc, Active(f)', \A g \in Exc : g > f => ~Active(g)'
           PROVE  SUSPEND_CNT' = entry'[f] + Own(f)'
      <4>1. f # e /\ f < e /\ Active(f)
        BY <2>0, <3>1, <3>5, <3>10, <3>12
      <4>2. \A g \in Exc : f < g /\ g < e => ~Active(g)
        BY <3>5, <3>12, <2>0
      <4>3. entry[e] = entry[f] + Own(f)
        BY <1>0, <2>0, <3>1, <4>1, <4>2 DEF SuspensionStack
      <4> QED
        BY <3>1, <3>8, <3>9, <4>1, <4>3
    <3>13. ASSUME NEW d \in Exc, NEW f \in Exc, d < f, Active(d)', Active(f)',
                  \A g \in Exc : d < g /\ g < f => ~Active(g)'
           PROVE  entry'[f] = entry'[d] + Own(d)'
      <4>1. f < e /\ d # e /\ f # e /\ Active(d) /\ Active(f)
        BY <2>0, <3>1, <3>5, <3>10, <3>13
      <4>2. \A g \in Exc : d < g /\ g < f => ~Active(g)
        BY <2>0, <3>5, <3>13, <4>1
      <4>3. entry[f] = entry[d] + Own(d)
        BY <1>0, <3>13, <4>1, <4>2 DEF SuspensionStack
      <4> QED
        BY <3>8, <4>1, <4>3
    <3>14. ASSUME NEW f \in Exc, Active(f)', \A g \in Exc : g < f => ~Active(g)'
           PROVE  entry'[f] = Own(CUR_TASK)'
      <4>1. f < e /\ f # e /\ Active(f)
        BY <2>0, <3>1, <3>5, <3>10, <3>14
      <4>2. \A g \in Exc : g < f => ~Active(g)
        BY <2>0, <3>5, <3>14, <4>1
      <4> QED
        BY <1>0, <3>7, <3>8, <4>1, <4>2 DEF SuspensionStack
    <3>15. \A f \in Exc : Active(f)' => entry'[f] >= Own(CUR_TASK)'
      BY <1>0, <3>5, <3>7, <3>8 DEF SuspensionStack
    <3>16. SuspensionStack'
      BY <3>11, <3>12, <3>13, <3>14, <3>15 DEF SuspensionStack
    <3> QED
      BY <3>6, <3>7, <3>16 DEF Goal
  <2> QED
    BY <1>6, <2>1, <2>2
<1>7. CASE drop_current_task_from_svc
  <2>1. /\ Running(Kern) /\ pc[Kern] = "destroy" /\ Moves(Kern, "idle", ret[Kern])
        /\ UNCHANGED <<guards, CUR_TASK, entry, SUSPEND_CNT>>
        /\ Kern \in Ctx /\ Kern \in Exc /\ Kern \notin Task
    BY <1>0, <1>7, Contexts DEF drop_current_task_from_svc, At, Moves, Ctx
  <2>2. Own(Kern) = 0
    BY <2>1 DEF Own, SuspendedSteps, CallSteps
  <2>3. SUSPEND_CNT = 0 /\ \A t \in Task : Own(t) = 0
    BY <1>0, <2>1, <2>2, PickFindsResumed
  <2>4. \A t \in Task : pc'[t] = pc[t] /\ ret'[t] = ret[t]
    BY <1>0, <2>1 DEF Moves, Ctx
  <2>5. \A t \in Task : Own(t)' = 0
    BY <1>0, <2>1, <2>3, <2>4, OwnFrame DEF Ctx
  <2>6. ThreadMode' /\ \A e \in Exc : ~Active(e)'
    BY <1>0, <2>1, Contexts DEF ThreadMode, Running, Active, Moves, Ctx
  <2> QED
    BY <1>0, <2>1, <2>3, <2>4, <2>5, <2>6, Contexts
       DEF Goal, SuspensionStack, CoversCurrent, SwitchedOutOwnNothing
<1> QED
  BY <1>1, <1>2, <1>3, <1>4, <1>5, <1>6, <1>7 DEF Next, Goal
-----------------------------------------------------------------------------
(***************************************************************************)
(* The lock around the ready queue, and what is pended while it is held.   *)
(***************************************************************************)
LockSteps == {"full", "swap", "drain", "unlock", "pick_body", "pend", "flag", "check", "relock"}

\* Whoever else is inside the lock has been interrupted by who runs.
LEMMA OthersBelow ==
    ASSUME SuspensionInv, NEW c \in Ctx, Running(c), NEW d \in Ctx, d # c,
           Holder(d) \/ Pender(d) \/ Releasing(d)
    PROVE  Below(d, c)
<1>1. TypeOK /\ SwitchedOutOwnNothing
  BY DEF SuspensionInv
<1>2. Own(d) >= 1
  BY <1>1, HolderOwns
<1>3. d \in Exc => pc[d] # "idle"
  BY DEF Holder, Pender, Releasing
<1>4. d \in Task => d = CUR_TASK
  BY <1>1, <1>2 DEF SwitchedOutOwnNothing
<1>5. CASE c \in Task
  BY <1>3, <1>4, <1>5, Contexts DEF Running, ThreadMode, Ctx
<1>6. CASE c \in Exc
  <2>1. d \in Exc => d < c \/ d > c
    BY <1>6, Contexts
  <2> QED
    BY <1>3, <1>6, <2>1, Contexts DEF Running, Below, Ctx
<1> QED
  BY <1>5, <1>6 DEF Ctx

\* Nobody pends while the holder itself runs.
LEMMA NoPenderAbove ==
    ASSUME SuspensionInv, NEW c \in Ctx, Running(c), Holder(c), NEW d \in Ctx
    PROVE  ~Pender(d)
<1> SUFFICES ASSUME Pender(d) PROVE FALSE
  OBVIOUS
<1>1. Below(c, d)
  BY DEF SuspensionInv, ReadyQueueLock
<1>2. pc[d] # "idle"
  BY DEF Pender
<1> QED
  BY <1>1, <1>2, Contexts DEF Below, Running, ThreadMode

\* Steps away from the lock.
LEMMA LockFrame ==
    ASSUME ReadyQueueLock, PendedInv,
           \A d \in Ctx : pc'[d] = pc[d] \/ (pc[d] \notin LockSteps /\ pc'[d] \notin LockSteps),
           UNCHANGED <<locked, pending, insert_buffer>>
    PROVE  ReadyQueueLock' /\ PendedInv'
<1>1. \A d \in Ctx : /\ Holder(d)' <=> Holder(d)
                     /\ Pender(d)' <=> Pender(d)
                     /\ Releasing(d)' <=> Releasing(d)
                     /\ pc'[d] \in {"flag", "drain"} <=> pc[d] \in {"flag", "drain"}
  BY DEF Holder, Pender, Releasing, LockSteps
<1> QED
  BY <1>1 DEF ReadyQueueLock, PendedInv, Below

\* At most one context holds the lock of the ready queue, who pends has
\* interrupted it, and what is pended is going to be drained.
LEMMA LockStep ==
    ASSUME IInv, Next
    PROVE  ReadyQueueLock' /\ PendedInv'
<1> DEFINE Goal == ReadyQueueLock' /\ PendedInv'
<1>0. /\ TypeOK /\ SuspensionInv /\ ControlInv /\ ReadyQueueLock /\ PendedInv
      /\ PlaceInv /\ QuotaInv /\ CurrentInv
      /\ pc \in [Ctx -> Step] /\ locked \in BOOLEAN /\ pending \in BOOLEAN
  BY DEF IInv, SuspensionInv, TypeOK
<1> HIDE DEF Goal
<1> USE DEF queue, task, switch, frame, Goto
<1>1. ASSUME NEW c \in Ctx, KernelStep(c) PROVE Goal
  <2>0. \A d \in Ctx \ {c} : pc'[d] = pc[d]
    BY <1>0, <1>1 DEF KernelStep, accept_suspend, accept_guard, accept_full, accept_pend,
       drop_pend_only, drop_swap_pending, run_pended_op, drop_unlock, drop_check_pending,
       drop_relock, resume_dec, resume_chk, notify_pop
  <2>a. \A d \in Ctx \ {c} : /\ Holder(d)' <=> Holder(d)
                             /\ Pender(d)' <=> Pender(d)
                             /\ Releasing(d)' <=> Releasing(d)
    BY <2>0 DEF Holder, Pender, Releasing
  <2>1. CASE accept_suspend(c) \/ resume_dec(c) \/ notify_pop(c)
    <3>1. pc[c] \notin LockSteps /\ pc'[c] \notin LockSteps /\ UNCHANGED <<locked, pending, insert_buffer>>
      BY <1>0, <2>1 DEF accept_suspend, resume_dec, notify_pop, At, LockSteps
    <3> QED
      BY <1>0, <2>0, <3>1, LockFrame DEF Goal
  <2>2. CASE resume_chk(c)
    <3>1. ret[c] \in {"run", "yield", "idle", "outer_dec"}
      BY <1>0 DEF TypeOK
    <3>2. pc[c] \notin LockSteps /\ pc'[c] \notin LockSteps /\ UNCHANGED <<locked, pending, insert_buffer>>
      BY <1>0, <2>2, <3>1 DEF resume_chk, LockSteps, Home
    <3> QED
      BY <1>0, <2>0, <3>2, LockFrame DEF Goal
  <2>3. CASE accept_guard(c)
    <3>1. Running(c) /\ pc[c] = "guard" /\ locked' /\ UNCHANGED <<pending, insert_buffer>>
      BY <2>3 DEF accept_guard, At
    <3>2. CASE locked
      <4>1. pc'[c] = "pend"
        BY <1>0, <2>3, <3>2 DEF accept_guard
      <4>2. PICK h \in Ctx : Holder(h)
        BY <1>0, <3>2 DEF ReadyQueueLock
      <4>3. h # c /\ Below(h, c)
        BY <1>0, <3>1, <4>2, OthersBelow DEF Holder
      <4>4. ~Holder(c)' /\ ~Holder(c) /\ ~Releasing(c)' /\ Holder(h)'
        BY <2>a, <3>1, <4>1, <4>2, <4>3 DEF Holder, Releasing
      <4>5. ReadyQueueLock'
        BY <1>0, <2>a, <3>1, <3>2, <4>3, <4>4 DEF ReadyQueueLock, Below
      <4> QED
        BY <1>0, <2>0, <2>a, <3>1, <4>4, <4>5 DEF Goal, PendedInv, Releasing
    <3>3. CASE ~locked
      <4>1. pc'[c] = "full" /\ Holder(c)' /\ ~Pender(c)' /\ ~Releasing(c)'
        BY <1>0, <2>3, <3>3 DEF accept_guard, Holder, Pender, Releasing
      <4>2. \A d \in Ctx : ~Holder(d) /\ ~Pender(d)
        BY <1>0, <3>3 DEF ReadyQueueLock
      <4>3. \A d \in Ctx : Releasing(d)' => Below(d, c)
        BY <1>0, <2>a, <3>1, <4>1, OthersBelow
      <4>4. ReadyQueueLock'
        BY <2>a, <3>1, <4>1, <4>2, <4>3 DEF ReadyQueueLock, Below
      <4> QED
        BY <1>0, <2>0, <2>a, <3>1, <4>1, <4>4 DEF Goal, PendedInv
    <3> QED
      BY <3>2, <3>3
  <2>4. CASE accept_full(c)
    <3>1. /\ pc[c] = "full" /\ pc'[c] = "swap" /\ UNCHANGED <<locked, pending, insert_buffer>>
      BY <1>0, <2>4 DEF accept_full, At
    <3>2. Holder(c) /\ Holder(c)' /\ ~Pender(c) /\ ~Pender(c)' /\ ~Releasing(c) /\ ~Releasing(c)'
      BY <3>1 DEF Holder, Pender, Releasing
    <3>3. ReadyQueueLock'
      BY <1>0, <2>a, <3>1, <3>2 DEF ReadyQueueLock, Below
    <3> QED
      BY <1>0, <2>0, <2>a, <3>1, <3>2, <3>3 DEF Goal, PendedInv
  <2>5. CASE accept_pend(c)
    <3>1. Len(insert_buffer) < MAX_TASK_NUMBER
      BY <1>0, <2>5, BufferHasRoom DEF accept_pend, At, Handing, AcceptSteps
    <3>2. pc[c] = "pend" /\ pc'[c] = "flag" /\ UNCHANGED <<locked, pending>>
      BY <1>0, <2>5, <3>1 DEF accept_pend, At
    <3>3. ~Holder(c) /\ ~Holder(c)' /\ Pender(c) /\ Pender(c)' /\ ~Releasing(c) /\ ~Releasing(c)'
      BY <3>2 DEF Holder, Pender, Releasing
    <3>4. ReadyQueueLock'
      BY <1>0, <2>a, <3>2, <3>3 DEF ReadyQueueLock, Below
    <3> QED
      BY <1>0, <2>a, <3>2, <3>3, <3>4 DEF Goal, PendedInv
  <2>6. CASE drop_pend_only(c)
    <3>1. pc[c] = "flag" /\ pc'[c] = "dec" /\ UNCHANGED <<locked, insert_buffer>> /\ pending' = TRUE
      BY <1>0, <2>6 DEF drop_pend_only, At
    <3>2. ~Holder(c) /\ ~Holder(c)' /\ Pender(c) /\ ~Pender(c)' /\ ~Releasing(c) /\ ~Releasing(c)'
      BY <3>1 DEF Holder, Pender, Releasing
    <3>3. ReadyQueueLock'
      BY <1>0, <2>a, <3>1, <3>2 DEF ReadyQueueLock, Below
    <3>4. \E h \in Ctx : Holder(h)'
      BY <1>0, <2>a, <3>2 DEF ReadyQueueLock
    <3> QED
      BY <3>1, <3>3, <3>4 DEF Goal, PendedInv
  <2>7. CASE drop_swap_pending(c)
    <3>1. /\ Running(c) /\ pc[c] = "swap" /\ pending' = FALSE /\ UNCHANGED <<locked, insert_buffer>>
          /\ pc'[c] = IF pending THEN "drain" ELSE "unlock"
      BY <1>0, <2>7 DEF drop_swap_pending, At
    <3>2. Holder(c) /\ Holder(c)' /\ ~Pender(c) /\ ~Pender(c)' /\ ~Releasing(c) /\ ~Releasing(c)'
      BY <3>1 DEF Holder, Pender, Releasing
    <3>3. ReadyQueueLock'
      BY <1>0, <2>a, <3>1, <3>2 DEF ReadyQueueLock, Below
    <3>4. ~pending => insert_buffer = <<>>
      <4>1. \A d \in Ctx : pc[d] # "flag"
        BY <1>0, <3>1, <3>2, NoPenderAbove DEF Pender
      <4>2. \A d \in Ctx : pc[d] # "drain"
        BY <1>0, <3>1, <3>2 DEF ReadyQueueLock, Holder
      <4> QED
        BY <1>0, <4>1, <4>2 DEF PendedInv
    <3> QED
      BY <3>1, <3>3, <3>4 DEF Goal, PendedInv
  <2>8. CASE run_pended_op(c)
    <3>1. /\ Running(c) /\ pc[c] = "drain" /\ UNCHANGED <<locked, pending>>
          /\ \/ insert_buffer = <<>> /\ insert_buffer' = <<>> /\ pc'[c] = "unlock"
             \/ pc'[c] = "drain"
      BY <1>0, <2>8 DEF run_pended_op, At
    <3>2. Holder(c) /\ Holder(c)' /\ ~Pender(c) /\ ~Pender(c)' /\ ~Releasing(c) /\ ~Releasing(c)'
      BY <3>1 DEF Holder, Pender, Releasing
    <3>3. ReadyQueueLock'
      BY <1>0, <2>a, <3>1, <3>2 DEF ReadyQueueLock, Below
    <3> QED
      BY <3>1, <3>2, <3>3 DEF Goal, PendedInv
  <2>9. CASE drop_unlock(c)
    <3>1. /\ Running(c) /\ pc[c] = "unlock" /\ pc'[c] = "check" /\ locked' = FALSE
          /\ UNCHANGED <<pending, insert_buffer>>
      BY <1>0, <2>9 DEF drop_unlock, At
    <3>2. Holder(c) /\ ~Holder(c)' /\ ~Pender(c) /\ ~Pender(c)' /\ Releasing(c)'
      BY <3>1 DEF Holder, Pender, Releasing
    <3>3. \A d \in Ctx : ~Holder(d)' /\ ~Pender(d)'
      <4>1. \A d \in Ctx : ~Pender(d)
        BY <1>0, <3>1, <3>2, NoPenderAbove
      <4> QED
        BY <1>0, <2>a, <3>2, <4>1 DEF ReadyQueueLock
    <3>4. ReadyQueueLock'
      BY <3>1, <3>3 DEF ReadyQueueLock
    <3> QED
      BY <1>0, <2>0, <3>1, <3>2, <3>4 DEF Goal, PendedInv
  <2>10. CASE drop_check_pending(c)
    <3>1. /\ pc[c] = "check" /\ pc'[c] = (IF pending THEN "relock" ELSE "dec")
          /\ UNCHANGED <<locked, pending, insert_buffer>>
      BY <1>0, <2>10 DEF drop_check_pending, At
    <3>2. ~Holder(c) /\ ~Holder(c)' /\ ~Pender(c) /\ ~Pender(c)' /\ Releasing(c)
          /\ (pending => Releasing(c)')
      BY <3>1 DEF Holder, Pender, Releasing
    <3>3. ReadyQueueLock'
      BY <1>0, <2>a, <3>1, <3>2 DEF ReadyQueueLock, Below
    <3> QED
      BY <1>0, <2>0, <3>1, <3>2, <3>3 DEF Goal, PendedInv
  <2>11. CASE drop_relock(c)
    <3>1. Running(c) /\ pc[c] = "relock" /\ ~locked
      BY <1>0, <2>11, RelockFindsUnlocked DEF drop_relock, At, Releasing
    <3>2. pc'[c] = "swap" /\ locked' /\ UNCHANGED <<pending, insert_buffer>>
      BY <1>0, <2>11, <3>1 DEF drop_relock
    <3>3. ~Holder(c) /\ Holder(c)' /\ ~Pender(c)' /\ ~Releasing(c)'
      BY <3>1, <3>2 DEF Holder, Pender, Releasing
    <3>4. \A d \in Ctx : ~Holder(d) /\ ~Pender(d)
      BY <1>0, <3>1 DEF ReadyQueueLock
    <3>5. \A d \in Ctx : Releasing(d)' => Below(d, c)
      BY <1>0, <2>a, <3>1, <3>3, OthersBelow
    <3>6. ReadyQueueLock'
      BY <2>a, <3>2, <3>3, <3>4, <3>5 DEF ReadyQueueLock, Below
    <3> QED
      BY <1>0, <2>0, <3>1, <3>2, <3>3, <3>6 DEF Goal, PendedInv
  <2> QED
    BY <1>1, <2>1, <2>2, <2>3, <2>4, <2>5, <2>6, <2>7, <2>8, <2>9, <2>10, <2>11 DEF KernelStep
<1>2. ASSUME NEW c \in Ctx, notify(c) PROVE Goal
  <2>1. /\ \A d \in Ctx : pc'[d] = pc[d] \/ (pc[d] \notin LockSteps /\ pc'[d] \notin LockSteps)
        /\ UNCHANGED <<locked, pending, insert_buffer>>
    BY <1>0, <1>2 DEF notify, UserCode, At, Home, LockSteps
  <2> QED
    BY <1>0, <2>1, LockFrame DEF Goal
<1>3. CASE PickNext
  <2>0. Kern \in Ctx
    BY Contexts DEF Ctx
  <2>1. CASE pendsv_entry \/ pick_suspend
    <3>1. /\ \A d \in Ctx : pc'[d] = pc[d] \/ (pc[d] \notin LockSteps /\ pc'[d] \notin LockSteps)
          /\ UNCHANGED <<locked, pending, insert_buffer>>
      BY <1>0, <2>0, <2>1, Contexts DEF pendsv_entry, pick_suspend, At, Enter, ThreadMode, LockSteps
    <3> QED
      BY <1>0, <3>1, LockFrame DEF Goal
  <2>2. CASE pick_guard
    <3>1. Running(Kern) /\ pc[Kern] = "pick_guard" /\ ~locked
      BY <1>0, <2>2, PickFindsUnlocked DEF pick_guard, At, Holder
    <3>2. /\ pc'[Kern] = "pick_body" /\ locked' /\ UNCHANGED <<pending, insert_buffer>>
          /\ \A d \in Ctx \ {Kern} : pc'[d] = pc[d]
      BY <1>0, <2>0, <2>2, <3>1 DEF pick_guard
    <3>a. \A d \in Ctx \ {Kern} : /\ Holder(d)' <=> Holder(d)
                                  /\ Pender(d)' <=> Pender(d)
                                  /\ Releasing(d)' <=> Releasing(d)
      BY <3>2 DEF Holder, Pender, Releasing
    <3>3. ~Holder(Kern) /\ Holder(Kern)' /\ ~Pender(Kern)' /\ ~Releasing(Kern)'
      BY <3>1, <3>2 DEF Holder, Pender, Releasing
    <3>4. \A d \in Ctx : ~Holder(d) /\ ~Pender(d)
      BY <1>0, <3>1 DEF ReadyQueueLock
    <3>5. \A d \in Ctx : Releasing(d)' => Below(d, Kern)
      BY <1>0, <2>0, <3>a, <3>1, <3>3, OthersBelow
    <3>6. ReadyQueueLock'
      BY <2>0, <3>a, <3>2, <3>3, <3>4, <3>5 DEF ReadyQueueLock, Below
    <3> QED
      BY <1>0, <2>0, <3>1, <3>2, <3>3, <3>6 DEF Goal, PendedInv
  <2>3. CASE pick_body
    <3>1. Switches
      BY <1>0, <2>3, SomethingToRun, PickSwitches
    <3>2. /\ pc[Kern] = "pick_body" /\ pc'[Kern] = "swap" /\ UNCHANGED <<locked, pending, insert_buffer>>
          /\ \A d \in Ctx \ {Kern} : pc'[d] = pc[d]
      BY <1>0, <2>0, <3>1 DEF Switches
    <3>3. \A d \in Ctx : /\ Holder(d)' <=> Holder(d)
                         /\ Pender(d)' <=> Pender(d)
                         /\ Releasing(d)' <=> Releasing(d)
                         /\ pc'[d] \in {"flag", "drain"} <=> pc[d] \in {"flag", "drain"}
      BY <3>2 DEF Holder, Pender, Releasing
    <3> QED
      BY <1>0, <3>2, <3>3 DEF Goal, ReadyQueueLock, PendedInv, Below
  <2> QED
    BY <1>3, <2>1, <2>2, <2>3 DEF PickNext
<1>4. ASSUME NEW t \in Task, TaskStep(t) PROVE Goal
  <2>0. t \in Ctx
    BY DEF Ctx
  <2>1. CASE \/ yield_current_task(t) \/ block_enqueue(t) \/ quota_load(t) \/ quota_cas(t)
             \/ \E p \in Level : change_intrinsic_priority(t, p)
    <3>1. /\ pc[t] \notin LockSteps /\ pc'[t] \notin LockSteps /\ \A d \in Ctx \ {t} : pc'[d] = pc[d]
          /\ UNCHANGED <<locked, pending, insert_buffer>>
      BY <1>0, <2>0, <2>1 DEF yield_current_task, block_enqueue, quota_load, quota_cas,
         change_intrinsic_priority, At, LockSteps
    <3> QED
      BY <1>0, <3>1, LockFrame DEF Goal
  <2>2. CASE build(t)
    <3>1. /\ \A d \in Ctx : pc'[d] = pc[d] \/ (pc[d] \notin LockSteps /\ pc'[d] \notin LockSteps)
          /\ UNCHANGED <<locked, pending, insert_buffer>>
      <4>1. \A u \in Task : state[u] = "Unborn" => pc[u] \in {"run", "dead"}
        BY <1>0 DEF CurrentInv
      <4> QED
        BY <1>0, <2>0, <2>2, <4>1 DEF build, At, LockSteps, Ctx
    <3> QED
      BY <1>0, <3>1, LockFrame DEF Goal
  <2> QED
    BY <1>4, <2>1, <2>2 DEF TaskStep
<1>5. ASSUME NEW t \in Task, TaskCall(t) PROVE Goal
  <2>1. /\ \A d \in Ctx : pc'[d] = pc[d] \/ (pc[d] \notin LockSteps /\ pc'[d] \notin LockSteps)
        /\ UNCHANGED <<locked, pending, insert_buffer>>
    <3>0. t \in Ctx /\ Kern \in Ctx
      BY Contexts DEF Ctx
    <3>1. CASE svc_destroy_current_task(t)
      <4>1. pc[Kern] = "idle" /\ pc[t] = "run"
        BY <3>1, Contexts DEF svc_destroy_current_task, UserCode, At, Home, Running, ThreadMode
      <4> QED
        BY <1>0, <3>0, <3>1, <4>1 DEF svc_destroy_current_task, LockSteps
    <3> QED
      BY <1>0, <1>5, <3>0, <3>1 DEF TaskCall, hold_guard, drop_guard, yield_current, block,
         change_current_priority, spawn, UserCode, At, Home, LockSteps
  <2> QED
    BY <1>0, <2>1, LockFrame DEF Goal
<1>6. ASSUME NEW e \in Irq, irq_entry(e) \/ irq_return(e) PROVE Goal
  <2>1. /\ \A d \in Ctx : pc'[d] = pc[d] \/ (pc[d] \notin LockSteps /\ pc'[d] \notin LockSteps)
        /\ UNCHANGED <<locked, pending, insert_buffer>>
    BY <1>0, <1>6, Contexts DEF irq_entry, irq_return, Enter, At, LockSteps, Ctx
  <2> QED
    BY <1>0, <2>1, LockFrame DEF Goal
<1>7. CASE drop_current_task_from_svc
  <2>1. /\ \A d \in Ctx : pc'[d] = pc[d] \/ (pc[d] \notin LockSteps /\ pc'[d] \notin LockSteps)
        /\ UNCHANGED <<locked, pending, insert_buffer>>
    BY <1>0, <1>7, Contexts DEF drop_current_task_from_svc, At, LockSteps, Ctx
  <2> QED
    BY <1>0, <2>1, LockFrame DEF Goal
<1> QED
  BY <1>1, <1>2, <1>3, <1>4, <1>5, <1>6, <1>7 DEF Next, Goal

-----------------------------------------------------------------------------
(***************************************************************************)
(* A task on its way to pick_next gets there.                              *)
(***************************************************************************)
\* A step that touches neither PendSV nor the current task.
LEMMA YieldFrame ==
    ASSUME AboutToYield, CUR_TASK' = CUR_TASK,
           pendsv => pendsv',
           pc'[Kern] = pc[Kern],
           pc'[CUR_TASK] = pc[CUR_TASK] /\ ret'[CUR_TASK] = ret[CUR_TASK]
    PROVE  AboutToYield'
BY DEF AboutToYield, Picking

\* Only pick_body ends it.
LEMMA YieldStep ==
    ASSUME IInv, Next, ~pick_body, AboutToYield
    PROVE  AboutToYield'
<1> DEFINE Goal == AboutToYield'
<1>0. /\ TypeOK /\ SuspensionInv /\ ControlInv /\ CurrentInv
      /\ pc \in [Ctx -> Step] /\ ret \in [Ctx -> {"run", "yield", "idle", "outer_dec"}]
      /\ Kern \in Ctx /\ CUR_TASK \in Ctx /\ CUR_TASK \in Task /\ CUR_TASK # Kern
  BY Contexts DEF IInv, SuspensionInv, TypeOK, Ctx
<1> HIDE DEF Goal
<1> USE DEF queue, task, switch, frame, Goto
<1>1. ASSUME NEW c \in Ctx, KernelStep(c) PROVE Goal
  <2>a. pendsv => pendsv'
    BY <1>1, Zenon DEF KernelStep, accept_suspend, accept_guard, accept_full, accept_pend,
       drop_pend_only, drop_swap_pending, run_pended_op, drop_unlock, drop_check_pending,
       drop_relock, resume_dec, resume_chk, notify_pop
  <2>b. /\ CUR_TASK' = CUR_TASK /\ Running(c)
        /\ \A d \in Ctx \ {c} : pc'[d] = pc[d] /\ ret'[d] = ret[d]
    BY <1>0, <1>1 DEF KernelStep, accept_suspend, accept_guard, accept_full, accept_pend,
       drop_pend_only, drop_swap_pending, run_pended_op, drop_unlock, drop_check_pending,
       drop_relock, resume_dec, resume_chk, notify_pop, At
  <2>0. /\ CUR_TASK' = CUR_TASK /\ (pendsv => pendsv') /\ Running(c)
        /\ \A d \in Ctx \ {c} : pc'[d] = pc[d] /\ ret'[d] = ret[d]
    BY <2>a, <2>b
  <2>1. CASE c # CUR_TASK /\ c # Kern
    BY <1>0, <2>0, <2>1, YieldFrame DEF Goal
  <2>2. CASE c = Kern
    <3>1. pc[Kern] \notin {"pick", "pick_guard", "pick_body"}
      BY <1>1, <2>2 DEF KernelStep, accept_suspend, accept_guard, accept_full, accept_pend,
         drop_pend_only, drop_swap_pending, run_pended_op, drop_unlock, drop_check_pending,
         drop_relock, resume_dec, resume_chk, notify_pop, At
    <3> QED
      BY <1>0, <2>0, <2>2, <3>1 DEF Goal, AboutToYield, Picking
  <2>3. CASE c = CUR_TASK
    <3>1. ~pendsv /\ ~Picking
      BY <1>0, <2>0, <2>3, Contexts DEF Running, ThreadMode, Picking
    <3>2. pc[c] # "yield"
      BY <1>1 DEF KernelStep, accept_suspend, accept_guard, accept_full, accept_pend,
         drop_pend_only, drop_swap_pending, run_pended_op, drop_unlock, drop_check_pending,
         drop_relock, resume_dec, resume_chk, notify_pop, At
    <3>3. pc[c] \in {"dec", "chk"} /\ ret[c] = "yield"
      BY <2>3, <3>1, <3>2 DEF AboutToYield
    <3>4. resume_dec(c) \/ resume_chk(c)
      BY <1>1, <3>3 DEF KernelStep, accept_suspend, accept_guard, accept_full, accept_pend,
         drop_pend_only, drop_swap_pending, run_pended_op, drop_unlock, drop_check_pending,
         drop_relock, notify_pop, At
    <3>5. CASE resume_dec(c)
      <4>1. pc'[c] = "chk" /\ ret'[c] = "yield"
        BY <1>0, <3>3, <3>5 DEF resume_dec
      <4> QED
        BY <2>0, <2>3, <4>1 DEF Goal, AboutToYield
    <3>6. CASE resume_chk(c)
      <4>1. pc'[c] = "yield"
        BY <1>0, <3>3, <3>6 DEF resume_chk
      <4> QED
        BY <2>0, <2>3, <4>1 DEF Goal, AboutToYield
    <3> QED
      BY <3>4, <3>5, <3>6
  <2> QED
    BY <2>1, <2>2, <2>3
<1>2. ASSUME NEW c \in Ctx, notify(c) PROVE Goal
  <2>1. /\ CUR_TASK' = CUR_TASK /\ pendsv' = pendsv /\ ret' = ret /\ Running(c)
        /\ pc' = [pc EXCEPT ![c] = "pop"] /\ pc[c] = Home(c) /\ c # Kern
    BY <1>2 DEF notify, UserCode, At
  <2>2. CASE c = CUR_TASK
    BY <1>0, <2>1, <2>2, Contexts DEF Goal, AboutToYield, Picking, Running, ThreadMode, Home
  <2>3. CASE c # CUR_TASK
    BY <1>0, <2>1, <2>3, YieldFrame DEF Goal
  <2> QED
    BY <2>2, <2>3
<1>3. CASE PickNext
  <2>1. CASE pendsv_entry
    BY <1>0, <2>1 DEF pendsv_entry, Enter, Goal, AboutToYield, Picking
  <2>2. CASE pick_suspend
    <3>1. SUSPEND_CNT = 0
      <4>1. Running(Kern) /\ pc[Kern] = "pick"
        BY <2>2 DEF pick_suspend, At
      <4>2. SUSPEND_CNT = Own(Kern)
        BY <1>0, <4>1, PickFindsResumed
      <4>3. Own(Kern) = 0
        BY <1>0, <4>1, Contexts DEF Own, SuspendedSteps, CallSteps
      <4> QED
        BY <4>2, <4>3
    <3> QED
      BY <1>0, <2>2, <3>1 DEF pick_suspend, Goal, AboutToYield, Picking
  <2>3. CASE pick_guard
    <3>1. ~locked
      BY <1>0, <2>3, PickFindsUnlocked DEF pick_guard, At, Holder
    <3> QED
      BY <1>0, <2>3, <3>1 DEF pick_guard, Goal, AboutToYield, Picking
  <2> QED
    BY <1>3, <2>1, <2>2, <2>3 DEF PickNext
<1>4. ASSUME NEW t \in Task, TaskStep(t) PROVE Goal
  <2>0. t = CUR_TASK /\ ThreadMode /\ ~pendsv
    BY <1>4, Contexts DEF TaskStep, yield_current_task, block_enqueue, quota_load, quota_cas,
       build, change_intrinsic_priority, At, Running
  <2>1. ~Picking
    BY <2>0, Contexts DEF ThreadMode, Picking
  <2>2. pc[t] = "yield" \/ pc[t] \in {"dec", "chk"}
    BY <2>0, <2>1 DEF AboutToYield
  <2>3. yield_current_task(t)
    BY <1>4, <2>2 DEF TaskStep, block_enqueue, quota_load, quota_cas,
       build, change_intrinsic_priority, At
  <2> QED
    BY <2>3 DEF yield_current_task, Goal, AboutToYield
<1>5. ASSUME NEW t \in Task, TaskCall(t) PROVE Goal
  <2>0. t = CUR_TASK /\ ThreadMode /\ ~pendsv /\ pc[t] = "run"
    BY <1>5, Contexts DEF TaskCall, hold_guard, drop_guard, yield_current, block,
       change_current_priority, spawn, svc_destroy_current_task, UserCode, At, Running, Home
  <2> QED
    BY <2>0, Contexts DEF AboutToYield, ThreadMode, Picking
<1>6. ASSUME NEW e \in Irq, irq_entry(e) \/ irq_return(e) PROVE Goal
  <2>1. /\ CUR_TASK' = CUR_TASK /\ pendsv' = pendsv /\ ret' = ret
        /\ \A d \in Ctx \ {e} : pc'[d] = pc[d]
        /\ e # Kern /\ e # CUR_TASK
    BY <1>0, <1>6, Contexts DEF irq_entry, irq_return, Enter
  <2> QED
    BY <1>0, <2>1, YieldFrame DEF Goal
<1>7. CASE drop_current_task_from_svc
  BY <1>7 DEF drop_current_task_from_svc, Goal, AboutToYield
<1> QED
  BY <1>1, <1>2, <1>3, <1>4, <1>5, <1>6, <1>7 DEF Next, Goal
-----------------------------------------------------------------------------
(***************************************************************************)
(* Lists without repetition.                                               *)
(***************************************************************************)
\* Appending a task to a list that does not have it.
LEMMA AppendPlaces ==
    ASSUME NEW list \in Seq(Task), NEW t \in Task
    PROVE  /\ \A u \in Task : Has(Append(list, t), u) <=> Has(list, u) \/ u = t
           /\ Distinct(list) /\ ~Has(list, t) => Distinct(Append(list, t))
<1>1. /\ DOMAIN Append(list, t) = 1 .. Len(list) + 1 /\ DOMAIN list = 1 .. Len(list)
      /\ \A i \in 1 .. Len(list) : Append(list, t)[i] = list[i]
      /\ Append(list, t)[Len(list) + 1] = t
      /\ Len(list) \in Nat
  BY AppendProperties
<1>2. \A i \in 1 .. Len(list) + 1 : i \in 1 .. Len(list) \/ i = Len(list) + 1
  BY <1>1
<1>3. \A i \in 1 .. Len(list) : i \in 1 .. Len(list) + 1
  BY <1>1
<1>5. Len(list) + 1 \in 1 .. Len(list) + 1
  BY <1>1
<1> HIDE DEF Has
<1>4. \A u \in Task : Has(Append(list, t), u) <=> Has(list, u) \/ u = t
  BY <1>1, <1>2, <1>3, <1>5 DEF Has
<1>6. Distinct(list) /\ ~Has(list, t) => Distinct(Append(list, t))
  <2> SUFFICES ASSUME Distinct(list), ~Has(list, t),
                      NEW i \in 1 .. Len(list) + 1, NEW j \in 1 .. Len(list) + 1,
                      Append(list, t)[i] = Append(list, t)[j]
               PROVE  i = j
    BY <1>1 DEF Distinct
  <2> QED
    BY <1>1, <1>2 DEF Distinct, Has
<1> QED
  BY <1>4, <1>6

\* Taking the first task out of a list.
LEMMA TailPlaces ==
    ASSUME NEW list \in Seq(Task), list # <<>>, Distinct(list)
    PROVE  /\ Head(list) \in Task /\ Tail(list) \in Seq(Task) /\ Has(list, Head(list))
           /\ \A u \in Task : Has(Tail(list), u) <=> Has(list, u) /\ u # Head(list)
           /\ Distinct(Tail(list))
<1>1. /\ DOMAIN Tail(list) = 1 .. Len(list) - 1 /\ DOMAIN list = 1 .. Len(list)
      /\ \A i \in 1 .. Len(list) - 1 : Tail(list)[i] = list[i + 1]
      /\ Len(list) \in Nat \ {0} /\ Head(list) = list[1]
      /\ Head(list) \in Task /\ Tail(list) \in Seq(Task)
  BY HeadTailProperties
<1>2. \A i \in 1 .. Len(list) : i = 1 \/ (i - 1 \in 1 .. Len(list) - 1 /\ list[i] = Tail(list)[i - 1])
  BY <1>1
<1>3. \A i \in 1 .. Len(list) - 1 : i + 1 \in 1 .. Len(list) /\ i + 1 # 1
  BY <1>1
<1>4. 1 \in 1 .. Len(list)
  BY <1>1
<1>5. \A u \in Task : Has(Tail(list), u) <=> Has(list, u) /\ u # Head(list)
  <2>1. ASSUME NEW u \in Task, Has(Tail(list), u) PROVE Has(list, u) /\ u # Head(list)
    BY <1>1, <1>3, <1>4, <2>1 DEF Has, Distinct
  <2>2. ASSUME NEW u \in Task, Has(list, u), u # Head(list) PROVE Has(Tail(list), u)
    BY <1>1, <1>2, <2>2 DEF Has
  <2> QED
    BY <2>1, <2>2
<1>6. Distinct(Tail(list))
  <2> SUFFICES ASSUME NEW i \in 1 .. Len(list) - 1, NEW j \in 1 .. Len(list) - 1,
                      Tail(list)[i] = Tail(list)[j]
               PROVE  i = j
    BY <1>1 DEF Distinct
  <2>1. i + 1 = j + 1
    BY <1>1, <1>3 DEF Distinct
  <2> QED
    BY <2>1
<1>7. Has(list, Head(list))
  BY <1>1, <1>4 DEF Has
<1> QED
  BY <1>1, <1>5, <1>6, <1>7

\* Taking the task at some position out of a list.
LEMMA RemovePlaces ==
    ASSUME NEW list \in Seq(Task), NEW p \in DOMAIN list, Distinct(list)
    PROVE  /\ \A u \in Task : Has(RemoveAt(list, p), u) <=> Has(list, u) /\ u # list[p]
           /\ Distinct(RemoveAt(list, p))
<1> DEFINE r == RemoveAt(list, p)
<1>1. /\ DOMAIN list = 1 .. Len(list) /\ Len(list) \in Nat /\ p \in 1 .. Len(list)
  OBVIOUS
<1>2. /\ DOMAIN r = 1 .. Len(list) - 1
      /\ \A j \in 1 .. Len(list) - 1 : r[j] = IF j < p THEN list[j] ELSE list[j + 1]
  <2>0. \A i \in 1 .. Len(list) :
            /\ RemoveAt(list, i) \in Seq(Task) /\ Len(RemoveAt(list, i)) = Len(list) - 1
            /\ \A j \in 1 .. Len(list) - 1 :
                  RemoveAt(list, i)[j] = IF j < i THEN list[j] ELSE list[j + 1]
    BY RemoveAtProperties, Zenon
  <2> HIDE DEF r
  <2>1. /\ r \in Seq(Task) /\ Len(r) = Len(list) - 1
        /\ \A j \in 1 .. Len(list) - 1 : r[j] = IF j < p THEN list[j] ELSE list[j + 1]
    BY <1>1, <2>0, Zenon DEF r
  <2> QED
    BY <2>1
<1> HIDE DEF r
<1> DEFINE up(j) == IF j < p THEN j ELSE j + 1
<1>3. \A j \in 1 .. Len(list) - 1 : up(j) \in 1 .. Len(list) /\ up(j) # p /\ r[j] = list[up(j)]
  BY <1>1, <1>2
<1>4. \A i, j \in 1 .. Len(list) - 1 : up(i) = up(j) => i = j
  BY <1>1
<1>5. \A i \in 1 .. Len(list) : i # p => \E j \in 1 .. Len(list) - 1 : up(j) = i
  <2> SUFFICES ASSUME NEW i \in 1 .. Len(list), i # p
               PROVE  \E j \in 1 .. Len(list) - 1 : up(j) = i
    OBVIOUS
  <2>1. CASE i < p
    <3>1. i \in 1 .. Len(list) - 1 /\ up(i) = i
      BY <1>1, <2>1
    <3> QED
      BY <3>1
  <2>2. CASE i > p
    <3>1. i - 1 \in 1 .. Len(list) - 1 /\ up(i - 1) = i
      BY <1>1, <2>2
    <3> QED
      BY <3>1
  <2> QED
    BY <1>1, <2>1, <2>2
<1> HIDE DEF up
<1>6. \A u \in Task : Has(r, u) <=> Has(list, u) /\ u # list[p]
  <2>1. ASSUME NEW u \in Task, Has(r, u) PROVE Has(list, u) /\ u # list[p]
    <3>1. PICK j \in 1 .. Len(list) - 1 : r[j] = u
      BY <1>2, <2>1 DEF Has
    <3>2. up(j) \in DOMAIN list /\ up(j) # p /\ list[up(j)] = u
      BY <1>1, <1>3, <3>1
    <3> QED
      BY <3>2 DEF Has, Distinct
  <2>2. ASSUME NEW u \in Task, Has(list, u), u # list[p] PROVE Has(r, u)
    <3>1. PICK i \in 1 .. Len(list) : list[i] = u
      BY <1>1, <2>2 DEF Has
    <3>2. PICK j \in 1 .. Len(list) - 1 : up(j) = i
      BY <1>5, <2>2, <3>1
    <3> QED
      BY <1>2, <1>3, <3>1, <3>2 DEF Has
  <2> QED
    BY <2>1, <2>2
<1>7. Distinct(r)
  BY <1>1, <1>2, <1>3, <1>4 DEF Distinct
<1> QED
  BY <1>6, <1>7 DEF r
-----------------------------------------------------------------------------
(***************************************************************************)
(* Every action leaves each task struct in one place.                      *)
(***************************************************************************)
\* A step that moves no task from one place to another.
LEMMA PlaceFrame ==
    ASSUME PlaceInv, UNCHANGED <<ready_linked_list, insert_buffer, waiting, state>>,
           \A d \in Ctx : Handing(d)' <=> Handing(d),
           \A d \in Ctx : Handing(d) => arg'[d] = arg[d]
    PROVE  PlaceInv'
BY DEF PlaceInv, InReady, InBuffer, BeingWoken

\* A task that is linked into the ready list was nowhere else any more.
LEMMA LinkPlaces ==
    ASSUME TypeOK, PlaceInv, NEW t \in Task, BeingWoken(t), LinkReady(t),
           waiting' = waiting, t \notin waiting,
           \A u \in Task : InBuffer(u)' <=> InBuffer(u) /\ u # t,
           Distinct(insert_buffer)',
           \A d \in Ctx : Handing(d)' <=> Handing(d) /\ arg[d] # t,
           \A d \in Ctx : Handing(d)' => arg'[d] = arg[d]
    PROVE  PlaceInv'
<1>1. /\ state \in [Task -> TaskState] /\ ready_linked_list \in Seq(Task) /\ arg \in [Ctx -> Task]
      /\ waiting \subseteq Task
  BY DEF TypeOK
<1>2. state' = [state EXCEPT ![t] = "Ready"] /\ ready_linked_list' = Append(ready_linked_list, t)
  BY DEF LinkReady
<1>3. ~InReady(t) /\ Distinct(ready_linked_list)
  BY DEF PlaceInv, BeingWoken
<1>4. Distinct(ready_linked_list)' /\ \A u \in Task : InReady(u)' <=> InReady(u) \/ u = t
  BY <1>1, <1>2, <1>3, AppendPlaces DEF InReady
<1>5. \A u \in Task : state'[u] = IF u = t THEN "Ready" ELSE state[u]
  BY <1>1, <1>2
<1>6. \A u \in Task : BeingWoken(u)' <=> BeingWoken(u) /\ u # t
  BY <1>5 DEF BeingWoken
<1>7. \A d \in Ctx : arg[d] \in Task
  BY <1>1
<1> HIDE DEF InReady, InBuffer, BeingWoken, Handing, LinkReady
<1>8. /\ \A c, d \in Ctx : Handing(c)' /\ Handing(d)' /\ arg'[c] = arg'[d] => c = d
      /\ \A c \in Ctx : Handing(c)' => ~InBuffer(arg[c])' /\ arg'[c] \notin waiting'
      /\ \A c \in Ctx : Handing(c)' => BeingWoken(arg[c])'
  BY <1>6, <1>7 DEF PlaceInv
<1>9. /\ \A u \in waiting' : ~InBuffer(u)'
      /\ \A u \in Task : InReady(u)' <=> state'[u] = "Ready"
      /\ \A u \in Task : InBuffer(u)' => BeingWoken(u)'
      /\ \A u \in waiting' : state'[u] = "Blocked"
  BY <1>1, <1>4, <1>5, <1>6 DEF PlaceInv
<1>10. \A u \in Task : BeingWoken(u)' => \/ u \in waiting' \/ InBuffer(u)'
                                          \/ \E c \in Ctx : Handing(c)' /\ arg'[c] = u
  BY <1>1, <1>6 DEF PlaceInv
<1> QED
  BY <1>4, <1>8, <1>9, <1>10 DEF PlaceInv

\* Every action leaves each task in the one place its state says.
LEMMA PlaceStep ==
    ASSUME IInv, Next
    PROVE  PlaceInv'
<1> DEFINE Goal == PlaceInv'
<1>0. /\ TypeOK /\ SuspensionInv /\ PlaceInv /\ CurrentInv /\ ControlInv /\ QuotaInv
      /\ pc \in [Ctx -> Step] /\ arg \in [Ctx -> Task] /\ state \in [Task -> TaskState]
      /\ waiting \subseteq Task /\ CUR_TASK \in Task /\ CUR_TASK \in Ctx
      /\ insert_buffer \in Seq(Task) /\ ready_linked_list \in Seq(Task)
      /\ Task \subseteq Ctx /\ Kern \in Ctx /\ Kern \notin Task
  BY Contexts DEF IInv, SuspensionInv, TypeOK, Ctx
<1> HIDE DEF Goal
<1> USE DEF queue, task, switch, frame, Goto
<1>1. ASSUME NEW c \in Ctx, KernelStep(c) PROVE Goal
  <2>1. CASE \/ accept_suspend(c) \/ accept_guard(c) \/ drop_pend_only(c) \/ drop_swap_pending(c)
             \/ drop_unlock(c) \/ drop_check_pending(c) \/ drop_relock(c) \/ resume_dec(c)
    <3>1. /\ UNCHANGED <<ready_linked_list, insert_buffer, waiting, state, arg>>
          /\ \A d \in Ctx : Handing(d)' <=> Handing(d)
      BY <1>0, <2>1 DEF accept_suspend, accept_guard, drop_pend_only, drop_swap_pending,
         drop_unlock, drop_check_pending, drop_relock, resume_dec, At, Handing, AcceptSteps
    <3> QED
      BY <1>0, <3>1, PlaceFrame DEF Goal
  <2>2. CASE resume_chk(c)
    <3>0. ret[c] \in {"run", "yield", "idle", "outer_dec"}
      BY <1>0 DEF TypeOK
    <3>1. /\ UNCHANGED <<ready_linked_list, insert_buffer, waiting, state>>
          /\ pc[c] \in {"chk", "outer_chk"} /\ pc'[c] \in {"run", "yield", "idle", "outer_dec", "isr"}
          /\ \A d \in Ctx \ {c} : pc'[d] = pc[d] /\ arg'[d] = arg[d]
      BY <1>0, <2>2, <3>0 DEF resume_chk, Home
    <3>2. /\ \A d \in Ctx : Handing(d)' <=> Handing(d)
          /\ \A d \in Ctx : Handing(d) => arg'[d] = arg[d]
      BY <3>1 DEF Handing, AcceptSteps
    <3> QED
      BY <1>0, <3>1, <3>2, PlaceFrame DEF Goal
  <2>3. CASE accept_full(c)
    <3>1. /\ pc[c] = "full" /\ pc' = [pc EXCEPT ![c] = "swap"] /\ LinkReady(arg[c])
          /\ UNCHANGED <<waiting, insert_buffer, arg>>
      BY <2>3 DEF accept_full, At
    <3>2. Handing(c) /\ BeingWoken(arg[c]) /\ arg[c] \notin waiting /\ arg[c] \in Task
          /\ ~InBuffer(arg[c]) /\ Distinct(insert_buffer)
          /\ \A d \in Ctx : Handing(d) /\ arg[d] = arg[c] => d = c
      BY <1>0, <3>1 DEF Handing, AcceptSteps, PlaceInv
    <3>3. \A d \in Ctx : Handing(d)' <=> Handing(d) /\ arg[d] # arg[c]
      BY <1>0, <3>1, <3>2 DEF Handing, AcceptSteps
    <3>4. Distinct(insert_buffer)' /\ \A u \in Task : InBuffer(u)' <=> InBuffer(u) /\ u # arg[c]
      BY <3>1, <3>2 DEF InBuffer
    <3> QED
      BY <1>0, <3>1, <3>2, <3>3, <3>4, LinkPlaces DEF Goal
  <2>4. CASE accept_pend(c)
    <3>1. Len(insert_buffer) < MAX_TASK_NUMBER /\ Handing(c)
      BY <1>0, <2>4, BufferHasRoom DEF accept_pend, At, Handing, AcceptSteps
    <3>2. /\ pc[c] = "pend" /\ pc' = [pc EXCEPT ![c] = "flag"]
          /\ insert_buffer' = Append(insert_buffer, arg[c])
          /\ UNCHANGED <<waiting, ready_linked_list, arg, state>>
      BY <2>4, <3>1 DEF accept_pend, At
    <3>3. BeingWoken(arg[c]) /\ arg[c] \notin waiting /\ arg[c] \in Task
          /\ ~InBuffer(arg[c]) /\ Distinct(insert_buffer)
          /\ \A d \in Ctx : Handing(d) /\ arg[d] = arg[c] => d = c
      BY <1>0, <3>1 DEF PlaceInv
    <3>4. Distinct(insert_buffer)' /\ \A u \in Task : InBuffer(u)' <=> InBuffer(u) \/ u = arg[c]
      BY <1>0, <3>2, <3>3, AppendPlaces DEF InBuffer
    <3>5. \A d \in Ctx : Handing(d)' <=> Handing(d) /\ arg[d] # arg[c]
      BY <1>0, <3>2, <3>3 DEF Handing, AcceptSteps
    <3>6. \A u \in Task : (BeingWoken(u)' <=> BeingWoken(u)) /\ (InReady(u)' <=> InReady(u))
      BY <3>2 DEF BeingWoken, InReady
    <3>7. \A d \in Ctx : arg[d] \in Task /\ arg'[d] = arg[d]
      BY <1>0, <3>2
    <3> HIDE DEF InReady, InBuffer, BeingWoken, Handing
    <3>8. \A u \in Task : BeingWoken(u)' => \/ u \in waiting' \/ InBuffer(u)'
                                            \/ \E d \in Ctx : Handing(d)' /\ arg'[d] = u
      BY <1>0, <3>2, <3>4, <3>5, <3>6, <3>7 DEF PlaceInv
    <3>9. /\ \A b, d \in Ctx : Handing(b)' /\ Handing(d)' /\ arg'[b] = arg'[d] => b = d
          /\ \A d \in Ctx : Handing(d)' => ~InBuffer(arg[d])' /\ arg'[d] \notin waiting'
          /\ \A d \in Ctx : Handing(d)' => BeingWoken(arg[d])'
      BY <1>0, <3>2, <3>4, <3>5, <3>6, <3>7 DEF PlaceInv
    <3>10. /\ \A u \in waiting' : ~InBuffer(u)'
           /\ \A u \in Task : InReady(u)' <=> state'[u] = "Ready"
           /\ \A u \in Task : InBuffer(u)' => BeingWoken(u)'
           /\ \A u \in waiting' : state'[u] = "Blocked"
      BY <1>0, <3>2, <3>3, <3>4, <3>6 DEF PlaceInv
    <3>11. Distinct(ready_linked_list)'
      BY <1>0, <3>2 DEF PlaceInv
    <3> QED
      BY <3>4, <3>8, <3>9, <3>10, <3>11 DEF PlaceInv, Goal
  <2>5. CASE run_pended_op(c)
    <3>1. CASE insert_buffer = <<>>
      <4>1. /\ UNCHANGED <<ready_linked_list, insert_buffer, waiting, state, arg>>
            /\ \A d \in Ctx : Handing(d)' <=> Handing(d)
        BY <1>0, <2>5, <3>1 DEF run_pended_op, At, Handing, AcceptSteps
      <4> QED
        BY <1>0, <4>1, PlaceFrame DEF Goal
    <3>2. CASE insert_buffer # <<>>
      <4> DEFINE t == Head(insert_buffer)
      <4>1. /\ LinkReady(t) /\ insert_buffer' = Tail(insert_buffer)
            /\ UNCHANGED <<waiting, arg, pc>>
        BY <2>5, <3>2 DEF run_pended_op
      <4>2. /\ t \in Task /\ InBuffer(t)
            /\ Distinct(insert_buffer)' /\ \A u \in Task : InBuffer(u)' <=> InBuffer(u) /\ u # t
        BY <1>0, <3>2, <4>1, TailPlaces DEF InBuffer, PlaceInv
      <4> HIDE DEF t
      <4>3. BeingWoken(t) /\ t \notin waiting /\ \A d \in Ctx : Handing(d) => arg[d] # t
        BY <1>0, <4>2 DEF PlaceInv
      <4>4. \A d \in Ctx : Handing(d)' <=> Handing(d)
        BY <4>1 DEF Handing
      <4> QED
        BY <1>0, <4>1, <4>2, <4>3, <4>4, LinkPlaces DEF Goal
    <3> QED
      BY <3>1, <3>2
  <2>6. CASE notify_pop(c)
    <3>1. CASE pc'[c] # "accept"
      <4>1. /\ UNCHANGED <<ready_linked_list, insert_buffer, waiting, state, arg>>
            /\ \A d \in Ctx : Handing(d)' <=> Handing(d)
        BY <1>0, <2>6, <3>1 DEF notify_pop, At, Handing, AcceptSteps
      <4> QED
        BY <1>0, <4>1, PlaceFrame DEF Goal
    <3>2. CASE pc'[c] = "accept"
      <4>1. PICK t \in waiting : /\ waiting' = waiting \ {t}
                                 /\ arg' = [arg EXCEPT ![c] = t]
                                 /\ pc' = [pc EXCEPT ![c] = "accept"]
        BY <1>0, <2>6, <3>2 DEF notify_pop, At
      <4>2. pc[c] = "pop" /\ UNCHANGED <<ready_linked_list, insert_buffer, state>>
        BY <2>6 DEF notify_pop, At
      <4>3. /\ ~Handing(c) /\ Handing(c)' /\ arg'[c] = t
            /\ \A d \in Ctx \ {c} : (Handing(d)' <=> Handing(d)) /\ arg'[d] = arg[d]
        BY <1>0, <4>1, <4>2 DEF Handing, AcceptSteps
      <4>4. \A u \in Task : /\ BeingWoken(u)' <=> BeingWoken(u)
                            /\ InReady(u)' <=> InReady(u)
                            /\ InBuffer(u)' <=> InBuffer(u)
        BY <4>2 DEF BeingWoken, InReady, InBuffer
      <4>5. t \in Task /\ state[t] = "Blocked" /\ BeingWoken(t) /\ ~InBuffer(t)
            /\ \A d \in Ctx : Handing(d) => arg[d] # t /\ arg[d] \in Task
        BY <1>0 DEF PlaceInv, BeingWoken
      <4> HIDE DEF InReady, InBuffer, BeingWoken, Handing
      <4>6. /\ \A b, d \in Ctx : Handing(b)' /\ Handing(d)' /\ arg'[b] = arg'[d] => b = d
            /\ \A d \in Ctx : Handing(d)' => ~InBuffer(arg[d])' /\ arg'[d] \notin waiting'
            /\ \A d \in Ctx : Handing(d)' => BeingWoken(arg[d])'
        <5>1. \A d \in Ctx : Handing(d)' => /\ arg'[d] \in Task /\ ~InBuffer(arg'[d])
                                            /\ BeingWoken(arg'[d]) /\ arg'[d] \notin waiting'
          BY <1>0, <4>1, <4>3, <4>5 DEF PlaceInv
        <5>2. \A b, d \in Ctx : Handing(b)' /\ Handing(d)' /\ arg'[b] = arg'[d] => b = d
          BY <1>0, <4>3, <4>5 DEF PlaceInv
        <5> QED
          BY <4>4, <5>1, <5>2
      <4>7. \A u \in Task : BeingWoken(u)' => \/ u \in waiting' \/ InBuffer(u)'
                                              \/ \E d \in Ctx : Handing(d)' /\ arg'[d] = u
        BY <1>0, <4>1, <4>3, <4>4 DEF PlaceInv
      <4>8. /\ \A u \in waiting' : ~InBuffer(u)' /\ state'[u] = "Blocked"
            /\ \A u \in Task : InReady(u)' <=> state'[u] = "Ready"
            /\ \A u \in Task : InBuffer(u)' => BeingWoken(u)'
            /\ Distinct(ready_linked_list)' /\ Distinct(insert_buffer)'
        BY <1>0, <4>1, <4>2, <4>4 DEF PlaceInv
      <4> QED
        BY <4>6, <4>7, <4>8 DEF PlaceInv, Goal
    <3> QED
      BY <3>1, <3>2
  <2> QED
    BY <1>1, <2>1, <2>2, <2>3, <2>4, <2>5, <2>6 DEF KernelStep
<1>2. ASSUME NEW c \in Ctx, notify(c) PROVE Goal
  <2>1. /\ UNCHANGED <<ready_linked_list, insert_buffer, waiting, state, arg>>
        /\ \A d \in Ctx : Handing(d)' <=> Handing(d)
    BY <1>0, <1>2 DEF notify, UserCode, At, Home, Handing, AcceptSteps
  <2> QED
    BY <1>0, <2>1, PlaceFrame DEF Goal
<1>3. CASE PickNext
  <2>1. CASE pendsv_entry \/ pick_suspend \/ pick_guard
    <3>1. /\ UNCHANGED <<ready_linked_list, insert_buffer, waiting, state, arg>>
          /\ \A d \in Ctx : Handing(d)' <=> Handing(d)
      BY <1>0, <2>1, Contexts DEF pendsv_entry, pick_suspend, pick_guard, At, Enter, ThreadMode,
         Handing, AcceptSteps
    <3> QED
      BY <1>0, <3>1, PlaceFrame DEF Goal
  <2>2. CASE pick_body
    <3>1. Switches /\ Requeued \in Seq(Task)
      BY <1>0, <2>2, SomethingToRun, PickSwitches
    <3>2. /\ pc[Kern] = "pick_body" /\ pc' = [pc EXCEPT ![Kern] = "swap"]
          /\ UNCHANGED <<insert_buffer, waiting, arg>> /\ CUR_TASK' \in Task
          /\ state' = SwitchedState(CUR_TASK')
      BY <3>1 DEF Switches
    <3>3. \A d \in Ctx : Handing(d)' <=> Handing(d)
      BY <1>0, <3>2 DEF Handing, AcceptSteps
    <3>4. Distinct(Requeued) /\ \A u \in Task : Has(Requeued, u) <=> state[u] = "Ready"
                                            \/ (u = CUR_TASK /\ state[u] = "Running")
      <4>1. Distinct(ready_linked_list) /\ \A u \in Task : InReady(u) <=> state[u] = "Ready"
        BY <1>0 DEF PlaceInv
      <4>2. CASE state[CUR_TASK] = "Running"
        <5>1. Requeued = Append(ready_linked_list, CUR_TASK) /\ ~Has(ready_linked_list, CUR_TASK)
          BY <1>0, <4>1, <4>2 DEF Requeued, InReady
        <5> QED
          BY <1>0, <4>1, <4>2, <5>1, AppendPlaces DEF InReady
      <4>3. CASE state[CUR_TASK] # "Running"
        BY <4>1, <4>3 DEF Requeued, InReady
      <4> QED
        BY <4>2, <4>3
    <3>5. PICK pos \in DOMAIN Requeued : CUR_TASK' = Requeued[pos] /\ ready_linked_list' = RemoveAt(Requeued, pos)
      BY <3>1 DEF Switches
    <3>6. Distinct(ready_linked_list)' /\ \A u \in Task : InReady(u)' <=> Has(Requeued, u) /\ u # CUR_TASK'
      BY <3>1, <3>4, <3>5, RemovePlaces DEF InReady
    <3>7. Has(Requeued, CUR_TASK')
      BY <3>5 DEF Has
    <3>8. \A u \in Task : state'[u] = IF u = CUR_TASK' THEN "Running"
                    ELSE IF u = CUR_TASK /\ state[u] = "Running" THEN "Ready"
                    ELSE IF u = CUR_TASK /\ state[u] = "Destructing" THEN "Unborn"
                    ELSE state[u]
      BY <3>2 DEF SwitchedState
    <3>9. \A u \in Task : InReady(u)' <=> state'[u] = "Ready"
      BY <3>4, <3>6, <3>8
    <3>10. ~BeingWoken(CUR_TASK')
      BY <3>2, <3>4, <3>7 DEF BeingWoken
    <3>11. \A u \in Task : BeingWoken(u)' <=> BeingWoken(u)
      BY <3>8, <3>10 DEF BeingWoken
    <3>12. \A u \in waiting : state'[u] = "Blocked"
      <4>1. \A u \in waiting : u \in Task /\ state[u] = "Blocked"
        BY <1>0 DEF PlaceInv
      <4> QED
        BY <3>8, <3>10, <4>1 DEF BeingWoken
    <3>13. \A u \in Task : InBuffer(u)' <=> InBuffer(u)
      BY <3>2 DEF InBuffer
    <3>14. \A d \in Ctx : arg[d] \in Task /\ arg'[d] = arg[d]
      BY <1>0, <3>2
    <3> HIDE DEF InReady, InBuffer, BeingWoken, Handing
    <3>15. /\ \A b, d \in Ctx : Handing(b)' /\ Handing(d)' /\ arg'[b] = arg'[d] => b = d
           /\ \A d \in Ctx : Handing(d)' => ~InBuffer(arg[d])' /\ arg'[d] \notin waiting'
           /\ \A d \in Ctx : Handing(d)' => BeingWoken(arg[d])'
      BY <1>0, <3>2, <3>3, <3>11, <3>13, <3>14 DEF PlaceInv
    <3>16. /\ \A u \in waiting' : ~InBuffer(u)'
           /\ \A u \in Task : InBuffer(u)' => BeingWoken(u)'
           /\ Distinct(insert_buffer)'
           /\ \A u \in Task : BeingWoken(u)' => \/ u \in waiting' \/ InBuffer(u)'
                                                \/ \E d \in Ctx : Handing(d)' /\ arg'[d] = u
      BY <1>0, <3>2, <3>3, <3>11, <3>13, <3>14 DEF PlaceInv
    <3> QED
      BY <3>2, <3>6, <3>9, <3>12, <3>15, <3>16 DEF PlaceInv, Goal
  <2> QED
    BY <1>3, <2>1, <2>2 DEF PickNext
<1>4. ASSUME NEW t \in Task, TaskStep(t) PROVE Goal
  <2>1. CASE \/ yield_current_task(t) \/ quota_load(t) \/ quota_cas(t)
             \/ \E p \in Level : change_intrinsic_priority(t, p)
    <3>1. /\ UNCHANGED <<ready_linked_list, insert_buffer, waiting, state, arg>>
          /\ \A d \in Ctx : Handing(d)' <=> Handing(d)
      BY <1>0, <2>1 DEF yield_current_task, quota_load, quota_cas, change_intrinsic_priority,
         At, Handing, AcceptSteps
    <3> QED
      BY <1>0, <3>1, PlaceFrame DEF Goal
  <2>2. CASE block_enqueue(t)
    <3>1. /\ pc[t] = "enqueue" /\ t = CUR_TASK /\ ThreadMode /\ ~pendsv
          /\ state' = [state EXCEPT ![t] = "Blocked"] /\ waiting' = waiting \union {t}
          /\ pc' = [pc EXCEPT ![t] = "dec"] /\ UNCHANGED <<insert_buffer, ready_linked_list, arg>>
      BY <2>2, Contexts DEF block_enqueue, At, Running
    <3>2. state[t] = "Running"
      BY <1>0, <3>1, Contexts DEF CurrentInv, AboutToYield, Picking, ThreadMode
    <3>3. \A d \in Ctx : Handing(d)' <=> Handing(d)
      BY <1>0, <3>1 DEF Handing, AcceptSteps
    <3>4. ~InReady(t) /\ ~InBuffer(t) /\ t \notin waiting /\ \A d \in Ctx : Handing(d) => arg[d] # t
      BY <1>0, <3>2 DEF PlaceInv, BeingWoken
    <3>5. \A u \in Task : state'[u] = IF u = t THEN "Blocked" ELSE state[u]
      BY <1>0, <3>1
    <3>6. /\ \A u \in Task : BeingWoken(u)' <=> BeingWoken(u) \/ u = t
          /\ \A u \in Task : (InReady(u)' <=> InReady(u)) /\ (InBuffer(u)' <=> InBuffer(u))
          /\ \A d \in Ctx : arg[d] \in Task /\ arg'[d] = arg[d]
      BY <1>0, <3>1, <3>5 DEF BeingWoken, InReady, InBuffer
    <3> HIDE DEF InReady, InBuffer, BeingWoken, Handing
    <3>7. /\ \A b, d \in Ctx : Handing(b)' /\ Handing(d)' /\ arg'[b] = arg'[d] => b = d
          /\ \A d \in Ctx : Handing(d)' => ~InBuffer(arg[d])' /\ arg'[d] \notin waiting'
          /\ \A d \in Ctx : Handing(d)' => BeingWoken(arg[d])'
      BY <1>0, <3>1, <3>3, <3>4, <3>6 DEF PlaceInv
    <3>8. /\ \A u \in waiting' : ~InBuffer(u)' /\ state'[u] = "Blocked"
          /\ \A u \in Task : InReady(u)' <=> state'[u] = "Ready"
          /\ \A u \in Task : InBuffer(u)' => BeingWoken(u)'
          /\ Distinct(ready_linked_list)' /\ Distinct(insert_buffer)'
      BY <1>0, <3>1, <3>4, <3>5, <3>6 DEF PlaceInv
    <3>9. \A u \in Task : BeingWoken(u)' => \/ u \in waiting' \/ InBuffer(u)'
                                            \/ \E d \in Ctx : Handing(d)' /\ arg'[d] = u
      BY <1>0, <3>1, <3>3, <3>6 DEF PlaceInv
    <3> QED
      BY <3>7, <3>8, <3>9 DEF PlaceInv, Goal
  <2>3. CASE build(t)
    <3>1. CASE pc'[t] # "accept"
      <4>1. pc[t] = "build" /\ pc' = [pc EXCEPT ![t] = "run"]
            /\ UNCHANGED <<ready_linked_list, insert_buffer, waiting, state, arg>>
        <5>1. \A n \in Task : pc' = [pc EXCEPT ![t] = "accept", ![n] = "run"] /\ n # t => pc'[t] = "accept"
          BY <1>0
        <5>2. \A n \in Task : state[n] = "Unborn" => n # CUR_TASK
          BY <1>0 DEF CurrentInv
        <5>3. t = CUR_TASK
          BY <2>3, Contexts DEF build, At, Running
        <5> QED
          BY <2>3, <3>1, <5>1, <5>2, <5>3 DEF build, At
      <4>2. \A d \in Ctx : Handing(d)' <=> Handing(d)
        BY <1>0, <4>1 DEF Handing, AcceptSteps
      <4> QED
        BY <1>0, <4>1, <4>2, PlaceFrame DEF Goal
    <3>2. CASE pc'[t] = "accept"
      <4>1. pc[t] = "build" /\ t = CUR_TASK
            /\ UNCHANGED <<ready_linked_list, insert_buffer, waiting>>
        BY <2>3, Contexts DEF build, At, Running
      <4>2. PICK n \in Task : /\ state[n] = "Unborn"
                              /\ state' = [state EXCEPT ![n] = "Initializing"]
                              /\ arg' = [arg EXCEPT ![t] = n]
                              /\ pc' = [pc EXCEPT ![t] = "accept", ![n] = "run"]
        BY <1>0, <2>3, <3>2 DEF build
      <4>3. pc[n] \in {"run", "dead"} /\ n # t
        BY <1>0, <4>1, <4>2 DEF CurrentInv
      <4>4. /\ ~Handing(t) /\ Handing(t)' /\ arg'[t] = n
            /\ \A d \in Ctx \ {t} : (Handing(d)' <=> Handing(d)) /\ arg'[d] = arg[d]
        BY <1>0, <4>1, <4>2, <4>3 DEF Handing, AcceptSteps
      <4>5. \A u \in Task : state'[u] = IF u = n THEN "Initializing" ELSE state[u]
        BY <1>0, <4>2
      <4>6. \A u \in Task : /\ BeingWoken(u)' <=> BeingWoken(u) \/ u = n
                            /\ InReady(u)' <=> InReady(u)
                            /\ InBuffer(u)' <=> InBuffer(u)
        BY <4>1, <4>5 DEF BeingWoken, InReady, InBuffer
      <4>7. ~InReady(n) /\ ~InBuffer(n) /\ n \notin waiting
            /\ \A d \in Ctx : Handing(d) => arg[d] # n /\ arg[d] \in Task
        BY <1>0, <4>2 DEF PlaceInv, BeingWoken
      <4> HIDE DEF InReady, InBuffer, BeingWoken, Handing
      <4>8. /\ \A b, d \in Ctx : Handing(b)' /\ Handing(d)' /\ arg'[b] = arg'[d] => b = d
            /\ \A d \in Ctx : Handing(d)' => ~InBuffer(arg[d])' /\ arg'[d] \notin waiting'
            /\ \A d \in Ctx : Handing(d)' => BeingWoken(arg[d])'
        <5>1. \A d \in Ctx : Handing(d)' => /\ arg'[d] \in Task /\ ~InBuffer(arg'[d])
                                            /\ (BeingWoken(arg'[d]) \/ arg'[d] = n)
                                            /\ arg'[d] \notin waiting'
          BY <1>0, <4>1, <4>4, <4>7 DEF PlaceInv
        <5>2. \A b, d \in Ctx : Handing(b)' /\ Handing(d)' /\ arg'[b] = arg'[d] => b = d
          BY <1>0, <4>4, <4>7 DEF PlaceInv
        <5> QED
          BY <4>6, <5>1, <5>2
      <4>9. /\ \A u \in waiting' : ~InBuffer(u)' /\ state'[u] = "Blocked"
            /\ \A u \in Task : InReady(u)' <=> state'[u] = "Ready"
            /\ \A u \in Task : InBuffer(u)' => BeingWoken(u)'
            /\ Distinct(ready_linked_list)' /\ Distinct(insert_buffer)'
        BY <1>0, <4>1, <4>5, <4>6, <4>7 DEF PlaceInv
      <4>10. \A u \in Task : BeingWoken(u)' => \/ u \in waiting' \/ InBuffer(u)'
                                               \/ \E d \in Ctx : Handing(d)' /\ arg'[d] = u
        BY <1>0, <4>1, <4>4, <4>6 DEF PlaceInv
      <4> QED
        BY <4>8, <4>9, <4>10 DEF PlaceInv, Goal
    <3> QED
      BY <3>1, <3>2
  <2> QED
    BY <1>4, <2>1, <2>2, <2>3 DEF TaskStep
<1>5. ASSUME NEW t \in Task, TaskCall(t) PROVE Goal
  <2>1. /\ UNCHANGED <<ready_linked_list, insert_buffer, waiting, state, arg>>
    BY <1>5 DEF TaskCall, hold_guard, drop_guard, yield_current, block,
       change_current_priority, spawn, svc_destroy_current_task
  <2>2. \A d \in Ctx : Handing(d)' <=> Handing(d)
    <3>1. CASE svc_destroy_current_task(t)
      <4>1. pc[Kern] = "idle" /\ pc[t] = "run"
        BY <3>1, Contexts DEF svc_destroy_current_task, UserCode, At, Home, Running, ThreadMode
      <4> QED
        BY <1>0, <3>1, <4>1 DEF svc_destroy_current_task, Handing, AcceptSteps
    <3> QED
      BY <1>0, <1>5, <3>1 DEF TaskCall, hold_guard, drop_guard, yield_current, block,
         change_current_priority, spawn, UserCode, At, Home, Handing, AcceptSteps
  <2> QED
    BY <1>0, <2>1, <2>2, PlaceFrame DEF Goal
<1>6. ASSUME NEW e \in Irq, irq_entry(e) \/ irq_return(e) PROVE Goal
  <2>1. /\ UNCHANGED <<ready_linked_list, insert_buffer, waiting, state, arg>>
        /\ \A d \in Ctx : Handing(d)' <=> Handing(d)
    BY <1>0, <1>6, Contexts DEF irq_entry, irq_return, Enter, At, Handing, AcceptSteps
  <2> QED
    BY <1>0, <2>1, PlaceFrame DEF Goal
<1>7. CASE drop_current_task_from_svc
  <2>1. /\ pc[Kern] = "destroy" /\ pc' = [pc EXCEPT ![Kern] = "idle"]
        /\ state' = [state EXCEPT ![CUR_TASK] = "Destructing"]
        /\ UNCHANGED <<ready_linked_list, insert_buffer, waiting, arg>>
    BY <1>7 DEF drop_current_task_from_svc, At
  <2>2. state[CUR_TASK] = "Running"
    BY <1>0, <2>1 DEF CurrentInv
  <2>3. \A d \in Ctx : Handing(d)' <=> Handing(d)
    BY <1>0, <2>1 DEF Handing, AcceptSteps
  <2>4. \A u \in Task : /\ BeingWoken(u)' <=> BeingWoken(u)
                        /\ state'[u] = "Ready" <=> state[u] = "Ready"
                        /\ state'[u] = "Blocked" <=> state[u] = "Blocked"
                        /\ InReady(u)' <=> InReady(u)
                        /\ InBuffer(u)' <=> InBuffer(u)
    BY <1>0, <2>1, <2>2 DEF BeingWoken, InReady, InBuffer
  <2>5. \A d \in Ctx : arg[d] \in Task /\ arg'[d] = arg[d]
    BY <1>0, <2>1
  <2> HIDE DEF InReady, InBuffer, BeingWoken, Handing
  <2>6. /\ \A b, d \in Ctx : Handing(b)' /\ Handing(d)' /\ arg'[b] = arg'[d] => b = d
        /\ \A d \in Ctx : Handing(d)' => ~InBuffer(arg[d])' /\ arg'[d] \notin waiting'
        /\ \A d \in Ctx : Handing(d)' => BeingWoken(arg[d])'
    BY <1>0, <2>1, <2>3, <2>4, <2>5 DEF PlaceInv
  <2>7. /\ \A u \in waiting' : ~InBuffer(u)' /\ state'[u] = "Blocked"
        /\ \A u \in Task : InReady(u)' <=> state'[u] = "Ready"
        /\ \A u \in Task : InBuffer(u)' => BeingWoken(u)'
        /\ Distinct(ready_linked_list)' /\ Distinct(insert_buffer)'
    BY <1>0, <2>1, <2>4 DEF PlaceInv
  <2>8. \A u \in Task : BeingWoken(u)' => \/ u \in waiting' \/ InBuffer(u)'
                                          \/ \E d \in Ctx : Handing(d)' /\ arg'[d] = u
    BY <1>0, <2>1, <2>3, <2>4, <2>5 DEF PlaceInv
  <2> QED
    BY <2>6, <2>7, <2>8 DEF PlaceInv, Goal
<1> QED
  BY <1>1, <1>2, <1>3, <1>4, <1>5, <1>6, <1>7 DEF Next, Goal
-----------------------------------------------------------------------------
(***************************************************************************)
(* The current task.                                                       *)
(***************************************************************************)
\* A step that changes no task's state and switches nothing.
LEMMA CurrentFrame ==
    ASSUME TypeOK, CurrentInv, UNCHANGED <<state, CUR_TASK>>,
           AboutToYield => AboutToYield',
           pc'[Kern] = "destroy" => pc[Kern] = "destroy",
           \A t \in Task : pc'[t] = pc[t] \/ (pc[t] # "dead" /\ t = CUR_TASK /\ pc[Kern] # "destroy")
    PROVE  CurrentInv'
<1>1. CUR_TASK \in Task /\ Idle \in Task
  BY TaskAssumption DEF TypeOK
<1> QED
  BY <1>1 DEF CurrentInv

\* A task that is linked into the ready list was not the one running.
LEMMA CurrentLink ==
    ASSUME TypeOK, CurrentInv, NEW t \in Task, BeingWoken(t), state' = [state EXCEPT ![t] = "Ready"],
           CUR_TASK' = CUR_TASK,
           AboutToYield => AboutToYield',
           \A u \in Task : pc'[u] = pc[u] \/ (pc[u] # "dead" /\ u = CUR_TASK /\ pc[Kern] # "destroy"),
           pc'[Kern] = "destroy" => pc[Kern] = "destroy"
    PROVE  CurrentInv'
<1>1. CUR_TASK \in Task /\ Idle \in Task /\ state \in [Task -> TaskState]
  BY TaskAssumption DEF TypeOK
<1>2. \A u \in Task : state'[u] = IF u = t THEN "Ready" ELSE state[u]
  BY <1>1
<1>3. state[t] \notin {"Running", "Destructing", "Unborn"}
  BY DEF BeingWoken
<1> QED
  BY <1>1, <1>2, <1>3 DEF CurrentInv

\* Every action keeps exactly the current task Running, and lets it leave
\* that state only on its way to pick_next.
LEMMA CurrentStep ==
    ASSUME IInv, Next
    PROVE  CurrentInv'
<1> DEFINE Goal == CurrentInv'
<1>0. /\ TypeOK /\ SuspensionInv /\ PlaceInv /\ CurrentInv /\ ControlInv
      /\ pc \in [Ctx -> Step] /\ arg \in [Ctx -> Task] /\ state \in [Task -> TaskState]
      /\ CUR_TASK \in Task /\ CUR_TASK \in Ctx
      /\ Task \subseteq Ctx /\ Kern \in Ctx /\ Kern \notin Task /\ Idle \in Task
  BY Contexts, TaskAssumption DEF IInv, SuspensionInv, TypeOK, Ctx
<1>y. ~pick_body => (AboutToYield => AboutToYield')
  BY YieldStep
<1> HIDE DEF Goal
<1> USE DEF queue, task, switch, frame, Goto
<1>1. ASSUME NEW c \in Ctx, KernelStep(c) PROVE Goal
  <2>0. Running(c) /\ CUR_TASK' = CUR_TASK /\ \A d \in Ctx \ {c} : pc'[d] = pc[d]
    BY <1>0, <1>1 DEF KernelStep, accept_suspend, accept_guard, accept_full, accept_pend,
       drop_pend_only, drop_swap_pending, run_pended_op, drop_unlock, drop_check_pending,
       drop_relock, resume_dec, resume_chk, notify_pop, At
  <2>1. pc[c] \notin {"dead", "destroy", "pick_body"}
    BY <1>1 DEF KernelStep, accept_suspend, accept_guard, accept_full, accept_pend,
       drop_pend_only, drop_swap_pending, run_pended_op, drop_unlock, drop_check_pending,
       drop_relock, resume_dec, resume_chk, notify_pop, At
  <2>2. c \in Task => c = CUR_TASK /\ pc[Kern] = "idle"
    BY <2>0, Contexts DEF Running, ThreadMode
  <2>3. c = Kern => pc'[Kern] # "destroy"
    <3>1. ret[c] \in {"run", "yield", "idle", "outer_dec"}
      BY <1>0 DEF TypeOK
    <3> QED
      BY <1>0, <1>1, <3>1 DEF KernelStep, accept_suspend, accept_guard, accept_full, accept_pend,
       drop_pend_only, drop_swap_pending, run_pended_op, drop_unlock, drop_check_pending,
       drop_relock, resume_dec, resume_chk, notify_pop, At, Home
  <2>4. /\ \A t \in Task : pc'[t] = pc[t] \/ (pc[t] # "dead" /\ t = CUR_TASK /\ pc[Kern] # "destroy")
        /\ pc'[Kern] = "destroy" => pc[Kern] = "destroy"
    BY <1>0, <2>0, <2>1, <2>2, <2>3
  <2>5. AboutToYield => AboutToYield'
    <3>1. ~pick_body
      <4>1. c # Kern => ~Running(Kern) \/ c \notin Exc
        BY <2>0, Contexts DEF Running, Ctx
      <4>2. c \in Task => ~Running(Kern)
        BY <2>2, Contexts DEF Running
      <4> QED
        BY <2>1, <4>1, <4>2 DEF pick_body, At, Ctx
    <3> QED
      BY <1>y, <3>1
  <2>6. CASE accept_full(c)
    <3>1. LinkReady(arg[c]) /\ Handing(c)
      BY <2>6 DEF accept_full, At, Handing, AcceptSteps
    <3>2. BeingWoken(arg[c]) /\ arg[c] \in Task
      BY <1>0, <3>1 DEF PlaceInv
    <3> QED
      BY <1>0, <2>0, <2>4, <2>5, <3>1, <3>2, CurrentLink DEF Goal, LinkReady
  <2>7. CASE run_pended_op(c) /\ insert_buffer # <<>>
    <3>1. LinkReady(Head(insert_buffer))
      BY <2>7 DEF run_pended_op
    <3>2. Head(insert_buffer) \in Task /\ InBuffer(Head(insert_buffer))
      BY <1>0, <2>7, TailPlaces DEF TypeOK, InBuffer, PlaceInv
    <3>3. BeingWoken(Head(insert_buffer))
      BY <1>0, <3>2 DEF PlaceInv
    <3> QED
      BY <1>0, <2>0, <2>4, <2>5, <3>1, <3>2, <3>3, CurrentLink DEF Goal, LinkReady
  <2>8. CASE state' = state
    BY <1>0, <2>0, <2>4, <2>5, <2>8, CurrentFrame DEF Goal
  <2>9. accept_full(c) \/ (run_pended_op(c) /\ insert_buffer # <<>>) \/ state' = state
    BY <1>1 DEF KernelStep, accept_suspend, accept_guard, accept_pend,
       drop_pend_only, drop_swap_pending, run_pended_op, drop_unlock, drop_check_pending,
       drop_relock, resume_dec, resume_chk, notify_pop
  <2> QED
    BY <2>6, <2>7, <2>8, <2>9
<1>2. ASSUME NEW c \in Ctx, notify(c) PROVE Goal
  <2>1. UNCHANGED <<state, CUR_TASK>> /\ Running(c) /\ c # Kern /\ pc[c] = Home(c)
        /\ \A d \in Ctx \ {c} : pc'[d] = pc[d]
    BY <1>0, <1>2 DEF notify, UserCode, At
  <2>2. c \in Task => c = CUR_TASK /\ pc[Kern] = "idle" /\ pc[c] = "run"
    BY <2>1, Contexts DEF Running, ThreadMode, Home
  <2>3. ~pick_body
    BY <2>1, <2>2, Contexts DEF pick_body, At, Running, Ctx
  <2>4. /\ \A t \in Task : pc'[t] = pc[t] \/ (pc[t] # "dead" /\ t = CUR_TASK /\ pc[Kern] # "destroy")
        /\ pc'[Kern] = "destroy" => pc[Kern] = "destroy"
    BY <1>0, <2>1, <2>2
  <2> QED
    BY <1>0, <1>y, <2>1, <2>3, <2>4, CurrentFrame DEF Goal
<1>3. CASE PickNext
  <2>1. CASE (pendsv_entry \/ pick_suspend \/ pick_guard)
    <3>1. UNCHANGED <<state, CUR_TASK>> /\ pc'[Kern] # "destroy" /\ \A t \in Task : pc'[t] = pc[t]
      BY <1>0, <2>1 DEF pendsv_entry, pick_suspend, pick_guard, Enter
    <3>2. ~pick_body
      <4>1. pc[Kern] # "pick_body"
        BY <2>1, Contexts DEF pendsv_entry, pick_suspend, pick_guard, ThreadMode, At
      <4> QED
        BY <4>1 DEF pick_body, At
    <3> QED
      BY <1>0, <1>y, <3>1, <3>2, CurrentFrame DEF Goal
  <2>2. CASE pick_body
    <3>1. Switches /\ Requeued \in Seq(Task)
      BY <1>0, <2>2, SomethingToRun, PickSwitches
    <3>2. /\ pc[Kern] = "pick_body" /\ pc' = [pc EXCEPT ![Kern] = "swap"]
          /\ CUR_TASK' \in Task /\ state' = SwitchedState(CUR_TASK')
      BY <3>1 DEF Switches
    <3>3. \A u \in Task : state'[u] = IF u = CUR_TASK' THEN "Running"
                    ELSE IF u = CUR_TASK /\ state[u] = "Running" THEN "Ready"
                    ELSE IF u = CUR_TASK /\ state[u] = "Destructing" THEN "Unborn"
                    ELSE state[u]
      BY <3>2 DEF SwitchedState
    <3>4. pc'[Kern] = "swap" /\ \A u \in Task : pc'[u] = pc[u]
      BY <1>0, <3>2
    <3>5. \A u \in Task : state[u] \in {"Running", "Destructing"} => u = CUR_TASK
      BY <1>0 DEF CurrentInv
    <3>6. /\ \A u \in Task : state'[u] \in {"Running", "Destructing"} => u = CUR_TASK'
          /\ \A u \in Task : state'[u] # "Destructing"
      BY <3>3, <3>5
    <3>7. state'[CUR_TASK'] = "Running"
      BY <3>2, <3>3
    <3>8. \A u \in Task : state'[u] = "Unborn" => pc'[u] \in {"run", "dead"}
      BY <1>0, <3>3, <3>4 DEF CurrentInv
    <3>9. state'[Idle] \in {"Running", "Ready"}
      BY <1>0, <3>3 DEF CurrentInv
    <3> QED
      BY <3>4, <3>6, <3>7, <3>8, <3>9 DEF CurrentInv, Goal
  <2> QED
    BY <1>3, <2>1, <2>2 DEF PickNext
<1>4. ASSUME NEW t \in Task, TaskStep(t) PROVE Goal
  <2>0. t = CUR_TASK /\ CUR_TASK' = CUR_TASK /\ ThreadMode /\ ~pendsv /\ pc[Kern] = "idle" /\ pc[t] # "dead"
    BY <1>4, Contexts DEF TaskStep, yield_current_task, block_enqueue, quota_load, quota_cas,
       build, change_intrinsic_priority, At, Running, ThreadMode
  <2>1. ~pick_body
    BY <2>0 DEF pick_body, At
  <2>2. CASE state' = state /\ ~block_enqueue(t) /\ pc'[t] # "accept"
    <3>1. pc'[Kern] = pc[Kern] /\ \A u \in Task \ {t} : pc'[u] = pc[u]
      <4>1. ~\E n \in Task : state[n] = "Unborn" /\ state' = [state EXCEPT ![n] = "Initializing"]
        BY <1>0, <2>2
      <4> QED
        BY <1>0, <1>4, <2>2, <4>1 DEF TaskStep, yield_current_task, quota_load, quota_cas,
           build, change_intrinsic_priority
    <3> QED
      BY <1>0, <1>y, <2>0, <2>1, <2>2, <3>1, CurrentFrame DEF Goal
  <2>3. CASE block_enqueue(t)
    <3>1. /\ state' = [state EXCEPT ![t] = "Blocked"] /\ pc' = [pc EXCEPT ![t] = "dec"]
          /\ ret' = [ret EXCEPT ![t] = "yield"] /\ pc[t] = "enqueue"
      BY <2>3 DEF block_enqueue, At
    <3>2. state[t] = "Running"
      BY <1>0, <2>0, <3>1 DEF CurrentInv, AboutToYield, Picking
    <3>3. t # Idle
      BY <1>0, <3>1 DEF ControlInv, ControlOf
    <3>4. AboutToYield'
      <4>1. ret \in [Ctx -> {"run", "yield", "idle", "outer_dec"}]
        BY <1>0 DEF TypeOK
      <4> QED
        BY <1>0, <2>0, <3>1, <4>1 DEF AboutToYield
    <3>5. \A u \in Task : /\ state'[u] = IF u = t THEN "Blocked" ELSE state[u]
                          /\ pc'[u] = IF u = t THEN "dec" ELSE pc[u]
      BY <1>0, <3>1
    <3>6. pc'[Kern] = "idle"
      BY <1>0, <2>0, <3>1
    <3> QED
      BY <1>0, <2>0, <3>2, <3>3, <3>4, <3>5, <3>6 DEF CurrentInv, Goal
  <2>4. CASE pc'[t] = "accept"
    <3>0. build(t)
      BY <1>0, <1>4, <2>4 DEF TaskStep, yield_current_task, block_enqueue, quota_load, quota_cas,
         change_intrinsic_priority
    <3>1. PICK n \in Task : /\ state[n] = "Unborn"
                            /\ state' = [state EXCEPT ![n] = "Initializing"]
                            /\ pc' = [pc EXCEPT ![t] = "accept", ![n] = "run"]
      BY <1>0, <2>4, <3>0 DEF build
    <3>2. n # t /\ n # Idle
      BY <1>0, <2>0, <3>1 DEF CurrentInv
    <3>3. \A u \in Task : /\ state'[u] = IF u = n THEN "Initializing" ELSE state[u]
                          /\ pc'[u] = IF u = n THEN "run" ELSE IF u = t THEN "accept" ELSE pc[u]
      BY <1>0, <3>1
    <3>4. pc'[Kern] = "idle"
      BY <1>0, <2>0, <3>1
    <3>5. AboutToYield => AboutToYield'
      BY <1>y, <2>1
    <3> QED
      BY <1>0, <2>0, <3>2, <3>3, <3>4, <3>5 DEF CurrentInv, Goal
  <2>5. block_enqueue(t) \/ state' = state \/ pc'[t] = "accept"
    <3>1. \A n \in Task : state[n] = "Unborn" => n # t
      BY <1>0, <2>0 DEF CurrentInv
    <3> QED
      BY <1>0, <1>4, <3>1 DEF TaskStep, yield_current_task, quota_load, quota_cas,
         build, change_intrinsic_priority
  <2> QED
    BY <2>2, <2>3, <2>4, <2>5
<1>5. ASSUME NEW t \in Task, TaskCall(t) PROVE Goal
  <2>0. t = CUR_TASK /\ CUR_TASK' = CUR_TASK /\ ThreadMode /\ ~pendsv /\ pc[Kern] = "idle"
        /\ pc[t] = "run" /\ state' = state
    BY <1>5, Contexts DEF TaskCall, hold_guard, drop_guard, yield_current, block,
       change_current_priority, spawn, svc_destroy_current_task, UserCode, At, Running, Home, ThreadMode
  <2>1. ~pick_body
    BY <2>0 DEF pick_body, At
  <2>2. CASE svc_destroy_current_task(t)
    <3>1. pc' = [pc EXCEPT ![t] = "dead", ![Kern] = "destroy"]
      BY <2>2 DEF svc_destroy_current_task
    <3>2. state[t] = "Running"
      BY <1>0, <2>0 DEF CurrentInv, AboutToYield, Picking
    <3>3. \A u \in Task : pc'[u] = IF u = t THEN "dead" ELSE pc[u]
      BY <1>0, <3>1
    <3> QED
      BY <1>0, <2>0, <3>2, <3>3 DEF CurrentInv, Goal
  <2>3. CASE ~svc_destroy_current_task(t)
    <3>1. pc'[Kern] = pc[Kern] /\ \A u \in Task \ {t} : pc'[u] = pc[u]
      BY <1>0, <1>5, <2>3 DEF TaskCall, hold_guard, drop_guard, yield_current, block,
         change_current_priority, spawn
    <3> QED
      BY <1>0, <1>y, <2>0, <2>1, <3>1, CurrentFrame DEF Goal
  <2> QED
    BY <2>2, <2>3
<1>6. ASSUME NEW e \in Irq, irq_entry(e) \/ irq_return(e) PROVE Goal
  <2>1. /\ UNCHANGED <<state, CUR_TASK>> /\ pc'[Kern] = pc[Kern] /\ \A u \in Task : pc'[u] = pc[u]
    BY <1>0, <1>6, Contexts DEF irq_entry, irq_return, Enter
  <2>2. ~pick_body
    BY <1>0, <2>1 DEF pick_body, At
  <2> QED
    BY <1>0, <1>y, <2>1, <2>2, CurrentFrame DEF Goal
<1>7. CASE drop_current_task_from_svc
  <2>1. /\ pc[Kern] = "destroy" /\ pc' = [pc EXCEPT ![Kern] = "idle"]
        /\ state' = [state EXCEPT ![CUR_TASK] = "Destructing"] /\ CUR_TASK' = CUR_TASK /\ pendsv'
    BY <1>7 DEF drop_current_task_from_svc, At
  <2>2. state[CUR_TASK] = "Running" /\ pc[CUR_TASK] = "dead"
    BY <1>0, <2>1 DEF CurrentInv
  <2>3. CUR_TASK # Idle
    <3>1. pc[Idle] \in {"yield", "run"}
      BY <1>0 DEF ControlInv, ControlOf
    <3> QED
      BY <2>2, <3>1
  <2>4. /\ \A u \in Task : state'[u] = IF u = CUR_TASK THEN "Destructing" ELSE state[u]
        /\ \A u \in Task : pc'[u] = pc[u]
        /\ pc'[Kern] = "idle"
    BY <1>0, <2>1
  <2> QED
    BY <1>0, <2>1, <2>2, <2>3, <2>4 DEF CurrentInv, Goal, AboutToYield
<1> QED
  BY <1>1, <1>2, <1>3, <1>4, <1>5, <1>6, <1>7 DEF Next, Goal
-----------------------------------------------------------------------------
(***************************************************************************)
(* The quota.                                                              *)
(***************************************************************************)
\* A step that neither creates nor destroys a task struct or a quota.
LEMMA QuotaFrame ==
    ASSUME QuotaInv, EXIST_TASK_NUM' = EXIST_TASK_NUM,
           \A t \in Task : state'[t] = "Unborn" <=> state[t] = "Unborn",
           \A t \in Task : pc'[t] = "build" <=> pc[t] = "build",
           \A t \in Task : pc'[t] = "cas" => pc[t] = "cas" /\ seen'[t] = seen[t]
    PROVE  QuotaInv'
<1>1. Alive' = Alive /\ Building' = Building
  BY DEF Alive, Building
<1> QED
  BY <1>1 DEF QuotaInv

\* Every action keeps EXIST_TASK_NUM equal to what it counts.
LEMMA QuotaStep ==
    ASSUME IInv, Next
    PROVE  QuotaInv'
<1> DEFINE Goal == QuotaInv'
<1>0. /\ TypeOK /\ SuspensionInv /\ PlaceInv /\ CurrentInv /\ ControlInv /\ QuotaInv
      /\ pc \in [Ctx -> Step] /\ arg \in [Ctx -> Task] /\ state \in [Task -> TaskState]
      /\ CUR_TASK \in Task /\ CUR_TASK \in Ctx /\ seen \in [Task -> Nat]
      /\ Task \subseteq Ctx /\ Kern \in Ctx /\ Kern \notin Task
      /\ EXIST_TASK_NUM \in Nat /\ MAX_TASK_NUMBER \in Nat
      /\ ret \in [Ctx -> {"run", "yield", "idle", "outer_dec"}]
  BY Contexts, QuotaAssumption DEF IInv, SuspensionInv, TypeOK, Ctx
<1>c. Cardinality(Alive) \in Nat /\ Cardinality(Building) \in Nat
  BY <1>0, FS_CardinalityType DEF QuotaInv
<1> HIDE DEF Goal
<1> USE DEF queue, task, switch, frame, Goto
<1>1. ASSUME NEW c \in Ctx, KernelStep(c) PROVE Goal
  <2>1. UNCHANGED <<EXIST_TASK_NUM, seen>>
    BY <1>1 DEF KernelStep, accept_suspend, accept_guard, accept_full, accept_pend,
       drop_pend_only, drop_swap_pending, run_pended_op, drop_unlock, drop_check_pending,
       drop_relock, resume_dec, resume_chk, notify_pop
  <2>2. pc[c] \notin {"build", "cas"} /\ \A d \in Ctx \ {c} : pc'[d] = pc[d]
    BY <1>0, <1>1 DEF KernelStep, accept_suspend, accept_guard, accept_full, accept_pend,
       drop_pend_only, drop_swap_pending, run_pended_op, drop_unlock, drop_check_pending,
       drop_relock, resume_dec, resume_chk, notify_pop, At
  <2>3. pc'[c] \notin {"build", "cas"}
    <3>1. CASE resume_chk(c)
      BY <1>0, <3>1 DEF resume_chk, Home
    <3>2. CASE run_pended_op(c)
      BY <1>0, <2>2, <3>2 DEF run_pended_op
    <3> QED
      BY <1>0, <1>1, <3>1, <3>2 DEF KernelStep, accept_suspend, accept_guard, accept_full, accept_pend,
         drop_pend_only, drop_swap_pending, drop_unlock, drop_check_pending,
         drop_relock, resume_dec, notify_pop
  <2>4. \A t \in Task : state'[t] = "Unborn" <=> state[t] = "Unborn"
    <3>1. CASE accept_full(c)
      <4>1. LinkReady(arg[c]) /\ Handing(c)
        BY <3>1 DEF accept_full, At, Handing, AcceptSteps
      <4>2. BeingWoken(arg[c]) /\ arg[c] \in Task
        BY <1>0, <4>1 DEF PlaceInv
      <4> QED
        BY <1>0, <4>1, <4>2 DEF LinkReady, BeingWoken
    <3>2. CASE run_pended_op(c) /\ insert_buffer # <<>>
      <4>1. LinkReady(Head(insert_buffer))
        BY <3>2 DEF run_pended_op
      <4>2. Head(insert_buffer) \in Task /\ InBuffer(Head(insert_buffer))
        BY <1>0, <3>2, TailPlaces DEF TypeOK, InBuffer, PlaceInv
      <4>3. BeingWoken(Head(insert_buffer))
        BY <1>0, <4>2 DEF PlaceInv
      <4> QED
        BY <1>0, <4>1, <4>2, <4>3 DEF LinkReady, BeingWoken
    <3>3. accept_full(c) \/ (run_pended_op(c) /\ insert_buffer # <<>>) \/ state' = state
      BY <1>1 DEF KernelStep, accept_suspend, accept_guard, accept_pend,
         drop_pend_only, drop_swap_pending, run_pended_op, drop_unlock, drop_check_pending,
         drop_relock, resume_dec, resume_chk, notify_pop
    <3> QED
      BY <3>1, <3>2, <3>3
  <2>5. \A t \in Task : t \in Ctx
    BY <1>0
  <2> QED
    BY <1>0, <2>1, <2>2, <2>3, <2>4, <2>5, QuotaFrame DEF Goal
<1>2. ASSUME NEW c \in Ctx, notify(c) PROVE Goal
  <2>1. UNCHANGED <<EXIST_TASK_NUM, seen, state>> /\ pc[c] \notin {"build", "cas"}
        /\ pc'[c] = "pop" /\ \A d \in Ctx \ {c} : pc'[d] = pc[d]
    BY <1>0, <1>2 DEF notify, UserCode, At, Home
  <2> QED
    BY <1>0, <2>1, QuotaFrame DEF Goal
<1>3. CASE PickNext
  <2>1. CASE (pendsv_entry \/ pick_suspend \/ pick_guard)
    <3>1. UNCHANGED <<EXIST_TASK_NUM, seen, state>> /\ \A t \in Task : pc'[t] = pc[t]
      BY <1>0, <2>1 DEF pendsv_entry, pick_suspend, pick_guard, Enter
    <3> QED
      BY <1>0, <3>1, QuotaFrame DEF Goal
  <2>2. CASE pick_body
    <3>1. Switches /\ Requeued \in Seq(Task)
      BY <1>0, <2>2, SomethingToRun, PickSwitches
    <3>2. /\ pc' = [pc EXCEPT ![Kern] = "swap"] /\ seen' = seen
          /\ CUR_TASK' \in Task /\ state' = SwitchedState(CUR_TASK')
          /\ EXIST_TASK_NUM' = IF state[CUR_TASK] = "Destructing"
                               THEN EXIST_TASK_NUM - 1 ELSE EXIST_TASK_NUM
      BY <3>1 DEF Switches
    <3>3. \A u \in Task : state'[u] = IF u = CUR_TASK' THEN "Running"
                    ELSE IF u = CUR_TASK /\ state[u] = "Running" THEN "Ready"
                    ELSE IF u = CUR_TASK /\ state[u] = "Destructing" THEN "Unborn"
                    ELSE state[u]
      BY <3>2 DEF SwitchedState
    <3>4. \A u \in Task : pc'[u] = pc[u]
      BY <1>0, <3>2
    <3>5. state[CUR_TASK'] \in {"Ready", "Running"}
      <4>1. PICK pos \in DOMAIN Requeued : CUR_TASK' = Requeued[pos]
        BY <3>1 DEF Switches
      <4>2. CASE state[CUR_TASK] = "Running"
        <5>1. Requeued = Append(ready_linked_list, CUR_TASK) /\ ready_linked_list \in Seq(Task)
          BY <1>0, <4>2 DEF Requeued, TypeOK
        <5>2. Has(ready_linked_list, CUR_TASK') \/ CUR_TASK' = CUR_TASK
          BY <1>0, <3>2, <4>1, <5>1, AppendPlaces DEF Has
        <5> QED
          BY <1>0, <3>2, <4>2, <5>2 DEF PlaceInv, InReady
      <4>3. CASE state[CUR_TASK] # "Running"
        BY <1>0, <3>2, <4>1, <4>3 DEF PlaceInv, InReady, Requeued, Has
      <4> QED
        BY <4>2, <4>3
    <3>6. CASE state[CUR_TASK] = "Destructing"
      <4>1. Alive' = Alive \ {CUR_TASK} /\ CUR_TASK \in Alive /\ Building' = Building
        BY <1>0, <3>3, <3>4, <3>5, <3>6 DEF Alive, Building
      <4>2. IsFiniteSet(Alive') /\ Cardinality(Alive') = Cardinality(Alive) - 1
        BY <1>0, <4>1, FS_RemoveElement DEF QuotaInv
      <4>3. EXIST_TASK_NUM' = EXIST_TASK_NUM - 1
        BY <3>2, <3>6
      <4> QED
        BY <1>0, <1>c, <3>2, <3>4, <4>1, <4>2, <4>3 DEF QuotaInv, Goal
    <3>7. CASE state[CUR_TASK] # "Destructing"
      <4>1. \A t \in Task : state'[t] = "Unborn" <=> state[t] = "Unborn"
        BY <3>3, <3>5, <3>7
      <4> QED
        BY <1>0, <3>2, <3>4, <3>7, <4>1, QuotaFrame DEF Goal
    <3> QED
      BY <3>6, <3>7
  <2> QED
    BY <1>3, <2>1, <2>2 DEF PickNext
<1>4. ASSUME NEW t \in Task, TaskStep(t) PROVE Goal
  <2>0. t = CUR_TASK
    BY <1>4, Contexts DEF TaskStep, yield_current_task, block_enqueue, quota_load, quota_cas,
       build, change_intrinsic_priority, At, Running
  <2>1. CASE yield_current_task(t) \/ \E p \in Level : change_intrinsic_priority(t, p)
    <3>1. UNCHANGED <<EXIST_TASK_NUM, seen, state>> /\ pc[t] \notin {"build", "cas"}
          /\ pc'[t] \notin {"build", "cas"} /\ \A d \in Task \ {t} : pc'[d] = pc[d]
      BY <1>0, <2>1 DEF yield_current_task, change_intrinsic_priority, At
    <3> QED
      BY <1>0, <3>1, QuotaFrame DEF Goal
  <2>2. CASE block_enqueue(t)
    <3>1. UNCHANGED <<EXIST_TASK_NUM, seen>> /\ pc[t] = "enqueue"
          /\ pc'[t] = "dec" /\ (\A d \in Task \ {t} : pc'[d] = pc[d])
          /\ state' = [state EXCEPT ![t] = "Blocked"]
      BY <1>0, <2>2 DEF block_enqueue, At
    <3>2. state[t] # "Unborn"
      BY <1>0, <2>0 DEF CurrentInv
    <3> QED
      BY <1>0, <3>1, <3>2, QuotaFrame DEF Goal
  <2>3. CASE quota_load(t)
    <3>1. /\ UNCHANGED <<EXIST_TASK_NUM, state>> /\ pc[t] = "quota"
          /\ seen' = [seen EXCEPT ![t] = EXIST_TASK_NUM]
          /\ pc' = [pc EXCEPT ![t] = IF EXIST_TASK_NUM < MAX_TASK_NUMBER THEN "cas" ELSE "run"]
      BY <2>3 DEF quota_load, At
    <3>2. Alive' = Alive /\ Building' = Building
      BY <1>0, <3>1 DEF Alive, Building
    <3>3. \A u \in Task : pc'[u] = "cas" => seen'[u] < MAX_TASK_NUMBER
      BY <1>0, <3>1 DEF QuotaInv
    <3> QED
      BY <1>0, <3>1, <3>2, <3>3 DEF QuotaInv, Goal
  <2>4. CASE quota_cas(t)
    <3>1. /\ pc[t] = "cas" /\ seen' = [seen EXCEPT ![t] = 0] /\ state' = state
      BY <2>4 DEF quota_cas, At
    <3>2. CASE EXIST_TASK_NUM' = EXIST_TASK_NUM
      <4>1. pc' = [pc EXCEPT ![t] = "quota"]
        BY <1>0, <2>4, <3>2 DEF quota_cas
      <4>2. Alive' = Alive /\ Building' = Building
        BY <1>0, <3>1, <4>1 DEF Alive, Building
      <4>3. \A u \in Task : pc'[u] = "cas" => seen'[u] < MAX_TASK_NUMBER
        BY <1>0, <3>1, <4>1 DEF QuotaInv
      <4> QED
        BY <1>0, <3>2, <4>2, <4>3 DEF QuotaInv, Goal
    <3>3. CASE EXIST_TASK_NUM' # EXIST_TASK_NUM
      <4>1. pc' = [pc EXCEPT ![t] = "build"] /\ EXIST_TASK_NUM' = EXIST_TASK_NUM + 1
            /\ EXIST_TASK_NUM = seen[t]
        BY <2>4, <3>3 DEF quota_cas
      <4>2. Alive' = Alive /\ Building' = Building \union {t} /\ t \notin Building
        BY <1>0, <3>1, <4>1 DEF Alive, Building
      <4>3. \A u \in Task : pc'[u] = "cas" => seen'[u] < MAX_TASK_NUMBER
        BY <1>0, <3>1, <4>1 DEF QuotaInv
      <4>4. EXIST_TASK_NUM < MAX_TASK_NUMBER
        BY <1>0, <3>1, <4>1 DEF QuotaInv
      <4>5. IsFiniteSet(Building') /\ Cardinality(Building') = Cardinality(Building) + 1
        BY <1>0, <4>2, FS_AddElement DEF QuotaInv
      <4> QED
        BY <1>0, <1>c, <4>1, <4>2, <4>3, <4>4, <4>5 DEF QuotaInv, Goal
    <3> QED
      BY <3>2, <3>3
  <2>5. CASE build(t)
    <3>1. pc[t] = "build" /\ seen' = seen
      BY <2>5 DEF build, At
    <3>2. t \in Building
      BY <3>1 DEF Building
    <3>3. CASE \E n \in Task : /\ state[n] = "Unborn"
                               /\ state' = [state EXCEPT ![n] = "Initializing"]
                               /\ pc' = [pc EXCEPT ![t] = "accept", ![n] = "run"]
                               /\ UNCHANGED EXIST_TASK_NUM
      <4>1. PICK n \in Task : /\ state[n] = "Unborn"
                              /\ state' = [state EXCEPT ![n] = "Initializing"]
                              /\ pc' = [pc EXCEPT ![t] = "accept", ![n] = "run"]
                              /\ UNCHANGED EXIST_TASK_NUM
        BY <3>3
      <4>2. n # t /\ pc[n] # "build"
        BY <1>0, <2>0, <4>1 DEF CurrentInv
      <4>3. /\ \A u \in Task : state'[u] = IF u = n THEN "Initializing" ELSE state[u]
            /\ \A u \in Task : pc'[u] = IF u = n THEN "run" ELSE IF u = t THEN "accept" ELSE pc[u]
        BY <1>0, <4>1
      <4>4. Alive' = Alive \union {n} /\ n \notin Alive
        BY <4>1, <4>3 DEF Alive
      <4>5. Building' = Building \ {t}
        BY <4>2, <4>3 DEF Building
      <4>6. IsFiniteSet(Alive') /\ Cardinality(Alive') = Cardinality(Alive) + 1
        BY <1>0, <4>4, FS_AddElement DEF QuotaInv
      <4>7. IsFiniteSet(Building') /\ Cardinality(Building') = Cardinality(Building) - 1
        BY <1>0, <3>2, <4>5, FS_RemoveElement DEF QuotaInv
      <4>8. \A u \in Task : pc'[u] = "cas" => seen'[u] < MAX_TASK_NUMBER
        BY <1>0, <3>1, <4>3 DEF QuotaInv
      <4> QED
        BY <1>0, <1>c, <4>1, <4>6, <4>7, <4>8 DEF QuotaInv, Goal
    <3>4. CASE pc' = [pc EXCEPT ![t] = "run"] /\ EXIST_TASK_NUM' = EXIST_TASK_NUM - 1 /\ state' = state
      <4>1. Building' = Building \ {t} /\ Alive' = Alive
        BY <1>0, <3>4 DEF Building, Alive
      <4>2. IsFiniteSet(Building') /\ Cardinality(Building') = Cardinality(Building) - 1
        BY <1>0, <3>2, <4>1, FS_RemoveElement DEF QuotaInv
      <4>3. \A u \in Task : pc'[u] = "cas" => seen'[u] < MAX_TASK_NUMBER
        BY <1>0, <3>1, <3>4 DEF QuotaInv
      <4> QED
        BY <1>0, <1>c, <3>4, <4>1, <4>2, <4>3 DEF QuotaInv, Goal
    <3> QED
      BY <2>5, <3>3, <3>4 DEF build
  <2> QED
    BY <1>4, <2>1, <2>2, <2>3, <2>4, <2>5 DEF TaskStep
<1>5. ASSUME NEW t \in Task, TaskCall(t) PROVE Goal
  <2>1. UNCHANGED <<EXIST_TASK_NUM, seen, state>> /\ pc[t] = "run"
        /\ pc'[t] \notin {"build", "cas"} /\ \A d \in Task \ {t} : pc'[d] = pc[d]
    BY <1>0, <1>5 DEF TaskCall, hold_guard, drop_guard, yield_current, block,
       change_current_priority, spawn, svc_destroy_current_task, UserCode, At, Home
  <2> QED
    BY <1>0, <2>1, QuotaFrame DEF Goal
<1>6. ASSUME NEW e \in Irq, irq_entry(e) \/ irq_return(e) PROVE Goal
  <2>1. UNCHANGED <<EXIST_TASK_NUM, seen, state>> /\ \A u \in Task : pc'[u] = pc[u]
    BY <1>0, <1>6, Contexts DEF irq_entry, irq_return, Enter
  <2> QED
    BY <1>0, <2>1, QuotaFrame DEF Goal
<1>7. CASE drop_current_task_from_svc
  <2>1. /\ pc[Kern] = "destroy" /\ pc' = [pc EXCEPT ![Kern] = "idle"]
        /\ state' = [state EXCEPT ![CUR_TASK] = "Destructing"] /\ UNCHANGED <<EXIST_TASK_NUM, seen>>
    BY <1>7 DEF drop_current_task_from_svc, At
  <2>2. state[CUR_TASK] = "Running"
    BY <1>0, <2>1 DEF CurrentInv
  <2>3. /\ \A u \in Task : state'[u] = "Unborn" <=> state[u] = "Unborn"
        /\ \A u \in Task : pc'[u] = pc[u]
    BY <1>0, <2>1, <2>2
  <2> QED
    BY <1>0, <2>1, <2>3, QuotaFrame DEF Goal
<1> QED
  BY <1>1, <1>2, <1>3, <1>4, <1>5, <1>6, <1>7 DEF Next, Goal
-----------------------------------------------------------------------------
(***************************************************************************)
(* A task that should preempt is not forgotten.                            *)
(***************************************************************************)
Checking == \E c \in Ctx : OnStack(c) /\ pc[c] \in {"chk", "outer_chk"}
Outranked == \E t \in Task : state[t] = "Ready" /\ ~(priority[t] >= priority[CUR_TASK])

\* A step that makes no task ready and changes no priority of a ready or of
\* the current task.
LEMMA PreemptFrame ==
    ASSUME PreemptInv, CUR_TASK' = CUR_TASK, PENDING_CTXT_SWITCH' = PENDING_CTXT_SWITCH,
           AboutToYield => AboutToYield',
           SUSPEND_CNT' = 0 => SUSPEND_CNT = 0 /\ (Checking => Checking'),
           priority'[CUR_TASK] = priority[CUR_TASK],
           \A t \in Task : state'[t] = "Ready" => state[t] = "Ready" /\ priority'[t] = priority[t]
    PROVE  PreemptInv'
<1>1. Outranked' => Outranked
  BY DEF Outranked
<1>2. PreemptInv <=> /\ PENDING_CTXT_SWITCH /\ SUSPEND_CNT = 0 => AboutToYield \/ Checking
                     /\ ALLOW_TASK_PREEMPTION => PENDING_CTXT_SWITCH \/ AboutToYield \/ ~Outranked
  BY DEF PreemptInv, Checking, Outranked
<1>3. PreemptInv' <=> /\ PENDING_CTXT_SWITCH' /\ SUSPEND_CNT' = 0 => AboutToYield' \/ Checking'
                      /\ ALLOW_TASK_PREEMPTION => PENDING_CTXT_SWITCH' \/ AboutToYield' \/ ~Outranked'
  BY DEF PreemptInv, Checking, Outranked
<1> HIDE DEF PreemptInv, Checking, Outranked, AboutToYield
<1> QED
  BY <1>1, <1>2, <1>3

\* Linking a task into the ready list asks for a context switch when it is
\* more urgent than the current one; the request is looked at later, since
\* who links holds a suspension.
LEMMA PreemptLink ==
    ASSUME TypeOK, PreemptInv, NEW t \in Task, LinkReady(t), CUR_TASK' = CUR_TASK,
           priority' = priority, SUSPEND_CNT' # 0, AboutToYield => AboutToYield'
    PROVE  PreemptInv'
<1>0. state \in [Task -> TaskState] /\ priority \in [Task -> Nat] /\ CUR_TASK \in Task
      /\ PENDING_CTXT_SWITCH \in BOOLEAN
  BY PriorityAssumption DEF TypeOK
<1>1. PENDING_CTXT_SWITCH => PENDING_CTXT_SWITCH'
  BY DEF LinkReady
<1>2. ALLOW_TASK_PREEMPTION /\ priority[t] < priority[CUR_TASK] => PENDING_CTXT_SWITCH'
  BY DEF LinkReady, should_preempt
<1>3. \A u \in Task : state'[u] = "Ready" => state[u] = "Ready" \/ u = t
  BY <1>0 DEF LinkReady
<1>4. ~(priority[t] < priority[CUR_TASK]) => priority[t] >= priority[CUR_TASK]
  BY <1>0
<1> HIDE DEF LinkReady, AboutToYield
<1> QED
  BY <1>1, <1>2, <1>3, <1>4 DEF PreemptInv

\* Every action keeps the request for a context switch that a more urgent
\* ready task is owed.
LEMMA PreemptStep ==
    ASSUME IInv, Next
    PROVE  PreemptInv'
<1> DEFINE Goal == PreemptInv'
<1>0. /\ TypeOK /\ SuspensionInv /\ PlaceInv /\ CurrentInv /\ ControlInv /\ PreemptInv /\ SuspensionStack
      /\ pc \in [Ctx -> Step] /\ arg \in [Ctx -> Task] /\ state \in [Task -> TaskState]
      /\ CUR_TASK \in Task /\ CUR_TASK \in Ctx /\ SUSPEND_CNT \in Nat
      /\ priority \in [Task -> Level]
      /\ Task \subseteq Ctx /\ Kern \in Ctx /\ Kern \notin Task
      /\ ret \in [Ctx -> {"run", "yield", "idle", "outer_dec"}]
  BY Contexts DEF IInv, SuspensionInv, TypeOK, Ctx
<1>y. ~pick_body => (AboutToYield => AboutToYield')
  BY YieldStep
<1> HIDE DEF Goal
<1> USE DEF queue, task, switch, frame, Goto
<1>1. ASSUME NEW c \in Ctx, KernelStep(c) PROVE Goal
  <2>0. Running(c) /\ CUR_TASK' = CUR_TASK /\ priority' = priority
        /\ \A d \in Ctx \ {c} : pc'[d] = pc[d]
    BY <1>0, <1>1 DEF KernelStep, accept_suspend, accept_guard, accept_full, accept_pend,
       drop_pend_only, drop_swap_pending, run_pended_op, drop_unlock, drop_check_pending,
       drop_relock, resume_dec, resume_chk, notify_pop, At
  <2>1. pc[c] # "pick_body"
    BY <1>1 DEF KernelStep, accept_suspend, accept_guard, accept_full, accept_pend,
       drop_pend_only, drop_swap_pending, run_pended_op, drop_unlock, drop_check_pending,
       drop_relock, resume_dec, resume_chk, notify_pop, At
  <2>2. AboutToYield => AboutToYield'
    <3>1. ~pick_body
      <4>1. c \in Task => ~Running(Kern)
        BY <2>0, Contexts DEF Running, ThreadMode
      <4>2. c \in Exc /\ c # Kern => ~Running(Kern)
        BY <2>0, Contexts DEF Running
      <4> QED
        BY <2>1, <4>1, <4>2 DEF pick_body, At, Ctx
    <3> QED
      BY <1>y, <3>1
  <2>3. OnStack(c)
    BY <2>0 DEF OnStack, Running, Active, Ctx
  <2>4. pc[c] \in SuspendedSteps => SUSPEND_CNT # 0
    <3>1. SUSPEND_CNT >= Own(c) /\ Own(c) \in Nat
      BY <1>0, <2>0, RunningOwns, OwnType DEF OwnNat
    <3>2. c \in Task => guards[c] \in {0, 1}
      BY <1>0 DEF TypeOK
    <3>3. pc[c] \in SuspendedSteps => Own(c) >= 1
      BY <3>2 DEF Own
    <3> QED
      BY <1>0, <3>1, <3>3
  <2>5. CASE accept_full(c)
    <3>1. LinkReady(arg[c]) /\ SUSPEND_CNT' = SUSPEND_CNT /\ pc[c] = "full"
      BY <2>5 DEF accept_full, At
    <3> QED
      BY <1>0, <2>0, <2>2, <2>4, <3>1, PreemptLink DEF Goal, SuspendedSteps, CallSteps
  <2>6. CASE run_pended_op(c) /\ insert_buffer # <<>>
    <3>1. LinkReady(Head(insert_buffer)) /\ SUSPEND_CNT' = SUSPEND_CNT /\ pc[c] = "drain"
      BY <2>6 DEF run_pended_op, At
    <3>2. Head(insert_buffer) \in Task
      BY <1>0, <2>6, TailPlaces DEF TypeOK, PlaceInv
    <3> QED
      BY <1>0, <2>0, <2>2, <2>4, <3>1, <3>2, PreemptLink DEF Goal, SuspendedSteps, CallSteps
  <2>7. CASE resume_dec(c)
    <3>1. pc'[c] \in {"chk", "outer_chk"} /\ UNCHANGED <<state, PENDING_CTXT_SWITCH>>
      BY <1>0, <2>7 DEF resume_dec
    <3>2. OnStack(c)' /\ Checking'
      BY <2>0, <2>3, <3>1 DEF OnStack, Active, Checking
    <3> QED
      BY <1>0, <2>0, <2>2, <3>1, <3>2 DEF Goal, PreemptInv, Checking
  <2>8. CASE resume_chk(c)
    <3>1. UNCHANGED <<state, PENDING_CTXT_SWITCH, SUSPEND_CNT>>
      BY <2>8 DEF resume_chk
    <3>2. PENDING_CTXT_SWITCH /\ SUSPEND_CNT = 0 => pendsv'
      BY <2>8, Zenon DEF resume_chk
    <3>3. pendsv' => AboutToYield'
      BY DEF AboutToYield
    <3> HIDE DEF AboutToYield
    <3> QED
      BY <1>0, <2>0, <2>2, <3>1, <3>2, <3>3 DEF Goal, PreemptInv
  <2>9. CASE \/ accept_suspend(c) \/ accept_guard(c) \/ accept_pend(c) \/ drop_pend_only(c)
             \/ drop_swap_pending(c) \/ (run_pended_op(c) /\ insert_buffer = <<>>) \/ drop_unlock(c)
             \/ drop_check_pending(c) \/ drop_relock(c) \/ notify_pop(c)
    <3>1. UNCHANGED <<state, PENDING_CTXT_SWITCH>> /\ SUSPEND_CNT' \in {SUSPEND_CNT, SUSPEND_CNT + 1}
          /\ pc[c] \notin {"chk", "outer_chk"}
      BY <2>9 DEF accept_suspend, accept_guard, accept_pend, drop_pend_only,
         drop_swap_pending, run_pended_op, drop_unlock, drop_check_pending, drop_relock, notify_pop,
         Suspend, At
    <3>2. Checking => Checking'
      BY <2>0, <3>1 DEF Checking, OnStack, Active
    <3> QED
      BY <1>0, <2>0, <2>2, <3>1, <3>2, PreemptFrame DEF Goal
  <2> QED
    BY <1>1, <2>5, <2>6, <2>7, <2>8, <2>9 DEF KernelStep
<1>2. ASSUME NEW c \in Ctx, notify(c) PROVE Goal
  <2>1. UNCHANGED <<state, priority, CUR_TASK, PENDING_CTXT_SWITCH>> /\ SUSPEND_CNT' = SUSPEND_CNT + 1
        /\ pc[c] = Home(c) /\ Running(c) /\ c # Kern
    BY <1>2 DEF notify, UserCode, At, Suspend
  <2>2. ~pick_body
    BY <2>1, Contexts DEF pick_body, At, Running, Ctx, ThreadMode
  <2> QED
    BY <1>0, <1>y, <2>1, <2>2, PreemptFrame DEF Goal
<1>3. CASE PickNext
  <2>1. CASE (pendsv_entry \/ pick_suspend \/ pick_guard)
    <3>1. UNCHANGED <<state, priority, CUR_TASK, PENDING_CTXT_SWITCH>>
      BY <2>1 DEF pendsv_entry, pick_suspend, pick_guard
    <3>2. pc[Kern] \in {"idle", "pick", "pick_guard"} /\ SUSPEND_CNT' \in {SUSPEND_CNT, SUSPEND_CNT + 1}
          /\ \A d \in Ctx \ {Kern} : pc'[d] = pc[d]
      BY <1>0, <2>1, Contexts DEF pendsv_entry, pick_suspend, pick_guard, ThreadMode, At, Suspend, Enter
    <3>3. ~pick_body
      BY <3>2 DEF pick_body, At
    <3>4. Checking => Checking'
      BY <3>1, <3>2 DEF Checking, OnStack, Active
    <3> QED
      BY <1>0, <1>y, <3>1, <3>2, <3>3, <3>4, PreemptFrame DEF Goal
  <2>2. CASE pick_body
    <3>1. Switches /\ Requeued \in Seq(Task)
      BY <1>0, <2>2, SomethingToRun, PickSwitches
    <3>2. /\ PENDING_CTXT_SWITCH' = FALSE /\ priority' = priority /\ CUR_TASK' \in Task
          /\ state' = SwitchedState(CUR_TASK')
          /\ \A i \in DOMAIN Requeued : priority[CUR_TASK'] <= priority[Requeued[i]]
      BY <3>1 DEF Switches
    <3>3. \A u \in Task : state'[u] = "Ready" =>
             state[u] = "Ready" \/ (u = CUR_TASK /\ state[u] = "Running")
      BY <3>2 DEF SwitchedState
    <3>4. \A u \in Task : state'[u] = "Ready" => Has(Requeued, u)
      <4>1. \A u \in Task : state[u] = "Ready" => Has(ready_linked_list, u)
        BY <1>0 DEF PlaceInv, InReady
      <4>2. ready_linked_list \in Seq(Task)
        BY <1>0 DEF TypeOK
      <4>3. CASE state[CUR_TASK] = "Running"
        BY <1>0, <3>3, <4>1, <4>2, <4>3, AppendPlaces DEF Requeued
      <4>4. CASE state[CUR_TASK] # "Running"
        BY <3>3, <4>1, <4>4 DEF Requeued
      <4> QED
        BY <4>3, <4>4
    <3>5. \A u \in Task : priority[u] \in Nat
      BY <1>0, PriorityAssumption
    <3>6. \A u \in Task : state'[u] = "Ready" => priority[u] >= priority[CUR_TASK']
      BY <3>2, <3>4, <3>5 DEF Has
    <3> QED
      BY <3>2, <3>6 DEF PreemptInv, Goal
  <2> QED
    BY <1>3, <2>1, <2>2 DEF PickNext
<1>4. ASSUME NEW t \in Task, TaskStep(t) PROVE Goal
  <2>0. t = CUR_TASK /\ pc[Kern] = "idle"
    BY <1>4, Contexts DEF TaskStep, yield_current_task, block_enqueue, quota_load, quota_cas,
       build, change_intrinsic_priority, At, Running, ThreadMode
  <2>1. UNCHANGED <<CUR_TASK, PENDING_CTXT_SWITCH, SUSPEND_CNT>>
        /\ pc[t] \notin {"chk", "outer_chk"}
    BY <1>4 DEF TaskStep, yield_current_task, block_enqueue, quota_load, quota_cas,
       build, change_intrinsic_priority, At
  <2>2. \A d \in Ctx : d = CUR_TASK \/ d \in Exc => d = t \/ pc'[d] = pc[d]
    <3>1. CASE build(t)
      <4>1. ASSUME NEW n \in Task, pc' = [pc EXCEPT ![t] = "accept", ![n] = "run"]
            PROVE  \A d \in Ctx : d = CUR_TASK \/ d \in Exc => d = t \/ pc'[d] = pc[d]
        BY <1>0, <2>0, <4>1, Contexts
      <4>2. CASE pc' = [pc EXCEPT ![t] = "run"]
        BY <1>0, <4>2
      <4> QED
        BY <3>1, <4>1, <4>2 DEF build
    <3>2. CASE ~build(t)
      BY <1>0, <1>4, <3>2 DEF TaskStep, yield_current_task, block_enqueue, quota_load, quota_cas,
         change_intrinsic_priority
    <3> QED
      BY <3>1, <3>2
  <2>3. AboutToYield => AboutToYield'
    BY <1>y, <2>0 DEF pick_body, At
  <2>4. Checking => Checking'
    BY <2>0, <2>1, <2>2 DEF Checking, OnStack, Active
  <2>5. CASE \E p \in Level : change_intrinsic_priority(t, p)
    <3>1. pc'[t] = "dec" /\ ret'[t] = "yield"
      BY <1>0, <2>5 DEF change_intrinsic_priority
    <3>2. AboutToYield'
      BY <2>0, <2>1, <3>1 DEF AboutToYield
    <3> QED
      BY <3>2 DEF PreemptInv, Goal
  <2>6. CASE ~\E p \in Level : change_intrinsic_priority(t, p)
    <3>1. priority'[CUR_TASK] = priority[CUR_TASK]
          /\ \A u \in Task : state'[u] = "Ready" => state[u] = "Ready" /\ priority'[u] = priority[u]
      <4>1. CASE build(t)
        <5>1. \A n \in Task : state[n] = "Unborn" => n # CUR_TASK
          BY <1>0 DEF CurrentInv
        <5>2. CASE UNCHANGED <<state, priority>>
          BY <5>2
        <5>3. ASSUME NEW n \in Task, state[n] = "Unborn",
                     state' = [state EXCEPT ![n] = "Initializing"],
                     priority' = [priority EXCEPT ![n] = InitialPriority[n]]
              PROVE  priority'[CUR_TASK] = priority[CUR_TASK]
                     /\ \A u \in Task : state'[u] = "Ready" => state[u] = "Ready" /\ priority'[u] = priority[u]
          BY <1>0, <5>1, <5>3
        <5> QED
          BY <4>1, <5>2, <5>3 DEF build
      <4>2. CASE ~build(t)
        BY <1>0, <1>4, <2>6, <4>2 DEF TaskStep, yield_current_task, block_enqueue, quota_load, quota_cas
      <4> QED
        BY <4>1, <4>2
    <3> QED
      BY <1>0, <2>1, <2>3, <2>4, <3>1, PreemptFrame DEF Goal
  <2> QED
    BY <2>5, <2>6
<1>5. ASSUME NEW t \in Task, TaskCall(t) PROVE Goal
  <2>0. t = CUR_TASK /\ pc[Kern] = "idle" /\ pc[t] = "run"
        /\ UNCHANGED <<state, priority, CUR_TASK, PENDING_CTXT_SWITCH>>
        /\ SUSPEND_CNT' \in {SUSPEND_CNT, SUSPEND_CNT + 1}
    BY <1>5, Contexts DEF TaskCall, hold_guard, drop_guard, yield_current, block, Suspend,
       change_current_priority, spawn, svc_destroy_current_task, UserCode, At, Running, Home, ThreadMode
  <2>1. \A d \in Ctx : d # t /\ d # Kern => pc'[d] = pc[d]
    BY <1>0, <1>5 DEF TaskCall, hold_guard, drop_guard, yield_current, block,
       change_current_priority, spawn, svc_destroy_current_task
  <2>2. AboutToYield => AboutToYield'
    BY <1>y, <2>0 DEF pick_body, At
  <2>3. Checking => Checking'
    BY <2>0, <2>1 DEF Checking, OnStack, Active
  <2> QED
    BY <1>0, <2>0, <2>2, <2>3, PreemptFrame DEF Goal
<1>6. ASSUME NEW e \in Irq, irq_entry(e) \/ irq_return(e) PROVE Goal
  <2>1. /\ UNCHANGED <<state, priority, CUR_TASK, PENDING_CTXT_SWITCH, SUSPEND_CNT>>
        /\ (\A d \in Ctx \ {e} : pc'[d] = pc[d]) /\ e \in Exc /\ e # Kern /\ e \in Ctx
        /\ pc[e] \in {"idle", "isr"}
    BY <1>0, <1>6, Contexts DEF irq_entry, irq_return, Enter, Ctx, At
  <2>2. ~pick_body
    BY <1>0, <2>1 DEF pick_body, At
  <2>3. Checking => Checking'
    BY <2>1 DEF Checking, OnStack, Active
  <2> QED
    BY <1>0, <1>y, <2>1, <2>2, <2>3, PreemptFrame DEF Goal
<1>7. CASE drop_current_task_from_svc
  <2>1. AboutToYield'
    BY <1>7 DEF drop_current_task_from_svc, AboutToYield
  <2> QED
    BY <2>1 DEF PreemptInv, Goal
<1> QED
  BY <1>1, <1>2, <1>3, <1>4, <1>5, <1>6, <1>7 DEF Next, Goal
-----------------------------------------------------------------------------
(***************************************************************************)
(* The theorems.                                                           *)
(***************************************************************************)
\* Scheduler::start establishes the inductive invariant.
LEMMA Initially == Init => IInv
<1> SUFFICES ASSUME Init PROVE IInv
  OBVIOUS
<1>0. /\ Idle \in Task /\ Main \in Task /\ Idle # Main /\ Idle \in Ctx /\ Main \in Ctx /\ Kern \in Ctx
      /\ Kern \notin Task /\ Task \subseteq Ctx /\ Kern \in Exc
      /\ \A c \in Ctx : c \in Task \/ c \in Exc
  BY TaskAssumption, Contexts DEF Ctx
<1>1. \A c \in Ctx : pc[c] = (IF c = Idle THEN "yield" ELSE IF c \in Task THEN "run" ELSE "idle")
                     /\ ret[c] = "run" /\ arg[c] = Idle
  BY DEF Init
<1>2. \A t \in Task : guards[t] = 0 /\ seen[t] = 0
                      /\ state[t] = (IF t = Idle THEN "Running" ELSE IF t = Main THEN "Ready" ELSE "Unborn")
  BY DEF Init
<1>3. \A e \in Exc : pc[e] = "idle" /\ entry[e] = 0
  BY <1>0, <1>1, Contexts DEF Init, Ctx
<1>4. TypeOK
  <2>1. <<Main>> \in Seq(Task) /\ <<>> \in Seq(Task)
    BY <1>0
  <2>2. state \in [Task -> TaskState]
    BY DEF Init, TaskState
  <2>3. pc \in [Ctx -> Step]
    BY DEF Init, Step
  <2>4. priority \in [Task -> Level]
    BY PriorityAssumption DEF Init
  <2>5. arg \in [Ctx -> Task] /\ ret \in [Ctx -> {"run", "yield", "idle", "outer_dec"}]
        /\ guards \in [Task -> {0, 1}] /\ seen \in [Task -> Nat] /\ entry \in [Exc -> Nat]
    BY <1>0 DEF Init
  <2> QED
    BY <1>0, <2>1, <2>2, <2>3, <2>4, <2>5 DEF TypeOK, Init
<1>5. \A c \in Ctx : Own(c) = 0
  BY <1>1, <1>2 DEF Own, SuspendedSteps, CallSteps
<1>6. CUR_TASK = Idle /\ SUSPEND_CNT = 0 /\ pc[Idle] = "yield" /\ pc[Kern] = "idle" /\ ~pendsv
      /\ locked = FALSE /\ pending = FALSE /\ insert_buffer = <<>> /\ ready_linked_list = <<Main>>
      /\ waiting = {} /\ PENDING_CTXT_SWITCH = FALSE /\ EXIST_TASK_NUM = 2
  BY <1>0, <1>1, <1>3 DEF Init
<1>7. SuspensionInv
  <2>1. SuspensionStack
    BY <1>0, <1>3, <1>5, <1>6 DEF SuspensionStack, Active, ThreadMode
  <2>2. SwitchedOutOwnNothing
    BY <1>0, <1>2, <1>5, <1>6 DEF SwitchedOutOwnNothing
  <2>3. \A c \in Ctx : ~Holder(c) /\ ~Pender(c) /\ ~Releasing(c)
    BY <1>1 DEF Holder, Pender, Releasing
  <2>4. ReadyQueueLock
    BY <1>6, <2>3 DEF ReadyQueueLock
  <2> QED
    BY <1>4, <2>1, <2>2, <2>4 DEF SuspensionInv
<1>8. ControlInv
  BY <1>0, <1>1, Contexts DEF ControlInv, ControlOf, KernSteps, IrqSteps, TaskSteps, CallSteps,
     DropSteps, NotifySteps, AcceptSteps
<1>9. PlaceInv
  <2>1. \A c \in Ctx : ~Handing(c)
    BY <1>1 DEF Handing, AcceptSteps
  <2>2. \A t \in Task : ~InBuffer(t) /\ ~BeingWoken(t) /\ (InReady(t) <=> t = Main)
    BY <1>2, <1>6 DEF InBuffer, InReady, Has, BeingWoken
  <2>3. Distinct(ready_linked_list) /\ Distinct(insert_buffer)
    BY <1>6 DEF Distinct
  <2> QED
    BY <1>0, <1>2, <1>6, <2>1, <2>2, <2>3 DEF PlaceInv
<1>10. CurrentInv
  BY <1>0, <1>1, <1>2, <1>6 DEF CurrentInv
<1>11. QuotaInv
  <2>1. Alive = {Idle} \union {Main} /\ Building = {}
    BY <1>0, <1>1, <1>2 DEF Alive, Building
  <2>2. IsFiniteSet({Idle}) /\ Cardinality({Idle}) = 1 /\ Main \notin {Idle}
    BY <1>0, FS_Singleton
  <2> DEFINE I == {Idle}
  <2> HIDE DEF I
  <2>3. IsFiniteSet(I \union {Main}) /\ Cardinality(I \union {Main}) = 1 + 1
    <3>1. IsFiniteSet(I) /\ Cardinality(I) = 1 /\ Main \notin I
      BY <2>2 DEF I
    <3> QED
      BY <3>1, FS_AddElement
  <2>4. IsFiniteSet(Alive) /\ Cardinality(Alive) = 2
    BY <2>1, <2>3 DEF I
  <2>5. IsFiniteSet(Building) /\ Cardinality(Building) = 0
    BY <2>1, FS_EmptySet
  <2>6. \A t \in Task : pc[t] # "cas"
    BY <1>0, <1>1
  <2> QED
    BY <1>6, <2>4, <2>5, <2>6, QuotaAssumption DEF QuotaInv
<1>12. PendedInv
  BY <1>6 DEF PendedInv
<1>13. PreemptInv
  BY <1>6 DEF PreemptInv, AboutToYield
<1>14. CoversCurrent
  BY <1>0, <1>5, <1>6 DEF CoversCurrent
<1> QED
  BY <1>7, <1>8, <1>9, <1>10, <1>11, <1>12, <1>13, <1>14 DEF IInv

\* The invariant depends on the variables of the module only.
LEMMA Unmoved == ASSUME IInv, UNCHANGED vars PROVE IInv'
<1> USE DEF vars, queue, task, switch, frame
<1>0. \A c \in Ctx : Own(c)' = Own(c)
  BY DEF Own
<1>1. TypeOK'
  BY DEF IInv, SuspensionInv, TypeOK
<1>2. CUR_TASK \in Ctx /\ Task \subseteq Ctx /\ Exc \subseteq Ctx
  BY DEF IInv, SuspensionInv, TypeOK, Ctx
<1> HIDE DEF Own
<1>3. SuspensionStack' /\ CoversCurrent'
  BY <1>0, <1>2 DEF IInv, SuspensionInv, SuspensionStack, ThreadMode, Active, CoversCurrent
<1>4. SwitchedOutOwnNothing'
  BY <1>0, <1>2 DEF IInv, SuspensionInv, SwitchedOutOwnNothing, Active
<1>5. ReadyQueueLock' /\ PendedInv'
  BY DEF IInv, SuspensionInv, ReadyQueueLock, PendedInv, Holder, Pender, Releasing, Below
<1>6. ControlInv'
  BY DEF IInv, ControlInv, ControlOf
<1>7. PlaceInv'
  BY DEF IInv, PlaceInv, Handing, InReady, InBuffer, BeingWoken
<1>8. CurrentInv'
  BY DEF IInv, CurrentInv, AboutToYield, Picking
<1>9. QuotaInv'
  BY DEF IInv, QuotaInv, Alive, Building
<1>10. PreemptInv'
  BY DEF IInv, PreemptInv, AboutToYield, Picking, OnStack, Active
<1> QED
  BY <1>1, <1>3, <1>4, <1>5, <1>6, <1>7, <1>8, <1>9, <1>10 DEF IInv, SuspensionInv

\* IInv is inductive.  The hypothesis excludes Scheduler::change_current_priority
\* called with the scheduler suspended, which no caller in the kernel does and after
\* which its yield would find the scheduler suspended in pick_next.
THEOREM Invariance ==
    ASSUME ~SuspendedPriorityChange PROVE Spec => []IInv
<1>1. ASSUME IInv, [Next]_vars PROVE IInv'
  <2>1. CASE Next
    <3>1. TypeOK' /\ ControlInv' /\ ReadyQueueLock' /\ PendedInv' /\ PlaceInv' /\ CurrentInv'
          /\ QuotaInv' /\ PreemptInv'
      BY <1>1, <2>1, TypeStep, ControlStep, LockStep, PlaceStep, CurrentStep, QuotaStep, PreemptStep
    <3>2. SuspensionStack' /\ CoversCurrent' /\ SwitchedOutOwnNothing'
      BY <1>1, <2>1, SuspensionStep
    <3> QED
      BY <3>1, <3>2 DEF IInv, SuspensionInv
  <2>2. CASE UNCHANGED vars
    BY <1>1, <2>2, Unmoved
  <2> QED
    BY <1>1, <2>1, <2>2
<1> QED
  BY <1>1, Initially, PTL DEF Spec

\* Type correctness for any number of tasks, nested interrupts and priorities.
THEOREM TypeCorrectness ==
    ASSUME ~SuspendedPriorityChange PROVE Spec => []TypeOK
<1>1. IInv => TypeOK
  BY DEF IInv, SuspensionInv
<1> QED
  BY <1>1, Invariance, PTL

\* SUSPEND_CNT is what the contexts on the stack own together, a task that is
\* switched out owns nothing, and the lock of the ready queue has one holder.
THEOREM SuspensionsAddUp ==
    ASSUME ~SuspendedPriorityChange PROVE Spec => []SuspensionInv
<1>1. IInv => SuspensionInv
  BY DEF IInv
<1> QED
  BY <1>1, Invariance, PTL

\* None of the panics and unreachable branches of scheduler.rs and soft_lock.rs
\* is reached: pick_next never finds the scheduler suspended, the queue locked or
\* nothing to run, and insert_buffer never overflows.
THEOREM KernelNeverGivesUp ==
    ASSUME ~SuspendedPriorityChange PROVE Spec => []NeverDies
<1>1. IInv => NeverDies
  <2> SUFFICES ASSUME IInv, NEW c \in Ctx PROVE pc[c] # "die"
    BY DEF NeverDies
  <2>1. ControlOf(c) /\ (c = Kern \/ c \in Irq \/ c \in Task)
    BY Contexts DEF IInv, ControlInv, Ctx
  <2> QED
    BY <2>1 DEF ControlOf, KernSteps, IrqSteps, TaskSteps, NotifySteps, AcceptSteps, DropSteps
<1> QED
  BY <1>1, Invariance, PTL

\* EXIST_TASK_NUM counts the task structs and the quotas taken for tasks being
\* built, and never exceeds MAX_TASK_NUMBER.
THEOREM QuotaIsExact ==
    ASSUME ~SuspendedPriorityChange PROVE Spec => []QuotaExact
<1>1. IInv => QuotaExact
  BY DEF IInv, QuotaInv, QuotaExact, Alive, Building
<1> QED
  BY <1>1, Invariance, PTL

\* Every task struct is in exactly one place, the one its state says.
THEOREM TasksInOnePlace ==
    ASSUME ~SuspendedPriorityChange PROVE Spec => []OnePlace
<1>1. IInv => OnePlace
  <2> SUFFICES ASSUME IInv, NEW t \in Task
               PROVE  /\ Cardinality(Places(t)) =
                            (IF state[t] \in {"Unborn", "Running", "Destructing"} THEN 0 ELSE 1)
                      /\ Contains(ready_linked_list, t) <=> state[t] = "Ready"
                      /\ t \in waiting => state[t] = "Blocked"
                      /\ state[t] \in {"Running", "Destructing"} => t = CUR_TASK
                      /\ t = CUR_TASK => state[t] \notin {"Unborn", "Initializing"}
    BY DEF OnePlace
  <2>0. PlaceInv /\ CurrentInv /\ TypeOK /\ ready_linked_list \in Seq(Task) /\ insert_buffer \in Seq(Task)
        /\ waiting \subseteq Task /\ state[t] \in TaskState
    BY DEF IInv, SuspensionInv, TypeOK
  <2> DEFINE Elsewhere == ~InReady(t) /\ ~InBuffer(t) /\ t \notin waiting
                          /\ \A c \in Ctx : ~(Handing(c) /\ arg[c] = t)
  <2>1. Places(t) = {} <=> Elsewhere
    BY DEF Places, InHand, InReady, InBuffer, Has, Handing, AcceptSteps
  <2>2. CASE state[t] \in {"Unborn", "Running", "Destructing"}
    <3>1. Elsewhere
      BY <2>0, <2>2 DEF PlaceInv, BeingWoken
    <3>2. Cardinality(Places(t)) = 0
      BY <2>1, <3>1, FS_EmptySet
    <3> QED
      BY <2>0, <2>2, <3>2 DEF CurrentInv, PlaceInv, Contains, InReady, Has
  <2>3. CASE state[t] \notin {"Unborn", "Running", "Destructing"}
    <3>1. Places(t) # {}
      BY <2>0, <2>1, <2>3 DEF PlaceInv, BeingWoken, TaskState
    <3>2. \A x, y \in Places(t) : x = y
      <4>1. \A i, j \in DOMAIN ready_linked_list :
               ready_linked_list[i] = t /\ ready_linked_list[j] = t => i = j
        BY <2>0 DEF PlaceInv, Distinct
      <4>2. \A i, j \in DOMAIN insert_buffer : insert_buffer[i] = t /\ insert_buffer[j] = t => i = j
        BY <2>0 DEF PlaceInv, Distinct
      <4>3. \A c, d \in InHand(t) : c = d
        BY <2>0 DEF PlaceInv, InHand, Handing, AcceptSteps
      <4>4. InReady(t) => ~InBuffer(t) /\ InHand(t) = {} /\ t \notin waiting
        BY <2>0 DEF PlaceInv, BeingWoken, InHand, Handing, AcceptSteps
      <4>5. InBuffer(t) => InHand(t) = {} /\ t \notin waiting
        BY <2>0 DEF PlaceInv, InHand, Handing, AcceptSteps
      <4>6. t \in waiting => InHand(t) = {}
        BY <2>0 DEF PlaceInv, InHand, Handing, AcceptSteps
      <4>7. CASE InReady(t)
        <5>1. Places(t) = {<<"ready", i>> : i \in {j \in DOMAIN ready_linked_list : ready_linked_list[j] = t}}
          BY <4>4, <4>7 DEF Places, InBuffer, Has
        <5> QED
          BY <4>1, <5>1
      <4>8. CASE InBuffer(t)
        <5>1. Places(t) = {<<"buffer", i>> : i \in {j \in DOMAIN insert_buffer : insert_buffer[j] = t}}
          BY <4>4, <4>5, <4>8 DEF Places, InReady, Has
        <5> QED
          BY <4>2, <5>1
      <4>9. CASE t \in waiting
        <5>1. Places(t) = {<<"waiting", 0>>}
          BY <4>4, <4>5, <4>6, <4>9 DEF Places, InReady, InBuffer, Has
        <5> QED
          BY <5>1
      <4>10. CASE ~InReady(t) /\ ~InBuffer(t) /\ t \notin waiting
        <5>1. Places(t) = {<<"hand", c>> : c \in InHand(t)}
          BY <4>10 DEF Places, InReady, InBuffer, Has
        <5> QED
          BY <4>3, <5>1
      <4> QED
        BY <4>7, <4>8, <4>9, <4>10
    <3>3. PICK x : Places(t) = {x}
      BY <3>1, <3>2
    <3>4. Cardinality(Places(t)) = 1
      BY <3>3, FS_Singleton
    <3> QED
      BY <2>0, <2>3, <3>4 DEF CurrentInv, PlaceInv, Contains, InReady, Has
  <2> QED
    BY <2>2, <2>3
<1> QED
  BY <1>1, Invariance, PTL

\* A task that runs undisturbed is at least as urgent as every ready task, and
\* nothing is left in insert_buffer.
THEOREM PreemptionNotMissed ==
    ASSUME ~SuspendedPriorityChange PROVE Spec => []NoMissedPreemption
<1>1. IInv => NoMissedPreemption
  <2> SUFFICES ASSUME IInv, Undisturbed
               PROVE  /\ insert_buffer = <<>> /\ ~pending /\ ~locked
                      /\ ALLOW_TASK_PREEMPTION =>
                            \A t \in Task : state[t] = "Ready" => priority[t] >= priority[CUR_TASK]
    BY DEF NoMissedPreemption
  <2>0. /\ TypeOK /\ SuspensionInv /\ SuspensionStack /\ SwitchedOutOwnNothing /\ ReadyQueueLock
        /\ PendedInv /\ PreemptInv /\ CUR_TASK \in Task /\ CUR_TASK \in Ctx
    BY DEF IInv, SuspensionInv, TypeOK, Ctx
  <2>1. /\ ThreadMode /\ ~pendsv /\ SUSPEND_CNT = 0
        /\ pc[CUR_TASK] \notin {"chk", "outer_chk", "yield"} /\ \A e \in Exc : pc[e] = "idle"
    BY DEF Undisturbed, ThreadMode
  <2>2. \A t \in Task : Own(t) = 0
    BY <2>0, <2>1 DEF SuspensionStack, SwitchedOutOwnNothing
  <2>3. \A c \in Ctx : ~Holder(c) /\ ~Pender(c) /\ ~Releasing(c)
    <3> SUFFICES ASSUME NEW c \in Ctx, Holder(c) \/ Pender(c) \/ Releasing(c) PROVE FALSE
      OBVIOUS
    <3>1. c \notin Exc
      BY <2>1 DEF Holder, Pender, Releasing
    <3>2. Own(c) >= 1
      BY <2>0, HolderOwns
    <3> QED
      BY <2>2, <3>1, <3>2 DEF Ctx
  <2>4. ~locked /\ ~pending /\ insert_buffer = <<>>
    BY <2>0, <2>3 DEF ReadyQueueLock, PendedInv, Holder, Pender
  <2>5. ~AboutToYield
    <3>1. pc[CUR_TASK] # "dec"
      <4>1. pc[CUR_TASK] = "dec" => Own(CUR_TASK) >= 1
        <5>1. guards[CUR_TASK] \in {0, 1}
          BY <2>0 DEF TypeOK
        <5> QED
          BY <5>1 DEF Own, SuspendedSteps, CallSteps
      <4> QED
        BY <2>0, <2>2, <4>1
    <3> QED
      BY <2>1, <3>1, Contexts DEF AboutToYield, Picking
  <2>6. ~\E c \in Ctx : OnStack(c) /\ pc[c] \in {"chk", "outer_chk"}
    BY <2>1 DEF OnStack, Active
  <2>7. ~PENDING_CTXT_SWITCH
    BY <2>0, <2>1, <2>5, <2>6 DEF PreemptInv
  <2> QED
    BY <2>0, <2>4, <2>5, <2>7 DEF PreemptInv
<1> QED
  BY <1>1, Invariance, PTL
=============================================================================
