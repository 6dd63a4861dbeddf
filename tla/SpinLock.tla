----------------------------- MODULE SpinLock -----------------------------
(***************************************************************************)
(* sync/spin_lock.rs with what its locks hold beside the lock itself: the  *)
(* scheduler suspended, interrupts masked through interrupt/mask.rs and    *)
(* interrupt/declare.rs, or both (sync/lock_traits.rs).  Tasks and         *)
(* interrupt handlers share locks and mask counters on one core; between   *)
(* any two instructions an unmasked interrupt can arrive, and while the    *)
(* scheduler is not suspended another task can be switched to.             *)
(*                                                                         *)
(* A context in the middle of a call is at an instruction of it, for the   *)
(* n-th condition of the lock that the call is about.  The bit and the     *)
(* counter of an interrupt change in two steps; the history variable torn  *)
(* keeps the interrupts for which two contexts were in them at once.       *)
(***************************************************************************)
EXTENDS Integers, Sequences, SequencesExt, FiniteSets

CONSTANTS
    Task, Irq,
    Urgency,      \* of each interrupt; a more urgent one nests
    Lock,
    Conditions,   \* what each lock holds, in order: Spin holds nothing
                  \* SpinSchedSafe <<"sched">>, SpinIrqSafe<(I, J)> <<I, J>>,
                  \* SpinSchedIrqSafe<I> <<"sched", I>>
    Nesting,      \* what each context may take: <<the locks it has, the next>>
    Uncontended   \* the locks taken with lock_now_or_die

Ctx == Task \union Irq
\* What can be held: the scheduler, an IRQ, or AllIrqExceptSvc.
Condition == Irq \union {"sched", "all"}
\* What a call holds of "all" is the scheduler, too.
Suspending == {"sched", "all"}
\* What has a counter and is masked: an IRQ or, through BASEPRI, all of them.
Maskable == Irq \union {"all"}

ASSUME SpinAssumption ==
    /\ IsFiniteSet(Task) /\ IsFiniteSet(Irq) /\ Task \intersect Irq = {}
    /\ Irq \intersect {"sched", "all"} = {}
    /\ Urgency \in [Irq -> Nat \ {0}]
    /\ Conditions \in [Lock -> Seq(Condition)]
    /\ \A c \in Ctx : Nesting[c] \subseteq (SUBSET Lock) \X Lock
    /\ Uncontended \subseteq Lock

VARIABLES
    stack,        \* the task on the CPU and the handlers that interrupted it
    pos,          \* where each context is in the call it makes
    guards,       \* the locks each context has guards of
    raw_spin,     \* the locks that are taken
    masked,       \* the interrupts masked in the NVIC
    basepri,      \* BASEPRI keeps every interrupt and PendSV away
    mask_cnt,     \* the counter of each IRQ and of AllIrqExceptSvc
    SUSPEND_CNT,
    torn          \* history: the interrupts whose mask and counter came apart

held == <<masked, basepri, mask_cnt, SUSPEND_CNT>>
spinvars == <<stack, pos, guards, raw_spin, held, torn>>

Current == Last(stack)

-----------------------------------------------------------------------------
Call == {"try_lock", "lock", "lock_now_or_die"}
Outside == [op |-> "outside"]
\* The call k about lock l is at instruction i for the n-th condition.
Instruction(i, n, k, l) == [op |-> i, n |-> n, by |-> k, on |-> l]

\* What follows a try_lock that returned None, and the drop of a guard: lock
\* asks again at once.
Refused(k, l) ==
    CASE k = "lock" -> Instruction("is_locked", 0, k, l)
      [] k = "lock_now_or_die" -> Instruction("die", 0, k, l)
      [] OTHER -> Outside

\* Holdable::hold of the n-th condition, or the lock when all are held.
Hold(n, k, l) ==
    IF n > Len(Conditions[l]) THEN Instruction("acquire", n, k, l)
    ELSE IF Conditions[l][n] \in Suspending THEN Instruction("suspend", n, k, l)
    ELSE Instruction("mask", n, k, l)

\* Holdable::force_unhold from the n-th condition down to the first.
Unhold(n, k, l) ==
    IF n = 0 THEN Refused(k, l)
    ELSE IF Conditions[l][n] = "sched" THEN Instruction("resume", n, k, l)
    ELSE Instruction("fetch_sub", n, k, l)

\* The context on the CPU is at instruction i.
Executes(c, i) == c = Current /\ pos[c].op = i
Nth(c) == Conditions[pos[c].on][pos[c].n]
Continue(c, p) == pos' = [pos EXCEPT ![c] = p]
\* The same condition goes on with instruction i; it is held; it is released.
Proceed(c, i) == Continue(c, Instruction(i, pos[c].n, pos[c].by, pos[c].on))
HoldNext(c) == Continue(c, Hold(pos[c].n + 1, pos[c].by, pos[c].on))
UnholdNext(c) == Continue(c, Unhold(pos[c].n - 1, pos[c].by, pos[c].on))
\* After an unmask, or none: AllIrqExceptSvc also resumes the scheduler.
Unmasked(c) == IF Nth(c) = "all" THEN Proceed(c, "resume") ELSE UnholdNext(c)

\* Between the change of the mask and that of the counter.
Between(c, h) == pos[c].op \in {"fetch_add", "unmask"} /\ Nth(c) = h
\* c works on the mask or the counter while somebody else is between the two.
Disturbs(c) == \E d \in Ctx \ {c} : Between(d, Nth(c))
Tear(c) == torn' = IF Disturbs(c) THEN torn \union {Nth(c)} ELSE torn
\* All is well again when the interrupt is masked anew, outside of its handler.
TearOrMend(c) == torn' = IF Disturbs(c) THEN torn \union {Nth(c)}
                         ELSE IF Nth(c) \in Range(stack) THEN torn ELSE torn \ {Nth(c)}

-----------------------------------------------------------------------------
(***************************************************************************)
(* Faults: what a plausible mistake in spin_lock.rs or mask.rs would make  *)
(* of an operator below.  No specification uses them.                      *)
(***************************************************************************)
\* the counter is not looked at before unmasking
fetch_sub_always_unmasks(c) ==
    /\ Executes(c, "fetch_sub")
    /\ mask_cnt' = [mask_cnt EXCEPT ![Nth(c)] = @ - 1]
    /\ Proceed(c, "unmask")
    /\ Tear(c)
    /\ UNCHANGED <<stack, guards, raw_spin, masked, basepri, SUSPEND_CNT>>
\* fetch_sub returns the value before it, and is taken for the one after
fetch_sub_of_new_count(c) ==
    /\ Executes(c, "fetch_sub")
    /\ mask_cnt' = [mask_cnt EXCEPT ![Nth(c)] = @ - 1]
    /\ IF mask_cnt[Nth(c)] = 0 THEN Proceed(c, "unmask") ELSE Unmasked(c)
    /\ Tear(c)
    /\ UNCHANGED <<stack, guards, raw_spin, masked, basepri, SUSPEND_CNT>>
\* the fields of the guard in the other order: conditions first, then the lock
drop_holds_first(c) ==
    /\ c = Current /\ pos[c] = Outside
    /\ \/ \E l \in guards[c] : /\ guards' = [guards EXCEPT ![c] = @ \ {l}]
                               /\ Continue(c, Unhold(Len(Conditions[l]), "drop", l))
                               /\ UNCHANGED raw_spin
       \/ \E l \in raw_spin : /\ \A d \in Ctx : l \notin guards[d]
                              /\ raw_spin' = raw_spin \ {l}
                              /\ UNCHANGED <<pos, guards>>
    /\ UNCHANGED <<stack, held, torn>>
-----------------------------------------------------------------------------
(***************************************************************************)
(* Who runs.                                                               *)
(***************************************************************************)
interrupt(i) ==
    /\ i \notin masked /\ ~basepri
    /\ i \notin Range(stack)
    /\ Current \in Irq => Urgency[i] > Urgency[Current]
    /\ stack' = Append(stack, i)
    /\ UNCHANGED <<pos, guards, raw_spin, held, torn>>
return(i) ==
    /\ i = Current /\ pos[i] = Outside /\ guards[i] = {}
    /\ stack' = Front(stack)
    /\ UNCHANGED <<pos, guards, raw_spin, held, torn>>
\* PendSV picks another task, if no handler is active, the scheduler is not
\* suspended and BASEPRI lets it through.
switch(t) ==
    /\ Len(stack) = 1 /\ SUSPEND_CNT = 0 /\ ~basepri
    /\ t # Current
    /\ stack' = <<t>>
    /\ UNCHANGED <<pos, guards, raw_spin, held, torn>>

-----------------------------------------------------------------------------
(***************************************************************************)
(* Taking and giving back a lock.                                          *)
(***************************************************************************)
begin(c) ==
    /\ c = Current /\ pos[c] = Outside
    /\ \E l \in Lock, k \in Call :
           /\ <<guards[c], l>> \in Nesting[c]
           /\ k = "lock_now_or_die" => l \in Uncontended
           /\ Continue(c, Instruction("is_locked", 0, k, l))
    /\ UNCHANGED <<stack, guards, raw_spin, held, torn>>

\* The early return of try_lock.
is_locked(c) ==
    /\ Executes(c, "is_locked")
    /\ IF pos[c].on \in raw_spin THEN Continue(c, Refused(pos[c].by, pos[c].on))
                                ELSE HoldNext(c)
    /\ UNCHANGED <<stack, guards, raw_spin, held, torn>>

\* raw_spin.try_lock().  When somebody else has come first, the conditions are
\* released as _held is dropped.
acquire(c) ==
    LET l == pos[c].on
    IN  /\ Executes(c, "acquire")
        /\ IF l \in raw_spin
           THEN /\ UnholdNext(c)
                /\ UNCHANGED <<guards, raw_spin>>
           ELSE /\ raw_spin' = raw_spin \union {l}
                /\ guards' = [guards EXCEPT ![c] = @ \union {l}]
                /\ Continue(c, Outside)
        /\ UNCHANGED <<stack, held, torn>>

\* A guard is dropped, any of them: first the lock is released, then the
\* conditions.  The same order as in force_unlock.
drop(c) ==
    /\ c = Current /\ pos[c] = Outside
    /\ \E l \in guards[c] :
           /\ raw_spin' = raw_spin \ {l}
           /\ guards' = [guards EXCEPT ![c] = @ \ {l}]
           /\ Continue(c, Unhold(Len(Conditions[l]), "drop", l))
    /\ UNCHANGED <<stack, held, torn>>

-----------------------------------------------------------------------------
(***************************************************************************)
(* The conditions, one access at a time: SUSPEND_CNT, the NVIC or BASEPRI, *)
(* and the mask counter.                                                   *)
(***************************************************************************)
suspend(c) ==
    /\ Executes(c, "suspend")
    /\ SUSPEND_CNT' = SUSPEND_CNT + 1
    /\ IF Nth(c) = "all" THEN Proceed(c, "mask") ELSE HoldNext(c)
    /\ UNCHANGED <<stack, guards, raw_spin, masked, basepri, mask_cnt, torn>>
resume(c) ==
    /\ Executes(c, "resume")
    /\ SUSPEND_CNT' = SUSPEND_CNT - 1
    /\ UnholdNext(c)
    /\ UNCHANGED <<stack, guards, raw_spin, masked, basepri, mask_cnt, torn>>

\* NVIC::mask, or BASEPRI raised.
mask(c) ==
    /\ Executes(c, "mask")
    /\ IF Nth(c) = "all" THEN basepri' = TRUE /\ UNCHANGED masked
                         ELSE masked' = masked \union {Nth(c)} /\ UNCHANGED basepri
    /\ Proceed(c, "fetch_add")
    /\ TearOrMend(c)
    /\ UNCHANGED <<stack, guards, raw_spin, mask_cnt, SUSPEND_CNT>>
fetch_add(c) ==
    /\ Executes(c, "fetch_add")
    /\ mask_cnt' = [mask_cnt EXCEPT ![Nth(c)] = @ + 1]
    /\ HoldNext(c)
    /\ Tear(c)
    /\ UNCHANGED <<stack, guards, raw_spin, masked, basepri, SUSPEND_CNT>>

\* The counter as it was decides about unmasking.
fetch_sub(c) ==
    /\ Executes(c, "fetch_sub")
    /\ mask_cnt' = [mask_cnt EXCEPT ![Nth(c)] = @ - 1]
    /\ IF mask_cnt[Nth(c)] = 1 THEN Proceed(c, "unmask") ELSE Unmasked(c)
    /\ Tear(c)
    /\ UNCHANGED <<stack, guards, raw_spin, masked, basepri, SUSPEND_CNT>>
unmask(c) ==
    /\ Executes(c, "unmask")
    /\ IF Nth(c) = "all" THEN basepri' = FALSE /\ UNCHANGED masked
                         ELSE masked' = masked \ {Nth(c)} /\ UNCHANGED basepri
    /\ Unmasked(c)
    /\ Tear(c)
    /\ UNCHANGED <<stack, guards, raw_spin, mask_cnt, SUSPEND_CNT>>

-----------------------------------------------------------------------------
SpinInit ==
    /\ \E t \in Task : stack = <<t>>
    /\ pos = [c \in Ctx |-> Outside]
    /\ guards = [c \in Ctx |-> {}]
    /\ raw_spin = {} /\ masked = {} /\ basepri = FALSE
    /\ mask_cnt = [h \in Maskable |-> 0]
    /\ SUSPEND_CNT = 0
    /\ torn = {}

execute(c) ==
    \/ is_locked(c) \/ suspend(c) \/ mask(c) \/ fetch_add(c) \/ acquire(c)
    \/ fetch_sub(c) \/ unmask(c) \/ resume(c)
SpinNext ==
    \/ \E c \in Ctx : begin(c) \/ execute(c) \/ drop(c)
    \/ \E i \in Irq : interrupt(i) \/ return(i)
    \/ \E t \in Task : switch(t)

SpinSpec == SpinInit /\ [][SpinNext]_spinvars

-----------------------------------------------------------------------------
InEffect(h) == CASE h = "sched" -> SUSPEND_CNT > 0
                 [] h = "all"   -> basepri /\ SUSPEND_CNT > 0
                 [] OTHER       -> h \in masked
IsMasked(h) == IF h = "all" THEN basepri ELSE h \in masked
HoldsOneOf(l, H) == \E n \in DOMAIN Conditions[l] : Conditions[l][n] \in H
\* The locks of a context: those it has guards of, and the one that its call
\* is about.
Locks(c) == guards[c] \union IF pos[c] = Outside THEN {} ELSE {pos[c].on}

(***************************************************************************)
(* "The associated IRQ will be masked until the guard is dropped", "The    *)
(* scheduler will be suspended until the guard is dropped" (spin_lock.rs,  *)
(* l. 318 and 329): while a guard exists, everything its lock promises to  *)
(* hold is in effect, however the holds of other guards on the same        *)
(* scheduler, interrupt or counter begin and end meanwhile.  The exception *)
(* is an interrupt whose mask and counter another context has worked on    *)
(* while somebody was between the two instructions of __disable_recursive  *)
(* or __enable_recursive (declare.rs, l. 37 and 45): a SpinIrqSafe leaves  *)
(* the scheduler running there.  The suspension and AllIrqExceptSvc have   *)
(* no exception.                                                           *)
(***************************************************************************)
ConditionsHeld ==
    \A c \in Ctx : \A l \in guards[c] : \A j \in DOMAIN Conditions[l] :
        InEffect(Conditions[l][j]) \/ Conditions[l][j] \in torn

\* Nobody spins for a lock whose owner cannot run meanwhile: a handler finds
\* no lock taken that it takes, but for an interrupt that is torn, and a task
\* does not spin with the scheduler suspended or for a lock of its own.  And no
\* lock_now_or_die finds its lock taken.
SpinnersCanProceed ==
    /\ Executes(Current, "is_locked") /\ pos[Current].on \in raw_spin
                                     /\ pos[Current].by = "lock" =>
           \/ /\ Current \in Task /\ SUSPEND_CNT = 0 /\ ~basepri
              /\ pos[Current].on \notin guards[Current]
           \/ Current \in torn
    /\ ~Executes(Current, "die")

\* Everybody gives back in full, also when guards overlap, when a try_lock
\* fails with the conditions already held, and when mask and counter came
\* apart: what no guard and no call is about is neither masked nor counted.
NothingLeftBehind ==
    LET Involved(H) == \E c \in Ctx : \E l \in Locks(c) : HoldsOneOf(l, H)
    IN  /\ ~Involved(Suspending) => SUSPEND_CNT = 0
        /\ \A h \in Maskable : ~Involved({h}) => ~IsMasked(h) /\ mask_cnt[h] = 0

-----------------------------------------------------------------------------
(***************************************************************************)
(* What the code leaves to the users of its locks, and without which a     *)
(* context can spin for ever.                                              *)
(***************************************************************************)
Uses(c, l) == \E S \in SUBSET Lock : <<S, l>> \in Nesting[c]
Preempts(i, c) == i # c /\ (c \in Irq => Urgency[i] > Urgency[c])

\* A lock is not taken twice, and a lock that leaves the scheduler running is
\* not taken by a task that has one that suspends it.
NestingOrder ==
    \A c \in Ctx : \A S \in SUBSET Lock, l \in Lock : <<S, l>> \in Nesting[c] =>
        /\ l \notin S
        /\ c \in Task /\ (\E q \in S : HoldsOneOf(q, Suspending)) => HoldsOneOf(l, Suspending)
\* A lock shared with a handler masks the interrupt, as the documentation of
\* SpinIrqSafe and irq! has it.
SharedWithHandlers ==
    \A i \in Irq, c \in Ctx : \A l \in Lock :
        Preempts(i, c) /\ Uses(i, l) /\ Uses(c, l) => HoldsOneOf(l, {i, "all"})
\* lock_now_or_die is for the kernel: of its locks with conditions, those that
\* handlers take, too, mask all interrupts (semihosting.rs).
NoContention ==
    \A l \in Uncontended : /\ HoldsOneOf(l, Suspending)
                           /\ \A i \in Irq : Uses(i, l) => HoldsOneOf(l, {"all"})
Discipline == NestingOrder /\ SharedWithHandlers /\ NoContention

-----------------------------------------------------------------------------
(***************************************************************************)
(* The inductive invariant, for any use of the locks.                      *)
(***************************************************************************)
\* A call at p has the j-th condition of its lock, one of H, in effect; ops are
\* the instructions between which the condition they are for is.
InForce(p, j, ops, H) ==
    /\ p # Outside /\ j \in DOMAIN Conditions[p.on] /\ Conditions[p.on][j] \in H
    /\ j < p.n \/ (j = p.n /\ p.op \in ops)
\* So has a context the j-th condition of lock l.
Has(c, l, j, ops, H) ==
    \/ l \in guards[c] /\ j \in DOMAIN Conditions[l] /\ Conditions[l][j] \in H
    \/ pos[c] # Outside /\ l = pos[c].on /\ InForce(pos[c], j, ops, H)
WhileSuspended == {"mask", "fetch_add", "fetch_sub", "unmask", "resume"}
Suspends(c, l, j) == Has(c, l, j, WhileSuspended, Suspending)
Masks(h, c, l, j) == Has(c, l, j, {"fetch_sub"}, {h})
Suspensions == {x \in Ctx \X Lock \X Nat : Suspends(x[1], x[2], x[3])}
Maskings(h) == {x \in Ctx \X Lock \X Nat : Masks(h, x[1], x[2], x[3])}

\* The instruction that p is at is one for its condition.
WellPlaced(p) ==
    LET h == Conditions[p.on][p.n]
    IN  \/ p = Outside
        \/ /\ p \in [op : {"is_locked", "acquire", "suspend", "resume", "mask", "unmask",
                            "fetch_add", "fetch_sub", "die"},
                      n : Nat, by : Call \union {"drop"}, on : Lock]
           /\ p.op \in {"is_locked", "die"} => p.n = 0
           /\ p.op = "acquire" => p.n = Len(Conditions[p.on]) + 1
           /\ p.op \notin {"is_locked", "die", "acquire"} => p.n \in DOMAIN Conditions[p.on]
           /\ p.op \in {"suspend", "resume"} => h \in Suspending
           /\ p.op \in {"mask", "unmask", "fetch_add", "fetch_sub"} => h \in Maskable
           /\ p.by = "lock_now_or_die" => p.on \in Uncontended
           /\ p.op = "die" => p.by = "lock_now_or_die"
SpinTypeOK ==
    /\ stack \in Seq(Ctx) /\ guards \in [Ctx -> SUBSET Lock]
    /\ DOMAIN pos = Ctx /\ \A c \in Ctx : WellPlaced(pos[c])
    /\ raw_spin \subseteq Lock /\ masked \subseteq Irq /\ basepri \in BOOLEAN
    /\ mask_cnt \in [Maskable -> Int] /\ SUSPEND_CNT \in Int /\ torn \subseteq Irq

\* A task, and handlers of growing urgency on top of it.
StackOK ==
    /\ stack # <<>> /\ stack[1] \in Task
    /\ \A b \in DOMAIN stack : b > 1 => stack[b] \in Irq
    /\ \A a, b \in DOMAIN stack : a < b => Preempts(stack[b], stack[a])
\* A call about a lock of one's own gets no further than to find it taken.
OwnersOK ==
    /\ \A l \in raw_spin : \E c \in Ctx : l \in guards[c]
    /\ \A c \in Ctx : guards[c] \subseteq raw_spin
    /\ \A c, d \in Ctx : c # d => guards[c] \intersect guards[d] = {}
    /\ \A c \in Ctx : pos[c] # Outside /\ pos[c].on \in guards[c] =>
                          pos[c].op \in {"is_locked", "die"}
\* What is taken is what may be.
NestingOK ==
    \A c \in Ctx : /\ \A l \in Locks(c) : Uses(c, l)
                   /\ pos[c] # Outside /\ pos[c].by \in Call =>
                          <<guards[c], pos[c].on>> \in Nesting[c]
SuspensionsOK == IsFiniteSet(Suspensions) /\ SUSPEND_CNT = Cardinality(Suspensions)
\* Unless h is torn, at most one context is between its mask and its counter,
\* it is masked when somebody counts or is between, and nobody counts when it
\* is about to be unmasked.
MaskingOK(h) ==
    /\ IsFiniteSet(Maskings(h)) /\ mask_cnt[h] = Cardinality(Maskings(h))
    /\ IsMasked(h) => Maskings(h) # {} \/ \E c \in Ctx : Between(c, h)
    /\ h \notin torn =>
           /\ Maskings(h) # {} \/ (\E c \in Ctx : Between(c, h)) => IsMasked(h)
           /\ \A c \in Ctx : pos[c].op = "unmask" /\ Nth(c) = h => Maskings(h) = {}
           /\ \A c, d \in Ctx : Between(c, h) /\ Between(d, h) => c = d
MaskingsOK == \A h \in Maskable : MaskingOK(h)
\* All interrupts are masked at once on the CPU alone.
BetweenAllOK == \A c \in Ctx : Between(c, "all") => c = Current
\* Whoever is not on the stack: a handler that is done, a task that was
\* switched out and does not suspend the scheduler.
OffStackOK ==
    \A c \in Ctx : (\A a \in DOMAIN stack : stack[a] # c) =>
        /\ c \in Irq => pos[c] = Outside /\ guards[c] = {}
        /\ \A l \in Lock, j \in Nat : ~Suspends(c, l, j)
SpinInv ==
    /\ SpinTypeOK /\ StackOK /\ OwnersOK /\ NestingOK
    /\ SuspensionsOK /\ MaskingsOK /\ BetweenAllOK /\ OffStackOK

(***************************************************************************)
(* What is kept with the discipline: a handler has found nobody with a     *)
(* lock that it takes, unless its interrupt is torn and the lock does not  *)
(* mask all, and lock_now_or_die does not come back.                       *)
(***************************************************************************)
Over(c, b) == \E a \in b .. Len(stack) : stack[a] = c
InterruptedOK ==
    \A b \in DOMAIN stack, c \in Ctx : b > 1 /\ ~Over(c, b) =>
        \A l \in guards[c] : Uses(stack[b], l) => stack[b] \in torn /\ ~HoldsOneOf(l, {"all"})
NowOK == \A c \in Ctx : pos[c] # Outside /\ pos[c].by = "lock_now_or_die" =>
                            pos[c].op \notin {"die", "fetch_sub", "unmask", "resume"}
DisciplineInv == SpinInv /\ InterruptedOK /\ NowOK
=============================================================================
