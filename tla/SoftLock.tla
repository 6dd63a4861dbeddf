------------------------------ MODULE SoftLock ------------------------------
(***************************************************************************)
(* The soft lock of src/sync/soft_lock.rs: the lock under every queue of   *)
(* the kernel.  It never blocks.  The first context to come gets full      *)
(* access; a context that preempts the holder gets pend-only access,       *)
(* leaves its operation in a buffer, and the holder runs it on its behalf. *)
(*                                                                         *)
(* Contexts are nesting levels of one core: level 0 is the outermost user  *)
(* of the lock (a task that has suspended the scheduler, or the PendSV     *)
(* handler), each higher level an interrupt of higher priority.  A level   *)
(* can start at any moment between two steps of a lower one and finishes   *)
(* before the lower one goes on ("the preempting thread of execution       *)
(* always finishes before returning to the preempted").                    *)
(*                                                                         *)
(* The content is abstracted to the operations applied to it, and the      *)
(* buffer of the pend-only accessor (insert_buffer, notify_cnt,            *)
(* pending_count, delete_buffer) to the set of operations waiting in it.   *)
(***************************************************************************)
EXTENDS Naturals

CONSTANTS MaxLevel,  \* the highest interrupt nesting level
          Op         \* one identity for every call of with_access

ASSUME LevelAssumption == MaxLevel \in Nat
ASSUME OpAssumption == Op # {}

VARIABLES
    locked,     \* SoftLock::locked: a FullAccessor is active
    pending,    \* SoftLock::pending: some operation has been pended
    buffer,     \* operations written through the PendOnlyAccessor
    applied,    \* how often each operation has been applied to the content
    todo,       \* operations not called yet
    pc,         \* the step each level is at, "idle" when it is not inside
    op,         \* the operation each level was called with
    lock_held   \* AccessGuard::lock_held of each level

vars == <<locked, pending, buffer, applied, todo, pc, op, lock_held>>

Level == 0 .. MaxLevel

Step == {"idle", "access", "swap", "drain", "unlock", "check", "relock", "hang"}

Init ==
    /\ locked = FALSE
    /\ pending = FALSE
    /\ buffer = {}
    /\ applied = [o \in Op |-> 0]
    /\ todo = Op
    /\ pc = [l \in Level |-> "idle"]
    /\ op = [l \in Level |-> CHOOSE o \in Op : TRUE]
    /\ lock_held = [l \in Level |-> FALSE]

\* Level l is the one the core executes.
Running(l) == pc[l] # "idle" /\ \A k \in Level : k > l => pc[k] = "idle"

\* Level l can start: it and everything above it is idle.
CanStart(l) == \A k \in Level : k >= l => pc[k] = "idle"

At(l, s) == Running(l) /\ pc[l] = s

Goto(l, s) == pc' = [pc EXCEPT ![l] = s]

Apply(o) == applied' = [applied EXCEPT ![o] = @ + 1]

-----------------------------------------------------------------------------
(***************************************************************************)
(* Faults: what a plausible mistake in soft_lock.rs would make of an       *)
(* action below.  Each one breaks the property PROJECT.json pairs it with; *)
(* no specification uses them.                                             *)
(***************************************************************************)
\* The guard stores to `locked` without looking at the previous value.
guard_without_exchange(l, o) ==
    /\ CanStart(l)
    /\ o \in todo
    /\ todo' = todo \ {o}
    /\ op' = [op EXCEPT ![l] = o]
    /\ lock_held' = [lock_held EXCEPT ![l] = TRUE]
    /\ locked' = TRUE
    /\ UNCHANGED <<pending, buffer, applied>>

\* The pend-only guard is dropped without raising the flag.
drop_pend_only_without_flag(l) ==
    /\ At(l, "swap") /\ ~lock_held[l]
    /\ Goto(l, "idle")
    /\ UNCHANGED <<locked, pending, buffer, applied, todo, op, lock_held>>

\* The flag is swapped but its old value is not looked at.
drop_swap_without_run(l) ==
    /\ At(l, "swap") /\ lock_held[l]
    /\ pending' = FALSE
    /\ Goto(l, "unlock")
    /\ UNCHANGED <<locked, buffer, applied, todo, op, lock_held>>

\* The operation is run before it is removed, and the removal is lost.
run_pended_op_peek(l) ==
    /\ At(l, "drain")
    /\ \A o \in Op : applied[o] < 2
    /\ \/ /\ buffer = {}
          /\ Goto(l, "unlock")
          /\ UNCHANGED <<buffer, applied>>
       \/ \E o \in buffer :
             /\ Apply(o)
             /\ UNCHANGED <<buffer, pc>>
    /\ UNCHANGED <<locked, pending, todo, op, lock_held>>

\* The holder leaves without releasing the lock.
drop_without_unlock(l) ==
    /\ At(l, "unlock")
    /\ Goto(l, "check")
    /\ UNCHANGED <<locked, pending, buffer, applied, todo, op, lock_held>>

\* The holder does not look at the flag again after the release.
drop_without_check(l) ==
    /\ At(l, "check")
    /\ Goto(l, "idle")
    /\ UNCHANGED <<locked, pending, buffer, applied, todo, op, lock_held>>

-----------------------------------------------------------------------------

(***************************************************************************)
(* AccessGuard::guard: the compare_exchange on `locked` decides between    *)
(* full and pend-only access.                                              *)
(***************************************************************************)
guard(l, o) ==
    /\ CanStart(l)
    /\ o \in todo
    /\ todo' = todo \ {o}
    /\ op' = [op EXCEPT ![l] = o]
    /\ lock_held' = [lock_held EXCEPT ![l] = ~locked]
    /\ locked' = TRUE
    /\ UNCHANGED <<pending, buffer, applied>>

\* with_access takes either kind of access.
with_access(l, o) == guard(l, o) /\ Goto(l, "access")

\* must_with_full_access is for code that nobody can have preempted while
\* holding the lock, i.e. the outermost level; it spins on pend-only access.
must_with_full_access(o) ==
    /\ guard(0, o)
    /\ Goto(0, IF locked THEN "hang" ELSE "access")

\* The caller's closure with the accessor that get_access returned: it works
\* on the content, or it leaves the operation in the buffer and the guard's
\* drop is still to set the pending flag.
full_access(l) ==
    /\ At(l, "access") /\ lock_held[l]
    /\ Apply(op[l])
    /\ Goto(l, "swap")
    /\ UNCHANGED <<locked, pending, buffer, todo, op, lock_held>>

pend_only_access(l) ==
    /\ At(l, "access") /\ ~lock_held[l]
    /\ buffer' = buffer \union {op[l]}
    /\ Goto(l, "swap")
    /\ UNCHANGED <<locked, pending, applied, todo, op, lock_held>>

(***************************************************************************)
(* AccessGuard::drop, one action for each access to a shared word.         *)
(***************************************************************************)
drop_pend_only(l) ==
    /\ At(l, "swap") /\ ~lock_held[l]
    /\ pending' = TRUE
    /\ Goto(l, "idle")
    /\ UNCHANGED <<locked, buffer, applied, todo, op, lock_held>>

drop_swap_pending(l) ==
    /\ At(l, "swap") /\ lock_held[l]
    /\ pending' = FALSE
    /\ Goto(l, IF pending THEN "drain" ELSE "unlock")
    /\ UNCHANGED <<locked, buffer, applied, todo, op, lock_held>>

\* One iteration of the callee's `while let Some(..) = buffer.dequeue()`.
run_pended_op(l) ==
    /\ At(l, "drain")
    /\ \/ /\ buffer = {}
          /\ Goto(l, "unlock")
          /\ UNCHANGED <<buffer, applied>>
       \/ \E o \in buffer :
             /\ buffer' = buffer \ {o}
             /\ Apply(o)
             /\ UNCHANGED pc
    /\ UNCHANGED <<locked, pending, todo, op, lock_held>>

drop_unlock(l) ==
    /\ At(l, "unlock")
    /\ locked' = FALSE
    /\ Goto(l, "check")
    /\ UNCHANGED <<pending, buffer, applied, todo, op, lock_held>>

drop_check_pending(l) ==
    /\ At(l, "check")
    /\ Goto(l, IF pending THEN "relock" ELSE "idle")
    /\ UNCHANGED <<locked, pending, buffer, applied, todo, op, lock_held>>

\* The sanity compare_exchange; on failure the code spins in `loop {}`.
drop_relock(l) ==
    /\ At(l, "relock")
    /\ locked' = TRUE
    /\ Goto(l, IF locked THEN "hang" ELSE "swap")
    /\ UNCHANGED <<pending, buffer, applied, todo, op, lock_held>>

Advance(l) ==
    \/ full_access(l)
    \/ pend_only_access(l)
    \/ drop_pend_only(l)
    \/ drop_swap_pending(l)
    \/ run_pended_op(l)
    \/ drop_unlock(l)
    \/ drop_check_pending(l)
    \/ drop_relock(l)

Next ==
    \/ \E l \in Level, o \in Op : with_access(l, o)
    \/ \E o \in Op : must_with_full_access(o)
    \/ \E l \in Level : Advance(l)

Spec == Init /\ [][Next]_vars

\* The core always executes some step of the context it is in.
Fairness == WF_vars(\E l \in Level : Advance(l))

FairSpec == Spec /\ Fairness

-----------------------------------------------------------------------------
(***************************************************************************)
(* Properties                                                              *)
(***************************************************************************)
TypeOK ==
    /\ locked \in BOOLEAN
    /\ pending \in BOOLEAN
    /\ buffer \subseteq Op
    /\ applied \in [Op -> Nat]
    /\ todo \subseteq Op
    /\ pc \in [Level -> Step]
    /\ op \in [Level -> Op]
    /\ lock_held \in [Level -> BOOLEAN]

\* Level l is inside the content with full access.
Holds(l) == lock_held[l] /\ pc[l] \in {"access", "swap", "drain", "unlock"}

\* Level l has pend-only access and has not set the pending flag yet.
Pends(l) == ~lock_held[l] /\ pc[l] \in {"access", "swap"}

\* Level l has released the lock and is still deciding whether to retake it.
Releasing(l) == pc[l] \in {"check", "relock"}

(***************************************************************************)
(* Two contexts never have full access at the same time, although the      *)
(* holder gives the lock up and retakes it while it drains (drop,          *)
(* l. 179-212).                                                            *)
(***************************************************************************)
MutualExclusion == \A k, l \in Level : Holds(k) /\ Holds(l) => k = l

(***************************************************************************)
(* None of the two `loop {}` is ever entered: the outermost level always   *)
(* gets full access (must_get_full_access, l. 157-162) and the sanity      *)
(* compare_exchange always finds the lock free (drop, l. 202-210).         *)
(***************************************************************************)
NeverHangs == \A l \in Level : pc[l] # "hang"

(***************************************************************************)
(* "We keep checking until we are certain that we miss no operation"       *)
(* (drop, l. 176-178): once no context is inside the lock, the lock is     *)
(* free, nothing is pended, and every operation that was ever requested    *)
(* has been applied exactly once.                                          *)
(***************************************************************************)
MissesNoOperation ==
    (\A l \in Level : pc[l] = "idle") =>
        /\ ~locked /\ ~pending /\ buffer = {}
        /\ \A o \in Op : applied[o] = (IF o \in todo THEN 0 ELSE 1)

(***************************************************************************)
(* While somebody is inside the lock an operation is either waiting in one *)
(* place or done once: the holder and an interrupt that takes the lock     *)
(* between its release and its check (drop, l. 191-194) never both run it. *)
(***************************************************************************)
Waiting(o) == o \in buffer \/ \E l \in Level : pc[l] = "access" /\ op[l] = o

ExactlyOnce ==
    \A o \in Op \ todo : applied[o] = (IF Waiting(o) THEN 0 ELSE 1)

\* The soft lock implements the abstract promise of PendableOps.
Promise == INSTANCE PendableOps
           WITH requested <- Op \ todo,
                applied <- {o \in Op : applied[o] = 1},
                busy <- \E l \in Level : pc[l] # "idle"

ImplementsPromise == Promise!Spec

(***************************************************************************)
(* Every operation that is requested is eventually applied, whichever      *)
(* level requested it and however often its holder is preempted.           *)
(***************************************************************************)
EventuallyApplied == \A o \in Op : (o \notin todo) ~> (applied[o] = 1)

(***************************************************************************)
(* The inductive invariant of the proofs (BaseProofs).                     *)
(***************************************************************************)
LockInv ==
    /\ locked <=> \E l \in Level : Holds(l)
    /\ \A k, l \in Level : Holds(k) /\ Holds(l) => k = l
    /\ \A l \in Level : Pends(l) => \E k \in Level : k < l /\ Holds(k)
    /\ \A k, l \in Level : Holds(k) /\ Releasing(l) => l < k
    /\ \A l \in Level : pc[l] \in {"drain", "unlock", "check", "relock"} => lock_held[l]
    /\ NeverHangs

PendInv ==
    /\ buffer # {} => \/ pending
                      \/ \E l \in Level : pc[l] = "drain"
                      \/ \E l \in Level : Pends(l) /\ pc[l] = "swap"
    /\ pending => \E l \in Level : Holds(l) \/ Releasing(l)

OnceInv ==
    /\ \A o \in todo : applied[o] = 0 /\ ~Waiting(o)
    /\ \A l \in Level : pc[l] = "access" => op[l] \notin buffer
    /\ \A k, l \in Level : pc[k] = "access" /\ pc[l] = "access" /\ op[k] = op[l] => k = l
    /\ ExactlyOnce

IInv == TypeOK /\ LockInv /\ PendInv /\ OnceInv
=============================================================================
