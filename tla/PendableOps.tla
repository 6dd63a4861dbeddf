---------------------------- MODULE PendableOps ----------------------------
(***************************************************************************)
(* What SoftLock (src/sync/soft_lock.rs) promises to its callers, without  *)
(* saying how.  Operations on the protected content are requested by       *)
(* contexts that preempt one another.  An operation may take effect later  *)
(* than the call that requested it, but it takes effect exactly once, and  *)
(* by the time no context is inside the lock any more, none is left over.  *)
(***************************************************************************)
CONSTANT Op          \* the operations, one for each call of with_access

VARIABLES requested, \* operations whose call has begun
          applied,   \* operations that have taken effect on the content
          busy       \* whether some context is inside with_access

vars == <<requested, applied, busy>>

Init == requested = {} /\ applied = {} /\ busy = FALSE

Request(o) ==
    /\ o \notin requested
    /\ requested' = requested \union {o}
    /\ busy' = TRUE
    /\ UNCHANGED applied

Apply(o) ==
    /\ busy
    /\ o \in requested \ applied
    /\ applied' = applied \union {o}
    /\ UNCHANGED <<requested, busy>>

\* The last context leaves; only allowed when nothing is left to apply.
Quiesce ==
    /\ busy
    /\ applied = requested
    /\ busy' = FALSE
    /\ UNCHANGED <<requested, applied>>

Next == (\E o \in Op : Request(o) \/ Apply(o)) \/ Quiesce

Spec == Init /\ [][Next]_vars
=============================================================================
