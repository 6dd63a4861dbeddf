----------------------------- MODULE MCSoftLock -----------------------------
(***************************************************************************)
(* Model checking of SoftLock: three nesting levels, so that an interrupt  *)
(* is itself preempted while it pends, and four operations, so that the    *)
(* holder is caught by a new operation after it has drained the first.     *)
(***************************************************************************)
EXTENDS SoftLock

CONSTANTS o1, o2, o3, o4

MCOp == {o1, o2, o3, o4}
=============================================================================
