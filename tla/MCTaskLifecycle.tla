-------------------------- MODULE MCTaskLifecycle --------------------------
(***************************************************************************)
(* The task lifecycle for TLC: a static stack, a dynamic one of limit 3    *)
(* and one without a limit.                                                *)
(***************************************************************************)
EXTENDS TaskLifecycle

MCStackConfig ==
    {[dynamic |-> FALSE, limit |-> NoLimit],
     [dynamic |-> TRUE, limit |-> 3],
     [dynamic |-> TRUE, limit |-> NoLimit]}

Slots == Permutations(Slot)
=============================================================================
