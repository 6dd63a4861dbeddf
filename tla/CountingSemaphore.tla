------------------------- MODULE CountingSemaphore -------------------------
(***************************************************************************)
(* What a semaphore promises its callers, without wait queues, interrupts  *)
(* or compare_exchange: every call takes effect once, at one moment        *)
(* between its begin and its return, when the counter allows it; only a    *)
(* call that may not block can come back without effect, and only if the   *)
(* counter is at its limit at one such moment.                             *)
(***************************************************************************)
EXTENDS Naturals

CONSTANTS Ctx, max_count, init_count

VARIABLES
    count,
    phase    \* of each caller: what it asked for and how far it got

Call == [dir : {"up", "down"}, blocking : BOOLEAN]
Phase == {<<"out">>} \union ({"asked", "served"} \X Call)

Room(d) == IF d = "down" THEN count ELSE max_count - count

Init ==
    /\ count = init_count
    /\ phase = [c \in Ctx |-> <<"out">>]

Ask(c, k) ==
    /\ phase[c] = <<"out">>
    /\ phase' = [phase EXCEPT ![c] = <<"asked", k>>]
    /\ UNCHANGED count

Serve(c, k) ==
    /\ phase[c] = <<"asked", k>> /\ Room(k.dir) > 0
    /\ phase' = [phase EXCEPT ![c] = <<"served", k>>]
    /\ count' = IF k.dir = "down" THEN count - 1 ELSE count + 1

Refuse(c, k) ==
    /\ phase[c] = <<"asked", k>> /\ Room(k.dir) = 0 /\ ~k.blocking
    /\ phase' = [phase EXCEPT ![c] = <<"out">>]
    /\ UNCHANGED count

Return(c, k) ==
    /\ phase[c] = <<"served", k>>
    /\ phase' = [phase EXCEPT ![c] = <<"out">>]
    /\ UNCHANGED count

Next == \E c \in Ctx, k \in Call : Ask(c, k) \/ Serve(c, k) \/ Refuse(c, k) \/ Return(c, k)

Spec == Init /\ [][Next]_<<count, phase>>
=============================================================================
