---------------------------- MODULE BoundedFifo ----------------------------
(***************************************************************************)
(* What a channel promises its callers, without semaphores or a ring       *)
(* buffer: a call takes effect once, at one moment between its begin and   *)
(* its return; elements come out in the order they went in, at most N are  *)
(* inside, and only a call that may not block can be refused, when the     *)
(* calls that are still in progress may have used up the room or the       *)
(* elements.                                                               *)
(***************************************************************************)
EXTENDS Naturals, Sequences, FiniteSets

CONSTANTS Ctx, Data, N

VARIABLES
    q,
    phase    \* of each caller: <<"out">>, <<"asked", call, data>>, <<"served", call, data>>

Push == {"push", "try_push"}
Pop == {"pop", "try_pop"}
Others(c) == Cardinality({d \in Ctx \ {c} : phase[d] # <<"out">>})

Init ==
    /\ q = <<>>
    /\ phase = [c \in Ctx |-> <<"out">>]

Ask(c, call, x) ==
    /\ phase[c] = <<"out">>
    /\ phase' = [phase EXCEPT ![c] = <<"asked", call, x>>]
    /\ UNCHANGED q

ServePush(c, call, x) ==
    /\ call \in Push /\ phase[c] = <<"asked", call, x>>
    /\ Len(q) < N
    /\ q' = Append(q, x)
    /\ phase' = [phase EXCEPT ![c] = <<"served", call, x>>]

ServePop(c, call, x) ==
    /\ call \in Pop /\ phase[c] = <<"asked", call, x>>
    /\ q # <<>>
    /\ q' = Tail(q)
    /\ phase' = [phase EXCEPT ![c] = <<"served", call, Head(q)>>]

Refuse(c, call, x) ==
    /\ phase[c] = <<"asked", call, x>>
    /\ \/ call = "try_push" /\ Len(q) + Others(c) >= N
       \/ call = "try_pop" /\ Len(q) <= Others(c)
    /\ phase' = [phase EXCEPT ![c] = <<"out">>]
    /\ UNCHANGED q

Return(c, call, x) ==
    /\ phase[c] = <<"served", call, x>>
    /\ phase' = [phase EXCEPT ![c] = <<"out">>]
    /\ UNCHANGED q

Next ==
    \E c \in Ctx, call \in Push \union Pop, x \in Data :
        \/ Ask(c, call, x) \/ ServePush(c, call, x) \/ ServePop(c, call, x)
        \/ Refuse(c, call, x) \/ Return(c, call, x)

Spec == Init /\ [][Next]_<<q, phase>>
=============================================================================
