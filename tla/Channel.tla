------------------------------ MODULE Channel ------------------------------
(***************************************************************************)
(* sync/channel.rs: a ring buffer between two counting semaphores.  Tasks  *)
(* push and pop, tasks and interrupt handlers try to.  The semaphores are  *)
(* what CountingSemaphore promises (Semaphore is shown to implement it):   *)
(* each call of theirs takes effect at one moment.                         *)
(*                                                                         *)
(* The ring buffer is external (heapless::mpmc::MpMcQueue).  Each cell has *)
(* a sequence number; a call claims a position and then, in a second step, *)
(* moves the element and hands the cell over with a new sequence number.   *)
(* Positions count modulo Modulus, as they do in a byte.                   *)
(***************************************************************************)
EXTENDS Integers, Sequences, FiniteSets

CONSTANTS
    Task,
    NIrq,          \* interrupt handlers are 1 .. NIrq, the more urgent higher
    N,             \* capacity, a power of two
    Modulus,       \* of the positions, a multiple of 2 * N
    Data, NoItem,  \* elements, and none
    Calls          \* the calls each context makes

Irq == 1 .. NIrq
Ctx == Task \union Irq

ASSUME ChannelAssumption ==
    /\ NIrq \in Nat /\ Task \intersect Irq = {} /\ IsFiniteSet(Task)
    /\ N \in Nat \ {0, 1} /\ Modulus \in Nat \ {0} /\ Modulus % (2 * N) = 0
    /\ NoItem \notin Data
    /\ Calls \in [Ctx -> SUBSET {"push", "try_push", "pop", "try_pop"}]
    /\ \A e \in Irq : Calls[e] \subseteq {"try_push", "try_pop"}

VARIABLES
    pc,                        \* the step each context is at
    call,                      \* and the call it makes,
    item,                      \* with the element it brings or takes away
    sem_empty, sem_occupied,   \* the counters of the two semaphores
    sequence, cell,            \* of the buffer: the cells,
    enqueue_pos, dequeue_pos,  \* the next positions,
    pos                        \* and the position each context has claimed

caller == <<pc, call, item>>
sems == <<sem_empty, sem_occupied>>
buffer == <<sequence, cell, enqueue_pos, dequeue_pos, pos>>
vars == <<caller, sems, buffer>>

Push == {"push", "try_push"}
Pop == {"pop", "try_pop"}
Blocking == {"push", "pop"}

\* A handler runs until it returns or a more urgent one arrives; tasks take
\* turns in any order.
Running(c) == \A e \in Irq : e # c /\ pc[e] # "home" => c \in Irq /\ c > e
At(c, s) == Running(c) /\ pc[c] = s
Goto(c, s) == pc' = [pc EXCEPT ![c] = s]
\* The locals of a call end with it.
return(c) ==
    /\ Goto(c, "home")
    /\ call' = [call EXCEPT ![c] = "none"]
    /\ item' = [item EXCEPT ![c] = NoItem]

-----------------------------------------------------------------------------
\* Which semaphore a call takes from, and which it gives to.
Takes(c) == IF call[c] \in Push THEN "empty" ELSE "occupied"
Gives(c) == IF call[c] \in Push THEN "occupied" ELSE "empty"
Count(s) == IF s = "empty" THEN sem_empty ELSE sem_occupied
Change(s, by) ==
    /\ sem_empty' = sem_empty + (IF s = "empty" THEN by ELSE 0)
    /\ sem_occupied' = sem_occupied + (IF s = "occupied" THEN by ELSE 0)

(***************************************************************************)
(* Faults: what a plausible mistake in channel.rs would make of an         *)
(* operator below.  No specification uses them.                            *)
(***************************************************************************)
\* the result of try_down is not looked at
refused_goes_on(c) ==
    /\ At(c, "reserve")
    /\ call[c] \notin Blocking /\ Count(Takes(c)) = 0
    /\ Goto(c, "claim")
    /\ UNCHANGED <<call, item, sems, buffer>>
\* sem_occupied is made for one element less
up_one_less(c) ==
    /\ At(c, "signal")
    /\ call[c] \in Blocking => Count(Gives(c)) < (IF Gives(c) = "occupied" THEN N - 1 ELSE N)
    /\ Change(Gives(c), 1)
    /\ return(c)
    /\ UNCHANGED buffer
\* try_pop returns without giving the slot back
up_keeps_slot(c) ==
    /\ At(c, "signal")
    /\ Change(Gives(c), IF call[c] = "try_pop" THEN 0 ELSE 1)
    /\ return(c)
    /\ UNCHANGED buffer
-----------------------------------------------------------------------------
begin(c) ==
    /\ At(c, "home")
    /\ \E k \in Calls[c] :
           /\ call' = [call EXCEPT ![c] = k]
           /\ \E x \in IF k \in Push THEN Data ELSE {NoItem} :
                  item' = [item EXCEPT ![c] = x]
    /\ Goto(c, "reserve")
    /\ UNCHANGED <<sems, buffer>>

\* sem.down() or sem.try_down_allow_isr(): a slot or an element is reserved.
\* A task waits for it, and a call that may not block is refused.
down(c) ==
    /\ At(c, "reserve")
    /\ Count(Takes(c)) > 0
    /\ Change(Takes(c), -1)
    /\ Goto(c, "claim")
    /\ UNCHANGED <<call, item, buffer>>
refused(c) ==
    /\ At(c, "reserve")
    /\ call[c] \notin Blocking /\ Count(Takes(c)) = 0
    /\ return(c)
    /\ UNCHANGED <<sems, buffer>>

\* External: a position is claimed if its cell is the caller's turn.  A buffer
\* that seems full or empty makes unwrap_or_die fail.
Turn(c) == IF call[c] \in Push
           THEN sequence[enqueue_pos % N] = enqueue_pos
           ELSE sequence[dequeue_pos % N] = (dequeue_pos + 1) % Modulus
claim(c) ==
    /\ At(c, "claim")
    /\ IF ~Turn(c)
       THEN Goto(c, "die") /\ UNCHANGED <<enqueue_pos, dequeue_pos, pos>>
       ELSE /\ IF call[c] \in Push
               THEN /\ enqueue_pos' = (enqueue_pos + 1) % Modulus
                    /\ pos' = [pos EXCEPT ![c] = enqueue_pos]
                    /\ UNCHANGED dequeue_pos
               ELSE /\ dequeue_pos' = (dequeue_pos + 1) % Modulus
                    /\ pos' = [pos EXCEPT ![c] = dequeue_pos]
                    /\ UNCHANGED enqueue_pos
            /\ Goto(c, "move")
    /\ UNCHANGED <<call, item, sems, sequence, cell>>

\* External: the element is moved, and the cell handed over.
move(c) ==
    LET i == pos[c] % N
    IN  /\ At(c, "move")
        /\ IF call[c] \in Push
           THEN /\ cell' = [cell EXCEPT ![i] = item[c]]
                /\ sequence' = [sequence EXCEPT ![i] = (pos[c] + 1) % Modulus]
                /\ UNCHANGED item
           ELSE /\ item' = [item EXCEPT ![c] = cell[i]]
                /\ sequence' = [sequence EXCEPT ![i] = (pos[c] + N) % Modulus]
                /\ cell' = [cell EXCEPT ![i] = NoItem]
        /\ Goto(c, "signal")
        /\ pos' = [pos EXCEPT ![c] = 0]
        /\ UNCHANGED <<call, sems, enqueue_pos, dequeue_pos>>

\* sem.up() or sem.try_up_allow_isr().unwrap_or_die(): the other side is told.
\* up waits while the counter is at its maximum, try_up fails.
up(c) ==
    /\ At(c, "signal")
    /\ call[c] \in Blocking => Count(Gives(c)) < N
    /\ IF Count(Gives(c)) = N
       THEN Goto(c, "die") /\ UNCHANGED <<call, item, sems>>
       ELSE /\ Change(Gives(c), 1)
            /\ return(c)
    /\ UNCHANGED buffer

-----------------------------------------------------------------------------
\* Channel::new
Init ==
    /\ pc = [c \in Ctx |-> "home"]
    /\ call = [c \in Ctx |-> "none"] /\ item = [c \in Ctx |-> NoItem]
    /\ sem_empty = N /\ sem_occupied = 0
    /\ sequence = [i \in 0 .. N - 1 |-> i]
    /\ cell = [i \in 0 .. N - 1 |-> NoItem]
    /\ enqueue_pos = 0 /\ dequeue_pos = 0
    /\ pos = [c \in Ctx |-> 0]

proceed(c) == down(c) \/ refused(c) \/ claim(c) \/ move(c) \/ up(c)
\* unrecoverable::die: the context that fails an unwrap_or_die loops for ever.
die(c) == At(c, "die") /\ UNCHANGED vars
Next == \E c \in Ctx : begin(c) \/ proceed(c) \/ die(c)

Spec == Init /\ [][Next]_vars
\* A handler that runs goes on.  A task goes on if it gets the CPU again and
\* again: more urgent tasks and interrupts do not use all of it.  Nobody has
\* to begin a call.
FairSpec ==
    /\ Spec
    /\ \A e \in Irq : WF_vars(proceed(e))
    /\ \A t \in Task : SF_vars(proceed(t))

TypeOK ==
    /\ pc \in [Ctx -> {"home", "reserve", "claim", "move", "signal", "die"}]
    /\ call \in [Ctx -> Push \union Pop \union {"none"}]
    /\ item \in [Ctx -> Data \union {NoItem}]
    /\ sem_empty \in 0 .. N /\ sem_occupied \in 0 .. N
    /\ sequence \in [0 .. N - 1 -> 0 .. Modulus - 1]
    /\ cell \in [0 .. N - 1 -> Data \union {NoItem}]
    /\ enqueue_pos \in 0 .. Modulus - 1 /\ dequeue_pos \in 0 .. Modulus - 1
    /\ pos \in [Ctx -> 0 .. Modulus - 1]

-----------------------------------------------------------------------------
\* The semaphores keep exact account of the cells: whoever signals finds room
\* in the counter, and whoever has reserved finds its cell ready, so that no
\* unwrap_or_die of channel.rs fails.  There is one exception, the buffer's
\* own: another call has claimed a cell before and is kept from finishing it.
DiesOnlyOnUnfinishedCell ==
    [][\A c \in Ctx : pc[c] # "die" /\ pc'[c] = "die" =>
           pc[c] = "claim" /\ \E d \in Ctx : pc[d] = "move"]_vars

\* A call takes effect when it claims its position.  The elements in order,
\* those that their producer has not yet moved included.
ElementAt(p) ==
    LET claimer == {c \in Ctx : pc[c] = "move" /\ call[c] \in Push /\ pos[c] = p}
    IN  IF claimer # {} THEN item[CHOOSE c \in claimer : TRUE] ELSE cell[p % N]
Elements ==
    [k \in 1 .. (enqueue_pos - dequeue_pos) % Modulus |->
        ElementAt((dequeue_pos + k - 1) % Modulus)]
PhaseOf(c) ==
    CASE pc[c] = "home" -> <<"out">>
      [] pc[c] = "signal" -> <<"served", call[c], item[c]>>
      [] pc[c] = "move" -> <<"served", call[c],
                             IF call[c] \in Push THEN item[c] ELSE cell[pos[c] % N]>>
      [] OTHER -> <<"asked", call[c], item[c]>>
Phases == [c \in Ctx |-> PhaseOf(c)]
Promise == INSTANCE BoundedFifo WITH Data <- Data \union {NoItem}, q <- Elements,
                                     phase <- Phases

\* What push, pop and the try_ calls do is what a bounded queue promises,
\* however they overlap: nothing is lost, doubled or overtaken, and nobody is
\* refused while there is room or an element that no call in progress can
\* have taken.
ImplementsFifo == Promise!Spec

\* A call that has reserved its slot or element comes back, unless somebody
\* has died: the second semaphore never makes push or pop wait.
ReservedReturns ==
    \A c \in Ctx : pc[c] \in {"claim", "move", "signal"} ~>
                       (pc[c] = "home" \/ \E d \in Ctx : pc[d] = "die")
=============================================================================
