--------------------------- MODULE TaskLifecycle ---------------------------
(***************************************************************************)
(* The life of one task of the application: its segmented stack            *)
(* (src/task/segmented_stack.rs), panics and forced unwinding              *)
(* (src/unwind/), and restart with the same or with another task struct    *)
(* (src/task/trampoline.rs, src/task/task_struct.rs).                      *)
(*                                                                         *)
(* A task struct is in a slot of its own; the task has one struct, or two  *)
(* while an old instance unwinds and a restarted one runs.  Instances take *)
(* their steps in any order.  Functions call and return as they like;      *)
(* whether a function fits into the current stacklet is up to the caller.  *)
(***************************************************************************)
EXTENDS Integers, FiniteSets, Sequences, SequencesExt, Functions

CONSTANTS
    Slot,         \* the places for task structs
    NoSlot,
    StackConfig,  \* the stack configurations that are tried
    Sizes,        \* the sizes a function asks for
    UnwinderSize, \* what start_unwind_entry asks for
    MaxDepth,     \* bound: how deep functions call
    MaxUnwinds    \* bound: how often the task is unwound

NoLimit == -1
Kinds == {"plain", "concurrent", "in_place"}

ASSUME SlotAssumption == NoSlot \notin Slot
ASSUME SizeAssumption ==
    /\ Sizes \subseteq Nat \ {0} /\ UnwinderSize \in Nat \ {0}
    /\ MaxDepth \in Nat /\ MaxUnwinds \in Nat
    /\ StackConfig \subseteq [dynamic : BOOLEAN, limit : Nat \union {NoLimit}]

VARIABLES
    kind,             \* how the task was spawned
    stack_config,     \* Task::stack_config, the same for every instance
    pc,               \* what an instance is doing, "none" for a free slot
    frames,           \* its active functions, the innermost last
    stklet_bound,     \* TaskLocalStorage, which names the stacklet in use,
    nested_drop_cnt,  \* counts the drop handlers that are active
    unwind_pending,   \* and keeps a forced unwinding that was put off
    stacklets,        \* StackletMeta of the stacklets that are allocated
    cumulated_size,   \* StackCtrlBlock::cumulated_size
    unw_bound,        \* UnwindState::stklet_boundary
    base,             \* the frame whose landing pad runs
    catch,            \* which catch_unwind of the trampoline is active
    is_unwinding, has_restarted, restarted_from, lowered,  \* of the task struct
    unwinds,          \* history: how often the task was unwound
    outcome           \* history: how the task ended

tls == <<stklet_bound, nested_drop_cnt, unwind_pending>>
memory == <<stacklets, cumulated_size>>
struct == <<is_unwinding, has_restarted, restarted_from, lowered>>
history == <<unwinds, outcome>>
given == <<kind, stack_config>>
vars == <<given, pc, frames, tls, memory, unw_bound, base, catch, struct, history>>

\* The initial stacklet, which belongs to the task struct.
Initial == 0
Ids == 0 .. MaxDepth + 1
\* "guard": a function with a landing pad.
FrameKinds == {"entry", "fn", "guard", "drop"}

Top(i) == Last(frames[i])
Pop(i) == Front(frames[i])
Live == {i \in Slot : pc[i] # "none"}
Goto(i, s) == pc' = [pc EXCEPT ![i] = s]

\* The trampoline, with the catch that the unwinder will find.
Entry == [kind |-> "entry", bound |-> Initial, extended |-> FALSE]

Init ==
    /\ kind \in Kinds /\ stack_config \in StackConfig
    /\ \E first \in Slot : pc = [i \in Slot |-> IF i = first THEN "run" ELSE "none"]
    /\ frames = [i \in Slot |-> <<Entry>>]
    /\ stklet_bound = [i \in Slot |-> Initial]
    /\ nested_drop_cnt = [i \in Slot |-> 0] /\ unwind_pending = [i \in Slot |-> FALSE]
    /\ stacklets = [i \in Slot |-> <<>>] /\ cumulated_size = [i \in Slot |-> 0]
    /\ unw_bound = [i \in Slot |-> Initial]
    /\ base = [i \in Slot |-> 0] /\ catch = [i \in Slot |-> "none"]
    /\ is_unwinding = [i \in Slot |-> FALSE] /\ has_restarted = [i \in Slot |-> FALSE]
    /\ restarted_from = [i \in Slot |-> NoSlot] /\ lowered = [i \in Slot |-> FALSE]
    /\ unwinds = 0 /\ outcome = "active"

-----------------------------------------------------------------------------
(***************************************************************************)
(* Faults: what a plausible mistake in segmented_stack.rs or unwind.rs     *)
(* would make of an operator below.  No specification uses them.           *)
(***************************************************************************)
\* The usage is compared before the request is added to it.
usage_before_request(i, size) ==
    \/ ~stack_config.dynamic
    \/ stack_config.limit # NoLimit /\ cumulated_size[i] > stack_config.limit

\* Only the unwinder's own requests are exempt, not what landing pads call.
only_unwinder_exempt(i, reason) == reason = "Unwind"

\* Callees of drop handlers are diverted.
only_drop_handler(i, reason) == reason = "Drop"

\* The old instance is not marked: it restarts in place as well.
restart_unrecorded(i, j) ==
    /\ kind = "concurrent" /\ restarted_from[i] = NoSlot
    /\ pc[j] = "none"
    /\ pc' = [pc EXCEPT ![i] = "unwind", ![j] = "run"]
    /\ restarted_from' = [restarted_from EXCEPT ![j] = i]
    /\ lowered' = [lowered EXCEPT ![i] = TRUE, ![j] = lowered[i]]
    /\ UNCHANGED has_restarted

\* The boundary stays that of the stacklet that was just freed.
step_same_boundary(i) ==
    LET b == unw_bound[i] IN
    /\ \/ pc[i] = "step"
       \/ pc[i] = "unwind" /\ Top(i).kind \in {"fn", "drop"}
    /\ frames' = [frames EXCEPT ![i] = Pop(i)]
    /\ IF Top(i).extended
         THEN stacklets' = [stacklets EXCEPT ![i] = Restrict(@, DOMAIN @ \ {b})]
         ELSE UNCHANGED stacklets
    /\ Goto(i, "unwind")
    /\ UNCHANGED <<given, tls, cumulated_size, unw_bound, base, catch, struct, history>>

-----------------------------------------------------------------------------
(***************************************************************************)
(* more_stack.  A task that may not have more is diverted to unwinding,    *)
(* but not from inside a drop handler, where the unwinding is put off, and *)
(* not when it is being unwound already.                                   *)
(***************************************************************************)
LimitExceeded(i, size) ==
    \/ ~stack_config.dynamic
    \/ stack_config.limit # NoLimit /\ cumulated_size[i] + size > stack_config.limit

Exempt(i, reason) == reason = "Unwind" \/ is_unwinding[i]
InDrop(i, reason) == reason = "Drop" \/ nested_drop_cnt[i] > 0

Pends(i, reason, size) ==
    LimitExceeded(i, size) /\ ~Exempt(i, reason) /\ InDrop(i, reason)
Diverts(i, reason, size) ==
    LimitExceeded(i, size) /\ ~Exempt(i, reason) /\ ~InDrop(i, reason)

\* The usage is counted whether or not a stacklet follows.
Charge(i, size) ==
    cumulated_size' = [cumulated_size EXCEPT ![i] = IF stack_config.dynamic THEN @ + size ELSE @]

NewId(i) == CHOOSE b \in Ids \ {Initial} : b \notin DOMAIN stacklets[i]

more_stack(i, reason, size) ==
    /\ Charge(i, size)
    /\ stacklets' = [stacklets EXCEPT ![i] =
           [b \in DOMAIN @ \union {NewId(i)} |->
               IF b = NewId(i) THEN [prev |-> stklet_bound[i], count_size |-> size] ELSE @[b]]]
    /\ stklet_bound' = [stklet_bound EXCEPT ![i] = NewId(i)]
    /\ unwind_pending' = [unwind_pending EXCEPT ![i] = @ \/ Pends(i, reason, size)]

Dealloc(i, b) ==
    stacklets' = [stacklets EXCEPT ![i] = Restrict(@, DOMAIN @ \ {b})]

Uncharge(i, size) ==
    cumulated_size' = [cumulated_size EXCEPT ![i] = IF stack_config.dynamic THEN @ - size ELSE @]

-----------------------------------------------------------------------------
(***************************************************************************)
(* Calls and returns.  The epilogue of the outermost drop handler begins a *)
(* forced unwinding that was put off.                                      *)
(***************************************************************************)
\* A landing pad itself calls drop handlers only.
MayCall(i, k) ==
    /\ pc[i] \in {"run", "pad"}
    /\ pc[i] = "pad" /\ Len(frames[i]) = base[i] => k = "drop"
    /\ Len(frames[i]) < MaxDepth

Enter(i, k, b, ext) ==
    /\ frames' = [frames EXCEPT ![i] = Append(@, [kind |-> k, bound |-> b, extended |-> ext])]
    /\ nested_drop_cnt' = [nested_drop_cnt EXCEPT ![i] = IF k = "drop" THEN @ + 1 ELSE @]

call(i, k) ==
    /\ MayCall(i, k)
    /\ Enter(i, k, stklet_bound[i], FALSE)
    /\ UNCHANGED <<given, pc, stklet_bound, unwind_pending, memory, unw_bound, base, catch, struct, history>>

Reason(k) == IF k = "drop" THEN "Drop" ELSE "Normal"

call_more_stack(i, k, size) ==
    /\ MayCall(i, k) /\ ~Diverts(i, Reason(k), size)
    /\ Pends(i, Reason(k), size) => unwinds < MaxUnwinds
    /\ more_stack(i, Reason(k), size)
    /\ Enter(i, k, NewId(i), TRUE)
    /\ UNCHANGED <<given, pc, unw_bound, base, catch, struct, history>>

diverted_unwind(i, k, size) ==
    /\ MayCall(i, k) /\ Diverts(i, Reason(k), size)
    /\ unwinds < MaxUnwinds
    /\ Charge(i, size)
    /\ Goto(i, "divert")
    /\ UNCHANGED <<given, frames, tls, stacklets, unw_bound, base, catch, struct, history>>

less_stack(i) ==
    LET meta == stacklets[i][stklet_bound[i]] IN
    /\ stklet_bound' = [stklet_bound EXCEPT ![i] = meta.prev]
    /\ Uncharge(i, meta.count_size)
    /\ Dealloc(i, stklet_bound[i])

Deferred(i) == Top(i).kind = "drop" /\ nested_drop_cnt[i] = 1 /\ unwind_pending[i]

return(i) ==
    /\ \/ pc[i] = "run" /\ Len(frames[i]) > 1
       \/ pc[i] = "pad" /\ Len(frames[i]) > base[i]
    /\ ~Deferred(i)
    /\ frames' = [frames EXCEPT ![i] = Pop(i)]
    /\ nested_drop_cnt' = [nested_drop_cnt EXCEPT ![i] = IF Top(i).kind = "drop" THEN @ - 1 ELSE @]
    /\ IF Top(i).extended THEN less_stack(i) ELSE UNCHANGED <<stklet_bound, memory>>
    /\ UNCHANGED <<given, pc, unwind_pending, unw_bound, base, catch, struct, history>>

\* The body of the drop handler is over, its frame is still there.
deferred_unwind(i) ==
    /\ pc[i] \in {"run", "pad"} /\ Deferred(i)
    /\ frames' = [frames EXCEPT ![i] = Append(Pop(i), [Top(i) EXCEPT !.kind = "fn"])]
    /\ nested_drop_cnt' = [nested_drop_cnt EXCEPT ![i] = 0]
    /\ unwind_pending' = [unwind_pending EXCEPT ![i] = FALSE]
    /\ Goto(i, "divert")
    /\ UNCHANGED <<given, stklet_bound, memory, unw_bound, base, catch, struct, history>>

\* Application code panics, outside of drop handlers: the entry closure, or its
\* clone(), which the trampoline of a restartable task calls outside of any catch.
panic(i) ==
    /\ pc[i] = "run"
    /\ catch[i] = "entry" \/ (catch[i] = "none" /\ kind # "plain")
    /\ nested_drop_cnt[i] = 0 /\ unwinds < MaxUnwinds
    /\ Goto(i, "panic")
    /\ UNCHANGED <<given, frames, tls, memory, unw_bound, base, catch, struct, history>>

-----------------------------------------------------------------------------
(***************************************************************************)
(* The unwinder, which runs on a stacklet of its own.                      *)
(***************************************************************************)
start_unwind_entry(i) ==
    /\ pc[i] \in {"panic", "divert"}
    /\ more_stack(i, "Unwind", UnwinderSize)
    /\ unw_bound' = [unw_bound EXCEPT ![i] = stklet_bound[i]]
    /\ Goto(i, "create")
    /\ UNCHANGED <<given, frames, nested_drop_cnt, base, catch, struct, history>>

\* try_concurrent_restart: the struct of the instance that this one was
\* restarted from has to be gone.
OriginGone(i) == restarted_from[i] = NoSlot

\* A new struct, if there is a quota for it.
restart_from(i, j) ==
    /\ kind = "concurrent" /\ OriginGone(i)
    /\ pc[j] = "none"
    /\ pc' = [pc EXCEPT ![i] = "unwind", ![j] = "run"]
    /\ restarted_from' = [restarted_from EXCEPT ![j] = i]
    /\ has_restarted' = [has_restarted EXCEPT ![i] = TRUE]
    /\ lowered' = [lowered EXCEPT ![i] = TRUE, ![j] = lowered[i]]

\* Not restartable, not now, not concurrently, or no quota.
no_restart(i) ==
    /\ Goto(i, "unwind")
    /\ lowered' = [lowered EXCEPT ![i] = @ \/ kind = "plain"]
    /\ UNCHANGED <<restarted_from, has_restarted>>

create_unwind_state(i) ==
    /\ pc[i] = "create"
    /\ is_unwinding' = [is_unwinding EXCEPT ![i] = TRUE]
    /\ unwinds' = unwinds + 1
    /\ IF is_unwinding[i]
         THEN Goto(i, "die") /\ UNCHANGED <<restarted_from, has_restarted, lowered>>
         ELSE no_restart(i) \/ \E j \in Slot : restart_from(i, j)
    /\ UNCHANGED <<given, frames, tls, memory, unw_bound, base, catch, outcome>>

\* UnwindState::step: to the caller, and out of the stacklet that the
\* function had been given.
HasPad(f) == f.kind \in {"entry", "guard"}

step(i) ==
    LET b == unw_bound[i] IN
    /\ \/ pc[i] = "step"
       \/ pc[i] = "unwind" /\ ~HasPad(Top(i))
    /\ frames' = [frames EXCEPT ![i] = Pop(i)]
    /\ IF Top(i).extended
         THEN /\ unw_bound' = [unw_bound EXCEPT ![i] = stacklets[i][b].prev]
              /\ Uncharge(i, stacklets[i][b].count_size)
              /\ Dealloc(i, b)
         ELSE UNCHANGED <<unw_bound, memory>>
    /\ Goto(i, "unwind")
    /\ UNCHANGED <<given, tls, base, catch, struct, history>>

\* The landing pad runs on the stacklet of its function.
unwind_land(i) ==
    /\ pc[i] = "unwind" /\ HasPad(Top(i))
    /\ Top(i).kind = "entry" => catch[i] # "none"
    /\ Dealloc(i, stklet_bound[i])
    /\ stklet_bound' = [stklet_bound EXCEPT ![i] = unw_bound[i]]
    /\ base' = [base EXCEPT ![i] = Len(frames[i])]
    /\ Goto(i, IF Top(i).kind = "entry" THEN "caught" ELSE "pad")
    /\ UNCHANGED <<given, frames, nested_drop_cnt, unwind_pending, cumulated_size, unw_bound,
                   catch, struct, history>>

\* Outside of any catch the trampoline has no landing pad, and what it returns to,
\* svc_destroy_current_task, cannot be unwound: die_with_arg.
unwind_uncaught(i) ==
    /\ pc[i] = "unwind" /\ Top(i).kind = "entry" /\ catch[i] = "none"
    /\ Goto(i, "uncaught")
    /\ UNCHANGED <<given, frames, tls, memory, unw_bound, base, catch, struct, history>>

\* _Unwind_Resume
unwind_resume_entry(i) ==
    /\ pc[i] = "pad" /\ Len(frames[i]) = base[i]
    /\ more_stack(i, "Unwind", UnwinderSize)
    /\ Goto(i, "step")
    /\ UNCHANGED <<given, frames, nested_drop_cnt, unw_bound, base, catch, struct, history>>

-----------------------------------------------------------------------------
(***************************************************************************)
(* The trampolines task_entry and restartable_task_entry.                  *)
(***************************************************************************)
\* The last instance says how the task ended.
Leave(i, o) ==
    /\ Goto(i, "exit")
    /\ outcome' = IF has_restarted[i] THEN outcome ELSE o

panic_callback(i) ==
    /\ pc[i] = "caught"
    /\ unw_bound' = [unw_bound EXCEPT ![i] = Initial]
    /\ base' = [base EXCEPT ![i] = 0]
    /\ IF kind = "plain" \/ has_restarted[i] THEN Leave(i, "terminated")
       ELSE IF catch[i] = "clear" THEN Leave(i, "given_up")
       ELSE Goto(i, "clear") /\ UNCHANGED outcome
    /\ UNCHANGED <<given, frames, tls, memory, catch, struct, unwinds>>

\* The flag is cleared in a catch of its own: without it the limit is in
\* force again.
set_unwind_flag(i) ==
    /\ pc[i] = "clear"
    /\ is_unwinding' = [is_unwinding EXCEPT ![i] = FALSE]
    /\ catch' = [catch EXCEPT ![i] = "clear"]
    /\ Goto(i, "run")
    /\ UNCHANGED <<given, frames, tls, memory, unw_bound, base, has_restarted, restarted_from,
                   lowered, history>>

\* The flag is cleared and the loop runs over again ...
restart(i) ==
    /\ pc[i] = "run" /\ catch[i] = "clear" /\ Len(frames[i]) = 1
    /\ catch' = [catch EXCEPT ![i] = "none"]
    /\ UNCHANGED <<given, pc, frames, tls, memory, unw_bound, base, struct, history>>

\* ... and, as on the first time, catch_unwind runs the entry closure.
catch_unwind(i) ==
    /\ pc[i] = "run" /\ catch[i] = "none" /\ Len(frames[i]) = 1
    /\ catch' = [catch EXCEPT ![i] = "entry"]
    /\ UNCHANGED <<given, pc, frames, tls, memory, unw_bound, base, struct, history>>

entry_return(i) ==
    /\ pc[i] = "run" /\ catch[i] = "entry" /\ Len(frames[i]) = 1
    /\ Leave(i, "returned")
    /\ UNCHANGED <<given, frames, tls, memory, unw_bound, base, catch, struct, unwinds>>

\* The task is destroyed and its struct dropped: nobody finds it through
\* restarted_from any more.
drop_task(i) ==
    /\ pc[i] = "exit"
    /\ Goto(i, "none")
    /\ stacklets' = [stacklets EXCEPT ![i] = <<>>]
    /\ cumulated_size' = [cumulated_size EXCEPT ![i] = 0]
    /\ catch' = [catch EXCEPT ![i] = "none"]
    /\ is_unwinding' = [is_unwinding EXCEPT ![i] = FALSE]
    /\ has_restarted' = [has_restarted EXCEPT ![i] = FALSE]
    /\ lowered' = [lowered EXCEPT ![i] = FALSE]
    /\ restarted_from' = [j \in Slot |-> IF j = i \/ restarted_from[j] = i THEN NoSlot
                                         ELSE restarted_from[j]]
    /\ UNCHANGED <<given, frames, tls, unw_bound, base, history>>

-----------------------------------------------------------------------------
Unwind(i) ==
    \/ start_unwind_entry(i) \/ create_unwind_state(i) \/ step(i) \/ unwind_land(i)
    \/ unwind_uncaught(i) \/ unwind_resume_entry(i)
    \/ panic_callback(i) \/ set_unwind_flag(i) \/ restart(i) \/ catch_unwind(i)

Next ==
    \E i \in Slot :
        \/ \E k \in {"fn", "guard", "drop"} :
              \/ call(i, k)
              \/ \E size \in Sizes : call_more_stack(i, k, size) \/ diverted_unwind(i, k, size)
        \/ return(i) \/ deferred_unwind(i) \/ panic(i)
        \/ Unwind(i)
        \/ entry_return(i) \/ drop_task(i)

Spec == Init /\ [][Next]_vars

-----------------------------------------------------------------------------
TypeOK ==
    /\ kind \in Kinds /\ stack_config \in StackConfig
    /\ pc \in [Slot -> {"none", "run", "panic", "divert", "create", "unwind", "step", "pad",
                        "caught", "uncaught", "clear", "exit", "die"}]
    /\ frames \in [Slot -> Seq([kind : FrameKinds, bound : Ids, extended : BOOLEAN])]
    /\ stklet_bound \in [Slot -> Ids] /\ unw_bound \in [Slot -> Ids]
    /\ nested_drop_cnt \in [Slot -> 0 .. MaxDepth] /\ unwind_pending \in [Slot -> BOOLEAN]
    /\ cumulated_size \in [Slot -> Nat]
    /\ base \in [Slot -> 0 .. MaxDepth] /\ catch \in [Slot -> {"none", "entry", "clear"}]
    /\ is_unwinding \in [Slot -> BOOLEAN] /\ has_restarted \in [Slot -> BOOLEAN]
    /\ restarted_from \in [Slot -> Slot \union {NoSlot}] /\ lowered \in [Slot -> BOOLEAN]
    /\ unwinds \in Nat /\ outcome \in {"active", "terminated", "given_up", "returned"}

-----------------------------------------------------------------------------
(***************************************************************************)
(* Properties.                                                             *)
(***************************************************************************)
\* No instance is found unwinding when an unwinding of it begins, which would
\* halt the whole system (create_unwind_state): neither what landing pads run
\* nor what a restarted task runs begins a second one.
NeverUnwindsTwice == \A i \in Slot : pc[i] # "die"

Unwinder == {"create", "unwind", "step", "uncaught"}
Extended(i) == {n \in DOMAIN frames[i] : frames[i][n].extended}

\* What a task has allocated, as more_stack counts it: the bytes of its stacklets.
Bytes(metas) == UNION {{b} \X (1 .. metas[b].count_size) : b \in DOMAIN metas}
Allocated(i) == Cardinality(Bytes(stacklets[i]))

\* Application code is held to the configuration: no stacklet with a static
\* stack, none beyond the limit.
WithinLimit(i) ==
    /\ ~stack_config.dynamic => DOMAIN stacklets[i] = {}
    /\ stack_config.dynamic /\ stack_config.limit # NoLimit =>
           Allocated(i) <= stack_config.limit

\* more_stack, less_stack, step and unwind_land agree about who has which
\* stacklet: the innermost function is on the stacklet that the prologues (or
\* the unwinder) believe it is on, every function that was given a stacklet
\* still has it and no two have the same, the unwinder has one of its own while
\* it runs, and nothing else is allocated; so a task leaves nothing behind.
StackletsOwned(i) ==
    LET owned == {frames[i][n].bound : n \in Extended(i)}
        runs == pc[i] \in Unwinder IN
    /\ Top(i).bound = IF runs THEN unw_bound[i] ELSE stklet_bound[i]
    /\ Cardinality(owned) = Cardinality(Extended(i))
    /\ runs => stklet_bound[i] \notin owned \union {Initial}
    /\ DOMAIN stacklets[i] = owned \union (IF runs THEN {stklet_bound[i]} ELSE {})

\* The stacklets of more_stack have one owner each, and before and after
\* unwindings more_stack holds the task to its configuration, unless a forced
\* unwinding is pending.
StackletsSound ==
    \A i \in Live :
        /\ StackletsOwned(i)
        /\ pc[i] = "run" /\ ~is_unwinding[i] /\ ~unwind_pending[i] => WithinLimit(i)

InsideDrop(i) == \E n \in DOMAIN frames[i] : frames[i][n].kind = "drop"

\* A forced unwinding never begins inside a drop handler, and one that was put
\* off is never forgotten: a drop handler whose epilogue begins it is active.
ForcedUnwindOutsideDrop ==
    \A i \in Live :
        /\ pc[i] = "divert" => ~InsideDrop(i)
        /\ unwind_pending[i] => pc[i] = "run" /\ InsideDrop(i)

Heirs == {i \in Live : pc[i] # "exit" /\ ~has_restarted[i]}

\* However panics, concurrent restarts and restarts in place follow each other,
\* the task has one instance that is responsible for it (none after that one
\* ended), and besides it at most one that is on its way out.  A restartable
\* task is never left at the priority of unwinding.
OneHeir ==
    /\ Cardinality(Heirs) = IF outcome = "active" THEN 1 ELSE 0
    /\ Cardinality(Live \ Heirs) <= IF outcome = "active" THEN 1 ELSE 2
    /\ kind # "plain" => \A i \in Heirs : ~lowered[i]
=============================================================================
