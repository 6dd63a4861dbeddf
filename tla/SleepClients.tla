--------------------------- MODULE SleepClients ---------------------------
(***************************************************************************)
(* The tasks that share the sleep queue: they sleep, have barriers, and    *)
(* wait with a timeout for something that other contexts may send them,    *)
(* which then take them out of the queue.  The only code that waits and    *)
(* removes like this is Mailbox's wait_until_timeout and notify_allow_isr; *)
(* of a mailbox this module keeps whether the task is on record there as   *)
(* waiting, and that nobody else gets at the record while the task is      *)
(* inside the mailbox's soft lock.  The rest of it is in Mailbox.          *)
(*                                                                         *)
(* A removal can outlive the wait it was meant for.  It is pended in       *)
(* delete_buffer while the queue is locked, run_pended_op does not look    *)
(* there without a tick, and when the wait is over by then because its     *)
(* time had come, the next tick applies the removal to whatever the task   *)
(* is in the queue for: its next wait, or a sleep.                         *)
(***************************************************************************)
EXTENDS SleepQueue

CONSTANT Remover    \* the contexts that notify

ASSUME RemoverAssumption == Remover \subseteq Ctx \ {SysTick}

VARIABLES
    recorded,    \* wait_task of the mailbox of each task is WithTimeout
    outlived     \* history: as the task blocked, a removal that was meant for
                 \* an earlier wait was still in delete_buffer

clients == <<recorded, outlived>>
clvars == <<sqvars, clients>>

ClientSteps == SleepSteps \union {"leave_box"}

SleepInit ==
    /\ InitSleepQueue
    /\ recorded = [t \in Task |-> FALSE]
    /\ outlived = [t \in Task |-> FALSE]

-----------------------------------------------------------------------------
(***************************************************************************)
(* A fault: what a plausible mistake in mailbox.rs would make of an action *)
(* below.  No specification uses it.                                       *)
(***************************************************************************)
\* The record of the waiting task is not cleared after a timeout.
return_keeps_record(t) ==
    /\ sleep_return(t)
    /\ outlived' = [outlived EXCEPT ![t] = FALSE]
    /\ UNCHANGED recorded

-----------------------------------------------------------------------------
(***************************************************************************)
(* Mailbox::wait_until_timeout.                                            *)
(***************************************************************************)
\* From the check of the counter, which is zero, to the sleep queue.
timed_wait(t, timeout_ms) ==
    /\ At(t, "home") /\ "timeout" \in Calls[t]
    /\ call' = [call EXCEPT ![t] = "timeout"]
    /\ state' = [state EXCEPT ![t] = "Blocked"]
    /\ wake_tick' = [wake_tick EXCEPT ![t] = (TICKS + timeout_ms) % Modulus]
    /\ left' = [left EXCEPT ![t] = timeout_ms]
    /\ recorded' = [recorded EXCEPT ![t] = TRUE]
    /\ Goto(t, "s_add") /\ ret' = [ret EXCEPT ![t] = "leave_box"]
    /\ UNCHANGED <<cur, TICKS, squeue, barriers, whom, held, outlived>>

\* The task leaves the mailbox's soft lock, and first serves a notification that
\* was pended meanwhile: it takes itself out of the sleep queue.
leave_box(t) ==
    /\ At(t, "leave_box")
    /\ \/ /\ recorded[t]
          /\ recorded' = [recorded EXCEPT ![t] = FALSE]
          /\ whom' = [whom EXCEPT ![t] = t]
          /\ Goto(t, "s_remove") /\ ret' = [ret EXCEPT ![t] = "leave_box"]
       \/ Goto(t, "yield") /\ UNCHANGED <<recorded, whom, ret>>
    /\ UNCHANGED <<cur, state, TICKS, squeue, wake_tick, barriers, call, held, left, outlived>>

\* Mailbox::notify_allow_isr, of a mailbox that is not locked and has t on record.
take_out(c, t) ==
    /\ Free(c) /\ c \in Remover
    /\ recorded[t] /\ pc[t] \in {"yield", "slept"}
    /\ recorded' = [recorded EXCEPT ![t] = FALSE]
    /\ whom' = [whom EXCEPT ![c] = t]
    /\ Goto(c, "s_remove")
    /\ UNCHANGED <<cur, state, TICKS, squeue, wake_tick, barriers, call, ret, held, left, outlived>>

\* add_cur_task_to_sleep_queue of sleep_ms_unchecked.
block(t) ==
    /\ sleep_block(t)
    /\ outlived' = [outlived EXCEPT ![t] = Has(delete_buffer, t)]
    /\ UNCHANGED recorded

\* The end of any of the calls; wait_until_timeout clears the record.
return(t) ==
    /\ sleep_return(t)
    /\ recorded' = [recorded EXCEPT ![t] = FALSE]
    /\ outlived' = [outlived EXCEPT ![t] = FALSE]

-----------------------------------------------------------------------------
ClientStep(t) ==
    \/ (SleepCall(t) \/ barrier_sleep(t) \/ sleep_compare(t)) /\ UNCHANGED clients
    \/ \E ms \in Durations : timed_wait(t, ms)
    \/ block(t) \/ leave_box(t) \/ return(t)

SleepSwitch ==
    /\ switch(SuspendedSteps \union {"leave_box"}, [yield |-> "slept"])
    /\ UNCHANGED <<TICKS, squeue, wake_tick, barriers, call, whom, ret, held, left, clients>>

SleepNext ==
    \/ advance_tick /\ UNCHANGED clients
    \/ \E c \in Ctx : (SleepStep(c) \/ RemoveStep(c)) /\ UNCHANGED clients
    \/ \E t \in Task : ClientStep(t)
    \/ \E c \in Ctx, t \in Task : take_out(c, t)
    \/ SleepSwitch

SleepSpec == SleepInit /\ [][SleepNext]_clvars

-----------------------------------------------------------------------------
(***************************************************************************)
(* "Block the task for the given number of milliseconds" (time/mod.rs, l.  *)
(* 131): whatever ticks come between the readings of the counter, while    *)
(* the queue is locked, and when the counter wraps, nobody returns from    *)
(* sleep_ms or IntervalBarrier::wait before the time -- with one           *)
(* exception, which the code has: a removal that was meant for an earlier  *)
(* wait of the task and was still in delete_buffer as the task blocked.    *)
(* The next tick applies it to the sleep (l. 94), and nothing checks the   *)
(* time again.                                                             *)
(***************************************************************************)
NoEarlyWakeup ==
    \A t \in Task : pc[t] = "slept" /\ state[t] # "Blocked" =>
        /\ call[t] = "sleep" => left[t] <= 0 \/ outlived[t]
        /\ call[t] = "barrier" => until_barrier[t] <= 0 \/ outlived[t]
=============================================================================
