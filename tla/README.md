# A TLA+ model of the Hopter kernel

Hopter is an operating system for single-core Cortex-M microcontrollers. This
directory models its concurrent core in TLA+, checks it with TLC on small
instances and proves the central facts with TLAPS for all instances. The
reference is the Rust code under `src/`; every definition names the lines it
models in `PROJECT.json` ("map").

## The system

One core executes three kinds of context, and only these interleavings exist:

* **tasks** in thread mode, one of them current; the scheduler switches between
  them, but never while `SUSPEND_CNT` is positive;
* **SVC and PendSV**, the lowest exceptions; PendSV performs the context switch;
* **interrupt handlers**, nested by priority. A handler can start between any
  two instructions of a lower context (the kernel does not mask interrupts) and
  is finished when the lower context goes on.

| component | state | operations | talks to | what makes it correct |
|---|---|---|---|---|
| soft lock (`sync/soft_lock.rs`) | `locked`, `pending`, the client's buffer | `with_access`, `must_with_full_access`, drop of the guard | lies under ready queue, wait queues, sleep queue, mailbox | exclusive full access, no spin loop entered, each operation applied exactly once |
| scheduler (`schedule/`) | ready list, `insert_buffer`, `SUSPEND_CNT`, `PENDING_CTXT_SWITCH`, `CUR_TASK`, task states, quota | `accept_task`, `suspend`/`resume`, `pick_next`, `start`, quota, destroy | everything that blocks or wakes a task | never dies, no task lost or linked twice, no missed preemption, suspension respected |
| wait queue, condition variable | queue, `notify_cnt` | `wait_until`, `wait_until_with_lock`, `notify_one_allow_isr` | soft lock, scheduler | no lost wake-up |
| semaphore | `count`, two condition variables | `up`, `down`, `try_*_allow_isr` | condition variable | each call takes effect once, count in range |
| channel | ring buffer, two semaphores | `push`, `pop`, `try_*` | semaphore, heapless `MpMcQueue` | a bounded first-in first-out queue, a reserved call returns |
| sleep queue (`time/mod.rs`) | sorted queue, `delete_buffer`, `time_to_wakeup`, `TICKS` | `sleep_ms`, tick handler, removal | soft lock, scheduler, mailbox | nobody wakes early but for a removal that outlived its wait, nobody sleeps for ever, wrap-around |
| mailbox | `count`, `pending_count`, `wait_task`, `task_notified` | `wait`, `wait_until_timeout`, `notify_allow_isr` | soft lock, sleep queue | a notification is reported or counted, once |
| mutex | owner, wait queue, inherited priority | `lock`, `try_lock`, guard drop | wait queue, priorities | the recorded owner is the holder, priority restored, no lost wake-up |
| task life cycle, unwinding | task struct, restart link, concurrency counts | spawn, panic, forced unwind, restart, destroy | scheduler, stacks | one instance is responsible, at most one other is unwinding; no forced unwinding inside a drop handler |
| segmented stack | stacklet chain, cumulated size, TLS flags | `more_stack`, `less_stack` | heap, unwinder | limit enforced, every stacklet has one owner and is freed once |
| heap | free lists, chunk headers | `malloc`, `free` via SVC | segmented stack | blocks disjoint, free memory coalesced |
| unwinder (`unwind/`) | virtual registers, search interval, decoders | table search, instruction decoding, `step`, call-site look-up | segmented stack, compiled tables | every frame gets its registers back, landing pads run once and in order, a panic is caught |
| interrupt masks, spin locks | mask counts, `BASEPRI`, lock flags | `hold`, `force_unhold`, `lock`, `try_lock` | all | what a guard holds is in effect while it exists unless mask and counter came apart, nothing is left behind, no spinner keeps the owner from running |
| CPU load | time slots | idle callbacks | scheduler | not modelled: statistics without a promise |

What is hard here and hardly reached by a test is mostly the interleaving: an
interrupt between any two accesses, a chain of nested interrupts that each pend
work on the level below, a task woken after it queued itself and before it left
the CPU, a flag that is read at one moment and acted on at another. `PROJECT.json`
("hazards") lists these places by line.

## Modules

| module | models | uses |
|---|---|---|
| `PendableOps` | the promise of a soft lock: what is requested is applied once before the lock quiesces | |
| `SoftLock` | `soft_lock.rs`, one action per access to a shared word | refines `PendableOps` |
| `Scheduler` | `scheduler.rs`, `current.rs`, `idle.rs`, PendSV, the destroy call | the soft lock in full detail |
| `SingleCore` | tasks and nested interrupts on one core, the scheduler as `Scheduler` shows it to behave | |
| `WaitQueue` | `wait_queue.rs` | extends `SingleCore`, `TaskList`, the soft lock as `PendableOps` promises it |
| `Semaphore` | `semaphore.rs`, `condvar.rs` | extends `WaitQueue`, refines `CountingSemaphore` |
| `CountingSemaphore` | the promise of a semaphore to its callers | |
| `Mutex` | `mutex.rs`, `priority.rs`, `wait_until_with_lock` | extends `WaitQueue` |
| `TaskList` | the list operations of `task_list.rs` that wait queues and the sleep queue use | |
| `SleepQueue` | `time/mod.rs`, the sorted insertion of `task_list.rs` | extends `SingleCore`, `TaskList` |
| `SleepClients` | the tasks that share the sleep queue: sleep, barrier and wait with a timeout, and the contexts that take them out | extends `SleepQueue` |
| `Mailbox` | `mailbox.rs` | extends `SleepQueue` |
| `Heap` | `heap.rs`, `allocator/mod.rs` | |
| `TaskLifecycle` | `segmented_stack.rs`, `forced.rs`, `unw_catch.rs`, `trampoline.rs`, restart in `task_struct.rs`, the frame-by-frame course of `unwind.rs` | |
| `UnwTable`, `UnwLsda` | decoding of `.ARM.exidx` and `.ARM.extab` (`unw_table.rs`) and of the language-specific data (`unw_lsda.rs`), as operators on bytes | |
| `Assembler` | external: the tables as compiler and assembler write them | extends `UnwLsda` |
| `Unwinder` | `unwind.rs` at the level of registers: search, `step`, landing pads | extends `Assembler` |
| `BoundedFifo` | the promise of a channel to its callers | |
| `Channel` | `channel.rs`, around the external `MpMcQueue` | refines `BoundedFifo`; semaphores as `CountingSemaphore` promises them |
| `SpinLock` | `spin_lock.rs`, `lock_traits.rs`, `mask.rs`, `declare.rs` | |
| `MC*` | instances for TLC | |
| `BaseProofs` | the theorems about the components that use no other: `SoftLock`, `Heap`, `SpinLock` | |
| `SchedulerProofs` | those about `Scheduler` | |
| `TaskListProofs` | lemmas about `TaskList` | |
| `SemaphoreProofs`, `MutexProofs`, `MailboxProofs` | the theorems about `Semaphore` (with `WaitQueue`), `Mutex`, and `SleepQueue` with `SleepClients` and `Mailbox` | extend `TaskListProofs` |
| `TaskLifecycleProofs`, `ChannelProofs` | the theorems about `TaskLifecycle` and `Channel` | |

Each module that is checked has a section *Faults* with the wrong variants of
its actions; PROJECT.json ("mutants") says which property each one breaks. They
are not part of any specification.

### SoftLock

Contexts are levels `0 .. MaxLevel`; only the highest level that is inside the
lock executes. `pc[l]` walks through the closure (`access`) and the loop of
`AccessGuard::drop` (`swap`, `drain`, `unlock`, `check`, `relock`). The content
is the number of times each operation has been applied, the pend-only buffer is
the set of operations in it.

### Scheduler

Contexts are the tasks and the levels `1 .. NIrq + 1`; level 1 is shared by SVC
and PendSV, which have the same, lowest, priority. The soft lock of the ready
queue is modelled step by step. A blocked task sits in `waiting`, which stands
for every wait object. Work done under the soft lock, where other contexts can
only pend, is one step: the body of `pick_next`, the insertion into the list,
one round of `run_pended_op`. Suspensions that are opened and closed within
such a step (`with_cur_task` inside `run_pended_op`, the callback lock of
`pick_next`) are nested in one that stays open, so they cannot trigger a switch
and are left out. `entry` is a history variable.

`SuspendedPriorityChange` says whether user code calls `change_current_priority`
with the scheduler suspended; `Calls` selects the kernel calls tasks make.

### WaitQueue and Semaphore

The soft lock is taken at its word, which `SoftLockKeepsPromise` justifies: the
holder leaves only when `notify_cnt` is zero. The scheduler may pick any ready
task when the current one is outside a suspended section, which includes every
priority order. `wait_until` is split where an interrupt makes a difference:
taking the lock, evaluating the predicate, inserting the task, leaving.

### Mutex

`guard` says who has the raw spin lock of a mutex, `owner` is the field that the
code keeps beside it, and `owner_locked` the spin lock around that field. Locking
is split into the attempt, the inheritance with the owner field locked, and the
wait; the drop of a guard into its three parts, between which any task may be
picked. `priority` is the effective priority and `intrinsic` the task's own; a
`TaskPriority` is `Inherited` exactly when they differ. The data that a condition
variable is about is one Boolean, set by `signal` under the mutex and consumed by
the task that finds it true in `wait_until_with_lock`; `monitor` is the condition
variable in whose loop a task is. There the guard is dropped with the scheduler
suspended, so its parts are one step. A try_lock that fails changes nothing and
is not a call of its own; one that succeeds is the first half of `lock`.

### SleepQueue, SleepClients and Mailbox

Here the soft lock is kept as its two flags, because what the holder does in
`run_pended_op` is the interesting part: the flag `time_to_wakeup` is read, the
expired tasks are woken, `delete_buffer` is drained and the flag is cleared in
four steps with interrupts in between. The counter `TICKS` wraps at twice `Half`
(2^31 in the code); `tick + ms` wraps too, as in a release build. Real time is the
history `left` (ticks until the sleep of a task is over, negative when it is
late) and `until_barrier`. `wake_tick` is `Task::wake_at_tick`, and before the
task is in the queue the local variable that becomes it. Variables that are
overwritten before they are read again are reset when a call returns.
`delete_buffer` is a sequence of at most `BufferSize` entries (`MAX_TASK_NUMBER` in the
code); the context that finds it full stays in `die`, with the lock taken.

`SleepClients` mixes what tasks use the queue for: they sleep, have a barrier, and
wait with a timeout for something that a `Remover` may send. Of the mailbox it keeps
whether the task is on record (`recorded`) and that nobody else gets at the record
while the task is inside the lock; all else about mailboxes is in `Mailbox`.
`outlived` says that, as the task blocked in a sleep, a removal meant for an earlier
wait of it was still in `delete_buffer` (see Observations); `NoEarlyWakeup` names this
as the one way a sleep or a barrier ends before its time.

A mailbox is named by the task that waits on it (the code dies on a second
waiter). `wait_task` says whether a task is recorded and with which kind of wait;
the task itself lies in the sleep queue when it has a timeout. `owed` counts the
notifications sent and not yet reported. The steps of `Mailbox` that touch the
sleep queue go through the steps of `SleepQueue`, nested inside the lock of the
mailbox, as in the code. `stale` remembers that a removal which a notification
left in `delete_buffer` outlived the wait it was meant for (see Observations);
`EarlyFalseOnlyIfStale` says that nothing else makes a wait return `false` before
its time.

### Heap

Memory is a function from word addresses to words, and a word is a header: a
size and two flags (a footer has no flags). The allocator reads and writes it as
the code does, so a wrong flag makes a later merge read a size from the payload of
somebody; `Junk`, what users write, looks like a free header and like a footer.
Words that nobody owns keep what was last written there. The lists of free chunks
are sets of the addresses to which the 16-bit links lead: a link counts words from
`LinkOffset`, so that the heap has to end within 256 KiB of it (`LinkAssumption`; the
comment at `heap.rs:67` has links count from 0x20000000, the code from the linker's
symbol). The search takes any fitting member of the first list that has one:
every order of the lists is covered. A call is one step because SVC, PendSV and
the boot code do not preempt each other and interrupt handlers may not call.

### TaskLifecycle

One task of the application, of any kind (plain, restartable, restartable in
place only) and stack configuration. `Slot` holds its task structs: one, or two
while an old instance unwinds and a restarted one runs. `frames[i]` are the active
functions of instance `i`: the trampoline (`entry`), functions with a landing pad
(`guard`), drop handlers and others, each with the stacklet it runs on and whether
its prologue had asked for it. Prologues and epilogues are compiled code, which
`unwind/forced.rs` describes; they are marked external in the map. `pc[i]` follows
an unwinding: `panic` or `divert` (start of `start_unwind_entry`), `create`, `unwind`
and `step` (the unwinder, on a stacklet of its own), `pad` (a landing pad with the
drop handlers it calls), `caught` and `clear` (the trampoline), `exit`. `catch` is
the `catch_unwind` of the trampoline in which an instance is; the second one is
there because clearing the unwinding flag puts the limit in force again. Between the
two, and before the first, it is `none`: there the trampoline clones the closure and
enters `catch_unwind`, and an unwinding ends in `uncaught`, where the code dies. The SVC
handlers run to the end, and instances share nothing but the fields named in
`struct`, so that one action per handler is enough. `unwinds` and `outcome` are
history. Left out: panics inside drop handlers, panics of interrupt handlers, and
the cache against hot splits, whose effect is that a request may be of any size.

### Unwinder

`TaskLifecycle` follows who owns a stacklet; `Unwinder` follows the registers.
Functions with chosen prologues and call sites are assembled into an index and a
table of bytes (`Assembler`, after the architecture's exception-handling ABI). The
code runs (`call`, with or without a new stacklet; the trap frame that `svc_less_stack`
will restore lies on the new stacklet, 4 bytes longer when the stack pointer was not
a multiple of 8), panics at any call, and from then on every action is code of
`unwind.rs`: the binary search by halves (`get_for_pc`, `bisect`), one unwind
instruction at a time (`apply`), the return to the caller or over a stacklet
boundary (`step_return`), one call-site entry at a time (`find_pad`,
`next_call_site`), the landing pad. Any error ends in the phase `dead`. The
decoders of `UnwTable` and `UnwLsda` are pure operators on byte sequences;
numbers of 28 bits and more, which no table of these programs contains but a
misread one may, are the value `Wide`; a LEB128 of more than 64 bits is an error. `calls` keeps what each function's registers
were when it made its call: the truth that `RestoresCaller` compares with.

### Channel

Each call reserves on one semaphore, works on the ring buffer, and signals the
other semaphore. A semaphore call is atomic, which `ImplementsCounting` of
`Semaphore` justifies. The ring buffer is external: a call claims a position (a
`compare_exchange` that succeeds only if the sequence number of the cell says that
the cell is ready) and then moves the element and hands the cell over. Between the
two steps others run. A call that finds its cell not ready gets an error and goes
to `die`, which it never leaves. `ImplementsFifo` places the effect of a call at
its claim.

### SpinLock

`pos[c]` is where context `c` is in a call: an instruction, the number of the
condition of the lock that it is for, the call and the lock. `Hold` and `Unhold` say
which instruction a condition begins with: after `is_locked` the conditions are held
in order (`suspend`; mask bit or `BASEPRI`, then the counter) up to `acquire`, and after
a failure, or when a guard is dropped, they are released in reverse. Between any two accesses an interrupt that is neither masked nor less
urgent than the running handler may arrive, and another task may run if the
scheduler is not suspended. Lock types are sequences of conditions: `Spin` holds
`<<>>`, `SpinIrqSafe<(I, J)>` `<<I, J>>`, `SpinSchedIrqSafe<I>` `<<"sched", I>>`.
`SpinIrqSafe<AllIrqExceptSvc>` suspends the scheduler by itself (`mask.rs:82`). The
locks that a context may take while it has others are `Nesting`, a constant; guards
are dropped in any order.

`__disable_recursive` and `__enable_recursive` change the mask and the counter of an
interrupt in two steps. The history variable `torn` has the interrupts on whose mask or
counter one context worked while another was between the two; it loses an interrupt
again when it is masked anew outside of its handler with nobody in between. A
`SpinIrqSafe<I>` leaves the scheduler running and can be torn by a second task that uses
it; `ConditionsHeld` makes exactly this exception.

`Discipline` is what the code leaves to the users of the locks, and only what is said
about spinning depends on it: no lock is taken twice, and none that leaves the
scheduler running inside one that suspends it (`NestingOrder`); a lock shared with a
handler masks it, as the documentation of `SpinIrqSafe` and `irq!` says
(`SharedWithHandlers`); and the kernel's `lock_now_or_die` is for locks that nobody else
can have (`NoContention`).

## Runs

| run | instance | shows |
|---|---|---|
| `soft_lock` | 3 levels, 4 operations | the invariants, the refinement and eventual application |
| `scheduler` | idle + 2 tasks, 2 nested interrupts, all calls | all safety properties |
| `scheduler_live` | idle + 2 tasks, 1 interrupt | the urgent task runs, idle gives way |
| `semaphore` | 2 tasks, 1 interrupt, capacity 2 | no lost wake-up, exactly-once calls, waiters proceed |
| `mutex` | 3 tasks of 2 priorities, a mutex with a condition variable, 1 interrupt | the recorded owner has the guard, no inherited priority outlives it, no lost wake-up |
| `sleep_queue` | 2 tasks, 3-bit ticks, sleeps and timeouts of 0 and 2 ticks, a barrier, an interrupt above SysTick that takes the waiting task out, `delete_buffer` of one entry | nobody wakes early but for a removal that outlived its wait, the queue stays sorted across the wrap |
| `mailbox` | a waiter, SysTick, an interrupt below and one above it that notify, `delete_buffer` of one entry | notifications conserved, one owner for a blocked task, every wait returns that should unless a full buffer halts the system |
| `heap` | 80 bytes, 3 size classes, requests that need 16, 24 and 48 bytes | the chunks tile the heap, tags are truthful, neighbours are merged, counters exact; payloads are untouched |
| `lifecycle` | 3 structs, call depth 3, up to 3 unwindings, static stack, limited and unlimited dynamic stack | stacklets and limit, forced unwinding, restart |
| `unwinder` | 3 programs of 1, 4 and 5 functions, every call chain of depth up to 3, each call with and without a new stacklet | registers restored, pads in order, the panic caught |
| `channel` | 2 tasks that make all four calls, 1 interrupt that makes the two `try_` calls, capacity 2, 2 elements | refinement of `BoundedFifo`, reserved calls return, the one assertion that can fail |
| `spin_lock` | 2 tasks, 2 nested interrupts, 5 locks, among them a `SpinIrqSafe` that both tasks take | conditions in effect, spinners can proceed, nothing left behind |

Bounds. Three soft lock levels let a pending interrupt itself be preempted by
one that pends, and four operations let the holder be caught again after it has
drained. In the scheduler two interrupt levels over PendSV over a task give a
stack of four contexts; two user tasks plus idle give the notifier, the woken
and the preempted task, and `MAX_TASK_NUMBER = 4` lets two spawners race for the
last quota. `MaxNotify` only keeps interrupts from arriving without end while a
task stands still inside a wait queue. In `mutex` one task is
more urgent than the other two, so that one inherits, one is passed over and one
comes in between; tasks may change between both priorities. The tick counter has 3 bits and starts at
6 or 7, so that it wraps while tasks are in the queue, and durations stay below
half its range as `sleep_ms` demands. `MaxTicksPerHold` limits the ticks that come
while one context holds the queue (two in `mailbox`, so that one can be forgotten),
`MaxAhead` how far ahead a barrier may be when a task waits at it, `MaxLag` those between reading the clock and
being queued, `MaxLate`, at least their sum, is where the history `left` stops
counting, and `MaxOwed`
limits the notifications not yet reported; two are enough for one to be counted or under
way while another comes, from the same side of SysTick or from the other.
In 80 bytes up to five chunks lie side by side, so that a
freed chunk has free neighbours on either side or on both, and with the classes
cut off at 64 bytes the last, open-ended list is in use. In `semaphore` two tasks
can both wait while the interrupt is the one that notifies, or one can overtake the
other. In `lifecycle` two functions below the trampoline are enough for a drop
handler under a landing pad, a drop handler under another and a callee of one that
overflows; one extension fits into the limit of 3 and a second does not, with the
usage that one unwinding leaves behind a first still fits; and three unwindings with
room for three structs give a restarted instance that panics while its origin
unwinds, and again after it is gone. The run does not check deadlock because a task
ends.

The programs of `unwinder` have what makes tables differ: an index of one entry, an
even and an odd number of entries, functions that border on each other and that do
not, the three table forms and "cannot unwind", calls at the first and the last
address of a function, call sites that touch, with and without pad, two pointer
encodings, frame pointers, floating-point saves, and locals that need the short, the
double and the ULEB form of an addition. With capacity 2 and three callers one
producer can be preempted between claiming and filling, a second complete and a
consumer come in between; `Modulus = 2 N` is the smallest for which positions wrap
as a byte does. In `spin_lock` one handler interrupts the other, a task nests up to
three locks that hold the same interrupt and drops them in any order, both tasks take
a `Spin` and a `SpinIrqSafe` with the scheduler running, so that its mask and counter do
come apart and a try_lock does fail with the condition held, and the less urgent
handler takes every lock that holds its interrupt.

Fairness. An interrupted context goes on, a handler returns, a weak
`compare_exchange` does not fail spuriously for ever, and user code does not
hold a suspension for ever; strong fairness, because an interrupt disables what
it preempts. The scheduler runs do not assume that user code ever yields or
blocks. `semaphore` also assumes that every ready task is eventually picked,
which the scheduler grants once more urgent tasks block. `mailbox` assumes
in addition that SysTick keeps ticking; no task has to call and nobody has to
notify. `unwinder` assumes only that the unwinding task gets the CPU (weak
fairness): it is never blocked. `channel` has weak fairness for handlers and strong
fairness for tasks, which take turns; nobody has to begin a call.

## Observations

Passing runs keep out, by a constant or by a case that the property names, what the
code does not promise or where it departs from what the repository says of it:

* `change_current_priority` (`current.rs:27`) calls `yield_current_task` without the
  test that `yield_current` makes (`:11`). Called with a `SpinSchedSafe` guard it
  enters `pick_next` suspended and the kernel dies (`scheduler.rs:188`). In
  `Scheduler`, `SuspendedPriorityChange = TRUE` makes `NeverDies` fail; the runs
  have it `FALSE`.
* `wait_until_timeout` returns "`true` if the waiting task is woken up by
  notification, or `false` if by timeout" (`mailbox.rs:234`). A task that has timed
  out and not yet run is still recorded as waiting; a notification that finds the
  sleep queue locked puts it into `delete_buffer`; `run_pended_op` does not look
  there without a tick (`time/mod.rs:94`), and the next tick takes the task out of
  the queue in its next wait or sleep, which ends early. This is the case that
  `EarlyFalseOnlyIfStale` excepts; without the exception it fails. In the same way a
  `sleep_ms`, said to "block the task for the given number of milliseconds"
  (`time/mod.rs:131`), or a barrier ends early, since neither looks at the clock again:
  the exception `outlived` of `NoEarlyWakeup`. After that the barrier is ahead of the
  clock by more than its interval, and by up to an interval more each time it happens.
* `delete_buffer` has room for as many entries as there may be tasks, but a task can
  have two: a removal that is pended alone stays until the next tick, and the task's
  next wait can be notified before it. When more than half of `MAX_TASK_NUMBER` tasks
  have two entries within a tick the notifier halts the system (`time/mod.rs:196`).
  `NotifiedReturns` names this; with `BufferSize = 1` it happens in the runs.
* "If the channel buffer is empty, the task will be blocked until there is an
  element" (`channel.rs:49`). When a producer is preempted between claiming and filling
  its cell and a second producer completes, a consumer is let through by the second
  one's signal, finds the first cell unfinished and halts the system (`:54`);
  likewise with two consumers and a producer. `DiesOnlyOnUnfinishedCell` names this
  case and excludes every other.
* "The associated IRQ will be masked until the guard is dropped"
  (`spin_lock.rs:318`). `__disable_recursive` masks first and counts afterwards,
  `__enable_recursive` counts first and unmasks afterwards (`declare.rs:38`, `:46`). When
  the scheduler is not suspended by the lock, one task can be switched out between
  its `fetch_sub` and its `unmask`, a second mask and count, and the first then
  unmasks under the second one's guard, with a `SpinIrqSafe<I>` that two tasks use as
  in the example at `declare.rs:22`. It happens too with a tuple `(I, J)` whose locks a
  handler of `I` uses while a task is between the two steps for `J`. `ConditionsHeld`
  excepts interrupts that are `torn` in this way; without the exception it fails in
  `spin_lock`. A handler that comes in there can find its lock taken by the task it
  interrupted, and spins for ever: the exception in `SpinnersCanProceed`. The counters
  stay right all the same (`NothingLeftBehind` has no exception), and neither the
  suspension nor `AllIrqExceptSvc` is affected.
* With durations up to `Half - 1` and `MaxLag = 1` `QueueOrdered` fails: a task
  preempted between reading the tick (`time/mod.rs:151`) and queuing itself
  (`:181`) is inserted overdue, and a maximal sleeper sorts before it. Hence the
  hypothesis `WithinMargin` of `QueueStaysOrdered`, which `MCSleepQueue` satisfies.
* `wait_until_timeout` (`mailbox.rs:277`) lacks the limit that `sleep_ms` puts on
  the duration; a timeout of half the range or more returns at once. Hence the
  hypothesis `TimeoutsBelowHalf` of `FalseOnlyAfterTheTime`, which `MCMailbox` satisfies.
* A tick that is pended after the expired tasks were woken and before the flag is
  cleared (`time/mod.rs:96`) is forgotten until the next tick, so that a task may be
  woken a tick late. It happens in `mailbox`, with `MaxTicksPerHold = 2`.
* A trampoline that restarts in place clones the closure and enters `catch_unwind`
  outside of both catches, with the unwinding flag cleared and the limit in force again
  (`trampoline.rs:57`). A panic of `clone()` or a diverted call there is caught by nobody,
  and the system halts in `unwind_next_function` (`unwind.rs:1083`): the catch that is to
  detect a limit too small to restart (`trampoline.rs:86`) covers only the clearing of
  the flag. The step `uncaught` of `TaskLifecycle`; the properties of the run hold with it.
* `try_lock` of a mutex is meant for interrupt handlers too (`mutex.rs:115`), but a
  handler that drops its guard while a preempted task has the owner field locked
  (`mutex.rs:157`) finds it locked, and the kernel dies. That is the only way a
  context of `Mutex` gets stuck, which is why its run does not check deadlock and
  `OwnerTruthful` speaks of tasks.
* A priority is inherited once, before the wait, and given back before the raw
  lock is free (`mutex.rs:198` and `:210`): a task of medium priority can preempt
  the holder there, a newcomer that takes the lock first is not raised, and
  dropping one of two nested mutexes gives back what was inherited for the other.
  The running task lowers its priority there without a yield; `Scheduler` has no
  inheritance, so that `NoMissedPreemption` does not speak of that moment.
* `cumulated_size`, "Cumulative size of all stacklets allocated for a task"
  (`segmented_stack.rs:132`), only grows with every unwinding: `unwind_land` frees the
  unwinder's stacklet without taking back its 2048 bytes (`:549`) and a diverted
  call leaves its request added (`:340`). It errs on the safe side, so that the limit
  in `StackletsSound` holds, but a task with a limit that restarts in place has less
  stack after every panic, until each call is diverted and its trampoline gives up.
  The limit is checked against extensions only, while `task_struct.rs:131` speaks of
  "all stacklets", which may be read to include the first; `StackletsSound` follows the code.
* The unwinder takes what follows every `.ARM.extab` entry for language-specific
  data, also after the compact forms that have none (`unwind.rs:120`). The model does
  so too, but in its three programs what is decoded there matches no call, so that the
  run says nothing about programs where it does. `Finish` does not end
  the loop of `step`, which is harmless because only `Finish` follows it.
* `RegPop` asks whether the stack pointer is in the mask with `mask & 13` instead of
  `mask & (1 << 13)` (`unwind.rs:643`), which also looks at r0, r2 and r3. A prologue
  that saves callee-saved registers has none of these in its mask, so the answer is
  right.
* A breathing task has its permit before it has the guard that returns it
  (`breathing.rs`: `down()`, then `SemGuard`): a stack overflow inside `down`, after the
  count was taken, loses the permit.
* The idle task is said to "endlessly yield" (`idle.rs:25`) but yields once and
  then sleeps, so that with `ALLOW_TASK_PREEMPTION = FALSE` it does not give way;
  `condvar.rs:24` speaks of first-in first-out order where the wait queue pops the
  most urgent task (`wait_queue.rs:309`); and `mcu_malloc` returns null "when the
  requested size cannot be satisfied" (`heap.rs:546`) although a free chunk of the
  request's own size class may fit, since the search starts one class higher.

## Proofs

The theorems hold for every value of the constants that satisfies the assumptions
named in the modules, so for any number of tasks, interrupt levels, priorities,
queues, mailboxes and stacklets, and any size of memory. For each component an
inductive invariant is stated, which TLC checked on the instance of the run before it
was proved; it is proved that it holds initially and that each action keeps it, and
the invariants of the runs are derived from it. The hypotheses of four groups of
theorems that are not assumptions on the model's constants in general
(`~SuspendedPriorityChange`, `Discipline`, `WithinMargin`, `TimeoutsBelowHalf`) each have
their reason under *Observations* and hold for the instance that TLC checks.

### BaseProofs

*Soft lock.* For every `MaxLevel` and every set `Op`. Mutual exclusion is not inductive by
itself: it needs that a pend-only context always has a holder below it, that a
context which has released the lock and still looks at the flag lies below any new
holder (so it cannot run until that one has left), and, for the operations, where a
pended operation can be and which flag or level vouches for it.

* `TypeCorrect`, `Invariance`, and from them `FullAccessIsExclusive`,
  `SpinLoopsUnreachable`, `NoOperationIsMissed`, `AppliedExactlyOnce`.
* `SoftLockKeepsPromise`: every step of `SoftLock` is a step of `PendableOps` or
  leaves its variables alone.

*Heap.* For every memory of at least one chunk that ends at a multiple of 8, every set
of requests, every size of the cache and whatever users write (`MemoryAssumption`,
`ListAssumption`, `RequestAssumption`, `JunkAssumption`). `HeapInv` is `HeapSound` and
`PayloadIntact` with the types, that headers lie 4 bytes before a multiple of 8
(`Aligned`), and that every chunk but the first begins where another ends
(`Connected`). The last is what makes merging to the left sound: the word before a chunk
is then the footer of a chunk and not of somebody's payload, and its size leads to a
header. Each of the three outcomes of an allocation and the two of a free keeps the
four parts of `HeapSound`; that `CUR_ALLOC_SIZE` is exact is shown with cardinalities
of sets of bytes.

* `HeapInvariant`, `HeapIsSound`, `PayloadStaysIntact`.

*Spin locks.* For all finite sets of tasks and interrupts, all urgencies and lock types,
and whoever takes which lock when. The counters are related to what they count: a hold is
a triple of a context, a lock and the place of a condition in that lock; `SUSPEND_CNT`
is the number of triples that suspend (`SuspensionsOK`), `mask_cnt[h]` of those that mask
`h` (`MaskingOK`), and `InForce` says which conditions of a call are in effect at each of
its instructions. An interrupt that is masked is counted or somebody is between the two
steps for it. Unless it is torn the converse holds, at most one context is between, and
after the last `fetch_sub` nobody counts it until the `unmask`. That the suspension and
`AllIrqExceptSvc` are never torn is `BetweenAllOK` and `OffStackOK`: a task that is
switched out suspends nothing, and nobody interrupts a context that masks everything.

* `SpinInvariance`, `HeldConditionsInEffect` (`ConditionsHeld`), `EverythingGivenBack`
  (`NothingLeftBehind`), without a hypothesis on the use of the locks.
* `SpinnersProceed` (`SpinnersCanProceed`), under `Discipline`. It adds `InterruptedOK`
  (whom a handler has interrupted has none of its locks, unless the interrupt is torn)
  and `NowOK` (a `lock_now_or_die` never gives back what it holds).

### SchedulerProofs

`IInv` has eight parts. `SuspensionInv` says that `SUSPEND_CNT` is what the contexts
on the stack of preempted contexts own together; it is not inductive, because a
context that resumes must find a count that covers what *it* owns, hence
`CoversCurrent`, and because what a context owns depends on its step, hence
`ControlInv`. `PlaceInv` says in which list or in whose hands each task struct is and
that its state agrees; `CurrentInv` that the current task has left `Running` only on
its way to `pick_next`; `QuotaInv` what `EXIST_TASK_NUM` counts; `PendedInv` who will
drain `insert_buffer`; `PreemptInv` who will act on `PENDING_CTXT_SWITCH`.

* `SuspensionsAddUp`, `KernelNeverGivesUp` (`NeverDies`: no `die`, panic or overflow of
  `insert_buffer`), `QuotaIsExact`, `TasksInOnePlace`, `PreemptionNotMissed`,
  `TypeCorrectness`.

All of them have the hypothesis `~SuspendedPriorityChange`: user code does not call
`change_current_priority` with the scheduler suspended. Nothing in the kernel does,
and with such a call `NeverDies` is false (see *Observations*), so the hypothesis is
needed. Beyond that: idle and first task differ, no task is a number, there is a
quota for two tasks, and no task has the priority of the idle task.

### TaskListProofs, SemaphoreProofs, MutexProofs

`TaskListProofs` has what insertion at a sorted place, `Without` and the choice of the
most urgent task do to the members of a list and to its being free of repetitions.

For the semaphore, `Backed` is the heart of the invariant: if somebody waits, what the
counter allows is at most the number of tasks that will look again, plus the
announcements under way, plus the pended ones. `NoLostWakeup` looks at tasks that are
in a queue; the invariant has to look already at a task that has evaluated its
predicate and is not in the queue yet, which is where an interrupt can come between.
`LockInv` and `QueueInv` say that a queue's lock has one holder and what a queued task
is doing.

* `NoWakeupIsLost`, `TypeCorrectness`, and `SemaphoreCounts`: `Semaphore` implements
  `CountingSemaphore`, step by step.

For mutexes the same argument is made twice, for waiting for the mutex (`MutexBacked`)
and for waiting with it (`MonitorBacked`), which needs `MonitorInv`: where a task in
`wait_until_with_lock` has given its guard away and where it has it back. `OwnerInv`
relates the owner field and the spin lock at every step of the drop of a guard.

* `OwnerIsTruthful`, `BoostEndsWithOwnership` (`InheritsWhileOwner`),
  `NoWakeupIsLost`, `TypeCorrectness`.

Assumptions (`SingleCore`): finitely many tasks, neither the tasks nor `Idle` are
numbers, since numbers name interrupt levels, and `Idle` is not a task of the model.

### MailboxProofs

`OwedInv` accounts for every notification: counted, pended, being told to a task that
was in the sleep queue, or claimed by a task that will return `true`. A notifier that
finds a task with a timeout carries the notification through the sleep queue before
it sets `task_notified`, so the account needs what each context is doing with which
mailbox (`ControlInv`, `CallInv`), who has which lock (`LockInv`) and what `Inner` may
hold meanwhile (`RecordInv`); `BlockedInv` says who will wake a blocked task.

* `NotificationsAreConserved`, `NoNotificationIsLost`, `OneOwnerAtATime`.

For these the sleep queue counts only through its lock and its members. The clock
comes in with three more results.

* `NobodyWakesEarly` (`NoEarlyWakeup`), for every `Half`, any number of tasks, of contexts
  that take them out and any capacity of `delete_buffer`, with the exception `outlived`.
  `SqTimes` says that a task that has read the clock wakes at the clock plus what it has
  `left`, modulo `2 * Half`, unless its time has come; `SqControl`
  what each step of a call has, and that whoever takes a task out has found it in a wait
  with a timeout; so that, by `SqOwner`, the name of a sleeping task in `delete_buffer`
  was there as it blocked.
* `QueueStaysOrdered` (`QueueOrdered`), under `WithinMargin`: every duration plus the lag
  of a task on its way into the queue stays below half the range. `tick_cmp` is exact
  only for ticks less than half the range apart, so the invariant bounds how late a
  member of the queue can be (`SqFloor`) and how far a newcomer can be from the members
  (`SqGap`). The bound is subtle because ticks that come between waking the expired
  tasks and clearing the flag are forgotten.
* `FalseOnlyAfterTheTime` (`EarlyFalseOnlyIfStale`), under `TimeoutsBelowHalf`: a task in a
  wait with a timeout is not blocked any more only if its time has come, if it has been
  or is being told, or if it was found in a `delete_buffer` that is older than the wait.

### TaskLifecycleProofs

The invariant is about each task struct by itself (`SlotInv`) and about all of them
(`HeirInv`). `ControlOf` says what the flags of the struct are at each step, and with
it why no second unwinding begins; `FramesOf` that `nested_drop_cnt` counts the active
drop handlers and that a landing pad has called all of them; `ChainOf` and `OwnersOf`
which stacklet each function is on and which `prev` the stacklet of its callee has, so
that `less_stack` and `step` restore the boundary that `more_stack` replaced.
`HeirInv` says that besides the responsible instance only the one in its
`restarted_from` exists, which is what makes the test of `try_concurrent_restart`
sufficient.

* `NoInstanceUnwindsTwice`, `UnwindsOutsideDropHandlers`, `OneHeirAtATime`.
* `StackletsAreSound` (`StackletsSound`): every stacklet of a live instance has one owner,
  with a static stack application code has none, and with a dynamic stack what is
  allocated stays within the limit. For the last, `Usage` says that `cumulated_size` is
  at least the number of bytes allocated, which is the cardinality of a set of bytes,
  and that it was compared with the limit after every call that is not exempt.

### ChannelProofs

`AccountInv` says that the elements of the buffer are those the semaphore offers, those
reserved by a pop and those whose push has not signalled yet, and the same of the free
slots; it gives whoever has reserved its room or its element, and the counter room for
whoever signals. `CellInv` numbers the positions of one round from `dequeue_pos` on:
each cell has the sequence number of its turn or exactly one call at work in it, and a
call at work in a cell finds there what it left. That neighbouring positions never
share a cell although they wrap at `Modulus` is the arithmetic at the head of the
module, which needs the modulus to be a multiple of twice the capacity.

* `DiesOnlyOnUnfinished`: `DiesOnlyOnUnfinishedCell`.
* `ChannelIsFifo`: `Channel` implements `BoundedFifo`, with the claim of a position as
  the moment a call takes effect; until the move, an element is where its producer has
  it (`WithProducer`) and afterwards in its cell (`Stored`).

The semaphores are taken as `CountingSemaphore` promises them, which `SemaphoreCounts`
proves of `Semaphore`; the ring buffer is the external one of the model.

### What is only model-checked

* Liveness, and with it `ENABLED`: `EventuallyApplied`, `UrgentTaskRuns`,
  `WaitersProceed`, `NotifiedReturns`, `ReservedReturns`, `PanicIsCaught`.
* `RestoresCaller` and `RunsPadsInOrder` of `Unwinder`: what the decoders compute from a
  table is defined by recursion over its bytes, and that it undoes what `Assembler`
  wrote is an induction over data.

Every other property that a run checks is also stated by a theorem.

## Not modelled

* Assembly (register saving, memory routines), vector tables, boot, semihosting: no
  protocol state. Memory ordering: all atomics are `SeqCst` on one core.
* CPU load: statistics without a promise.
* Options of the task builder, and breathing tasks, which combine a semaphore and a
  restartable task (both modelled) in straight-line code.
* The copying of arguments and trap frames between stacklets, and the cache against
  hot splits.
* Panics of interrupt handlers; `Mutex::force_unlock`; the priority of SVC while
  `BASEPRI` is raised.
* What `MpMcQueue`, the hardware and the compiler do is modelled from how the code
  uses it and marked external in the map.
