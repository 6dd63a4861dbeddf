---------------------------- MODULE MCSpinLock ----------------------------
EXTENDS SpinLock

CONSTANTS a, b, i, j, plain, timer, device, both, all

TwoTasks == {a, b}
TwoIrqs == {i, j}
\* j interrupts i.
Levels == [e \in {i, j} |-> IF e = i THEN 1 ELSE 2]

\* A Spin, a SpinIrqSafe<I> as in the example of irq!, a SpinSchedIrqSafe<I>,
\* a SpinSchedIrqSafe<(I, J)> and a SpinIrqSafe<AllIrqExceptSvc>.
FiveLocks == {plain, timer, device, both, all}
FiveHolds == [l \in FiveLocks |->
                 CASE l = plain -> <<>> [] l = timer -> <<i>> [] l = device -> <<"sched", i>>
                   [] l = both -> <<"sched", i, j>> [] l = all -> <<"all">>]
Disciplined ==
    [c \in {a, b, i, j} |->
        CASE c = a -> {<<{}, plain>>, <<{}, timer>>, <<{timer}, device>>, <<{device}, both>>,
                       <<{timer, device}, both>>}
          [] c = b -> {<<{}, plain>>, <<{}, timer>>, <<{}, all>>, <<{all}, device>>}
          [] c = i -> {<<{}, timer>>, <<{}, device>>, <<{}, both>>}
          [] c = j -> {<<{}, all>>}]

\* The hypothesis of the theorem about spinning holds for these.
ASSUME DisciplineHolds == Discipline
=============================================================================
