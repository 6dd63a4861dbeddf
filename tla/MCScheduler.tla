---------------------------- MODULE MCScheduler ----------------------------
EXTENDS Scheduler

CONSTANTS idle, a, b, c

TwoTasks == {idle, a, b}
ThreeTasks == {idle, a, b, c}
\* a is the most urgent, b and c share a level
Prio(t) == IF t = idle THEN 3 ELSE IF t = a THEN 1 ELSE 2
PrioOfTwo == [t \in TwoTasks |-> Prio(t)]
PrioOfThree == [t \in ThreeTasks |-> Prio(t)]
=============================================================================
