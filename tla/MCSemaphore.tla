---------------------------- MODULE MCSemaphore ----------------------------
EXTENDS Semaphore

CONSTANTS idle, a, b

TwoTasks == {a, b}
PriorityOfTwo == [t \in TwoTasks |-> IF t = a THEN 1 ELSE 2]
=============================================================================
