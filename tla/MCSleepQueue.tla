--------------------------- MODULE MCSleepQueue ---------------------------
EXTENDS SleepClients

CONSTANTS idle, a, b

TwoTasks == {a, b}
CallsOfEach == a :> {"sleep", "barrier", "timeout"} @@ b :> {"sleep"}

\* The hypothesis of QueueStaysOrdered holds here.
ASSUME MarginHolds == WithinMargin
=============================================================================
