------------------------------ MODULE MCChannel ------------------------------
EXTENDS Channel

CONSTANTS a, b, d1, d2

\* Two tasks that block and a handler that does not.
TwoTasks == {a, b}
TwoItems == {d1, d2}
AllCalls == [c \in {a, b, 1} |-> IF c = 1 THEN {"try_push", "try_pop"}
                                 ELSE {"push", "pop", "try_push", "try_pop"}]
=============================================================================
