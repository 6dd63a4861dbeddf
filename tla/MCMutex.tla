------------------------------ MODULE MCMutex ------------------------------
EXTENDS Mutex

CONSTANTS idle, a, b, c

ThreeTasks == {a, b, c}
ThreePriorities == [t \in ThreeTasks |-> IF t = a THEN 1 ELSE 2]
Symmetry == Permutations({b, c})
OneMutex == [v \in {"v"} |-> "m"]
=============================================================================
