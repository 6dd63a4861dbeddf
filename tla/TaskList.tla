------------------------------ MODULE TaskList ------------------------------
(***************************************************************************)
(* The linked lists of tasks of src/task/task_list.rs, for the primitives  *)
(* that block tasks in one.                                                *)
(***************************************************************************)
EXTENDS Naturals, FiniteSets, SequencesExt

Has(list, t) == \E i \in DOMAIN list : list[i] = t
Distinct(list) == \A i, j \in DOMAIN list : list[i] = list[j] => i = j

\* TaskListInterfaces::pop_highest_priority: the positions that are popped
\* before position i.
Ahead(priority, list, i) ==
    {j \in DOMAIN list : \/ priority[list[j]] < priority[list[i]]
                         \/ priority[list[j]] = priority[list[i]] /\ j < i}

\* The tasks that popping n times, or as often as there is one, comes to.
Popped(priority, list, n) ==
    {list[i] : i \in {j \in DOMAIN list : Cardinality(Ahead(priority, list, j)) < n}}

\* The list from which some tasks have been unlinked.
Without(list, ts) ==
    LET kept == {i \in DOMAIN list : list[i] \notin ts}
        nth(k) == CHOOSE i \in kept : Cardinality({j \in kept : j < i}) = k - 1
    IN  [k \in 1 .. Cardinality(kept) |-> list[nth(k)]]
=============================================================================
