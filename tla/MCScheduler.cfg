SPECIFICATION Spec
CONSTANTS
    idle = idle
    a = a
    b = b
    c = c
    Task <- TwoTasks
    Idle = idle
    Main = a
    NIrq = 2
    MAX_TASK_NUMBER = 4
    Level = {1, 2, 3}
    InitialPriority <- PrioOfTwo
    ALLOW_TASK_PREEMPTION = TRUE
    Calls = {"guard", "yield", "block", "priority", "spawn", "exit"}
    SuspendedPriorityChange = FALSE
INVARIANTS
    SuspensionInv
    NeverDies
    OnePlace
    NoMissedPreemption
    QuotaExact
