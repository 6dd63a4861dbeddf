SPECIFICATION FairSpec
CONSTANTS
    idle = idle
    a = a
    b = b
    c = c
    Task <- TwoTasks
    Idle = idle
    Main = a
    NIrq = 1
    MAX_TASK_NUMBER = 4
    Level = {1, 2, 3}
    InitialPriority <- PrioOfTwo
    ALLOW_TASK_PREEMPTION = TRUE
    Calls = {"guard", "yield", "block", "spawn", "exit"}
    SuspendedPriorityChange = FALSE
PROPERTIES
    UrgentTaskRuns
