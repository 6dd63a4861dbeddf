SPECIFICATION Spec
CONSTANTS
    idle = idle
    a = a
    b = b
    c = c
    Task <- ThreeTasks
    Idle = idle
    NIrq = 1
    WQ = {"m", "v"}
    Mtx = {"m"}
    CV = {"v"}
    MutexOf <- OneMutex
    Level = {1, 2}
    InitialPriority <- ThreePriorities
    Calls = {"lock", "priority"}
    IrqCalls = {"notify", "try_lock"}
    MaxNotify = 1
INVARIANTS
    OwnerTruthful
    InheritsWhileOwner
    NoLostWakeup
CHECK_DEADLOCK FALSE
SYMMETRY Symmetry
