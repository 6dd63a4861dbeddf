SPECIFICATION FairSpec
CONSTANTS
    idle = idle
    a = a
    b = b
    Task <- TwoTasks
    Idle = idle
    NIrq = 1
    WQ = {"cv_incremented", "cv_decremented"}
    Priority <- PriorityOfTwo
    max_count = 2
    init_count = 0
    MaxNotify = 2
INVARIANTS
    NoLostWakeup
PROPERTIES
    ImplementsCounting
    WaitersProceed
