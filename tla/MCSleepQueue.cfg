SPECIFICATION SleepSpec
CONSTANTS
    idle = idle
    a = a
    b = b
    Task <- TwoTasks
    Idle = idle
    NIrq = 2
    Half = 4
    SysTick = 1
    Durations = {0, 2}
    Interval = 1
    Calls <- CallsOfEach
    BootedFor = 6
    BufferSize = 1
    MaxTicksPerHold = 1
    MaxLag = 1
    MaxLate = 2
    MaxAhead = 2
    Remover = {2}
INVARIANTS
    NoEarlyWakeup
    QueueOrdered
