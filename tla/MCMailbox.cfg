SPECIFICATION FairSpec
CONSTANTS
    idle = idle
    a = a
    Task <- OneTask
    Idle = idle
    NIrq = 3
    Half = 4
    SysTick = 2
    Durations = {2}
    Interval = 1
    Calls <- CallsOfEach
    BootedFor = 7
    BufferSize = 1
    MaxTicksPerHold = 2
    MaxLag = 2
    MaxLate = 4
    MaxAhead = 1
    Box <- OneTask
    Notifier <- BelowAndAbove
    MaxOwed = 2
INVARIANTS
    NotificationsConserved
    NoLostNotification
    OneOwner
    EarlyFalseOnlyIfStale
PROPERTIES
    NotifiedReturns
