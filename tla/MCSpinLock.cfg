SPECIFICATION SpinSpec
CONSTANTS
    a = a
    b = b
    i = i
    j = j
    plain = plain
    timer = timer
    device = device
    both = both
    all = all
    Task <- TwoTasks
    Irq <- TwoIrqs
    Urgency <- Levels
    Lock <- FiveLocks
    Conditions <- FiveHolds
    Nesting <- Disciplined
    Uncontended = {all}
INVARIANTS
    ConditionsHeld
    SpinnersCanProceed
    NothingLeftBehind
