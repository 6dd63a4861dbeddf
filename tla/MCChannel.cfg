SPECIFICATION FairSpec
CONSTANTS
    a = a
    b = b
    d1 = d1
    d2 = d2
    Task <- TwoTasks
    NIrq = 1
    N = 2
    Modulus = 4
    Data <- TwoItems
    NoItem = NoItem
    Calls <- AllCalls
PROPERTIES
    DiesOnlyOnUnfinishedCell
    ImplementsFifo
    ReservedReturns
