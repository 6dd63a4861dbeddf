SPECIFICATION FairSpec
CONSTANTS
    MaxLevel = 2
    o1 = o1
    o2 = o2
    o3 = o3
    o4 = o4
    Op <- MCOp
INVARIANTS
    MutualExclusion
    NeverHangs
    MissesNoOperation
    ExactlyOnce
PROPERTIES
    ImplementsPromise
    EventuallyApplied
CHECK_DEADLOCK FALSE
