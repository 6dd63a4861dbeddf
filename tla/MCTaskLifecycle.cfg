SPECIFICATION Spec
CONSTANTS
    Slot = {s1, s2, s3}
    NoSlot = NoSlot
    StackConfig <- MCStackConfig
    Sizes = {2}
    UnwinderSize = 1
    MaxDepth = 3
    MaxUnwinds = 3
SYMMETRY Slots
CHECK_DEADLOCK FALSE
INVARIANTS
    NeverUnwindsTwice
    StackletsSound
    ForcedUnwindOutsideDrop
    OneHeir
