SPECIFICATION FairSpec
CONSTANTS
    Images <- MCImages
    MaxDepth = 3
    StackTop = 40000
    StackletGap = 8000
    LessStack = 3001
INVARIANTS
    RestoresCaller
    RunsPadsInOrder
PROPERTIES
    PanicIsCaught
