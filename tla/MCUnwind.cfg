SPECIFICATION FairSpec
CONSTANTS
    Functions <- Program
    CodeEnd = 900
    Bottoms = {0, 20, 80}
    MaxFrames = 3
    MAX_BACKTRACES = 2
    Ignore = 1
    StackPointer = 1000
    FramePointers = {0, 996, 1000, 410600, 410604}
INVARIANTS TypeOK StoreInBounds CallersFound
PROPERTIES BacktraceEnds
CHECK_DEADLOCK FALSE
