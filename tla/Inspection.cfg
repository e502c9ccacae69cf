SPECIFICATION ISpec
CONSTANTS
    ByteBits = 2
    FerCount = 4
    MemSize = 2048
    ImageSize = 256
    AllSize = 192
    Words = {0, 1, 32768, 42435, 65535}
    Stacks <- SmallStacks
    Spaces = {4, 300}
    Codes = {7, 40, 257}
    MaxOps = 2
    MaxFrames = 3
    MaxSteps = 6
    DataBases = {0, 8}
    MaxSets = 1
INVARIANT ArithmeticExact
INVARIANT FramesIntact
PROPERTY Restored
PROPERTY NothingElseTouched
PROPERTY ConditionMeans
PROPERTY WatchFires
