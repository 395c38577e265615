\* The boot of two processes over many memory maps and program images.
CONSTANTS
    MemoryMaps <- MCMemoryMaps
    Images <- MCImages
    PageSize = 4
    FanOut = 8
    BootTables <- MCBootTables
    HeapStart = 48
    HeapSize = 100
    UserKStack = 32
    TaskKStack = 16
    SmallObjects = 3
    StackStart <- MCStackStart
    StackPages = 8
SPECIFICATION MemSpec
INVARIANTS
    MemTypeOK
    FramesListed
    FramesExclusive
    FramesUsable
    ImageLoaded
    StacksUsable
    BootVerdict
PROPERTY
    BootOutcome
\* kernel_main ends: in the first process or in a panic.
CHECK_DEADLOCK FALSE
