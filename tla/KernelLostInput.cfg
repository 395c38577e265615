\* A process faults inside SYS_RECV, then input arrives.
CONSTANTS
    NumTasks = 2
    NumKernelTasks = 1
    p0 = p0
    serial = serial
    Point = {p0}
    Entry = p0
    TickModulus = 5
    MayFault = {1}
    MayCrash = {}
    Name = {serial}
    MaxIrqs = 2
    BadBuffer = {1}
SPECIFICATION KernelSpec
PROPERTY
    EveryInputIsPosted
