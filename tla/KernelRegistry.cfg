\* Processes that exit and send messages to each other.
CONSTANTS
    NumTasks = 2
    NumKernelTasks = 1
    p0 = p0
    serial = serial
    Point = {p0}
    Entry = p0
    TickModulus = 5
    MayFault = {1}
    MayCrash = {}
    Name = {serial}
    MaxIrqs = 2
    BadBuffer = {1}
SPECIFICATION TraceSpec
INVARIANT
    RegistryFindsProcesses
