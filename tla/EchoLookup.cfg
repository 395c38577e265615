\* What B learns from SYS_GET_SERVICE_PID.
CONSTANTS
    NumTasks = 2
    NumKernelTasks = 1
    Point <- Label
    Entry = "start"
    TickModulus = 5
    MayFault = {1}
    MayCrash = {}
    serial = serial
    Name = {serial}
    MaxIrqs = 1
    BadBuffer = {}
    SERVICE_NAME_SERIAL = serial
SPECIFICATION EchoSpec
INVARIANT
    LookupFindsServer
