\* The system kernel_main starts, with up to two bytes of input.
CONSTANTS
    NumTasks = 2
    NumKernelTasks = 1
    Point <- Label
    Entry = "start"
    TickModulus = 5
    MayFault = {1}
    MayCrash = {}
    serial = serial
    Name = {serial}
    MaxIrqs = 2
    BadBuffer = {}
    SERVICE_NAME_SERIAL = serial
SPECIFICATION EchoSpec
INVARIANTS
    EchoTypeOK
    EchoInOrder
    OnlyTheFaultyDies
PROPERTIES
    InputIsEchoed
    FaultyIsKilled
