\* The configuration kernel_main sets up: two processes, of which the second
\* may fault, and one asynchronous kernel task.
CONSTANTS
    NumTasks = 2
    NumKernelTasks = 1
    p0 = p0
    serial = serial
    Point = {p0}
    Entry = p0
    TickModulus = 5
    MayFault = {1}
    MayCrash = {0}
    Name = {serial}
    MaxIrqs = 2
    BadBuffer = {1}
SPECIFICATION KernelSpec
INVARIANTS
    KernelTypeOK
    ServicesNeverForeign
    MailInOrder
PROPERTY
    ImplementsScheduler
