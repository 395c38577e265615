\* run_ready_tasks called by the interrupt handlers, as kernel_main sets it up, and
\* by the main loop Executor::run; two tasks that wait for messages and the
\* keyboard task, with as many queue slots as tasks.
CONSTANTS
    r1 = r1
    r2 = r2
    k1 = k1
    Receiver = {r1, r2}
    Reader = {k1}
    NoTask = NoTask
    QueueCapacity = 3
    ScanCapacity = 2
    MaxSends = 3
    MaxScancodes = 5
SPECIFICATION ExecSpec
INVARIANTS
    ExecTypeOK
    NoLostWakeup
    WokenOnce
    RegistryIsExecutor
PROPERTIES
    MailIsRead
    HandlerReturns
    ScancodesAreRead
    HandlerComesToEnd
