\* Three processes, one of which may fault or crash: the search for the next
\* process has to step over a dead one.  Like 2^64, the width 6 of the tick count
\* leaves the remainder 1 modulo the priority 5.
CONSTANTS
    NumTasks = 3
    NumKernelTasks = 1
    p0 = p0
    p1 = p1
    Point <- MCPoint
    Entry = p0
    TickModulus = 6
    MayFault = {1}
    MayCrash = {1}
SPECIFICATION SchedFairSpec
INVARIANTS
    SchedTypeOK
    NeverReturnsToFault
    SuspendedContextsIntact
    IdentityNeverForeign
PROPERTIES
    ImplementsVirtualCpus
    EveryLiveProcessRuns
    TurnApproaches
