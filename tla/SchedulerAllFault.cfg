\* Every process may fault: there may be nobody left to switch to.
CONSTANTS
    NumTasks = 2
    NumKernelTasks = 1
    p0 = p0
    p1 = p1
    Point = {p0}
    Entry = p0
    TickModulus = 5
    MayFault = {0, 1}
    MayCrash = {}
SPECIFICATION SchedSpec
INVARIANT
    NeverReturnsToFault
