\* Two processes, interrupted at every instruction that can be.
CONSTANT
    NumTasks = 2
SPECIFICATION TrapSpec
INVARIANTS
    UserContextExact
    SelectorsRight
    ArgumentsArrive
    FramesApart
PROPERTY
    ImplementsVirtualCpus
