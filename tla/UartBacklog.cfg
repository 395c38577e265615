\* Two more bytes arrive while interrupts are masked.
CONSTANTS
    FifoSize = 16
    Trigger = 14
    Backlog = 16
    MaxBytes = 30
SPECIFICATION UartSpec
PROPERTY
    InputIsTaken
CHECK_DEADLOCK FALSE
