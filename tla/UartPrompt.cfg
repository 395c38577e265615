\* The handler runs before the FIFO holds more than the 14 bytes of the trigger
\* level.  No deadlock check: with all input read, nothing need happen.
CONSTANTS
    FifoSize = 16
    Trigger = 14
    Backlog = 14
    MaxBytes = 30
SPECIFICATION UartSpec
INVARIANTS
    OneBlankAtMost
    HighLineIsPending
PROPERTY
    InputIsTaken
CHECK_DEADLOCK FALSE
