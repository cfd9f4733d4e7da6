SPECIFICATION ThreadsSpec
CONSTANTS
    TimerSize = 4
    TickUs = 4
    Ms = 7
    FractUnit = 1
    WordSize = 20
    OverflowLatency = 1
    MaxTicks = 36
    Delays = {2}
    Schedule <- MCSchedule
    Blocks <- MCBlocks
    Code <- MCCode
INVARIANTS
    MillisIsTrue
    MicrosIsTrue
PROPERTIES
    DelayLongEnough
    SleepsLongEnough
    ImplementsSequentialThreads
CHECK_DEADLOCK FALSE
