SPECIFICATION PinsSpec
CONSTANTS
    Pins = {"s0", "s1", "t"}
    TonePins = {"t"}
    NoPin = "none"
    ServoCount = 2
    ServoPin <- MCServoPin
    Widths = {3, 4}
    Byte = 2
    CountSize = 16
    REFRESH = 10
    Margin = 2
    HandlerTicks = 1
    Latency = 1
    Lengths <- MCLengths
    Part = 2
INVARIANTS
    PinsAreTheirWriters
    SilenceIsKept
    CompareIsAhead
PROPERTIES
    PulseIsCommanded
    ToneHasItsLength
