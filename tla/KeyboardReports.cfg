SPECIFICATION KbSpec
CONSTANTS
    Slots = 2
    Scan = {4, 5, 6}
    Modifiers = {shift}
    Shift = shift
    Depth = 2
INVARIANTS
    HostFollows
