SPECIFICATION FairWireSpec
CONSTANTS
    b0 = b0
    b1 = b1
    None = None
    Zero = b0
    Byte <- TwoBytes
    Bytes <- TwoBytes
    Stops = {TRUE, FALSE}
    MaxWritten = 2
    BusFails = TRUE
    BufferLength = 2
    InternalSize = 2
    IndexRange = 4
    Quantities = {1, 3}
    Registers <- MCRegisters
    Replies <- NoReplies
    OtherMaster = FALSE
INVARIANTS
    ResultIsTrue
    ReadsAreWhatWasSent
    RegisterThenRead
    BusIsReleased
PROPERTIES
    CallsReturn
