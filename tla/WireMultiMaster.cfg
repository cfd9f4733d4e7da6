SPECIFICATION WireSpec
CONSTANTS
    b0 = b0
    b1 = b1
    None = None
    Zero = b0
    Byte <- TwoBytes
    Bytes <- OneByte
    Stops = {TRUE}
    MaxWritten = 0
    BusFails = FALSE
    BufferLength = 2
    InternalSize = 2
    IndexRange = 4
    Quantities = {}
    Registers <- NoRegister
    Replies <- MCReplies
    OtherMaster = TRUE
INVARIANTS
    ReadsAreWhatWasSent
