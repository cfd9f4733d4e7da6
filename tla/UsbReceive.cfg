SPECIFICATION FairRecvSpec
CONSTANTS
    None = None
    Banks = 2
    PacketSize = 2
    RingSize = 3
    MaxUnits <- MCMaxUnits
INVARIANTS
    ReceivedInOrder
    AvailableIsKept
PROPERTIES
    EverythingIsRead
