\* Two byte values and a ring of two usable slots that wraps twice.
SPECIFICATION FairSpec
CONSTANTS
  Byte = {a, b}
  None = None
  TxSize = 3
  MaxWrites = 5
INVARIANTS
  NoByteStranded
  InOrder
PROPERTIES
  FlushDrains
  ImplementsChannel
  CallsReturn
  ReachesTheLine
