SPECIFICATION RxSpec
CONSTANTS
  Byte = {a, b}
  None = None
  RxSize = 3
  FifoDepth = 3
  MaxArrivals = 5
SYMMETRY ByteSymmetry
INVARIANTS
  ReadsInOrder
  ReadyIsKept
  NothingIsMissed
