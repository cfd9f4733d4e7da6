SPECIFICATION UploadSpec
CONSTANTS
  Byte <- MCByte
  Blank = 255
  Zero = 100
  BootCode = 256
  PageSize = 4
  BootStart = 8
  FlashSize = 12
  AddrSpace = 24
  Image <- MCImage
INVARIANTS
  CompleteUploadIsInFlash
PROPERTIES
  FaultyReturns
  UploadedStarts
  TouchReturns
