SPECIFICATION BootSpec
CONSTANTS
  Byte = {FF, Z}
  Blank = FF
  Zero = Z
  BootCode = BootCode
  PageSize = 4
  BootStart = 4
  FlashSize = 8
  AddrSpace = 12
INVARIANTS
  BootSectionIntact
PROPERTIES
  StartIsDue
