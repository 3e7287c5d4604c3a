CONSTANTS
  Byte <- MCByte
  ZERO = 0
  MEM = 59
  WORD = 64
  BLOCK_SIZE = 4
  DIRECT = 3
  IMAGE = 1
  Contents <- MCContents
  Inodes <- MCInodes
  OutBufs = {0, 45, 47}
  Lens = {0, 1, 4, 6, 12, 63}
  Offsets = {0, 3, 9, 12}
  MIN_BLOCK = 4
  UNIT = 2
  INODE_SIZE = 2
  USER_CODE_BASE = 45
  Image <- MCImage
  Images <- MCImages
  OtherImages <- MCOtherImages
  Program = prog
  Other = other
SPECIFICATION LSpec
INVARIANTS LTypeOK ReadsTheFile InodesFound DirectoryIsRead ReportIsTrue
PROPERTIES StaysInBuffer LoadEnds
CHECK_DEADLOCK FALSE
