CONSTANTS
  Byte = {x, nl}
  NL = nl
  NUL = nul
  STREAM_BUF_SIZE = 3
  MaxLen = 4
  Buffers <- MCBuffers
  Lens <- MCLens
SPECIFICATION Spec
PROPERTIES StopsAtUnreadNewline
