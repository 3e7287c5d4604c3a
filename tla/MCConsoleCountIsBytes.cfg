CONSTANTS
  Byte = {x, cr, nl}
  NL = nl
  CR = cr
  NUL = nul
  STREAM_BUF_SIZE = 3
  RENDER_BUF = 1
  WIDTH = 2
  HEIGHT = 2
  WORD = 9
  Fds = {0, 1, 2}
  X = x
  Buffers <- SomeBuffers
  Lens = {2, 4}
  Message <- MCMessage
  Keys = {x, nl}
  Preemptible = TRUE
  MaxCalls = 2
  MaxKeys = 1
SPECIFICATION Spec
INVARIANTS CountIsBytes
CHECK_DEADLOCK FALSE
