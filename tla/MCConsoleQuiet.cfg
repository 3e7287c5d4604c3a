CONSTANTS
  Byte = {x, cr, nl}
  NL = nl
  CR = cr
  NUL = nul
  STREAM_BUF_SIZE = 3
  RENDER_BUF = 2
  WIDTH = 2
  HEIGHT = 2
  WORD = 9
  Fds = {1, 2}
  MaxLen = 2
  X = x
  Buffers <- MCBuffers
  Lens <- MCLens
  Message <- MCMessage
  Keys = {nl}
  Preemptible = FALSE
  MaxCalls = 3
  MaxKeys = 1
SPECIFICATION HSpec
INVARIANTS CountIsBytes Conserved CursorOnScreen
PROPERTIES StderrIsRed StreamsAreQueues
CHECK_DEADLOCK FALSE
