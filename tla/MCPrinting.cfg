CONSTANTS
  Char <- MCChar
  CR <- MCCR
  NL <- MCNL
  BLANK = " "
  WIDTH = 4
  HEIGHT = 3
  Garbage <- MCGarbage
  WORD = 256
  BUFFER = 4
  Calls <- MCCalls
  NullString = NullString
  Texts <- MCTexts
  STREAM_BUF_SIZE = 4
  MaxCalls = 2
SPECIFICATION PSpec
INVARIANTS PrintsWhatItSays
PROPERTIES ImplementsTerminal
CHECK_DEADLOCK FALSE
