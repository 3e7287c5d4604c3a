CONSTANTS
  PMM_SECTORS = 16
  WORD <- MCWord
  Memories <- MCMemories
  Requests = {0, 1, 2, 7, 9}
  Offsets = {0, 8191}
  KernelBytes = 20000
  MaxOps = 5
  Info <- MCInfo
  Infos <- MCInfos
SPECIFICATION MSpec
INVARIANTS TypeOK BooksBalance TotalIsAvailable
PROPERTIES NoDoubleAllocation LowestSector LowestRun RunsAreMemory
CHECK_DEADLOCK FALSE
