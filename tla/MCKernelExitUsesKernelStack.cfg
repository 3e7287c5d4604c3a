CONSTANTS
  PMM_SECTORS = 16
  WORD <- MCWord
  Memories <- MCMemories
  KernelBytes = 20000
  GroupTables = {32, 8193}
  KernelStackTop <- MCKernelStackTop
  Stub <- MCStub
  TssAddr <- MCTssAddr
  PROC_MAX_COUNT = 2
  Faults = {0, 6, 13}
SPECIFICATION Spec
PROPERTIES ExitUsesKernelStack
CHECK_DEADLOCK FALSE
