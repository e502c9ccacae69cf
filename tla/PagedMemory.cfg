SPECIFICATION FairSpec
CONSTANTS
  Thread = {"cpu", "worker"}
  Byte = {0, 1}
  ZeroByte = 0
  BLOCK_SIZE = 2
  TotalMemory = 6
  Word = 16
  Requests <- MCRequests
INVARIANT CopiesInside
PROPERTIES CallsReturn ImplementsFlatMemory
