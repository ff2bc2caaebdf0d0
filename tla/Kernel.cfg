SPECIFICATION PartsSpec
CONSTANTS
  FrameCount = 8
  MemoryMap <- MCMemoryMap
  Reserved = {0, 1}
  KernelEnd = 2
  RunLengths = {2, 3}
  MaxRefs = 2
  MAX_TASKS = 3
  Workers = {}
  Positions = 2
  Results = {7}
  MaxPid = 4
INVARIANTS
  HeapExact
  MappingsExact
  ImageExact
  ArgsExact
  PathsAgree
  ContextKept
PROPERTIES
  PallocAllocates
CHECK_DEADLOCK FALSE
