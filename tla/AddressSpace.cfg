SPECIFICATION Spec
CONSTANTS
  FrameCount = 17
  text = text
  stack = stack
  bss = bss
  low = low
  high = high
  Directory = Directory
  Table = Table
  Tasks = {1, 2, 3}
  FirstTask = 1
  KernelStack <- MCKernelStack
  Programs <- MCPrograms
  Values = {0, 1}
  Loaded = 0
  BootFrames = 1
  MaxKernelFrames = 1
INVARIANTS
  FramesExact
  Isolation
PROPERTIES
  CallLoopsAgree
VIEW Shape
