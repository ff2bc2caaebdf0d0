SPECIFICATION Spec
CONSTANTS
  MAX_TASKS = 5
  Workers = 0
  MaxPid = 6
  HalfRange = 1
  SleepTicks = {}
  DeviceReasons = {}
INVARIANTS
  ExitsHeard
  TableInOrder
PROPERTIES
  ReleasedSafely
