SPECIFICATION Spec
CONSTANTS
  MAX_TASKS = 5
  Workers = 0
  MaxPid = 5
  HalfRange = 1
  SleepTicks = {}
  DeviceReasons = {}
INVARIANTS
  WaitpidReturnsOnExit
