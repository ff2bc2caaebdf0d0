SPECIFICATION Spec
CONSTANTS
  MAX_TASKS = 4
  Workers = 0
  MaxPid = 4
  HalfRange = 1
  SleepTicks = {}
  DeviceReasons = {}
INVARIANTS
  ReportedOnce
