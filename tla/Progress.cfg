SPECIFICATION PartsSpec
\* Four slots, one of them idle's; a tick counter of four values wraps all the time.
CONSTANTS
  MAX_TASKS = 4
  Workers = 0
  MaxPid = 4
  HalfRange = 2
  SleepTicks = {1, 2}
  DeviceReasons = {"IO_READ"}
PROPERTIES
  RunnableRuns
  SleepersWake
  WakesOnTime
  NeverLeftReady
