SPECIFICATION PartsSpec
CONSTANTS
  VFS_PIPE_BUFFER_SIZE = 1
  MAX_TASKS = 2
  VFS_MAX_FDS = 3
  VFS_MAX_FILES = 3
  Pipes = {"p"}
  StdFiles = 1
  PROC_IO_CHUNK = 1
  Lengths = {}
  FaultsAt = {}
  MaxBytes = 1
  Calls = {"open", "close", "dup", "dup2", "pipe", "fork", "exit"}
INVARIANTS
  LoopsAgree
  RefCountsExact
  StreamsExact
PROPERTIES
  FailedCallsUndone
