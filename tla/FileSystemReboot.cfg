SPECIFICATION Spec
CONSTANTS
  INODES = 5
  INODES_PER_BLOCK = 3
  BLOCKS = 4
  CELLS = 2
  DIR_CAPACITY = 4
  DIR_SLOTS = 4
  ImageDirs <- MCImageDirs
  ImageFiles <- MCImageFiles
  FilePaths <- MCFilePaths
  DirPaths <- MCManyDirPaths
  MadeBy <- MCMadeBy
  Workloads <- MCAllPaths
  Users = {0, 1}
  Bytes = {1}
  Offsets = {1}
  Lengths = {2}
  MAX_SIZE = 3
  VFS_MAX_FILES = 1
VIEW View
INVARIANT SurvivesReboot
CHECK_DEADLOCK FALSE
