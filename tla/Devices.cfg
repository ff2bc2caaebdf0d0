SPECIFICATION PartsSpec
CONSTANTS
  \* Blocks of two cells on pages of four, so that a buffer may start inside a block; at most
  \* two runs of memory, or two sectors, per command.
  BLOCK = 2
  PAGE = 4
  FrameOf <- MCFrameOf
  Buffers = {0, 1}
  IDENTIFY_WORDS = 14
  Machines <- MCMachines
  BLOCK_MAX_DEVICES = 8
  GPT_HEADER_BLOCK = 1
  GPT_MAX_SCAN_ENTRIES = 4
  ENTRIES_PER_BLOCK = 2
  MAX_BLOCKS = 50
  ATA_CHUNK = 2
  ATA_LBAS = 16
  AHCI_MAX_PRDT_ENTRIES = 2
  \* 50 is the last of the 32-bit numbers.
  Blocks = {0, 1, 4, 5, 50}
  Counts = {0, 1, 4, 5, 6}
  MaxCalls = 2
  \* A ring of 11 units holds one key's packet and part of the next.
  Versions <- MCVersions
  NewVersions = {53, 50}
  HostVersions = {50, 41}
  RING = 11
  DESCRIPTOR = 2
  TRAILER = 1
  REQUEST = 1
  KEYSTROKE = 2
  Keys <- MCKeys
  MaxKeys = 4
  MaxGiveUps = 1
  p1 = p1
  p2 = p2
SYMMETRY MCSymmetry
INVARIANTS
  PingEnds
  RingsAgree
  HostAgrees
  NeverStuck
  KeysInOrder
  KeysDelivered
  ReadEdited
  ScreensShowEnd
  TraceExact
  ParsesWords
  PipelineEnds
PROPERTIES
  TransferExact
  Confined
  ResultEarned
CHECK_DEADLOCK FALSE
