\* Two connections open, write, close and open again.
CONSTANTS
  Conns = {c1, c2}
  NULL = NULL
  Priorities = {0, 1}
  MaxLength = 2
  ChunkSize = 1
  BulkSize = 1
  MaxWrites = 1
  Interruptible = {"acquire"}
  MAX_CONNECTIONS = 2
  Signals = {"open"}
  MaxModuleRefs = 3
SPECIFICATION FairSpec
INVARIANTS
  NoDanglingSender
  HwRunsWhileSending
PROPERTY
  WriteReturns
