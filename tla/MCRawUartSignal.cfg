\* A signal may also end the wait for completion.
CONSTANTS
  Conns = {c1, c2}
  NULL = NULL
  Priorities = {0, 1}
  MaxLength = 2
  ChunkSize = 1
  BulkSize = 1
  MaxWrites = 1
  Interruptible = {"acquire", "complete"}
  MAX_CONNECTIONS = 2
  Signals = {"open"}
  MaxModuleRefs = 3
SPECIFICATION FairSpec
INVARIANT
  NoDanglingSender
