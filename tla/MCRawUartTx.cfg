\* Safety: three connections (MAX_CONNECTIONS), frames of 0 to 3 characters,
\* transfers of two characters, up to two transfers per interrupt.
CONSTANTS
  Conns = {c1, c2, c3}
  NULL = NULL
  Priorities = {0, 1}
  MaxLength = 3
  ChunkSize = 3
  BulkSize = 2
  MaxWrites = 1
  Interruptible = {"acquire"}
SYMMETRY Symmetry
SPECIFICATION Spec
INVARIANTS
  TypeOK
  SenderIsWriting
  NoLostWakeup
  FramesContiguous
  NoCharTwice
  ReturnedCountIsSent
  NothingBeyondFrame
PROPERTY
  UnfinishedOnlyForHigher
