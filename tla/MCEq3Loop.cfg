\* Two slaves come and go under a master; rings of one byte.
CONSTANTS
  Masters = {m1}
  Slaves = {s1, s2}
  BUFSIZE = 2
  MaxCount = 1
  MaxWritten <- OneByte
  Orderly = TRUE
  Faults = FALSE
SPECIFICATION FairSpec
INVARIANTS
  OneSlave
  ReadersWoken
  MasterKnowsState
PROPERTIES
  NodeUntilLastClose
  MasterCloseEndsRead
