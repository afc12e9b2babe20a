\* Two readers of a ring of four slots; seven characters wrap it twice.
CONSTANTS
  Readers = {r1, r2}
  NULL = NULL
  CIRCBUF_SIZE = 4
  MaxCount = 3
  MaxRx = 7
SPECIFICATION FairSpec
INVARIANTS
  TypeOK
  SlotsDisjoint
  NoLostRxWakeup
PROPERTIES
  IsLossyFifo
  ReaderGoesOn
