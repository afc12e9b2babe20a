\* Two processes, the three chips, writes of up to two chunks, one unplugging.
CONSTANTS
  Files = {f1, f2}
  NULL = NULL
  MAX_CONNECTIONS = 2
  Signals = {"open", "reset"}
  MaxModuleRefs = 3
  MaxChunks = 2
SYMMETRY Symmetry
SPECIFICATION Spec
INVARIANTS
  FreedIsUnused
  ListensWhileOpen
  TxFlagExact
  PinsFollow
\* Nothing happens to a device that was unplugged and freed.
CHECK_DEADLOCK FALSE
