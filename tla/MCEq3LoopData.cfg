\* The rings wrap around: one thread on each side, four slots.
CONSTANTS
  Masters = {m1}
  Slaves = {s1}
  BUFSIZE = 4
  MaxCount = 3
  MaxWritten <- Wrapping
  Orderly = TRUE
  Faults = TRUE
SPECIFICATION Spec
INVARIANTS
  RingIsFifo
