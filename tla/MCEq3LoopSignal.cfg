\* The master writes to a full ring that no slave reads.
CONSTANTS
  Masters = {m1}
  Slaves = {s1}
  BUFSIZE = 2
  MaxCount = 1
  MaxWritten <- OneByte
  Orderly = TRUE
  Faults = FALSE
SPECIFICATION SignalledSpec
PROPERTY
  SignalEndsWrite
