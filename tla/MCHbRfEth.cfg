\* LEDs and data, a ring of four slots.
CONSTANTS
  NULL = NULL
  QUEUE_LENGTH = 4
  Sockets = {s1, s2, s3}
  Ops = {"reset"}
SPECIFICATION Spec
INVARIANTS
  QueueInOrder
  LedsFollow
  DisconnectLeavesNothing
PROPERTIES
  SocketKept
  DisconnectReturns

\* After the module is unloaded nothing happens.
CHECK_DEADLOCK FALSE
