\* Two writers, a ring that holds fifteen characters, three answers.
CONSTANTS
  Writers = {w1, w2}
  NULL = NULL
  RX_BUF_SIZE = 16
  BUFFER_SIZE = 64
  Requests <- MCRequests
  Garbage <- MCGarbage
  Macs <- MCMacs
  Versions <- MCVersions
  Serials <- MCSerials
  ReadSizes = {16}
  MaxAnswers = 3
SYMMETRY Symmetry
SPECIFICATION Spec
INVARIANTS
  RequestsUnderstood
  AnswersArrive
\* The program stops after the last answer.
CHECK_DEADLOCK FALSE
