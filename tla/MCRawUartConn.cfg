\* More processes than connections; signals interrupt open() and the reset.
CONSTANTS
  Files = {f1, f2, f3, f4}
  NULL = NULL
  MAX_CONNECTIONS = 3
  Signals = {"open", "reset"}
  MaxModuleRefs = 6
SYMMETRY Symmetry
SPECIFICATION Spec
INVARIANTS
  TypeOK
  OpenCountExact
  HwRunsWhileOpen
  ResetAlone
  ModuleHeld
