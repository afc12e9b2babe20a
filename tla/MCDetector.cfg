\* Every kind of radio module; identifications are tried twice instead of
\* three times.
CONSTANTS
  Kinds <- MCKinds
  Retries = 2
SPECIFICATION Spec
INVARIANT ReportIsTrue
PROPERTY DetectionEnds
