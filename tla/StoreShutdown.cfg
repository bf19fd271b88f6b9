SPECIFICATION Spec
CONSTANTS
  Overlap = TRUE
  StateBound = 3
  FailBound = 1
INVARIANT
  FileWhole
