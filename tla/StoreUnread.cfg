SPECIFICATION Spec
CONSTANTS
  Overlap = FALSE
  StateBound = 3
  FailBound = 1
PROPERTY
  StartsWithSaved
