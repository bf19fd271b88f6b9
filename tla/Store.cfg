SPECIFICATION Spec
CONSTANTS
  Overlap = FALSE
  StateBound = 3
  FailBound = 2
INVARIANTS
  TypeOK
  CleanMeansSaved
PROPERTIES
  ImplementsDurable
  ChangesAreStored
