SPECIFICATION Spec
CONSTANTS
  Hosts = {b1, b2}
  Exams = {quiz}
  Labels = {}
  MaxBoards = 2
  MaxExams = 1
  OfflineAfter = 0
  StopTimeout = 0
  PickupTTL = 0
  StartTimeout = 0
  JobIdBound = 2
INVARIANTS
  JobIdsUnique
PROPERTIES
  ChangesAreDirty
SYMMETRY HostSymmetry
