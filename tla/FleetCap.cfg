SPECIFICATION Spec
CONSTANTS
  Hosts = {b1, b2, b3}
  Exams = {}
  Labels = {seat}
  MaxBoards = 2
  MaxExams = 1
  OfflineAfter = 0
  StopTimeout = 0
  PickupTTL = 0
  StartTimeout = 0
  JobIdBound = 0
INVARIANTS
  WarnedMeansFull
SYMMETRY HostSymmetry
