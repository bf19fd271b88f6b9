SPECIFICATION Spec
CONSTANTS
  Hosts = {b1}
  Exams = {quiz}
  Labels = {}
  MaxBoards = 1
  MaxExams = 1
  OfflineAfter = 1
  StopTimeout = 2
  PickupTTL = 3
  StartTimeout = 4
  JobIdBound = 3
INVARIANT
  IdleSaysIdle
