SPECIFICATION Spec
CONSTANTS
  Hosts = {b1}
  Exams = {quiz, final}
  Labels = {}
  MaxBoards = 1
  MaxExams = 2
  OfflineAfter = 0
  StopTimeout = 0
  PickupTTL = 0
  StartTimeout = 0
  JobIdBound = 3
  KioskSurvives = TRUE
  EraBound = 1
INVARIANT
  IdleMeansDown
