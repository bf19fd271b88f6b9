SPECIFICATION Spec
CONSTANTS
  Hosts = {b1}
  Exams = {quiz, final}
  Labels = {}
  MaxBoards = 1
  MaxExams = 2
  OfflineAfter = 1
  StopTimeout = 2
  PickupTTL = 3
  StartTimeout = 4
  JobIdBound = 3
INVARIANTS
  TypeOK
  NoErrorBesideJob
PROPERTIES
  JobsEndOnTheRecord
  ImplementsLifecycle
  JobsEventuallyEnd
