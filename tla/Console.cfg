SPECIFICATION Spec
CONSTANTS
  Hosts = {b1}
  Exams = {quiz}
  Filters = {all, instructor}
  All = all
  ConfirmTime = 2
  SlotBound = 2
  VersionBound = 1
INVARIANTS
  TypeOK
  BusyMeansOnePoll
  ChoicesAreShown
  ArmedIsBrief
PROPERTIES
  CatchesUp
  PillTellsTheTruth
