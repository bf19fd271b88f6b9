SPECIFICATION Spec
CONSTANTS
  Ids = {"e1", "e2"}
  Boards = {pc}
  Laptops = {pc}
  FormsFor <- MCFormsFor
  ExamNames = {"quiz"}
  Codes = {"secret"}
  Passwords = {"pass", "word"}
  PublicUrls <- MCPublicUrls
  OldExams <- MCOldExams
  Labels <- MCLabels
  LowerCase <- MCLowerCase
  MaxDomains = 2
  NoSalt = 0
  MaxExams = 2
  SaltBound = 3
INVARIANTS
  TypeOK
  CodeGoesToItsExam
  KeysNameTheirExam
  UpToDatePasses
  RulesAreExact
PROPERTIES
  PassIsLostForCause
