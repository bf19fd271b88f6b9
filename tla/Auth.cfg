SPECIFICATION Spec
CONSTANTS
  Browsers = {b1, b2}
  Clients = {c1, c2}
  Tokens = {t1, t2, t3}
  PerClientFailures = 1
  GlobalFailures = 2
  Window = 3
  GlobalWindow = 2
  SessionTTL = 2
  MaxSessions = 2
  MaxWait = 1
INVARIANTS
  TypeOK
  GuessesBounded
PROPERTIES
  RefusedForCause
  SessionEndsForCause
  LockoutLapses
