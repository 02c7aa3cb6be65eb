SPECIFICATION FairSpec
CONSTANTS
  MaxConns = 2
  Ring = 1
  Tokens = {t1, t2}
  t1 = t1
  t2 = t2
  Nobody = nobody
  FailOpen = TRUE
  Starves = TRUE
  MaxSessions = 2
  MaxBouts = 2
INVARIANTS
  OwnIdentity
  NoLostWakeup
  ResultsAreSeen
  ReportsAccounted
PROPERTIES
  WaitsEnd
