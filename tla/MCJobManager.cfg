SPECIFICATION FairSpec
CONSTANTS
  JobIds = {j1, j2}
  Workers = {w1, w2}
  Results = {r1}
  Errors = {e1}
  Cancelled = Cancelled
  NoValue = NoValue
  Timeouts <- SomeTimeouts
  DefaultTimeout = 2
  MaxClock = 2
INVARIANTS
  TypeOK
  RecordsConsistent
  TimestampsMonotonic
PROPERTIES
  VerdictFinal
  OneWorker
  RefinesLifecycle
  SettledGetsOutcome
CHECK_DEADLOCK FALSE
