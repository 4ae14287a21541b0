SPECIFICATION FocusedSpec
CONSTANTS
  w1 = w1
  w2 = w2
  w3 = w3
  c1 = c1
  c2 = c2
  Workers = {w1, w2, w3}
  Checkers = {c1, c2}
  ArchOf <- Archs
  SimdOf <- Simds
  Hints <- SomeHints
  NoHint = NoHint
  Threshold = 1
  MaxClock = 3
  MaxActive = 2
INVARIANTS
  SilentStaysOut
  AnsweringStaysIn
  RoundRobinFair
  AffinityHonoured
PROPERTIES
  NoFalseAlarm
CHECK_DEADLOCK FALSE
