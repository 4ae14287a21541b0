SPECIFICATION SumSpec
CONSTANTS
  JobIds = {j1, j2}
  Workers = {w1}
  Results = {0, 2, 3}
  Errors = {e1}
  Cancelled = Cancelled
  NoValue = NoValue
  Timeouts <- AskedTimeouts
  DefaultTimeout = 1
  MaxClock = 0
  ChunkSize = 2
  OverloadThreshold = 1
  Signals = {s1, s2}
  Main = main
  TensorSizes <- Lengths
  Chunk = 2
  MaxWrites = 2
  MaxStarts = 3
INVARIANTS
  RepliesConsistent
  ReadinessNeverMissesLoad
  StreamsAreWhole
  RunningMeansServing
  StopReturnsDrained
  TransfersFaithful
PROPERTIES
  PollsNeverGoBack
  SignalEndsServing
CHECK_DEADLOCK FALSE
