SPECIFICATION SumSpec
CONSTANTS
  JobIds = {j1}
  Workers = {w1}
  Results = {3}
  Errors = {e1}
  Cancelled = Cancelled
  NoValue = NoValue
  Timeouts <- AskedTimeouts
  DefaultTimeout = 1
  MaxClock = 0
  ChunkSize = 2
  OverloadThreshold = 2
  Signals = {s1}
  Main = main
  TensorSizes <- Lengths
  Chunk = 2
  MaxWrites = 2
  MaxStarts = 1
INVARIANTS
  StreamDeliversResult
CHECK_DEADLOCK FALSE
