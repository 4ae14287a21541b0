SPECIFICATION StorageSpec
CONSTANTS
  Threads = {t1, t2}
  Buffers = {b1, b2, b3}
  SizeClasses <- SmallAndLarge
  Requests = {0, 1, 2, 3, 4, 5}
  MaxPoolBytes = 6
  Nothing = Nothing
  Flushers = {t1, t2}
  Prefetchers = {p1}
  Paths = {path1, path2}
  PathLists <- OneList
  MaxChunks = 3
  MmapThreshold = 1
  NoFile = NoFile
  Stoppers = {t1, t2}
  Writers = {t1, t2}
  Records = {job}
  Metrics = {metric}
  MaxRows = 3
  MaxGen = 2
  Tasks = {t1, t2}
  Keys = {k1}
  Ttls = {0, 1}
  MaxWrites = 3
  MaxClock = 2
INVARIANTS
  BuffersExclusive
  PoolAccounts
  ChunksAccounted
  QuietFilesWhole
  PartsOwned
  AcknowledgedRowsSurvive
  NeverStale
SYMMETRY Alike
CHECK_DEADLOCK FALSE
