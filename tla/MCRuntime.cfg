SPECIFICATION RuntimeSpec
CONSTANTS
  Block = 2
  Garbage = 90
  Callers = {t1, t2}
  Managers = {t1, t2}
  Names = {"nvidia", "amd", "intel", "other"}
  Requests <- SomeRequests
  MaxMade = 3
  MaxCalls = 2
  Compilers = {t1, t2}
  Functions = {"folded", "constant", "adder", "product", "shift"}
  NameOf <- SomeNames
  OpcodesOf <- SomeOpcodes
  Meaning <- SomeMeanings
  VectorOps = {"vadd", "vmul", "matmul"}
  TakesPtr = {"adder", "product"}
  Profiles <- WithAndWithoutGpu
  MaxCompiles = 3
  Interners = {t1, t2}
  Contents = {x, y}
  GcThreshold = 2
  MaxObjects = 3
  MaxHeld = 1
  Values = {x, y}
  Vacant = Vacant
  Capacities = {0, 1, 2}
  MaxLength = 3
  MaxThreads = 3
  MaxTotal = 5
  Width = 3
  Operands <- SomeOperands
  JitCallers = {t1, t2}
  Programs <- SomePrograms
  JitArguments <- SomeArguments
  MaxJitCalls = 4
  IntBits = 3
  Nothing = Nothing
  TypeError = TypeError
INVARIANTS
  AnswersRight
  DeviceMemoryAccounted
  PluginsSound
  CompiledIsAlike
  InternedOnce
  ListIsSequence
  IterationsOnce
  ChecksSound
  JitAnswersAsPython
SYMMETRY SameThreads
CHECK_DEADLOCK FALSE
