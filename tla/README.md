# A verification project for UHCR

UHCR is a Python compiler and runtime with a job server around it. This
directory holds TLA+ modules for the parts of it that keep state other code
relies on, TLC configurations that check them on small instances, and proofs
for every instance of what matters most. Paths below are relative to
`src/uhcr/`.

## 1. The system

| Component | State | Operations | Interacts with |
|---|---|---|---|
| Job manager `network/jobs.py` | `_jobs`: id -> `Job` (status, worker, three stamps, result, error, timeout), one lock | submit, start, complete, fail, cancel, get, list | called by every handler and by worker threads; `get_job` hands out the live `Job` |
| Handlers `network/rest_api.py`, `grpc_service.py`, `health.py` | none | submit, poll, stream a result; health, live, ready | read the live `Job` without the lock |
| Coordinator `network/coordinator.py` | registry of `WorkerInfo`, round-robin cursor, one lock | register, deregister, heartbeat, health check, assign by three strategies | worker nodes; independent of the job manager |
| Protocol server `network/server.py` | running, ready, shutdown event, HTTP runner and site, gRPC server, signal handlers | start, stop, wait_for_shutdown | one event loop: the program's task and the stop tasks signals schedule |
| Memory pool `storage/memory_pool.py` | free list per size class, pooled bytes, one lock | allocate, release, release_all | any thread; buffers may also be freed by `with` or the collector |
| I/O optimizer `storage/io_optimizer.py` | write queue, prefetch cache, two locks | queue, flush (plain and mapped), prefetch, get, close | file system, background threads |
| Redis cache `storage/redis_cache.py` | client, `_using_fallback`, in-memory dictionary | get, put, invalidate, close | Redis, over awaits |
| Storage facade and SQLite store `storage/__init__.py`, `sqlite_store.py` | the parts it made, a connection | initialize, shutdown; record jobs, configuration, metrics | the three parts above, SQLite |
| Optimization passes `compiler/passes/` | per-pass replacement maps | fold, reduce, eliminate, merge, iterate | the IR of `compiler/ir.py`, built by `compiler/ir_builder.py` |
| Code generators `compiler/x86_64/`, `aarch64/`, `riscv/` | frame slots, code, labels, patches of one compilation | lay out, emit, link | IR, native memory |
| Backends `backends/` | a registry | support, compile, interpret, run on CUDA | code generators, driver |
| Compile cache `runtime/runtime.py` | codes by key, one lock; the function under compilation, rewritten in place | compile, clear | passes, backends, any thread |
| String pool, lists, scheduler `runtime/` | canonical strings and their counts; cells and length; threads and chunks | intern, release, collect, clear; the list operations; parallel_for | any thread |
| JIT decorator `frontend/decorator.py` | code by signature, call count, no lock | call, trace, compile, invalidate | Python functions, the runtime, any thread |
| Plugins `plugins/` | plugin registry, kernel registry, device buffers | load, initialise, unload, shut down; vector and matrix operations | vendor drivers |
| Runtime safety `security/runtime_safety.py`, `native/safety_checker.*` | one global checker | checked arithmetic and indexing, natively or in Python | ctypes |
| Serialization `network/serialization.py` | none; messages and tensor streams in flight | encode and decode jobs as JSON or protobuf, stream tensors | live `Job`s; the other host; whoever owns the tensor's buffer |
| Checksums, memory manager, hardware, CLI, MCP, containerization, API, benchmarks | none worth the name | queries, text, numerics | the above |

What makes these correct, and hard:

* **Jobs.** Threads race to settle one job; every mutator is several field
  writes and readers do not take the lock. Records must be whole when nobody
  writes, verdicts final, stamps ordered, and what clients are told must never
  contradict itself.
* **Coordinator.** A health check judges by a clock it read before it had the
  lock; the cursor of the rotation indexes a list that changes size.
* **Serialization.** A message is put together from a live `Job` without its
  lock, and a field that may be `None` is read once for the test and again for
  the value; the host that reads it may lack protobuf; a tensor is cut into
  chunks while its owner may write to it.
* **Server life cycle.** Up to three `stop()` calls and a `start()` overlap at
  their awaits; binds fail half way.
* **Storage.** Buffers must have one owner at a time; batches are written
  outside the lock that ordered them; a background reader may store what a
  writer has replaced; a cache must not go back in time when it changes backend
  with calls in flight; a row a caller was told of must survive a crash.
* **Passes and code generators.** Each pass works on what the others left, over
  integers that wrap. The frame, the flags and the displacements are right only
  together; a test sees one function on one path of one processor.
* **Runtime.** The key of the compile cache is computed before the lock, while
  another thread's passes may be rewriting the function; strings are collected
  and made again while callers hold them; the JIT wrapper reads its fields
  without any lock.
* **Plugins.** Any driver call may raise past the frees; kernels must cover
  vectors of every length; the manager has no lock, and its shutdown is a loop and
  then a `clear()`.

## 2. Modules

| Module | Models | Role |
|---|---|---|
| `JobLifecycle` | the docstrings of `JobStatus` and `Job` | abstract specification: stages and outcomes |
| `JobManager` | `jobs.py` | the manager, one step per field assignment |
| `JobService` | `rest_api.py`, `grpc_service.py`, `health.py` | EXTENDS `JobManager`: its steps interleave with the handlers' reads |
| `Serialization` | `serialization.py` | EXTENDS `JobManager`: messages and tensors between hosts, read from live jobs |
| `Coordinator` | `coordinator.py` | registry, health, scheduling |
| `Sublists` | list comprehensions with a condition, slices | operator used by `Coordinator` and `ListRuntime` that proofs can unfold |
| `ProtocolServer` | `server.py` | start and stop cut at their awaits |
| `MemoryPool` | `memory_pool.py` | pool and buffers |
| `IOOptimizer` | `io_optimizer.py` | write batches, flushes and prefetches, system call by system call |
| `RedisCache` | `redis_cache.py` | the cache and the commands in flight |
| `StorageFacade` | `storage/__init__.py`, `sqlite_store.py` | parts made and closed; statements, commits, crashes |
| `Optimizer` | `compiler/passes/*.py` and the IR it needs | the passes as operators, the pipeline as actions |
| `NativeCode` | the three code generators and assemblers, the interpreter of `backends/cpu_generic.py` | scalar functions compiled, linked, and run beside their interpretation |
| `GpuKernels` | the kernels in `plugins/gpu_*.py` and `backends/cuda_backend.py` | device functions and what they are meant to compute |
| `GpuPlugins` | `plugins/base.py`, `plugins/gpu_*.py`, the runner of `cuda_backend.py` | EXTENDS `GpuKernels`: life of plugins, calls driver call by driver call |
| `CompileCache` | `runtime.py`, backend selection | compile() by several threads |
| `StringPool`, `ListRuntime`, `Scheduler` | `runtime/string_pool.py`, `list_runtime.py`, `scheduler.py` | one each |
| `SafetyChecks` | `runtime_safety.py`, `native/safety_checker.*` | both forms of the checks, and the global checker |
| `Jit` | `frontend/decorator.py` | the wrapper, the tracing and what the traced code answers |
| `JobManagerProofs`, `CoordinatorProofs`, `NativeCodeProofs` | | theorems about the module they are named after |
| `GpuProofs` | | theorems about `GpuPlugins` and its kernels |
| `ServiceProofs`, `StorageProofs`, `RuntimeProofs` | | theorems about the modules `MCService`, `MCStorage`, `MCRuntime` check, by layer (`GpuPlugins` apart) |
| `NumberLemmas` | | facts about numbers those proofs share: least elements, induction, powers of two, quotients |
| `MC*` | | the instances TLC checks |

`MCService`, `MCStorage` and `MCRuntime` each check several components that
share no state. A behaviour of such an instance is one of one component, chosen at the
start, while the others stay as they began: the reachable states are the union
of the components' own, and every property is checked of its component as if it
were alone. Where components do share state they are composed by interleaving:
`JobService` extends `JobManager`, `GpuPlugins` its kernels, and `StorageFacade`
holds the facade together with the store it owns.

### How state and actions correspond to the code

*JobManager.* The variables `status`, `workerId`, `submittedAt`, ... are the
fields of `Job`, as functions of the id; `jobs` are the keys of `_jobs`; `call`
is the thread inside the lock with the next assignment it will make. Entering
the lock, the checks and the first assignment are one step (`StartJob`,
`CompleteJob`, `FailJob`, `CancelRunning`, `CancelQueued`); the remaining
assignments are `StampPromoted`, `SettlePromoted`, `WriteDetail` and
`WriteStamp`, in source order. A call that raises or returns early changes
nothing and is a stuttering step. `CreateJob` builds the object, `InsertJob`
publishes it. `timeoutSeconds` is what `submit_job` makes of the client's
value; nothing in the code enforces it.

*JobService.* `req` is the handler in progress with the attributes it has still
to read, `view` what it read. Each read is a step and any step of the manager
may come in between: `get_job` returns the live object. Handlers run on one
event loop and none of them awaits between its reads, so one handler at a time
is in progress. A stream's later chunks are cut from the bytes it read at first.

*Serialization.* `draft` is the serializer at work, with the fields it has still
to read; a field that may be `None` is tested in one step and read in the next,
and any step of the manager may come in between. `wire` is the last message and
what its receiver made of it; `hosts` says which side could import protobuf. What
is serialized is a live job, or a dict of the job format for the validators
(`Dicts` tells apart what they tell apart). `tensor` is a transfer chunk by
chunk, and `written` counts the owner's writes: a chunk is known by the number of
writes it was cut after.

*Coordinator.* A method body under the lock is a step. `check_worker_health`
reads the clock before it takes the lock and is two (`ReadNow`, `MarkSilent`).
Architecture and vector-unit names are sequences of the words between their
underscores, because the hint parser splits job ids there: of `arch:x86_64`
it keeps `x86`. History variables: `checked` (what a finished check of a worker
had read) and `turns` (its turns since the pool last changed).

*ProtocolServer.* `task` gives the await at which each task stands and the object it
awaits; the flags and references are the server's attributes; `http` and
`grpc` are the sockets that each call of `start()` created. A step is what runs
between two awaits that really suspend.

*MemoryPool.* `size[b]` is 0 while a buffer does not exist or has been freed;
`returning` is a thread between `release()`'s checks and the lock.

*IOOptimizer.* A chunk is known by its number in the order of queueing, and a
file is the sequence of chunks in it. Taking the queue is one step; opening (which truncates),
writing, making room and mapping are one each, so two flushes can be inside one
file. `flush[f].pc` is where a flush stands. A store through a mapping beyond
the end of a file that another flush has truncated kills the process
(`killed`), and so does a load. A prefetch is `StatFile`, then `ReadPlain`, or
`MapForReading` (which fixes the length) and `ReadMapped`, then `StorePrefetched`;
`ReadFails` is an `OSError` of any of them and `ReadBusError` the mapping of a file
that was cut since. History: `written`, `lost`, `latest`, `shared`, and `expect` and
`seen` of a read (what it must find, if it falls into a quiet moment).

*RedisCache.* A call in flight can be executed by Redis or not, and can then be
answered or raise. Every put and invalidate has a number, and a stored entry is
represented by it.

*StorageFacade.* Parts are told apart by the `initialize` that made them.
`initialize` never suspends and is one step, `shutdown` does at the cache's
close and is two. A write method is a statement on the shared connection and a
commit; a crash drops what was not committed. `acknowledged` is history.

*Optimizer.* A behaviour builds a block through the IR builder, instruction by
instruction, and runs the pipeline on it. Operands are constants, arguments or
instruction identities. `Meaning` runs a block for all chosen inputs: integers
of `Width` bits, one memory cell, one list.

*NativeCode.* A behaviour compiles one function for one target (frame layout,
then one instruction a step, then one patch a step), interprets it and runs its
code on a small machine. The targets differ in their registers, entry and exit
sequences, in which operations the generator emits at all, in how conditions and
constants are encoded and in the range of a pair's offset; `OnX86` and
`OnRiscv` select between them. Code addresses are positions, since no property
depends on how many bytes an instruction takes; data addresses are bytes.
`Supported` names what the generators rely on and never check: arguments that
fit the registers, and branches that stand right after the comparison they are
about. Flags no comparison has set are `Junk`, and a branch on them goes either
way. `passed` says what the interpreter was given for a pointer: a list, whose
elements are numbers, or an address, at which it sees elements of 4 bytes
(`Halves`, `Stored`) where native code has 8.

*GpuPlugins.* A plugin's `initialize` is the list of what it sets up, and a call
the list of driver calls it makes (allocate, copy, launch, copy back, free), as
the vendor's module has them; `gpuCall[t].at` is the position in that list. Any
driver call may fail; `Ignores` says which failures a vendor's code does not look
at. NVIDIA's and AMD's launches always raise, and Intel's `initialize` never gets
beyond its context (section 3), so no Intel call is modelled and what a call
returns comes from the CUDA backend's runner or from the CPU. `has` is what of a
plugin exists, `kernels` the kernel registry. `managing[t]` is the method of the
manager thread `t` is in, since the manager has no lock: `LoadPlugin` makes and
initializes a plugin, `Enter` is the assignment to the dictionary; `TakeOut` and
`Close` are `unload`; `shutdown_all` is `BeginShutdown`, a `ShutdownNext` for each
turn of the loop, `EndIteration` and `ClearTable`, or it ends in `IterationFails`
when the dictionary changed under its iterator. `plugins` is the dictionary as
CPython has it, entries in order with gaps where one was taken out, because the
iterator knows a place in it. A launch computes what the kernel of `GpuKernels`
does to the device's memory. History: `replaced`, `late`, `aborted`, `abandoned`,
`answers`.

*CompileCache.* A function is what the runtime reads of it at each stage of the
passes (`OpcodesOf`), with its operands and constants only in its `Meaning`.
`HashFunction` runs before the lock and sees whatever stage another thread's
passes have reached; `Miss`, `Rewritten` and `Compiled` run under it.

*StringPool.* A method holds the pool's lock and is a step; `get_global_pool`
takes none and is two. `held` counts the references a thread has and has not
released; `misused` records a release of something not held or a `clear` of
strings in use, after which nothing is promised.

*ListRuntime.* `data` and `length` are the list's; `items` is the sequence the
operations make and `answer` what the last one gave beside what the sequence
would. *Scheduler.* `worker[i]` is the range worker `i` has still to run (0 is
the caller, for the shortcut); the callback may raise at any iteration.
*SafetyChecks.* An operation is answered by the library (words, wrapping) or by
the fallback (unbounded integers), in strict or lenient mode. `wanted` is history:
the mode the program asked for last.

*Jit.* `jitCall[t]` is the `__call__` a thread is in. Each read or write of the
wrapper's fields is a step. `Called` is what Python does with the function,
`TracedArm` and `Code` what the tracing records of it, `CodeAnswers` what the
code answers after ctypes has cut arguments and result to a word.

## 3. Runs

| Run | Properties | Bounds, and why they are enough |
|---|---|---|
| `job_manager` | types, `RecordsConsistent`, `TimestampsMonotonic`, `VerdictFinal`, `OneWorker`, refinement of `JobLifecycle`, `SettledGetsOutcome` | Two jobs, two workers that race for them, one result and one error, clock 0..2 for three distinct stamps. One lock serialises writers, so more jobs add no new meeting of writers. |
| `service` | handlers: `RepliesConsistent`, `PollsNeverGoBack`, `ReadinessNeverMissesLoad`, `StreamsAreWhole`; transfers: `TransfersFaithful`; server: `RunningMeansServing`, `StopReturnsDrained`, `SignalEndsServing` | Two jobs; results of 0, 2 and 3 bytes in chunks of 2 (none, a full one, a full and a partial one); a readiness threshold of 1, which only both jobs together exceed, so one missed job changes the answer. Two signals and three starts: three stops meet, and a signal of an earlier life arrives in a later start. Messages: one job with every reader and writer of it, every dict the validators tell apart, hosts with and without protobuf; tensors of 0, 2 and 5 bytes in chunks of 2 (none, one full, two full and a partial one), two writes of the owner. |
| `stream_truncated` | `StreamDeliversResult`, violated | One job, one result of two chunks. |
| `bind_leak` | `IsRunningTellsAccepting`, violated | One start suffices. |
| `coordinator` | `NoFalseAlarm`, `SilentStaysOut`, `AnsweringStaysIn`, `RoundRobinFair`, `AffinityHonoured` | Threshold 1 and clock 0..3: silence below, at and above the threshold. Three workers, the least for which a rotation can skip someone in the middle. A behaviour concentrates on health (two workers, two overlapping checks, no jobs) or on scheduling (three workers, at most one check, which reads the clock past the threshold, loads up to 2), as `HealthBounds` and `SchedulingBounds` say. |
| `storage` | `BuffersExclusive`, `PoolAccounts`; `ChunksAccounted`, `QuietFilesWhole`; `PartsOwned`, `AcknowledgedRowsSurvive`; `NeverStale` | Pool: two threads, three buffers, two classes, room for one large and one small buffer, so simultaneous releases can overfill it. Files: two flushers, two paths, three chunks, batches on both sides of the threshold for mapping, one background reader, which maps and copies in two steps. Facade: two shutdowns, two writers, a replaced and an added row, parts made twice, crashes. Cache: two tasks and three writes of one key (keys do not interact), lives of 0 and 1. |
| `optimizer` | `SameMeaning`, with `OperandsDefined` its first conjunct | Two-bit integers, so every sum and product can wrap; three beginnings and every continuation of two instructions. |
| `list_pop_eliminated` | `EffectsNotEliminated`, violated | Blocks of two list instructions. |
| `native_code` | `SlotsApart`, `NativeAgrees`, `CallerUndisturbed` | Three processors. Ten-bit words (the range holds the addresses of the frame); scalars at both ends of the range and around zero; straight-line code, a diamond for each of the six conditions, a comparison of a difference that overflows, a branch on a plain value, a constant with all bits set, a loop over memory, given to the interpreter as a list and as an address, and a frame too large for the offset of a pair. |
| `riscv_frame` | `RiscvUndisturbed`, violated | The same instance. |
| `runtime` | `AnswersRight`, `DeviceMemoryAccounted`, `PluginsSound`; `CompiledIsAlike`; `InternedOnce`; `ListIsSequence`; `IterationsOnce`; `ChecksSound`; `JitAnswersAsPython` | GPU: two threads in the manager with up to three plugins (the third only if it is of the first one's kind, so that it replaces it or comes between the loop of a `shutdown_all` and its end), or one plugin loaded and unloaded while two threads call, with a vector longer than a block and a square matrix. Compile: five functions, three of one name, one that the passes turn into the structure of another, three calls, with and without a GPU. Strings: two contents, three objects, a collection threshold of 2. Lists: capacities 0, 1, 2 and three elements. Scheduler: up to three threads and five iterations. Safety: words of three bits, operands beyond both ends. JIT: eight functions the tracing records, refuses or misunderstands, four calls of two threads. |
| `compile_collision` | `CompiledIsAsked`, violated | Two functions of one name that differ only in a constant. |

The native code runs check for deadlock: a machine that cannot go on has met a
value nobody wrote. Every other configuration says `CHECK_DEADLOCK FALSE`:
clients may stop calling, and a bounded clock, bounded numbers of starts,
writes, calls and instructions end a behaviour where the program would go on.
Bounds of the model (not of the program) are the constants `MaxClock`,
`MaxActive`, `MaxStarts`, `MaxWrites`, `MaxChunks`, `MaxRows`, `MaxGen`, `MaxLength`,
`StackWords`, `MaxMade`, `MaxCalls`, `MaxCompiles`, `MaxObjects`, `MaxHeld`,
`MaxThreads`, `MaxTotal`, `MaxJitCalls`, and the set `Buffers`. `MCStorage` and
`MCRuntime` declare their threads (and buffers, contents) symmetric: no
definition of a part tells them apart, and these runs check invariants only.
`MCRuntime` also ends the string pool's behaviours at the first misuse, after
which nothing is promised, and gives an eager JIT function one call less.

Five runs show disagreements between the code and its own documentation:

1. `StreamResults` that reads the status between the two assignments of
   `complete_job` ends the stream with an empty last chunk.
2. A gRPC port that cannot be bound leaves the HTTP listener of the failed
   `start()` serving while `is_running` is false, and later starts fail on it.
3. Dead code elimination does not know that `LISTPOP` changes the list.
4. The compile cache's key leaves out operands and constants: a function that
   differs from an earlier one of its name only there gets the other's code.
5. The RISC-V frame keeps `ra` and `s0` where the last values' slots are.

Properties exclude, by name, what the code is already known not to do, so that
they still say something of everything else:

* `ChecksSound` excludes `KnownToDiffer`: the Python fallback multiplies without
  a check (although `safe_mul`, `security/runtime_safety.py:226`, documents
  `SafetyViolation` on overflow) and rounds quotients down; the library does not
  refuse the least word by -1. Of an index out of bounds it demands an exception
  where the program never disabled the checks, and that it is passed over where
  disabling them was the last thing it did; after enabling them again (`wanted` is
  "strict again") it demands neither. `enable_safety_checks` documents "Enable
  runtime safety checks globally." (`runtime_safety.py:335`) and
  `check_array_bounds` "raise on violation" (`:363`), but the mode is looked at only
  when the checker is made: once lenient it stays so. Nor does a lenient checker
  "log warnings" (`:61`): it returns a message, which `check_array_bounds` drops.
* `QuietFilesWhole` speaks of files whose latest batch had the path to itself:
  two flushes of one path overwrite or truncate each other, although the class
  says "All public methods are thread-safe." (`storage/io_optimizer.py:50`). A
  mapped read is held to the file only if it was quiet when it mapped and still is
  when it copies.
* `PartsOwned` excludes overlapping shutdowns; `InternedOnce` excludes callers
  that release what they do not hold, and speaks of one pool: two threads that
  both find no global pool make two (`runtime/string_pool.py:203`).
* `PluginsSound` excludes three kinds of plugins the manager is known to lose or to
  leave behind: `replaced` (another load took its entry, nothing shuts it down),
  `late` (put in the table, or moved in it, while a `shutdown_all` was under way,
  whose `clear()` drops it unshut), and what is in the table during a
  `shutdown_all`, or after one that raised (`aborted`).
* `AnswersRight` speaks of calls that return, so of NVIDIA's and AMD's plugins only
  while they are unavailable.
* `DeviceMemoryAccounted` accepts what calls that raised had allocated (`abandoned`).
* `ReadinessNeverMissesLoad` says nothing of exactly the threshold: the code and
  the docstring of `handle_readiness` answer 503 there (`network/health.py:166`,
  `:181`), while the class says "exceeds the threshold" (`:34`), the parameter and
  the property "above which" (`:52`, `:66`), and so does the reason sent (`:188`).
* `TensorsWhole`, a conjunct of `TransfersFaithful`, holds only tensors that are not
  contiguous to one moment. `serialize_tensor` documents contiguous data as returned
  "directly without copying" (`network/serialization.py:248`), for which a later
  write shows in later chunks; the code does copy a contiguous `memoryview`
  (`:264`), which the model has and the property does not demand.
* `NativeAgrees` speaks of functions the generators support (`Supported`), of
  frames within the range of AArch64's pair offset (`FrameFits`), beyond which
  `stp` moves the stack pointer the wrong way, and not of loads and stores at an
  address (`SameElements`): there the interpreter has elements of 4 bytes
  (`backends/cpu_generic.py:128`, `:143`) and native code of 8
  (`compiler/x86_64/codegen.py:239`, `:269`). `CallerUndisturbed` needs
  `FrameFits` too.
* `JitAnswersAsPython` speaks of functions the tracing `Understood` and of calls
  without keywords: once code is cached, keyword arguments are ignored
  (`frontend/decorator.py:40`), `==` between traced numbers is taken as identity
  and a constant result is compiled as none. A call whose entry is invalidated
  between its two lookups raises `KeyError`.
* `CompiledIsAlike` is what the cache's key does guarantee.

Other divergences noted while modelling, which no run is about: a negative
timeout becomes the default although `submit_job` documents `ValueError`;
`handle_readiness` may answer 503 below the threshold, since a job that moves
from queued to running between the two counts is counted twice;
`active_jobs` is never decremented; the hint `arch:x86_64` of the docstring of
`_assign_hardware_affinity` can never match; `list_workers` documents copies
and returns live objects; a buffer released twice is pooled twice; `DIV` is
folded with floor division of unbounded integers. The x86-64 generator emits
nothing for integer division and scalar float arithmetic; a branch on a plain
boolean becomes `jne` on whatever the flags hold, although the comment there
speaks of a test; arguments beyond the registers are never fetched (on Windows
the fifth already, and `dispatch_vadd` passes five); a `PHI` takes its first
operand; the slots of spilled vectors are 32 bytes upwards from an offset that
grows downwards. The AArch64 generator calls an assembler method that does not
exist for `LOOP` (`aarch64/codegen.py:418`). The CUDA backend compiles `VMUL`
with the addition template (`cuda_backend.py:67`). GPU buffers are lost when a
driver call raises half way. Every launch of the NVIDIA and AMD plugins raises
`TypeError`: an array of `c_void_p` cannot be built from what `byref` returns
(`plugins/gpu_nvidia.py:271`, `gpu_amd.py:193`), so an available plugin answers no
call. The Intel plugin is never available: an element of an array of `c_void_p` is
an `int`, which `byref(target_dev)` refuses (`gpu_intel.py:203`), and the exception
ends `initialize`; were it otherwise, the handles OpenCL returns would be cut to a
C `int`, since no `restype` is set. `shutdown_all` also drops plugins that were
loaded during it (`plugins/base.py:284`). A list of capacity 0 raises `IndexError`
on its first `append`, because doubling 0 makes no room
(`runtime/list_runtime.py:99`). Compiling a JIT function calls it once more than
the program did.

## 4. Fairness

* `FairSpec` (JobManager): weak fairness of `InLock`. A thread inside a block of
  straight-line assignments leaves it. No client is forced to call anything.
* `ServerFairness` (ProtocolServer, assumed by `MCService` of the behaviours
  that are the server's): weak fairness of the steps of `start()`, of each task's
  `stop()` and of waking from a set event. The loop runs what is ready, and what
  is awaited ends: a bind answers or fails, a cleanup and a gRPC stop have time
  limits. Signals and a program leaving on its own are not assumed.
* The other specifications state safety only: nothing in those components waits
  for another step of the component to happen.

## 5. Proofs

Eight modules hold theorems, for every value of the constants under the named
assumptions of the modules they extend. Each shows an inductive invariant: it
holds initially, every action keeps it, and it implies the properties. Where a
proof speaks of lists that Python filters, it unfolds `Kept` of `Sublists`; the
library's `SelectSeq` is recursive and cannot be unfolded.

**`JobManagerProofs`** (from `ValuesAssumption`, `TimeAssumption`). `IInv` joins
the type invariant, `RecordsConsistent` and `TimestampsMonotonic` with three
parts the code needs but never states. A record is consistent only while nobody
writes it, so consistency alone is not inductive: `MidRecords` says, for each
stage of each operation, which fields the thread inside the block has written.
`Tracked` says that the thread in the lock works on a job of the table, that such
a job has a record, and that a job outside the table is at most built and queued.
`StampsPast` says that every stamp lies in the past, so that the next one cannot
be smaller. From `IInv`:

* `TypeCorrect`, `RecordsAlwaysConsistent`, `TimestampsAlwaysMonotonic`;
* `VerdictIsFinal` and `WorkerIsUnique`, action properties proved step by step;
* `ManagerRefinesLifecycle`: every step maps to a step of `JobLifecycle` or a
  stutter, under the mapping that hides a record until its writer has left.

**`ServiceProofs`** (from the same, and `ServiceAssumption`, `ServerAssumption`,
`SerializationAssumption`) builds on `IInv`, since every step of a handler is a
step of the manager or leaves it alone.

* *Handlers.* What makes unlocked reads safe is that the fields are final one by
  one (`LiveStep`): a verdict, a result and an error never change once they are
  there, and nothing changes after `completed_at`. `Heard` says which of what a
  handler has read it may still rely on, and `SeenOK` that each job is at or past
  what its pollers were told. From them `RepliesAlwaysConsistent` and the action
  property `PollsOnlyAdvance`. `StreamOK` (how many chunks of which result have gone
  out) gives `StreamsAlwaysWhole`, and `ProbeOK` (the jobs active all along
  were counted or are still to be counted) gives `ReadinessIsSound`.
* *Server.* `ServerInvariant` says for each await of `start()` and of each
  `stop()` which sockets are bound, serving, drained or closed
  (`WhileStarting`, `OnceStarted`), and that the sockets of earlier starts are
  gone (`PastClosed`). From it `RunningAlwaysServes` and
  `StopAlwaysReturnsDrained`.
* *Transfers.* `Faithful` says of a message, finished or not, what the job can
  no more contradict of the fields read, and `DraftOK` that the field about to be
  read has passed its test, which stays true since fields do not become `None`
  again; `VerdictOK` says which messages are refused. From them
  `TransfersAlwaysFaithful`.

**`CoordinatorProofs`** (from `CoordinatorAssumption`). `HInv` joins the types of
the registry, the fact that a worker stands once in the registration order,
`SilentStaysOut`, `AnsweringStaysIn` and `ReadingsPast`: the time a health check
has read, or a finished one had read, is not in the future. Without the last
part neither `AnsweringStaysIn` nor `NoFalseAlarm` is preserved: a heartbeat
stamps the present, and must be newer than anything a check has read before it; a
check that condemns a worker by its own reading must imply that the worker is
silent by the present clock too. The theorems are `HealthInvariance`,
`SilentNeverReturns`, `AnsweringNeverShutOut` and `NeverFalseAlarm`. `SInv` adds
the schedulers. That turns differ by at most one is not inductive, since it does
not say where the cursor stands; `InRotation` does: since the pool last changed,
the cursor has gone from some place of the ring of healthy workers so many whole
rounds, and the places it has passed in this round have had one turn more. The
place need not be the first, because the cursor outlives the pool. From it
`RotationIsFair`; `AffinityIsHonoured` rests on what the two nested filters of
the hints keep.

**`StorageProofs`** (from `PoolAssumption`, `FacadeAssumption`, `CacheAssumption`,
`IoAssumption`).

* *Pool.* `BuffersExclusive` is inductive once it also covers buffers between a
  `release()` and the lock (`ReturnedByOne`) and forbids a buffer to stand twice in
  a free list (`ListedOnce`). The lemmas `Popped` and `Pushed` say what the two
  list operations do to the set of pooled buffers, and `FoundClassFits` what
  `_find_size_class` answers. The counter is compared with the number of bytes
  in the pool, which the model has as a set, so a pop or a push changes its cardinality by the
  buffer's size. Theorems: `BuffersAlwaysExclusive` and `PoolAlwaysAccounts`.
* *Facade and SQLite.* `ShutdownAlone` says which parts a shutdown that waits for
  the cache may still find; `RowsKept` that a method between its statement and
  its commit finds its row there or on disk, also when another thread's commit on
  the same connection put it there, and that only one connection ever has rows to
  commit. Theorems: `FacadeInvariance`, `PartsAlwaysOwned`, `RowsAlwaysSurvive`.
* *Cache.* `CacheInvariant` says that neither backend holds what a completed write
  has replaced, as long as the fallback is not in use, and the dictionary never,
  and of each call in flight what it may still answer or do. Theorems:
  `CacheInvariance`, `AnswersNeverStale`.
* *Files.* `OnePlace` says that each chunk is queued, in one batch of one flush,
  written or given up, and `InOrder` that batches keep the order of queueing;
  from them `ChunksAlwaysAccounted`. For `QuietFilesAlwaysWhole`, `PathQuiet` follows a batch
  that has its path to itself: one flush holds it and the file is as far as that
  flush is (`OnlyFlush`, `FileAsFar`), or it is written or given up and the file
  is it (`Settled`); `CacheRight` says the same of what is read ahead.

**`NativeCodeProofs`** (`SlotsAlwaysApart` from no assumption, `CallerAlwaysUndisturbed`
from `NativeAssumption` and `StackAssumption`).

* *Frame layout.* `Layout` adds to `SlotsApart` that every slot ends at or before the
  next free offset, which is what keeps the next one apart; `FrameReachesOffset`
  says that rounding the frame never cuts off a slot. `SlotsAlwaysApart` holds for
  functions of any length and any number of arguments, on all three processors. It
  bounds slots by `FirstOffset`, the stack pointer's side by the frame: on x86-64
  and AArch64 what is saved lies before `FirstOffset`, on RISC-V it does not, which
  is finding 5.
* *What a call leaves behind.* `FrameInvariant` has two halves. The first is about
  the code, from the prologue to the last patch: `FlowOK` says that it starts with
  the prologue and that every other place holds a `Harmless` instruction (it writes
  a scratch register, a slot of the frame, or through r10), a jump, or the epilogue
  from its first instruction on, and that the place behind a harmless instruction
  and the target of a jump are such places too; `LabelsOK` and `PatchesOK` say it of
  the labels and of the jumps that still wait for their displacement.
  `EmittedShape` proves it of what the generators make of each opcode,
  `EmitKeepsFlow` and `PatchKeepsFlow` of the assembler. The second half,
  `MachineOK`, says what the machine has saved, and where, at the place it has
  reached: `EnterState` before each instruction of the prologue, `InFrame` in the
  body, `LeaveState` in the epilogue. `PairFits` shows that where ldp can hold the
  frame's size stp can hold its negative. TLC checked the invariant before the proof.
  The theorem has a hypothesis about the program, not the generators:
  `StoresInArrays`, no store through a pointer reaches words of the stack, which
  nothing in the code prevents when an index is negative. The run checks it as a
  part of `NativeAgrees`.

**`RuntimeProofs`** (from `CompileAssumption`, `StringAssumption`,
`ListAssumption`, `SchedulerAssumption`, `JitAssumption`, `SafetyAssumption`).

* *Compile cache.* A key is that of the function in some stage of its passes
  (`KeysOK`), and what is cached under a key was made of a function that has it in
  some stage (`CacheOK`): not more, because the stage may change between the hash
  and the lookup. `CompiledAlwaysAlike` assumes `KernelsFit`: whatever a machine
  with CUDA sends to its backend is meant to be what the template computes. The
  backend has two templates, matrix product and vector sum, and does not refuse
  what is neither (`VMUL`, section 3), for which the statement would be false.
* *Strings.* While nobody has misused the pool, `InternedOK` says that a pool has one
  object of a content, `HeldOK` that what is held and can be found is of its own pool, and
  `CountsOK` that the count of an object is the number of references to it, held by
  all threads together: a set of pairs of a thread and a number, whose cardinality
  a step changes by one (`RefAdded`). From them `StringsInternedOnce`.
* *List.* The invariant adds that the length is within the capacity; the lemmas
  say of each operation which cells it moves. A slice is the subsequence that
  `SubSeq` makes (`KeptInterval`). Theorem: `ListAlwaysSequence`.
* *Scheduler.* Two facts about the cut carry it: `ChunksApart`, that the chunks of
  two workers have no iteration in common, and `ChunksCover`, that the chunks of
  the launched workers reach the total once the loop that starts them has ended;
  both rest on what rounding the chunk size up does (`RoundedUp`).
  `SchedulerInvariant` says of each started worker that it stands inside its chunk
  (`InChunk`), that what is run is exactly what the workers have left behind
  (`RunOnce`), and whether the call runs in place or forks and joins (`InPlace`,
  `Forked`). The theorem is `IterationsAlwaysOnce`.
* *JIT.* `CodeAgrees` is the fact about data: code made of a function that could be
  traced, and that the tracing understood, answers what Python answers, up to the
  width of its integers. It rests on `ArmTaken`: the arm of the comparison that
  the tracing followed is the one every call of that signature takes, because an
  untraced comparison reads constants and defaults only. `JitInvariant` adds what
  the wrapper never states: an entry under a signature is the function's own code
  for that many arguments (`CacheOwn`), a call about to store code has traced it,
  and a call that found an entry still finds one unless the cache was cleared
  since (`CallKnown`). `OthersKnown` says that a step of one thread that takes no
  entry away disturbs nobody else. The theorem is `JitAlwaysAnswersAsPython`.
* *Safety checks.* `ChecksAlwaysSound` is about arithmetic that wraps, for every
  width: an addition that wraps lands on the side of its operand where no true sum
  is, so the comparison of the native checker finds it (`NumberLemmas` has the
  facts: a power of two doubles, quotient and remainder are unique, a multiple
  within one modulus is zero); a product is checked by dividing it back. The rest
  of the invariant relates the checker to `wanted`: while the program has asked for
  nothing but strict checks there is no lenient checker, and after a disable there
  is no other.

**`GpuProofs`** (from `KernelAssumption`, `GpuAssumption`).

* *Device memory.* `Orderly` is what the four call programs have in common: every
  buffer is freed, the last step is a free, and after the first free nothing is
  allocated or filled. With it `CallsSound` is inductive: calls have handles of
  their own, and the buffers a call has freed stay free; so a call that ends
  leaves nothing, and `DeviceMemoryAlwaysAccounted` follows.
* *The manager.* `PluginsAlwaysSound` needs that a plugin is in the table once
  (`TableOnce`), that no two threads hold the same one (`HandsApart`), and of each
  thread in the manager (`ManagerSound`): what it holds is not in the table, what it
  has loaded and not entered is alive, what a `shutdown_all` has left behind it is
  shut down or came late, and when it is about to clear the table that is so of
  everything there. An entry made while another thread is in `shutdown_all` is `late`
  from then on, so it does not matter on which side of the iterator it lands
  (`EnterKeeps`).
* *Answers.* `AnswersInvariant` follows a call through its program. `Filled`
  says what each of its buffers holds at each place: its inputs after the copies,
  what the kernel computes of them after the launch, and that in the host's
  memory after the copy back; a call of NVIDIA's or AMD's plugin is never past its
  launch. `GridCovers` says that the rounded-up grid reaches every element, so that
  no thread's element is left out or written by another. The sums of a kernel and of
  what it is meant to compute are folds of the same products over the same set, so no
  induction is needed. `AnswersAlwaysRight` is `AnswersRight` for programs that ask
  for no vector product (which the backend's template adds, section 3), any block
  size, any number of threads that load, unload and call, and any driver calls that
  fail. It assumes `RequestsFit`: operands have the lengths their dimensions say.

**`NumberLemmas`** proves induction on the naturals by sets: a set that holds 0 and
the successor of each of its members holds every natural number, because a least
number outside it has no predecessor. The library's own induction theorems take an
operator as a parameter, which the installed provers cannot instantiate.

TLC alone checks, and why:

* the liveness properties `SettledGetsOutcome` and `SignalEndsServing`: fairness
  is out of the proof system's reach;
* `SameMeaning` of the optimizer: the passes and the meaning of a program are
  `RECURSIVE` operators, which the SMT backend cannot be used beside;
* `NativeAgrees`: the interpreter and the machine run step by step beside each
  other over code of any length, so the invariant must relate every prefix of one
  to the code the generator made of it, for each opcode and each of three
  processors, through arithmetic that one of them wraps.

## 6. Assumptions

The wall clock does not step back. Pool clients release a buffer they hold,
once, and do not touch it afterwards. The program starts its server again only
when no stop is in progress. The HTTP port is fixed, so two listeners of one
process exclude each other. A launch of a kernel is over before the call that
waits for it returns, and threads of a kernel write their own elements only. The
native safety library is built with wrapping arithmetic, as its build file says. The
stack has room for a compiled function's frame, and a compiled program's indices
into an array are not negative.
SQLite serialises writers of one database and keeps what was committed. Redis,
aiohttp, grpc.aio, SQLite, the system allocator, the file system, the GPU drivers and
the target machines are external and modelled by what the code relies on.

## 7. Not modelled, and the plan

Not modelled, because there is no state to be wrong about: checksums, the
runtime memory manager (one aligned allocation), executable memory and target
profiles, hardware probes, command line, MCP dispatch, containerization text,
tensor front ends and benchmarks, the example plugins. Instruction encodings are
left to the encoders' own tests.

Partly modelled: the optimizer works on one block; the code generators leave out
vectors, `MATMUL`, strings and loop opcodes; the JIT model leaves out floats,
strings and the loop context; runtime safety leaves out pointer and string
checks; the CUDA runner is modelled for tensors, without raw addresses, host arrays
(each of which it also copies back) and scalars of types it drops; `GRPCServer`'s own start and stop are not modelled.

Next, in this order:

1. Proofs: `NativeAgrees`, on top of `FlowOK`, with the slots' contents beside the
   interpreter's environment; `OperandsDefined` and `SameMeaning`, once the passes
   are folds.
2. The optimizer over several blocks: common subexpressions cross branches,
   division, list instructions in the passing run.
3. `NativeCode`: vectors and their registers, `MATMUL`, 32-bit elements, and a
   run that shows what a branch on a plain boolean does.
4. `GRPCServer` start and stop, composed with `ProtocolServer`.
