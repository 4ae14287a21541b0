----------------------------- MODULE GpuPlugins -----------------------------
(***************************************************************************)
(* The plugin manager (src/uhcr/plugins/base.py), the three GPU plugins    *)
(* (gpu_nvidia.py, gpu_amd.py, gpu_intel.py) and the CUDA backend's runner *)
(* (src/uhcr/backends/cuda_backend.py), called by several threads.  A      *)
(* plugin's initialize is the list of what it sets up, and a call of it    *)
(* the list of the driver calls it makes; the vendors differ in these and  *)
(* in which failures they look at.  The manager has a runtime, so that     *)
(* load_plugin initializes, and no lock.                                   *)
(*                                                                         *)
(* Driver and device are external: any driver call may fail, a handle is   *)
(* not used twice, and a launch is over before it returns.  A plugin is    *)
(* known by the number of its making, the CUDA backend by Backend, with    *)
(* "cuda" for its vendor.  A plugin of another origin is "other": its own  *)
(* initialize and shutdown may raise.                                      *)
(***************************************************************************)
EXTENDS GpuKernels, FiniteSets

CONSTANTS
  Callers,     (* threads that call plugins                                *)
  Managers,    (* threads that call the plugin manager                     *)
  Names,       (* plugins there are: vendors and "other"                   *)
  Requests,    (* [op, a, b, m, n, k]: what callers ask for                *)
  MaxMade,     (* bound on the plugins loaded (model only)                 *)
  MaxCalls     (* bound on the calls made (model only)                     *)

ASSUME GpuAssumption ==
  /\ Names \subseteq {"nvidia", "amd", "intel", "other"}
  /\ MaxMade \in Nat /\ MaxCalls \in Nat
  /\ \A r \in Requests : r.op \in {"vec_add", "vec_mul", "matmul", "dot"} /\ r.n > 0

Backend == 0
Gap     == -1
Handles == 1 .. 3 * MaxCalls

VARIABLES
  plugins,     (* PluginManager._plugins: its entries in order, Gap for    *)
               (* one that was taken out                                   *)
  plugin,      (* plugin[i]: the i-th plugin made                          *)
  made,        (* number of plugins made                                   *)
  kernels,     (* _kernel_registry: kernels[v] serves the names of v       *)
  managing,    (* managing[t]: the method of the manager t is in           *)
  memory,      (* the device's buffers by their handles                    *)
  gpuCall,     (* gpuCall[t]: the call t is in                             *)
  calls,       (* number of calls made                                     *)
  replaced,    (* history: plugins whose entry a later load took           *)
  late,        (* history: plugins put or moved in the table while a       *)
               (* shutdown_all was under way                               *)
  aborted,     (* history: a shutdown_all ended with an exception          *)
  abandoned,   (* history: buffers of calls that raised                    *)
  answers      (* history: what calls returned                             *)

historyVars == <<replaced, late, aborted>>
managerVars == <<plugins, plugin, made, kernels, managing, historyVars>>
callVars    == <<memory, gpuCall, calls, abandoned, answers>>
gpuVars     == <<managerVars, callVars>>

Idle == [pc |-> "idle"]
Rest == [pc |-> "rest"]
Free == <<"free">>   (* no buffer has this handle, yet or any more         *)

GpuInit ==
  /\ plugins = <<>>
  /\ plugin = [i \in Backend .. MaxMade |->
       IF i = Backend THEN [name |-> "cuda", has |-> {"context", "kernels", "available"},
                            life |-> "live"]
       ELSE [name |-> "none", has |-> {}, life |-> "none"]]
  /\ made = 0
  /\ kernels = [v \in Names |-> Backend]
  /\ managing = [t \in Managers |-> Rest]
  /\ memory = [h \in Handles |-> Free]
  /\ gpuCall = [t \in Callers |-> Idle]
  /\ calls = 0
  /\ replaced = {} /\ late = {} /\ aborted = FALSE /\ abandoned = {} /\ answers = {}

-----------------------------------------------------------------------------
(* initialize of the plugins: what is set up, in this order.               *)

NvidiaSetUp == <<"library", "context", "available", "kernels", "registered">>
AmdSetUp    == <<"library", "context", "kernels", "registered", "available">>
IntelSetUp  == <<"library", "context", "kernels", "registered", "available">>

(* Which of it can fail.  NVIDIA and AMD do not look at what the driver    *)
(* says of device and context.  Intel's context cannot be made: without a  *)
(* device _setup raises, and with one byref(target_dev) does, a TypeError, *)
(* as the element of an array of c_void_p is an int.                       *)
NvidiaCanFail == {"library", "kernels"}
AmdCanFail    == {"library", "kernels"}
IntelCanFail  == {"library", "context"}

CanSucceed(name) == name # "intel"

SetUp(name) ==
  CASE name = "nvidia" -> NvidiaSetUp
    [] name = "amd" -> AmdSetUp
    [] name = "intel" -> IntelSetUp
    [] name = "other" -> <<"registered">>

CanFail(name) ==
  CASE name = "nvidia" -> NvidiaCanFail
    [] name = "amd" -> AmdCanFail
    [] name = "intel" -> IntelCanFail
    [] name = "other" -> {"registered"}

(* Mutant: the handler of the exception leaves the flag.                   *)
KeptFlag(has) == has

(* The handler of the exception: NVIDIA's resets _available, which Intel   *)
(* and AMD have not set yet.                                               *)
FlagReset(has) == has \ {"available"}

(* What a plugin has after the initialize in which step s fails; 0: none.  *)
Has(name, s) ==
  IF s = 0 THEN ToSet(SetUp(name)) ELSE FlagReset(ToSet(SubSeq(SetUp(name), 1, s - 1)))

-----------------------------------------------------------------------------
(* The manager.                                                            *)

Table == ToSet(plugins) \ {Gap}

EntryOf(name) == {e \in DOMAIN plugins : plugins[e] # Gap /\ plugin[plugins[e]].name = name}

Busy(t, m) == managing' = [managing EXCEPT ![t] = m]

(* load_plugin.  Nothing sees the plugin before it registers its kernels,  *)
(* so initialize is one step.  Only another plugin raises out of it.       *)
LoadPlugin(t, name, s) ==
  /\ managing[t] = Rest
  /\ made < MaxMade
  /\ IF s = 0 THEN CanSucceed(name)
     ELSE s \in DOMAIN SetUp(name) /\ SetUp(name)[s] \in CanFail(name)
  /\ made' = made + 1
  /\ LET raises == name = "other" /\ s # 0
     IN  /\ plugin' = [plugin EXCEPT ![made'] =
              [name |-> name, has |-> Has(name, s),
               life |-> IF raises THEN "failed" ELSE "live"]]
         /\ kernels' = IF "registered" \in Has(name, s) THEN [kernels EXCEPT ![name] = made']
                       ELSE kernels
         /\ Busy(t, IF raises THEN Rest ELSE [pc |-> "loaded", who |-> made'])
  /\ UNCHANGED <<plugins, historyVars, callVars>>

ShuttingDown(t) == managing[t].pc \in {"iterating", "clearing"}

(* The table with its gaps closed, as a dict does when its room is used up. *)
Compact ==
  {table \in [1 .. Cardinality(Table) -> Table] :
     /\ ToSet(table) = Table
     /\ \A j, k \in DOMAIN table : j < k =>
          \E d, e \in DOMAIN plugins : d < e /\ plugins[d] = table[j] /\ plugins[e] = table[k]}

(* The assignment that follows load_plugin, in load_single or in an        *)
(* iteration of load_all: to the entry of the name if there is one.        *)
Enter(t) ==
  /\ managing[t].pc = "loaded"
  /\ LET i == managing[t].who
         entries == EntryOf(plugin[i].name)
         moved(table) == IF table = plugins THEN {i} ELSE {i} \cup Table
         meets == \E u \in Managers : ShuttingDown(u)
     IN  \/ /\ entries = {}
            /\ \E table \in {plugins} \cup Compact :
                 /\ plugins' = Append(table, i)
                 /\ late' = IF meets THEN late \cup moved(table) ELSE late
            /\ UNCHANGED replaced
         \/ \E e \in entries :
              /\ plugins' = [plugins EXCEPT ![e] = i]
              /\ late' = IF meets THEN late \cup {i} ELSE late
              /\ replaced' = replaced \cup {plugins[e]}
  /\ Busy(t, Rest)
  /\ UNCHANGED <<plugin, made, kernels, aborted, callVars>>

(* shutdown of a GPU plugin drops its context and nothing else.  The life  *)
(* of a plugin is over with the call of its shutdown, also one that raises. *)
ShutDown(i) == plugin' = [plugin EXCEPT ![i].has = @ \ {"context"}, ![i].life = "shut"]

(* unload: pop, then shutdown.                                             *)
TakeOut(t, name) ==
  /\ managing[t] = Rest
  /\ \E e \in EntryOf(name) :
       /\ plugins' = [plugins EXCEPT ![e] = Gap]
       /\ Busy(t, [pc |-> "closing", who |-> plugins[e]])
  /\ UNCHANGED <<plugin, made, kernels, historyVars, callVars>>

Close(t) ==
  /\ managing[t].pc = "closing"
  /\ ShutDown(managing[t].who)
  /\ Busy(t, Rest)
  /\ UNCHANGED <<plugins, made, kernels, historyVars, callVars>>

(* shutdown_all: the loop, with an iterator of the dict's values, which    *)
(* knows its place, the number of entries at the start and how many of     *)
(* them are left.                                                          *)
BeginShutdown(t) ==
  /\ managing[t] = Rest
  /\ LET size == Cardinality(Table)
     IN  Busy(t, [pc |-> "iterating", place |-> 0, size |-> size, left |-> size])
  /\ UNCHANGED <<plugins, plugin, made, kernels, historyVars, callVars>>

Ahead(t) == {e \in DOMAIN plugins : e > managing[t].place /\ plugins[e] # Gap}

(* RuntimeError: the dictionary's size or keys changed during iteration.   *)
Changed(t) ==
  Cardinality(Table) # managing[t].size \/ (managing[t].left = 0 /\ Ahead(t) # {})

IterationFails(t) ==
  /\ managing[t].pc = "iterating"
  /\ Changed(t)
  /\ Busy(t, Rest) /\ aborted' = TRUE
  /\ UNCHANGED <<plugins, plugin, made, kernels, replaced, late, callVars>>

(* The next plugin's shutdown.  That of another plugin may raise, which    *)
(* leaves those after it, and the table, as they are.                      *)
ShutdownNext(t) ==
  /\ managing[t].pc = "iterating"
  /\ ~Changed(t)
  /\ \E e \in Ahead(t) :
       /\ \A d \in Ahead(t) : e <= d
       /\ ShutDown(plugins[e])
       /\ \/ /\ Busy(t, [managing[t] EXCEPT !.place = e, !.left = @ - 1])
             /\ UNCHANGED aborted
          \/ /\ plugin[plugins[e]].name = "other"
             /\ Busy(t, Rest) /\ aborted' = TRUE
  /\ UNCHANGED <<plugins, made, kernels, replaced, late, callVars>>

EndIteration(t) ==
  /\ managing[t].pc = "iterating"
  /\ ~Changed(t) /\ Ahead(t) = {}
  /\ Busy(t, [pc |-> "clearing"])
  /\ UNCHANGED <<plugins, plugin, made, kernels, historyVars, callVars>>

ClearTable(t) ==
  /\ managing[t].pc = "clearing"
  /\ plugins' = <<>>
  /\ Busy(t, Rest)
  /\ UNCHANGED <<plugin, made, kernels, historyVars, callVars>>

-----------------------------------------------------------------------------
(* The driver calls of a call, in order; the buffers 1 and 2 are for the   *)
(* operands, 3 for the result.  Intel's are left out: it is never available. *)

NvidiaCall ==
  <<<<"alloc", 1>>, <<"upload", 1>>, <<"alloc", 2>>, <<"upload", 2>>, <<"alloc", 3>>,
    <<"launch", 3>>, <<"download", 3>>, <<"free", 1>>, <<"free", 2>>, <<"free", 3>>>>

AmdCall ==
  <<<<"alloc", 1>>, <<"upload", 1>>, <<"alloc", 2>>, <<"upload", 2>>, <<"alloc", 3>>,
    <<"launch", 3>>, <<"download", 3>>, <<"free", 1>>, <<"free", 2>>, <<"free", 3>>>>

(* The runner, called with Tensors, frees each operand as it comes to it.  *)
(* Its other arguments are left out: raw GPU addresses, which it passes on, *)
(* host arrays, each of which it also copies back, and scalars that are    *)
(* neither I32 nor F32, which it drops, so that later ones move up.        *)
CudaCall ==
  <<<<"alloc", 1>>, <<"upload", 1>>, <<"alloc", 2>>, <<"upload", 2>>, <<"alloc", 3>>,
    <<"launch", 3>>, <<"free", 1>>, <<"free", 2>>, <<"download", 3>>, <<"free", 3>>>>

(* The failures that go unnoticed.                                         *)
NvidiaIgnores == {"alloc", "upload", "download"}
AmdIgnores    == {"upload", "download"}

Program(name) ==
  CASE name = "nvidia" -> NvidiaCall
    [] name = "amd" -> AmdCall
    [] name = "cuda" -> CudaCall

Ignores(name) ==
  CASE name = "nvidia" -> NvidiaIgnores
    [] name = "amd" -> AmdIgnores
    [] OTHER -> {}

Offers(name, op) ==
  CASE name \in {"amd", "intel"} -> TRUE
    [] name \in {"nvidia", "cuda"} -> op # "dot"
    [] OTHER -> FALSE

(* The caller has the plugin from the manager, its bound method from the   *)
(* kernel registry, or a function the backend compiled.                    *)
Begin(t, i, r) ==
  /\ gpuCall[t] = Idle
  /\ calls < MaxCalls
  /\ i \in Table \cup {kernels[v] : v \in Names} \cup {Backend}
  /\ Offers(plugin[i].name, r.op)
  /\ calls' = calls + 1
  /\ gpuCall' = [gpuCall EXCEPT ![t] =
       [pc |-> "checks", of |-> i, request |-> r, first |-> 3 * calls, at |-> 1,
        result |-> <<>>]]
  /\ UNCHANGED <<managerVars, memory, abandoned, answers>>

Plugin(t)  == plugin[gpuCall[t].of]
Request(t) == gpuCall[t].request
Correct(r) == Reference(r.op, r.a, r.b, r.m, r.n, r.k)

Answer(t, result) ==
  /\ gpuCall' = [gpuCall EXCEPT ![t] = Idle]
  /\ answers' = answers \cup {[request |-> Request(t), result |-> result]}

Checking(t) == gpuCall[t].pc = "checks"

(* An unavailable plugin computes on the CPU.                              *)
FallBack(t) ==
  /\ Checking(t)
  /\ "available" \notin Plugin(t).has
  /\ Answer(t, Correct(Request(t)))
  /\ UNCHANGED <<managerVars, memory, calls, abandoned>>

(* The assertion of the plugins' matmul.                                   *)
Admitted(t) ==
  Request(t).op = "matmul" /\ gpuCall[t].of # Backend => Request(t).m = Request(t).n

Ready(t) == Admitted(t) /\ "context" \in Plugin(t).has

(* A plugin that was shut down raises for want of a context.               *)
Refuse(t) ==
  /\ Checking(t)
  /\ "available" \in Plugin(t).has /\ ~Ready(t)
  /\ gpuCall' = [gpuCall EXCEPT ![t] = Idle]
  /\ UNCHANGED <<managerVars, memory, calls, abandoned, answers>>

Accept(t) ==
  /\ Checking(t)
  /\ "available" \in Plugin(t).has /\ Ready(t)
  /\ gpuCall' = [gpuCall EXCEPT ![t].pc = "driver"]
  /\ UNCHANGED <<managerVars, memory, calls, abandoned, answers>>

-----------------------------------------------------------------------------
(* The driver calls.                                                       *)

Calls(t) == Program(Plugin(t).name)
Now(t)   == Calls(t)[gpuCall[t].at]

Doing(t, kind) == gpuCall[t].pc = "driver" /\ Now(t)[1] = kind

Buffer(t, k) == gpuCall[t].first + k
This(t)      == Buffer(t, Now(t)[2])
BuffersOf(t) == {Buffer(t, k) : k \in 1 .. 3}

Live(handles) == {h \in handles : memory[h] # Free}

GoOn(t) == gpuCall' = [gpuCall EXCEPT ![t].at = @ + 1]

(* An exception leaves the call; what it had allocated stays allocated.    *)
Raise(t) ==
  /\ gpuCall' = [gpuCall EXCEPT ![t] = Idle]
  /\ abandoned' = abandoned \cup Live(BuffersOf(t))

DriverFails(t) ==
  /\ \/ \E kind \in {"alloc", "upload", "download"} : Doing(t, kind)
     \/ Doing(t, "launch") /\ Plugin(t).name = "cuda"
  /\ IF Now(t)[1] \in Ignores(Plugin(t).name) THEN GoOn(t) /\ UNCHANGED abandoned ELSE Raise(t)
  /\ UNCHANGED <<managerVars, memory, calls, answers>>

Operand(t) == IF Now(t)[2] = 1 THEN Request(t).a ELSE Request(t).b

Size(t) ==
  IF Now(t)[2] < 3 THEN Len(Operand(t))
  ELSE CASE Request(t).op = "matmul" -> Request(t).m * Request(t).n
         [] Request(t).op = "dot" -> Blocks(Request(t).n)
         [] OTHER -> Request(t).n

Allocate(t) ==
  /\ Doing(t, "alloc")
  /\ memory' = [memory EXCEPT ![This(t)] = [i \in 1 .. Size(t) |-> Garbage]]
  /\ GoOn(t)
  /\ UNCHANGED <<managerVars, calls, abandoned, answers>>

(* A copy to the null pointer of a failed allocation fails as well.        *)
Copy(t) ==
  /\ Doing(t, "upload") /\ memory[This(t)] # Free
  /\ memory' = [memory EXCEPT ![This(t)] = Operand(t)]
  /\ GoOn(t)
  /\ UNCHANGED <<managerVars, calls, abandoned, answers>>

(* launch of NVIDIA and AMD: the array of c_void_p cannot be built from    *)
(* what byref() returns, a TypeError.                                      *)
LaunchRaises(t) ==
  /\ Doing(t, "launch") /\ Plugin(t).name \in {"nvidia", "amd"}
  /\ Raise(t)
  /\ UNCHANGED <<managerVars, memory, calls, answers>>

(* What the device computes for op in the buffers <<a, b, c>>.             *)
Computed(op, buffers, m, n, k) ==
  LET a == memory[buffers[1]]
      b == memory[buffers[2]]
      c == memory[buffers[3]]
  IN  IF op = "matmul" THEN MatmulKernel(a, b, c, m, n, k) ELSE ElementKernel(op, a, b, c, n)

(* _generate_ptx knows matrix multiplication; all else becomes addition.   *)
Template(op) == IF op = "matmul" THEN op ELSE "vec_add"

LaunchCuda(t) ==
  /\ Doing(t, "launch") /\ Plugin(t).name = "cuda"
  /\ LET r == Request(t)
         buffers == [k \in 1 .. 3 |-> Buffer(t, k)]
     IN  memory' = [memory EXCEPT ![buffers[3]] =
           Computed(Template(r.op), buffers, r.m, r.n, r.k)]
  /\ GoOn(t)
  /\ UNCHANGED <<managerVars, calls, abandoned, answers>>

Download(t) ==
  /\ Doing(t, "download")
  /\ gpuCall' = [gpuCall EXCEPT ![t].at = @ + 1, ![t].result = memory[This(t)]]
  /\ UNCHANGED <<managerVars, memory, calls, abandoned, answers>>

(* Mutant: what an operand was in stays allocated.                         *)
ResultOnly(t) == Buffer(t, 3)

Released(t) == This(t)

(* The last one ends the call.                                             *)
FreeBuffer(t) ==
  /\ Doing(t, "free")
  /\ memory' = [memory EXCEPT ![Released(t)] = Free]
  /\ IF gpuCall[t].at = Len(Calls(t)) THEN Answer(t, gpuCall[t].result)
     ELSE GoOn(t) /\ UNCHANGED answers
  /\ UNCHANGED <<managerVars, calls, abandoned>>

GpuNext ==
  \/ \E t \in Managers :
       \/ \E name \in Names, s \in 0 .. 5 : LoadPlugin(t, name, s)
       \/ \E name \in Names : TakeOut(t, name)
       \/ Enter(t) \/ Close(t)
       \/ BeginShutdown(t) \/ ShutdownNext(t) \/ IterationFails(t) \/ EndIteration(t)
       \/ ClearTable(t)
  \/ \E t \in Callers :
       \/ \E i \in Backend .. MaxMade, r \in Requests : Begin(t, i, r)
       \/ FallBack(t) \/ Refuse(t) \/ Accept(t)
       \/ DriverFails(t) \/ Allocate(t) \/ Copy(t)
       \/ LaunchRaises(t) \/ LaunchCuda(t)
       \/ Download(t) \/ FreeBuffer(t)

GpuSpec == GpuInit /\ [][GpuNext]_gpuVars

-----------------------------------------------------------------------------
(* Properties.                                                             *)

(* A call that returns has the reference result, from whichever processor, *)
(* whatever failed before and whoever unloads the plugin meanwhile.        *)
AnswersRight == \A x \in answers : x.result = Correct(x.request)

(* Device memory is lost by calls that raise and by nothing else: what is  *)
(* allocated belongs to a call under way or to one that raised.            *)
DeviceMemoryAccounted ==
  Live(Handles) \subseteq
    abandoned \cup UNION {BuffersOf(t) : t \in {t \in Callers : gpuCall[t] # Idle}}

(* A plugin that was initialized and not shut down is in the table, in the *)
(* hands of a thread that loads or unloads it, or is one of two kinds the  *)
(* manager is known to lose: another load took its entry, or it came in, or *)
(* was moved, during a shutdown_all.  No plugin can be looked up after its *)
(* shutdown, except during a shutdown_all or after one that raised.  And   *)
(* one that says it is available has what calls need.                      *)
PluginsSound ==
  LET live   == {i \in 1 .. made : plugin[i].life = "live"}
      inHand == {t \in Managers : managing[t].pc \in {"loaded", "closing"}}
  IN  /\ live \subseteq Table \cup {managing[t].who : t \in inHand} \cup replaced \cup late
      /\ Table \subseteq live \/ aborted \/ \E t \in Managers : ShuttingDown(t)
      /\ \A i \in live : "available" \in plugin[i].has =>
           {"context", "kernels"} \subseteq plugin[i].has
=============================================================================
