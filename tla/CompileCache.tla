---------------------------- MODULE CompileCache ----------------------------
(***************************************************************************)
(* UHCRRuntime.compile (src/uhcr/runtime/runtime.py) called by several     *)
(* threads: the key is computed before the lock is taken, the passes       *)
(* rewrite the function in place under the lock, and a backend is chosen   *)
(* for what they leave.  A function is known by what the runtime reads of  *)
(* it; its operands and constants are in its meaning only.                 *)
(***************************************************************************)
EXTENDS Integers, Sequences, FiniteSets

CONSTANTS
  Compilers,   (* threads                                                  *)
  Functions,   (* the function objects there are                           *)
  NameOf,      (* name and signature                                       *)
  OpcodesOf,   (* OpcodesOf[f][s]: labels, opcodes and types at a stage s  *)
  Meaning,     (* Meaning[f]: what f computes                              *)
  VectorOps,   (* opcodes routed to a GPU                                  *)
  TakesPtr,    (* functions with a pointer among their arguments           *)
  Profiles,    (* what detect_platform may find: sets of backends          *)
  MaxCompiles  (* bound on the calls (model only)                          *)

(* The passes have not begun, are under way, or are done.                  *)
Stages == {"built", "rewriting", "optimized"}

ASSUME CompileAssumption ==
  /\ MaxCompiles \in Nat
  /\ \A p \in Profiles : "cpu_generic" \in p

VARIABLES
  profile,     (* the backends that support this machine                   *)
  stage,       (* stage[f]: how far the passes have rewritten f            *)
  cache,       (* _cache: the codes by their keys                          *)
  cacheLock,   (* the thread that holds _cache_lock, or "free"             *)
  compiling,   (* compiling[t]: the compile() t is in                      *)
  compiles,    (* number of calls begun                                    *)
  obtained     (* history: [asked, computes] of the calls that returned    *)

compileVars == <<profile, stage, cache, cacheLock, compiling, compiles, obtained>>

NotCompiling == [pc |-> "idle"]

CompileInit ==
  /\ profile \in Profiles
  /\ stage = [f \in Functions |-> "built"]
  /\ cache = {}
  /\ cacheLock = "free"
  /\ compiling = [t \in Compilers |-> NotCompiling]
  /\ compiles = 0
  /\ obtained = {}

(* Mutant: the key has the structure and not the name.                     *)
StructureKey(f, s) == OpcodesOf[f][s]

(* cache_key with _hash_function.                                          *)
Key(f, s) == <<NameOf[f], OpcodesOf[f][s]>>

(* Another thread's passes may be at work on f: the hash then is that of   *)
(* some stage.                                                             *)
HashFunction(t, f) ==
  /\ compiling[t] = NotCompiling
  /\ compiles < MaxCompiles
  /\ compiles' = compiles + 1
  /\ compiling' = [compiling EXCEPT ![t] =
       [pc |-> "hashed", func |-> f, key |-> Key(f, stage[f])]]
  /\ UNCHANGED <<profile, stage, cache, cacheLock, obtained>>

CompilingAt(t, pc) == compiling[t].pc = pc
Func(t) == compiling[t].func

Obtain(t, code) ==
  /\ obtained' = obtained \cup {[asked |-> Func(t), computes |-> code]}
  /\ compiling' = [compiling EXCEPT ![t] = NotCompiling]

Cached(t) == {entry \in cache : entry.key = compiling[t].key}

Hit(t) ==
  /\ CompilingAt(t, "hashed") /\ cacheLock = "free"
  /\ \E entry \in Cached(t) : Obtain(t, entry.code)
  /\ UNCHANGED <<profile, stage, cache, cacheLock, compiles>>

Miss(t) ==
  /\ CompilingAt(t, "hashed") /\ cacheLock = "free"
  /\ Cached(t) = {}
  /\ cacheLock' = t
  /\ stage' = [stage EXCEPT ![Func(t)] = "rewriting"]
  /\ compiling' = [compiling EXCEPT ![t].pc = "passes"]
  /\ UNCHANGED <<profile, cache, compiles, obtained>>

Rewritten(t) ==
  /\ CompilingAt(t, "passes")
  /\ stage' = [stage EXCEPT ![Func(t)] = "optimized"]
  /\ compiling' = [compiling EXCEPT ![t].pc = "select"]
  /\ UNCHANGED <<profile, cache, cacheLock, compiles, obtained>>

(* get_registered_backends: the highest priority first.                    *)
Ranked == <<"cuda", "cpu_avx512", "cpu_avx2", "cpu_generic">>

FirstOf(backends) == Ranked[CHOOSE i \in DOMAIN Ranked :
  /\ Ranked[i] \in backends
  /\ \A j \in 1 .. i - 1 : Ranked[j] \notin backends]

(* _select_backend_for.                                                    *)
NeedsGpu(f)      == OpcodesOf[f]["optimized"] \cap VectorOps # {} /\ f \in TakesPtr
SelectBackend(f) == FirstOf(IF NeedsGpu(f) THEN profile ELSE profile \ {"cuda"})

(* What the code computes that a backend makes of f: the CUDA backend has  *)
(* a kernel for matrix multiplication, and adds vectors for all else.      *)
CodeOf(f, backend) ==
  IF backend # "cuda" THEN Meaning[f]
  ELSE IF "matmul" \in OpcodesOf[f]["optimized"] THEN "matmul" ELSE "vadd"

Compiled(t) ==
  /\ CompilingAt(t, "select")
  /\ LET code == CodeOf(Func(t), SelectBackend(Func(t)))
     IN  /\ cache' = cache \cup {[key |-> compiling[t].key, code |-> code]}
         /\ Obtain(t, code)
  /\ cacheLock' = "free"
  /\ UNCHANGED <<profile, stage, compiles>>

(* The backend raises: nothing is cached, the function stays rewritten.    *)
CompileFails(t) ==
  /\ CompilingAt(t, "select")
  /\ compiling' = [compiling EXCEPT ![t] = NotCompiling]
  /\ cacheLock' = "free"
  /\ UNCHANGED <<profile, stage, cache, compiles, obtained>>

ClearCache ==
  /\ cacheLock = "free" /\ cache # {}
  /\ cache' = {}
  /\ UNCHANGED <<profile, stage, cacheLock, compiling, compiles, obtained>>

CompileNext ==
  \/ \E t \in Compilers :
       \/ \E f \in Functions : HashFunction(t, f)
       \/ Hit(t) \/ Miss(t) \/ Rewritten(t) \/ Compiled(t) \/ CompileFails(t)
  \/ ClearCache

CompileSpec == CompileInit /\ [][CompileNext]_compileVars

-----------------------------------------------------------------------------
(* Properties.                                                             *)

Alike(f, g) ==
  NameOf[f] = NameOf[g] /\ \E s, r \in Stages : OpcodesOf[f][s] = OpcodesOf[g][r]

(* Whichever threads rewrote and cached what meanwhile, whatever failed or *)
(* was cleared, and on whichever machine, the code returned is that of the *)
(* function asked for, or of one that has its name and signature and, at   *)
(* some stage of the passes, its opcodes.                                  *)
CompiledIsAlike == \A o \in obtained :
  \E f \in Functions : o.computes = Meaning[f] /\ (f = o.asked \/ Alike(f, o.asked))

(* "Compiles the function [...] and caches the result": the code returned  *)
(* computes what the function does that it was asked for.                  *)
CompiledIsAsked == \A o \in obtained : o.computes = Meaning[o.asked]
=============================================================================
