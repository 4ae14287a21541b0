--------------------------- MODULE RuntimeProofs ---------------------------
(***************************************************************************)
(* Theorems about six parts of the runtime, which share no state: the      *)
(* cache of compiled functions, the pool of interned strings, the list,    *)
(* the scheduler, the tracing JIT and the checks of runtime safety, for    *)
(* any number of threads, functions, contents, items and iterations, any   *)
(* width of a word and any bound on what is made.                          *)
(*                                                                         *)
(* Scheduler: chunks of different workers have no iteration in common, and *)
(* together they reach the total; the invariant says of each worker which  *)
(* iterations of its chunk it has run.                                     *)
(*                                                                         *)
(* JIT: what a function's code answers, when it could be traced and the    *)
(* tracing understood it, is what Python answers; the rest is that an      *)
(* entry of the cache is the code of the wrapped function for that many    *)
(* arguments.                                                              *)
(***************************************************************************)
EXTENDS CompileCache, StringPool, ListRuntime, Scheduler, Jit, SafetyChecks, NumberLemmas,
        FiniteSetTheorems, SequenceTheorems, TLAPS

(* COMPILE CACHE *)

Keys == {Key(f, s) : f \in Functions, s \in Stages}

CompileTypeOK ==
  /\ profile \in Profiles
  /\ stage \in [Functions -> Stages]
  /\ compiling \in [Compilers -> {NotCompiling} \cup
       [pc : {"hashed", "passes", "select"}, func : Functions, key : Keys]]

(* The code that is made of f on this machine.                             *)
MadeOf(f) == CodeOf(f, SelectBackend(f))

(* A key was made of the function it is looked up for, whatever stage that *)
(* was in then.                                                            *)
KeysOK == \A t \in Compilers : compiling[t] # NotCompiling =>
  \E s \in Stages : compiling[t].key = Key(Func(t), s)

(* What is cached under a key was made of a function that has that key in  *)
(* some stage.                                                             *)
CacheOK == \A entry \in cache :
  \E f \in Functions : entry.code = MadeOf(f) /\ \E s \in Stages : entry.key = Key(f, s)

(* What was returned was made of the function asked for, or of one like it. *)
ObtainedOK == \A o \in obtained :
  \E f \in Functions : o.computes = MadeOf(f) /\ (f = o.asked \/ Alike(f, o.asked))

CompileInvariant == CompileTypeOK /\ KeysOK /\ CacheOK /\ ObtainedOK

(* Two functions that have a key in common are alike.                      *)
LEMMA KeyMeansAlike ==
  ASSUME NEW f, NEW g, NEW s \in Stages, NEW r \in Stages, Key(f, s) = Key(g, r)
  PROVE  Alike(f, g)
BY DEF Key, Alike

(* The invariant holds before the first compile().                         *)
LEMMA InitCompile == CompileInit => CompileInvariant
BY DEF CompileInit, CompileInvariant, CompileTypeOK, KeysOK, CacheOK, ObtainedOK, Stages

(* A call under way has a function and a key.                              *)
LEMMA CallUnderWay ==
  ASSUME CompileInvariant, NEW t \in Compilers, NEW pc, CompilingAt(t, pc), pc # "idle"
  PROVE  /\ compiling[t] # NotCompiling
         /\ compiling[t] \in [pc : {"hashed", "passes", "select"}, func : Functions, key : Keys]
         /\ Func(t) \in Functions
         /\ \E s \in Stages : compiling[t].key = Key(Func(t), s)
<1>1. compiling[t] # NotCompiling
  BY DEF CompilingAt, NotCompiling
<1>2. compiling[t] \in [pc : {"hashed", "passes", "select"}, func : Functions, key : Keys]
  BY <1>1 DEF CompileInvariant, CompileTypeOK
<1> QED
  BY <1>1, <1>2 DEF CompileInvariant, KeysOK, Func

(* Returning code that was made of a function alike.                       *)
LEMMA ObtainKeeps ==
  ASSUME CompileInvariant, NEW t \in Compilers, NEW code, Obtain(t, code),
         NEW f \in Functions, code = MadeOf(f), f = Func(t) \/ Alike(f, Func(t)),
         UNCHANGED <<profile, stage>>,
         cache' = cache \/ cache' = cache \cup {[key |-> compiling[t].key, code |-> code]},
         \E s \in Stages : compiling[t].key = Key(f, s)
  PROVE  CompileInvariant'
<1>1. /\ obtained' = obtained \cup {[asked |-> Func(t), computes |-> code]}
      /\ compiling' = [compiling EXCEPT ![t] = NotCompiling]
  BY DEF Obtain
<1>2. CompileTypeOK'
  BY <1>1 DEF CompileInvariant, CompileTypeOK
<1>3. \A u \in Compilers : compiling'[u] = IF u = t THEN NotCompiling ELSE compiling[u]
  BY <1>1 DEF CompileInvariant, CompileTypeOK
<1>4. KeysOK'
  BY <1>3 DEF CompileInvariant, KeysOK, Func
<1>5. \A g : MadeOf(g)' = MadeOf(g)
  BY DEF MadeOf, SelectBackend
<1>6. CacheOK'
  <2>1. ASSUME NEW e \in cache'
        PROVE  \E g \in Functions : e.code = MadeOf(g) /\ \E s \in Stages : e.key = Key(g, s)
    <3>1. CASE e \in cache
      BY <3>1 DEF CompileInvariant, CacheOK
    <3>2. CASE e = [key |-> compiling[t].key, code |-> code]
      BY <3>2
    <3> QED
      BY <2>1, <3>1, <3>2
  <2> QED
    BY <1>5, <2>1 DEF CacheOK
<1>7. ObtainedOK'
  <2>1. ASSUME NEW o \in obtained'
        PROVE  \E g \in Functions : o.computes = MadeOf(g) /\ (g = o.asked \/ Alike(g, o.asked))
    <3>1. CASE o \in obtained
      BY <3>1 DEF CompileInvariant, ObtainedOK
    <3>2. CASE o = [asked |-> Func(t), computes |-> code]
      BY <3>2
    <3> QED
      BY <1>1, <2>1, <3>1, <3>2
  <2> QED
    BY <1>5, <2>1 DEF ObtainedOK
<1> QED
  BY <1>2, <1>4, <1>6, <1>7 DEF CompileInvariant

(* A step of a call that returns nothing and caches nothing.               *)
LEMMA SilentKeeps ==
  ASSUME CompileInvariant, NEW t \in Compilers, NEW c,
         compiling' = [compiling EXCEPT ![t] = c],
         c \in {NotCompiling} \cup
               [pc : {"hashed", "passes", "select"}, func : Functions, key : Keys],
         c # NotCompiling => \E s \in Stages : c.key = Key(c.func, s),
         stage' \in [Functions -> Stages],
         UNCHANGED <<profile, cache, obtained>>
  PROVE  CompileInvariant'
<1>1. \A u \in Compilers : compiling'[u] = IF u = t THEN c ELSE compiling[u]
  BY DEF CompileInvariant, CompileTypeOK
<1>2. CompileTypeOK'
  BY DEF CompileInvariant, CompileTypeOK
<1>3. KeysOK'
  BY <1>1 DEF CompileInvariant, KeysOK, Func
<1>4. \A g : MadeOf(g)' = MadeOf(g)
  BY DEF MadeOf, SelectBackend
<1>5. CacheOK' /\ ObtainedOK'
  BY <1>4 DEF CompileInvariant, CacheOK, ObtainedOK
<1> QED
  BY <1>2, <1>3, <1>5 DEF CompileInvariant

(* Every step preserves the invariant.                                     *)
LEMMA NextCompile == CompileInvariant /\ [CompileNext]_compileVars => CompileInvariant'
<1> SUFFICES ASSUME CompileInvariant, [CompileNext]_compileVars PROVE CompileInvariant'
  OBVIOUS
<1>0. CompileTypeOK /\ CacheOK
  BY DEF CompileInvariant
<1>1. ASSUME NEW t \in Compilers, NEW f \in Functions, HashFunction(t, f)
      PROVE  CompileInvariant'
  <2>1. PICK c : c = [pc |-> "hashed", func |-> f, key |-> Key(f, stage[f])]
    OBVIOUS
  <2>2. stage[f] \in Stages /\ Key(f, stage[f]) \in Keys
    BY <1>0 DEF CompileTypeOK, Keys
  <2>3. c.func = f /\ c.key = Key(f, stage[f])
    BY <2>1
  <2>4. /\ compiling' = [compiling EXCEPT ![t] = c] /\ stage' \in [Functions -> Stages]
        /\ UNCHANGED <<profile, cache, obtained>>
    BY <1>0, <1>1, <2>1 DEF HashFunction, CompileTypeOK
  <2>5. c \in [pc : {"hashed", "passes", "select"}, func : Functions, key : Keys]
    BY <2>1, <2>2
  <2> QED
    BY <2>2, <2>3, <2>4, <2>5, SilentKeeps
<1>2. ASSUME NEW t \in Compilers, Hit(t)
      PROVE  CompileInvariant'
  <2>1. PICK entry \in cache : entry.key = compiling[t].key /\ Obtain(t, entry.code)
    BY <1>2 DEF Hit, Cached
  <2>2. PICK s \in Stages : compiling[t].key = Key(Func(t), s)
    BY <1>2, CallUnderWay DEF Hit
  <2>3. PICK f \in Functions : entry.code = MadeOf(f) /\ \E r \in Stages : entry.key = Key(f, r)
    BY <1>0, <2>1 DEF CacheOK
  <2>4. Alike(f, Func(t))
    BY <2>1, <2>2, <2>3, KeyMeansAlike
  <2>5. UNCHANGED <<profile, stage, cache>>
    BY <1>2 DEF Hit
  <2> QED
    BY <2>1, <2>3, <2>4, <2>5, ObtainKeeps
<1>3. ASSUME NEW t \in Compilers, NEW pc \in {"hashed", "passes"}, CompilingAt(t, pc),
             NEW next \in {"passes", "select"}, NEW s \in Stages,
             compiling' = [compiling EXCEPT ![t].pc = next],
             stage' = [stage EXCEPT ![Func(t)] = s],
             UNCHANGED <<profile, cache, obtained>>
      PROVE  CompileInvariant'
  <2>1. /\ compiling[t] \in [pc : {"hashed", "passes", "select"}, func : Functions, key : Keys]
        /\ \E r \in Stages : compiling[t].key = Key(Func(t), r)
    BY <1>3, CallUnderWay
  <2>2. PICK c : c = [compiling[t] EXCEPT !.pc = next]
    OBVIOUS
  <2>3. /\ c \in [pc : {"hashed", "passes", "select"}, func : Functions, key : Keys]
        /\ c.func = compiling[t].func /\ c.key = compiling[t].key
    BY <2>1, <2>2
  <2>4. compiling' = [compiling EXCEPT ![t] = c]
    BY <1>3, <2>2
  <2>5. stage' \in [Functions -> Stages]
    BY <1>0, <1>3 DEF CompileTypeOK
  <2>6. \E r \in Stages : c.key = Key(c.func, r)
    BY <2>1, <2>3 DEF Func
  <2> QED
    BY <1>3, <2>3, <2>4, <2>5, <2>6, SilentKeeps
<1>4. ASSUME NEW t \in Compilers, Miss(t) \/ Rewritten(t)
      PROVE  CompileInvariant'
  BY <1>3, <1>4 DEF Miss, Rewritten, Stages
<1>5. ASSUME NEW t \in Compilers, Compiled(t)
      PROVE  CompileInvariant'
  <2>1. PICK f, code : f = Func(t) /\ code = MadeOf(f)
    OBVIOUS
  <2>2. /\ cache' = cache \cup {[key |-> compiling[t].key, code |-> code]}
        /\ Obtain(t, code) /\ UNCHANGED <<profile, stage>>
    BY <1>5, <2>1 DEF Compiled, MadeOf
  <2>3. f \in Functions /\ \E s \in Stages : compiling[t].key = Key(f, s)
    BY <1>5, <2>1, CallUnderWay DEF Compiled
  <2> QED
    BY <2>1, <2>2, <2>3, ObtainKeeps
<1>6. ASSUME NEW t \in Compilers, CompileFails(t)
      PROVE  CompileInvariant'
  <2>1. /\ compiling' = [compiling EXCEPT ![t] = NotCompiling] /\ stage' \in [Functions -> Stages]
        /\ UNCHANGED <<profile, cache, obtained>>
    BY <1>0, <1>6 DEF CompileFails, CompileTypeOK
  <2> QED
    BY <2>1, SilentKeeps
<1>7. ASSUME ClearCache \/ UNCHANGED compileVars
      PROVE  CompileInvariant'
  <2>1. UNCHANGED <<profile, stage, compiling, obtained>> /\ cache' \subseteq cache
    BY <1>7 DEF ClearCache, compileVars
  <2>2. \A g : MadeOf(g)' = MadeOf(g)
    BY <2>1 DEF MadeOf, SelectBackend
  <2> QED
    BY <2>1, <2>2
       DEF CompileInvariant, CompileTypeOK, KeysOK, CacheOK, ObtainedOK, Func
<1> QED
  BY <1>1, <1>2, <1>4, <1>5, <1>6, <1>7 DEF CompileNext

(* Only where a GPU is needed is one chosen.                               *)
LEMMA CpuMeans ==
  ASSUME NEW f \in Functions, "cpu_generic" \in profile, ~NeedsGpu(f)
  PROVE  SelectBackend(f) # "cuda"
<1> DEFINE backends == profile \ {"cuda"}
           first(i) == Ranked[i] \in backends /\ \A j \in 1 .. i - 1 : Ranked[j] \notin backends
<1>1. /\ DOMAIN Ranked = 1 .. 4 /\ Ranked[1] = "cuda" /\ Ranked[2] = "cpu_avx512"
      /\ Ranked[3] = "cpu_avx2" /\ Ranked[4] = "cpu_generic"
  BY DEF Ranked
<1>2. "cpu_generic" \in backends /\ "cuda" \notin backends
  OBVIOUS
<1> HIDE DEF backends
<1>3. \E i \in DOMAIN Ranked : first(i)
  <2>1. CASE "cpu_avx512" \in backends
    <3>1. first(2)
      BY <1>1, <1>2, <2>1
    <3> QED
      BY <1>1, <3>1
  <2>2. CASE "cpu_avx512" \notin backends /\ "cpu_avx2" \in backends
    <3>1. \A j \in 1 .. 3 - 1 : j = 1 \/ j = 2
      OBVIOUS
    <3>2. first(3)
      BY <1>1, <1>2, <2>2, <3>1
    <3> QED
      BY <1>1, <3>2
  <2>3. CASE "cpu_avx512" \notin backends /\ "cpu_avx2" \notin backends
    <3>1. \A j \in 1 .. 4 - 1 : j = 1 \/ j = 2 \/ j = 3
      OBVIOUS
    <3>2. first(4)
      BY <1>1, <1>2, <2>3, <3>1
    <3> QED
      BY <1>1, <3>2
  <2> QED
    BY <2>1, <2>2, <2>3
<1> DEFINE i == CHOOSE i \in DOMAIN Ranked : first(i)
<1>4. first(i)
  BY <1>3
<1>5. SelectBackend(f) = FirstOf(backends)
  BY DEF SelectBackend, backends
<1>6. FirstOf(backends) = Ranked[i]
  BY DEF FirstOf
<1> QED
  BY <1>2, <1>4, <1>5, <1>6

(* The kernels of the CUDA backend compute what is compiled for them.      *)
KernelsFit == \A f \in Functions : NeedsGpu(f) => CodeOf(f, "cuda") = Meaning[f]

(* Where the CUDA kernels fit, compile() returns the code of the function  *)
(* asked for or of one that its key does not tell from it: for any threads *)
(* and functions, whatever they rewrite, cache and clear meanwhile.        *)
THEOREM CompiledAlwaysAlike ==
  ASSUME KernelsFit
  PROVE  CompileSpec => []CompiledIsAlike
<1>1. CompileInvariant => CompiledIsAlike
  <2> SUFFICES ASSUME CompileInvariant, NEW o \in obtained
               PROVE  \E f \in Functions : o.computes = Meaning[f] /\ (f = o.asked \/ Alike(f, o.asked))
    BY DEF CompiledIsAlike
  <2>1. PICK f \in Functions : o.computes = MadeOf(f) /\ (f = o.asked \/ Alike(f, o.asked))
    BY DEF CompileInvariant, ObtainedOK
  <2>2. "cpu_generic" \in profile
    BY CompileAssumption DEF CompileInvariant, CompileTypeOK
  <2>3. MadeOf(f) = Meaning[f]
    <3>1. CASE SelectBackend(f) = "cuda"
      BY <2>2, <3>1, CpuMeans DEF MadeOf, KernelsFit
    <3>2. CASE SelectBackend(f) # "cuda"
      BY <3>2 DEF MadeOf, CodeOf
    <3> QED
      BY <3>1, <3>2
  <2> QED
    BY <2>1, <2>3
<1> QED
  BY <1>1, InitCompile, NextCompile, PTL DEF CompileSpec

-----------------------------------------------------------------------------
(* STRING POOL *)

(* Some thread has interned o and not released it.                         *)
InHand(o) == \E t \in Interners : held[t][o] > 0

Without == {t \in Interners : poolOf[t] = NoPool}

Strings == [content : Contents \cup {"none"}, pool : Nat, id : Nat, refs : Int]

StringTypeOK ==
  /\ newPool \in Nat /\ globalPool \in 0 .. newPool
  /\ poolOf \in [Interners -> 0 .. newPool]
  /\ absent \subseteq Without
  /\ newObject \in 0 .. MaxObjects
  /\ interned \in [Pools -> SUBSET (1 .. newObject)]
  /\ nextId \in [Pools -> Nat]
  /\ object \in [1 .. MaxObjects -> Strings]
  /\ held \in [Interners -> [1 .. MaxObjects -> 0 .. MaxHeld]]
  /\ misused \in BOOLEAN

(* Every pool was made by a thread that had none, and has one from then on. *)
PoolsFew == newPool + Cardinality(Without) <= Cardinality(Interners)

(* What a pool holds.                                                      *)
InternedOK == \A p \in Pools : \A o \in interned[p] :
  /\ object[o].pool = p /\ object[o].id < nextId[p]
  /\ \A q \in interned[p] : o # q =>
       object[o].content # object[q].content /\ object[o].id # object[q].id

CountsOK == \A o \in 1 .. MaxObjects :
  IF o <= newObject THEN object[o].refs = References(o) ELSE ~InHand(o)

HeldOK == \A o \in 1 .. newObject :
  InHand(o) => object[o].pool \in Pools /\ o \in interned[object[o].pool]

StringInvariant ==
  /\ StringTypeOK /\ PoolsFew
  /\ misused \/ (InternedOK /\ CountsOK /\ HeldOK)

(* A thread's pool is one of those there can be.                           *)
LEMMA PoolsNumbered ==
  ASSUME StringTypeOK, PoolsFew
  PROVE  /\ IsFiniteSet(Interners) /\ Cardinality(Interners) \in Nat
         /\ \A t \in Interners : poolOf[t] # NoPool => poolOf[t] \in Pools
<1>1. IsFiniteSet(Interners) /\ Cardinality(Interners) \in Nat
  BY StringAssumption, FS_CardinalityType, Zenon
<1>2. Cardinality(Without) \in Nat
  <2>1. Without \in SUBSET Interners
    BY DEF Without
  <2>2. IsFiniteSet(Without)
    BY <1>1, <2>1, FS_Subset, Zenon
  <2> QED
    BY <2>2, FS_CardinalityType, Zenon
<1>3. newPool <= Cardinality(Interners)
  BY <1>1, <1>2 DEF PoolsFew, StringTypeOK
<1> HIDE DEF PoolsFew
<1> QED
  BY <1>1, <1>3 DEF StringTypeOK, Pools, NoPool

(* The references to an object, one by one.                                *)
RefSet(h, o) == {r \in Interners \X (1 .. MaxHeld) : r[2] <= h[r[1]][o]}

(* The references to an object are finitely many, so that none are left    *)
(* exactly when their count is zero.                                       *)
LEMMA RefSetFinite ==
  ASSUME NEW h, NEW o
  PROVE  /\ IsFiniteSet(RefSet(h, o)) /\ Cardinality(RefSet(h, o)) \in Nat
         /\ Cardinality(RefSet(h, o)) = 0 <=> RefSet(h, o) = {}
<1>1. IsFiniteSet(Interners) /\ MaxHeld \in Nat
  BY StringAssumption
<1>2. IsFiniteSet(1 .. MaxHeld)
  BY <1>1, FS_Interval
<1>3. IsFiniteSet(Interners \X (1 .. MaxHeld))
  BY <1>1, <1>2, FS_Product, Zenon
<1>4. RefSet(h, o) \in SUBSET (Interners \X (1 .. MaxHeld))
  BY DEF RefSet
<1>5. IsFiniteSet(RefSet(h, o))
  BY <1>3, <1>4, FS_Subset, Zenon
<1> QED
  BY <1>5, FS_CardinalityType, FS_EmptySet, Zenon

(* The tables of references g and h differ in the n-th reference of t to o. *)
OneMore(g, h, t, o, n) ==
  /\ n = h[t][o] + 1
  /\ \A u \in Interners, q \in 1 .. MaxObjects :
       g[u][q] = IF u = t /\ q = o THEN n ELSE h[u][q]

(* One reference more.                                                     *)
LEMMA RefAdded ==
  ASSUME NEW h \in [Interners -> [1 .. MaxObjects -> 0 .. MaxHeld]], NEW g,
         NEW t \in Interners, NEW o \in 1 .. MaxObjects, NEW n \in 1 .. MaxHeld,
         OneMore(g, h, t, o, n)
  PROVE  /\ Cardinality(RefSet(g, o)) = Cardinality(RefSet(h, o)) + 1
         /\ \A q \in 1 .. MaxObjects : q # o => RefSet(g, q) = RefSet(h, q)
<1>0. MaxHeld \in Nat
  BY StringAssumption
<1>1. \A u \in Interners, q \in 1 .. MaxObjects :
        /\ h[u][q] \in 0 .. MaxHeld
        /\ g[u][q] = IF u = t /\ q = o THEN n ELSE h[u][q]
  BY DEF OneMore
<1>2. n = h[t][o] + 1
  BY DEF OneMore
<1>3. RefSet(g, o) = RefSet(h, o) \cup {<<t, n>>}
  <2>1. ASSUME NEW u \in Interners, NEW k \in 1 .. MaxHeld
        PROVE  k <= g[u][o] <=> k <= h[u][o] \/ (u = t /\ k = n)
    <3>1. CASE u = t
      BY <1>0, <1>1, <1>2, <3>1
    <3>2. CASE u # t
      BY <1>0, <1>1, <1>2, <3>2
    <3> QED
      BY <3>1, <3>2
  <2> QED
    BY <1>1, <2>1 DEF RefSet
<1>4. <<t, n>> \notin RefSet(h, o)
  BY <1>0, <1>1, <1>2 DEF RefSet
<1>5. \A q \in 1 .. MaxObjects : q # o => RefSet(g, q) = RefSet(h, q)
  BY <1>1 DEF RefSet
<1>6. IsFiniteSet(RefSet(h, o))
  BY RefSetFinite, Zenon
<1>7. Cardinality(RefSet(h, o) \cup {<<t, n>>}) = Cardinality(RefSet(h, o)) + 1
  BY <1>4, <1>6, FS_AddElement, Zenon
<1> HIDE DEF RefSet
<1> QED
  BY <1>3, <1>5, <1>7

(* An object nobody holds has no references, and one with none is not held. *)
LEMMA NoReference ==
  ASSUME StringTypeOK, NEW o \in 1 .. MaxObjects
  PROVE  References(o) = 0 <=> ~InHand(o)
<1>1. References(o) = Cardinality(RefSet(held, o))
  BY DEF References, RefSet
<1>2. RefSet(held, o) = {} <=> ~InHand(o)
  <2>1. ASSUME NEW u \in Interners, held[u][o] > 0
        PROVE  <<u, 1>> \in RefSet(held, o)
    <3>1. held[u][o] \in 0 .. MaxHeld /\ MaxHeld \in Nat
      BY StringAssumption DEF StringTypeOK
    <3>2. <<u, 1>> \in Interners \X (1 .. MaxHeld) /\ 1 <= held[u][o]
      BY <2>1, <3>1
    <3> QED
      BY <3>2 DEF RefSet
  <2>2. ASSUME NEW r \in RefSet(held, o)
        PROVE  r[1] \in Interners /\ held[r[1]][o] > 0
    <3>1. r[1] \in Interners /\ r[2] \in 1 .. MaxHeld /\ r[2] <= held[r[1]][o]
      BY DEF RefSet
    <3>2. held[r[1]][o] \in 0 .. MaxHeld /\ MaxHeld \in Nat
      BY <3>1, StringAssumption DEF StringTypeOK
    <3> QED
      BY <3>1, <3>2
  <2> QED
    BY <2>1, <2>2 DEF InHand
<1> QED
  BY <1>1, <1>2, RefSetFinite, Zenon

(* Empty pools satisfy the invariant.                                      *)
LEMMA InitString == StringInit => StringInvariant
<1> SUFFICES ASSUME StringInit PROVE StringInvariant
  OBVIOUS
<1>0. IsFiniteSet(Interners) /\ Cardinality(Interners) \in Nat
  BY StringAssumption, FS_CardinalityType, Zenon
<1>1. /\ globalPool = 0 /\ newPool = 0 /\ newObject = 0 /\ absent = {} /\ misused = FALSE
      /\ poolOf = [t \in Interners |-> 0]
      /\ interned = [p \in Pools |-> {}] /\ nextId = [p \in Pools |-> 0]
      /\ object = [o \in 1 .. MaxObjects |-> Unmade]
      /\ held = [t \in Interners |-> [o \in 1 .. MaxObjects |-> 0]]
  BY DEF StringInit, NoPool
<1>2. Unmade \in Strings
  BY DEF Unmade, NoPool, Strings
<1>3. StringTypeOK
  <2>1. held \in [Interners -> [1 .. MaxObjects -> 0 .. MaxHeld]]
    BY <1>1, StringAssumption
  <2>2. object \in [1 .. MaxObjects -> Strings]
    BY <1>1, <1>2
  <2>3. interned \in [Pools -> SUBSET (1 .. newObject)] /\ nextId \in [Pools -> Nat]
    BY <1>1
  <2>4. newObject \in 0 .. MaxObjects /\ poolOf \in [Interners -> 0 .. newPool]
        /\ globalPool \in 0 .. newPool /\ newPool \in Nat
    BY <1>1, StringAssumption
  <2> QED
    BY <1>1, <2>1, <2>2, <2>3, <2>4 DEF StringTypeOK
<1>4. Without = Interners
  BY <1>1 DEF Without, NoPool
<1>5. PoolsFew
  BY <1>0, <1>1, <1>4 DEF PoolsFew
<1>6. InternedOK /\ HeldOK
  BY <1>1 DEF InternedOK, HeldOK
<1>7. CountsOK
  BY <1>1 DEF CountsOK, InHand
<1> QED
  BY <1>3, <1>5, <1>6, <1>7 DEF StringInvariant

(* Getting a pool changes no string.                                       *)
LEMMA PoolGotKeeps ==
  ASSUME StringInvariant, NEW t \in Interners, PoolThere(t) \/ PoolAbsent(t) \/ MakePool(t)
  PROVE  StringInvariant'
<1>0. /\ StringTypeOK /\ PoolsFew /\ (misused \/ (InternedOK /\ CountsOK /\ HeldOK))
      /\ IsFiniteSet(Interners) /\ Cardinality(Interners) \in Nat
  BY PoolsNumbered DEF StringInvariant
<1>1. UNCHANGED <<interned, nextId, object, newObject, held, misused>>
  BY DEF PoolThere, PoolAbsent, MakePool
<1>2. misused' \/ (InternedOK /\ CountsOK /\ HeldOK)'
  BY <1>0, <1>1 DEF InternedOK, CountsOK, HeldOK, InHand, References
<1>3. IsFiniteSet(Without) /\ Cardinality(Without) \in Nat
  <2>1. Without \in SUBSET Interners
    BY DEF Without
  <2>2. IsFiniteSet(Without)
    BY <1>0, <2>1, FS_Subset, Zenon
  <2> QED
    BY <2>2, FS_CardinalityType, Zenon
<1>4. t \in Without => /\ Cardinality(Without \ {t}) = Cardinality(Without) - 1
                      /\ Cardinality(Without \ {t}) \in Nat
  <2>1. /\ IsFiniteSet(Without \ {t})
        /\ t \in Without => Cardinality(Without \ {t}) = Cardinality(Without) - 1
    BY <1>3, FS_RemoveElement, Zenon
  <2> QED
    BY <2>1, FS_CardinalityType, Zenon
<1>5. CASE PoolThere(t)
  <2>1. /\ globalPool # 0 /\ t \notin absent
        /\ poolOf' = [poolOf EXCEPT ![t] = globalPool]
        /\ UNCHANGED <<globalPool, absent, newPool>>
    BY <1>5 DEF PoolThere, NoPool
  <2>2. Without' = Without \ {t}
    BY <1>0, <2>1 DEF Without, StringTypeOK, NoPool
  <2>3. StringTypeOK'
    <3>1. absent' \subseteq Without'
      BY <1>0, <2>1, <2>2 DEF StringTypeOK
    <3>2. poolOf' \in [Interners -> 0 .. newPool']
      BY <1>0, <2>1 DEF StringTypeOK
    <3> QED
      BY <1>0, <1>1, <2>1, <3>1, <3>2 DEF StringTypeOK
  <2>4. newPool \in Nat
    BY <1>0 DEF StringTypeOK
  <2>5. PoolsFew'
    <3>1. CASE t \in Without
      BY <1>0, <1>3, <1>4, <2>1, <2>2, <2>4, <3>1 DEF PoolsFew
    <3>2. CASE t \notin Without
      <4>1. Without' = Without
        BY <2>2, <3>2
      <4> QED
        BY <1>0, <2>1, <4>1 DEF PoolsFew
    <3> QED
      BY <3>1, <3>2
  <2> QED
    BY <1>2, <2>3, <2>5 DEF StringInvariant
<1>6. CASE PoolAbsent(t)
  <2>1. /\ poolOf[t] = 0 /\ absent' = absent \cup {t}
        /\ UNCHANGED <<globalPool, poolOf, newPool>>
    BY <1>6 DEF PoolAbsent, NoPool
  <2>2. Without' = Without /\ t \in Without
    BY <2>1 DEF Without, NoPool
  <2>3. StringTypeOK'
    BY <1>0, <1>1, <2>1, <2>2 DEF StringTypeOK
  <2>4. PoolsFew'
    BY <1>0, <2>1, <2>2 DEF PoolsFew
  <2> QED
    BY <1>2, <2>3, <2>4 DEF StringInvariant
<1>7. CASE MakePool(t)
  <2>1. /\ t \in absent /\ newPool' = newPool + 1 /\ globalPool' = newPool'
        /\ poolOf' = [poolOf EXCEPT ![t] = newPool'] /\ absent' = absent \ {t}
    BY <1>7 DEF MakePool
  <2>2. newPool \in Nat /\ newPool' \in Nat /\ newPool' # 0 /\ newPool <= newPool'
    BY <1>0, <2>1 DEF StringTypeOK
  <2>3. Without' = Without \ {t} /\ t \in Without
    BY <1>0, <2>1, <2>2 DEF Without, StringTypeOK, NoPool
  <2>4. StringTypeOK'
    <3>1. absent' \subseteq Without'
      BY <1>0, <2>1, <2>3 DEF StringTypeOK
    <3>2. poolOf' \in [Interners -> 0 .. newPool']
      <4>1. 0 .. newPool \subseteq 0 .. newPool' /\ newPool' \in 0 .. newPool'
        BY <2>2
      <4> QED
        BY <1>0, <2>1, <4>1 DEF StringTypeOK
    <3> QED
      BY <1>0, <1>1, <2>1, <2>2, <3>1, <3>2 DEF StringTypeOK
  <2>5. PoolsFew'
    BY <1>0, <1>3, <1>4, <2>1, <2>2, <2>3 DEF PoolsFew
  <2> QED
    BY <1>2, <2>4, <2>5 DEF StringInvariant
<1> QED
  BY <1>5, <1>6, <1>7

(* A pool that lost some of its objects is as well as before.              *)
LEMMA StillInterned ==
  ASSUME InternedOK, UNCHANGED nextId,
         \A p \in Pools : \A o \in interned'[p] : o \in interned[p],
         \A p \in Pools : \A o \in interned[p] :
           /\ object'[o].pool = object[o].pool /\ object'[o].id = object[o].id
           /\ object'[o].content = object[o].content
  PROVE  InternedOK'
<1>1. ASSUME NEW p \in Pools, NEW o \in interned'[p]
      PROVE  object'[o].pool = p /\ object'[o].id < nextId'[p]
  BY DEF InternedOK
<1>2. ASSUME NEW p \in Pools, NEW o \in interned'[p], NEW q \in interned'[p], o # q
      PROVE  object'[o].content # object'[q].content /\ object'[o].id # object'[q].id
  BY <1>2 DEF InternedOK
<1> QED
  BY <1>1, <1>2 DEF InternedOK

(* Changing a count changes nothing else.                                  *)
LEMMA RefsChange ==
  ASSUME StringTypeOK, NEW o \in 1 .. MaxObjects, NEW k \in Int,
         object' = [object EXCEPT ![o].refs = k]
  PROVE  /\ object' \in [1 .. MaxObjects -> Strings]
         /\ object'[o].refs = k
         /\ \A q \in 1 .. MaxObjects :
              /\ object'[q].pool = object[q].pool /\ object'[q].id = object[q].id
              /\ object'[q].content = object[q].content
              /\ q # o => object'[q] = object[q]
<1>1. object \in [1 .. MaxObjects -> Strings] /\ object[o] \in Strings
  BY DEF StringTypeOK
<1>2. PICK r : r = [object[o] EXCEPT !.refs = k]
  OBVIOUS
<1>3. /\ r \in Strings /\ r.refs = k /\ r.pool = object[o].pool
      /\ r.id = object[o].id /\ r.content = object[o].content
  BY <1>1, <1>2 DEF Strings
<1>4. object' = [object EXCEPT ![o] = r]
  BY <1>2
<1> QED
  BY <1>1, <1>3, <1>4

(* Every object that a pool holds, and every one that was made, has a number. *)
LEMMA ObjectsNumbered ==
  ASSUME StringTypeOK
  PROVE  /\ newObject \in 0 .. MaxObjects /\ MaxObjects \in Nat /\ newObject \in Nat
         /\ \A q \in 1 .. newObject : q \in 1 .. MaxObjects
         /\ \A p \in Pools : \A q \in interned[p] : q \in 1 .. newObject /\ q \in 1 .. MaxObjects
<1>1. newObject \in 0 .. MaxObjects /\ MaxObjects \in Nat
  BY StringAssumption DEF StringTypeOK
<1>2. \A q \in 1 .. newObject : q \in 1 .. MaxObjects
  BY <1>1
<1>3. \A p \in Pools : interned[p] \subseteq 1 .. newObject
  BY DEF StringTypeOK
<1> QED
  BY <1>1, <1>2, <1>3

(* One more reference to an interned object.                               *)
LEMMA InternHitKeeps ==
  ASSUME StringInvariant, NEW t \in Interners, NEW c \in Contents, InternHit(t, c)
  PROVE  StringInvariant'
<1>0. /\ StringTypeOK /\ PoolsFew /\ (misused \/ (InternedOK /\ CountsOK /\ HeldOK))
      /\ poolOf[t] \in Pools
  BY PoolsNumbered DEF StringInvariant, InternHit
<1>1. PICK o \in interned[poolOf[t]] :
        /\ held[t][o] < MaxHeld
        /\ object' = [object EXCEPT ![o].refs = object[o].refs + 1]
        /\ held' = [held EXCEPT ![t][o] = @ + 1]
  BY DEF InternHit, Entry, MoreRefs
<1>2. /\ UNCHANGED <<globalPool, poolOf, absent, newPool, interned, nextId, newObject>>
      /\ misused' = misused
  BY DEF InternHit, globalVars
<1>3. /\ o \in 1 .. newObject /\ o \in 1 .. MaxObjects
      /\ \A q \in 1 .. newObject : q \in 1 .. MaxObjects
      /\ \A p \in Pools : \A q \in interned[p] : q \in 1 .. MaxObjects
  BY <1>0, <1>1, ObjectsNumbered
<1>4. PICK n : n = held[t][o] + 1
  OBVIOUS
<1>5. n \in 1 .. MaxHeld
  BY <1>0, <1>1, <1>3, <1>4, StringAssumption DEF StringTypeOK
<1>6. held' = [held EXCEPT ![t][o] = n]
  BY <1>1, <1>4
<1>7. /\ held' \in [Interners -> [1 .. MaxObjects -> 0 .. MaxHeld]]
      /\ \A u \in Interners, q \in 1 .. MaxObjects :
           held'[u][q] = IF u = t /\ q = o THEN n ELSE held[u][q]
  <2>1. held \in [Interners -> [1 .. MaxObjects -> 0 .. MaxHeld]] /\ n \in 0 .. MaxHeld
    BY <1>0, <1>5 DEF StringTypeOK
  <2> QED
    BY <1>3, <1>6, <2>1
<1>8. /\ References(o)' = References(o) + 1
      /\ \A q \in 1 .. MaxObjects : q # o =>
           References(q)' = References(q) /\ (InHand(q)' <=> InHand(q))
  <2>1. held \in [Interners -> [1 .. MaxObjects -> 0 .. MaxHeld]]
    BY <1>0 DEF StringTypeOK
  <2>2. /\ Cardinality(RefSet(held', o)) = Cardinality(RefSet(held, o)) + 1
        /\ \A q \in 1 .. MaxObjects : q # o => RefSet(held', q) = RefSet(held, q)
    <3>1. PICK h, g : h = held /\ g = held'
      OBVIOUS
    <3>2. /\ h \in [Interners -> [1 .. MaxObjects -> 0 .. MaxHeld]]
          /\ OneMore(g, h, t, o, n)
          /\ o \in 1 .. MaxObjects /\ n \in 1 .. MaxHeld
      BY <1>3, <1>4, <1>5, <1>7, <2>1, <3>1 DEF OneMore
    <3>3. /\ Cardinality(RefSet(g, o)) = Cardinality(RefSet(h, o)) + 1
          /\ \A q \in 1 .. MaxObjects : q # o => RefSet(g, q) = RefSet(h, q)
      BY <3>2, RefAdded
    <3> QED
      BY <3>1, <3>3
  <2>3. \A q \in 1 .. MaxObjects : q # o => (InHand(q)' <=> InHand(q))
    BY <1>7 DEF InHand
  <2>4. \A q : References(q) = Cardinality(RefSet(held, q))
                /\ References(q)' = Cardinality(RefSet(held', q))
    BY DEF References, RefSet
  <2> QED
    BY <1>3, <2>2, <2>3, <2>4
<1>9. /\ object' \in [1 .. MaxObjects -> Strings]
      /\ object'[o].refs = object[o].refs + 1
      /\ \A q \in 1 .. MaxObjects :
           /\ object'[q].pool = object[q].pool /\ object'[q].id = object[q].id
           /\ object'[q].content = object[q].content
           /\ q # o => object'[q] = object[q]
  <2>1. PICK k : k = object[o].refs + 1
    OBVIOUS
  <2>2. object[o].refs \in Int
    BY <1>0, <1>3 DEF StringTypeOK, Strings
  <2>3. k \in Int /\ object' = [object EXCEPT ![o].refs = k]
    BY <1>1, <2>1, <2>2
  <2> QED
    BY <1>0, <1>3, <2>1, <2>3, RefsChange
<1>10. StringTypeOK' /\ PoolsFew'
  BY <1>0, <1>2, <1>7, <1>9 DEF StringTypeOK, PoolsFew, Without
<1>11. ASSUME ~misused'
       PROVE  (InternedOK /\ CountsOK /\ HeldOK)'
  <2>1. InternedOK /\ CountsOK /\ HeldOK
    BY <1>0, <1>2, <1>11
  <2>2. InternedOK'
    BY <1>2, <1>3, <1>9, <2>1, StillInterned
  <2>3. CountsOK'
    BY <1>2, <1>3, <1>8, <1>9, <2>1 DEF CountsOK
  <2>4. HeldOK'
    <3>1. object[o].pool = poolOf[t]
      BY <1>0, <1>1, <2>1 DEF InternedOK
    <3>2. ASSUME NEW q \in 1 .. newObject, InHand(q)'
          PROVE  object'[q].pool \in Pools /\ q \in interned'[object'[q].pool]
      <4>1. q \in 1 .. MaxObjects /\ object'[q].pool = object[q].pool /\ interned' = interned
        BY <1>2, <1>3, <1>9
      <4>2. CASE q = o
        BY <1>0, <1>1, <3>1, <4>1, <4>2
      <4>3. CASE q # o
        BY <1>8, <2>1, <3>2, <4>1, <4>3 DEF HeldOK
      <4> QED
        BY <4>2, <4>3
    <3> QED
      BY <1>2, <3>2 DEF HeldOK
  <2> QED
    BY <2>2, <2>3, <2>4
<1> QED
  BY <1>10, <1>11 DEF StringInvariant

(* A release: of a reference the thread has, or a misuse.                  *)
LEMMA ReleaseKeeps ==
  ASSUME StringInvariant, NEW t \in Interners, NEW o \in 1 .. MaxObjects, Release(t, o)
  PROVE  StringInvariant'
<1>0. /\ StringTypeOK /\ PoolsFew /\ (misused \/ (InternedOK /\ CountsOK /\ HeldOK))
      /\ held \in [Interners -> [1 .. MaxObjects -> 0 .. MaxHeld]]
  BY DEF StringInvariant, StringTypeOK
<1>1. /\ o <= newObject /\ object' = [object EXCEPT ![o].refs = @ - 1]
      /\ UNCHANGED <<globalPool, poolOf, absent, newPool, interned, nextId, newObject>>
      /\ IF held[t][o] > 0
         THEN held' = [held EXCEPT ![t][o] = @ - 1] /\ misused' = misused
         ELSE misused' = TRUE /\ held' = held
  BY DEF Release, globalVars
<1>2. /\ o \in 1 .. newObject /\ \A q \in 1 .. newObject : q \in 1 .. MaxObjects
      /\ \A p \in Pools : \A q \in interned[p] : q \in 1 .. MaxObjects
  BY <1>0, <1>1, ObjectsNumbered
<1>3. PICK k : k = object[o].refs - 1
  OBVIOUS
<1>4. k \in Int /\ object' = [object EXCEPT ![o].refs = k]
  <2>1. object[o].refs \in Int
    BY <1>0 DEF StringTypeOK, Strings
  <2> QED
    BY <1>1, <1>3, <2>1
<1>5. /\ object' \in [1 .. MaxObjects -> Strings]
      /\ object'[o].refs = k
      /\ \A q \in 1 .. MaxObjects :
           /\ object'[q].pool = object[q].pool /\ object'[q].id = object[q].id
           /\ object'[q].content = object[q].content
           /\ q # o => object'[q] = object[q]
  BY <1>0, <1>4, RefsChange
<1>6. PICK n, m : n = held[t][o] /\ m = n - 1
  OBVIOUS
<1>7. CASE ~(held[t][o] > 0)
  <2>1. StringTypeOK' /\ PoolsFew'
    BY <1>0, <1>1, <1>5, <1>7 DEF StringTypeOK, PoolsFew, Without
  <2> QED
    BY <1>1, <1>7, <2>1 DEF StringInvariant
<1>8. CASE held[t][o] > 0
  <2>1. n \in 1 .. MaxHeld /\ m \in 0 .. MaxHeld /\ held' = [held EXCEPT ![t][o] = m] /\ misused' = misused
    BY <1>0, <1>1, <1>6, <1>8, StringAssumption
  <2>2. /\ held' \in [Interners -> [1 .. MaxObjects -> 0 .. MaxHeld]]
        /\ \A u \in Interners, q \in 1 .. MaxObjects :
             held'[u][q] = IF u = t /\ q = o THEN m ELSE held[u][q]
    BY <1>0, <2>1
  <2>3. /\ References(o)' = References(o) - 1
        /\ \A q \in 1 .. MaxObjects :
             /\ q # o => References(q)' = References(q)
             /\ InHand(q)' => InHand(q)
    <3>1. /\ Cardinality(RefSet(held', o)) = Cardinality(RefSet(held, o)) - 1
          /\ \A q \in 1 .. MaxObjects : q # o => RefSet(held', q) = RefSet(held, q)
      <4>1. PICK h, g : h = held /\ g = held'
        OBVIOUS
      <4>2. /\ h \in [Interners -> [1 .. MaxObjects -> 0 .. MaxHeld]] /\ n = h[t][o] /\ m = n - 1
            /\ \A u \in Interners, q \in 1 .. MaxObjects :
                 g[u][q] = IF u = t /\ q = o THEN m ELSE h[u][q]
        BY <1>0, <1>6, <1>8, <2>2, <4>1
      <4>3. MaxHeld \in Nat /\ n \in 1 .. MaxHeld
        BY <2>1, StringAssumption
      <4>4. \A u \in Interners, q \in 1 .. MaxObjects : h[u][q] \in 0 .. MaxHeld
        BY <4>2
      <4>5. RefSet(g, o) = RefSet(h, o) \ {<<t, n>>}
        <5>1. ASSUME NEW u \in Interners, NEW i \in 1 .. MaxHeld
              PROVE  i <= g[u][o] <=> i <= h[u][o] /\ ~(u = t /\ i = n)
          <6>1. CASE u = t
            BY <4>2, <4>3, <4>4, <6>1
          <6>2. CASE u # t
            BY <4>2, <4>3, <4>4, <6>2
          <6> QED
            BY <6>1, <6>2
        <5> QED
          BY <5>1 DEF RefSet
      <4>6. <<t, n>> \in RefSet(h, o)
        BY <4>2, <4>3, <4>4 DEF RefSet
      <4>7. \A q \in 1 .. MaxObjects : q # o => RefSet(g, q) = RefSet(h, q)
        BY <4>2 DEF RefSet
      <4>8. Cardinality(RefSet(h, o) \ {<<t, n>>}) = Cardinality(RefSet(h, o)) - 1
        BY <4>6, RefSetFinite, FS_RemoveElement, Zenon
      <4> QED
        BY <4>1, <4>5, <4>7, <4>8
    <3>2. ASSUME NEW q \in 1 .. MaxObjects, InHand(q)'
          PROVE  InHand(q)
      <4>1. PICK u \in Interners : held'[u][q] > 0
        BY <3>2 DEF InHand
      <4>2. held[u][q] > 0
        BY <1>8, <2>2, <4>1
      <4> QED
        BY <4>2 DEF InHand
    <3>3. \A q : References(q) = Cardinality(RefSet(held, q))
                  /\ References(q)' = Cardinality(RefSet(held', q))
      BY DEF References, RefSet
    <3> QED
      BY <3>1, <3>2, <3>3
  <2>4. StringTypeOK' /\ PoolsFew'
    BY <1>0, <1>1, <1>5, <2>1, <2>2 DEF StringTypeOK, PoolsFew, Without
  <2>5. ASSUME ~misused'
        PROVE  (InternedOK /\ CountsOK /\ HeldOK)'
    <3>1. InternedOK /\ CountsOK /\ HeldOK
      BY <1>0, <2>1, <2>5
    <3>2. InternedOK'
      BY <1>1, <1>2, <1>5, <3>1, StillInterned
    <3>3. CountsOK'
      BY <1>1, <1>2, <1>3, <1>5, <2>3, <3>1 DEF CountsOK
    <3>4. HeldOK'
      BY <1>1, <1>2, <1>5, <2>3, <3>1 DEF HeldOK
    <3> QED
      BY <3>2, <3>3, <3>4
  <2> QED
    BY <2>4, <2>5 DEF StringInvariant
<1> QED
  BY <1>7, <1>8

(* A collection takes away what nobody refers to.                          *)
LEMMA CollectKeeps ==
  ASSUME StringInvariant, NEW t \in Interners, GarbageCollect(t)
  PROVE  StringInvariant'
<1>0. /\ StringTypeOK /\ PoolsFew /\ (misused \/ (InternedOK /\ CountsOK /\ HeldOK))
      /\ poolOf[t] \in Pools
  BY PoolsNumbered DEF StringInvariant, GarbageCollect
<1>1. /\ interned' = [interned EXCEPT ![poolOf[t]] = Referenced(@, object)]
      /\ UNCHANGED <<globalPool, poolOf, absent, newPool, nextId, object, newObject, held>>
      /\ misused' = misused
  BY DEF GarbageCollect, globalVars
<1>2. \A p \in Pools : /\ interned'[p] \subseteq interned[p]
                      /\ \A o \in interned[p] : object[o].refs # 0 => o \in interned'[p]
  BY <1>0, <1>1 DEF StringTypeOK, Referenced
<1>3. StringTypeOK' /\ PoolsFew'
  <2>1. interned' \in [Pools -> SUBSET (1 .. newObject)]
    BY <1>0, <1>1, <1>2 DEF StringTypeOK
  <2> QED
    BY <1>0, <1>1, <2>1 DEF StringTypeOK, PoolsFew, Without
<1>4. ASSUME ~misused'
      PROVE  (InternedOK /\ CountsOK /\ HeldOK)'
  <2>1. InternedOK /\ CountsOK /\ HeldOK
    BY <1>0, <1>1, <1>4
  <2>2. InternedOK'
    BY <1>1, <1>2, <2>1, StillInterned
  <2>3. CountsOK'
    BY <1>1, <2>1 DEF CountsOK, References, InHand
  <2>4. ASSUME NEW o \in 1 .. newObject, InHand(o)
        PROVE  object[o].pool \in Pools /\ o \in interned'[object[o].pool]
    <3>1. o \in 1 .. MaxObjects /\ o <= newObject
      BY <1>0, ObjectsNumbered
    <3>2. object[o].refs # 0
      BY <1>0, <2>1, <2>4, <3>1, NoReference DEF CountsOK
    <3> QED
      BY <1>2, <2>1, <2>4, <3>2 DEF HeldOK
  <2>5. HeldOK'
    BY <1>1, <2>4 DEF HeldOK, InHand
  <2> QED
    BY <2>2, <2>3, <2>5
<1> QED
  BY <1>3, <1>4 DEF StringInvariant

(* Clearing a pool no string of which is in use.                           *)
LEMMA ClearKeeps ==
  ASSUME StringInvariant, NEW t \in Interners, Clear(t)
  PROVE  StringInvariant'
<1> DEFINE p == poolOf[t]
<1>0. /\ StringTypeOK /\ PoolsFew /\ (misused \/ (InternedOK /\ CountsOK /\ HeldOK))
      /\ p \in Pools
  BY PoolsNumbered DEF StringInvariant, Clear
<1>1. /\ interned' = [interned EXCEPT ![p] = {}] /\ nextId' = [nextId EXCEPT ![p] = 0]
      /\ UNCHANGED <<globalPool, poolOf, absent, newPool, object, newObject, held>>
      /\ misused' = (misused \/ InUse(p))
  BY DEF Clear, globalVars
<1> HIDE DEF p
<1>2. /\ interned'[p] = {}
      /\ \A r \in Pools : r # p => interned'[r] = interned[r] /\ nextId'[r] = nextId[r]
  BY <1>0, <1>1 DEF StringTypeOK
<1>3. StringTypeOK' /\ PoolsFew'
  <2>1. misused' \in BOOLEAN
    BY <1>1
  <2> QED
    BY <1>0, <1>1, <2>1 DEF StringTypeOK, PoolsFew, Without
<1>4. ASSUME ~misused'
      PROVE  (InternedOK /\ CountsOK /\ HeldOK)'
  <2>1. InternedOK /\ CountsOK /\ HeldOK /\ ~InUse(p)
    BY <1>0, <1>1, <1>4
  <2>2. InternedOK'
    BY <1>1, <1>2, <2>1 DEF InternedOK
  <2>3. CountsOK'
    BY <1>1, <2>1 DEF CountsOK, References, InHand
  <2>4. ASSUME NEW o \in 1 .. newObject, InHand(o)
        PROVE  object[o].pool \in Pools /\ o \in interned'[object[o].pool]
    <3>1. object[o].pool \in Pools /\ o \in interned[object[o].pool]
      BY <2>1, <2>4 DEF HeldOK
    <3>2. object[o].pool # p
      BY <2>1, <2>4, <3>1 DEF InUse, InHand
    <3> QED
      BY <1>2, <3>1, <3>2
  <2>5. HeldOK'
    BY <1>1, <2>4 DEF HeldOK, InHand
  <2> QED
    BY <2>2, <2>3, <2>5
<1> QED
  BY <1>3, <1>4 DEF StringInvariant

(* A new object, and at the threshold a collection.                        *)
LEMMA InternMissKeeps ==
  ASSUME StringInvariant, NEW t \in Interners, NEW c \in Contents, InternMiss(t, c)
  PROVE  StringInvariant'
<1>1. PICK p, n : p = poolOf[t] /\ n = newObject + 1
  OBVIOUS
<1>2. PICK s : s = [content |-> c, pool |-> p, id |-> nextId[p], refs |-> 1]
  OBVIOUS
<1> DEFINE all == interned[p] \cup {n}
<1>3. /\ StringTypeOK /\ PoolsFew /\ (misused \/ (InternedOK /\ CountsOK /\ HeldOK))
      /\ p \in Pools /\ p \in Nat /\ Entry(p, c) = {}
      /\ held \in [Interners -> [1 .. MaxObjects -> 0 .. MaxHeld]]
  BY <1>1, PoolsNumbered DEF StringInvariant, InternMiss, StringTypeOK
<1>4. /\ n \in 1 .. MaxObjects /\ n \in Nat /\ newObject \in Nat /\ newObject < n /\ newObject' = n
      /\ 1 .. newObject \subseteq 1 .. MaxObjects
      /\ 1 .. n = (1 .. newObject) \cup {n} /\ n \notin 1 .. newObject
      /\ \A r \in Pools : \A o \in interned[r] : o \in 1 .. newObject /\ o \in 1 .. MaxObjects
  <2>1. newObject < MaxObjects /\ newObject' = newObject + 1
    BY DEF InternMiss
  <2>2. MaxObjects \in Nat /\ newObject \in Nat
    BY <1>3, ObjectsNumbered
  <2>3. \A r \in Pools : \A o \in interned[r] : o \in 1 .. newObject /\ o \in 1 .. MaxObjects
    BY <1>3, ObjectsNumbered
  <2>4. /\ n \in 1 .. MaxObjects /\ n \in Nat /\ newObject < n /\ newObject' = n
        /\ 1 .. newObject \subseteq 1 .. MaxObjects
    BY <1>1, <2>1, <2>2
  <2>5. 1 .. n = (1 .. newObject) \cup {n} /\ n \notin 1 .. newObject
    BY <1>1, <2>1, <2>2
  <2> QED
    BY <2>2, <2>3, <2>4, <2>5
<1>5. /\ object' = [object EXCEPT ![n] = s]
      /\ nextId' = [nextId EXCEPT ![p] = @ + 1]
      /\ interned' = [interned EXCEPT ![p] =
           IF Cardinality(all) >= GcThreshold THEN Referenced(all, object') ELSE all]
      /\ held' = [held EXCEPT ![t][n] = 1]
      /\ UNCHANGED <<globalPool, poolOf, absent, newPool>>
      /\ misused' = misused
  BY <1>4, <1>1, <1>2 DEF InternMiss, globalVars
<1>6. /\ s \in Strings /\ s.pool = p /\ s.refs = 1 /\ s.content = c /\ s.id = nextId[p]
  BY <1>3, <1>2 DEF StringTypeOK, Strings
<1>7. /\ object' \in [1 .. MaxObjects -> Strings] /\ object'[n] = s
      /\ \A o \in 1 .. MaxObjects : o # n => object'[o] = object[o]
  BY <1>3, <1>4, <1>5, <1>6 DEF StringTypeOK
<1>8. /\ interned'[p] \subseteq all /\ n \in interned'[p]
      /\ \A o \in all : object'[o].refs # 0 => o \in interned'[p]
      /\ \A r \in Pools : r # p => interned'[r] = interned[r]
  <2>1. interned'[p] = IF Cardinality(all) >= GcThreshold THEN Referenced(all, object') ELSE all
    BY <1>3, <1>5 DEF StringTypeOK
  <2>2. Referenced(all, object') = {o \in all : object'[o].refs # 0}
    BY DEF Referenced
  <2>3. object'[n].refs # 0
    BY <1>6, <1>7
  <2>4. \A r \in Pools : r # p => interned'[r] = interned[r]
    BY <1>3, <1>5 DEF StringTypeOK
  <2> QED
    BY <2>1, <2>2, <2>3, <2>4
<1>9. /\ nextId' \in [Pools -> Nat] /\ nextId[p] \in Nat /\ nextId'[p] = nextId[p] + 1
      /\ \A r \in Pools : r # p => nextId'[r] = nextId[r]
  BY <1>3, <1>5 DEF StringTypeOK
<1>10. /\ held' \in [Interners -> [1 .. MaxObjects -> 0 .. MaxHeld]]
      /\ \A u \in Interners, q \in 1 .. MaxObjects :
           held'[u][q] = IF u = t /\ q = n THEN 1 ELSE held[u][q]
  <2>1. 1 \in 0 .. MaxHeld
    BY StringAssumption
  <2> QED
    BY <1>3, <1>4, <1>5, <2>1
<1>11. StringTypeOK' /\ PoolsFew'
  <2>1. interned' \in [Pools -> SUBSET (1 .. newObject')]
    <3>1. interned \in [Pools -> SUBSET (1 .. newObject)]
      BY <1>3 DEF StringTypeOK
    <3>2. \A r \in Pools : interned'[r] \subseteq 1 .. n
      BY <1>3, <1>4, <1>8, <3>1
    <3>3. DOMAIN interned' = Pools /\ interned' = [r \in Pools |-> interned'[r]]
      BY <1>5, <3>1
    <3> QED
      BY <1>4, <3>2, <3>3
  <2>2. newObject' \in 0 .. MaxObjects
    BY <1>4
  <2> QED
    BY <1>3, <1>5, <1>7, <1>9, <1>10, <2>1, <2>2 DEF StringTypeOK, PoolsFew, Without
<1>12. ASSUME ~misused'
      PROVE  (InternedOK /\ CountsOK /\ HeldOK)'
  <2>1. InternedOK /\ CountsOK /\ HeldOK
    BY <1>3, <1>5, <1>12
  <2>2. /\ ~InHand(n) /\ References(n) = 0 /\ held[t][n] = 0
    <3>1. ~(n <= newObject)
      BY <1>4
    <3>2. ~InHand(n)
      BY <1>4, <2>1, <3>1 DEF CountsOK
    <3>3. References(n) = 0
      BY <1>3, <1>4, <3>2, NoReference
    <3>4. held[t][n] \in 0 .. MaxHeld /\ ~(held[t][n] > 0)
      BY <1>3, <1>4, <3>2 DEF InHand
    <3> QED
      BY <3>2, <3>3, <3>4
  <2>3. /\ References(n)' = 1
        /\ \A q \in 1 .. MaxObjects : q # n =>
             References(q)' = References(q) /\ (InHand(q)' <=> InHand(q))
    <3>1. /\ Cardinality(RefSet(held', n)) = Cardinality(RefSet(held, n)) + 1
          /\ \A q \in 1 .. MaxObjects : q # n => RefSet(held', q) = RefSet(held, q)
      <4>1. PICK h, g, k, o : h = held /\ g = held' /\ k = 1 /\ o = n
        OBVIOUS
      <4>2. /\ h \in [Interners -> [1 .. MaxObjects -> 0 .. MaxHeld]]
            /\ OneMore(g, h, t, o, k)
        BY <1>3, <1>10, <2>2, <4>1 DEF OneMore
      <4>3. o \in 1 .. MaxObjects /\ k \in 1 .. MaxHeld
        BY <1>4, <4>1, StringAssumption
      <4>4. /\ Cardinality(RefSet(g, o)) = Cardinality(RefSet(h, o)) + 1
            /\ \A q \in 1 .. MaxObjects : q # o => RefSet(g, q) = RefSet(h, q)
        BY <4>2, <4>3, RefAdded
      <4> QED
        BY <4>1, <4>4
    <3>2. \A q \in 1 .. MaxObjects : q # n => (InHand(q)' <=> InHand(q))
      BY <1>10 DEF InHand
    <3>3. \A q : References(q) = Cardinality(RefSet(held, q))
                  /\ References(q)' = Cardinality(RefSet(held', q))
      BY DEF References, RefSet
    <3> QED
      BY <1>4, <2>2, <3>1, <3>2, <3>3
  <2>4. InternedOK'
    <3>1. ASSUME NEW r \in Pools, NEW o \in interned[r]
          PROVE  /\ o # n /\ object'[o] = object[o] /\ object[o].pool = r
                 /\ object[o].id < nextId[r] /\ object[o].id \in Nat
                 /\ r = p => object[o].content # c
      BY <1>3, <1>4, <1>7, <2>1 DEF InternedOK, StringTypeOK, Strings, Entry
    <3>2. ASSUME NEW r \in Pools, NEW o \in interned'[r]
          PROVE  /\ object'[o].pool = r /\ object'[o].id < nextId'[r]
                 /\ o \in interned[r] \/ (r = p /\ o = n)
      <4>1. CASE r = p /\ o = n
        BY <1>6, <1>7, <1>9, <4>1
      <4>2. CASE ~(r = p /\ o = n)
        <5>1. o \in interned[r]
          BY <1>8, <4>2
        <5>2. object'[o].pool = r /\ object'[o].id < nextId[r] /\ object'[o].id \in Nat
          BY <3>1, <5>1
        <5>3. nextId[r] \in Nat
          BY <1>3 DEF StringTypeOK
        <5>4. nextId'[r] = nextId[r] \/ nextId'[r] = nextId[r] + 1
          BY <1>9
        <5> QED
          BY <5>1, <5>2, <5>3, <5>4
      <4> QED
        BY <4>1, <4>2
    <3>3. ASSUME NEW r \in Pools, NEW o \in interned'[r], NEW q \in interned'[r], o # q
          PROVE  object'[o].content # object'[q].content /\ object'[o].id # object'[q].id
      <4>1. CASE o \in interned[r] /\ q \in interned[r]
        BY <2>1, <3>1, <3>3, <4>1 DEF InternedOK
      <4>2. CASE o \in interned[r] /\ r = p /\ q = n
        BY <1>6, <1>7, <1>9, <3>1, <4>2
      <4>3. CASE q \in interned[r] /\ r = p /\ o = n
        BY <1>6, <1>7, <1>9, <3>1, <4>3
      <4> QED
        BY <3>2, <3>3, <4>1, <4>2, <4>3
    <3> QED
      BY <3>2, <3>3 DEF InternedOK
  <2>5. CountsOK'
    <3>1. ASSUME NEW o \in 1 .. MaxObjects, o <= newObject'
          PROVE  object'[o].refs = References(o)'
      <4>1. CASE o = n
        BY <1>6, <1>7, <2>3, <4>1
      <4>2. CASE o # n
        <5>1. o <= newObject
          BY <1>4, <3>1, <4>2
        <5> QED
          BY <1>7, <2>1, <2>3, <4>2, <5>1 DEF CountsOK
      <4> QED
        BY <4>1, <4>2
    <3>2. ASSUME NEW o \in 1 .. MaxObjects, ~(o <= newObject')
          PROVE  ~InHand(o)'
      <4>1. o # n /\ ~(o <= newObject)
        BY <1>4, <3>2
      <4> QED
        BY <2>1, <2>3, <4>1 DEF CountsOK
    <3> QED
      BY <3>1, <3>2 DEF CountsOK
  <2>6. HeldOK'
    <3>1. ASSUME NEW o \in 1 .. newObject', InHand(o)'
          PROVE  object'[o].pool \in Pools /\ o \in interned'[object'[o].pool]
      <4>1. CASE o = n
        BY <1>3, <1>6, <1>7, <1>8, <4>1
      <4>2. CASE o # n
        <5>1. o \in 1 .. newObject /\ o \in 1 .. MaxObjects /\ o <= newObject
          BY <1>4, <3>1, <4>2
        <5>2. InHand(o) /\ object'[o] = object[o]
          BY <1>7, <2>3, <3>1, <4>2, <5>1
        <5>3. object[o].refs # 0
          BY <1>3, <2>1, <5>1, <5>2, NoReference DEF CountsOK
        <5>4. object[o].pool \in Pools /\ o \in interned[object[o].pool]
          BY <2>1, <5>1, <5>2 DEF HeldOK
        <5> QED
          BY <1>8, <5>2, <5>3, <5>4
      <4> QED
        BY <4>1, <4>2
    <3> QED
      BY <3>1 DEF HeldOK
  <2> QED
    BY <2>4, <2>5, <2>6
<1> QED
  BY <1>11, <1>12 DEF StringInvariant

(* Every step preserves the invariant.                                     *)
LEMMA NextString == StringInvariant /\ [StringNext]_stringVars => StringInvariant'
<1> SUFFICES ASSUME StringInvariant, [StringNext]_stringVars PROVE StringInvariant'
  OBVIOUS
<1>1. ASSUME UNCHANGED stringVars PROVE StringInvariant'
  <2>1. StringTypeOK' /\ PoolsFew'
    BY <1>1 DEF stringVars, StringInvariant, StringTypeOK, PoolsFew, Without
  <2>2. misused' \/ (InternedOK /\ CountsOK /\ HeldOK)'
    BY <1>1 DEF stringVars, StringInvariant, InternedOK, CountsOK, HeldOK, InHand, References
  <2> QED
    BY <2>1, <2>2 DEF StringInvariant
<1> QED
  BY <1>1, PoolGotKeeps, InternHitKeeps, InternMissKeeps, ReleaseKeeps, CollectKeeps,
     ClearKeeps DEF StringNext

(* While callers keep the rules of release and clear, equal strings of a   *)
(* pool that are in use are one object, ids are not shared and the counts  *)
(* are right, for any number of threads, contents and any threshold.       *)
THEOREM StringsInternedOnce == StringSpec => []InternedOnce
<1>1. StringInvariant => InternedOnce
  <2> SUFFICES ASSUME StringInvariant, ~misused PROVE InternedOnce
    BY DEF InternedOnce
  <2>1. /\ StringTypeOK /\ InternedOK /\ CountsOK /\ HeldOK
    BY DEF StringInvariant
  <2>2. ASSUME NEW o \in HeldObjects
        PROVE  /\ o \in 1 .. newObject /\ o \in 1 .. MaxObjects /\ o <= newObject
               /\ object[o].pool \in Pools /\ o \in interned[object[o].pool]
    BY <2>1, ObjectsNumbered DEF HeldObjects, HeldOK, InHand
  <2>3. \A o \in HeldObjects : object[o].refs = References(o)
    BY <2>1, <2>2 DEF CountsOK
  <2>4. ASSUME NEW o \in HeldObjects, NEW q \in HeldObjects, o # q,
               object[o].pool = object[q].pool
        PROVE  object[o].content # object[q].content /\ object[o].id # object[q].id
    BY <2>1, <2>2, <2>4 DEF InternedOK
  <2> QED
    BY <2>3, <2>4 DEF InternedOnce
<1> QED
  BY <1>1, InitString, NextString, PTL DEF StringSpec

(* LIST RUNTIME *)

Cells == Values \cup {Vacant}

(* The cells below the length are the items.                               *)
SameItems(cells, n, list) ==
  /\ Len(list) = n
  /\ \A i \in 1 .. n : cells[i] = list[i]

ListInvariant ==
  /\ data \in Seq(Cells)
  /\ length \in Nat /\ length <= Len(data)
  /\ items \in Seq(Values)
  /\ SameItems(data, length, items)
  /\ answer.got = answer.want

(* As sequences they are equal.                                            *)
LEMMA ItemsAreCells ==
  ASSUME NEW cells \in Seq(Cells), NEW n \in Nat, n <= Len(cells),
         NEW list \in Seq(Values), SameItems(cells, n, list)
  PROVE  SubSeq(cells, 1, n) = list
<1>1. /\ SubSeq(cells, 1, n) \in Seq(Cells) /\ list \in Seq(Cells)
      /\ Len(SubSeq(cells, 1, n)) = n
      /\ \A i \in 1 .. n : SubSeq(cells, 1, n)[i] = cells[i]
  BY DEF Cells
<1> QED
  BY <1>1, SeqEqual DEF SameItems

(* _resize, when it is called: the items stay, and an append has room after. *)
LEMMA RoomyHolds ==
  ASSUME ListInvariant
  PROVE  /\ Roomy \in Seq(Cells)
         /\ length <= Len(Roomy) /\ (~NoCell => length < Len(Roomy))
         /\ \A i \in 1 .. length : Roomy[i] = data[i]
<1> DEFINE n == 2 * Len(data)
<1>1. CASE length >= Len(data)
  <2>1. Roomy = Grown /\ n \in Nat /\ length = Len(data) /\ length <= n
    BY <1>1 DEF Roomy, ListInvariant
  <2>2. \A i \in 1 .. n : (IF i <= length THEN data[i] ELSE Vacant) \in Cells
    BY <2>1 DEF ListInvariant, Cells
  <2>3. /\ Grown \in Seq(Cells) /\ Len(Grown) = n
        /\ \A i \in 1 .. n : Grown[i] = IF i <= length THEN data[i] ELSE Vacant
    BY <2>1, <2>2 DEF Grown
  <2>4. \A i \in 1 .. length : i \in 1 .. n /\ i <= length
    BY <2>1 DEF ListInvariant
  <2> HIDE DEF n
  <2> QED
    BY <2>1, <2>3, <2>4 DEF NoCell, ListInvariant
<1>2. CASE ~(length >= Len(data))
  BY <1>2 DEF Roomy, NoCell, ListInvariant
<1> QED
  BY <1>1, <1>2

(* A new list is empty, whatever capacity was asked for. *)
LEMMA ListInitially == ListInit => ListInvariant
<1> SUFFICES ASSUME ListInit
             PROVE  ListInvariant
  OBVIOUS
<1>1. PICK n \in Nat : data = Vacancy(n)
  BY ListAssumption DEF ListInit
<1>2. data \in Seq(Cells) /\ Len(data) = n
  BY <1>1 DEF Vacancy, Cells
<1>3. items = <<>> /\ length = 0
  BY DEF ListInit
<1> QED
  BY <1>2, <1>3 DEF ListInit, ListInvariant, SameItems

(* append: after the last item there was a cell. *)
LEMMA AppendKeeps ==
  ASSUME ListInvariant, NEW v \in Values, AppendValue(v)
  PROVE  ListInvariant'
<1>1. PICK n \in Nat : n = length + 1
  BY DEF ListInvariant
<1>2. /\ Roomy \in Seq(Cells) /\ n <= Len(Roomy) /\ length < n /\ v \in Cells
      /\ \A i \in 1 .. length : Roomy[i] = items[i]
  BY <1>1, RoomyHolds DEF AppendValue, ListInvariant, SameItems, Cells
<1>3. data' = [Roomy EXCEPT ![n] = v] /\ length' = n /\ items' = Append(items, v)
  BY <1>1 DEF AppendValue
<1>4. /\ data' \in Seq(Cells) /\ Len(data') = Len(Roomy)
      /\ data'[n] = v /\ \A i \in 1 .. length : data'[i] = Roomy[i]
  BY <1>1, <1>2, <1>3 DEF ListInvariant
<1>5. /\ items' \in Seq(Values) /\ Len(items') = n
      /\ items'[n] = v /\ \A i \in 1 .. length : items'[i] = items[i]
  BY <1>1, <1>3 DEF ListInvariant, SameItems
<1>6. \A i \in 1 .. n : i \in 1 .. length \/ i = n
  BY <1>1 DEF ListInvariant
<1>7. \A i \in 1 .. n : data'[i] = items'[i]
  BY <1>2, <1>4, <1>5, <1>6
<1>8. answer' = answer
  BY DEF AppendValue
<1> QED
  BY <1>2, <1>3, <1>4, <1>5, <1>7, <1>8 DEF ListInvariant, SameItems

(* append and insert of a list of no capacity raise and change nothing.    *)
LEMMA AddRaisesKeeps ==
  ASSUME ListInvariant, AddRaises
  PROVE  ListInvariant'
<1>1. data' = Roomy /\ UNCHANGED <<length, items, answer>>
  BY DEF AddRaises
<1> QED
  BY <1>1, RoomyHolds DEF ListInvariant, SameItems

(* pop of an item, and of an empty list. *)
LEMMA PopKeeps ==
  ASSUME ListInvariant, Pop
  PROVE  ListInvariant'
<1>1. PICK n \in Nat : n = length - 1 /\ length = n + 1
  BY DEF Pop, ListInvariant
<1>2. items \in Seq(Values) /\ Len(items) = n + 1
  BY <1>1 DEF ListInvariant, SameItems
<1>3. /\ length' = n /\ items' = SubSeq(items, 1, n) /\ UNCHANGED data
      /\ answer' = [got |-> data[n + 1], want |-> items[n + 1]]
  BY <1>1, <1>2 DEF Pop, Front, Last
<1>4. /\ items' \in Seq(Values) /\ Len(items') = n
      /\ \A i \in 1 .. n : items'[i] = items[i]
  BY <1>2, <1>3
<1>5. \A i \in 1 .. n + 1 : data[i] = items[i]
  BY <1>1 DEF ListInvariant, SameItems
<1>6. answer'.got = answer'.want
  BY <1>3, <1>5
<1>7. data' \in Seq(Cells) /\ n <= Len(data') /\ \A i \in 1 .. n : data'[i] = items'[i]
  BY <1>1, <1>3, <1>4, <1>5 DEF ListInvariant
<1> QED
  BY <1>3, <1>4, <1>6, <1>7 DEF ListInvariant, SameItems

(* insert: the items from the place on move up, the others stay. *)
LEMMA InsertKeepsItems ==
  ASSUME ListInvariant, NEW index \in Int, NEW v \in Values, Insert(index, v)
  PROVE  ListInvariant'
<1>1. PICK k \in Nat, n \in Nat : k = index /\ n = length /\ k <= n
  BY DEF Insert, ListInvariant
<1>2. PICK room \in Seq(Cells) : room = Roomy
  BY RoomyHolds
<1>3. /\ n + 1 <= Len(room) /\ DOMAIN room = 1 .. Len(room) /\ v \in Cells
      /\ \A i \in 1 .. n : room[i] = items[i]
  BY <1>1, <1>2, RoomyHolds DEF Insert, ListInvariant, SameItems, Cells
<1>4. /\ data' = [i \in DOMAIN room |->
           CASE i = k + 1 -> v
             [] i \in k + 2 .. n + 1 -> room[i - 1]
             [] OTHER -> room[i]]
      /\ length' = n + 1 /\ UNCHANGED answer
      /\ items' = InsertAt(items, k + 1, v)
  BY <1>1, <1>2 DEF Insert
<1>5. \A i \in DOMAIN room :
        /\ i = k + 1 => data'[i] = v
        /\ i \in k + 2 .. n + 1 => data'[i] = room[i - 1]
        /\ i # k + 1 /\ i \notin k + 2 .. n + 1 => data'[i] = room[i]
  BY <1>1, <1>4
<1>6. /\ \A i \in DOMAIN room : data'[i] \in Cells
      /\ data' \in Seq(Cells) /\ Len(data') = Len(room)
  <2>1. \A i \in 1 .. Len(room) : i \in k + 2 .. n + 1 => i - 1 \in 1 .. Len(room)
    BY <1>1
  <2>2. \A i \in 1 .. Len(room) : data'[i] \in Cells
    BY <1>2, <1>3, <1>5, <2>1
  <2>3. data' = [i \in 1 .. Len(room) |-> data'[i]]
    BY <1>3, <1>4
  <2> QED
    BY <1>3, <2>2, <2>3
<1>7. items \in Seq(Values) /\ Len(items) = n
  BY <1>1 DEF ListInvariant, SameItems
<1> DEFINE left  == SubSeq(items, 1, k)
           right == SubSeq(items, k + 1, n)
<1>8. /\ left \in Seq(Values) /\ Len(left) = k /\ \A i \in 1 .. k : left[i] = items[i]
      /\ right \in Seq(Values) /\ Len(right) = n - k
      /\ \A i \in 1 .. n - k : right[i] = items[k + i]
  BY <1>1, <1>7
<1>9. items' = left \o <<v>> \o right
  <2>1. (k + 1) - 1 = k
    OBVIOUS
  <2>2. items' = SubSeq(items, 1, (k + 1) - 1) \o <<v>> \o SubSeq(items, k + 1, n)
    BY <1>4, <1>7 DEF InsertAt
  <2> QED
    BY <2>1, <2>2
<1> HIDE DEF left, right
<1>10. /\ items' \in Seq(Values) /\ Len(items') = n + 1
       /\ \A i \in 1 .. k : items'[i] = items[i]
       /\ items'[k + 1] = v
       /\ \A i \in k + 2 .. n + 1 : items'[i] = items[i - 1]
  <2>1. <<v>> \in Seq(Values) /\ Len(<<v>>) = 1 /\ <<v>>[1] = v
    OBVIOUS
  <2>2. PICK some \in Seq(Values) :
          /\ some = left \o <<v>> /\ Len(some) = k + 1 /\ some[k + 1] = v
          /\ \A i \in 1 .. k : some[i] = items[i]
    <3>1. /\ left \o <<v>> \in Seq(Values) /\ Len(left \o <<v>>) = k + 1
          /\ \A i \in 1 .. k : (left \o <<v>>)[i] = left[i]
          /\ (left \o <<v>>)[k + 1] = <<v>>[1]
      <4>1. left \in Seq(Values) /\ Len(left) = k /\ <<v>> \in Seq(Values) /\ Len(<<v>>) = 1
        BY <1>8, <2>1
      <4>2. /\ left \o <<v>> \in Seq(Values) /\ Len(left \o <<v>>) = k + 1
            /\ \A i \in 1 .. k + 1 :
                 (left \o <<v>>)[i] = IF i <= k THEN left[i] ELSE <<v>>[i - k]
        BY <4>1, ConcatProperties
      <4>3. k + 1 \in 1 .. k + 1 /\ ~(k + 1 <= k) /\ (k + 1) - k = 1
        OBVIOUS
      <4>4. (left \o <<v>>)[k + 1] = <<v>>[1]
        BY <4>2, <4>3
      <4>5. \A i \in 1 .. k : i \in 1 .. k + 1 /\ i <= k
        OBVIOUS
      <4> QED
        BY <4>2, <4>4, <4>5
    <3> QED
      BY <1>8, <2>1, <3>1
  <2>3. /\ items' \in Seq(Values) /\ Len(items') = (k + 1) + (n - k)
        /\ \A i \in 1 .. k + 1 : items'[i] = some[i]
        /\ \A i \in 1 .. n - k : items'[k + 1 + i] = right[i]
    <3>1. /\ k + 1 \in Nat /\ n - k \in Nat /\ items' = some \o right
      BY <1>1, <1>9, <2>2
    <3>2. PICK m \in Nat, r \in Nat : m = k + 1 /\ r = n - k
      BY <3>1
    <3>3. Len(some) = m /\ Len(right) = r /\ right \in Seq(Values)
      BY <1>8, <2>2, <3>2
    <3>4. /\ some \o right \in Seq(Values) /\ Len(some \o right) = m + r
          /\ \A i \in 1 .. m : (some \o right)[i] = some[i]
          /\ \A i \in 1 .. r : (some \o right)[m + i] = right[i]
      <4>1. /\ some \o right \in Seq(Values)
            /\ Len(some \o right) = Len(some) + Len(right)
            /\ \A i \in 1 .. Len(some) + Len(right) :
                 (some \o right)[i] = IF i <= Len(some) THEN some[i] ELSE right[i - Len(some)]
        BY <3>3, ConcatProperties, Zenon
      <4>2. \A i \in 1 .. m : i \in 1 .. m + r /\ i <= m
        BY <3>2
      <4>3. \A i \in 1 .. r : m + i \in 1 .. m + r /\ ~(m + i <= m) /\ (m + i) - m = i
        BY <3>2
      <4>4. \A i \in 1 .. m + r :
              (some \o right)[i] = IF i <= m THEN some[i] ELSE right[i - m]
        BY <3>3, <4>1
      <4>5. \A i \in 1 .. m : (some \o right)[i] = some[i]
        BY <4>2, <4>4
      <4>6. \A i \in 1 .. r : (some \o right)[m + i] = right[i]
        BY <4>3, <4>4
      <4> QED
        BY <3>3, <4>1, <4>5, <4>6
    <3> QED
      BY <3>1, <3>2, <3>4
  <2>4. ASSUME NEW i \in k + 2 .. n + 1
        PROVE  items'[i] = items[i - 1]
    <3>1. i - (k + 1) \in 1 .. n - k /\ k + (i - (k + 1)) = i - 1 /\ k + 1 + (i - (k + 1)) = i
      BY <1>1
    <3>2. PICK d \in 1 .. n - k : d = i - (k + 1)
      BY <3>1
    <3>3. items'[k + 1 + d] = right[d] /\ right[d] = items[k + d]
      BY <1>8, <2>3
    <3> QED
      BY <3>1, <3>2, <3>3
  <2>5. \A i \in 1 .. k : i \in 1 .. k + 1
    OBVIOUS
  <2>6. (k + 1) + (n - k) = n + 1 /\ k + 1 \in 1 .. k + 1
    OBVIOUS
  <2> QED
    BY <2>2, <2>3, <2>4, <2>5, <2>6
<1>11. ASSUME NEW i \in 1 .. n + 1
       PROVE  data'[i] = items'[i]
  <2>1. i \in DOMAIN room
    BY <1>3
  <2>2. CASE i \in 1 .. k
    BY <1>1, <1>3, <1>5, <1>10, <2>1, <2>2
  <2>3. CASE i = k + 1
    BY <1>5, <1>10, <2>1, <2>3
  <2>4. CASE i \in k + 2 .. n + 1
    <3>1. i - 1 \in 1 .. n
      BY <1>1, <2>4
    <3> QED
      BY <1>3, <1>5, <1>10, <2>1, <2>4, <3>1
  <2> QED
    BY <1>1, <2>2, <2>3, <2>4
<1>12. length' \in Nat /\ length' <= Len(data') /\ SameItems(data, length, items)'
  <2>1. length' = n + 1 /\ n + 1 \in Nat
    BY <1>1, <1>4
  <2>2. n + 1 <= Len(data')
    BY <1>3, <1>6
  <2>3. \A i \in 1 .. length' : data'[i] = items'[i]
    BY <1>11, <2>1
  <2>4. Len(items') = length'
    BY <1>10, <2>1
  <2> QED
    BY <2>1, <2>2, <2>3, <2>4 DEF SameItems
<1>13. answer'.got = answer'.want
  BY <1>4 DEF ListInvariant
<1> QED
  BY <1>6, <1>10, <1>12, <1>13 DEF ListInvariant

(* remove: the items after the first that is equal move down. *)
LEMMA RemoveKeeps ==
  ASSUME ListInvariant, NEW v \in Values, RemoveValue(v)
  PROVE  ListInvariant'
<1>1. PICK n \in Nat : n = length
  BY DEF ListInvariant
<1>2. PICK k \in 1 .. n :
        /\ data[k] = v /\ \A j \in 1 .. k - 1 : data[j] # v
        /\ data' = [j \in DOMAIN data |-> IF j \in k .. n - 1 THEN data[j + 1] ELSE data[j]]
  BY <1>1 DEF RemoveValue
<1>3. /\ data \in Seq(Cells) /\ n <= Len(data)
      /\ items \in Seq(Values) /\ Len(items) = n
      /\ \A i \in 1 .. n : data[i] = items[i]
  BY <1>1 DEF ListInvariant, SameItems
<1>4. length' = n - 1 /\ items' = RemoveFirst(items, v) /\ UNCHANGED answer
  BY <1>1 DEF RemoveValue
<1>5. SelectInSeq(items, LAMBDA x : x = v) = k
  <2> DEFINE places == {i \in 1 .. Len(items) : items[i] = v}
  <2>1. k \in places /\ \A i \in places : k <= i /\ i \in Nat
    BY <1>2, <1>3
  <2>2. Min(places) = k
    <3> HIDE DEF places
    <3>1. \A x \in places : (\A y \in places : x <= y) => x = k
      BY <2>1
    <3> QED
      BY <2>1, <3>1, Zenon DEF Min
  <2> QED
    BY <2>1, <2>2 DEF SelectInSeq
<1>6. items' = RemoveAt(items, k)
  <2>1. \E i \in 1 .. Len(items) : items[i] = v
    BY <1>2, <1>3
  <2> QED
    BY <1>4, <1>5, <2>1 DEF RemoveFirst
<1>7. /\ items' \in Seq(Values) /\ Len(items') = n - 1
      /\ \A i \in 1 .. k - 1 : items'[i] = items[i]
      /\ \A i \in k .. n - 1 : items'[i] = items[i + 1]
  <2> DEFINE left  == SubSeq(items, 1, k - 1)
             right == SubSeq(items, k + 1, n)
  <2>1. /\ left \in Seq(Values) /\ Len(left) = k - 1 /\ \A i \in 1 .. k - 1 : left[i] = items[i]
        /\ right \in Seq(Values) /\ Len(right) = n - k
        /\ \A i \in 1 .. n - k : right[i] = items[k + i]
    BY <1>3
  <2>2. items' = left \o right
    BY <1>3, <1>6 DEF RemoveAt
  <2> HIDE DEF left, right
  <2>3. /\ items' \in Seq(Values) /\ Len(items') = (k - 1) + (n - k)
        /\ \A i \in 1 .. k - 1 : items'[i] = items[i]
        /\ \A i \in 1 .. n - k : items'[k - 1 + i] = right[i]
    <3>1. k - 1 \in Nat /\ n - k \in Nat
      BY <1>1, <1>2
    <3>2. PICK m \in Nat, r \in Nat : m = k - 1 /\ r = n - k
      BY <3>1
    <3>3. /\ Len(left) = m /\ left \in Seq(Values) /\ Len(right) = r /\ right \in Seq(Values)
          /\ \A i \in 1 .. m : left[i] = items[i]
      BY <2>1, <3>2
    <3>4. /\ left \o right \in Seq(Values) /\ Len(left \o right) = m + r
          /\ \A i \in 1 .. m : (left \o right)[i] = left[i]
          /\ \A i \in 1 .. r : (left \o right)[m + i] = right[i]
      BY <3>3
    <3> QED
      BY <2>2, <3>2, <3>3, <3>4
  <2>4. ASSUME NEW i \in k .. n - 1
        PROVE  items'[i] = items[i + 1]
    <3>1. PICK d \in 1 .. n - k : d = i - k + 1 /\ k - 1 + d = i /\ k + d = i + 1
      OBVIOUS
    <3>2. items'[k - 1 + d] = right[d] /\ right[d] = items[k + d]
      BY <2>1, <2>3
    <3> QED
      BY <3>1, <3>2
  <2> QED
    BY <2>3, <2>4
<1>8. /\ data' \in Seq(Cells) /\ Len(data') = Len(data)
      /\ \A i \in 1 .. Len(data) : data'[i] = IF i \in k .. n - 1 THEN data[i + 1] ELSE data[i]
  <2>1. \A i \in 1 .. Len(data) : i \in k .. n - 1 => i + 1 \in 1 .. Len(data)
    BY <1>3
  <2>2. \A i \in 1 .. Len(data) : (IF i \in k .. n - 1 THEN data[i + 1] ELSE data[i]) \in Cells
    BY <1>3, <2>1
  <2>3. DOMAIN data = 1 .. Len(data) /\ Len(data) \in Nat
    BY <1>3
  <2>4. data' = [i \in 1 .. Len(data) |-> IF i \in k .. n - 1 THEN data[i + 1] ELSE data[i]]
    BY <1>2, <2>3
  <2> QED
    BY <2>2, <2>3, <2>4
<1>9. ASSUME NEW i \in 1 .. n - 1
      PROVE  data'[i] = items'[i]
  <2>1. i \in 1 .. Len(data) /\ i \in 1 .. n /\ i + 1 \in 1 .. n
    BY <1>3
  <2>2. i \in 1 .. k - 1 \/ i \in k .. n - 1
    OBVIOUS
  <2> QED
    BY <1>3, <1>7, <1>8, <2>1, <2>2
<1> QED
  BY <1>3, <1>4, <1>7, <1>8, <1>9 DEF ListInvariant, SameItems

(* Assignment to an index. *)
LEMMA SetItemKeeps ==
  ASSUME ListInvariant, NEW index \in Int, NEW v \in Values, SetItem(index, v)
  PROVE  ListInvariant'
<1>1. PICK k \in Nat : k = index + 1 /\ k \in 1 .. length
  BY DEF SetItem, ListInvariant
<1>2. /\ data' = [data EXCEPT ![k] = v] /\ items' = [items EXCEPT ![k] = v]
      /\ UNCHANGED <<length, answer>> /\ v \in Cells
  BY <1>1 DEF SetItem, Cells
<1> QED
  BY <1>1, <1>2 DEF ListInvariant, SameItems

(* clear gives up the cells too. *)
LEMMA ListClears ==
  ASSUME ListInvariant, ClearList
  PROVE  ListInvariant'
<1>1. data' \in Seq(Cells) /\ Len(data') \in Nat
  BY DEF ClearList, Vacancy, Cells, ListInvariant
<1> QED
  BY <1>1 DEF ClearList, ListInvariant, SameItems

(* The places of an interval, kept, are the subsequence from its start.    *)
LEMMA KeptInterval ==
  ASSUME NEW list \in Seq(Values), NEW a \in Nat, NEW b \in Nat, b <= Len(list)
  PROVE  Kept(list, a + 1 .. b) = SubSeq(list, a + 1, b)
<1> DEFINE places == a + 1 .. b
<1>1. CASE b <= a
  <2>1. places = {}
    BY <1>1
  <2>2. Cardinality(places) = 0
    BY <2>1, FS_EmptySet
  <2>3. Kept(list, places) = <<>>
    <3> HIDE DEF places
    <3>1. 1 .. Cardinality(places) = {}
      BY <2>2
    <3> QED
      BY <3>1 DEF Kept
  <2>4. SubSeq(list, a + 1, b) = <<>>
    BY <1>1
  <2> QED
    BY <2>3, <2>4
<1>2. CASE a < b
  <2>1. PICK n \in Nat : n = b - a
    BY <1>2
  <2>2. Cardinality(places) = n
    <3>1. Cardinality(a + 1 .. b) = IF a + 1 > b THEN 0 ELSE b - (a + 1) + 1
      BY FS_Interval
    <3> QED
      BY <1>2, <2>1, <3>1
  <2>3. ASSUME NEW i \in places
        PROVE  Cardinality({j \in places : j <= i}) = i - a
    <3>1. {j \in places : j <= i} = a + 1 .. i
      BY <2>3
    <3>2. Cardinality(a + 1 .. i) = IF a + 1 > i THEN 0 ELSE i - (a + 1) + 1
      BY FS_Interval
    <3>3. i - (a + 1) + 1 = i - a /\ ~(a + 1 > i)
      BY <2>3
    <3> QED
      BY <3>1, <3>2, <3>3, Zenon
  <2>4. ASSUME NEW k \in 1 .. n
        PROVE  Nth(places, k) = a + k
    <3>1. PICK i \in places : i = a + k
      BY <2>1
    <3>2. ASSUME NEW j \in places, Cardinality({l \in places : l <= j}) = k
          PROVE  j = i
      <4>1. Cardinality({l \in places : l <= j}) = j - a
        BY <2>3, Zenon
      <4>2. k = j - a
        BY <3>2, <4>1, Zenon
      <4> QED
        BY <3>1, <4>2
    <3>3. Cardinality({l \in places : l <= i}) = k
      BY <2>3, <3>1
    <3>4. Nth(places, k) = i
      <4> HIDE DEF places
      <4> QED
        BY <3>2, <3>3, Zenon DEF Nth
    <3> QED
      BY <3>1, <3>4
  <2>5. Kept(list, places) = [k \in 1 .. n |-> list[a + k]]
    <3> HIDE DEF places
    <3> QED
      BY <2>2, <2>4 DEF Kept
  <2>6. SubSeq(list, a + 1, b) = [k \in 1 .. n |-> list[a + k]]
    BY <1>2, <2>1
  <2> QED
    BY <2>5, <2>6
<1> QED
  BY <1>1, <1>2

(* A slice answers the items at its places. *)
LEMMA SliceKeeps ==
  ASSUME ListInvariant, NEW start \in Int, NEW end \in Int, Slice(start, end)
  PROVE  ListInvariant'
<1>1. PICK n \in Nat : n = length
  BY DEF ListInvariant
<1>2. /\ data \in Seq(Cells) /\ n <= Len(data)
      /\ items \in Seq(Values) /\ Len(items) = n
      /\ \A i \in 1 .. n : data[i] = items[i]
  BY <1>1 DEF ListInvariant, SameItems
<1> DEFINE place(i) == IF i < 0 THEN n + i ELSE i
<1>3. ASSUME NEW i \in Int
      PROVE  /\ Clamped(i) \in 0 .. n
             /\ \A k \in 0 .. n - 1 : k >= place(i) <=> k >= Clamped(i)
  BY <1>1 DEF Clamped, Greatest, Least
<1>4. PICK a \in 0 .. n, b \in 0 .. n : a = Clamped(start) /\ b = Clamped(end)
  BY <1>3
<1>5. {i \in 1 .. n : i - 1 >= place(start) /\ i - 1 < place(end)} = a + 1 .. b
  <2>1. ASSUME NEW i \in 1 .. n
        PROVE  i - 1 >= place(start) /\ i - 1 < place(end) <=> i >= a + 1 /\ i <= b
    <3>1. i - 1 \in 0 .. n - 1
      OBVIOUS
    <3>2. i - 1 >= place(start) <=> i - 1 >= a
      BY <1>3, <1>4, <3>1
    <3>3. i - 1 >= place(end) <=> i - 1 >= b
      BY <1>3, <1>4, <3>1
    <3>4. place(end) \in Int
      OBVIOUS
    <3> HIDE DEF place
    <3> QED
      BY <3>2, <3>3, <3>4
  <2> HIDE DEF place
  <2> QED
    BY <2>1
<1>6. Sliced(items, start, end) = Kept(items, a + 1 .. b)
  <2>1. DOMAIN items = 1 .. n
    BY <1>2
  <2> QED
    BY <1>2, <1>5, <2>1 DEF Sliced
<1>7. SubSeq(data, a + 1, b) = SubSeq(items, a + 1, b)
  BY <1>2
<1>8. Kept(items, a + 1 .. b) = SubSeq(items, a + 1, b)
  <2>1. a \in Nat /\ b \in Nat /\ b <= Len(items) /\ items \in Seq(Values)
    BY <1>2
  <2> QED
    BY <2>1, KeptInterval, Zenon
<1>9. answer' = [got |-> SubSeq(data, a + 1, b), want |-> Sliced(items, start, end)]
  BY <1>4 DEF Slice
<1>10. answer'.got = answer'.want
  BY <1>6, <1>7, <1>8, <1>9
<1>11. UNCHANGED <<data, length, items>>
  BY DEF Slice
<1> QED
  BY <1>10, <1>11 DEF ListInvariant, SameItems

(* Every operation keeps the invariant. *)
LEMMA ListStep == ListInvariant /\ [ListNext]_listVars => ListInvariant'
<1> SUFFICES ASSUME ListInvariant, [ListNext]_listVars
             PROVE  ListInvariant'
  OBVIOUS
<1>1. Indices \subseteq Int
  BY ListAssumption DEF Indices
<1>2. CASE UNCHANGED listVars
  BY <1>2 DEF listVars, ListInvariant, SameItems
<1>3. CASE ListNext
  <2>1. CASE \E v \in Values :
               \/ AppendValue(v) \/ RemoveValue(v)
               \/ \E index \in Indices : Insert(index, v) \/ SetItem(index, v)
    BY <1>1, <2>1, AppendKeeps, RemoveKeeps, InsertKeepsItems, SetItemKeeps
  <2>2. CASE AddRaises \/ Pop \/ ClearList
    BY <2>2, AddRaisesKeeps, PopKeeps, ListClears
  <2>3. CASE \E start, end \in Indices : Slice(start, end)
    BY <1>1, <2>3, SliceKeeps
  <2> QED
    BY <1>3, <2>1, <2>2, <2>3 DEF ListNext
<1> QED
  BY <1>2, <1>3

(* The native list is the sequence its operations make, however it grew, moved
   its elements or failed to, and pop and slice answer what they would of that
   sequence (List in runtime/list_runtime.py), for any values, capacities and lengths. *)
THEOREM ListAlwaysSequence == ListSpec => []ListIsSequence
<1>1. ListInvariant => ListIsSequence
  BY ItemsAreCells DEF ListInvariant, ListIsSequence
<1> QED
  BY <1>1, ListInitially, ListStep, PTL DEF ListSpec

(* SCHEDULER *)

(* What rounding up does, of natural numbers.                              *)

LEMMA RoundedUp ==
  ASSUME NEW n \in Nat, NEW k \in Nat \ {0}
  PROVE  LET q == (n + k - 1) \div k
         IN  q \in Nat /\ k * q >= n /\ (n > 0 => q > 0)
<1> DEFINE q == (n + k - 1) \div k
           r == (n + k - 1) % k
<1>1. n + k - 1 \in Nat
  OBVIOUS
<1>2. q \in Int /\ r \in 0 .. k - 1 /\ n + k - 1 = k * q + r
  BY <1>1
<1>3. q >= 0
  BY <1>1, <1>2
<1>4. k * q >= n
  BY <1>2
<1>5. n > 0 => q > 0
  BY <1>2, <1>3
<1> QED BY <1>2, <1>3, <1>4, <1>5

LEMMA Multiples ==
  ASSUME NEW i \in Nat, NEW k \in Nat, NEW n \in Nat, i < k
  PROVE  i * n + n <= k * n
<1>1. PICK d \in Nat : k = i + 1 + d
  <2>1. k - i - 1 \in Nat /\ k = i + 1 + (k - i - 1)
    OBVIOUS
  <2> QED BY <2>1
<1>2. k * n = i * n + n + d * n
  BY <1>1
<1>3. d * n >= 0 /\ d * n \in Int /\ i * n \in Int
  OBVIOUS
<1> QED BY <1>2, <1>3

(* The multiple of n at or below j.                                        *)
LEMMA Floor ==
  ASSUME NEW j \in Nat, NEW n \in Nat \ {0}
  PROVE  LET i == j \div n
         IN  i \in Nat /\ i * n <= j /\ j < i * n + n
<1> DEFINE i == j \div n
           r == j % n
<1>1. i \in Int /\ r \in 0 .. n - 1 /\ j = n * i + r
  OBVIOUS
<1>2. i >= 0
  BY <1>1
<1>3. i * n = n * i /\ i * n \in Int
  BY <1>1
<1> QED BY <1>1, <1>2, <1>3

-----------------------------------------------------------------------------
(* The invariant.                                                          *)

States == {"none", "running", "returned", "raised"}

SchedulerTypeOK ==
  /\ threads \in 1 .. MaxThreads /\ total \in 0 .. MaxTotal
  /\ launched \in 0 .. threads /\ joined \in 0 .. launched
  /\ worker \in [0 .. MaxThreads -> [next : Nat, end : Nat, state : States]]
  /\ forPc \in {"called", "inside", "starting", "joining", "returned", "raised"}
  /\ ranOf \in [0 .. MaxTotal -> Nat]

StartOf(i)  == IF i = 0 THEN 0 ELSE Begins(i - 1)
EndOf(i)   == IF i = 0 THEN total ELSE Ends(i - 1)
Active(i) == worker[i].state # "none"

(* A worker that was started is inside its chunk; one that returned is at  *)
(* the end of it.                                                          *)
InChunk(i) ==
  Active(i) =>
    /\ i = 0 => Shortcut /\ launched = 0
    /\ i > 0 => i <= launched
    /\ StartOf(i) <= total
    /\ worker[i].end = EndOf(i)
    /\ worker[i].next \in StartOf(i) .. EndOf(i)
    /\ worker[i].state = "returned" => worker[i].next = EndOf(i)

(* What is run are the iterations that started workers have left behind.   *)
Behind(i, j) == Active(i) /\ StartOf(i) <= j /\ j < worker[i].next

RunOnce ==
  \A j \in 0 .. MaxTotal :
    ranOf[j] = IF \E i \in 0 .. MaxThreads : Behind(i, j) THEN 1 ELSE 0

(* Where the call is: in place, or forking and joining.                    *)
InPlace ==
  /\ forPc = "called" => ~Active(0) /\ launched = 0
  /\ forPc = "inside" => worker[0].state = "running"
  /\ forPc = "returned" /\ Active(0) => worker[0].state = "returned"
  /\ worker[0].state = "running" => forPc = "inside"
  /\ forPc \in {"starting", "joining"} => ~Active(0)

Forked ==
  /\ \A i \in 1 .. launched : Active(i)
  /\ \A i \in 1 .. joined : worker[i].state \in {"returned", "raised"}
  /\ forPc \in {"joining", "returned"} /\ ~Active(0) =>
       launched = threads \/ Begins(launched) >= total
  /\ forPc = "returned" /\ ~Active(0) => joined = launched

SchedulerInvariant ==
  /\ SchedulerTypeOK
  /\ \A i \in 0 .. MaxThreads : InChunk(i)
  /\ RunOnce /\ InPlace /\ Forked

LEMMA SchedulerInitially == SchedulerInit => SchedulerInvariant
<1> SUFFICES ASSUME SchedulerInit
             PROVE  SchedulerInvariant
  OBVIOUS
<1>1. /\ worker = [i \in 0 .. MaxThreads |-> NoWorker]
      /\ \A i \in 0 .. MaxThreads : ~Active(i)
  BY DEF SchedulerInit, Active, NoWorker
<1>2. SchedulerTypeOK
  BY <1>1, SchedulerAssumption DEF SchedulerInit, SchedulerTypeOK, NoWorker, States
<1>3. 0 \in 0 .. MaxThreads
  BY SchedulerAssumption
<1>4. RunOnce
  BY <1>1 DEF SchedulerInit, RunOnce, Behind
<1>5. worker[0].state = "none"
  BY <1>1, <1>3 DEF NoWorker
<1>6. InPlace /\ Forked
  BY <1>1, <1>3, <1>5 DEF SchedulerInit, InPlace, Forked, Active
<1> QED BY <1>1, <1>2, <1>4, <1>6 DEF SchedulerInvariant, InChunk

(* Chunks of different workers are apart.                                  *)
LEMMA ChunksApart ==
  ASSUME SchedulerInvariant,
         NEW i \in 0 .. MaxThreads, NEW k \in 0 .. MaxThreads, i # k,
         Active(i), Active(k), NEW j \in Int,
         StartOf(i) <= j, j < EndOf(i)
  PROVE  ~ (StartOf(k) <= j /\ j < EndOf(k))
<1>1. /\ i > 0 /\ k > 0 /\ i \in Nat /\ k \in Nat
  BY DEF SchedulerInvariant, InChunk, SchedulerTypeOK
<1>2. /\ threads \in Nat \ {0} /\ total \in Nat
  BY SchedulerAssumption DEF SchedulerInvariant, SchedulerTypeOK
<1>3. ChunkSize \in Nat
  BY <1>2, RoundedUp DEF ChunkSize
<1> DEFINE n == ChunkSize
<1>4. /\ StartOf(i) = (i - 1) * n /\ StartOf(k) = (k - 1) * n
      /\ StartOf(i) \in Int /\ StartOf(k) \in Int
  BY <1>1, <1>3 DEF StartOf, Begins
<1>5. EndOf(i) <= (i - 1) * n + n /\ EndOf(k) <= (k - 1) * n + n
  BY <1>1, <1>2, <1>3 DEF EndOf, Ends, Begins
<1>6. EndOf(i) \in Int /\ EndOf(k) \in Int
  BY <1>1, <1>2, <1>3 DEF EndOf, Ends, Begins
<1> HIDE DEF n
<1>7. i < k => (i - 1) * n + n <= (k - 1) * n
  BY <1>1, <1>3, Multiples DEF n
<1>8. k < i => (k - 1) * n + n <= (i - 1) * n
  BY <1>1, <1>3, Multiples DEF n
<1>9. (i - 1) * n \in Int /\ (k - 1) * n \in Int
  BY <1>1, <1>3 DEF n
<1> QED BY <1>1, <1>3, <1>4, <1>5, <1>6, <1>7, <1>8, <1>9 DEF n

(* When no worker is to be started any more, the chunks reach the total.   *)
LEMMA ChunksCover ==
  ASSUME SchedulerInvariant, launched = threads \/ Begins(launched) >= total,
         NEW j \in 0 .. total - 1
  PROVE  \E i \in 1 .. launched : StartOf(i) <= j /\ j < EndOf(i)
<1> DEFINE n == ChunkSize
           i == j \div n
<1>1. /\ threads \in Nat \ {0} /\ total \in Nat /\ launched \in Nat /\ j \in Nat /\ total > 0
  BY SchedulerAssumption DEF SchedulerInvariant, SchedulerTypeOK
<1>2. n \in Nat \ {0} /\ threads * n >= total
  BY <1>1, RoundedUp DEF ChunkSize
<1>3. launched * n >= total
  BY <1>2 DEF Begins
<1> HIDE DEF n
<1>4. i \in Nat /\ i * n <= j /\ j < i * n + n
  BY <1>1, <1>2, Floor
<1> HIDE DEF i
<1>5. i < launched
  <2>1. CASE launched < i
    <3>1. launched * n + n <= i * n
      BY <1>1, <1>2, <1>4, <2>1, Multiples
    <3>2. launched * n \in Int /\ i * n \in Int
      BY <1>1, <1>2, <1>4
    <3> QED BY <1>1, <1>2, <1>3, <1>4, <3>1, <3>2
  <2>2. CASE launched = i
    <3>1. i * n \in Int
      BY <1>2, <1>4
    <3> QED BY <1>1, <1>3, <1>4, <2>2, <3>1
  <2> QED BY <1>1, <1>4, <2>1, <2>2
<1>6. StartOf(i + 1) = i * n /\ i + 1 \in 1 .. launched
  BY <1>1, <1>2, <1>4, <1>5 DEF StartOf, Begins, n
<1>7. j < EndOf(i + 1)
  BY <1>1, <1>2, <1>4, <1>5 DEF EndOf, Ends, Begins, n
<1> QED BY <1>4, <1>6, <1>7

LEMMA SchedulerStep == SchedulerInvariant /\ [SchedulerNext]_schedulerVars => SchedulerInvariant'
<1> SUFFICES ASSUME SchedulerInvariant, [SchedulerNext]_schedulerVars
             PROVE  SchedulerInvariant'
  OBVIOUS
<1>1. /\ threads \in 1 .. MaxThreads /\ total \in 0 .. MaxTotal
      /\ launched \in 0 .. threads /\ joined \in 0 .. launched
      /\ worker \in [0 .. MaxThreads -> [next : Nat, end : Nat, state : States]]
      /\ ranOf \in [0 .. MaxTotal -> Nat]
      /\ MaxThreads \in Nat \ {0} /\ MaxTotal \in Nat /\ 0 \in 0 .. MaxThreads
      /\ threads \in Nat \ {0} /\ total \in Nat /\ launched \in Nat /\ joined \in Nat
  BY SchedulerAssumption DEF SchedulerInvariant, SchedulerTypeOK
<1>2. ChunkSize \in Nat /\ \A i \in Nat : Begins(i) \in Nat /\ Ends(i) \in Nat
  <2>1. ChunkSize \in Nat
    <3>1. threads \in Nat \ {0} /\ total \in Nat
      BY <1>1
    <3> QED BY <3>1, RoundedUp DEF ChunkSize
  <2>2. \A i \in Nat : Begins(i) \in Nat
    BY <2>1 DEF Begins
  <2>3. total \in Nat
    BY <1>1
  <2> QED BY <2>1, <2>2, <2>3 DEF Ends
<1>3. ASSUME UNCHANGED <<threads, total>>
      PROVE  /\ Shortcut' = Shortcut
             /\ \A i \in 0 .. MaxThreads : StartOf(i)' = StartOf(i) /\ EndOf(i)' = EndOf(i)
             /\ \A i \in Nat : Begins(i)' = Begins(i)
  BY <1>3 DEF Shortcut, StartOf, EndOf, Ends, Begins, ChunkSize
<1>4. ASSUME NEW i \in 0 .. MaxThreads
      PROVE  StartOf(i) \in Nat /\ EndOf(i) \in Nat /\ EndOf(i) <= total
  <2>1. i = 0 \/ i - 1 \in Nat
    BY <1>1
  <2>2. total \in Nat
    BY <1>1
  <2>3. i # 0 => Ends(i - 1) <= total
    BY <1>2, <2>1, <2>2 DEF Ends
  <2> QED BY <1>2, <2>1, <2>2, <2>3 DEF StartOf, EndOf
<1>5. CASE CallInPlace
  <2>1. /\ forPc = "called" /\ Shortcut /\ forPc' = "inside" /\ launched = 0
        /\ UNCHANGED <<threads, total, launched, joined, ranOf>>
        /\ worker'[0] = [next |-> 0, end |-> total, state |-> "running"]
        /\ \A i \in 1 .. MaxThreads : worker'[i] = worker[i]
    BY <1>1, <1>5 DEF CallInPlace, SchedulerInvariant, InPlace
  <2>2. \A i \in 0 .. MaxThreads : ~Active(i)
    BY <1>1, <2>1 DEF SchedulerInvariant, InPlace, InChunk
  <2>3. SchedulerTypeOK'
    BY <1>1, <1>5, <2>1 DEF CallInPlace, SchedulerTypeOK, States
  <2>4. \A i \in 1 .. MaxThreads : ~Active(i)'
    BY <2>1, <2>2 DEF Active
  <2>5. \A i \in 0 .. MaxThreads : InChunk(i)'
    <3>1. InChunk(0)'
      BY <1>1, <1>3, <2>1 DEF InChunk, StartOf, EndOf
    <3> QED BY <2>4, <3>1 DEF InChunk
  <2>6. RunOnce'
    <3>1. \A i \in 0 .. MaxThreads, j \in 0 .. MaxTotal : ~Behind(i, j) /\ ~Behind(i, j)'
      BY <2>1, <2>2, <2>4 DEF Behind
    <3> QED BY <2>1, <3>1 DEF SchedulerInvariant, RunOnce
  <2>7. InPlace' /\ Forked'
    BY <1>1, <2>1 DEF SchedulerInvariant, InPlace, Forked, Active
  <2> QED BY <2>3, <2>5, <2>6, <2>7 DEF SchedulerInvariant
<1>6. ASSUME UNCHANGED <<threads, total, launched, worker, ranOf>>,
             joined' \in 0 .. launched,
             forPc' \in {"called", "inside", "starting", "joining", "returned", "raised"},
             InPlace', Forked'
      PROVE  SchedulerInvariant'
  <2>1. SchedulerTypeOK'
    BY <1>1, <1>6 DEF SchedulerTypeOK
  <2>2. \A i \in 0 .. MaxThreads : InChunk(i)'
    BY <1>3, <1>6 DEF SchedulerInvariant, InChunk, Active
  <2>3. RunOnce'
    <3>1. \A i \in 0 .. MaxThreads, j \in 0 .. MaxTotal : Behind(i, j)' = Behind(i, j)
      BY <1>3, <1>6 DEF Behind, Active
    <3> QED BY <1>6, <3>1 DEF SchedulerInvariant, RunOnce
  <2> QED BY <1>6, <2>1, <2>2, <2>3 DEF SchedulerInvariant
<1>7. CASE Fork
  <2>1. InPlace' /\ Forked'
    BY <1>1, <1>7 DEF Fork, SchedulerInvariant, InPlace, Forked, Active
  <2> QED BY <1>1, <1>6, <1>7, <2>1 DEF Fork
<1>8. CASE AllStarted
  <2>1. InPlace' /\ Forked'
    BY <1>1, <1>3, <1>8 DEF AllStarted, SchedulerInvariant, InPlace, Forked, Active
  <2> QED BY <1>1, <1>6, <1>8, <2>1 DEF AllStarted
<1>9. CASE Join
  <2>1. /\ forPc = "joining" /\ joined < launched /\ joined' = joined + 1
        /\ worker[joined + 1].state \in {"returned", "raised"}
        /\ UNCHANGED <<threads, total, launched, worker, forPc>>
    BY <1>9 DEF Join
  <2>2. \A i \in 1 .. joined + 1 : worker[i].state \in {"returned", "raised"}
    <3>1. \A i \in 1 .. joined + 1 : i \in 1 .. joined \/ i = joined + 1
      BY <1>1
    <3> QED BY <2>1, <3>1 DEF SchedulerInvariant, Forked
  <2>3. InPlace' /\ Forked'
    BY <1>1, <1>3, <2>1, <2>2 DEF SchedulerInvariant, InPlace, Forked, Active
  <2>4. joined' \in 0 .. launched
    BY <1>1, <2>1
  <2> QED BY <1>1, <1>6, <1>9, <2>1, <2>3, <2>4 DEF Join
<1>10. CASE Return
  <2>1. InPlace' /\ Forked'
    BY <1>1, <1>3, <1>10 DEF Return, SchedulerInvariant, InPlace, Forked, Active
  <2> QED BY <1>1, <1>6, <1>10, <2>1 DEF Return
<1>11. CASE StartWorker
  <2> DEFINE w == launched + 1
  <2>1. /\ forPc = "starting" /\ forPc' = "starting"
        /\ launched < threads /\ Begins(launched) < total /\ launched' = w
        /\ UNCHANGED <<threads, total, joined, ranOf>>
        /\ worker' = [worker EXCEPT ![w] =
             [next |-> Begins(launched), end |-> Ends(launched), state |-> "running"]]
    BY <1>11 DEF StartWorker
  <2>2. w \in 1 .. MaxThreads /\ w # 0 /\ w \in 0 .. MaxThreads /\ w - 1 = launched
    BY <1>1, <2>1
  <2>3. /\ worker'[w] = [next |-> Begins(launched), end |-> Ends(launched), state |-> "running"]
        /\ \A i \in 0 .. MaxThreads : i # w => worker'[i] = worker[i]
        /\ ~Active(w)
    <3>1. ~Active(w)
      BY <1>1, <2>2 DEF SchedulerInvariant, InChunk
    <3> QED BY <1>1, <2>1, <2>2, <3>1
  <2>4. SchedulerTypeOK'
    <3>1. [next |-> Begins(launched), end |-> Ends(launched), state |-> "running"]
            \in [next : Nat, end : Nat, state : States]
      BY <1>1, <1>2 DEF States
    <3>2. worker' \in [0 .. MaxThreads -> [next : Nat, end : Nat, state : States]]
      BY <1>1, <2>1, <2>2, <3>1
    <3>3. launched' \in 0 .. threads /\ joined \in 0 .. launched'
      BY <1>1, <2>1
    <3> QED BY <1>1, <2>1, <3>2, <3>3 DEF SchedulerTypeOK
  <2>5. ~Active(0)
    BY <2>1 DEF SchedulerInvariant, InPlace
  <2>6. ASSUME NEW i \in 0 .. MaxThreads
        PROVE  InChunk(i)'
    <3>1. CASE i = w
      <4>1. StartOf(w) = Begins(launched) /\ EndOf(w) = Ends(launched)
        BY <1>1, <2>2 DEF StartOf, EndOf
      <4>2. Begins(launched) <= Ends(launched) /\ Begins(launched) <= total
        <5>1. total \in Nat /\ ChunkSize \in Nat /\ Begins(launched) \in Nat
          BY <1>1, <1>2
        <5> QED BY <2>1, <5>1 DEF Ends
      <4>3. Begins(launched) \in Nat /\ Ends(launched) \in Nat
        BY <1>1, <1>2
      <4>4. /\ worker'[i].next = StartOf(i) /\ worker'[i].end = EndOf(i)
            /\ worker'[i].state = "running"
        BY <2>3, <3>1, <4>1
      <4>5. StartOf(i)' = StartOf(i) /\ EndOf(i)' = EndOf(i)
        BY <1>3, <2>1
      <4>6. worker'[i].next \in StartOf(i) .. EndOf(i)
        BY <3>1, <4>1, <4>2, <4>3, <4>4
      <4>7. i # 0 /\ i <= launched' /\ StartOf(i) <= total
        BY <1>1, <2>1, <2>2, <3>1, <4>1, <4>2
      <4> QED BY <2>1, <4>4, <4>5, <4>6, <4>7 DEF InChunk
    <3>2. CASE i # w
      <4>1. InChunk(i)
        BY DEF SchedulerInvariant
      <4>2. worker'[i] = worker[i] /\ Active(i)' = Active(i)
        BY <2>3, <3>2 DEF Active
      <4>3. StartOf(i)' = StartOf(i) /\ EndOf(i)' = EndOf(i)
        BY <1>3, <2>1
      <4>4. i <= launched => i <= launched'
        BY <1>1, <2>1
      <4>5. CASE i = 0
        BY <2>5, <4>2, <4>5 DEF InChunk
      <4>6. CASE i # 0
        BY <2>1, <4>1, <4>2, <4>3, <4>4, <4>6 DEF InChunk
      <4> QED BY <4>5, <4>6
    <3> QED BY <3>1, <3>2
  <2>7. RunOnce'
    <3>1. ASSUME NEW i \in 0 .. MaxThreads, NEW j \in 0 .. MaxTotal
          PROVE  Behind(i, j)' = Behind(i, j)
      <4>1. CASE i = w
        <5>1. StartOf(w) = Begins(launched)
          BY <1>1, <2>2 DEF StartOf
        <5>2. Begins(launched) \in Nat
          BY <1>1, <1>2
        <5> QED BY <1>3, <2>1, <2>3, <4>1, <5>1, <5>2 DEF Behind
      <4>2. CASE i # w
        BY <1>3, <2>1, <2>3, <4>2 DEF Behind, Active
      <4> QED BY <4>1, <4>2
    <3> QED BY <2>1, <3>1 DEF SchedulerInvariant, RunOnce
  <2>8. InPlace'
    BY <1>1, <2>1, <2>2, <2>3, <2>5 DEF InPlace, Active, SchedulerInvariant
  <2>9. Forked'
    <3>1. ASSUME NEW i \in 1 .. w
          PROVE  Active(i)'
      <4>1. i = w \/ i \in 1 .. launched
        BY <1>1
      <4>2. i \in 0 .. MaxThreads
        BY <1>1, <2>2
      <4> QED BY <2>3, <4>1, <4>2 DEF SchedulerInvariant, Forked, Active
    <3>2. ASSUME NEW i \in 1 .. joined
          PROVE  worker'[i] = worker[i]
      <4>1. i \in 0 .. MaxThreads /\ i # w
        BY <1>1
      <4> QED BY <2>3, <4>1
    <3> QED BY <1>1, <2>1, <3>1, <3>2 DEF SchedulerInvariant, Forked
  <2> QED BY <2>4, <2>6, <2>7, <2>8, <2>9 DEF SchedulerInvariant
<1>12. ASSUME NEW i \in 0 .. MaxThreads, Iterate(i)
       PROVE  SchedulerInvariant'
  <2> DEFINE at == worker[i].next
  <2>1. /\ worker[i].state = "running" /\ at < worker[i].end
        /\ ranOf' = [ranOf EXCEPT ![at] = @ + 1]
        /\ worker' = [worker EXCEPT ![i].next = @ + 1]
        /\ UNCHANGED <<threads, total, launched, joined, forPc>>
    BY <1>12 DEF Iterate
  <2>2. /\ Active(i) /\ StartOf(i) <= at /\ at < EndOf(i) /\ at \in Nat
        /\ worker[i].end = EndOf(i)
    BY <1>1, <1>4, <2>1, SMTT(30) DEF SchedulerInvariant, InChunk, Active
  <2>3. at \in 0 .. MaxTotal /\ at < total
    <3>1. total \in Nat /\ total <= MaxTotal /\ MaxTotal \in Nat
      BY <1>1
    <3> QED BY <1>4, <2>2, <3>1
  <2>4. /\ worker'[i].next = at + 1 /\ worker'[i].end = worker[i].end
        /\ worker'[i].state = worker[i].state
        /\ \A k \in 0 .. MaxThreads : k # i => worker'[k] = worker[k]
        /\ \A k \in 0 .. MaxThreads : worker'[k].state = worker[k].state
        /\ worker' \in [0 .. MaxThreads -> [next : Nat, end : Nat, state : States]]
    <3>1. worker[i] \in [next : Nat, end : Nat, state : States]
      BY <1>1
    <3> DEFINE moved == [worker[i] EXCEPT !.next = at + 1]
    <3>2. worker' = [worker EXCEPT ![i] = moved]
      BY <2>1
    <3>3. /\ moved.next = at + 1 /\ moved.end = worker[i].end /\ moved.state = worker[i].state
          /\ moved \in [next : Nat, end : Nat, state : States]
      BY <2>2, <3>1
    <3> HIDE DEF moved
    <3> QED BY <1>1, <3>2, <3>3
  <2>5. SchedulerTypeOK'
    BY <1>1, <2>1, <2>3, <2>4, SMTT(30) DEF SchedulerTypeOK, SchedulerInvariant
  <2>6. ASSUME NEW k \in 0 .. MaxThreads
        PROVE  InChunk(k)'
    <3>1. InChunk(k)
      BY DEF SchedulerInvariant
    <3>2. CASE k = i
      BY <1>3, <1>4, <2>1, <2>2, <2>4, <3>1, <3>2 DEF InChunk, Active
    <3>3. CASE k # i
      BY <1>3, <2>1, <2>4, <3>1, <3>3 DEF InChunk, Active
    <3> QED BY <3>2, <3>3
  <2>7. RunOnce'
    <3> SUFFICES ASSUME NEW j \in 0 .. MaxTotal
                 PROVE  (ranOf[j])' = IF \E k \in 0 .. MaxThreads : Behind(k, j)' THEN 1 ELSE 0
      BY DEF RunOnce
    <3>1. \A k \in 0 .. MaxThreads : k # i => Behind(k, j)' = Behind(k, j)
      BY <1>3, <2>1, <2>4 DEF Behind, Active
    <3>2. j # at => Behind(i, j)' = Behind(i, j)
      BY <1>3, <1>4, <2>1, <2>2, <2>4 DEF Behind, Active
    <3>3. ranOf[j] = IF \E k \in 0 .. MaxThreads : Behind(k, j) THEN 1 ELSE 0
      BY DEF SchedulerInvariant, RunOnce
    <3>4. CASE j # at
      <4>1. ranOf'[j] = ranOf[j]
        BY <1>1, <2>1, <3>4
      <4>2. \A k \in 0 .. MaxThreads : Behind(k, j)' = Behind(k, j)
        BY <3>1, <3>2, <3>4
      <4> QED BY <3>3, <4>1, <4>2
    <3>5. CASE j = at
      <4>1. Behind(i, j)'
        BY <1>3, <1>4, <2>1, <2>2, <2>4, <3>5 DEF Behind, Active
      <4>2. ~Behind(i, j)
        BY <2>2, <3>5 DEF Behind
      <4>3. ASSUME NEW k \in 0 .. MaxThreads, k # i, Behind(k, j)
            PROVE  FALSE
        <5>1. Active(k) /\ StartOf(k) <= j /\ j < EndOf(k)
          <6>1. worker[k].next \in StartOf(k) .. EndOf(k)
            BY <4>3 DEF SchedulerInvariant, InChunk, Behind
          <6> QED BY <1>4, <4>3, <6>1 DEF Behind
        <5> QED BY <2>2, <3>5, <4>3, <5>1, ChunksApart
      <4>4. ranOf[j] = 0
        BY <3>3, <4>2, <4>3
      <4>5. ranOf'[j] = 1
        BY <1>1, <2>1, <3>5, <4>4
      <4> QED BY <4>1, <4>5
    <3> QED BY <3>4, <3>5
  <2>8. InPlace' /\ Forked'
    <3>1. \A k \in 0 .. MaxThreads : Active(k)' = Active(k)
      BY <2>4 DEF Active
    <3>2. \A k \in 1 .. joined : worker'[k].state = worker[k].state
      <4>1. \A k \in 1 .. joined : k \in 0 .. MaxThreads
        BY <1>1
      <4> QED BY <2>4, <4>1
    <3>3. \A k \in 1 .. launched : k \in 0 .. MaxThreads
      BY <1>1
    <3>4. worker'[0].state = worker[0].state /\ Active(0)' = Active(0)
      BY <1>1, <2>4, <3>1
    <3>5. InPlace'
      BY <2>1, <3>4 DEF SchedulerInvariant, InPlace
    <3>6. Begins(launched)' = Begins(launched)
      BY <1>1, <1>3, <2>1
    <3>7. Forked'
      BY <2>1, <3>1, <3>2, <3>3, <3>4, <3>6 DEF SchedulerInvariant, Forked
    <3> QED BY <3>5, <3>7
  <2> QED BY <2>5, <2>6, <2>7, <2>8 DEF SchedulerInvariant
<1>13. ASSUME NEW i \in 0 .. MaxThreads, NEW state \in {"raised", "returned"},
              worker[i].state = "running",
              state = "returned" => worker[i].next >= worker[i].end,
              worker' = [worker EXCEPT ![i].state = state],
              forPc' = IF i = 0 THEN state ELSE forPc,
              UNCHANGED <<threads, total, launched, joined, ranOf>>
       PROVE  SchedulerInvariant'
  <2>1. /\ worker'[i].state = state /\ worker'[i].end = worker[i].end
        /\ worker'[i].next = worker[i].next
        /\ \A k \in 0 .. MaxThreads : k # i => worker'[k] = worker[k]
        /\ worker' \in [0 .. MaxThreads -> [next : Nat, end : Nat, state : States]]
    <3>1. worker[i] \in [next : Nat, end : Nat, state : States]
      BY <1>1
    <3> DEFINE ended == [worker[i] EXCEPT !.state = state]
    <3>2. worker' = [worker EXCEPT ![i] = ended]
      BY <1>13
    <3>3. /\ ended.next = worker[i].next /\ ended.end = worker[i].end /\ ended.state = state
          /\ ended \in [next : Nat, end : Nat, state : States]
      BY <3>1 DEF States
    <3> HIDE DEF ended
    <3> QED BY <1>1, <3>2, <3>3
  <2>2. \A k \in 0 .. MaxThreads :
          Active(k)' = Active(k) /\ worker'[k].next = worker[k].next
    BY <1>13, <2>1 DEF Active
  <2>3. SchedulerTypeOK'
    BY <1>1, <1>13, <2>1 DEF SchedulerTypeOK, SchedulerInvariant
  <2>4. ASSUME NEW k \in 0 .. MaxThreads
        PROVE  InChunk(k)'
    <3>1. InChunk(k)
      BY DEF SchedulerInvariant
    <3>2. CASE k = i
      BY <1>3, <1>4, <1>13, <2>1, <2>2, <3>1, <3>2 DEF InChunk, Active
    <3>3. CASE k # i
      BY <1>3, <1>13, <2>1, <2>2, <3>1, <3>3 DEF InChunk
    <3> QED BY <3>2, <3>3
  <2>5. RunOnce'
    <3>1. \A k \in 0 .. MaxThreads, j \in 0 .. MaxTotal : Behind(k, j)' = Behind(k, j)
      BY <1>3, <1>13, <2>2 DEF Behind
    <3> QED BY <1>13, <3>1 DEF SchedulerInvariant, RunOnce
  <2>6. InPlace' /\ Forked'
    <3>1. CASE i = 0
      <4>1. forPc = "inside" /\ Active(0)
        BY <1>13, <3>1 DEF SchedulerInvariant, InPlace, Active
      <4>2. launched = 0 /\ joined = 0
        BY <1>1, <4>1 DEF SchedulerInvariant, InChunk
      <4>3. forPc' = state /\ worker'[0].state = state /\ Active(0)'
        BY <1>13, <2>1, <3>1 DEF Active
      <4> QED BY <1>13, <4>2, <4>3 DEF InPlace, Forked
    <3>2. CASE i # 0
      <4>1. forPc' = forPc /\ worker'[0] = worker[0] /\ Active(0)' = Active(0)
        BY <1>1, <1>13, <2>1, <2>2, <3>2
      <4>2. \A k \in 1 .. joined : worker'[k].state \in {"returned", "raised"}
        BY <1>1, <1>13, <2>1, SMTT(30) DEF SchedulerInvariant, Forked
      <4>3. \A k \in 1 .. launched : Active(k)'
        BY <1>1, <2>2 DEF SchedulerInvariant, Forked
      <4> QED BY <1>1, <1>3, <1>13, <4>1, <4>2, <4>3 DEF SchedulerInvariant, InPlace, Forked
    <3> QED BY <3>1, <3>2
  <2> QED BY <2>3, <2>4, <2>5, <2>6 DEF SchedulerInvariant
<1>14. ASSUME NEW i \in 0 .. MaxThreads, CallbackRaises(i)
       PROVE  SchedulerInvariant'
  BY <1>13, <1>14 DEF CallbackRaises
<1>15. ASSUME NEW i \in 0 .. MaxThreads, CallbackReturns(i)
       PROVE  SchedulerInvariant'
  BY <1>13, <1>15 DEF CallbackReturns
<1>16. CASE UNCHANGED schedulerVars
  <2>1. InPlace' /\ Forked'
    BY <1>1, <1>3, <1>16 DEF schedulerVars, SchedulerInvariant, InPlace, Forked, Active
  <2> QED BY <1>1, <1>6, <1>16, <2>1 DEF schedulerVars, SchedulerInvariant, SchedulerTypeOK
<1> QED BY <1>5, <1>7, <1>8, <1>9, <1>10, <1>11, <1>12, <1>14, <1>15, <1>16 DEF SchedulerNext

LEMMA SchedulerInvariantSuffices == SchedulerInvariant => IterationsOnce
<1> SUFFICES ASSUME SchedulerInvariant
             PROVE  IterationsOnce
  OBVIOUS
<1>1. /\ threads \in 1 .. MaxThreads /\ total \in 0 .. MaxTotal
      /\ launched \in 0 .. threads /\ joined \in 0 .. launched
      /\ worker \in [0 .. MaxThreads -> [next : Nat, end : Nat, state : States]]
      /\ MaxThreads \in Nat \ {0} /\ MaxTotal \in Nat /\ 0 \in 0 .. MaxThreads
      /\ threads \in Nat \ {0} /\ total \in Nat /\ launched \in Nat /\ joined \in Nat
  BY SchedulerAssumption DEF SchedulerInvariant, SchedulerTypeOK
<1>2. ASSUME NEW i \in 0 .. MaxThreads
      PROVE  StartOf(i) \in Nat /\ EndOf(i) \in Nat /\ EndOf(i) <= total
  <2>1. ChunkSize \in Nat
    <3>1. threads \in Nat \ {0} /\ total \in Nat
      BY <1>1
    <3> QED BY <3>1, RoundedUp DEF ChunkSize
  <2>2. \A k \in Nat : Begins(k) \in Nat
    BY <2>1 DEF Begins
  <2>3. \A k \in Nat : Ends(k) \in Nat /\ Ends(k) <= total
    <3>1. total \in Nat
      BY <1>1
    <3> QED BY <2>1, <2>2, <3>1 DEF Ends
  <2>4. i = 0 \/ i - 1 \in Nat
    BY <1>1
  <2>5. total \in Nat
    BY <1>1
  <2> QED BY <2>2, <2>3, <2>4, <2>5 DEF StartOf, EndOf
<1>3. ASSUME NEW i \in 0 .. MaxThreads, NEW j \in 0 .. MaxTotal, Behind(i, j)
      PROVE  Active(i) /\ StartOf(i) <= j /\ j < EndOf(i)
  <2>1. worker[i].next \in StartOf(i) .. EndOf(i)
    BY <1>3 DEF SchedulerInvariant, InChunk, Behind
  <2> QED BY <1>2, <1>3, <2>1 DEF Behind
<1>4. ASSUME NEW j \in 0 .. MaxTotal
      PROVE  ranOf[j] <= IF j < total THEN 1 ELSE 0
  <2>1. CASE \E i \in 0 .. MaxThreads : Behind(i, j)
    <3>1. j < total
      <4>1. PICK i \in 0 .. MaxThreads : Behind(i, j)
        BY <2>1
      <4>2. j < EndOf(i)
        BY <1>3, <1>4, <4>1
      <4>3. EndOf(i) \in Nat /\ EndOf(i) <= total /\ j \in Nat /\ total \in Nat
        BY <1>1, <1>2, <1>4
      <4> QED
        BY <4>2, <4>3
    <3>2. ranOf[j] = 1
      BY <1>4, <2>1 DEF SchedulerInvariant, RunOnce
    <3> QED BY <3>1, <3>2
  <2>2. CASE ~\E i \in 0 .. MaxThreads : Behind(i, j)
    BY <2>2 DEF SchedulerInvariant, RunOnce
  <2> QED BY <2>1, <2>2
<1>5. ASSUME forPc = "returned"
      PROVE  \A i \in 0 .. MaxThreads : worker[i].state # "running"
  <2>1. worker[0].state # "running"
    BY <1>5 DEF SchedulerInvariant, InPlace
  <2>2. ASSUME NEW i \in 1 .. MaxThreads, worker[i].state = "running"
        PROVE  FALSE
    <3>1. Active(i) /\ i <= launched
      BY <2>2 DEF SchedulerInvariant, InChunk, Active
    <3>2. ~Active(0)
      BY <1>1, <3>1 DEF SchedulerInvariant, InChunk
    <3>3. i \in 1 .. joined
      BY <1>1, <1>5, <3>1, <3>2 DEF SchedulerInvariant, Forked
    <3> QED BY <2>2, <3>3 DEF SchedulerInvariant, Forked
  <2> QED BY <2>1, <2>2
<1>6. ASSUME forPc = "returned", NEW j \in 0 .. total - 1
      PROVE  ranOf[j] = IF Skipped(j) THEN 0 ELSE 1
  <2>1. j \in 0 .. MaxTotal
    BY <1>1
  <2>2. ranOf[j] = IF \E i \in 0 .. MaxThreads : Behind(i, j) THEN 1 ELSE 0
    BY <2>1 DEF SchedulerInvariant, RunOnce
  <2>3. PICK i \in 0 .. MaxThreads : Active(i) /\ StartOf(i) <= j /\ j < EndOf(i)
    <3>1. CASE Active(0)
      <4>1. StartOf(0) <= j /\ j < EndOf(0)
        BY <1>1 DEF StartOf, EndOf
      <4> QED BY <1>1, <3>1, <4>1
    <3>2. CASE ~Active(0)
      <4>1. PICK i \in 1 .. launched : StartOf(i) <= j /\ j < EndOf(i)
        BY <1>6, <3>2, ChunksCover DEF SchedulerInvariant, Forked
      <4> QED BY <1>1, <4>1 DEF SchedulerInvariant, Forked
    <3> QED BY <3>1, <3>2
  <2>4. /\ worker[i].state \in {"returned", "raised"}
        /\ worker[i].next \in StartOf(i) .. EndOf(i) /\ worker[i].end = EndOf(i)
        /\ worker[i].state = "returned" => worker[i].next = EndOf(i)
    <3>1. worker[i].state \in States
      BY <1>1
    <3> QED BY <1>5, <1>6, <2>3, <3>1 DEF SchedulerInvariant, InChunk, Active, States
  <2>5. ASSUME NEW k \in 0 .. MaxThreads, k # i, Active(k)
        PROVE  ~(StartOf(k) <= j /\ j < EndOf(k))
    BY <2>3, <2>5, ChunksApart
  <2>6. CASE j < worker[i].next
    <3>1. Behind(i, j)
      BY <2>3, <2>6 DEF Behind
    <3>2. ASSUME NEW k \in 1 .. launched, worker[k].state = "raised",
                 j \in worker[k].next .. worker[k].end - 1
          PROVE  FALSE
      <4>1. k \in 0 .. MaxThreads /\ Active(k)
        BY <1>1, <3>2 DEF Active
      <4>2. worker[k].end = EndOf(k) /\ worker[k].next \in StartOf(k) .. EndOf(k)
        BY <4>1 DEF SchedulerInvariant, InChunk
      <4>3. StartOf(k) <= j /\ j < EndOf(k)
        BY <1>2, <3>2, <4>1, <4>2
      <4>4. k # i
        BY <1>1, <2>6, <3>2
      <4> QED BY <2>5, <4>1, <4>3, <4>4
    <3>3. ~Skipped(j)
      BY <3>2 DEF Skipped
    <3> QED BY <2>2, <3>1, <3>3
  <2>7. CASE ~(j < worker[i].next)
    <3>1. worker[i].state = "raised"
      BY <2>3, <2>4, <2>7
    <3>2. i \in 1 .. launched
      <4>1. i # 0
        <5>1. i = 0 => worker[0].state = "returned"
          BY <1>6, <2>3 DEF SchedulerInvariant, InPlace
        <5> QED BY <3>1, <5>1
      <4> QED BY <1>1, <2>3, <4>1 DEF SchedulerInvariant, InChunk
    <3>3. j \in worker[i].next .. worker[i].end - 1
      <4>1. /\ worker[i].next \in Int /\ worker[i].end \in Int /\ worker[i].next <= j
            /\ j < worker[i].end
        BY <1>2, <2>1, <2>3, <2>4, <2>7
      <4> QED BY <4>1
    <3>4. Skipped(j)
      BY <3>1, <3>2, <3>3 DEF Skipped
    <3>5. ASSUME NEW k \in 0 .. MaxThreads, Behind(k, j)
          PROVE  FALSE
      <4>1. Active(k) /\ StartOf(k) <= j /\ j < EndOf(k)
        BY <1>3, <2>1, <3>5
      <4>2. k # i
        BY <2>7, <3>5 DEF Behind
      <4> QED BY <2>5, <4>1, <4>2
    <3> QED BY <2>2, <3>4, <3>5
  <2> QED BY <2>6, <2>7
<1> QED BY <1>4, <1>5, <1>6 DEF IterationsOnce

(* parallel_for runs no iteration twice and none beyond the total, and     *)
(* leaves out only what an exception in the iteration's own chunk cut off, *)
(* for any number of threads and iterations.                               *)
THEOREM IterationsAlwaysOnce == SchedulerSpec => []IterationsOnce
BY SchedulerInitially, SchedulerStep, SchedulerInvariantSuffices, PTL DEF SchedulerSpec

(* JIT *)

(* What holds of the data of a function and a call.                        *)

LEMMA SignatureKnown ==
  ASSUME NEW a \in JitArguments
  PROVE  /\ Signature(a.args) \in Signatures
         /\ Len(Signature(a.args)) = Len(a.args)
         /\ a.args \in Seq(Numbers)
         /\ a.keyword \in Int \cup {Nothing}
<1>1. /\ a.args \in Seq(Numbers)
      /\ a.keyword \in Int \cup {Nothing}
  BY JitAssumption
<1>2. Signature(a.args) \in Signatures
  BY DEF Signatures
<1>3. Len(Signature(a.args)) = Len(a.args)
  <2>1. DOMAIN a.args = 1 .. Len(a.args) /\ Len(a.args) \in Nat
    BY <1>1
  <2>2. DOMAIN Signature(a.args) = 1 .. Len(a.args)
    BY <2>1 DEF Signature
  <2>3. Signature(a.args) \in Seq({"int", "other"})
    <3>1. \A i \in 1 .. Len(a.args) : a.args[i].type \in {"int", "other"}
      <4> SUFFICES ASSUME NEW i \in 1 .. Len(a.args)
                   PROVE  a.args[i].type \in {"int", "other"}
        OBVIOUS
      <4> DEFINE args == a.args
      <4>1. args \in Seq(Numbers)
        BY <1>1
      <4>2. args[i] \in Numbers
        BY <4>1
      <4> QED BY <4>2 DEF Numbers
    <3>2. Signature(a.args) \in [1 .. Len(a.args) -> {"int", "other"}]
      BY <2>1, <3>1 DEF Signature
    <3>3. \A n \in Nat : \A s \in [1 .. n -> {"int", "other"}] : s \in Seq({"int", "other"})
      OBVIOUS
    <3> QED BY <2>1, <3>2, <3>3
  <2> QED BY <2>1, <2>2, <2>3
<1> QED BY <1>1, <1>2, <1>3

(* A call that could be traced has no more arguments than parameters.      *)
LEMMA NoSurplus ==
  ASSUME NEW f \in Programs, NEW args \in Seq(Numbers), ~TraceRaises(f, Len(args))
  PROVE  ~Surplus(f, args, Nothing)
<1>1. f.arity \in Nat /\ Len(args) \in Nat
  BY JitAssumption
<1>2. ~(Len(args) > f.arity)
  BY DEF TraceRaises
<1> QED
  BY <1>1, <1>2 DEF Surplus

(* The traced arm of a function that could be traced is the arm Python     *)
(* takes, unless numbers were compared for equality.                       *)
LEMMA ArmTaken ==
  ASSUME NEW f \in Programs, NEW args \in Seq(Numbers),
         ~TraceRaises(f, Len(args)), Understood(f, Len(args))
  PROVE  TracedArm(f, Len(args))
           = IF Compared(f, Bound(f, args, Nothing)) THEN f.yes ELSE f.no
<1> DEFINE n == Len(args)
           bound == Bound(f, args, Nothing)
           untraced == [i \in 1 .. f.arity |-> f.default]
<1>1. n \in Nat
  OBVIOUS
<1>2. /\ f.arity \in Nat
      /\ f.test.op \in {"always", "less", "equal"}
      /\ f.test.left \in Terms /\ f.test.right \in Terms
  BY JitAssumption DEF Expressions
<1>3. \A x \in {f.test.left, f.test.right} : x.is = "param" => x.n \in 1 .. f.arity
  BY JitAssumption
<1>4. CASE f.test.op = "always"
  <2>1. Compared(f, bound) = TRUE
    BY <1>4 DEF Compared
  <2>2. TracedArm(f, n) = f.yes
    BY <1>4, <2>1 DEF TracedArm, Compared
  <2> QED BY <2>1, <2>2
<1>5. CASE f.test.op # "always"
  <2>1. ~AnyTraced(f.test, n)
    BY <1>2, <1>5 DEF TraceRaises, Understood
  <2>2. \A x \in {f.test.left, f.test.right} : Term(x, bound) = Term(x, untraced)
    <3> SUFFICES ASSUME NEW x \in {f.test.left, f.test.right}
                 PROVE  Term(x, bound) = Term(x, untraced)
      OBVIOUS
    <3>1. CASE x.is = "param"
      <4>1. x.n \in 1 .. f.arity /\ ~(x.n <= n)
        BY <1>3, <2>1, <3>1 DEF AnyTraced, Traced
      <4>2. bound[x.n] = f.default /\ untraced[x.n] = f.default
        BY <4>1, NoSurplus DEF Bound
      <4> QED BY <3>1, <4>2 DEF Term
    <3>2. CASE x.is # "param"
      BY <3>2 DEF Term
    <3> QED BY <3>1, <3>2
  <2>3. Compared(f, bound) <=> Compared(f, untraced)
    BY <1>2, <1>5, <2>2 DEF Compared
  <2>4. TracedArm(f, n) = IF Compared(f, untraced) THEN f.yes ELSE f.no
    BY <1>5, <2>1 DEF TracedArm, AnyTraced
  <2> QED BY <2>3, <2>4
<1> QED BY <1>4, <1>5

(* Code answers what Python does, up to the width of its integers.         *)
LEMMA CodeAgrees ==
  ASSUME function \in Programs, NEW args \in Seq(Numbers),
         ~TraceRaises(function, Len(args)), Understood(function, Len(args)),
         NEW said \in CodeAnswers(Code(function, Len(args)), args)
  PROVE  LET want == Called(function, Bound(function, args, Nothing))
         IN  want # TypeError /\ said = Machine(want)
<1> DEFINE n == Len(args)
           bound == Bound(function, args, Nothing)
           arm == TracedArm(function, n)
<1>1. /\ n \in Nat /\ SubSeq(args, 1, n) = args
  OBVIOUS
<1>2. arm = IF Compared(function, bound) THEN function.yes ELSE function.no
  BY ArmTaken
<1>3. /\ arm \in Expressions(Operations)
      /\ \A x \in {arm.left, arm.right} : x.is = "param" => x.n \in 1 .. function.arity
  <2>1. /\ function.yes \in Expressions(Operations) /\ function.no \in Expressions(Operations)
        /\ \A e \in {function.yes, function.no} : \A x \in {e.left, e.right} :
             x.is = "param" => x.n \in 1 .. function.arity
    BY JitAssumption
  <2> QED BY <1>2, <2>1
<1>4. DOMAIN bound = 1 .. function.arity /\ \A i \in 1 .. function.arity : bound[i] \in Int
  <2>1. function.arity \in Nat /\ function.default \in Int \cup {Nothing}
    BY JitAssumption
  <2>2. ASSUME NEW i \in 1 .. n
        PROVE  args[i].value \in Int
    <3>1. args[i] \in Numbers
      OBVIOUS
    <3> QED BY <3>1 DEF Numbers
  <2>3. n < function.arity => function.default \in Int
    BY <2>1 DEF TraceRaises
  <2>4. ASSUME NEW i \in 1 .. function.arity
        PROVE  bound[i] \in Int
    <3>1. CASE i <= n
      <4>1. bound[i] = args[i].value
        BY <3>1, NoSurplus DEF Bound
      <4>2. i \in 1 .. n
        BY <1>1, <2>1, <3>1
      <4> QED BY <2>2, <4>1, <4>2
    <3>2. CASE ~(i <= n)
      <4>1. bound[i] = function.default
        BY <3>2, NoSurplus DEF Bound
      <4>2. n < function.arity
        BY <1>1, <2>1, <3>2
      <4> QED BY <2>3, <4>1, <4>2
    <3> QED BY <3>1, <3>2
  <2>5. DOMAIN bound = 1 .. function.arity
    BY DEF Bound
  <2> QED BY <2>4, <2>5
<1>5. Called(function, bound) = Evaluated(arm, bound)
  BY <1>2, <1>4, JitAssumption DEF Called
<1>6. Evaluated(arm, bound) \in Int
  <2>1. \A x \in {arm.left, arm.right} : Term(x, bound) \in Int
    BY <1>3, <1>4 DEF Term, Terms, Expressions
  <2>2. arm.op \in {"add", "sub", "mul", "left"}
    BY <1>1, <1>3 DEF TraceRaises, Understood, ReturnsTraced, Records, Expressions, Operations
  <2>3. \A x, y \in Int : \A op \in {"add", "sub", "mul", "left"} : Operate(op, x, y) \in Int
    BY DEF Operate
  <2> QED BY <2>1, <2>2, <2>3 DEF Evaluated
<1>7. said = Machine(Evaluated(arm, bound))
  <2>1. /\ Code(function, n).arm = arm /\ Code(function, n).takes = n
        /\ Code(function, n).valued = ReturnsTraced(function, n)
    BY DEF Code
  <2>2. ReturnsTraced(function, n)
    BY DEF Understood
  <2>3. ~(Len(args) < Code(function, n).takes)
    BY <1>1, <2>1
  <2>4. CodeAnswers(Code(function, n), args) = {Machine(Evaluated(arm, bound))}
    BY <1>1, <2>1, <2>2, <2>3 DEF CodeAnswers
  <2> QED BY <2>4
<1> QED BY <1>5, <1>6, <1>7, JitAssumption

(* The code of a function is never the mark of there being none.           *)
LEMMA CodeIsSomething ==
  ASSUME function \in Programs, NEW n \in Nat
  PROVE  Code(function, n) # Nothing
<1>1. /\ function.yes \in Expressions(Operations) /\ function.no \in Expressions(Operations)
  BY JitAssumption
<1>2. TracedArm(function, n) \in Expressions(Operations)
  BY <1>1 DEF TracedArm
<1>3. ReturnsTraced(function, n) \in BOOLEAN
  BY DEF ReturnsTraced, AnyTraced, Traced
<1>4. Code(function, n) \in Codes
  BY <1>2, <1>3 DEF Code, Codes
<1> QED BY <1>4, JitAssumption

-----------------------------------------------------------------------------
(* The invariant.                                                          *)

Shaped(c) == c = [pc |-> c.pc, asked |-> c.asked, count |-> c.count,
                  answer |-> c.answer, by |-> c.by, cleared |-> c.cleared]

(* JitAnswersAsPython of one call.                                         *)
Answered(c) ==
  LET want == Called(function, Bound(function, c.asked.args, c.asked.keyword))
  IN  /\ c.by = "python" => c.answer = want
      /\ c.by = "KeyError" => c.cleared
      /\ c.by = "code" /\ Understood(function, Len(c.asked.args)) /\ c.asked.keyword = Nothing
           => want # TypeError /\ c.answer = Machine(want)

(* A call that found an entry still has it unless the cache was cleared,   *)
(* one that compiled could, and one that returned was answered.            *)
CallKnown(c) ==
  \/ c = Outside
  \/ /\ Shaped(c) /\ c.asked \in JitArguments
     /\ c.pc = "compiled" => ~TraceRaises(function, Len(c.asked.args))
     /\ c.pc = "cached" => codeFor[Signature(c.asked.args)] # Nothing \/ c.cleared
     /\ c.pc = "returned" => Answered(c)

(* An entry is the function's own code for that many arguments.            *)
CacheOwn ==
  \A s \in Signatures : codeFor[s] # Nothing =>
    codeFor[s] = Code(function, Len(s)) /\ ~TraceRaises(function, Len(s))

JitInvariant ==
  /\ function \in Programs
  /\ codeFor = [s \in Signatures |-> codeFor[s]]
  /\ CacheOwn
  /\ jitCall = [t \in JitCallers |-> jitCall[t]]
  /\ \A t \in JitCallers : CallKnown(jitCall[t])

LEMMA JitInitially == JitInit => JitInvariant
BY DEF JitInit, JitInvariant, CacheOwn, CallKnown

OnlyMoves(t) == jitCall' = [jitCall EXCEPT ![t] = jitCall'[t]]

(* A step of one thread that takes no entry away disturbs no other call.   *)
LEMMA OthersKnown ==
  ASSUME JitInvariant, NEW t \in JitCallers,
         function' = function,
         \A s \in Signatures : codeFor[s] # Nothing => codeFor'[s] # Nothing,
         OnlyMoves(t), CallKnown(jitCall[t])'
  PROVE  /\ jitCall' = [u \in JitCallers |-> jitCall'[u]]
         /\ \A u \in JitCallers : CallKnown(jitCall[u])'
<1>1. /\ jitCall' = [u \in JitCallers |-> jitCall'[u]]
      /\ \A u \in JitCallers \ {t} : jitCall'[u] = jitCall[u]
  BY DEF JitInvariant, OnlyMoves
<1>2. ASSUME NEW u \in JitCallers \ {t}
      PROVE  CallKnown(jitCall[u])'
  <2>1. CallKnown(jitCall[u]) /\ jitCall'[u] = jitCall[u]
    BY <1>1 DEF JitInvariant
  <2>2. CASE jitCall[u] = Outside
    BY <2>1, <2>2 DEF CallKnown, Outside
  <2>3. CASE jitCall[u] # Outside
    <3>1. Signature(jitCall[u].asked.args) \in Signatures
      BY <2>1, <2>3, SignatureKnown DEF CallKnown
    <3>2. Answered(jitCall[u]) => Answered(jitCall[u])'
      BY <2>1 DEF Answered, Called, Understood
    <3> QED BY <2>1, <2>3, <3>1, <3>2 DEF CallKnown, Shaped
  <2> QED BY <2>2, <2>3
<1> QED BY <1>1, <1>2

(* What a call found in the cache answers it as Python would.              *)
LEMMA CachedAnswers ==
  ASSUME JitInvariant, NEW a \in JitArguments,
         codeFor[Signature(a.args)] # Nothing,
         NEW said \in CodeAnswers(codeFor[Signature(a.args)], a.args),
         a.keyword = Nothing, Understood(function, Len(a.args))
  PROVE  LET want == Called(function, Bound(function, a.args, a.keyword))
         IN  want # TypeError /\ said = Machine(want)
<1>1. /\ codeFor[Signature(a.args)] = Code(function, Len(a.args))
      /\ ~TraceRaises(function, Len(a.args))
      /\ a.args \in Seq(Numbers)
      /\ function \in Programs
  BY SignatureKnown DEF JitInvariant, CacheOwn
<1> DEFINE args == a.args
<1>2. args \in Seq(Numbers)
  BY <1>1
<1>3. said \in CodeAnswers(Code(function, Len(args)), args)
  BY <1>1
<1>4. LET want == Called(function, Bound(function, args, Nothing))
      IN  want # TypeError /\ said = Machine(want)
  <2> HIDE DEF args
  <2> QED BY <1>1, <1>2, <1>3, CodeAgrees DEF args
<1> QED BY <1>4

(* What is new of a call that returned.                                    *)
Returns(t, said, by) ==
  /\ jitCall'[t].answer = said /\ jitCall'[t].by = by
  /\ jitCall'[t].asked = jitCall[t].asked /\ jitCall'[t].cleared = jitCall[t].cleared

LEMMA JitStep == JitInvariant /\ [JitNext]_jitVars => JitInvariant'
<1> SUFFICES ASSUME JitInvariant, [JitNext]_jitVars
             PROVE  JitInvariant'
  OBVIOUS
<1>1. ASSUME NEW t \in JitCallers, NEW a \in JitArguments, CallJit(t, a)
      PROVE  JitInvariant'
  <2> DEFINE c == [pc |-> "counting", asked |-> a, count |-> callCount, answer |-> Nothing,
                   by |-> "nobody", cleared |-> FALSE]
  <2>1. /\ OnlyMoves(t) /\ jitCall'[t] = c
        /\ UNCHANGED <<function, codeFor>>
    BY <1>1 DEF CallJit, JitInvariant, OnlyMoves
  <2>2. CallKnown(jitCall[t])'
    BY <2>1 DEF CallKnown, Shaped
  <2> QED BY <2>1, <2>2, OthersKnown DEF JitInvariant, CacheOwn
<1>2. ASSUME NEW t \in JitCallers, NEW pc \in {"looking", "missed", "compiling", "python"},
             jitCall[t] # Outside, Then(t, pc), UNCHANGED <<function, codeFor>>
      PROVE  JitInvariant'
  <2>1. OnlyMoves(t) /\ jitCall'[t] = [jitCall[t] EXCEPT !.pc = pc]
    BY <1>2 DEF Then, JitInvariant, OnlyMoves
  <2>2. CallKnown(jitCall[t])'
    <3>1. Shaped(jitCall[t]) /\ jitCall[t].asked \in JitArguments
      BY <1>2 DEF CallKnown, JitInvariant
    <3>2. Shaped(jitCall[t])' /\ jitCall'[t].pc = pc /\ jitCall'[t].asked = jitCall[t].asked
      BY <2>1, <3>1 DEF Shaped
    <3> QED BY <3>1, <3>2 DEF CallKnown
  <2> QED BY <1>2, <2>1, <2>2, OthersKnown DEF JitInvariant, CacheOwn
<1>3. ASSUME NEW t \in JitCallers, jitCall[t].pc # "outside"
      PROVE  /\ jitCall[t] # Outside /\ Shaped(jitCall[t])
             /\ jitCall[t].asked \in JitArguments
             /\ CallKnown(jitCall[t])
  BY <1>3 DEF JitInvariant, CallKnown, Outside
<1>4. ASSUME NEW t \in JitCallers, CountCall(t)
      PROVE  JitInvariant'
  BY <1>2, <1>3, <1>4 DEF CountCall, InCall
<1>5. ASSUME NEW t \in JitCallers, LookUp(t)
      PROVE  JitInvariant'
  <2>1. CASE codeFor[Signature(Args(t))] = Nothing
    BY <1>2, <1>3, <1>5, <2>1 DEF LookUp, InCall
  <2>2. CASE codeFor[Signature(Args(t))] # Nothing
    <3>1. /\ OnlyMoves(t) /\ jitCall'[t] = [jitCall[t] EXCEPT !.pc = "cached"]
          /\ UNCHANGED <<function, codeFor>>
      BY <1>5, <2>2 DEF LookUp, Then, JitInvariant, OnlyMoves
    <3>2. Shaped(jitCall[t]) /\ jitCall[t].asked \in JitArguments
      BY <1>3, <1>5 DEF LookUp, InCall
    <3>3. /\ Shaped(jitCall[t])' /\ jitCall'[t].pc = "cached"
          /\ jitCall'[t].asked = jitCall[t].asked
      BY <3>1, <3>2 DEF Shaped
    <3>4. CallKnown(jitCall[t])'
      BY <2>2, <3>1, <3>2, <3>3 DEF CallKnown, Args
    <3> QED BY <3>1, <3>4, OthersKnown DEF JitInvariant, CacheOwn
  <2> QED BY <2>1, <2>2
<1>6. ASSUME NEW t \in JitCallers, NEW said, NEW by, jitCall[t] # Outside,
             Finish(t, said, by),
             Returns(t, said, by) => Answered(jitCall[t])',
             function' = function, codeFor' = [s \in Signatures |-> codeFor'[s]],
             CacheOwn',
             \A s \in Signatures : codeFor[s] # Nothing => codeFor'[s] # Nothing
      PROVE  JitInvariant'
  <2>1. Shaped(jitCall[t]) /\ jitCall[t].asked \in JitArguments
    BY <1>6 DEF JitInvariant, CallKnown
  <2>2. /\ OnlyMoves(t)
        /\ jitCall'[t] = [jitCall[t] EXCEPT !.pc = "returned", !.answer = said, !.by = by]
    BY <1>6 DEF Finish, OnlyMoves, JitInvariant
  <2>3. Shaped(jitCall[t])' /\ jitCall'[t].pc = "returned" /\ Returns(t, said, by)
    BY <2>1, <2>2 DEF Shaped, Returns
  <2>4. CallKnown(jitCall[t])'
    BY <1>6, <2>1, <2>3 DEF CallKnown, Returns
  <2> QED BY <1>6, <2>2, <2>4, OthersKnown DEF JitInvariant
<1>7. ASSUME NEW t \in JitCallers, RunCached(t)
      PROVE  JitInvariant'
  <2> DEFINE code == codeFor[Signature(Args(t))]
  <2>1. /\ jitCall[t] # Outside /\ Shaped(jitCall[t]) /\ jitCall[t].asked \in JitArguments
        /\ code # Nothing \/ jitCall[t].cleared
        /\ UNCHANGED <<function, codeFor>>
    BY <1>3, <1>7 DEF RunCached, InCall, CallKnown, Args
  <2>2. CASE code = Nothing
    <3>1. Finish(t, Nothing, "KeyError")
      BY <1>7, <2>2 DEF RunCached
    <3>2. Returns(t, Nothing, "KeyError") => Answered(jitCall[t])'
      BY <2>1, <2>2 DEF Answered, Returns
    <3> QED BY <1>6, <2>1, <3>1, <3>2 DEF JitInvariant, CacheOwn
  <2>3. CASE code # Nothing
    <3>1. PICK said \in CodeAnswers(code, Args(t)) : Finish(t, said, "code")
      BY <1>7, <2>3 DEF RunCached
    <3>2. Returns(t, said, "code") => Answered(jitCall[t])'
      <4> DEFINE want == Called(function, Bound(function, Args(t), Keyword(t)))
      <4>1. Understood(function, Len(Args(t))) /\ Keyword(t) = Nothing
              => want # TypeError /\ said = Machine(want)
        BY <2>1, <2>3, <3>1, CachedAnswers DEF Args, Keyword
      <4> QED BY <2>1, <4>1 DEF Answered, Returns, Args, Keyword
    <3> QED BY <1>6, <2>1, <3>1, <3>2 DEF JitInvariant, CacheOwn
  <2> QED BY <2>2, <2>3
<1>8. ASSUME NEW t \in JitCallers, CheckThreshold(t)
      PROVE  JitInvariant'
  BY <1>2, <1>3, <1>8 DEF CheckThreshold, InCall
<1>9. ASSUME NEW t \in JitCallers, TryCompile(t)
      PROVE  JitInvariant'
  <2>1. CASE Then(t, "python")
    BY <1>2, <1>3, <1>9, <2>1 DEF TryCompile, InCall
  <2>2. CASE ~Then(t, "python")
    <3>1. /\ OnlyMoves(t) /\ jitCall'[t] = [jitCall[t] EXCEPT !.pc = "compiled"]
          /\ ~TraceRaises(function, Len(jitCall[t].asked.args))
          /\ UNCHANGED <<function, codeFor>>
      BY <1>9, <2>2 DEF TryCompile, Then, Args, JitInvariant, OnlyMoves
    <3>2. Shaped(jitCall[t]) /\ jitCall[t].asked \in JitArguments
      BY <1>3, <1>9 DEF TryCompile, InCall
    <3>3. /\ Shaped(jitCall[t])' /\ jitCall'[t].pc = "compiled"
          /\ jitCall'[t].asked = jitCall[t].asked
      BY <3>1, <3>2 DEF Shaped
    <3>4. CallKnown(jitCall[t])'
      BY <3>1, <3>2, <3>3 DEF CallKnown
    <3> QED BY <3>1, <3>4, OthersKnown DEF JitInvariant, CacheOwn
  <2> QED BY <2>1, <2>2
<1>10. ASSUME NEW t \in JitCallers, StoreAndRun(t)
       PROVE  JitInvariant'
  <2> DEFINE args == jitCall[t].asked.args
             code == Code(function, Len(args))
  <2>1. /\ jitCall[t] # Outside /\ Shaped(jitCall[t]) /\ jitCall[t].asked \in JitArguments
        /\ ~TraceRaises(function, Len(args))
        /\ function' = function
        /\ codeFor' = [codeFor EXCEPT ![Signature(args)] = code]
        /\ function \in Programs
    BY <1>3, <1>10 DEF StoreAndRun, InCall, CallKnown, Args, JitInvariant
  <2>2. PICK said \in CodeAnswers(code, args) : Finish(t, said, "code")
    BY <1>10 DEF StoreAndRun, Args
  <2>3. /\ Signature(args) \in Signatures /\ Len(Signature(args)) = Len(args)
        /\ Len(args) \in Nat /\ code # Nothing
    BY <2>1, SignatureKnown, CodeIsSomething
  <2>4. /\ codeFor' = [s \in Signatures |-> codeFor'[s]]
        /\ \A s \in Signatures : codeFor[s] # Nothing => codeFor'[s] # Nothing
        /\ CacheOwn'
    <3>1. /\ codeFor'[Signature(args)] = code
          /\ \A s \in Signatures \ {Signature(args)} : codeFor'[s] = codeFor[s]
          /\ codeFor' = [s \in Signatures |-> codeFor'[s]]
      BY <2>1, <2>3 DEF JitInvariant
    <3>2. code = Code(function, Len(Signature(args))) /\ ~TraceRaises(function, Len(Signature(args)))
      BY <2>1, <2>3
    <3> HIDE DEF code
    <3> QED BY <2>1, <2>3, <3>1, <3>2 DEF JitInvariant, CacheOwn
  <2>5. Returns(t, said, "code") => Answered(jitCall[t])'
    <3> DEFINE what == jitCall[t].asked
               want == Called(function, Bound(function, args, what.keyword))
    <3>1. Understood(function, Len(args)) /\ what.keyword = Nothing
            => want # TypeError /\ said = Machine(want)
      <4>1. codeFor'[Signature(args)] = code
        BY <2>1, <2>3 DEF JitInvariant
      <4>2. args \in Seq(Numbers)
        BY <2>1, SignatureKnown
      <4>3. said \in CodeAnswers(Code(function, Len(args)), args)
        BY <2>2
      <4> HIDE DEF args
      <4> QED BY <2>1, <4>2, <4>3, CodeAgrees
    <3> QED BY <2>1, <3>1 DEF Answered, Returns
  <2> QED BY <1>6, <2>1, <2>2, <2>4, <2>5
<1>11. ASSUME NEW t \in JitCallers, RunPython(t)
       PROVE  JitInvariant'
  <2> DEFINE said == Called(function, Bindings(t))
  <2>1. /\ jitCall[t] # Outside /\ Shaped(jitCall[t])
        /\ Finish(t, said, "python") /\ UNCHANGED <<function, codeFor>>
    BY <1>3, <1>11 DEF RunPython, InCall
  <2>2. said = Called(function, Bound(function, jitCall[t].asked.args, jitCall[t].asked.keyword))
    BY DEF Bindings, Args, Keyword
  <2> HIDE DEF said
  <2>3. Returns(t, said, "python") => Answered(jitCall[t])'
    BY <2>1, <2>2 DEF Answered, Returns
  <2> QED BY <1>6, <2>1, <2>3 DEF JitInvariant, CacheOwn
<1>12. ASSUME Invalidate
       PROVE  JitInvariant'
  <2>1. /\ codeFor' = [s \in Signatures |-> Nothing] /\ function' = function
        /\ jitCall' = [t \in JitCallers |->
             IF InCall(t, "cached") THEN [jitCall[t] EXCEPT !.cleared = TRUE] ELSE jitCall[t]]
    BY <1>12 DEF Invalidate
  <2>2. ASSUME NEW t \in JitCallers
        PROVE  CallKnown(jitCall[t])'
    <3>1. CallKnown(jitCall[t])
      BY DEF JitInvariant
    <3>2. CASE InCall(t, "cached")
      BY <2>1, <3>1, <3>2 DEF InCall, CallKnown, Shaped, Outside
    <3>3. CASE ~InCall(t, "cached")
      <4>1. jitCall'[t] = jitCall[t]
        BY <2>1, <3>3
      <4>2. Answered(jitCall[t]) => Answered(jitCall[t])'
        BY <2>1, <4>1 DEF Answered
      <4> QED BY <2>1, <3>1, <3>3, <4>1, <4>2 DEF InCall, CallKnown, Shaped, Outside
    <3> QED BY <3>2, <3>3
  <2> QED BY <2>1, <2>2 DEF JitInvariant, CacheOwn
<1>13. CASE UNCHANGED jitVars
  BY <1>13 DEF jitVars, JitInvariant, CacheOwn, CallKnown, Answered, Shaped
<1> QED BY <1>1, <1>4, <1>5, <1>7, <1>8, <1>9, <1>10, <1>11, <1>12, <1>13 DEF JitNext

(* A call answers what Python would (up to the width of a compiled         *)
(* integer when code ran), however calls of other threads compile, fill    *)
(* the cache and clear it in between.                                      *)
THEOREM JitAlwaysAnswersAsPython == JitSpec => []JitAnswersAsPython
<1>1. JitInvariant => JitAnswersAsPython
  BY DEF JitInvariant, CallKnown, Answered, JitAnswersAsPython, InCall, Outside, Bindings,
         Args, Keyword
<1> QED BY JitInitially, JitStep, <1>1, PTL DEF JitSpec

(* SAFETY CHECKS *)

(* Half of the words are negative.                                         *)
LEMMA WordsOfWidth ==
  /\ MaxInt + 1 \in Nat \ {0}
  /\ MinInt = -(MaxInt + 1)
  /\ 2 ^ Width = 2 * (MaxInt + 1)
<1> DEFINE half == 2 ^ (Width - 1)
           whole == 2 ^ Width
<1>1. Width - 1 \in Nat /\ Width = (Width - 1) + 1
  BY SafetyAssumption
<1>2. half \in Nat \ {0}
  BY <1>1, PowerPositive
<1>3. whole = 2 * half
  BY <1>1, PowerDoubles
<1>4. MaxInt = half - 1 /\ MinInt = -half
  BY DEF MaxInt, MinInt
<1> HIDE DEF half, whole
<1>5. MaxInt + 1 = half
  BY <1>2, <1>4
<1>6. whole = 2 * (MaxInt + 1)
  BY <1>3, <1>5
<1> QED
  BY <1>2, <1>4, <1>5, <1>6 DEF whole

(* The bounds of words.                                                    *)
LEMMA WordBounds ==
  \E n \in Nat \ {0} : /\ n = MaxInt + 1 /\ MaxInt = n - 1 /\ MinInt = -n
                       /\ 2 ^ Width = 2 * n /\ Words = -n .. n - 1
<1> DEFINE n == MaxInt + 1
<1>1. n \in Nat \ {0} /\ MinInt = -n /\ 2 ^ Width = 2 * n
  BY WordsOfWidth
<1>2. MaxInt \in Int
  <2> DEFINE half == 2 ^ (Width - 1)
  <2>1. half \in Nat
    BY PowerPositive, SafetyAssumption
  <2> HIDE DEF half
  <2> QED
    BY <2>1 DEF MaxInt, half
<1>3. MaxInt = n - 1
  BY <1>2
<1> QED
  BY <1>1, <1>3 DEF Words

(* Wrapping gives the word that differs by a multiple of the number of     *)
(* words.                                                                  *)
LEMMA WrapCongruent ==
  ASSUME NEW x \in Int
  PROVE  /\ Wrap(x) \in Words
         /\ \E k \in Int : x = Wrap(x) + (2 * (MaxInt + 1)) * k
<1>1. PICK n \in Nat \ {0} : /\ n = MaxInt + 1 /\ MaxInt = n - 1 /\ MinInt = -n
                              /\ 2 ^ Width = 2 * n /\ Words = -n .. n - 1
  BY WordBounds
<1>2. PICK q \in Int, r \in 0 .. 2 * n - 1 : r = x % (2 * n) /\ x = (2 * n) * q + r
  <2>1. 2 * n \in Nat \ {0}
    OBVIOUS
  <2> QED
    BY <2>1, DivMod
<1>3. Wrap(x) = IF r > n - 1 THEN r - 2 * n ELSE r
  BY <1>1, <1>2 DEF Wrap
<1>4. Words = -n .. n - 1
  BY <1>1
<1>5. CASE r > n - 1
  <2>1. Wrap(x) = r - 2 * n /\ r - 2 * n \in -n .. n - 1
    BY <1>3, <1>5
  <2>2. x = (r - 2 * n) + (2 * n) * (q + 1)
    BY <1>2
  <2> QED
    BY <1>1, <1>4, <2>1, <2>2
<1>6. CASE ~ (r > n - 1)
  <2>1. Wrap(x) = r /\ r \in -n .. n - 1
    BY <1>3, <1>6
  <2>2. x = r + (2 * n) * q
    BY <1>2
  <2> QED
    BY <1>1, <1>4, <2>1, <2>2
<1> QED
  BY <1>5, <1>6

(* Words that differ by such a multiple are equal.                         *)
LEMMA CongruentWords ==
  ASSUME NEW n \in Nat \ {0}, NEW x \in -n .. n - 1, NEW y \in -n .. n - 1, NEW k \in Int,
         x = y + (2 * n) * k
  PROVE  x = y
<1>1. (2 * n) * k = x - y
  OBVIOUS
<1>2. -(2 * n) < (2 * n) * k /\ (2 * n) * k < 2 * n
  BY <1>1
<1>3. k = 0
  BY <1>2, SmallMultiple
<1> QED
  BY <1>3

(* A word is left as it is.                                                *)
LEMMA WrapOfWord ==
  ASSUME NEW x \in Words
  PROVE  Wrap(x) = x
<1>1. PICK n \in Nat \ {0} : n = MaxInt + 1 /\ Words = -n .. n - 1
  BY WordBounds
<1>2. PICK k \in Int : Wrap(x) \in Words /\ x = Wrap(x) + (2 * n) * k
  BY <1>1, WrapCongruent
<1> QED
  BY <1>1, <1>2, CongruentWords

(* The quotient cut towards zero is off by less than one.                  *)
LEMMA CutIsNear ==
  ASSUME NEW a \in Int, NEW b \in Int, b # 0
  PROVE  /\ Cut(a, b) \in Int
         /\ Magnitude(a - b * Cut(a, b)) < Magnitude(b)
<1> DEFINE m == Magnitude(a)
           n == Magnitude(b)
<1>1. m \in Nat /\ n \in Nat \ {0}
  BY DEF Magnitude
<1>2. PICK q \in Int, r \in 0 .. n - 1 : q = m \div n /\ m = n * q + r
  <2> HIDE DEF m, n
  <2>1. m \div n \in Int /\ m % n \in 0 .. n - 1 /\ m = n * (m \div n) + (m % n)
    BY <1>1, DivMod
  <2> QED
    BY <2>1
<1>a. PICK z \in Int : z = b * q /\ (-b) * q = -z /\ b * (-q) = -z
  <2>1. \A x, y \in Int : (-x) * y = -(x * y) /\ x * (-y) = -(x * y) /\ x * y \in Int
    OBVIOUS
  <2> QED
    BY <1>2, <2>1
<1>3. Cut(a, b) = IF (a < 0) = (b < 0) THEN q ELSE -q
  BY <1>2 DEF Cut
<1>4. CASE a < 0 /\ b < 0
  <2>1. m = -a /\ n = -b /\ Cut(a, b) = q
    BY <1>3, <1>4 DEF Magnitude
  <2>2. m = -z + r
    BY <1>2, <1>a, <2>1
  <2>3. a - z = -r
    BY <2>1, <2>2
  <2>4. a - b * q = -r
    BY <1>a, <2>3
  <2> QED
    BY <1>2, <2>1, <2>4 DEF Magnitude
<1>5. CASE a < 0 /\ ~ (b < 0)
  <2>1. m = -a /\ n = b /\ Cut(a, b) = -q
    BY <1>3, <1>5 DEF Magnitude
  <2>2. m = z + r
    BY <1>2, <1>a, <2>1
  <2>3. a - (-z) = -r
    BY <2>1, <2>2
  <2>4. a - b * (-q) = -r
    BY <1>a, <2>3
  <2> QED
    BY <1>2, <2>1, <2>4 DEF Magnitude
<1>6. CASE ~ (a < 0) /\ b < 0
  <2>1. m = a /\ n = -b /\ Cut(a, b) = -q
    BY <1>3, <1>6 DEF Magnitude
  <2>2. m = -z + r
    BY <1>2, <1>a, <2>1
  <2>3. a - (-z) = r
    BY <2>1, <2>2
  <2>4. a - b * (-q) = r
    BY <1>a, <2>3
  <2> QED
    BY <1>2, <2>1, <2>4 DEF Magnitude
<1>7. CASE ~ (a < 0) /\ ~ (b < 0)
  <2>1. m = a /\ n = b /\ Cut(a, b) = q
    BY <1>3, <1>7 DEF Magnitude
  <2>2. m = z + r
    BY <1>2, <1>a, <2>1
  <2>3. a - z = r
    BY <2>1, <2>2
  <2>4. a - b * q = r
    BY <1>a, <2>3
  <2> QED
    BY <1>2, <2>1, <2>4 DEF Magnitude
<1> QED
  BY <1>4, <1>5, <1>6, <1>7

(* The quotient of a multiple is exact.                                    *)
LEMMA CutOfMultiple ==
  ASSUME NEW a \in Int, NEW b \in Int, a # 0
  PROVE  Cut(a * b, a) = b
<1>1. PICK c \in Int : c = Cut(a * b, a) /\ Magnitude(a * b - a * c) < Magnitude(a)
  <2>1. a * b \in Int
    OBVIOUS
  <2> QED
    BY <2>1, CutIsNear
<1>2. a * b - a * c = a * (b - c)
  OBVIOUS
<1>3. CASE a < 0
  <2>1. -a \in Nat \ {0} /\ a * (b - c) = (-a) * (c - b) /\ Magnitude(a) = -a
    BY <1>3 DEF Magnitude
  <2>2. PICK n \in Nat \ {0}, k \in Int, z \in Int :
          n = -a /\ k = c - b /\ z = n * k /\ z = a * b - a * c
    BY <1>1, <1>2, <2>1
  <2>3. Magnitude(z) < n
    BY <1>1, <2>1, <2>2
  <2>4. -n < z /\ z < n
    BY <2>3 DEF Magnitude
  <2>5. -n < n * k /\ n * k < n
    BY <2>2, <2>4
  <2>6. k = 0
    BY <2>5
  <2>7. c = b
    BY <2>2, <2>6
  <2> QED
    BY <1>1, <2>7
<1>4. CASE a > 0
  <2>1. a \in Nat \ {0} /\ Magnitude(a) = a
    BY <1>4 DEF Magnitude
  <2>2. -a < a * (b - c) /\ a * (b - c) < a
    BY <1>1, <1>2, <2>1 DEF Magnitude
  <2> QED
    BY <1>1, <2>1, <2>2, SmallMultiple
<1> QED
  BY <1>3, <1>4

(* The test of a product passes exactly when the product is a word.        *)
LEMMA CheckMulExact ==
  ASSUME NEW a \in Words, NEW b \in Words
  PROVE  CheckMul(a, b) <=> a * b \in Words
<1>1. PICK n \in Nat \ {0} : n = MaxInt + 1 /\ MinInt = -n /\ Words = -n .. n - 1
  BY WordBounds
<1>2. PICK z \in Int : z = a * b
  BY <1>1
<1>3. a \in Int /\ b \in Int /\ a \in -n .. n - 1 /\ b \in -n .. n - 1 /\ 0 \in Words
  BY <1>1
<1>4. CASE a = 0 \/ b = 0
  BY <1>3, <1>4 DEF CheckMul
<1>5. CASE a # 0 /\ b # 0
  <2>1. ASSUME CheckMul(a, b)
        PROVE  z \in Words
    <3>1. /\ -n \in {a, b} => 1 \in {a, b}
          /\ Gives(b) \in Divide(Wrap(z), a)
      BY <1>1, <1>2, <1>5, <2>1 DEF CheckMul
    <3>2. ~ (Wrap(z) = -n /\ a = -1)
      <4> SUFFICES ASSUME Wrap(z) = -n, a = -1
                   PROVE  FALSE
        OBVIOUS
      <4>1. b = -n
        BY <1>1, <3>1 DEF Divide, Gives, Stops
      <4> QED
        BY <1>3, <3>1, <4>1
    <3>3. b = Cut(Wrap(z), a)
      BY <1>1, <3>1, <3>2 DEF Divide, Gives
    <3>4. PICK w \in Words, k \in Int : w = Wrap(z) /\ z = w + (2 * n) * k
      BY <1>1, WrapCongruent
    <3>5. w \in Int /\ w \in -n .. n - 1
      BY <1>1, <3>4
    <3>6. Magnitude(w - z) < Magnitude(a)
      BY <1>2, <1>3, <1>5, <3>3, <3>4, <3>5, CutIsNear
    <3>7. PICK d \in Int : d = (2 * n) * k /\ w - z = -d
      BY <3>4, <3>5
    <3>8. -n < d /\ d < n
      BY <1>3, <3>6, <3>7 DEF Magnitude
    <3>9. PICK h \in Nat \ {0} : h = 2 * n
      BY <1>1
    <3>10. -h < h * k /\ h * k < h
      BY <3>7, <3>8, <3>9
    <3>11. k = 0
      BY <3>10, SmallMultiple
    <3> QED
      BY <3>4, <3>5, <3>11
  <2>2. ASSUME z \in Words
        PROVE  CheckMul(a, b)
    <3>1. Wrap(z) = z /\ z \in -n .. n - 1
      BY <1>1, <2>2, WrapOfWord
    <3>2. Cut(z, a) = b
      BY <1>2, <1>3, <1>5, CutOfMultiple
    <3>3. ~ (z = -n /\ a = -1)
      BY <1>2, <1>3
    <3>4. -n \in {a, b} => 1 \in {a, b}
      <4>1. ASSUME NEW x \in -n .. n - 1, x # 0, -n * x \in -n .. n - 1
            PROVE  x = 1
        <5>1. n * x \in Int /\ -(n * x) >= -n /\ -(n * x) < n
          BY <4>1
        <5>2. -(2 * n) < n * (x - 1) /\ n * (x - 1) < n /\ n * x > -n
          BY <5>1
        <5>3. x > -1 /\ x - 1 < 1
          BY <5>2
        <5> QED
          BY <4>1, <5>3
      <4>2. CASE a = -n
        BY <1>2, <1>3, <1>5, <3>1, <4>1, <4>2
      <4>3. CASE b = -n
        <5>1. -n * a = z
          BY <1>2, <1>3, <4>3
        <5> QED
          BY <1>2, <1>3, <1>5, <3>1, <4>1, <5>1
      <4> QED
        BY <4>2, <4>3
    <3>5. Gives(b) \in Divide(Wrap(z), a)
      BY <1>1, <3>1, <3>2, <3>3 DEF Divide
    <3> QED
      BY <1>1, <1>2, <3>4, <3>5 DEF CheckMul
  <2> QED
    BY <1>2, <2>1, <2>2
<1> QED
  BY <1>4, <1>5

(* The test of a sum passes exactly when the sum is a word.                *)
LEMMA CheckAddExact ==
  ASSUME NEW a \in Words, NEW b \in Words
  PROVE  CheckAdd(a, b) <=> a + b \in Words
<1>1. PICK n \in Nat \ {0} : MaxInt = n - 1 /\ MinInt = -n /\ Words = -n .. n - 1
  BY WordBounds
<1> QED
  BY <1>1 DEF CheckAdd

(* The test of an index passes exactly within the size.                    *)
LEMMA CheckIndexExact ==
  ASSUME NEW a \in Words, NEW b \in Words, b >= 0
  PROVE  CheckIndex(a, Unsigned(b)) <=> a \in 0 .. b - 1
<1>1. PICK n \in Nat \ {0} : 2 ^ Width = 2 * n /\ Words = -n .. n - 1
  BY WordBounds
<1>2. ASSUME NEW x \in Words, x >= 0
      PROVE  Unsigned(x) = x
  <2>1. PICK h \in Nat \ {0} : h = 2 * n
    BY <1>1
  <2>2. x \in 0 .. h - 1 /\ x = h * 0 + x
    BY <1>1, <1>2, <2>1
  <2>3. x % h = x
    BY <2>1, <2>2, DivModUnique
  <2> QED
    BY <1>1, <2>1, <2>3 DEF Unsigned
<1>3. a \in Int /\ b \in Int
  BY <1>1
<1>4. CASE a >= 0
  BY <1>2, <1>3, <1>4 DEF CheckIndex
<1>5. CASE ~ (a >= 0)
  BY <1>3, <1>5 DEF CheckIndex
<1> QED
  BY <1>4, <1>5

(* What either form answers to words is right, or known to differ.         *)
LEMMA AnswersProper ==
  ASSUME NEW op \in {"add", "mul", "div", "index"}, NEW a \in Words, NEW b \in Words,
         op = "index" => b >= 0,
         NEW said \in Answers(op, a, b)
  PROVE  \/ said \in Proper(op, a, b)
         \/ native /\ op = "div" /\ a = MinInt /\ b = -1
         \/ ~native /\ op = "mul" /\ said = Gives(a * b)
         \/ ~native /\ op = "div" /\ b # 0 /\ said = Gives(Floored(a, b))
<1>1. Wrap(a) = a /\ Wrap(b) = b
  BY WrapOfWord
<1>2. a \in Int /\ b \in Int
  BY WordBounds
<1>3. CASE native
  <2>1. said \in NativeAnswers(op, a, b)
    BY <1>3 DEF Answers
  <2>2. CASE op = "add"
    <3>1. said = IF CheckAdd(a, b) THEN Gives(Wrap(a + b)) ELSE Raises
      BY <1>1, <2>1, <2>2 DEF NativeAnswers
    <3>2. CheckAdd(a, b) => Wrap(a + b) = a + b
      BY CheckAddExact, WrapOfWord
    <3> QED
      BY <2>2, <3>1, <3>2, CheckAddExact DEF Proper, OutOfBounds, Value
  <2>3. CASE op = "mul"
    <3>1. said = IF CheckMul(a, b) THEN Gives(Wrap(a * b)) ELSE Raises
      BY <1>1, <2>1, <2>3 DEF NativeAnswers
    <3>2. CheckMul(a, b) <=> a * b \in Words
      BY CheckMulExact
    <3>3. CheckMul(a, b) => Wrap(a * b) = a * b
      BY <3>2, WrapOfWord
    <3> QED
      BY <2>3, <3>1, <3>2, <3>3 DEF Proper, OutOfBounds, Value
  <2>4. CASE op = "div"
    <3>1. said \in IF b = 0 THEN {Raises} ELSE Divide(a, b)
      BY <1>1, <2>1, <2>4 DEF NativeAnswers
    <3> QED
      BY <1>3, <2>4, <3>1 DEF Divide, Proper, OutOfBounds, Value
  <2>5. CASE op = "index"
    <3>1. said = IF CheckIndex(a, Unsigned(b)) THEN Gives(a) ELSE Raises
      BY <1>1, <2>1, <2>5 DEF NativeAnswers
    <3> QED
      BY <2>5, <3>1, CheckIndexExact DEF Proper, OutOfBounds, Value
  <2> QED
    BY <2>2, <2>3, <2>4, <2>5
<1>4. CASE ~ native
  <2>1. said = FallbackAnswer(op, a, b)
    BY <1>4 DEF Answers
  <2>2. CASE op = "add"
    BY <2>1, <2>2, CheckAddExact DEF FallbackAnswer, Proper, OutOfBounds, Value
  <2>3. CASE op = "mul"
    BY <1>4, <2>1, <2>3 DEF FallbackAnswer
  <2>4. CASE op = "div"
    BY <1>4, <2>1, <2>4 DEF FallbackAnswer, Proper, OutOfBounds
  <2>5. CASE op = "index"
    BY <1>2, <2>1, <2>5 DEF FallbackAnswer, Proper, OutOfBounds, Value
  <2> QED
    BY <2>2, <2>3, <2>4, <2>5
<1> QED
  BY <1>3, <1>4

(* No form passes over anything of itself.                                 *)
LEMMA NoAnswerPassesOver ==
  ASSUME NEW op \in {"add", "mul", "div", "index"}, NEW a, NEW b,
         NEW said \in Answers(op, a, b)
  PROVE  said # PassesOver
<1>1. Raises # PassesOver /\ Stops # PassesOver /\ \A x : Gives(x) # PassesOver
  BY DEF Raises, Stops, PassesOver, Gives
<1>2. CASE native
  BY <1>1, <1>2 DEF Answers, NativeAnswers, Divide
<1>3. CASE ~ native
  BY <1>1, <1>3 DEF Answers, FallbackAnswer
<1> QED
  BY <1>2, <1>3

(* The checker is what the program asked for last, but for a checker that  *)
(* was enabled again.                                                      *)
ModeKnown ==
  /\ wanted = "strict" => checker # "lenient"
  /\ wanted = "lenient" => checker = "lenient"

(* Every step leaves the last answer sound.                                *)
LEMMA NextSafety ==
  ModeKnown /\ ChecksSound /\ [SafetyNext]_safetyVars => ModeKnown' /\ ChecksSound'
<1> SUFFICES ASSUME ModeKnown, ChecksSound, [SafetyNext]_safetyVars
             PROVE  ModeKnown' /\ ChecksSound'
  OBVIOUS
<1>0. ModeKnown'
  BY DEF ModeKnown, SafetyNext, Enable, Disable, Ask, Getting, safetyVars
<1>1. ASSUME UNCHANGED <<native, asked>>
      PROVE  ChecksSound'
  BY <1>1 DEF ChecksSound, InWords, Right, KnownToDiffer
<1>2. ASSUME NEW op \in {"add", "mul", "div", "index"}, NEW a \in Operands, NEW b \in Operands,
             Ask(op, a, b)
      PROVE  ChecksSound'
  <2>1. PICK said \in Answers(op, a, b) :
          asked' = [op |-> op, a |-> a, b |-> b, wanted |-> wanted,
                    answer |-> IF op = "index" /\ said = Raises /\ checker' = "lenient"
                               THEN PassesOver ELSE said]
    BY <1>2 DEF Ask
  <2>2. native' = native /\ wanted' = wanted /\ (op = "index" => b >= 0)
    BY <1>2 DEF Ask
  <2>3. /\ asked'.op = op /\ asked'.a = a /\ asked'.b = b
        /\ asked'.wanted = wanted
        /\ asked'.answer = IF op = "index" /\ said = Raises /\ checker' = "lenient"
                           THEN PassesOver ELSE said
    BY <2>1
  <2>4. ASSUME a \in Words, b \in Words
        PROVE  Right' \/ KnownToDiffer'
    <3>1. \/ said \in Proper(op, a, b)
          \/ native /\ op = "div" /\ a = MinInt /\ b = -1
          \/ ~native /\ op = "mul" /\ said = Gives(a * b)
          \/ ~native /\ op = "div" /\ b # 0 /\ said = Gives(Floored(a, b))
      BY <2>2, <2>4, AnswersProper
    <3>2. CASE asked'.answer = said
      BY <2>2, <2>3, <3>1, <3>2 DEF Right, KnownToDiffer
    <3>3. CASE op = "index" /\ said = Raises /\ asked'.answer = PassesOver
      <4>1. Raises \in Proper(op, a, b)
        BY <3>1, <3>3
      <4>2. PassesOver \in Proper(op, a, b)
        BY <3>3, <4>1 DEF Proper, OutOfBounds, Raises, Gives, PassesOver
      <4> QED
        BY <2>3, <3>3, <4>2 DEF Right
    <3> QED
      BY <2>3, <3>2, <3>3
  <2>5. ASSUME a \in Words, b \in Words, OutOfBounds(op, a, b)
        PROVE  /\ wanted = "strict" => asked'.answer = Raises
               /\ wanted = "lenient" => asked'.answer = PassesOver
    <3>1. op = "index"
      BY <2>5 DEF OutOfBounds
    <3>2. said \in {Raises, PassesOver}
      <4>1. said \in Proper(op, a, b)
        BY <2>2, <2>5, <3>1, AnswersProper
      <4> QED
        BY <2>5, <4>1 DEF Proper
    <3>3. said = Raises
      BY <3>2, NoAnswerPassesOver
    <3> QED
      BY <1>0, <2>2, <2>3, <3>1, <3>3 DEF ModeKnown
  <2> QED
    BY <2>3, <2>4, <2>5 DEF ChecksSound, InWords
<1> QED
  BY <1>0, <1>1, <1>2 DEF SafetyNext, Enable, Disable, safetyVars

(* For any width of words and whatever the form of the checker: what a     *)
(* check answers to words is the value, or an exception exactly when there *)
(* is none, up to where the two forms are known to differ; and an index    *)
(* out of bounds is passed over as the program asked last, until it has    *)
(* enabled again what it disabled.                                         *)
THEOREM ChecksAlwaysSound == SafetySpec => []ChecksSound
<1>1. SafetyInit => ModeKnown /\ ChecksSound
  BY DEF SafetyInit, ModeKnown, ChecksSound, NotAsked, Raises, OutOfBounds
<1> QED
  BY <1>1, NextSafety, PTL DEF SafetySpec
=============================================================================
