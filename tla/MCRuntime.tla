----------------------------- MODULE MCRuntime -----------------------------
(* Seven parts of the runtime share no state: each behaviour is one of one *)
(* part.  The same two model values are the threads of all of them.        *)
(*                                                                         *)
(* GPU: a vector longer than a block and a square matrix, with either three *)
(* plugins loaded and shut down by two threads, the third only if it is the *)
(* first one again, or one loaded and unloaded while two calls are made.   *)
(* Compile cache: a function the passes turn into the structure another    *)
(* was built with, and three of one name; with and without a GPU.          *)
(* Strings: two contents, three objects, up to the first misuse.           *)
(* Lists: capacities 0, 1 and 2, three elements.  Scheduler: up to three   *)
(* threads and five iterations.  Safety: words of three bits and operands  *)
(* on both sides of their range.  JIT: functions the tracing records,      *)
(* refuses and misunderstands, four calls, or three of one compiled at once. *)
EXTENDS GpuPlugins, CompileCache, StringPool, ListRuntime, Scheduler, SafetyChecks,
        Jit, TLC

VARIABLE part

Always == [op |-> "always", left |-> Literal(0), right |-> Literal(0)]
Expr(op, left, right) == [op |-> op, left |-> left, right |-> right]
Straight(arity, default, e) ==
  [arity |-> arity, default |-> default, test |-> Always, yes |-> e, no |-> e]
Choice(test, yes, no) ==
  [arity |-> 2, default |-> 2, test |-> test, yes |-> yes, no |-> no]

Sum2 == Straight(2, 2, Expr("add", Param(1), Param(2)))

runtimeVars ==
  <<part, gpuVars, compileVars, stringVars, listVars, schedulerVars, safetyVars,
    jitVars>>

RuntimeInit ==
  /\ part \in {"gpu_lives", "gpu_calls", "compile", "strings", "lists", "scheduler", "safety",
                "jit"}
  /\ GpuInit
  /\ CompileInit /\ (part # "compile" => profile = {"cpu_generic"})
  /\ StringInit
  /\ ListInit /\ (part # "lists" => data = <<>>)
  /\ SchedulerInit /\ (part # "scheduler" => threads = 1 /\ total = 0)
  /\ SafetyInit /\ (part # "safety" => native)
  /\ JitInit /\ (part # "jit" => function = Sum2 /\ eager)

InPart(k) == part = k /\ UNCHANGED part

StayGpu       == UNCHANGED gpuVars
StayCompile   == UNCHANGED compileVars
StayStrings   == UNCHANGED stringVars
StayLists     == UNCHANGED listVars
StayScheduler == UNCHANGED schedulerVars
StaySafety    == UNCHANGED safetyVars
StayJit       == UNCHANGED jitVars

Alternating ==
  \A i \in 1 .. made :
    /\ plugin[i].name = IF i = 2 THEN "other" ELSE "amd"
    /\ "registered" \in plugin[i].has

OneManager == \A t, u \in Managers : Rest \in {managing[t], managing[u]} \/ t = u

RuntimeNext ==
  \/ /\ \/ InPart("gpu_lives") /\ GpuNext /\ calls' = 0 /\ (made <= 2 \/ Alternating)'
        \/ /\ InPart("gpu_calls") /\ GpuNext /\ made' <= 1 /\ OneManager'
           /\ \A t \in Managers : ~ShuttingDown(t)'
     /\ StayCompile /\ StayStrings /\ StayLists /\ StayScheduler /\ StaySafety /\ StayJit
  \/ /\ InPart("compile") /\ CompileNext
     /\ StayGpu /\ StayStrings /\ StayLists /\ StayScheduler /\ StaySafety /\ StayJit
  \/ /\ InPart("strings") /\ StringNext /\ ~misused
     /\ StayGpu /\ StayCompile /\ StayLists /\ StayScheduler /\ StaySafety /\ StayJit
  \/ /\ InPart("lists") /\ ListNext
     /\ StayGpu /\ StayCompile /\ StayStrings /\ StayScheduler /\ StaySafety /\ StayJit
  \/ /\ InPart("scheduler") /\ SchedulerNext
     /\ StayGpu /\ StayCompile /\ StayStrings /\ StayLists /\ StaySafety /\ StayJit
  \/ /\ InPart("safety") /\ SafetyNext
     /\ StayGpu /\ StayCompile /\ StayStrings /\ StayLists /\ StayScheduler /\ StayJit
  \/ /\ InPart("jit") /\ JitNext /\ (eager => jitCalls' < MaxJitCalls)
     /\ StayGpu /\ StayCompile /\ StayStrings /\ StayLists /\ StayScheduler /\ StaySafety

RuntimeSpec == RuntimeInit /\ [][RuntimeNext]_runtimeVars

-----------------------------------------------------------------------------
VectorSum == [op |-> "vec_add", a |-> <<1, 2, 3>>, b |-> <<5, 2, 4>>, m |-> 0, n |-> 3,
              k |-> 0]
Square    == [op |-> "matmul", a |-> <<1, 2, 3, 4>>, b |-> <<5, 6, 7, 8>>, m |-> 2, n |-> 2,
              k |-> 2]
SomeRequests == {VectorSum, Square}

Unchanging(opcodes) == [s \in Stages |-> opcodes]

(* folded and shift are alike as built, and not once folded is optimized;  *)
(* constant is then like folded but for its name.                          *)
SomeOpcodes ==
  [folded   |-> [built |-> {"const", "add"}, rewriting |-> {"const", "add"}, optimized |-> {"const"}],
   constant |-> Unchanging({"const"}),
   adder    |-> Unchanging({"vadd"}),
   product  |-> Unchanging({"matmul"}),
   shift    |-> Unchanging({"const", "add"})]
SomeNames    == [folded |-> "f", constant |-> "g", adder |-> "f", product |-> "f", shift |-> "f"]
SomeMeanings == [folded |-> "folded", constant |-> "constant", adder |-> "vadd",
                 product |-> "matmul", shift |-> "shift"]

WithAndWithoutGpu == {{"cpu_generic"}, {"cuda", "cpu_avx2", "cpu_generic"}}

SomeOperands == {-5, -4, -1, 0, 2, 3, 4}

First  == Expr("left", Param(1), Literal(0))
Second == Expr("left", Param(2), Literal(0))
SomePrograms ==
  { Sum2,
    Straight(2, Nothing, Expr("sub", Param(1), Param(2))),
    Straight(2, 2, Expr("sub", Param(2), Param(1))),
    Straight(1, Nothing, Expr("mul", Param(1), Param(1))),
    Straight(1, Nothing, Expr("floordiv", Param(1), Literal(2))),
    Straight(2, 2, Second),
    Choice(Expr("less", Param(1), Param(2)), Second, First),
    Choice(Expr("equal", Param(1), Param(2)), Expr("add", Param(1), Literal(1)), First) }

Number(n) == [type |-> "int", value |-> n]
Fraction(n) == [type |-> "other", value |-> n]
Asked(args, keyword) == [args |-> args, keyword |-> keyword]
SomeArguments ==
  { Asked(<<Number(1)>>, Nothing), Asked(<<Number(3), Number(3)>>, Nothing),
    Asked(<<Number(1)>>, 3), Asked(<<Fraction(1)>>, Nothing) }

SameThreads == Permutations(Callers) \cup Permutations(Contents)
=============================================================================
