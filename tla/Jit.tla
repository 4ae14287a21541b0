-------------------------------- MODULE Jit --------------------------------
(***************************************************************************)
(* JitFunction (src/uhcr/frontend/decorator.py): a Python function that is *)
(* run as it is at first and, from the third call on, traced, compiled for *)
(* the types of its arguments and run as native code.  Nothing is locked:  *)
(* every read and write of the wrapper's fields is a step.                 *)
(*                                                                         *)
(* A function takes one or two arguments, may have a default for the       *)
(* second, compares two terms or none, and returns one of two expressions: *)
(* an operation on two terms.  A term is a parameter or a constant.        *)
(* Arguments are integers, or numbers of another class, which the tracing  *)
(* refuses.  The runtime's compile() is taken to fail or to give code that *)
(* does what was traced; how it may not is the business of CompileCache    *)
(* and NativeCode.                                                         *)
(***************************************************************************)
EXTENDS Integers, Sequences

CONSTANTS
  JitCallers,   (* threads                                                 *)
  Programs,     (* the functions @jit is given                             *)
  JitArguments, (* [args |-> , keyword |-> ]: what they are called with    *)
  MaxJitCalls,  (* bound on the calls made (model only)                    *)
  IntBits,      (* bits of a compiled function's integers                  *)
  Nothing,      (* no default, no keyword argument, no code, no answer     *)
  TypeError     (* what a call with an argument missing raises             *)

Terms == [is : {"param", "literal"}, n : Int]
Expressions(ops) == [op : ops, left : Terms, right : Terms]
Operations == {"add", "sub", "mul", "floordiv", "left"}
Numbers == [type : {"int", "other"}, value : Int]
Codes == [arm : Expressions(Operations), valued : BOOLEAN, takes : Nat]

ASSUME JitAssumption ==
  /\ MaxJitCalls \in Nat /\ IntBits \in Nat \ {0}
  /\ Nothing \notin Int \cup Codes /\ TypeError \notin Int
  /\ Programs \subseteq
       [arity : Nat \ {0}, default : Int \cup {Nothing},
        test : Expressions({"always", "less", "equal"}),
        yes : Expressions(Operations), no : Expressions(Operations)]
  /\ \A f \in Programs : \A e \in {f.test, f.yes, f.no} : \A x \in {e.left, e.right} :
       x.is = "param" => x.n \in 1 .. f.arity
  /\ JitArguments \subseteq [args : Seq(Numbers), keyword : Int \cup {Nothing}]

VARIABLES
  function,     (* _python_fn                                              *)
  eager,        (* _eager                                                  *)
  codeFor,      (* _compiled_cache: the code by its signature              *)
  callCount,    (* _call_count                                             *)
  jitCall,      (* jitCall[t]: the __call__ t is in                        *)
  jitCalls      (* number of calls made                                    *)

jitVars == <<function, eager, codeFor, callCount, jitCall, jitCalls>>

Outside == [pc |-> "outside"]

(* _signature: the types of the positional arguments.                      *)
(* Mutant: the type of the first.                                          *)
FirstType(args) == <<args[1].type>>

Signature(args) == [i \in DOMAIN args |-> args[i].type]

Signatures == {Signature(a.args) : a \in JitArguments}

Threshold == IF eager THEN 1 ELSE 3

JitInit ==
  /\ function \in Programs
  /\ eager \in BOOLEAN
  /\ codeFor = [s \in Signatures |-> Nothing]
  /\ callCount = 0
  /\ jitCall = [t \in JitCallers |-> Outside]
  /\ jitCalls = 0

-----------------------------------------------------------------------------
(* What Python makes of the function, and what the tracing does.           *)

Param(i)    == [is |-> "param", n |-> i]
Literal(n)  == [is |-> "literal", n |-> n]

Surplus(f, args, keyword) ==
  Len(args) + (IF keyword = Nothing THEN 0 ELSE 1) > f.arity

(* The parameters' values: a positional argument, a keyword, the default;  *)
(* none when there are more arguments than parameters.                     *)
Bound(f, args, keyword) ==
  [i \in 1 .. f.arity |-> IF Surplus(f, args, keyword) THEN Nothing
                          ELSE IF i <= Len(args) THEN args[i].value
                          ELSE IF keyword # Nothing THEN keyword ELSE f.default]

Term(x, bound) == IF x.is = "param" THEN bound[x.n] ELSE x.n

Operate(op, x, y) ==
  CASE op = "add" -> x + y
    [] op = "sub" -> x - y
    [] op = "mul" -> x * y
    [] op = "floordiv" -> x \div y
    [] op = "left" -> x

Evaluated(e, bound) == Operate(e.op, Term(e.left, bound), Term(e.right, bound))

Compared(f, bound) ==
  LET x == Term(f.test.left, bound)
      y == Term(f.test.right, bound)
  IN  CASE f.test.op = "always" -> TRUE
        [] f.test.op = "less" -> x < y
        [] f.test.op = "equal" -> x = y

Called(f, bound) ==
  IF \E i \in DOMAIN bound : bound[i] = Nothing THEN TypeError
  ELSE Evaluated(IF Compared(f, bound) THEN f.yes ELSE f.no, bound)

(* The same call with _TracedValues for the positional arguments.          *)
Traced(x, n) == x.is = "param" /\ x.n <= n
AnyTraced(e, n) == \E x \in {e.left, e.right} : Traced(x, n)

(* There is no reflected subtraction, no floor division and no ordering.   *)
Records(e, n) ==
  AnyTraced(e, n) => /\ e.op = "sub" => Traced(e.left, n)
                     /\ e.op # "floordiv"

(* __eq__ leaves numbers to Python, which then compares identities: a      *)
(* traced value equals itself and nothing else.                            *)
TracedArm(f, n) ==
  LET untraced == [i \in 1 .. f.arity |-> f.default]
      holds == IF AnyTraced(f.test, n)
               THEN f.test.op = "always" \/ f.test.left = f.test.right
               ELSE Compared(f, untraced)
  IN  IF holds THEN f.yes ELSE f.no

TraceRaises(f, n) ==
  \/ n > f.arity
  \/ n < f.arity /\ f.default = Nothing
  \/ f.test.op = "less" /\ AnyTraced(f.test, n)
  \/ ~Records(TracedArm(f, n), n)

(* A result that is no traced value is compiled as no result.              *)
ReturnsTraced(f, n) ==
  LET arm == TracedArm(f, n)
  IN  IF arm.op = "left" THEN Traced(arm.left, n) ELSE AnyTraced(arm, n)

Code(f, n) == [arm |-> TracedArm(f, n), valued |-> ReturnsTraced(f, n), takes |-> n]

(* ctypes cuts what goes in and comes out to a word.                       *)
Machine(x) == LET low == x % (2 ^ IntBits)
              IN  IF low >= 2 ^ (IntBits - 1) THEN low - 2 ^ IntBits ELSE low

(* The least and the greatest integer stand for a register left as it was. *)
CodeAnswers(code, args) ==
  LET taken == SubSeq(args, 1, code.takes)
  IN  IF Len(args) < code.takes THEN {TypeError}
      ELSE IF code.valued THEN {Machine(Evaluated(code.arm, Bound(function, taken, Nothing)))}
      ELSE {-(2 ^ (IntBits - 1)), 2 ^ (IntBits - 1) - 1}

-----------------------------------------------------------------------------
(* __call__.                                                               *)

InCall(t, pc) == jitCall[t].pc = pc
Then(t, pc)   == jitCall' = [jitCall EXCEPT ![t].pc = pc]
Args(t)       == jitCall[t].asked.args
Keyword(t)    == jitCall[t].asked.keyword
Bindings(t)   == Bound(function, Args(t), Keyword(t))

Finish(t, answer, by) ==
  jitCall' = [jitCall EXCEPT ![t].pc = "returned", ![t].answer = answer, ![t].by = by]

CallJit(t, a) ==
  /\ jitCall[t].pc \in {"outside", "returned"}
  /\ jitCalls < MaxJitCalls
  /\ jitCalls' = jitCalls + 1
  /\ jitCall' = [jitCall EXCEPT ![t] =
       [pc |-> "counting", asked |-> a, count |-> callCount, answer |-> Nothing,
        by |-> "nobody", cleared |-> FALSE]]
  /\ UNCHANGED <<function, eager, codeFor, callCount>>

(* The count that is stored is one more than the one that was read.        *)
CountCall(t) ==
  /\ InCall(t, "counting")
  /\ callCount' = jitCall[t].count + 1
  /\ Then(t, "looking")
  /\ UNCHANGED <<function, eager, codeFor, jitCalls>>

LookUp(t) ==
  /\ InCall(t, "looking")
  /\ Then(t, IF codeFor[Signature(Args(t))] # Nothing THEN "cached" ELSE "missed")
  /\ UNCHANGED <<function, eager, codeFor, callCount, jitCalls>>

(* The cache is looked into again; the keyword arguments are left out.     *)
RunCached(t) ==
  /\ InCall(t, "cached")
  /\ LET code == codeFor[Signature(Args(t))]
     IN  IF code = Nothing
         THEN Finish(t, Nothing, "KeyError")
         ELSE \E answer \in CodeAnswers(code, Args(t)) : Finish(t, answer, "code")
  /\ UNCHANGED <<function, eager, codeFor, callCount, jitCalls>>

CheckThreshold(t) ==
  /\ InCall(t, "missed")
  /\ Then(t, IF callCount >= Threshold THEN "compiling" ELSE "python")
  /\ UNCHANGED <<function, eager, codeFor, callCount, jitCalls>>

(* _try_compile: an argument of another class, a test call or a trace that *)
(* raises, or an exception from the compiler, and there is no code.        *)
TryCompile(t) ==
  /\ InCall(t, "compiling")
  /\ \/ Then(t, "python")
     \/ /\ \A i \in DOMAIN Args(t) : Args(t)[i].type = "int"
        /\ Called(function, Bindings(t)) # TypeError
        /\ ~TraceRaises(function, Len(Args(t)))
        /\ Then(t, "compiled")
  /\ UNCHANGED <<function, eager, codeFor, callCount, jitCalls>>

StoreAndRun(t) ==
  /\ InCall(t, "compiled")
  /\ LET code == Code(function, Len(Args(t)))
     IN  /\ codeFor' = [codeFor EXCEPT ![Signature(Args(t))] = code]
         /\ \E answer \in CodeAnswers(code, Args(t)) : Finish(t, answer, "code")
  /\ UNCHANGED <<function, eager, callCount, jitCalls>>

RunPython(t) ==
  /\ InCall(t, "python")
  /\ Finish(t, Called(function, Bindings(t)), "python")
  /\ UNCHANGED <<function, eager, codeFor, callCount, jitCalls>>

(* invalidate(), by whom it may be; cleared is history.                    *)
Invalidate ==
  /\ codeFor' = [s \in Signatures |-> Nothing]
  /\ callCount' = 0
  /\ jitCall' = [t \in JitCallers |->
       IF InCall(t, "cached") THEN [jitCall[t] EXCEPT !.cleared = TRUE] ELSE jitCall[t]]
  /\ UNCHANGED <<function, eager, jitCalls>>

JitNext ==
  \/ \E t \in JitCallers :
       \/ \E a \in JitArguments : CallJit(t, a)
       \/ CountCall(t) \/ LookUp(t) \/ RunCached(t) \/ CheckThreshold(t)
       \/ TryCompile(t) \/ StoreAndRun(t) \/ RunPython(t)
  \/ Invalidate

JitSpec == JitInit /\ [][JitNext]_jitVars

-----------------------------------------------------------------------------
(* Properties.                                                             *)

(* The tracing knows what Python does with the function: no numbers are    *)
(* compared for equality, and what is returned comes from an argument.     *)
Understood(f, n) ==
  /\ ~ (f.test.op = "equal" /\ AnyTraced(f.test, n))
  /\ ReturnsTraced(f, n)

(* A call answers what Python would, whatever is compiled, cached, counted *)
(* or invalidated by other threads meanwhile: exactly when Python ran, and *)
(* up to the width of a compiled integer when code did, for functions that *)
(* the tracing understands and calls without keywords.  Only a call whose  *)
(* cache entry was cleared under its hands raises what Python would not.   *)
JitAnswersAsPython ==
  \A t \in JitCallers : InCall(t, "returned") =>
    LET want == Called(function, Bindings(t))
        got  == jitCall[t].answer
    IN  /\ jitCall[t].by = "python" => got = want
        /\ jitCall[t].by = "KeyError" => jitCall[t].cleared
        /\ jitCall[t].by = "code" /\ Understood(function, Len(Args(t))) /\ Keyword(t) = Nothing
             => want # TypeError /\ got = Machine(want)
=============================================================================
