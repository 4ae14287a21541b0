---------------------------- MODULE SafetyChecks ----------------------------
(***************************************************************************)
(* The checked arithmetic and indexing of src/uhcr/security/               *)
(* runtime_safety.py, in its two forms: the Python fallback, on unbounded  *)
(* integers, and the native library (src/uhcr/native/safety_checker.hpp    *)
(* and .cpp), on words; and the one checker that get_safety_checker makes. *)
(*                                                                         *)
(* Words have Width bits here and 64 in the code; ctypes cuts what is      *)
(* passed to that width.  The library is built with -fwrapv, so that its   *)
(* arithmetic wraps; the least word divided by -1 stops the program or     *)
(* wraps, as the processor has it.                                         *)
(***************************************************************************)
EXTENDS Integers, FiniteSets

CONSTANTS
  Width,       (* bits of a word                                           *)
  Operands     (* what callers pass                                        *)

ASSUME SafetyAssumption == Width \in Nat \ {0, 1} /\ Operands \subseteq Int

MaxInt == 2 ^ (Width - 1) - 1
MinInt == -(2 ^ (Width - 1))
Words  == MinInt .. MaxInt

Wrap(x) == LET low == x % (2 ^ Width)
           IN  IF low > MaxInt THEN low - 2 ^ Width ELSE low
Unsigned(x) == x % (2 ^ Width)

Magnitude(x) == IF x < 0 THEN -x ELSE x

(* The quotient cut towards zero, as C++ has it; Python's is rounded down. *)
Cut(a, b) ==
  LET q == Magnitude(a) \div Magnitude(b)
  IN  IF (a < 0) = (b < 0) THEN q ELSE -q
Floored(a, b) == IF b > 0 THEN a \div b ELSE (-a) \div (-b)

VARIABLES
  native,      (* is the library loaded?  One answer for all checkers      *)
  checker,     (* _global_checker: "none", or its strict_mode              *)
  wanted,      (* history: the mode the program asked for last, by default *)
               (* "strict", and "strict again" once it was lenient         *)
  asked        (* history: [op, a, b, answer, wanted] of the last call     *)

safetyVars == <<native, checker, wanted, asked>>

Raises     == [is |-> "raises", value |-> 0]
Stops      == [is |-> "stops", value |-> 0]
PassesOver == [is |-> "passes over", value |-> 0]
Gives(x)   == [is |-> "gives", value |-> x]

NotAsked == [op |-> "none", a |-> 0, b |-> 0, answer |-> Raises, wanted |-> "strict"]

SafetyInit ==
  /\ native \in BOOLEAN
  /\ checker = "none"
  /\ wanted = "strict"
  /\ asked = NotAsked

-----------------------------------------------------------------------------
(* The library's checks: does the operation pass?                          *)

CheckAdd(a, b) == ~ ((b > 0 /\ a > MaxInt - b) \/ (b < 0 /\ a < MinInt - b))

(* What wrapping division makes of the least word and -1.                  *)
Divide(a, b) == IF a = MinInt /\ b = -1 THEN {Stops, Gives(MinInt)} ELSE {Gives(Cut(a, b))}

(* Mutant: only the test by division.                                      *)
CheckByDivision(a, b) == a = 0 \/ b = 0 \/ Gives(b) \in Divide(Wrap(a * b), a)

CheckMul(a, b) ==
  \/ a = 0 \/ b = 0
  \/ /\ MinInt \in {a, b} => 1 \in {a, b}
     /\ Gives(b) \in Divide(Wrap(a * b), a)

CheckIndex(i, size) == i >= 0 /\ Unsigned(i) < size

NativeAnswers(op, a, b) ==
  LET x == Wrap(a)
      y == Wrap(b)
  IN  CASE op = "add" -> {IF CheckAdd(x, y) THEN Gives(Wrap(x + y)) ELSE Raises}
        [] op = "mul" -> {IF CheckMul(x, y) THEN Gives(Wrap(x * y)) ELSE Raises}
        [] op = "div" -> IF y = 0 THEN {Raises} ELSE Divide(x, y)
        [] op = "index" -> {IF CheckIndex(x, Unsigned(b)) THEN Gives(a) ELSE Raises}

(* The product is never out of range of an unbounded integer.              *)
FallbackAnswer(op, a, b) ==
  CASE op = "add" -> IF CheckAdd(a, b) THEN Gives(a + b) ELSE Raises
    [] op = "mul" -> Gives(a * b)
    [] op = "div" -> IF b = 0 THEN Raises ELSE Gives(Floored(a, b))
    [] op = "index" -> IF a >= 0 /\ a < b THEN Gives(a) ELSE Raises

Answers(op, a, b) == IF native THEN NativeAnswers(op, a, b) ELSE {FallbackAnswer(op, a, b)}

-----------------------------------------------------------------------------
(* Mutant: every call sets the mode.                                       *)
Setting(strict) == strict

(* get_safety_checker looks at its argument only when there is no checker. *)
Getting(strict) == IF checker = "none" THEN strict ELSE checker

(* enable_safety_checks.                                                   *)
Enable ==
  /\ checker' = Getting("strict")
  /\ wanted' = IF wanted = "strict" THEN wanted ELSE "strict again"
  /\ UNCHANGED <<native, asked>>

(* disable_safety_checks, which does nothing when there is no checker.     *)
Disable ==
  /\ checker # "none"
  /\ checker' = "lenient"
  /\ wanted' = "lenient"
  /\ UNCHANGED <<native, asked>>

(* Arithmetic raises whatever the mode; a lenient checker returns what is  *)
(* wrong with an index, and check_array_bounds drops that.                 *)
Ask(op, a, b) ==
  /\ op = "index" => b >= 0
  /\ checker' = Getting("strict")
  /\ \E answer \in Answers(op, a, b) :
       asked' = [op |-> op, a |-> a, b |-> b, wanted |-> wanted,
                 answer |-> IF op = "index" /\ answer = Raises /\ checker' = "lenient"
                            THEN PassesOver ELSE answer]
  /\ UNCHANGED <<native, wanted>>

SafetyNext ==
  \/ Enable \/ Disable
  \/ \E op \in {"add", "mul", "div", "index"} : \E a, b \in Operands : Ask(op, a, b)

SafetySpec == SafetyInit /\ [][SafetyNext]_safetyVars

-----------------------------------------------------------------------------
(* Properties.                                                             *)

Value(op, a, b) ==
  CASE op = "add" -> a + b
    [] op = "mul" -> a * b
    [] op = "div" -> Cut(a, b)
    [] op = "index" -> a

OutOfBounds(op, a, b) == op = "index" /\ a \notin 0 .. b - 1

(* For words, what an answer should be: the value, or an exception when    *)
(* there is none or it is no word; only an index may be passed over.       *)
Proper(op, a, b) ==
  IF OutOfBounds(op, a, b) THEN {Raises, PassesOver}
  ELSE IF \/ op = "div" /\ b = 0
          \/ op \in {"add", "mul"} /\ Value(op, a, b) \notin Words
  THEN {Raises} ELSE {Gives(Value(op, a, b))}

InWords == asked.a \in Words /\ asked.b \in Words
Right   == asked.answer \in Proper(asked.op, asked.a, asked.b)

(* With words for operands both forms answer the value, and raise exactly  *)
(* when it is no word or undefined, up to where they are known to differ:  *)
(* the fallback's product of any size and quotient rounded down, and the   *)
(* library's least word by -1.  An index out of bounds raises as long as   *)
(* the program never disabled the checker and is passed over when that is  *)
(* what it did last; once it has enabled the checks again nothing is said: *)
(* they stay lenient, although enable_safety_checks is documented to       *)
(* enable them.                                                            *)
KnownToDiffer ==
  \/ native /\ asked.op = "div" /\ asked.a = MinInt /\ asked.b = -1
  \/ ~native /\ asked.op = "mul" /\ asked.answer = Gives(asked.a * asked.b)
  \/ /\ ~native /\ asked.op = "div" /\ asked.b # 0
     /\ asked.answer = Gives(Floored(asked.a, asked.b))

ChecksSound ==
  /\ asked # NotAsked /\ InWords => Right \/ KnownToDiffer
  /\ InWords /\ OutOfBounds(asked.op, asked.a, asked.b) =>
       /\ asked.wanted = "strict" => asked.answer = Raises
       /\ asked.wanted = "lenient" => asked.answer = PassesOver
=============================================================================
