------------------------------ MODULE Optimizer ------------------------------
(***************************************************************************)
(* The default optimization pipeline (src/uhcr/compiler/passes): constant  *)
(* folding, strength reduction, dead code elimination and common           *)
(* subexpression elimination, over functions of one basic block.  A        *)
(* behaviour builds a function one IRBuilder call at a time and then runs  *)
(* the pipeline on it; the properties compare what the function computes   *)
(* before and after.                                                       *)
(*                                                                         *)
(* An operand is <<"const", n>>, <<"arg", name>> or <<"inst", id>>; the id *)
(* is the identity of the Instruction object, so references survive the    *)
(* passes.  Integers are signed, of Width bits, at run time; the passes    *)
(* compute with unbounded ones.  The pointer operands of loads and stores  *)
(* all name one cell, and there is one list: neither is written out.       *)
(***************************************************************************)
EXTENDS Integers, Sequences, SequencesExt, FiniteSets

CONSTANTS
  Args,       (* arguments of the function                                 *)
  Consts,     (* literals the program may contain                          *)
  Opcodes,    (* opcodes the program may contain, RET apart                *)
  Beginnings, (* instruction sequences a function may start with; {<<>>}   *)
              (* says nothing, others steer the exploration (model only)   *)
  MaxLength,  (* bound on its instructions before RET (model only)         *)
  Width,      (* bits of an integer                                        *)
  Inputs,     (* the run-time values tried for an argument                 *)
  InitialCells  (* those tried for the memory cell and as the element of a *)
              (* list of one                                               *)

Arithmetic == {"add", "sub", "mul", "div"}
Void       == {"store", "listappend", "ret"}

Arity(opcode) == CASE opcode \in Arithmetic          -> 2
                   [] opcode \in {"load", "listlen", "listpop"} -> 0
                   [] OTHER                          -> 1

ASSUME OptimizerAssumption ==
  /\ Opcodes \subseteq Arithmetic \cup {"load", "store", "listlen", "listappend", "listpop"}
  /\ Consts \cup Inputs \cup InitialCells \subseteq Int
  /\ Width \in Nat \ {0} /\ MaxLength \in Nat

VARIABLES
  source,     (* the function as built                                     *)
  code,       (* the function as the pipeline has left it                  *)
  phase,      (* "building", "optimizing" or "optimized"                   *)
  iteration,  (* of the loop in OptimizationPipeline.run                   *)
  meaning     (* history: what the function computes as built              *)

optVars == <<source, code, phase, iteration, meaning>>

IsConst(v) == v[1] = "const"
IsInst(v)  == v[1] = "inst"
ConstOf(n) == <<"const", n>>

NoValue == <<"none">>

-----------------------------------------------------------------------------
(* The passes.  Each walks the block with the replacements made so far, a  *)
(* function from instruction ids to values.                                *)

Resolve(v, map) == IF IsInst(v) /\ v[2] \in DOMAIN map THEN map[v[2]] ELSE v

ResolveArgs(inst, map) ==
  [inst EXCEPT !.args = [i \in DOMAIN @ |-> Resolve(@[i], map)]]

NoReplacements == [code |-> <<>>, map |-> <<>>]

Replace(walk, inst, value) ==
  [walk EXCEPT !.map = [i \in DOMAIN @ \cup {inst.id} |->
                          IF i = inst.id THEN value ELSE @[i]]]

(* Mutant: what is kept still refers to what was replaced.                 *)
KeepUnresolved(walk, inst) == [walk EXCEPT !.code = Append(@, inst)]

Keep(walk, inst) == [walk EXCEPT !.code = Append(@, ResolveArgs(inst, walk.map))]

(* Mutant: subtraction is folded the wrong way round.                      *)
FoldedReversed(opcode, a, b) ==
  CASE opcode = "add" -> a + b
    [] opcode = "sub" -> b - a
    [] opcode = "mul" -> a * b
    [] opcode = "div" -> a \div b

(* Python's arithmetic: unbounded, // rounds down; no division by zero.    *)
Folded(opcode, a, b) ==
  CASE opcode = "add" -> a + b
    [] opcode = "sub" -> a - b
    [] opcode = "mul" -> a * b
    [] opcode = "div" -> IF b < 0 THEN (-a) \div (-b) ELSE a \div b

TryFold(inst, map) ==
  IF inst.op \notin Arithmetic THEN NoValue
  ELSE LET a == Resolve(inst.args[1], map)
           b == Resolve(inst.args[2], map)
       IN  IF IsConst(a) /\ IsConst(b) /\ ~(inst.op = "div" /\ b[2] = 0)
           THEN ConstOf(Folded(inst.op, a[2], b[2]))
           ELSE NoValue

(* Mutant: x - y is taken for x - x whatever y is.                         *)
SubtractionsOf(a, b) ==
  {<<b = ConstOf(0), a>>, <<b # ConstOf(0) /\ ~IsConst(b), ConstOf(0)>>}

(* The reductions of each opcode, as pairs of a condition and a value; the *)
(* conditions that hold together agree on the value.                       *)
Subtractions(a, b) == {<<b = ConstOf(0), a>>, <<a = b /\ ~IsConst(a), ConstOf(0)>>}

Reductions(opcode, a, b) ==
  CASE opcode = "mul" -> {<<ConstOf(0) \in {a, b}, ConstOf(0)>>,
                          <<b = ConstOf(1), a>>, <<a = ConstOf(1), b>>}
    [] opcode = "add" -> {<<b = ConstOf(0), a>>, <<a = ConstOf(0), b>>}
    [] opcode = "sub" -> Subtractions(a, b)
    [] opcode = "div" -> {<<b = ConstOf(1), a>>}

TryReduce(inst, map) ==
  IF inst.op \notin Arithmetic THEN NoValue
  ELSE LET found == {r \in Reductions(inst.op, Resolve(inst.args[1], map),
                                               Resolve(inst.args[2], map)) : r[1]}
       IN  IF found = {} THEN NoValue ELSE (CHOOSE r \in found : TRUE)[2]

ConstantFold(prog) ==
  LET step(walk, inst) == LET v == TryFold(inst, walk.map)
                          IN  IF v = NoValue THEN Keep(walk, inst)
                                             ELSE Replace(walk, inst, v)
  IN  FoldLeft(step, NoReplacements, prog).code

StrengthReduce(prog) ==
  LET step(walk, inst) == LET v == TryReduce(inst, walk.map)
                          IN  IF v = NoValue THEN Keep(walk, inst)
                                             ELSE Replace(walk, inst, v)
  IN  FoldLeft(step, NoReplacements, prog).code

(* _SIDE_EFFECT_OPCODES, as far as these programs go; void ones stay too.  *)
SideEffectOpcodes == {"store", "ret"}

UsedBy(prog) == UNION {{v[2] : v \in {w \in Range(prog[i].args) : IsInst(w)}}
                         : i \in DOMAIN prog}

IsDead(inst, used) ==
  /\ inst.op \notin SideEffectOpcodes
  /\ inst.op \notin Void
  /\ inst.id \notin used

RECURSIVE DeadCodeEliminate(_)
DeadCodeEliminate(prog) ==
  LET used == UsedBy(prog)
      kept == SelectSeq(prog, LAMBDA inst : ~IsDead(inst, used))
  IN  IF kept = prog THEN prog ELSE DeadCodeEliminate(kept)

(* Mutant: loads are merged too.                                           *)
NoCseButLoads == {"store", "ret"}

NoCseOpcodes == {"store", "load", "ret"}

CommonSubexpressionEliminate(prog) ==
  LET step(walk, inst) ==
        LET now  == ResolveArgs(inst, walk.map)
            same == {i \in DOMAIN walk.code :
                       walk.code[i].op = now.op /\ walk.code[i].args = now.args}
        IN  IF now.op \notin NoCseOpcodes \cup Void /\ same # {}
            THEN Replace(walk, inst,
                         <<"inst", walk.code[CHOOSE i \in same : \A k \in same : i <= k].id>>)
            ELSE Keep(walk, inst)
  IN  FoldLeft(step, NoReplacements, prog).code

DefaultPasses == <<"fold", "reduce", "dce", "cse", "dce">>

RunPass(name, prog) ==
  CASE name = "fold"   -> ConstantFold(prog)
    [] name = "reduce" -> StrengthReduce(prog)
    [] name = "dce"    -> DeadCodeEliminate(prog)
    [] name = "cse"    -> CommonSubexpressionEliminate(prog)

(* The function after each pass.  A pass only ever shortens it.            *)
ScanPasses(prog) ==
  FoldLeft(LAMBDA trail, name : Append(trail, RunPass(name, Last(trail))), <<prog>>,
           DefaultPasses)

MaxIterations == 3

-----------------------------------------------------------------------------
(* What a function computes (external: the machine the backends target).   *)

RECURSIVE TwoTo(_)
TwoTo(n) == IF n = 0 THEN 1 ELSE 2 * TwoTo(n - 1)

Wrap(n) == LET half == TwoTo(Width - 1) IN ((n + half) % (2 * half)) - half

Magnitude(n) == IF n < 0 THEN -n ELSE n

(* The machine's signed division truncates.                                *)
Quotient(a, b) ==
  LET q == Magnitude(a) \div Magnitude(b)
  IN  IF (a < 0) = (b < 0) THEN q ELSE -q

Machine(opcode, a, b) == Wrap(CASE opcode = "add" -> a + b
                                [] opcode = "sub" -> a - b
                                [] opcode = "mul" -> a * b
                                [] opcode = "div" -> Quotient(a, b))

(* One step of a run: values of instructions, cell, list, trap, result.    *)
Execute(run, inst, arg) ==
  LET val(v) == IF IsConst(v) THEN Wrap(v[2]) ELSE IF IsInst(v) THEN run.val[v[2]] ELSE arg[v[2]]
      x == val(inst.args[1])
      y == val(inst.args[2])
      set(n) == [run EXCEPT !.val[inst.id] = n]
      trap == [run EXCEPT !.trap = TRUE]
  IN  IF run.trap THEN run
      ELSE CASE inst.op \in Arithmetic ->
                  IF inst.op = "div" /\ y = 0 THEN trap ELSE set(Machine(inst.op, x, y))
             [] inst.op = "load"       -> set(run.cell)
             [] inst.op = "store"      -> [run EXCEPT !.cell = x]
             [] inst.op = "listlen"    -> set(Len(run.list))
             [] inst.op = "listappend" -> [run EXCEPT !.list = Append(@, x)]
             [] inst.op = "listpop"    ->
                  IF run.list = <<>> THEN trap
                  ELSE [set(Last(run.list)) EXCEPT !.list = Front(@)]
             [] inst.op = "ret"        -> [run EXCEPT !.result = x]

Run(prog, arg, n) ==
  FoldLeft(LAMBDA run, inst : Execute(run, inst, arg),
           [val |-> [i \in 1 .. MaxLength |-> 0], cell |-> n, list |-> <<n>>,
            trap |-> FALSE, result |-> 0], prog)

Outcome(run) ==
  [result |-> run.result, cell |-> run.cell, list |-> run.list, trap |-> run.trap]

Meaning(prog) ==
  [arg \in [Args -> Inputs], n \in InitialCells |-> Outcome(Run(prog, arg, n))]

-----------------------------------------------------------------------------
(* Building with IRBuilder, then OptimizationPipeline.run.                 *)

Values == {<<"const", n>> : n \in Consts} \cup {<<"arg", a>> : a \in Args}
            \cup {<<"inst", source[i].id>> :
                    i \in {k \in DOMAIN source : source[k].op \notin Void}}

OptInit ==
  /\ source \in Beginnings
  /\ code = <<>>
  /\ phase = "building"
  /\ iteration = 0
  /\ meaning = <<>>

Emit(opcode, args) ==
  source' = Append(source, [id |-> Len(source) + 1, op |-> opcode, args |-> args])

Build(opcode, args) ==
  /\ phase = "building"
  /\ Len(source) < MaxLength
  /\ Emit(opcode, args)
  /\ UNCHANGED <<code, phase, iteration, meaning>>

BuildRet(value) ==
  /\ phase = "building"
  /\ Emit("ret", <<value>>)
  /\ code' = source'
  /\ phase' = "optimizing"
  /\ meaning' = Meaning(source')
  /\ UNCHANGED iteration

(* One iteration of the loop: all passes in order, and once more if one of *)
(* them changed the number of instructions.                                *)
Iterate ==
  /\ phase = "optimizing"
  /\ LET trail == ScanPasses(code)
         changed == \E i \in DOMAIN trail : Len(trail[i]) # Len(code)
     IN  /\ code' = Last(trail)
         /\ iteration' = iteration + 1
         /\ phase' = IF changed /\ iteration' < MaxIterations
                     THEN "optimizing" ELSE "optimized"
  /\ UNCHANGED <<source, meaning>>

OptNext ==
  \/ \E opcode \in Opcodes : \E args \in [1 .. Arity(opcode) -> Values] :
       Build(opcode, args)
  \/ \E value \in Values : BuildRet(value)
  \/ Iterate

OptSpec == OptInit /\ [][OptNext]_optVars

-----------------------------------------------------------------------------
(* Properties.                                                             *)

(* Whatever the passes removed and redirected, the block stays in SSA form: *)
(* an operand is an argument, a constant or the result of an instruction   *)
(* that stands earlier in the block.                                       *)
OperandsDefined == \A i \in DOMAIN code : \A v \in Range(code[i].args) :
  IsInst(v) => \E k \in 1 .. i - 1 : code[k].id = v[2] /\ code[k].op \notin Void

(* The passes keep the function well-formed throughout, and after every    *)
(* iteration it returns what it did as built, and leaves the memory cell   *)
(* and the list as it did, for all inputs on which it did not trap.        *)
SameMeaning ==
  /\ OperandsDefined
  /\ phase # "building" /\ iteration > 0 =>
       LET now == Meaning(code)
       IN  \A input \in DOMAIN meaning :
             meaning[input].trap \/ now[input] = meaning[input]

(* "Opcodes that have side effects and must never be eliminated": every    *)
(* instruction that changes the list is still there after optimization.    *)
EffectsNotEliminated ==
  \A i \in DOMAIN source : source[i].op \in {"listappend", "listpop"} /\ phase # "building" =>
    \E k \in DOMAIN code : code[k].id = source[i].id
=============================================================================
