----------------------------- MODULE MCOptimizer -----------------------------
(* Integers of two bits, so that every sum and product can wrap, and the   *)
(* least and the greatest as inputs.  The literals 0 and 1 are what the    *)
(* strength reductions look for.  Two instructions are explored after each *)
(* beginning: a load followed by a store, the same subtraction twice, and  *)
(* a sum that overflows with a product that is reduced.                    *)
EXTENDS Optimizer

CONSTANT arg0

SomeInputs == {-2, 1}

Instr(id, opcode, args) == [id |-> id, op |-> opcode, args |-> args]
Arg == <<"arg", arg0>>

LoadStore == <<Instr(1, "load", <<>>), Instr(2, "store", <<ConstOf(1)>>)>>
SubTwice  == <<Instr(1, "sub", <<Arg, ConstOf(1)>>), Instr(2, "sub", <<Arg, ConstOf(1)>>)>>
AddMul    == <<Instr(1, "add", <<ConstOf(1), ConstOf(1)>>),
               Instr(2, "mul", <<Arg, ConstOf(0)>>)>>

SomeBeginnings == {LoadStore, SubTwice, AddMul}

(* For the programs with lists: nothing in front.                          *)
NoBeginning == {<<>>}
=============================================================================
