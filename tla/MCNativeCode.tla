---------------------------- MODULE MCNativeCode ----------------------------
(* An instance of NativeCode: arithmetic, a diamond for each condition, and *)
(* a loop that keeps its counter and its sum in an array, as the loop of   *)
(* dispatch_vadd (src/uhcr/api/ops.py) keeps its index.                    *)
EXTENDS NativeCode

C(n) == <<"const", n>>
A(k) == <<"arg", k>>
R(i) == <<"inst", i>>

At(label, op, args, cond, to) ==
  [label |-> label, op |-> op, args |-> args, cond |-> cond, to |-> to]
Then(op, args) == At(NoLabel, op, args, NoCond, <<>>)

(* (a * b) + (a - b)                                                       *)
Arithmetic ==
  [params |-> <<"i64", "i64">>,
   insts  |-> <<At("entry", "mul", <<A(1), A(2)>>, NoCond, <<>>),
                Then("sub", <<A(1), A(2)>>),
                Then("add", <<R(1), R(2)>>),
                Then("ret", <<R(3)>>)>>]

(* if a <cond> b: return a - 1 else: return b + 1                          *)
Diamond(cond) ==
  [params |-> <<"i64", "i64">>,
   insts  |-> <<At("entry", "cmp", <<A(1), A(2)>>, cond, <<>>),
                At(NoLabel, "br", <<R(1)>>, NoCond, <<"then", "else">>),
                At("then", "sub", <<A(1), C(1)>>, NoCond, <<>>),
                Then("ret", <<R(3)>>),
                At("else", "add", <<A(2), C(1)>>, NoCond, <<>>),
                Then("ret", <<R(5)>>)>>]

(* if a - b < 0: return a else: return b, wrong where a - b leaves the range *)
Smaller ==
  [params |-> <<"i64", "i64">>,
   insts  |-> <<At("entry", "sub", <<A(1), A(2)>>, NoCond, <<>>),
                At(NoLabel, "cmp", <<R(1), C(0)>>, "lt", <<>>),
                At(NoLabel, "br", <<R(2)>>, NoCond, <<"then", "else">>),
                At("then", "ret", <<A(1)>>, NoCond, <<>>),
                At("else", "ret", <<A(2)>>, NoCond, <<>>)>>]

(* if a: return b else: return 1: a branch on a value no comparison made.  *)
Truth ==
  [params |-> <<"i64", "i64">>,
   insts  |-> <<At("entry", "br", <<A(1)>>, NoCond, <<"then", "else">>),
                At("then", "ret", <<A(2)>>, NoCond, <<>>),
                At("else", "ret", <<C(1)>>, NoCond, <<>>)>>]

(* cells[0] is the index and cells[1] the sum of 0 .. n - 1.               *)
Loop ==
  [params |-> <<"i64", "ptr">>,
   insts  |-> <<At("entry", "store", <<C(0), A(2), C(0)>>, NoCond, <<>>),
                At(NoLabel, "jmp", <<>>, NoCond, <<"test">>),
                At("test", "load", <<A(2), C(0)>>, NoCond, <<>>),
                At(NoLabel, "cmp", <<R(3), A(1)>>, "lt", <<>>),
                At(NoLabel, "br", <<R(4)>>, NoCond, <<"body", "exit">>),
                At("body", "load", <<A(2), C(1)>>, NoCond, <<>>),
                Then("add", <<R(6), R(3)>>),
                Then("store", <<R(7), A(2), C(1)>>),
                Then("add", <<R(3), C(1)>>),
                Then("store", <<R(9), A(2), C(0)>>),
                At(NoLabel, "jmp", <<>>, NoCond, <<"test">>),
                At("exit", "ret", <<>>, NoCond, <<>>)>>]

(* a added to itself fourteen times: a frame of more words than PairBits   *)
(* can count, at the bits ldp has a function of sixty-two values.          *)
LongSum ==
  [params |-> <<"i64">>,
   insts  |-> [i \in 1 .. 15 |->
     IF i = 15 THEN Then("ret", <<R(14)>>)
     ELSE At(IF i = 1 THEN "entry" ELSE NoLabel, "add",
             <<IF i = 1 THEN A(1) ELSE R(i - 1), A(1)>>, NoCond, <<>>)]]

(* a - -1, a constant with all its bits set.                               *)
MinusOne ==
  [params |-> <<"i64">>,
   insts  |-> <<At("entry", "sub", <<A(1), C(-1)>>, NoCond, <<>>), Then("ret", <<R(1)>>)>>]

MCFunctions == {Arithmetic, Smaller, Truth, Loop, LongSum, MinusOne}
               \cup {Diamond(c) : c \in {"eq", "ne", "lt", "le", "gt", "ge"}}

(* SysV AMD64, and the first of AAPCS64 and of RISC-V's convention.        *)
MCArgRegs == [x86_64  |-> <<"rdi", "rsi", "rdx", "rcx", "r8", "r9">>,
              aarch64 |-> <<"x0", "x1", "x2">>,
              riscv64 |-> <<"a0", "a1", "a2">>]

(* Fewer bits of a constant than a word has, and the fewest on RISC-V.     *)
MCConstBits == [aarch64 |-> 4, riscv64 |-> 3]

(* The ends of the range of ten bits and numbers around zero.              *)
MCWords == {-512, -1, 0, 2, 511}
MCCells == {<<0, 0>>, <<7, 500>>}
=============================================================================
