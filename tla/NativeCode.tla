----------------------------- MODULE NativeCode -----------------------------
(***************************************************************************)
(* Native code for scalar functions: the generators and assemblers for     *)
(* x86-64, AArch64 and RISC-V (src/uhcr/compiler), beside the interpreter  *)
(* of CPUGenericBackend (src/uhcr/backends/cpu_generic.py).  A behaviour   *)
(* compiles one function for one target, then interprets it and runs its   *)
(* code on the same arguments.                                             *)
(*                                                                         *)
(* A function is [params, insts]: params are "i64" or "ptr"; insts are the *)
(* instructions of its blocks one after another, the first of each block   *)
(* with the block's label.  A value is <<"const", n>>, <<"arg", k>> or     *)
(* <<"inst", i>>, i being the position.  Code is a sequence of machine     *)
(* instructions, addresses in it are positions.  Machine words have Width  *)
(* bits and take 8 bytes, as 64 bits do; a word nobody has written is Junk. *)
(*                                                                         *)
(* Instructions: add, sub, mul, load, store, cmp, br, jmp, ret.  A pointer *)
(* is to an array, which native code is given by its address and the       *)
(* interpreter by its address or as a list.                                *)
(***************************************************************************)
EXTENDS Integers, Sequences

CONSTANTS
  Functions,  (* the functions compiled                                    *)
  Targets,    (* the processors compiled for                               *)
  ArgRegs,    (* ArgRegs[t]: the registers of the first arguments          *)
  ConstBits,  (* ConstBits[t]: what is encoded of a constant; x86-64: all  *)
  PairBits,   (* bits of the offset in AArch64's stp and ldp               *)
  Width,      (* bits of a word                                            *)
  Words,      (* scalar arguments tried                                    *)
  Cells,      (* initial contents of the array tried                       *)
  StackWords, (* words of stack below the return address (model only)      *)
  Junk        (* what an unwritten word holds                              *)

Registers ==
  {"rax", "rcx", "rdx", "rbx", "rsp", "rbp", "rsi", "rdi", "r8", "r9", "r10", "r11"}
  \cup {"x0", "x1", "x2", "x9", "x10", "x11", "fp", "lr", "sp"}
  \cup {"a0", "a1", "a2", "t0", "t1", "t2", "s0", "ra"}

NoLabel == ""
NoCond  == ""

Opcodes == {"add", "sub", "mul", "load", "store", "cmp", "br", "jmp", "ret"}
Void    == {"store", "br", "jmp", "ret"}

Uses(f, i) == {f.insts[i].args[k] : k \in DOMAIN f.insts[i].args}

(* What IRBuilder's callers keep to: operands and targets exist, labels are *)
(* distinct, a block ends in a branch, a jump or a return and has no other. *)
WellFormed(f) ==
  /\ f.insts # <<>> /\ f.insts[1].label # NoLabel
  /\ \A i \in DOMAIN f.insts :
       /\ \A v \in Uses(f, i) :
            \/ v[1] = "const"
            \/ v[1] = "arg" /\ v[2] \in DOMAIN f.params
            \/ v[1] = "inst" /\ v[2] \in 1 .. i - 1 /\ f.insts[v[2]].op \notin Void
       /\ Len(f.insts[i].to) = (CASE f.insts[i].op = "br"  -> 2
                                  [] f.insts[i].op = "jmp" -> 1
                                  [] OTHER                 -> 0)
       /\ \A k \in DOMAIN f.insts[i].to :
            /\ f.insts[i].to[k] # NoLabel
            /\ \E j \in DOMAIN f.insts : f.insts[j].label = f.insts[i].to[k]
       /\ f.insts[i].op \in {"br", "jmp", "ret"}
            <=> i = Len(f.insts) \/ f.insts[i + 1].label # NoLabel
       /\ \A j \in DOMAIN f.insts :
            f.insts[i].label = f.insts[j].label /\ i # j => f.insts[i].label = NoLabel

ASSUME NativeAssumption ==
  /\ \A f \in Functions :
       /\ f.params \in Seq({"i64", "ptr"})
       /\ f.insts \in Seq([label : STRING, op : Opcodes, args : Seq(STRING \X Int),
                           cond : STRING, to : Seq(STRING)])
       /\ WellFormed(f)
  /\ Targets \subseteq {"x86_64", "aarch64", "riscv64"}
  /\ \A t \in Targets : ArgRegs[t] \in Seq(Registers \ {"rsp", "sp"})
  /\ \A t \in Targets \ {"x86_64"} : ConstBits[t] \in Nat
  /\ PairBits \in Nat \ {0}
  /\ Width \in Nat \ {0} /\ Width % 2 = 0 /\ StackWords \in Nat
  /\ Words \subseteq Int /\ Cells \subseteq Seq(Int)
  /\ Junk \notin Int

(* The stack of the model has room for every frame and what is pushed.     *)
ASSUME StackAssumption ==
  \A f \in Functions : Len(f.params) + Len(f.insts) + 8 <= StackWords

VARIABLES
  func,     (* the function                                                *)
  target,   (* the processor                                               *)
  phase,    (* "arguments", "instructions", "emitting", "linking",         *)
            (* "compiled", "interpreting", "running", "returned",          *)
            (* "strayed": the return address was lost, or "abandoned": a   *)
            (* number left the machine's range where the interpreter's     *)
            (* unbounded integers behave differently                       *)
  idx,      (* the argument, instruction or jump at hand                   *)
  offset,   (* the next free offset below rbp                              *)
  slot,     (* stack_offsets                                               *)
  fused,    (* last_cmp_cond                                               *)
  code,     (* the code emitted                                            *)
  labels,   (* the assembler's labels                                      *)
  patches,  (* the assembler's patches: <<label, position>>                *)
  inputs,   (* the arguments of the call: scalars; a pointer is DataBase   *)
  passed,   (* what the interpreter is given for a pointer: "list", "address" *)
  env,      (* the interpreter's environment                               *)
  array,    (* the elements the interpreter finds there                    *)
  answer,   (* what it returned                                            *)
  regs,     (* the machine's registers                                     *)
  mem,      (* the machine's memory, by address in bytes                   *)
  flags,    (* the operands last compared, or Junk                         *)
  pc        (* position of the machine in the code                         *)

planVars      == <<offset, slot>>
emitVars      == <<fused, code, labels, patches>>
interpretVars == <<env, array, answer>>
machineVars   == <<regs, mem, flags, pc>>
nativeVars    ==
  <<func, target, phase, idx, planVars, emitVars, inputs, passed, interpretVars, machineVars>>

OnX86   == target = "x86_64"
OnRiscv == target = "riscv64"

Inst == func.insts[idx]
Self == <<"inst", idx>>

WordSize == 8

(* Two's complement.                                                       *)
InRange(n) == n \in -(2 ^ (Width - 1)) .. 2 ^ (Width - 1) - 1
Signed(n, bits) == ((n + 2 ^ (bits - 1)) % 2 ^ bits) - 2 ^ (bits - 1)
Wrap(n) == Signed(n, Width)

-----------------------------------------------------------------------------
(* _plan_stack_and_registers, _plan_stack.  Offsets count down from rbp, or *)
(* up from sp, where the first 16 bytes are meant for what is saved.       *)
FirstOffset == IF OnX86 THEN WordSize ELSE 2 * WordSize

(* Mutant: the offset does not move on.                                    *)
PlaceAtSame(v) ==
  /\ slot' = [w \in DOMAIN slot \cup {v} |-> IF w = v THEN offset ELSE slot[w]]
  /\ UNCHANGED offset

Place(v) ==
  /\ slot' = [w \in DOMAIN slot \cup {v} |-> IF w = v THEN offset ELSE slot[w]]
  /\ offset' = offset + WordSize

PlanArgument ==
  /\ phase = "arguments"
  /\ IF idx \in DOMAIN func.params
     THEN Place(<<"arg", idx>>) /\ idx' = idx + 1 /\ UNCHANGED phase
     ELSE phase' = "instructions" /\ idx' = 1 /\ UNCHANGED planVars
  /\ UNCHANGED <<func, target, emitVars, inputs, passed, interpretVars, machineVars>>

PlanInstruction ==
  /\ phase = "instructions"
  /\ idx \in DOMAIN func.insts
  /\ idx' = idx + 1
  /\ IF Inst.op \in Void THEN UNCHANGED planVars ELSE Place(Self)
  /\ UNCHANGED <<func, target, phase, emitVars, inputs, passed, interpretVars, machineVars>>

StackSize == ((offset + 15) \div 16) * 16

-----------------------------------------------------------------------------
(* compile().                                                              *)

FrameReg  == IF OnX86 THEN "rbp" ELSE "sp"
SlotAt(v) == IF OnX86 THEN -slot[v] ELSE slot[v]

(* Arguments beyond the registers are on the caller's stack and are never  *)
(* fetched.                                                                *)
ArgMoves == [k \in DOMAIN func.params \cap DOMAIN ArgRegs[target] |->
               <<"store", FrameReg, SlotAt(<<"arg", k>>), ArgRegs[target][k]>>]

X86Entry == << <<"push", "rbp">>, <<"push", "rbx">>, <<"push", "rsi">>, <<"push", "rdi">>,
              <<"mov", "rbp", "rsp">>, <<"addi", "rsp", "rsp", -StackSize>> >>

(* stp and ldp move sp by words, as many as fit their offset.              *)
PairOffset(n) == WordSize * Signed(n \div WordSize, PairBits)

ArmEntry == << <<"addi", "sp", "sp", PairOffset(-StackSize)>>, <<"store", "sp", 0, "fp">>,
              <<"store", "sp", WordSize, "lr">>, <<"addi", "fp", "sp", 0>> >>

(* These are not the 16 bytes the offsets leave free.                      *)
RiscvEntry == << <<"addi", "sp", "sp", -StackSize>>,
                <<"store", "sp", StackSize - WordSize, "ra">>,
                <<"store", "sp", StackSize - 2 * WordSize, "s0">>,
                <<"addi", "s0", "sp", StackSize>> >>

Prologue ==
  (CASE OnX86 -> X86Entry [] OnRiscv -> RiscvEntry [] OTHER -> ArmEntry) \o ArgMoves

(* Mutant: the saved registers are restored in the order they were saved.  *)
X86ExitInOrder ==
  << <<"mov", "rsp", "rbp">>, <<"pop", "rbp">>, <<"pop", "rbx">>, <<"pop", "rsi">>,
    <<"pop", "rdi">>, <<"ret">> >>

X86Exit == << <<"mov", "rsp", "rbp">>, <<"pop", "rdi">>, <<"pop", "rsi">>, <<"pop", "rbx">>,
             <<"pop", "rbp">>, <<"ret">> >>

ArmExit == << <<"load", "fp", "sp", 0>>, <<"load", "lr", "sp", WordSize>>,
             <<"addi", "sp", "sp", PairOffset(StackSize)>>, <<"ret">> >>

RiscvExit == << <<"load", "ra", "sp", StackSize - WordSize>>,
               <<"load", "s0", "sp", StackSize - 2 * WordSize>>,
               <<"addi", "sp", "sp", StackSize>>, <<"ret">> >>

Epilogue == CASE OnX86 -> X86Exit [] OnRiscv -> RiscvExit [] OTHER -> ArmExit

BeginEmission ==
  /\ phase = "instructions"
  /\ idx \notin DOMAIN func.insts
  /\ phase' = "emitting" /\ idx' = 1
  /\ code' = Prologue
  /\ UNCHANGED <<func, target, planVars, fused, labels, patches, inputs, passed, interpretVars,
                 machineVars>>

(* A constant keeps its low bits.                                          *)
Immediate(n) == IF OnX86 THEN n ELSE n % 2 ^ ConstBits[target]

LoadScalar(v, reg) ==
  IF v[1] = "const" THEN <<"imm", reg, Immediate(v[2])>>
  ELSE <<"load", reg, FrameReg, SlotAt(v)>>

StoreScalar(reg) == <<"store", FrameReg, SlotAt(Self), reg>>

(* r10 becomes the address of element v of the array at p.                 *)
Element(p, v) == <<LoadScalar(p, "r10"), LoadScalar(v, "r11"), <<"imm", "rax", WordSize>>,
                   <<"mul", "r11", "r11", "rax">>, <<"add", "r10", "r10", "r11">> >>

(* last_cmp_cond; every block starts with none.                            *)
Fused  == IF Inst.label = NoLabel THEN fused ELSE NoCond

(* The comparison a branch is fused with, or the fallback; RISC-V has no   *)
(* branch for le and gt.                                                   *)
Branch == IF Fused = NoCond \/ (OnRiscv /\ Fused \in {"le", "gt"}) THEN "ne" ELSE Fused

(* The registers of the operands and of the result.                        *)
Scratch == CASE OnX86 -> <<"r10", "r11", "r10">>
             [] OnRiscv -> <<"t0", "t1", "t2">>
             [] OTHER -> <<"x9", "x10", "x11">>
RetReg  == CASE OnX86 -> "rax" [] OnRiscv -> "a0" [] OTHER -> "x0"

Operands(n) == <<LoadScalar(n.args[1], Scratch[1]), LoadScalar(n.args[2], Scratch[2])>>

(* The machine instructions of each opcode; n is the IR instruction.       *)
ArithCode(n) ==
  Operands(n) \o <<<<n.op, Scratch[3], Scratch[1], Scratch[2]>>, StoreScalar(Scratch[3])>>

LoadCode(n) ==
  Element(n.args[1], n.args[2]) \o << <<"load", "r10", "r10", 0>>, StoreScalar("r10") >>

StoreCode(n) ==
  Element(n.args[2], n.args[3])
    \o << LoadScalar(n.args[1], "r11"), <<"store", "r10", 0, "r11">> >>

(* RISC-V compares when it branches.                                       *)
CmpCode(n) ==
  Operands(n) \o (IF OnRiscv THEN <<>> ELSE << <<"cmp", Scratch[1], Scratch[2]>> >>)

(* The jumps are emitted without a displacement, with a patch for it.      *)
BranchCode ==
  << IF OnRiscv THEN <<"bcc", Branch, Scratch[1], Scratch[2], 0>> ELSE <<"jcc", Branch, 0>>,
     <<"jmp", 0>> >>

RetCode(n) ==
  (IF n.args = <<>> THEN <<>> ELSE <<LoadScalar(n.args[1], RetReg)>>) \o Epilogue

(* AArch64 and RISC-V have no case for load and store, and emit nothing.   *)
Translated(n) ==
  CASE n.op \in {"add", "sub", "mul"} -> ArithCode(n)
    [] n.op = "load"  -> IF OnX86 THEN LoadCode(n) ELSE <<>>
    [] n.op = "store" -> IF OnX86 THEN StoreCode(n) ELSE <<>>
    [] n.op = "cmp"   -> CmpCode(n)
    [] n.op = "br"    -> BranchCode
    [] n.op = "jmp"   -> << <<"jmp", 0>> >>
    [] n.op = "ret"   -> RetCode(n)

(* Jumps come last in what is emitted for them, one per target, in order.  *)
PatchesOf(n, end) == [k \in DOMAIN n.to |-> <<n.to[k], end - Len(n.to) + k>>]

Emit ==
  /\ phase = "emitting"
  /\ idx \in DOMAIN func.insts
  /\ fused' = IF Inst.op = "cmp" THEN Inst.cond ELSE Fused
  /\ labels' = IF Inst.label = NoLabel THEN labels
               ELSE [l \in DOMAIN labels \cup {Inst.label} |->
                       IF l = Inst.label THEN Len(code) + 1 ELSE labels[l]]
  /\ code' = code \o Translated(Inst)
  /\ patches' = patches \o PatchesOf(Inst, Len(code'))
  /\ idx' = idx + 1
  /\ UNCHANGED <<func, target, phase, planVars, inputs, passed, interpretVars, machineVars>>

EndEmission ==
  /\ phase = "emitting"
  /\ idx \notin DOMAIN func.insts
  /\ phase' = "linking" /\ idx' = 1
  /\ UNCHANGED <<func, target, planVars, emitVars, inputs, passed, interpretVars, machineVars>>

(* x86-64 counts displacements from the instruction after the jump.        *)
JumpLength == IF OnX86 THEN 1 ELSE 0

(* Mutant: the displacement is counted from the jump itself everywhere.    *)
DisplacementFromJump(label, at) == labels[label] - at

Displacement(label, at) == labels[label] - (at + JumpLength)

(* resolve_labels, one patch a step.                                       *)
Patch ==
  /\ phase = "linking"
  /\ IF idx \in DOMAIN patches
     THEN LET label == patches[idx][1]
              at    == patches[idx][2]
          IN  /\ code' = [code EXCEPT ![at][Len(code[at])] = Displacement(label, at)]
              /\ idx' = idx + 1
              /\ UNCHANGED <<phase, patches>>
     ELSE phase' = "compiled" /\ patches' = <<>> /\ UNCHANGED <<code, idx>>
  /\ UNCHANGED <<func, target, planVars, fused, labels, inputs, passed, interpretVars,
                 machineVars>>

-----------------------------------------------------------------------------
(* The call: the interpreter first, then the machine.                      *)

DataBase == WordSize

Addresses == {WordSize * k : k \in -StackWords .. 8}

StackReg  == IF OnX86 THEN "rsp" ELSE "sp"
Saved     == CASE OnX86 -> <<"rbp", "rbx", "rsi", "rdi">>
               [] OnRiscv -> <<"s0", "ra">>
               [] OTHER -> <<"fp", "lr">>

(* What the registers hold at the call: the arguments, or what the caller  *)
(* has in the ones the callee must give back, which is no word.            *)
Kept(r) ==
  LET k == {j \in DOMAIN Saved : Saved[j] = r}
  IN  CASE r = StackReg -> 0
        [] k # {} -> 2 ^ Width + CHOOSE j \in k : TRUE
        [] OTHER -> Junk

AtCall(r, given) ==
  LET k == {j \in DOMAIN given \cap DOMAIN ArgRegs[target] : ArgRegs[target][j] = r}
  IN  IF k = {} THEN Kept(r) ELSE given[CHOOSE j \in k : TRUE]

(* At an address the interpreter has elements of 4 bytes, half a word, the *)
(* low half first; a list has numbers.                                     *)
Half == Width \div 2

Halves(cells) ==
  [k \in 1 .. 2 * Len(cells) |->
     LET word == cells[(k + 1) \div 2] % 2 ^ Width
     IN  Signed(IF k % 2 = 1 THEN word ELSE word \div 2 ^ Half, Half)]

Stored(n) == IF passed = "address" THEN Signed(n, Half) ELSE n

Call ==
  /\ phase = "compiled"
  /\ phase' = "interpreting" /\ idx' = 1
  /\ \E values \in [DOMAIN func.params -> Words], cells \in Cells :
       /\ inputs' = [k \in DOMAIN func.params |->
                       IF func.params[k] = "ptr" THEN DataBase ELSE values[k]]
       /\ \A k \in DOMAIN func.params : func.params[k] = "ptr" => values[k] = 0
       /\ passed' \in (IF \E k \in DOMAIN func.params : func.params[k] = "ptr"
                       THEN {"list", "address"} ELSE {"list"})
       /\ array' = IF passed' = "address" THEN Halves(cells) ELSE cells
       /\ mem' = [a \in Addresses |->
            IF a \div WordSize \in DOMAIN cells THEN cells[a \div WordSize] ELSE Junk]
  /\ env' = <<>> /\ answer' = Junk
  /\ regs' = [r \in Registers |-> AtCall(r, inputs')]
  /\ flags' = Junk /\ pc' = 1
  /\ UNCHANGED <<func, target, planVars, emitVars>>

Value(v) == CASE v[1] = "const" -> v[2]
              [] v[1] = "arg"   -> inputs[v[2]]
              [] v[1] = "inst"  -> env[v[2]]

Bind(n) == env' = [i \in DOMAIN env \cup {idx} |-> IF i = idx THEN n ELSE env[i]]

Arith(op, a, b) == CASE op = "add" -> a + b [] op = "sub" -> a - b [] op = "mul" -> a * b

Holds(cond, a, b) ==
  CASE cond = "eq" -> a = b  [] cond = "ne" -> a # b
    [] cond = "lt" -> a < b  [] cond = "le" -> a <= b
    [] cond = "gt" -> a > b  [] cond = "ge" -> a >= b

Goto(label) == idx' = CHOOSE i \in DOMAIN func.insts : func.insts[i].label = label

Arg(k) == Value(Inst.args[k])

(* One instruction of the interpreter.  It knows no machine range: the     *)
(* comparison of two runs ends where a number outside it is compared.      *)
Interpret ==
  /\ phase = "interpreting"
  /\ \/ /\ Inst.op \in {"add", "sub", "mul"}
        /\ Bind(Arith(Inst.op, Arg(1), Arg(2)))
        /\ idx' = idx + 1 /\ UNCHANGED <<phase, array, answer>>
     \/ /\ Inst.op = "load"
        /\ Bind(array[Arg(2) + 1])
        /\ idx' = idx + 1 /\ UNCHANGED <<phase, array, answer>>
     \/ /\ Inst.op = "store"
        /\ array' = [array EXCEPT ![Arg(3) + 1] = Stored(Arg(1))]
        /\ idx' = idx + 1 /\ UNCHANGED <<phase, env, answer>>
     \/ /\ Inst.op = "cmp"
        /\ IF InRange(Arg(1)) /\ InRange(Arg(2))
           THEN Bind(IF Holds(Inst.cond, Arg(1), Arg(2)) THEN 1 ELSE 0)
                /\ idx' = idx + 1 /\ UNCHANGED phase
           ELSE phase' = "abandoned" /\ UNCHANGED <<env, idx>>
        /\ UNCHANGED <<array, answer>>
     \/ /\ Inst.op = "br"
        /\ Goto(Inst.to[IF Arg(1) # 0 THEN 1 ELSE 2])
        /\ UNCHANGED <<phase, interpretVars>>
     \/ /\ Inst.op = "jmp"
        /\ Goto(Inst.to[1])
        /\ UNCHANGED <<phase, interpretVars>>
     \/ /\ Inst.op = "ret"
        /\ answer' = IF Inst.args = <<>> THEN Junk ELSE Arg(1)
        /\ phase' = "running" /\ idx' = 1
        /\ UNCHANGED <<env, array>>
  /\ UNCHANGED <<func, target, planVars, emitVars, inputs, passed, machineVars>>

-----------------------------------------------------------------------------
(* The machine (external).                                                 *)

Op == code[pc]

Known(a, b) == Junk \notin {a, b}

Read(a) == IF a \in Addresses THEN mem[a] ELSE Junk

SetReg(r, n)   == regs' = [regs EXCEPT ![r] = n]
Write(a, n)    == mem' = IF a \in Addresses THEN [mem EXCEPT ![a] = n] ELSE mem

Next1   == pc' = pc + 1
Jump(n) == pc' = pc + JumpLength + n

(* A condition on flags no comparison left, or on words nobody wrote, may  *)
(* come out either way.                                                    *)
Outcomes(cond, a, b) == IF Known(a, b) THEN {Holds(cond, a, b)} ELSE BOOLEAN
Taken(cond) == IF flags = Junk THEN BOOLEAN ELSE Outcomes(cond, flags[1], flags[2])

Move ==
  \/ /\ Op[1] = "imm" /\ SetReg(Op[2], Op[3]) /\ UNCHANGED <<mem, flags>>
  \/ /\ Op[1] = "mov" /\ SetReg(Op[2], regs[Op[3]]) /\ UNCHANGED <<mem, flags>>
  \/ /\ Op[1] = "load" /\ regs[Op[3]] # Junk
     /\ SetReg(Op[2], Read(regs[Op[3]] + Op[4])) /\ UNCHANGED <<mem, flags>>
  \/ /\ Op[1] = "store" /\ regs[Op[2]] # Junk
     /\ Write(regs[Op[2]] + Op[3], regs[Op[4]]) /\ UNCHANGED <<regs, flags>>
  \/ /\ Op[1] = "push"
     /\ SetReg("rsp", regs.rsp - WordSize)
     /\ Write(regs.rsp - WordSize, regs[Op[2]]) /\ UNCHANGED flags
  \/ /\ Op[1] = "pop"
     /\ regs' = [regs EXCEPT !.rsp = @ + WordSize, ![Op[2]] = Read(regs.rsp)]
     /\ UNCHANGED <<mem, flags>>

Compute ==
  \/ /\ Op[1] = "addi" /\ SetReg(Op[2], regs[Op[3]] + Op[4])
     /\ flags' = (IF OnX86 THEN Junk ELSE flags) /\ UNCHANGED mem
  \/ /\ Op[1] \in {"add", "sub", "mul"}
     /\ LET a == regs[Op[3]]
            b == regs[Op[4]]
        IN  SetReg(Op[2], IF Known(a, b) THEN Wrap(Arith(Op[1], a, b)) ELSE Junk)
     /\ flags' = (IF OnX86 THEN Junk ELSE flags) /\ UNCHANGED mem
  \/ /\ Op[1] = "cmp"
     /\ flags' = <<regs[Op[2]], regs[Op[3]]>>
     /\ UNCHANGED <<regs, mem>>

JumpIf(taken) == IF taken THEN Jump(Op[Len(Op)]) ELSE Next1

(* x86-64 takes the return address from the stack, where nothing writes    *)
(* (see CallerUndisturbed); the others from a register.                    *)
LinkReg == IF OnRiscv THEN "ra" ELSE "lr"

Return ==
  /\ Op[1] = "ret"
  /\ IF OnX86 THEN phase' = "returned" /\ SetReg("rsp", regs.rsp + WordSize)
     ELSE /\ phase' = IF regs[LinkReg] = Kept(LinkReg) THEN "returned" ELSE "strayed"
          /\ UNCHANGED regs
  /\ UNCHANGED <<mem, flags, pc>>

Execute ==
  /\ phase = "running"
  /\ \/ Move /\ Next1 /\ UNCHANGED phase
     \/ Compute /\ Next1 /\ UNCHANGED phase
     \/ /\ Op[1] = "jcc"
        /\ \E taken \in Taken(Op[2]) : JumpIf(taken)
        /\ UNCHANGED <<phase, regs, mem, flags>>
     \/ /\ Op[1] = "bcc"
        /\ \E taken \in Outcomes(Op[2], regs[Op[3]], regs[Op[4]]) : JumpIf(taken)
        /\ UNCHANGED <<phase, regs, mem, flags>>
     \/ /\ Op[1] = "jmp" /\ Jump(Op[2])
        /\ UNCHANGED <<phase, regs, mem, flags>>
     \/ Return
  /\ UNCHANGED <<func, target, idx, planVars, emitVars, inputs, passed, interpretVars>>

-----------------------------------------------------------------------------
NativeInit ==
  /\ func \in Functions /\ target \in Targets
  /\ phase = "arguments" /\ idx = 1
  /\ offset = FirstOffset /\ slot = <<>>
  /\ fused = NoCond /\ code = <<>> /\ labels = <<>> /\ patches = <<>>
  /\ inputs = <<>> /\ passed = "list" /\ env = <<>> /\ array = <<>> /\ answer = Junk
  /\ regs = [r \in Registers |-> Junk] /\ mem = <<>> /\ flags = Junk /\ pc = 1

(* The call is over; anything else that cannot step is stuck.              *)
Over == phase \in {"returned", "strayed", "abandoned"} /\ UNCHANGED nativeVars

NativeNext ==
  \/ PlanArgument \/ PlanInstruction
  \/ BeginEmission \/ Emit \/ EndEmission \/ Patch
  \/ Call \/ Interpret \/ Execute \/ Over

NativeSpec == NativeInit /\ [][NativeNext]_nativeVars

-----------------------------------------------------------------------------
(* Properties.                                                             *)

(* Every value has eight bytes of the frame to itself: no two slots        *)
(* overlap, none lies below the stack pointer, where a push would overwrite *)
(* it, and none begins below FirstOffset, which on x86-64 is the saved rbp *)
(* and on AArch64 the two words of stp.  On RISC-V ra and s0 lie elsewhere: *)
(* see RiscvUndisturbed.                                                   *)
SlotsApart ==
  /\ \A v, w \in DOMAIN slot : v # w =>
       slot[v] + WordSize <= slot[w] \/ slot[w] + WordSize <= slot[v]
  /\ \A v \in DOMAIN slot : FirstOffset <= slot[v] /\ slot[v] + WordSize <= StackSize

(* What the generators leave to the callers and do not handle otherwise:   *)
(* every argument comes in a register, a branch is on the comparison right *)
(* before it, and nothing else uses the value of a comparison; on AArch64  *)
(* and RISC-V no load and store, no constant that needs more bits, and on  *)
(* RISC-V neither le nor gt.                                               *)
Supported(f) ==
  /\ Len(f.params) <= Len(ArgRegs[target])
  /\ \A i \in DOMAIN f.insts :
       /\ f.insts[i].op = "br" =>
            /\ Uses(f, i) = {<<"inst", i - 1>>}
            /\ f.insts[i - 1].op = "cmp" /\ f.insts[i].label = NoLabel
       /\ f.insts[i].op # "br" =>
            \A j \in DOMAIN f.insts : f.insts[j].op = "cmp" => <<"inst", j>> \notin Uses(f, i)
       /\ ~OnX86 =>
            /\ f.insts[i].op \notin {"load", "store"}
            /\ \A v \in Uses(f, i) : v[1] = "const" => v[2] \in 0 .. 2 ^ ConstBits[target] - 1
       /\ OnRiscv => f.insts[i].cond \notin {"le", "gt"}

(* Given an address, the interpreter takes every index for one of 4 bytes, *)
(* where native code has 8.                                                *)
SameElements ==
  passed = "address" => \A i \in DOMAIN func.insts : func.insts[i].op \notin {"load", "store"}

FrameFits == target = "aarch64" => PairOffset(StackSize) = StackSize

(* The program stores nothing on the stack: no index is negative.          *)
StoresInArrays ==
  OnX86 /\ phase = "running" /\ pc \in DOMAIN code /\ Op[1] = "store" /\ Op[2] = "r10"
    => regs.r10 + Op[3] \notin {WordSize * k : k \in -StackWords .. -1}

(* The native code of a supported function, on AArch64 of one whose frame  *)
(* ldp's offset can hold, computes what the interpreter computes: the same *)
(* answer modulo the machine's range, and the same array where the         *)
(* interpreter was given a list, whichever way every branch goes; and it   *)
(* stores where the interpreter does, in arrays.  Nothing is said of loads *)
(* and stores through an address, where the two are known to differ.       *)
NativeAgrees ==
  /\ phase = "returned" /\ Supported(func) /\ FrameFits /\ SameElements =>
       /\ answer # Junk => regs[RetReg] = Wrap(answer)
       /\ passed = "list" => \A k \in DOMAIN array : mem[WordSize * k] = Wrap(array[k])
  /\ Supported(func) => StoresInArrays

Undisturbed ==
  /\ \A j \in DOMAIN Saved : regs[Saved[j]] = AtCall(Saved[j], inputs)
  /\ regs[StackReg] = AtCall(StackReg, inputs) + (IF OnX86 THEN WordSize ELSE 0)

Gone == phase \in {"returned", "strayed"}

(* Whatever path it takes through the code, a call on x86-64, and one on   *)
(* AArch64 with such a frame, gives the registers it saved back as they    *)
(* were, the return address among them, and the stack.                     *)
CallerUndisturbed == Gone /\ FrameFits /\ ~OnRiscv => Undisturbed

(* "Callee-saved: s0-s11", "After saved ra + s0": on RISC-V a call gives   *)
(* back ra, s0 and the stack pointer.                                      *)
RiscvUndisturbed == Gone /\ OnRiscv => Undisturbed
=============================================================================
