-------------------------- MODULE NativeCodeProofs --------------------------
(***************************************************************************)
(* Proofs about NativeCode.  First the frame layout, for every function,   *)
(* well formed or not, and every register convention.  That no two slots   *)
(* overlap is inductive only together with where the next one goes: Layout *)
(* adds that every slot ends at or before the next free offset.            *)
(*                                                                         *)
(* Then what a call leaves behind, whatever way it takes through the code: *)
(* FlowOK says of the code, from the prologue on to the last patch, where  *)
(* each place leads; MachineOK says what the machine has saved, and where, *)
(* at the place it has reached.                                            *)
(***************************************************************************)
EXTENDS NativeCode, NumberLemmas, TLAPS

Bounded == \A v \in DOMAIN slot :
             slot[v] \in Nat /\ FirstOffset <= slot[v] /\ slot[v] + WordSize <= offset

Disjoint == \A v, w \in DOMAIN slot : v # w =>
              slot[v] + WordSize <= slot[w] \/ slot[w] + WordSize <= slot[v]

Layout == /\ offset \in Nat /\ FirstOffset <= offset
          /\ Bounded
          /\ Disjoint

(* The frame is rounded up, never down: it reaches the next free offset.   *)
LEMMA FrameReachesOffset == ASSUME offset \in Nat PROVE offset <= StackSize
  BY DEF StackSize

(* A new slot starts where the last one ended, or beyond.                  *)
LEMMA PlaceKeepsLayout == ASSUME NEW v, Layout, Place(v), target' = target PROVE Layout'
<1>0. PICK first \in Nat : first = FirstOffset /\ FirstOffset' = first
  BY DEF FirstOffset, OnX86, WordSize
<1>1. /\ offset \in Nat /\ first <= offset
      /\ offset' = offset + 8
  BY <1>0 DEF Layout, Place, WordSize
<1>2. /\ DOMAIN slot' = DOMAIN slot \cup {v}
      /\ slot'[v] = offset
      /\ \A w \in DOMAIN slot : w # v => slot'[w] = slot[w]
  BY DEF Place
<1>3. \A w \in DOMAIN slot : slot[w] \in Nat /\ first <= slot[w] /\ slot[w] + 8 <= offset
  BY <1>0 DEF Layout, Bounded, WordSize
<1>4. \A w \in DOMAIN slot' :
        w # v => w \in DOMAIN slot /\ slot'[w] = slot[w] /\ slot'[w] + 8 <= offset
  BY <1>2, <1>3
<1>5. Bounded'
  <2>1. SUFFICES ASSUME NEW w \in DOMAIN slot'
                 PROVE  slot'[w] \in Nat /\ first <= slot'[w] /\ slot'[w] + 8 <= offset'
    BY <1>0 DEF Bounded, WordSize
  <2>2. CASE w = v
    BY <1>1, <1>2, <2>2
  <2>3. CASE w # v
    BY <1>1, <1>3, <1>4, <2>1, <2>3
  <2>4. QED BY <2>2, <2>3
<1>6. Disjoint'
  <2>1. SUFFICES ASSUME NEW w \in DOMAIN slot', NEW u \in DOMAIN slot', w # u
                 PROVE  slot'[w] + 8 <= slot'[u] \/ slot'[u] + 8 <= slot'[w]
    BY DEF Disjoint, WordSize
  <2>2. CASE w = v \/ u = v
    BY <1>2, <1>4, <2>1, <2>2
  <2>3. CASE w # v /\ u # v
    <3>1. /\ w \in DOMAIN slot /\ slot'[w] = slot[w]
          /\ u \in DOMAIN slot /\ slot'[u] = slot[u]
      BY <1>4, <2>1, <2>3
    <3>2. QED BY <2>1, <3>1 DEF Layout, Disjoint, WordSize
  <2>4. QED BY <2>2, <2>3
<1>7. QED BY <1>0, <1>1, <1>5, <1>6 DEF Layout, WordSize

(* Nothing but Place moves a slot or the offset.                           *)
LEMMA StepKeepsLayout == Layout /\ [NativeNext]_nativeVars => Layout'
<1>1. SUFFICES ASSUME Layout, [NativeNext]_nativeVars PROVE Layout'
  OBVIOUS
<1>2. ASSUME UNCHANGED <<planVars, target>> PROVE Layout'
  BY <1>1, <1>2 DEF planVars, Layout, Bounded, Disjoint, FirstOffset, OnX86
<1>3. CASE PlanArgument
  BY <1>1, <1>2, <1>3, PlaceKeepsLayout DEF PlanArgument
<1>4. CASE PlanInstruction
  BY <1>1, <1>2, <1>4, PlaceKeepsLayout DEF PlanInstruction
<1>5. CASE BeginEmission
  BY <1>2, <1>5 DEF BeginEmission
<1>6. CASE Emit
  BY <1>2, <1>6 DEF Emit
<1>7. CASE EndEmission
  BY <1>2, <1>7 DEF EndEmission
<1>8. CASE Patch
  BY <1>2, <1>8 DEF Patch
<1>9. CASE Call
  BY <1>2, <1>9 DEF Call
<1>10. CASE Interpret
  BY <1>2, <1>10 DEF Interpret
<1>11. CASE Execute
  BY <1>2, <1>11 DEF Execute
<1>12. CASE Over \/ UNCHANGED nativeVars
  BY <1>2, <1>12 DEF Over, nativeVars
<1>13. QED
  BY <1>1, <1>3, <1>4, <1>5, <1>6, <1>7, <1>8, <1>9, <1>10, <1>11, <1>12 DEF NativeNext

(* At every moment, while the frame is being laid out, the code emitted and *)
(* run, no two slots of the function overlap, and each lies inside the frame *)
(* and beyond FirstOffset.                                                 *)
THEOREM SlotsAlwaysApart == NativeSpec => []SlotsApart
<1>1. NativeInit => Layout
  BY DEF NativeInit, FirstOffset, Layout, Bounded, Disjoint, WordSize
<1>2. Layout => SlotsApart
  <2>1. SUFFICES ASSUME Layout PROVE SlotsApart
    OBVIOUS
  <2>2. offset <= StackSize /\ StackSize \in Int
    BY <2>1, FrameReachesOffset DEF Layout, StackSize
  <2>3. ASSUME NEW v \in DOMAIN slot
        PROVE  FirstOffset <= slot[v] /\ slot[v] + WordSize <= StackSize
    BY <2>1, <2>2 DEF Layout, Bounded, WordSize
  <2>4. QED BY <2>1, <2>3 DEF Layout, Disjoint, SlotsApart
<1>3. QED BY <1>1, <1>2, StepKeepsLayout, PTL DEF NativeSpec

-----------------------------------------------------------------------------
(* The caller's registers.  What is proved of the code: where it may go    *)
(* from each place, and what the instruction there may write.              *)

(* A sequence, whatever its elements.                                      *)
IsList(s) == Len(s) \in Nat /\ s = [i \in 1 .. Len(s) |-> s[i]]

(* The first instructions of the prologue, and their number and that of the *)
(* epilogue's.                                                             *)
Entry == IF OnX86 THEN X86Entry ELSE ArmEntry
Exit  == IF OnX86 THEN X86Exit ELSE ArmExit
Steps == IF OnX86 THEN 6 ELSE 4

Scratches == IF OnX86 THEN {"r10", "r11", "rax"} ELSE {"x9", "x10", "x11", "x0"}

(* Writes at most registers nobody keeps anything in, the slots, or through *)
(* r10 an array.                                                           *)
Harmless(c) ==
  \/ c[1] \in {"imm", "load", "add", "sub", "mul"} /\ c[2] \in Scratches
  \/ c[1] = "cmp"
  \/ /\ c[1] = "store" /\ c[2] = FrameReg /\ c[3] \in Int
     /\ IF OnX86 THEN c[3] <= -8 ELSE 16 <= c[3]
  \/ c[1] = "store" /\ c[2] = "r10" /\ OnX86

(* A jump; its last field is the displacement.                             *)
IsJump(c) == /\ IsList(c)
             /\ \/ c[1] = "jmp" /\ Len(c) = 2
                \/ c[1] = "jcc" /\ Len(c) = 3

(* The epilogue starts at s.                                               *)
ExitAt(s) == /\ s + Steps - 1 <= Len(code)
             /\ \A k \in 1 .. Steps : code[s + k - 1] = Exit[k]

(* A place at which the frame is set up.                                   *)
FramePlace(p) == /\ p \in Steps + 1 .. Len(code)
                 /\ Harmless(code[p]) \/ IsJump(code[p]) \/ ExitAt(p)

(* The place behind the code is one too while there is more to emit.       *)
Open     == phase = "emitting" /\ idx \in DOMAIN func.insts
Reach(p) == FramePlace(p) \/ (Open /\ p = Len(code) + 1)

(* The jump at p waits for its patch; where it goes once it has it.        *)
Pending(p) == \E k \in DOMAIN patches : (phase = "linking" => idx <= k) /\ patches[k][2] = p
Target(p)  == p + JumpLength + code[p][Len(code[p])]

Emitted == phase \notin {"arguments", "instructions"}

(* Every label of an emitted block stands at a place that can be reached.  *)
LabelsOK ==
  /\ \A l \in DOMAIN labels : labels[l] \in Nat /\ Reach(labels[l])
  /\ \A j \in DOMAIN func.insts :
       (phase = "emitting" => j < idx) /\ func.insts[j].label # NoLabel
         => func.insts[j].label \in DOMAIN labels

(* Every patch is for a jump, to a label some block has.                   *)
PatchesOK ==
  /\ IsList(patches)
  /\ phase \notin {"emitting", "linking"} => patches = <<>>
  /\ \A k \in DOMAIN patches :
       /\ patches[k][2] \in Steps + 1 .. Len(code)
       /\ IsJump(code[patches[k][2]])
       /\ \E j \in DOMAIN func.insts :
            func.insts[j].label = patches[k][1] /\ func.insts[j].label # NoLabel

(* The code: the prologue, then instructions none of which leads out of the *)
(* frame but through an epilogue. A jump not yet patched leads nowhere.    *)
FlowOK ==
  /\ IsList(code)
  /\ Steps <= Len(code)
  /\ \A k \in 1 .. Steps : code[k] = Entry[k]
  /\ Reach(Steps + 1)
  /\ \A p \in Steps + 1 .. Len(code) :
       /\ Harmless(code[p]) \/ (IsJump(code[p]) /\ code[p][1] = "jcc") => Reach(p + 1)
       /\ IsJump(code[p]) => Pending(p) \/ Reach(Target(p))

(* What the values' slots are while the frame is laid out, and after.      *)
PlanOK ==
  /\ func \in Functions /\ target \in Targets
  /\ phase \in {"arguments", "instructions", "emitting", "linking"} => idx \in Nat \ {0}
  /\ offset \in Nat /\ FirstOffset <= offset
  /\ phase = "arguments" =>
       /\ idx <= Len(func.params) + 1
       /\ offset <= FirstOffset + 8 * (idx - 1)
  /\ phase = "instructions" =>
       /\ idx <= Len(func.insts) + 1
       /\ offset <= FirstOffset + 8 * (Len(func.params) + idx - 1)
  /\ Emitted => offset <= FirstOffset + 8 * (Len(func.params) + Len(func.insts))
  /\ \A v \in DOMAIN slot : slot[v] \in Nat /\ FirstOffset <= slot[v]
  /\ \A k \in DOMAIN func.params :
       (phase = "arguments" => k < idx) => <<"arg", k>> \in DOMAIN slot
  /\ phase # "arguments" => \A i \in DOMAIN func.insts :
       (phase = "instructions" => i < idx) /\ func.insts[i].op \notin Void
         => <<"inst", i>> \in DOMAIN slot

(* Where the saved registers are, how many, and what frames start at.      *)
SavedAt(j) == IF OnX86 THEN -8 * j ELSE 8 * (j - 1) - StackSize
Count      == IF OnX86 THEN 4 ELSE 2
FrameBase  == IF OnX86 THEN -32 ELSE -StackSize

Owner(j)   == AtCall(Saved[j], inputs)
Stacked(n) == \A j \in 1 .. n : mem[SavedAt(j)] = Owner(j)
Holding(S) == \A j \in S : regs[Saved[j]] = Owner(j)

(* Before the k-th instruction of the prologue.                            *)
EnterState(k) ==
  IF OnX86
  THEN /\ Stacked(IF k <= 4 THEN k - 1 ELSE 4)
       /\ Holding(k .. 4)
       /\ regs.rsp = -8 * (IF k <= 4 THEN k - 1 ELSE 4)
       /\ k = 6 => regs.rbp = -32
  ELSE /\ Stacked(IF k = 1 THEN 0 ELSE k - 2)
       /\ Holding({j \in 1 .. 2 : k - 1 <= j})
       /\ regs.sp = (IF k = 1 THEN 0 ELSE -StackSize)

(* In the body of the function.                                            *)
InFrame == Stacked(Count) /\ regs[FrameReg] = FrameBase

(* Before the k-th instruction of the epilogue.                            *)
LeaveState(k) ==
  IF OnX86
  THEN Stacked(4) /\ Holding({j \in 1 .. 4 : 7 - k <= j}) /\ regs.rsp = -8 * (6 - k)
  ELSE /\ Stacked(2) /\ Holding({j \in 1 .. 2 : j <= k - 1})
       /\ regs.sp = (IF k = 4 THEN 0 ELSE -StackSize)

(* Where the machine is, and what it has saved by then.                    *)
MachineOK ==
  phase \in {"interpreting", "running"} =>
    /\ regs = [r \in Registers |-> regs[r]]
    /\ mem = [a \in Addresses |-> mem[a]]
    /\ phase = "interpreting" => pc = 1
    /\ \/ \E k \in 1 .. Steps : pc = k /\ EnterState(k)
       \/ phase = "running" /\ FramePlace(pc) /\ InFrame
       \/ \E s \in Steps + 1 .. Len(code), k \in 2 .. Steps :
            phase = "running" /\ ExitAt(s) /\ pc = s + k - 1 /\ LeaveState(k)

(* What every reachable state satisfies; a call on AArch64 whose frame is  *)
(* too large for ldp's offset, and one on RISC-V, are left out.            *)
FrameInvariant ==
  /\ PlanOK
  /\ ~Emitted => labels = <<>> /\ patches = <<>>
  /\ ~OnRiscv /\ Emitted => FlowOK /\ LabelsOK /\ PatchesOK
  /\ ~OnRiscv /\ Emitted /\ FrameFits => MachineOK /\ (Gone => Undisturbed)


(* What the assumptions say of the function and the processor at hand.     *)
LEMMA FunctionFacts ==
  ASSUME func \in Functions, target \in Targets
  PROVE  /\ func.params \in Seq({"i64", "ptr"})
         /\ Len(func.params) \in Nat /\ DOMAIN func.params = 1 .. Len(func.params)
         /\ Len(func.insts) \in Nat \ {0} /\ DOMAIN func.insts = 1 .. Len(func.insts)
         /\ \A i \in DOMAIN func.insts :
              /\ func.insts[i].op \in Opcodes
              /\ func.insts[i].args \in Seq(STRING \X Int)
              /\ func.insts[i].to \in Seq(STRING)
              /\ func.insts[i].label \in STRING /\ func.insts[i].cond \in STRING
         /\ WellFormed(func)
         /\ target \in {"x86_64", "aarch64", "riscv64"}
         /\ ArgRegs[target] \in Seq(Registers \ {"rsp", "sp"})
         /\ StackWords \in Nat
         /\ Len(func.params) + Len(func.insts) + 8 <= StackWords
<1> DEFINE Row == [label : STRING, op : Opcodes, args : Seq(STRING \X Int),
                   cond : STRING, to : Seq(STRING)]
<1>1. /\ func.params \in Seq({"i64", "ptr"})
      /\ func.insts \in Seq(Row)
      /\ WellFormed(func)
      /\ target \in {"x86_64", "aarch64", "riscv64"}
      /\ ArgRegs[target] \in Seq(Registers \ {"rsp", "sp"})
      /\ StackWords \in Nat
      /\ Len(func.params) + Len(func.insts) + 8 <= StackWords
  BY NativeAssumption, StackAssumption
<1> HIDE DEF Row
<1>2. /\ Len(func.params) \in Nat /\ DOMAIN func.params = 1 .. Len(func.params)
  BY <1>1
<1>3. /\ Len(func.insts) \in Nat /\ DOMAIN func.insts = 1 .. Len(func.insts)
      /\ \A i \in DOMAIN func.insts : func.insts[i] \in Row
  <2>1. \A q : q \in Seq(Row) => /\ Len(q) \in Nat /\ DOMAIN q = 1 .. Len(q)
                               /\ \A i \in DOMAIN q : q[i] \in Row
    OBVIOUS
  <2> QED
    BY <1>1, <2>1
<1>4. func.insts # <<>>
  BY <1>1 DEF WellFormed
<1>5. Len(func.insts) # 0
  BY <1>1, <1>4
<1>6. \A i \in DOMAIN func.insts :
              /\ func.insts[i].op \in Opcodes
              /\ func.insts[i].args \in Seq(STRING \X Int)
              /\ func.insts[i].to \in Seq(STRING)
              /\ func.insts[i].label \in STRING /\ func.insts[i].cond \in STRING
  BY <1>3 DEF Row
<1> QED
  BY <1>1, <1>2, <1>3, <1>5, <1>6

(* Short tuples are lists.                                                 *)
LEMMA TupleIsList ==
  ASSUME NEW a, NEW b, NEW c, NEW d
  PROVE  /\ IsList(<<a>>) /\ Len(<<a>>) = 1
         /\ IsList(<<a, b>>) /\ Len(<<a, b>>) = 2
         /\ IsList(<<a, b, c>>) /\ Len(<<a, b, c>>) = 3
         /\ IsList(<<a, b, c, d>>) /\ Len(<<a, b, c, d>>) = 4
  BY DEF IsList

(* So is every sequence over a set.                                        *)
LEMMA SeqIsList == ASSUME NEW S, NEW q \in Seq(S) PROVE IsList(q)
  BY DEF IsList

(* Lists joined.                                                           *)
LEMMA Joined ==
  ASSUME NEW s, NEW t, IsList(s), IsList(t)
  PROVE  /\ IsList(s \o t)
         /\ Len(s \o t) = Len(s) + Len(t)
         /\ \A i \in 1 .. Len(s) : (s \o t)[i] = s[i]
         /\ \A i \in 1 .. Len(t) : (s \o t)[Len(s) + i] = t[i]
<1> DEFINE S == {s[i] : i \in 1 .. Len(s)} \cup {t[i] : i \in 1 .. Len(t)}
<1>1. s \in Seq(S) /\ t \in Seq(S)
  BY DEF IsList
<1> HIDE DEF S
<1>2. s \o t \in Seq(S)
  BY <1>1
<1>3. /\ Len(s \o t) = Len(s) + Len(t)
      /\ \A i \in 1 .. Len(s) : (s \o t)[i] = s[i]
      /\ \A i \in 1 .. Len(t) : (s \o t)[Len(s) + i] = t[i]
  BY <1>1
<1>4. IsList(s \o t)
  BY <1>2, SeqIsList
<1> QED
  BY <1>3, <1>4


(* PlanOK is inductive.                                                    *)
LEMMA PlanStep == ASSUME PlanOK, [NativeNext]_nativeVars PROVE PlanOK'
<1> DEFINE P == Len(func.params)
           N == Len(func.insts)
           First == IF target = "x86_64" THEN 8 ELSE 16
           Slots(s) == \A v \in DOMAIN s : s[v] \in Nat /\ First <= s[v]
<1>1. /\ func \in Functions /\ target \in Targets
      /\ offset \in Nat /\ First <= offset
      /\ Slots(slot)
      /\ phase \in {"arguments", "instructions", "emitting", "linking"} => idx \in Nat \ {0}
      /\ phase = "arguments" => idx <= P + 1 /\ offset <= First + 8 * (idx - 1)
      /\ phase = "instructions" => idx <= N + 1 /\ offset <= First + 8 * (P + idx - 1)
      /\ FirstOffset = First
  BY DEF PlanOK, FirstOffset, OnX86, WordSize
<1>2. /\ P \in Nat /\ DOMAIN func.params = 1 .. P
      /\ N \in Nat \ {0} /\ DOMAIN func.insts = 1 .. N
      /\ First \in Nat
  BY <1>1, FunctionFacts
<1>3. ASSUME UNCHANGED <<func, target, planVars>>,
             phase' \in {"emitting", "linking"} => idx' \in Nat \ {0},
             phase \notin {"arguments", "instructions"},
             phase' \notin {"arguments", "instructions"}
      PROVE  PlanOK'
  BY <1>3 DEF PlanOK, planVars, FirstOffset, OnX86, Emitted
<1>4. ASSUME NEW v, Place(v)
      PROVE  /\ offset' = offset + 8
             /\ DOMAIN slot' = DOMAIN slot \cup {v}
             /\ Slots(slot')
  <2>1. \A w \in DOMAIN slot' : slot'[w] = IF w = v THEN offset ELSE slot[w]
    BY <1>4 DEF Place
  <2> QED
    BY <1>1, <1>2, <1>4, <2>1 DEF Place, WordSize
<1> HIDE DEF P, N, First, Slots
<1>5. CASE PlanArgument
  <2>1. UNCHANGED <<func, target>> /\ phase = "arguments" /\ idx \in Nat \ {0}
    BY <1>1, <1>5 DEF PlanArgument
  <2>2. CASE idx \in DOMAIN func.params
    <3>1. Place(<<"arg", idx>>) /\ idx' = idx + 1 /\ phase' = "arguments"
      BY <1>5, <2>1, <2>2 DEF PlanArgument
    <3>2. /\ idx' \in Nat \ {0} /\ idx' <= P + 1
          /\ offset' \in Nat /\ First <= offset' /\ offset' <= First + 8 * (idx' - 1)
          /\ Slots(slot')
      <4>1. idx' \in Nat \ {0} /\ idx' <= P + 1
        BY <1>2, <2>1, <2>2, <3>1
      <4>2. offset' = offset + 8
        BY <1>4, <3>1
      <4>3. Slots(slot')
        BY <1>4, <3>1
      <4>4. offset <= First + 8 * (idx - 1)
        BY <1>1, <2>1
      <4>5. offset' \in Nat /\ First <= offset' /\ offset' <= First + 8 * (idx' - 1)
        BY <1>1, <1>2, <2>1, <3>1, <4>2, <4>4
      <4> QED BY <4>1, <4>3, <4>5
    <3>3. \A k \in DOMAIN func.params : k < idx' => <<"arg", k>> \in DOMAIN slot'
      <4> SUFFICES ASSUME NEW k \in DOMAIN func.params, k < idx'
                   PROVE  <<"arg", k>> \in DOMAIN slot'
        OBVIOUS
      <4>1. DOMAIN slot' = DOMAIN slot \cup {<<"arg", idx>>}
        BY <1>4, <3>1
      <4>2. k = idx \/ k < idx
        BY <1>2, <2>1, <3>1
      <4> QED
        BY <2>1, <4>1, <4>2 DEF PlanOK
    <3> QED
      BY <1>1, <2>1, <3>1, <3>2, <3>3
      DEF PlanOK, FirstOffset, OnX86, WordSize, Emitted, P, N, First, Slots
  <2>3. CASE idx \notin DOMAIN func.params
    <3>1. UNCHANGED planVars /\ idx' = 1 /\ phase' = "instructions"
      BY <1>5, <2>3 DEF PlanArgument
    <3>2. idx = P + 1
      BY <1>1, <1>2, <2>1, <2>3
    <3>3. \A k \in DOMAIN func.params : <<"arg", k>> \in DOMAIN slot
      <4>1. \A k \in DOMAIN func.params : k < idx
        BY <1>2, <3>2
      <4> QED BY <2>1, <4>1 DEF PlanOK
    <3>4. \A i \in DOMAIN func.insts : ~(i < 1)
      BY <1>2
    <3>5. /\ idx' \in Nat \ {0} /\ idx' <= N + 1
          /\ offset' <= First + 8 * (P + idx' - 1)
      BY <1>1, <1>2, <2>1, <3>1, <3>2 DEF planVars
    <3> QED
      BY <1>1, <2>1, <3>1, <3>3, <3>4, <3>5
      DEF PlanOK, planVars, FirstOffset, OnX86, WordSize, Emitted, P, N, First, Slots
  <2> QED BY <2>2, <2>3
<1>6. CASE PlanInstruction
  <2>1. /\ UNCHANGED <<func, target, phase>> /\ phase = "instructions" /\ idx \in Nat \ {0}
        /\ idx' = idx + 1 /\ idx \in DOMAIN func.insts
    BY <1>1, <1>6 DEF PlanInstruction
  <2>2. idx' \in Nat \ {0} /\ idx' <= N + 1
    BY <1>2, <2>1
  <2>3. CASE func.insts[idx].op \in Void
    <3>1. UNCHANGED planVars
      BY <1>6, <2>3 DEF PlanInstruction, Inst
    <3>2. offset <= First + 8 * (P + idx' - 1)
      BY <1>1, <1>2, <2>1
    <3>3. \A i \in DOMAIN func.insts : i < idx' => i = idx \/ i < idx
      BY <1>2, <2>1
    <3> QED
      BY <1>1, <2>1, <2>2, <2>3, <3>1, <3>2, <3>3
      DEF PlanOK, planVars, FirstOffset, OnX86, WordSize, Emitted, P, N, First, Slots
  <2>4. CASE func.insts[idx].op \notin Void
    <3>1. Place(<<"inst", idx>>)
      BY <1>6, <2>4 DEF PlanInstruction, Inst, Self
    <3>2. /\ offset' \in Nat /\ First <= offset' /\ offset' <= First + 8 * (P + idx' - 1)
          /\ Slots(slot')
      <4>1. offset' = offset + 8 /\ Slots(slot')
        BY <1>4, <3>1
      <4>2. offset <= First + 8 * (P + idx - 1)
        BY <1>1, <2>1
      <4> QED BY <1>1, <1>2, <2>1, <4>1, <4>2
    <3>3. \A i \in DOMAIN func.insts : i < idx' => i = idx \/ i < idx
      BY <1>2, <2>1
    <3>4. DOMAIN slot' = DOMAIN slot \cup {<<"inst", idx>>}
      BY <1>4, <3>1
    <3> QED
      BY <1>1, <2>1, <2>2, <3>2, <3>3, <3>4
      DEF PlanOK, planVars, FirstOffset, OnX86, WordSize, Emitted, P, N, First, Slots
  <2> QED BY <2>3, <2>4
<1>7. CASE BeginEmission
  <2>1. /\ UNCHANGED <<func, target, planVars>> /\ phase = "instructions" /\ idx \in Nat \ {0}
        /\ phase' = "emitting" /\ idx' = 1 /\ idx \notin DOMAIN func.insts
    BY <1>1, <1>7 DEF BeginEmission
  <2>2. idx = N + 1
    BY <1>1, <1>2, <2>1
  <2>3. idx' \in Nat \ {0} /\ offset' <= First + 8 * (P + N)
    BY <1>1, <1>2, <2>1, <2>2 DEF planVars
  <2>4. \A i \in DOMAIN func.insts : i < idx
    BY <1>2, <2>2
  <2>5. /\ \A k \in DOMAIN func.params : <<"arg", k>> \in DOMAIN slot
        /\ \A i \in DOMAIN func.insts :
             func.insts[i].op \notin Void => <<"inst", i>> \in DOMAIN slot
    BY <2>1, <2>4 DEF PlanOK
  <2> QED
    BY <1>1, <2>1, <2>3, <2>5
    DEF PlanOK, planVars, FirstOffset, OnX86, WordSize, Emitted, P, N, First, Slots
<1>8. CASE Emit
  BY <1>1, <1>3, <1>8 DEF Emit
<1>9. CASE EndEmission
  BY <1>1, <1>3, <1>9 DEF EndEmission
<1>10. CASE Patch
  BY <1>1, <1>3, <1>10 DEF Patch
<1>11. CASE Call
  BY <1>1, <1>3, <1>11 DEF Call
<1>12. CASE Interpret
  BY <1>1, <1>3, <1>12 DEF Interpret
<1>13. CASE Execute
  BY <1>1, <1>3, <1>13 DEF Execute, Return
<1>14. CASE Over \/ UNCHANGED nativeVars
  BY <1>14 DEF Over, nativeVars, PlanOK, planVars, FirstOffset, OnX86, Emitted
<1> QED
  BY <1>5, <1>6, <1>7, <1>8, <1>9, <1>10, <1>11, <1>12, <1>13, <1>14 DEF NativeNext


(* Loading an operand writes a scratch register only.                      *)
LEMMA LoadHarmless ==
  ASSUME NEW v, NEW reg \in Scratches
  PROVE  Harmless(LoadScalar(v, reg))
  BY DEF Harmless, LoadScalar

(* Storing a value writes its slot only, which every value that is not void *)
(* has once the frame is laid out.                                         *)
LEMMA StoreHarmless ==
  ASSUME PlanOK, ~OnRiscv, phase = "emitting", NEW reg,
         idx \in DOMAIN func.insts, Inst.op \notin Void
  PROVE  Harmless(StoreScalar(reg))
<1>1. target \in {"x86_64", "aarch64"}
  BY FunctionFacts DEF PlanOK, OnRiscv
<1>2. Self \in DOMAIN slot
  BY DEF PlanOK, Inst, Self
<1>3. slot[Self] \in Nat /\ FirstOffset <= slot[Self]
  BY <1>2 DEF PlanOK
<1>4. FrameReg = "sp" => ~OnX86
  BY DEF FrameReg
<1> QED
  BY <1>1, <1>3 DEF Harmless, StoreScalar, SlotAt, FirstOffset, WordSize, OnX86

(* What the generators emit for an instruction: harmless instructions only, *)
(* or the jumps of a terminator, or a value to return and the epilogue.    *)
AllHarmless(t) == IsList(t) /\ \A q \in 1 .. Len(t) : Harmless(t[q])

Straight(t, n) == n.op \notin {"br", "jmp", "ret"} /\ AllHarmless(t)
Jumps(t, n)    == /\ n.op \in {"br", "jmp"} /\ Len(t) = Len(n.to) /\ Len(t) # 0
                  /\ IsList(t)
                  /\ \A q \in 1 .. Len(t) : IsJump(t[q])
                  /\ t[Len(t)][1] = "jmp"
Returns(t, n)  == /\ n.op = "ret" /\ Len(n.to) = 0
                  /\ IsList(t)
                  /\ \E h \in 0 .. 1 : /\ Len(t) = h + Steps
                                       /\ \A q \in 1 .. h : Harmless(t[q])
                                       /\ \A k \in 1 .. Steps : t[h + k] = Exit[k]

(* The short pieces the generators join.                                   *)
LEMMA HarmlessTuples ==
  ASSUME NEW a, NEW b, NEW c, NEW d, NEW e,
         Harmless(a), Harmless(b), Harmless(c), Harmless(d), Harmless(e)
  PROVE  /\ AllHarmless(<<>>) /\ AllHarmless(<<a>>) /\ AllHarmless(<<a, b>>)
         /\ AllHarmless(<<a, b, c, d, e>>)
<1>1. IsList(<<a, b, c, d, e>>) /\ Len(<<a, b, c, d, e>>) = 5 /\ IsList(<<>>) /\ Len(<<>>) = 0
  BY DEF IsList
<1>2. AllHarmless(<<>>)
  <2>1. \A q \in 1 .. Len(<<>>) : FALSE
    BY <1>1
  <2> QED BY <1>1, <2>1 DEF AllHarmless
<1>3. AllHarmless(<<a>>)
  <2>1. \A q \in 1 .. Len(<<a>>) : <<a>>[q] = a
    BY TupleIsList
  <2>2. IsList(<<a>>)
    BY TupleIsList
  <2> QED BY <2>1, <2>2 DEF AllHarmless
<1>4. AllHarmless(<<a, b>>)
  <2>1. \A q \in 1 .. Len(<<a, b>>) : <<a, b>>[q] = a \/ <<a, b>>[q] = b
    BY TupleIsList
  <2>2. IsList(<<a, b>>)
    BY TupleIsList
  <2> QED BY <2>1, <2>2 DEF AllHarmless
<1>5. ASSUME NEW q \in 1 .. 5 PROVE Harmless(<<a, b, c, d, e>>[q])
  <2>1. q = 1 \/ q = 2 \/ q = 3 \/ q = 4 \/ q = 5
    OBVIOUS
  <2> QED BY <2>1
<1>6. AllHarmless(<<a, b, c, d, e>>)
  BY <1>1, <1>5 DEF AllHarmless
<1> QED
  BY <1>2, <1>3, <1>4, <1>6

(* What is joined of harmless pieces is harmless.                          *)
LEMMA HarmlessJoined ==
  ASSUME NEW s, NEW t, AllHarmless(s), AllHarmless(t)
  PROVE  AllHarmless(s \o t)
<1>1. /\ IsList(s \o t) /\ Len(s \o t) = Len(s) + Len(t)
      /\ \A i \in 1 .. Len(s) : (s \o t)[i] = s[i]
      /\ \A i \in 1 .. Len(t) : (s \o t)[Len(s) + i] = t[i]
      /\ Len(s) \in Nat /\ Len(t) \in Nat
  BY Joined DEF AllHarmless, IsList
<1>2. SUFFICES ASSUME NEW q \in 1 .. Len(s \o t) PROVE Harmless((s \o t)[q])
  BY <1>1 DEF AllHarmless
<1>3. CASE q <= Len(s)
  BY <1>1, <1>3 DEF AllHarmless
<1>4. CASE q > Len(s)
  <2>1. PICK i \in 1 .. Len(t) : q = Len(s) + i
    <3>1. q - Len(s) \in 1 .. Len(t) /\ q = Len(s) + (q - Len(s))
      BY <1>1, <1>4
    <3> QED BY <3>1
  <2> QED BY <1>1, <2>1 DEF AllHarmless
<1> QED
  BY <1>1, <1>3, <1>4

(* The epilogue has as many instructions as Steps says.                    *)
LEMMA ExitIsList == IsList(Exit) /\ Len(Exit) = Steps
<1>1. IsList(X86Exit) /\ Len(X86Exit) = 6
  BY DEF X86Exit, IsList
<1>2. IsList(ArmExit) /\ Len(ArmExit) = 4
  BY TupleIsList DEF ArmExit
<1> QED BY <1>1, <1>2 DEF Exit, Steps

(* What is emitted for an instruction has one of the three shapes.         *)
LEMMA EmittedShape ==
  ASSUME PlanOK, ~OnRiscv, phase = "emitting", idx \in DOMAIN func.insts
  PROVE  \/ Straight(Translated(Inst), Inst)
         \/ Jumps(Translated(Inst), Inst)
         \/ Returns(Translated(Inst), Inst)
<1> DEFINE T == Translated(Inst)
<1>1. target \in {"x86_64", "aarch64"}
  BY FunctionFacts DEF PlanOK, OnRiscv
<1>2. /\ Inst.op \in Opcodes
      /\ Len(Inst.to) = (CASE Inst.op = "br" -> 2 [] Inst.op = "jmp" -> 1 [] OTHER -> 0)
  BY FunctionFacts DEF PlanOK, Inst, WellFormed
<1>3. Scratch[1] \in Scratches /\ Scratch[2] \in Scratches /\ Scratch[3] \in Scratches
  BY <1>1 DEF Scratch, Scratches, OnX86, OnRiscv
<1>4. AllHarmless(Operands(Inst))
  BY <1>3, LoadHarmless, HarmlessTuples DEF Operands
<1>5. CASE Inst.op \in {"add", "sub", "mul"}
  <2>1. Harmless(<<Inst.op, Scratch[3], Scratch[1], Scratch[2]>>)
    BY <1>3, <1>5 DEF Harmless
  <2>2. Harmless(StoreScalar(Scratch[3]))
    BY <1>5, StoreHarmless DEF Void
  <2>3. AllHarmless(<<<<Inst.op, Scratch[3], Scratch[1], Scratch[2]>>, StoreScalar(Scratch[3])>>)
    BY <2>1, <2>2, HarmlessTuples
  <2>4. T = Operands(Inst)
              \o <<<<Inst.op, Scratch[3], Scratch[1], Scratch[2]>>, StoreScalar(Scratch[3])>>
    BY <1>5 DEF Translated, ArithCode
  <2> QED
    BY <1>4, <1>5, <2>3, <2>4, HarmlessJoined DEF Straight
<1>6. ASSUME NEW p, NEW v, OnX86 PROVE AllHarmless(Element(p, v))
  <2>1. "r10" \in Scratches /\ "r11" \in Scratches /\ "rax" \in Scratches
    BY <1>6 DEF Scratches
  <2>2. /\ Harmless(LoadScalar(p, "r10")) /\ Harmless(LoadScalar(v, "r11"))
        /\ Harmless(<<"imm", "rax", WordSize>>) /\ Harmless(<<"mul", "r11", "r11", "rax">>)
        /\ Harmless(<<"add", "r10", "r10", "r11">>)
    BY <2>1, LoadHarmless DEF Harmless
  <2> QED
    BY <2>2, HarmlessTuples DEF Element
<1>7. CASE Inst.op = "load"
  <2>1. CASE OnX86
    <3>1. Harmless(<<"load", "r10", "r10", 0>>)
      BY <2>1 DEF Harmless, Scratches
    <3>2. Harmless(StoreScalar("r10"))
      BY <1>7, StoreHarmless DEF Void
    <3>3. AllHarmless(<< <<"load", "r10", "r10", 0>>, StoreScalar("r10") >>)
      BY <3>1, <3>2, HarmlessTuples
    <3>4. T = Element(Inst.args[1], Inst.args[2])
                \o << <<"load", "r10", "r10", 0>>, StoreScalar("r10") >>
      BY <1>7, <2>1 DEF Translated, LoadCode
    <3> QED
      BY <1>6, <1>7, <2>1, <3>3, <3>4, HarmlessJoined DEF Straight
  <2>2. CASE ~OnX86
    <3>1. T = <<>>
      BY <1>7, <2>2 DEF Translated
    <3> QED
      BY <1>4, <1>7, <3>1, HarmlessTuples, LoadHarmless, <1>3 DEF Straight
  <2> QED BY <2>1, <2>2
<1>8. CASE Inst.op = "store"
  <2>1. CASE OnX86
    <3>1. Harmless(<<"store", "r10", 0, "r11">>)
      BY <2>1 DEF Harmless
    <3>2. Harmless(LoadScalar(Inst.args[1], "r11"))
      BY <2>1, LoadHarmless DEF Scratches
    <3>3. AllHarmless(<< LoadScalar(Inst.args[1], "r11"), <<"store", "r10", 0, "r11">> >>)
      BY <3>1, <3>2, HarmlessTuples
    <3>4. T = Element(Inst.args[2], Inst.args[3])
                \o << LoadScalar(Inst.args[1], "r11"), <<"store", "r10", 0, "r11">> >>
      BY <1>8, <2>1 DEF Translated, StoreCode
    <3> QED
      BY <1>6, <1>8, <2>1, <3>3, <3>4, HarmlessJoined DEF Straight
  <2>2. CASE ~OnX86
    <3>1. T = <<>>
      BY <1>8, <2>2 DEF Translated
    <3> QED
      BY <1>8, <3>1, HarmlessTuples, LoadHarmless, <1>3 DEF Straight
  <2> QED BY <2>1, <2>2
<1>9. CASE Inst.op = "cmp"
  <2>1. Harmless(<<"cmp", Scratch[1], Scratch[2]>>)
    BY DEF Harmless
  <2>2. AllHarmless(<< <<"cmp", Scratch[1], Scratch[2]>> >>)
    BY <2>1, HarmlessTuples
  <2>3. T = Operands(Inst) \o << <<"cmp", Scratch[1], Scratch[2]>> >>
    BY <1>9 DEF Translated, CmpCode
  <2> QED
    BY <1>4, <1>9, <2>2, <2>3, HarmlessJoined DEF Straight
<1>10. CASE Inst.op = "br"
  <2>1. T = << <<"jcc", Branch, 0>>, <<"jmp", 0>> >>
    BY <1>10 DEF Translated, BranchCode
  <2>2. IsJump(<<"jcc", Branch, 0>>) /\ IsJump(<<"jmp", 0>>)
    BY TupleIsList DEF IsJump
  <2>3. IsList(T) /\ Len(T) = 2 /\ IsJump(T[1]) /\ IsJump(T[2]) /\ T[2][1] = "jmp"
    <3>1. IsList(T) /\ Len(T) = 2
      BY <2>1, TupleIsList
    <3>2. T[1] = <<"jcc", Branch, 0>> /\ T[2] = <<"jmp", 0>>
      BY <2>1
    <3> QED BY <2>2, <3>1, <3>2
  <2> QED
    BY <1>2, <1>10, <2>3 DEF Jumps
<1>11. CASE Inst.op = "jmp"
  <2>1. T = << <<"jmp", 0>> >>
    BY <1>11 DEF Translated
  <2>2. IsJump(<<"jmp", 0>>)
    BY TupleIsList DEF IsJump
  <2>3. IsList(T) /\ Len(T) = 1 /\ IsJump(T[1]) /\ T[1][1] = "jmp"
    <3>1. IsList(T) /\ Len(T) = 1
      BY <2>1, TupleIsList
    <3>2. T[1] = <<"jmp", 0>>
      BY <2>1
    <3> QED BY <2>2, <3>1, <3>2
  <2> QED
    BY <1>2, <1>11, <2>3 DEF Jumps
<1>12. CASE Inst.op = "ret"
  <2>1. T = (IF Inst.args = <<>> THEN <<>> ELSE <<LoadScalar(Inst.args[1], RetReg)>>) \o Exit
    <3>1. Epilogue = Exit
      BY <1>1 DEF Epilogue, Exit, OnX86, OnRiscv
    <3>2. T = RetCode(Inst)
      BY <1>12 DEF Translated
    <3> QED BY <3>1, <3>2 DEF RetCode
  <2>2. IsList(Exit) /\ Len(Exit) = Steps
    BY ExitIsList
  <2>3. CASE Inst.args = <<>>
    <3>1. IsList(<<>>) /\ Len(<<>>) = 0
      BY DEF IsList
    <3>2. IsList(T) /\ Len(T) = 0 + Steps /\ \A k \in 1 .. Steps : T[0 + k] = Exit[k]
      BY <2>1, <2>2, <2>3, <3>1, Joined
    <3> QED
      BY <1>2, <1>12, <3>2 DEF Returns
  <2>4. CASE Inst.args # <<>>
    <3>1. Harmless(LoadScalar(Inst.args[1], RetReg))
      BY <1>1, LoadHarmless DEF RetReg, Scratches, OnX86, OnRiscv
    <3>2. /\ IsList(T) /\ Len(T) = 1 + Steps
          /\ T[1] = LoadScalar(Inst.args[1], RetReg)
          /\ \A k \in 1 .. Steps : T[1 + k] = Exit[k]
      <4>0. Steps \in Nat
        BY DEF Steps
      <4>1. PICK one : one = <<LoadScalar(Inst.args[1], RetReg)>>
        OBVIOUS
      <4>2. IsList(one) /\ Len(one) = 1 /\ one[1] = LoadScalar(Inst.args[1], RetReg)
        BY <4>1, TupleIsList
      <4>3. T = one \o Exit
        BY <2>1, <2>4, <4>1
      <4> HIDE DEF T
      <4>4. /\ IsList(T) /\ Len(T) = Len(one) + Len(Exit)
            /\ \A i \in 1 .. Len(one) : T[i] = one[i]
            /\ \A i \in 1 .. Len(Exit) : T[Len(one) + i] = Exit[i]
        <5>1. PICK ex, all : ex = Exit /\ all = T
          OBVIOUS
        <5>2. all = one \o ex /\ IsList(one) /\ IsList(ex)
          BY <2>2, <4>2, <4>3, <5>1
        <5>3. /\ IsList(all) /\ Len(all) = Len(one) + Len(ex)
              /\ \A i \in 1 .. Len(one) : all[i] = one[i]
              /\ \A i \in 1 .. Len(ex) : all[Len(one) + i] = ex[i]
          BY <5>2, Joined
        <5> QED BY <5>1, <5>3
      <4> QED BY <2>2, <4>0, <4>2, <4>4
    <3> QED
      BY <1>2, <1>12, <3>1, <3>2 DEF Returns
  <2> QED BY <2>3, <2>4
<1> QED
  BY <1>2, <1>5, <1>7, <1>8, <1>9, <1>10, <1>11, <1>12 DEF Opcodes

(* The epilogue, instruction by instruction.                               *)
LEMMA ExitFacts ==
  /\ OnX86 => /\ Steps = 6
              /\ Exit[1] = <<"mov", "rsp", "rbp">> /\ Exit[2] = <<"pop", "rdi">>
              /\ Exit[3] = <<"pop", "rsi">> /\ Exit[4] = <<"pop", "rbx">>
              /\ Exit[5] = <<"pop", "rbp">> /\ Exit[6] = <<"ret">>
  /\ ~OnX86 => /\ Steps = 4
               /\ Exit[1] = <<"load", "fp", "sp", 0>> /\ Exit[2] = <<"load", "lr", "sp", 8>>
               /\ Exit[3] = <<"addi", "sp", "sp", PairOffset(StackSize)>> /\ Exit[4] = <<"ret">>
  BY DEF Steps, Exit, X86Exit, ArmExit, WordSize

(* No instruction of the epilogue is taken for one of the body.            *)
LEMMA ExitIsNeither ==
  ASSUME NEW k \in 1 .. Steps
  PROVE  ~Harmless(Exit[k]) /\ ~IsJump(Exit[k])
<1>1. CASE OnX86
  <2>1. k = 1 \/ k = 2 \/ k = 3 \/ k = 4 \/ k = 5 \/ k = 6
    BY <1>1, ExitFacts
  <2> QED
    BY <1>1, <2>1, ExitFacts DEF Harmless, IsJump
<1>2. CASE ~OnX86
  <2>1. k = 1 \/ k = 2 \/ k = 3 \/ k = 4
    BY <1>2, ExitFacts
  <2> QED
    BY <1>2, <2>1, ExitFacts DEF Harmless, IsJump, Scratches
<1> QED
  BY <1>1, <1>2

(* A jump is not taken for a harmless instruction.                         *)
LEMMA JumpNotHarmless == ASSUME NEW c, IsJump(c) PROVE ~Harmless(c)
  BY DEF IsJump, Harmless

(* What depends on the processor and the frame alone stays.                *)
LEMMA FrameStays ==
  ASSUME UNCHANGED <<func, target, planVars>>
  PROVE  /\ \A c : Harmless(c)' <=> Harmless(c)
         /\ Exit' = Exit /\ Entry' = Entry /\ Steps' = Steps
         /\ JumpLength' = JumpLength /\ OnRiscv' = OnRiscv /\ OnX86' = OnX86
         /\ (FrameFits <=> FrameFits')
         /\ StackSize' = StackSize
<1>1. OnX86' = OnX86 /\ OnRiscv' = OnRiscv
  BY DEF OnX86, OnRiscv
<1>2. StackSize' = StackSize
  BY DEF planVars, StackSize
<1>3. FrameReg' = FrameReg /\ Scratches' = Scratches /\ Steps' = Steps /\ JumpLength' = JumpLength
  BY <1>1 DEF FrameReg, Scratches, Steps, JumpLength
<1>4. \A c : Harmless(c)' <=> Harmless(c)
  BY <1>1, <1>3 DEF Harmless
<1>5. Exit' = Exit /\ Entry' = Entry
  BY <1>1, <1>2 DEF Exit, Entry, X86Exit, ArmExit, X86Entry, ArmEntry
<1>6. FrameFits <=> FrameFits'
  BY <1>2 DEF FrameFits
<1> QED
  BY <1>1, <1>2, <1>3, <1>4, <1>5, <1>6

(* Emitting an instruction keeps what is emitted together.                 *)
LEMMA EmitKeepsFlow ==
  ASSUME PlanOK, FlowOK, LabelsOK, PatchesOK, ~OnRiscv, Emit
  PROVE  FlowOK' /\ LabelsOK' /\ PatchesOK'
<1>1. /\ phase = "emitting" /\ phase' = "emitting" /\ idx \in DOMAIN func.insts /\ idx' = idx + 1
      /\ UNCHANGED <<func, target, planVars>>
  BY DEF Emit
<1>2. /\ DOMAIN func.insts = 1 .. Len(func.insts) /\ Len(func.insts) \in Nat \ {0}
      /\ WellFormed(func)
  BY FunctionFacts DEF PlanOK
<1>3. PICK t : t = Translated(Inst)
  OBVIOUS
<1>4. Straight(t, Inst) \/ Jumps(t, Inst) \/ Returns(t, Inst)
  BY <1>1, <1>3, EmittedShape
<1>5. PICK L, n : L = Len(code) /\ n = Len(t)
  OBVIOUS
<1>6. IsList(code) /\ IsList(t) /\ L \in Nat /\ n \in Nat
  BY <1>4, <1>5 DEF FlowOK, IsList, Straight, AllHarmless, Jumps, Returns
<1>7. /\ IsList(code') /\ Len(code') = L + n
      /\ \A p \in 1 .. L : code'[p] = code[p]
      /\ \A q \in 1 .. n : code'[L + q] = t[q]
  <2>1. code' = code \o t
    BY <1>3 DEF Emit
  <2> QED BY <1>5, <1>6, <2>1, Joined
<1>8. Steps \in Nat /\ Steps <= L /\ Steps # 0
  BY <1>5 DEF FlowOK, Steps
<1>9. ASSUME NEW p, p \in Nat, ExitAt(p), p # 0
      PROVE  ExitAt(p)'
  <2>1. p + Steps - 1 <= L
    BY <1>5, <1>9 DEF ExitAt
  <2>2. \A k \in 1 .. Steps : p + k - 1 \in 1 .. L
    BY <1>6, <1>8, <1>9, <2>1
  <2>3. \A k \in 1 .. Steps : code'[p + k - 1] = Exit[k]
    BY <1>7, <1>9, <2>2 DEF ExitAt
  <2>4. p + Steps - 1 <= L + n
    BY <1>6, <1>8, <1>9, <2>1
  <2> QED
    BY <1>1, <1>7, <2>3, <2>4, FrameStays DEF ExitAt
<1>10. ASSUME NEW p, FramePlace(p)
       PROVE  FramePlace(p)'
  <2>1. p \in Steps + 1 .. L /\ p \in Nat /\ p # 0 /\ p \in 1 .. L
    BY <1>5, <1>6, <1>8, <1>10 DEF FramePlace
  <2>2. p \in Steps + 1 .. L + n
    BY <1>6, <1>8, <2>1
  <2>3. code'[p] = code[p]
    BY <1>7, <2>1
  <2> QED
    BY <1>1, <1>7, <1>9, <1>10, <2>1, <2>2, <2>3, FrameStays DEF FramePlace
<1>11. ASSUME NEW q \in 1 .. n, Harmless(t[q]) \/ IsJump(t[q])
       PROVE  FramePlace(L + q)'
  <2>1. L + q \in Steps + 1 .. L + n
    BY <1>6, <1>8
  <2> QED
    BY <1>1, <1>7, <1>11, <2>1, FrameStays DEF FramePlace
<1>12. ASSUME NEW h \in 0 .. 1, n = h + Steps, \A k \in 1 .. Steps : t[h + k] = Exit[k]
       PROVE  FramePlace(L + h + 1)'
  <2>1. L + h + 1 \in Steps + 1 .. L + n
    BY <1>6, <1>8, <1>12
  <2>2. L + h + 1 + Steps - 1 <= L + n
    BY <1>6, <1>8, <1>12
  <2>3. ASSUME NEW k \in 1 .. Steps PROVE code'[L + h + 1 + k - 1] = Exit[k]
    <3>1. h + k \in 1 .. n /\ L + h + 1 + k - 1 = L + (h + k)
      BY <1>6, <1>8, <1>12
    <3> QED BY <1>7, <1>12, <3>1
  <2> QED
    BY <1>1, <1>7, <2>1, <2>2, <2>3, FrameStays DEF FramePlace, ExitAt
<1>13. n # 0 => FramePlace(L + 1)'
  <2>1. CASE Straight(t, Inst) \/ Jumps(t, Inst)
    BY <1>5, <1>6, <1>11, <2>1 DEF Straight, AllHarmless, Jumps
  <2>2. CASE Returns(t, Inst)
    <3>1. PICK h \in 0 .. 1 : /\ n = h + Steps
                              /\ \A q \in 1 .. h : Harmless(t[q])
                              /\ \A k \in 1 .. Steps : t[h + k] = Exit[k]
      BY <1>5, <2>2 DEF Returns
    <3>2. CASE h = 0
      BY <1>6, <1>12, <3>1, <3>2
    <3>3. CASE h = 1
      <4>1. 1 \in 1 .. n /\ Harmless(t[1])
        BY <1>6, <1>8, <3>1, <3>3
      <4> QED BY <1>11, <4>1
    <3> QED BY <3>2, <3>3
  <2> QED BY <1>4, <2>1, <2>2
<1>14. Straight(t, Inst) => Open'
  <2>1. Straight(t, Inst) => idx # Len(func.insts)
    <3>1. idx = Len(func.insts) => func.insts[idx].op \in {"br", "jmp", "ret"}
      BY <1>1, <1>2 DEF WellFormed
    <3> QED BY <3>1 DEF Straight, Inst
  <2>2. Straight(t, Inst) => idx + 1 \in DOMAIN func.insts
    BY <1>1, <1>2, <2>1
  <2> QED BY <1>1, <2>2 DEF Open
<1>15. Reach(L + 1)'
  <2>1. CASE n # 0
    BY <1>13, <2>1 DEF Reach
  <2>2. CASE n = 0
    <3>1. Straight(t, Inst)
      BY <1>4, <1>5, <1>8, <2>2 DEF Jumps, Returns
    <3> QED
      BY <1>6, <1>7, <1>14, <2>2, <3>1 DEF Reach
  <2> QED BY <2>1, <2>2
<1>16. ASSUME NEW p, Reach(p) PROVE Reach(p)'
  <2>1. CASE FramePlace(p)
    BY <1>10, <2>1 DEF Reach
  <2>2. CASE p = L + 1
    BY <1>15, <2>2
  <2> QED BY <1>5, <1>16, <2>1, <2>2 DEF Reach
(* Where the new instructions fall through to.                             *)
<1>17. ASSUME NEW q \in 1 .. n, Harmless(t[q]) \/ (IsJump(t[q]) /\ t[q][1] = "jcc")
       PROVE  Reach(L + q + 1)'
  <2>1. CASE Straight(t, Inst)
    <3>1. CASE q < n
      <4>1. q + 1 \in 1 .. n /\ Harmless(t[q + 1]) /\ L + q + 1 = L + (q + 1)
        BY <1>5, <1>6, <2>1, <3>1 DEF Straight, AllHarmless
      <4> QED BY <1>11, <4>1 DEF Reach
    <3>2. CASE q = n
      BY <1>6, <1>7, <1>14, <2>1, <3>2 DEF Reach
    <3> QED BY <1>6, <3>1, <3>2
  <2>2. CASE Jumps(t, Inst)
    <3>1. q # n
      <4>1. IsJump(t[n]) /\ t[n][1] = "jmp"
        BY <1>5, <1>6, <2>2 DEF Jumps
      <4>2. ~Harmless(t[n]) /\ t[n][1] # "jcc"
        BY <4>1, JumpNotHarmless
      <4> QED BY <1>17, <4>2
    <3>2. q + 1 \in 1 .. n /\ IsJump(t[q + 1]) /\ L + q + 1 = L + (q + 1)
      BY <1>5, <1>6, <2>2, <3>1 DEF Jumps
    <3> QED BY <1>11, <3>2 DEF Reach
  <2>3. CASE Returns(t, Inst)
    <3>1. PICK h \in 0 .. 1 : /\ n = h + Steps
                              /\ \A r \in 1 .. h : Harmless(t[r])
                              /\ \A k \in 1 .. Steps : t[h + k] = Exit[k]
      BY <1>5, <2>3 DEF Returns
    <3>2. q <= h
      <4>1. ASSUME ~(q <= h) PROVE FALSE
        <5>1. q - h \in 1 .. Steps /\ h + (q - h) = q
          BY <1>6, <1>8, <3>1, <4>1
        <5>2. t[q] = Exit[q - h]
          BY <3>1, <5>1
        <5> QED BY <1>17, <5>1, <5>2, ExitIsNeither
      <4> QED BY <4>1
    <3>3. L + q + 1 = L + h + 1
      BY <3>1, <3>2
    <3> QED BY <1>12, <3>1, <3>3 DEF Reach
  <2> QED BY <1>4, <2>1, <2>2, <2>3
<1>18. \A p \in Steps + 1 .. L + n : p \in 1 .. L \/ \E q \in 1 .. n : p = L + q
  <2> SUFFICES ASSUME NEW p \in Steps + 1 .. L + n, p \notin 1 .. L
               PROVE  \E q \in 1 .. n : p = L + q
    OBVIOUS
  <2>1. p - L \in 1 .. n /\ p = L + (p - L)
    BY <1>6, <1>8
  <2> QED BY <2>1
<1>19. ASSUME NEW p \in Steps + 1 .. L + n,
              Harmless(code'[p]) \/ (IsJump(code'[p]) /\ code'[p][1] = "jcc")
       PROVE  Reach(p + 1)'
  <2>1. CASE p \in 1 .. L
    <3>1. p \in Steps + 1 .. Len(code) /\ code'[p] = code[p]
      BY <1>5, <1>7, <2>1
    <3>2. Reach(p + 1)
      BY <1>19, <3>1 DEF FlowOK
    <3> QED BY <1>16, <3>2
  <2>2. CASE \E q \in 1 .. n : p = L + q
    BY <1>7, <1>17, <1>19, <2>2
  <2> QED BY <1>18, <2>1, <2>2
(* The jumps wait for their patches.                                       *)
<1>20. patches' = patches \o PatchesOf(Inst, L + n)
  BY <1>7 DEF Emit
<1>21. PICK waiting : waiting = PatchesOf(Inst, L + n)
  OBVIOUS
<1>22. /\ Inst.to \in Seq(STRING)
       /\ DOMAIN Inst.to = 1 .. Len(Inst.to) /\ Len(Inst.to) \in Nat
       /\ \A k \in DOMAIN Inst.to :
            \E j \in DOMAIN func.insts : func.insts[j].label = Inst.to[k] /\ Inst.to[k] # NoLabel
       /\ Inst.op \notin {"br", "jmp"} => Len(Inst.to) = 0
  <2>1. Inst.to \in Seq(STRING)
    BY <1>1, FunctionFacts DEF PlanOK, Inst
  <2>2. DOMAIN Inst.to = 1 .. Len(Inst.to) /\ Len(Inst.to) \in Nat
    BY <2>1
  <2>3. \A k \in DOMAIN Inst.to :
          \E j \in DOMAIN func.insts : func.insts[j].label = Inst.to[k] /\ Inst.to[k] # NoLabel
    BY <1>1, <1>2 DEF Inst, WellFormed
  <2>4. Inst.op \notin {"br", "jmp"} => Len(Inst.to) = 0
    BY <1>1, <1>2 DEF Inst, WellFormed
  <2> QED BY <2>1, <2>2, <2>3, <2>4
<1>23. /\ IsList(waiting) /\ Len(waiting) = Len(Inst.to)
       /\ \A k \in 1 .. Len(Inst.to) :
            waiting[k] = <<Inst.to[k], L + n - Len(Inst.to) + k>>
  <2>1. waiting = [k \in DOMAIN Inst.to |-> <<Inst.to[k], L + n - Len(Inst.to) + k>>]
    BY <1>6, <1>21, <1>22 DEF PatchesOf
  <2>2. Len(waiting) = Len(Inst.to)
    BY <1>22, <2>1
  <2>3. IsList(waiting)
    BY <1>22, <2>1, <2>2 DEF IsList
  <2>4. \A k \in 1 .. Len(Inst.to) : waiting[k] = <<Inst.to[k], L + n - Len(Inst.to) + k>>
    BY <1>22, <2>1
  <2> QED BY <2>2, <2>3, <2>4
<1>24. PICK m \in Nat : m = Len(Inst.to)
  BY <1>22
<1>25. PICK w \in Nat : w = Len(patches)
  BY DEF PatchesOK, IsList
<1>26. /\ IsList(patches') /\ Len(patches') = w + m
       /\ \A k \in 1 .. w : patches'[k] = patches[k]
       /\ \A k \in 1 .. m : patches'[w + k] = waiting[k]
  BY <1>20, <1>21, <1>23, <1>24, <1>25, Joined DEF PatchesOK
<1>27. DOMAIN patches = 1 .. w /\ DOMAIN patches' = 1 .. w + m
  BY <1>25, <1>26 DEF PatchesOK, IsList
<1>28. ASSUME NEW k \in 1 .. m
       PROVE  /\ patches'[w + k] = <<Inst.to[k], L + n - m + k>>
              /\ w + k \in DOMAIN patches'
  BY <1>23, <1>24, <1>26, <1>27
<1>29. m # 0 => m = n /\ Jumps(t, Inst)
  BY <1>4, <1>5, <1>22, <1>24 DEF Straight, Jumps, Returns
<1>30. ASSUME NEW p \in Steps + 1 .. L + n, IsJump(code'[p])
       PROVE  Pending(p)' \/ Reach(Target(p))'
  <2>1. CASE p \in 1 .. L
    <3>1. p \in Steps + 1 .. Len(code) /\ code'[p] = code[p]
      BY <1>5, <1>7, <2>1
    <3>2. CASE Pending(p)
      <4>1. PICK k \in DOMAIN patches : patches[k][2] = p
        BY <3>2 DEF Pending
      <4>2. k \in DOMAIN patches' /\ patches'[k] = patches[k]
        BY <1>26, <1>27
      <4> QED BY <1>1, <4>1, <4>2 DEF Pending
    <3>3. CASE Reach(Target(p))
      <4>1. Target(p)' = Target(p)
        BY <1>1, <3>1, FrameStays DEF Target
      <4> QED BY <1>16, <3>3, <4>1
    <3> QED BY <1>30, <3>1, <3>2, <3>3 DEF FlowOK
  <2>2. ASSUME NEW q \in 1 .. n, p = L + q PROVE Pending(p)'
    <3>1. code'[p] = t[q]
      BY <1>7, <2>2
    <3>2. m # 0
      <4>1. CASE Straight(t, Inst)
        BY <1>5, <1>30, <3>1, <4>1, JumpNotHarmless DEF Straight, AllHarmless
      <4>2. CASE Jumps(t, Inst)
        BY <1>5, <1>24, <4>2 DEF Jumps
      <4>3. CASE Returns(t, Inst)
        <5>1. PICK h \in 0 .. 1 : /\ n = h + Steps
                                  /\ \A r \in 1 .. h : Harmless(t[r])
                                  /\ \A k \in 1 .. Steps : t[h + k] = Exit[k]
          BY <1>5, <4>3 DEF Returns
        <5>2. CASE q <= h
          BY <1>30, <3>1, <5>1, <5>2, JumpNotHarmless
        <5>3. CASE ~(q <= h)
          <6>1. q - h \in 1 .. Steps /\ h + (q - h) = q
            BY <1>6, <1>8, <5>1, <5>3
          <6>2. t[q] = Exit[q - h]
            BY <5>1, <6>1
          <6> QED BY <1>30, <3>1, <6>1, <6>2, ExitIsNeither
        <5> QED BY <5>2, <5>3
      <4> QED BY <1>4, <4>1, <4>2, <4>3
    <3>3. q \in 1 .. m /\ L + n - m + q = p
      BY <1>6, <1>29, <2>2, <3>2
    <3>4. patches'[w + q][2] = p /\ w + q \in DOMAIN patches'
      BY <1>28, <3>3
    <3> QED BY <1>1, <3>4 DEF Pending
  <2> QED BY <1>18, <2>1, <2>2
<1>31. FlowOK'
  <2>1. \A k \in 1 .. Steps : code'[k] = Entry[k]
    BY <1>5, <1>6, <1>7, <1>8 DEF FlowOK
  <2>2. Reach(Steps + 1)'
    <3>1. Reach(Steps + 1)
      BY DEF FlowOK
    <3>2. PICK p : p = Steps + 1
      OBVIOUS
    <3> QED BY <1>1, <1>16, <3>1, <3>2, FrameStays
  <2>3. Steps <= L + n
    BY <1>6, <1>8
  <2> QED
    BY <1>1, <1>7, <1>19, <1>30, <2>1, <2>2, <2>3, FrameStays DEF FlowOK
<1>32. PatchesOK'
  <2>1. ASSUME NEW k \in DOMAIN patches'
        PROVE  /\ patches'[k][2] \in Steps + 1 .. L + n
               /\ IsJump(code'[patches'[k][2]])
               /\ \E j \in DOMAIN func.insts :
                    func.insts[j].label = patches'[k][1] /\ func.insts[j].label # NoLabel
    <3>1. CASE k \in 1 .. w
      <4>1. PICK p : p = patches[k][2] /\ p = patches'[k][2]
        BY <1>26, <3>1
      <4>2. p \in Steps + 1 .. L /\ IsJump(code[p])
        BY <1>5, <1>27, <3>1, <4>1 DEF PatchesOK
      <4>3. p \in Steps + 1 .. L + n /\ code'[p] = code[p]
        BY <1>6, <1>7, <1>8, <4>2
      <4> QED
        BY <1>26, <1>27, <3>1, <4>1, <4>2, <4>3 DEF PatchesOK
    <3>2. CASE \E q \in 1 .. m : k = w + q
      <4>1. PICK q \in 1 .. m : k = w + q
        BY <3>2
      <4>2. patches'[k] = <<Inst.to[q], L + n - m + q>>
        BY <1>28, <4>1
      <4>3. m = n /\ Jumps(t, Inst)
        BY <1>29
      <4>4. L + n - m + q \in Steps + 1 .. L + n /\ L + n - m + q = L + q
        BY <1>6, <1>8, <4>3
      <4>5. IsJump(code'[L + q])
        BY <1>5, <1>7, <4>3 DEF Jumps
      <4>6. patches'[k][2] = L + q /\ patches'[k][1] = Inst.to[q]
        BY <4>2, <4>4
      <4> QED
        BY <1>22, <1>24, <4>4, <4>5, <4>6
    <3>3. k \notin 1 .. w => k - w \in 1 .. m /\ k = w + (k - w)
      BY <1>27
    <3> QED BY <3>1, <3>2, <3>3
  <2> QED
    BY <1>1, <1>7, <1>26, <2>1, FrameStays DEF PatchesOK
<1>33. LabelsOK'
  <2>1. ASSUME NEW l \in DOMAIN labels', NEW p, p = labels'[l]
        PROVE  p \in Nat /\ Reach(p)'
    <3>1. CASE l \in DOMAIN labels /\ labels'[l] = labels[l]
      BY <1>16, <2>1, <3>1 DEF LabelsOK
    <3>2. CASE labels'[l] = L + 1
      BY <1>6, <1>15, <2>1, <3>2
    <3> QED BY <1>5, <3>1, <3>2 DEF Emit
  <2>2. ASSUME NEW j \in DOMAIN func.insts, j < idx + 1, func.insts[j].label # NoLabel
        PROVE  func.insts[j].label \in DOMAIN labels'
    <3>1. j < idx \/ j = idx
      BY <1>1, <1>2, <2>2
    <3>2. CASE j < idx
      BY <1>1, <2>2, <3>2 DEF LabelsOK, Emit
    <3>3. CASE j = idx
      BY <2>2, <3>3 DEF Emit, Inst
    <3> QED BY <3>1, <3>2, <3>3
  <2> QED
    BY <1>1, <2>1, <2>2 DEF LabelsOK
<1> QED
  BY <1>31, <1>32, <1>33

(* The prologue, instruction by instruction.                               *)
LEMMA EntryFacts ==
  /\ IsList(Entry) /\ Len(Entry) = Steps
  /\ OnX86 => /\ Steps = 6
              /\ Entry[1] = <<"push", "rbp">> /\ Entry[2] = <<"push", "rbx">>
              /\ Entry[3] = <<"push", "rsi">> /\ Entry[4] = <<"push", "rdi">>
              /\ Entry[5] = <<"mov", "rbp", "rsp">>
              /\ Entry[6] = <<"addi", "rsp", "rsp", -StackSize>>
  /\ ~OnX86 => /\ Steps = 4
               /\ Entry[1] = <<"addi", "sp", "sp", PairOffset(-StackSize)>>
               /\ Entry[2] = <<"store", "sp", 0, "fp">> /\ Entry[3] = <<"store", "sp", 8, "lr">>
               /\ Entry[4] = <<"addi", "fp", "sp", 0>>
<1>1. /\ IsList(X86Entry) /\ Len(X86Entry) = 6
      /\ X86Entry[1] = <<"push", "rbp">> /\ X86Entry[2] = <<"push", "rbx">>
      /\ X86Entry[3] = <<"push", "rsi">> /\ X86Entry[4] = <<"push", "rdi">>
      /\ X86Entry[5] = <<"mov", "rbp", "rsp">>
      /\ X86Entry[6] = <<"addi", "rsp", "rsp", -StackSize>>
  BY DEF X86Entry, IsList
<1>2. /\ IsList(ArmEntry) /\ Len(ArmEntry) = 4
      /\ ArmEntry[1] = <<"addi", "sp", "sp", PairOffset(-StackSize)>>
      /\ ArmEntry[2] = <<"store", "sp", 0, "fp">> /\ ArmEntry[3] = <<"store", "sp", 8, "lr">>
      /\ ArmEntry[4] = <<"addi", "fp", "sp", 0>>
  BY TupleIsList DEF ArmEntry, WordSize
<1> QED
  BY <1>1, <1>2 DEF Entry, Steps

(* The moves of the arguments into their slots.                            *)
LEMMA MovesHarmless ==
  ASSUME PlanOK, Emitted \/ phase = "instructions", ~OnRiscv
  PROVE  AllHarmless(ArgMoves)
<1>1. /\ target \in {"x86_64", "aarch64"}
      /\ DOMAIN func.params = 1 .. Len(func.params) /\ Len(func.params) \in Nat
      /\ ArgRegs[target] \in Seq(Registers \ {"rsp", "sp"})
  BY FunctionFacts DEF PlanOK, OnRiscv
<1>2. PICK a, b : a = Len(func.params) /\ b = Len(ArgRegs[target])
  OBVIOUS
<1>3. a \in Nat /\ b \in Nat /\ DOMAIN func.params = 1 .. a /\ DOMAIN ArgRegs[target] = 1 .. b
  BY <1>1, <1>2
<1>4. PICK m \in Nat : DOMAIN func.params \cap DOMAIN ArgRegs[target] = 1 .. m /\ m <= a
  <2>1. CASE a <= b
    <3>1. DOMAIN func.params \cap DOMAIN ArgRegs[target] = 1 .. a
      BY <1>3, <2>1
    <3> QED BY <1>3, <3>1
  <2>2. CASE b < a
    <3>1. DOMAIN func.params \cap DOMAIN ArgRegs[target] = 1 .. b
      BY <1>3, <2>2
    <3> QED BY <1>3, <2>2, <3>1
  <2> QED BY <1>3, <2>1, <2>2
<1>5. ArgMoves = [k \in 1 .. m |-> <<"store", FrameReg, SlotAt(<<"arg", k>>), ArgRegs[target][k]>>]
  BY <1>4 DEF ArgMoves
<1>6. IsList(ArgMoves) /\ Len(ArgMoves) = m
  <2>1. Len(ArgMoves) = m
    BY <1>5
  <2> QED BY <1>5, <2>1 DEF IsList
<1>7. ASSUME NEW k \in 1 .. m PROVE Harmless(ArgMoves[k])
  <2>1. ArgMoves[k] = <<"store", FrameReg, SlotAt(<<"arg", k>>), ArgRegs[target][k]>>
    BY <1>5
  <2>2. k \in DOMAIN func.params
    BY <1>3, <1>4
  <2>3. <<"arg", k>> \in DOMAIN slot
    BY <2>2 DEF PlanOK, Emitted
  <2>4. slot[<<"arg", k>>] \in Nat /\ FirstOffset <= slot[<<"arg", k>>]
    BY <2>3 DEF PlanOK
  <2> QED
    BY <1>1, <2>1, <2>4 DEF Harmless, SlotAt, FirstOffset, WordSize, OnX86
<1> QED
  BY <1>6, <1>7 DEF AllHarmless

(* The prologue and the moves of the arguments lead to what comes next.    *)
LEMMA BeginFlow ==
  ASSUME PlanOK, labels = <<>>, patches = <<>>, ~OnRiscv, BeginEmission
  PROVE  FlowOK' /\ LabelsOK' /\ PatchesOK'
<1>1. /\ phase = "instructions" /\ phase' = "emitting" /\ idx' = 1
      /\ UNCHANGED <<func, target, planVars, labels, patches>>
  BY DEF BeginEmission
<1>2. /\ DOMAIN func.insts = 1 .. Len(func.insts) /\ Len(func.insts) \in Nat \ {0}
      /\ target \in {"x86_64", "aarch64"}
  BY FunctionFacts DEF PlanOK, OnRiscv
<1>3. Open'
  BY <1>1, <1>2 DEF Open
<1>4. PICK t : t = ArgMoves
  OBVIOUS
<1>5. AllHarmless(t)
  BY <1>1, <1>4, MovesHarmless
<1>6. PICK n \in Nat : n = Len(t)
  BY <1>5 DEF AllHarmless, IsList
<1>7. /\ IsList(code') /\ Len(code') = Steps + n
      /\ \A p \in 1 .. Steps : code'[p] = Entry[p]
      /\ \A q \in 1 .. n : code'[Steps + q] = t[q]
  <2>1. code' = Entry \o t
    BY <1>2, <1>4 DEF BeginEmission, Prologue, Entry, OnX86, OnRiscv
  <2>2. PICK s : s = Entry
    OBVIOUS
  <2>3. IsList(s) /\ Len(s) = Steps
    BY <2>2, EntryFacts
  <2>4. PICK all : all = code'
    OBVIOUS
  <2>5. IsList(s) /\ IsList(t) /\ all = s \o t
    BY <1>5, <2>1, <2>2, <2>3, <2>4 DEF AllHarmless
  <2>6. /\ IsList(all) /\ Len(all) = Len(s) + Len(t)
        /\ \A p \in 1 .. Len(s) : all[p] = s[p]
        /\ \A q \in 1 .. Len(t) : all[Len(s) + q] = t[q]
    BY <2>5, Joined
  <2>7. Steps \in Nat
    BY DEF Steps
  <2> QED BY <1>6, <2>2, <2>3, <2>4, <2>6, <2>7
<1>8. Steps \in Nat
  BY DEF Steps
<1>9. ASSUME NEW p \in Steps + 1 .. Steps + n
      PROVE  FramePlace(p)' /\ Harmless(code'[p])
  <2>1. p - Steps \in 1 .. n /\ p = Steps + (p - Steps)
    BY <1>8
  <2>2. Harmless(code'[p])
    BY <1>5, <1>6, <1>7, <2>1 DEF AllHarmless
  <2> QED BY <1>1, <1>7, <1>9, <2>2, FrameStays DEF FramePlace
<1>10. ASSUME NEW p \in Steps + 1 .. Steps + n + 1
       PROVE  Reach(p)'
  <2>1. CASE p = Steps + n + 1
    BY <1>3, <1>7, <2>1 DEF Reach
  <2>2. CASE p # Steps + n + 1
    <3>1. p \in Steps + 1 .. Steps + n
      BY <1>8, <2>2
    <3> QED BY <1>9, <3>1 DEF Reach
  <2> QED BY <2>1, <2>2
<1>11. FlowOK'
  <2>1. Steps + 1 \in Steps + 1 .. Steps + n + 1
    BY <1>8
  <2>2. Reach(Steps + 1)'
    <3>1. PICK p : p = Steps + 1
      OBVIOUS
    <3> QED BY <1>1, <1>10, <2>1, <3>1, FrameStays
  <2>3. ASSUME NEW p \in Steps + 1 .. Steps + n
        PROVE  Reach(p + 1)' /\ ~IsJump(code'[p])
    <3>1. p + 1 \in Steps + 1 .. Steps + n + 1
      BY <1>8
    <3> QED BY <1>9, <1>10, <3>1, JumpNotHarmless
  <2>4. Steps <= Steps + n
    BY <1>8
  <2> QED BY <1>1, <1>7, <2>2, <2>3, <2>4, FrameStays DEF FlowOK
<1>12. LabelsOK'
  <2>1. DOMAIN <<>> = {}
    OBVIOUS
  <2>2. \A j \in DOMAIN func.insts : ~(j < 1)
    BY <1>2
  <2> QED BY <1>1, <2>1, <2>2 DEF LabelsOK
<1>13. PatchesOK'
  <2>1. IsList(<<>>) /\ DOMAIN <<>> = {}
    BY DEF IsList
  <2> QED BY <1>1, <2>1 DEF PatchesOK
<1> QED
  BY <1>11, <1>12, <1>13

(* Nothing after the emission moves the code, but the patches.             *)
LEMMA FlowUnchanged ==
  ASSUME PlanOK, FlowOK, LabelsOK, PatchesOK,
         UNCHANGED <<func, target, planVars, emitVars>>,
         \/ /\ ~Open /\ phase' # "emitting" /\ (phase' # "linking" => patches = <<>>)
            /\ \A k \in DOMAIN patches :
                 (phase = "linking" => idx <= k) => (phase' = "linking" => idx' <= k)
         \/ UNCHANGED <<phase, idx>>
  PROVE  FlowOK' /\ LabelsOK' /\ PatchesOK'
<1>1. UNCHANGED <<code, labels, patches>>
  BY DEF emitVars
<1>2. \A p : ExitAt(p)' <=> ExitAt(p)
  BY <1>1, FrameStays DEF ExitAt
<1>3. \A p : FramePlace(p)' <=> FramePlace(p)
  BY <1>1, <1>2, FrameStays DEF FramePlace
<1>4. \A p : Reach(p) => Reach(p)'
  <2>1. Open => Open'
    BY DEF Open
  <2> QED BY <1>1, <1>3, <2>1 DEF Reach
<1>5. \A p : Pending(p) => Pending(p)'
  BY <1>1 DEF Pending
<1>6. \A p : Target(p)' = Target(p)
  BY <1>1, FrameStays DEF Target
<1>7. FlowOK'
  <2>1. Reach(Steps + 1)'
    <3>1. PICK p : p = Steps + 1
      OBVIOUS
    <3> QED BY <1>4, <3>1, FrameStays DEF FlowOK
  <2>2. ASSUME NEW p \in Steps + 1 .. Len(code), IsJump(code[p])
        PROVE  Pending(p)' \/ Reach(Target(p))'
    <3>1. PICK q : q = Target(p)
      OBVIOUS
    <3>2. Reach(q) => Reach(Target(p))'
      BY <1>4, <1>6, <3>1
    <3> QED BY <1>5, <2>2, <3>1, <3>2 DEF FlowOK
  <2>3. ASSUME NEW p \in Steps + 1 .. Len(code),
               Harmless(code[p]) \/ (IsJump(code[p]) /\ code[p][1] = "jcc")
        PROVE  Reach(p + 1)'
    <3>1. PICK q : q = p + 1
      OBVIOUS
    <3>2. Reach(q)
      BY <2>3, <3>1 DEF FlowOK
    <3> QED BY <1>4, <3>1, <3>2
  <2>4. IsList(code) /\ Steps <= Len(code) /\ \A k \in 1 .. Steps : code[k] = Entry[k]
    BY DEF FlowOK
  <2> QED BY <1>1, <2>1, <2>2, <2>3, <2>4, FrameStays DEF FlowOK
<1>8. LabelsOK'
  <2>1. \A j \in DOMAIN func.insts :
          (phase' = "emitting" => j < idx') => (phase = "emitting" => j < idx)
    <3>1. DOMAIN func.insts = 1 .. Len(func.insts) /\ Len(func.insts) \in Nat
      BY FunctionFacts DEF PlanOK
    <3>2. ~Open /\ phase = "emitting" => idx \in Nat \ {0} /\ idx \notin DOMAIN func.insts
      BY DEF PlanOK, Open
    <3> QED BY <3>1, <3>2
  <2>2. \A l \in DOMAIN labels : labels[l] \in Nat /\ Reach(labels[l])
    BY DEF LabelsOK
  <2>3. ASSUME NEW l \in DOMAIN labels PROVE Reach(labels[l])'
    <3>1. PICK q : q = labels[l]
      OBVIOUS
    <3> QED BY <1>1, <1>4, <2>2, <3>1
  <2> QED BY <1>1, <2>1, <2>2, <2>3 DEF LabelsOK
<1>9. PatchesOK'
  BY <1>1, FrameStays DEF PatchesOK
<1> QED BY <1>7, <1>8, <1>9

(* A jump to its block.                                                    *)
LEMMA PatchKeepsFlow ==
  ASSUME PlanOK, FlowOK, LabelsOK, PatchesOK, ~OnRiscv, Patch
  PROVE  FlowOK' /\ LabelsOK' /\ PatchesOK'
<1>1. /\ phase = "linking" /\ idx \in Nat \ {0} /\ ~Open
      /\ UNCHANGED <<func, target, planVars, labels>>
  BY DEF Patch, PlanOK, Open
<1>2. PICK w \in Nat : DOMAIN patches = 1 .. w
  BY DEF PatchesOK, IsList
<1>3. CASE idx \notin DOMAIN patches
  <2>1. phase' = "compiled" /\ patches' = <<>> /\ UNCHANGED code
    BY <1>3 DEF Patch
  <2>2. \A k \in DOMAIN patches : ~(idx <= k)
    BY <1>1, <1>2, <1>3
  <2>3. \A p : ~Pending(p)
    BY <1>1, <2>2 DEF Pending
  <2>4. \A p : ExitAt(p)' <=> ExitAt(p)
    BY <1>1, <2>1, FrameStays DEF ExitAt
  <2>5. \A p : FramePlace(p)' <=> FramePlace(p)
    BY <1>1, <2>1, <2>4, FrameStays DEF FramePlace
  <2>6. \A p : Reach(p) => Reach(p)'
    BY <1>1, <2>5 DEF Reach
  <2>7. \A p : Target(p)' = Target(p)
    BY <1>1, <2>1, FrameStays DEF Target
  <2>8. FlowOK'
    <3>1. Reach(Steps + 1)'
      <4>1. PICK p : p = Steps + 1
        OBVIOUS
      <4> QED BY <1>1, <2>6, <4>1, FrameStays DEF FlowOK
    <3>2. ASSUME NEW p \in Steps + 1 .. Len(code), IsJump(code[p])
          PROVE  Reach(Target(p))'
      <4>1. PICK q : q = Target(p)
        OBVIOUS
      <4> QED BY <2>3, <2>6, <2>7, <3>2, <4>1 DEF FlowOK
    <3>3. ASSUME NEW p \in Steps + 1 .. Len(code),
                 Harmless(code[p]) \/ (IsJump(code[p]) /\ code[p][1] = "jcc")
          PROVE  Reach(p + 1)'
      <4>1. PICK q : q = p + 1
        OBVIOUS
      <4> QED BY <2>6, <3>3, <4>1 DEF FlowOK
    <3>4. IsList(code) /\ Steps <= Len(code) /\ \A k \in 1 .. Steps : code[k] = Entry[k]
      BY DEF FlowOK
    <3> QED BY <1>1, <2>1, <3>1, <3>2, <3>3, <3>4, FrameStays DEF FlowOK
  <2>9. LabelsOK'
    <3>1. ASSUME NEW l \in DOMAIN labels PROVE labels[l] \in Nat /\ Reach(labels[l])'
      <4>1. PICK q : q = labels[l]
        OBVIOUS
      <4> QED BY <1>1, <2>6, <4>1 DEF LabelsOK
    <3> QED BY <1>1, <2>1, <3>1 DEF LabelsOK
  <2>10. PatchesOK'
    <3>1. IsList(<<>>) /\ DOMAIN <<>> = {}
      BY DEF IsList
    <3> QED BY <2>1, <3>1 DEF PatchesOK
  <2> QED BY <2>8, <2>9, <2>10
<1>4. CASE idx \in DOMAIN patches
  <2>1. PICK label, at : label = patches[idx][1] /\ at = patches[idx][2]
    OBVIOUS
  <2>2. /\ at \in Steps + 1 .. Len(code) /\ IsJump(code[at])
        /\ \E j \in DOMAIN func.insts : func.insts[j].label = label /\ label # NoLabel
    BY <1>4, <2>1 DEF PatchesOK
  <2>3. label \in DOMAIN labels
    BY <1>1, <2>2 DEF LabelsOK
  <2>4. PICK to \in Nat : to = labels[label] /\ Reach(to)
    BY <2>3 DEF LabelsOK
  <2>5. PICK c, m : c = code[at] /\ m = Len(code[at])
    OBVIOUS
  <2>6. /\ IsList(c) /\ m = Len(c) /\ m \in {2, 3} /\ m \in Nat
        /\ \/ c[1] = "jmp" /\ m = 2
           \/ c[1] = "jcc" /\ m = 3
    BY <2>2, <2>5 DEF IsJump
  <2>7. PICK L \in Nat : L = Len(code)
    BY DEF FlowOK, IsList
  <2>8. Steps \in Nat /\ Steps # 0 /\ at \in 1 .. L /\ at \in Nat
    BY <2>2, <2>7 DEF Steps
  <2>9. JumpLength \in Nat
    BY DEF JumpLength
  <2>10. PICK d : d = to - (at + JumpLength)
    OBVIOUS
  <2>11. code = [p \in 1 .. L |-> code[p]]
    BY <2>7 DEF FlowOK, IsList
  <2>12. /\ code' = [code EXCEPT ![at] = [c EXCEPT ![m] = d]]
         /\ idx' = idx + 1 /\ phase' = phase /\ patches' = patches
    BY <1>4, <2>1, <2>4, <2>5, <2>10 DEF Patch, Displacement
  <2>13. PICK e : e = [c EXCEPT ![m] = d]
    OBVIOUS
  <2>14. /\ Len(e) = m /\ IsList(e) /\ e[1] = c[1] /\ e[m] = d
    <3>1. c = [i \in 1 .. m |-> c[i]]
      BY <2>6 DEF IsList
    <3>2. e = [i \in 1 .. m |-> IF i = m THEN d ELSE c[i]]
      BY <2>6, <2>13, <3>1
    <3>3. Len(e) = m
      BY <2>6, <3>2
    <3>4. IsList(e)
      BY <2>6, <3>2, <3>3 DEF IsList
    <3>5. 1 \in 1 .. m /\ m \in 1 .. m /\ m # 1
      <4>1. m = 2 \/ m = 3
        BY <2>6
      <4> QED BY <4>1
    <3> QED BY <3>2, <3>3, <3>4, <3>5
  <2>15. IsJump(e)
    BY <2>6, <2>14 DEF IsJump
  <2>16. /\ code' = [p \in 1 .. L |-> IF p = at THEN e ELSE code[p]]
         /\ Len(code') = L /\ IsList(code')
    <3>1. code' = [p \in 1 .. L |-> IF p = at THEN e ELSE code[p]]
      BY <2>8, <2>11, <2>12, <2>13
    <3>2. Len(code') = L
      BY <2>7, <3>1
    <3> QED BY <3>1, <3>2 DEF IsList
  <2>17. code'[at] = e /\ \A p \in 1 .. L : p # at => code'[p] = code[p]
    BY <2>8, <2>16
  <2>18. \A p \in Steps + 1 .. L : p \in 1 .. L
    BY <2>8
  <2>19. ASSUME NEW p \in 1 .. L
         PROVE  /\ Harmless(code'[p]) <=> Harmless(code[p])
                /\ IsJump(code'[p]) <=> IsJump(code[p])
                /\ code'[p][1] = code[p][1]
    BY <2>2, <2>5, <2>14, <2>15, <2>17, JumpNotHarmless
  <2>20. ASSUME NEW p \in Steps + 1 .. L, ExitAt(p) PROVE ExitAt(p)'
    <3>1. ASSUME NEW k \in 1 .. Steps PROVE code'[p + k - 1] = Exit[k]
      <4>1. p + k - 1 \in 1 .. L /\ code[p + k - 1] = Exit[k]
        BY <2>7, <2>8, <2>20 DEF ExitAt
      <4>2. p + k - 1 # at
        BY <2>2, <4>1, ExitIsNeither
      <4> QED BY <2>17, <4>1, <4>2
    <3> QED BY <1>1, <2>7, <2>16, <2>20, <3>1, FrameStays DEF ExitAt
  <2>21. ASSUME NEW p, FramePlace(p) PROVE FramePlace(p)'
    BY <1>1, <2>7, <2>16, <2>18, <2>19, <2>20, <2>21, FrameStays DEF FramePlace
  <2>22. ASSUME NEW p, Reach(p) PROVE Reach(p)'
    BY <1>1, <2>21, <2>22 DEF Reach
  <2>23. Reach(Target(at))'
    <3>1. Target(at)' = to
      <4>1. Len(code'[at]) = m /\ code'[at][m] = d
        BY <2>14, <2>17
      <4>2. Target(at)' = at + JumpLength + d
        BY <1>1, <4>1, FrameStays DEF Target
      <4> QED BY <2>8, <2>9, <2>10, <4>2
    <3> QED BY <2>4, <2>22, <3>1
  <2>24. ASSUME NEW p \in Steps + 1 .. L, IsJump(code'[p])
         PROVE  Pending(p)' \/ Reach(Target(p))'
    <3>1. CASE p = at
      BY <2>23, <3>1
    <3>2. CASE p # at
      <4>1. code'[p] = code[p]
        BY <2>17, <2>18, <3>2
      <4>2. CASE Pending(p)
        <5>1. PICK k \in DOMAIN patches : idx <= k /\ patches[k][2] = p
          BY <1>1, <4>2 DEF Pending
        <5>2. k # idx
          BY <2>1, <3>2, <5>1
        <5>3. idx + 1 <= k
          BY <1>1, <1>2, <5>1, <5>2
        <5> QED BY <2>12, <5>1, <5>3 DEF Pending
      <4>3. CASE Reach(Target(p))
        <5>1. Target(p)' = Target(p)
          BY <1>1, <4>1, FrameStays DEF Target
        <5>2. PICK q : q = Target(p)
          OBVIOUS
        <5> QED BY <2>22, <4>3, <5>1, <5>2
      <4> QED BY <2>7, <2>24, <4>1, <4>2, <4>3 DEF FlowOK
    <3> QED BY <3>1, <3>2
  <2>25. FlowOK'
    <3>1. Reach(Steps + 1)'
      <4>1. PICK p : p = Steps + 1
        OBVIOUS
      <4> QED BY <1>1, <2>22, <4>1, FrameStays DEF FlowOK
    <3>2. ASSUME NEW p \in Steps + 1 .. L,
                 Harmless(code'[p]) \/ (IsJump(code'[p]) /\ code'[p][1] = "jcc")
          PROVE  Reach(p + 1)'
      <4>1. PICK q : q = p + 1
        OBVIOUS
      <4>2. Harmless(code[p]) \/ (IsJump(code[p]) /\ code[p][1] = "jcc")
        BY <2>18, <2>19, <3>2
      <4>3. Reach(q)
        BY <2>7, <4>1, <4>2 DEF FlowOK
      <4> QED BY <2>22, <4>1, <4>3
    <3>3. ASSUME NEW k \in 1 .. Steps PROVE code'[k] = Entry[k]
      <4>1. k \in 1 .. L /\ k # at /\ code[k] = Entry[k]
        BY <2>2, <2>7, <2>8 DEF FlowOK
      <4> QED BY <2>17, <4>1
    <3>4. Steps <= L
      BY <2>7 DEF FlowOK
    <3> QED BY <1>1, <2>16, <2>24, <3>1, <3>2, <3>3, <3>4, FrameStays DEF FlowOK
  <2>26. LabelsOK'
    <3>1. ASSUME NEW l \in DOMAIN labels PROVE labels[l] \in Nat /\ Reach(labels[l])'
      <4>1. PICK q : q = labels[l]
        OBVIOUS
      <4> QED BY <1>1, <2>22, <4>1 DEF LabelsOK
    <3> QED BY <1>1, <2>12, <3>1 DEF LabelsOK
  <2>27. PatchesOK'
    <3>1. ASSUME NEW k \in DOMAIN patches
          PROVE  patches[k][2] \in Steps + 1 .. L /\ IsJump(code'[patches[k][2]])
      <4>1. PICK p : p = patches[k][2]
        OBVIOUS
      <4>2. p \in Steps + 1 .. L /\ IsJump(code[p])
        BY <2>7, <4>1 DEF PatchesOK
      <4> QED BY <2>18, <2>19, <4>1, <4>2
    <3> QED BY <1>1, <2>12, <2>16, <3>1, FrameStays DEF PatchesOK
  <2> QED BY <2>25, <2>26, <2>27
<1> QED BY <1>3, <1>4

(* Registers and memory are functions of their names and addresses.        *)
RegsOK == regs = [r \in Registers |-> regs[r]]
MemOK  == mem = [a \in Addresses |-> mem[a]]

(* One register set, the others as they were.                              *)
LEMMA SetRegister ==
  ASSUME RegsOK, NEW r \in Registers, NEW v, SetReg(r, v)
  PROVE  RegsOK' /\ regs'[r] = v /\ \A x \in Registers : x # r => regs'[x] = regs[x]
<1>1. regs' = [x \in Registers |-> IF x = r THEN v ELSE regs[x]]
  BY DEF RegsOK, SetReg
<1> QED
  BY <1>1 DEF RegsOK

(* One word written, the others as they were.                              *)
LEMMA WriteWord ==
  ASSUME MemOK, NEW a, NEW v, Write(a, v)
  PROVE  /\ MemOK' /\ \A x \in Addresses : x # a => mem'[x] = mem[x]
         /\ a \in Addresses => mem'[a] = v
<1>1. mem' = [x \in Addresses |-> IF x = a /\ a \in Addresses THEN v ELSE mem[x]]
  BY DEF MemOK, Write
<1> QED
  BY <1>1 DEF MemOK

(* The machine's steps, by the instruction at pc: push.                    *)
LEMMA StepPush ==
  ASSUME Execute, NEW r, code[pc] = <<"push", r>>
  PROVE  /\ SetReg("rsp", regs.rsp - 8) /\ Write(regs.rsp - 8, regs[r])
         /\ pc' = pc + 1 /\ phase' = phase
<1>1. code[pc][1] = "push" /\ code[pc][2] = r
  OBVIOUS
<1> QED BY <1>1 DEF Execute, Move, Compute, Return, Op, Next1, WordSize

(* The machine at a pop.                                                   *)
LEMMA StepPop ==
  ASSUME Execute, NEW r, code[pc] = <<"pop", r>>
  PROVE  /\ regs' = [regs EXCEPT !["rsp"] = @ + 8, ![r] = Read(regs.rsp)]
         /\ mem' = mem /\ pc' = pc + 1 /\ phase' = phase
<1>1. code[pc][1] = "pop" /\ code[pc][2] = r
  OBVIOUS
<1> QED BY <1>1 DEF Execute, Move, Compute, Return, Op, Next1, WordSize

(* At a move between registers.                                            *)
LEMMA StepMov ==
  ASSUME Execute, NEW r, NEW x, code[pc] = <<"mov", r, x>>
  PROVE  SetReg(r, regs[x]) /\ mem' = mem /\ pc' = pc + 1 /\ phase' = phase
<1>1. code[pc][1] = "mov" /\ code[pc][2] = r /\ code[pc][3] = x
  OBVIOUS
<1> QED BY <1>1 DEF Execute, Move, Compute, Return, Op, Next1

(* At an addition of a constant.                                           *)
LEMMA StepAddi ==
  ASSUME Execute, NEW r, NEW x, NEW n, code[pc] = <<"addi", r, x, n>>
  PROVE  SetReg(r, regs[x] + n) /\ mem' = mem /\ pc' = pc + 1 /\ phase' = phase
<1>1. code[pc][1] = "addi" /\ code[pc][2] = r /\ code[pc][3] = x /\ code[pc][4] = n
  OBVIOUS
<1> QED BY <1>1 DEF Execute, Move, Compute, Return, Op, Next1

(* At a load.                                                              *)
LEMMA StepLoad ==
  ASSUME Execute, NEW r, NEW x, NEW n, code[pc] = <<"load", r, x, n>>
  PROVE  SetReg(r, Read(regs[x] + n)) /\ mem' = mem /\ pc' = pc + 1 /\ phase' = phase
<1>1. code[pc][1] = "load" /\ code[pc][2] = r /\ code[pc][3] = x /\ code[pc][4] = n
  OBVIOUS
<1> QED BY <1>1 DEF Execute, Move, Compute, Return, Op, Next1

(* At a store.                                                             *)
LEMMA StepStore ==
  ASSUME Execute, NEW r, NEW x, NEW n, code[pc] = <<"store", x, n, r>>
  PROVE  Write(regs[x] + n, regs[r]) /\ regs' = regs /\ pc' = pc + 1 /\ phase' = phase
<1>1. code[pc][1] = "store" /\ code[pc][2] = x /\ code[pc][3] = n /\ code[pc][4] = r
  OBVIOUS
<1> QED BY <1>1 DEF Execute, Move, Compute, Return, Op, Next1

(* At a return.                                                            *)
LEMMA StepRet ==
  ASSUME Execute, code[pc] = <<"ret">>
  PROVE  /\ phase' \in {"returned", "strayed"} /\ mem' = mem
         /\ OnX86 => SetReg("rsp", regs.rsp + 8)
         /\ ~OnX86 => regs' = regs
<1>1. code[pc][1] = "ret"
  OBVIOUS
<1> QED BY <1>1 DEF Execute, Move, Compute, Return, Op, WordSize

(* At a jump: to its target, or past it when it is conditional.            *)
LEMMA StepJump ==
  ASSUME Execute, IsJump(code[pc])
  PROVE  /\ UNCHANGED <<regs, mem, phase>>
         /\ pc' = Target(pc) \/ (code[pc][1] = "jcc" /\ pc' = pc + 1)
<1>1. CASE code[pc][1] = "jmp" /\ Len(code[pc]) = 2
  BY <1>1 DEF Execute, Move, Compute, Return, Op, Jump, Target
<1>2. CASE code[pc][1] = "jcc" /\ Len(code[pc]) = 3
  BY <1>2 DEF Execute, Move, Compute, Return, Op, Jump, JumpIf, Next1, Target
<1> QED BY <1>1, <1>2 DEF IsJump

(* At a harmless instruction: one scratch register or one word changes.    *)
LEMMA StepHarmless ==
  ASSUME Execute, Harmless(code[pc])
  PROVE  /\ pc' = pc + 1 /\ phase' = phase
         /\ \/ /\ code[pc][1] # "store" /\ mem' = mem
               /\ regs' = regs \/ \E r \in Scratches : \E v : SetReg(r, v)
            \/ /\ code[pc][1] = "store" /\ regs' = regs
               /\ \E v : Write(regs[code[pc][2]] + code[pc][3], v)
<1>1. CASE code[pc][1] \in {"imm", "load"} /\ code[pc][2] \in Scratches
  BY <1>1 DEF Execute, Move, Compute, Return, Op, Next1
<1>2. CASE code[pc][1] \in {"add", "sub", "mul"} /\ code[pc][2] \in Scratches
  BY <1>2 DEF Execute, Move, Compute, Return, Op, Next1
<1>3. CASE code[pc][1] = "cmp"
  BY <1>3 DEF Execute, Move, Compute, Return, Op, Next1
<1>4. CASE code[pc][1] = "store"
  BY <1>4 DEF Execute, Move, Compute, Return, Op, Next1
<1> QED BY <1>1, <1>2, <1>3, <1>4 DEF Harmless

(* The frame and what is pushed before it lie on the stack.                *)
LEMMA FrameRoom ==
  ASSUME PlanOK, Emitted
  PROVE  \E q \in Nat : /\ StackSize = 16 * q /\ offset <= 16 * q
                        /\ 2 * q + 4 <= StackWords /\ 8 <= StackWords
<1>1. PICK a \in Nat, b \in Nat : a = Len(func.params) /\ b = Len(func.insts)
  BY FunctionFacts DEF PlanOK
<1>2. StackWords \in Nat /\ a + b + 8 <= StackWords /\ offset \in Nat /\ offset <= 16 + 8 * (a + b)
  <2>1. StackWords \in Nat /\ a + b + 8 <= StackWords
    BY <1>1, FunctionFacts DEF PlanOK
  <2>2. FirstOffset <= 16 /\ FirstOffset \in Nat
    BY DEF FirstOffset, WordSize
  <2>3. offset \in Nat /\ (Emitted => offset <= FirstOffset + 8 * (a + b))
    BY <1>1 DEF PlanOK
  <2> QED BY <2>1, <2>2, <2>3
<1>3. PICK q \in Int : q = (offset + 15) \div 16
  BY <1>2
<1>4. 16 * q <= offset + 15 /\ offset <= 16 * q
  BY <1>2, <1>3
<1>5. StackSize = 16 * q
  BY <1>2, <1>3 DEF StackSize
<1>6. q \in Nat /\ 2 * q + 4 <= StackWords
  <2>1. 16 * q <= 31 + 8 * (a + b)
    BY <1>2, <1>4
  <2>2. 2 * q <= a + b + 3
    BY <2>1
  <2>3. 0 <= q
    BY <1>2, <1>4
  <2> QED BY <1>2, <2>2, <2>3
<1>7. 8 <= StackWords
  BY <1>2
<1> QED BY <1>4, <1>5, <1>6, <1>7

(* The words of the saved registers are words of the stack.                *)
LEMMA SavedOnStack ==
  ASSUME PlanOK, Emitted, NEW j \in 1 .. Count
  PROVE  SavedAt(j) \in Addresses
<1>1. PICK q \in Nat : StackSize = 16 * q /\ 2 * q + 4 <= StackWords /\ 8 <= StackWords
  BY FrameRoom
<1>2. StackWords \in Nat
  BY FunctionFacts DEF PlanOK
<1>3. CASE OnX86
  <2>1. -j \in -StackWords .. 8 /\ SavedAt(j) = 8 * (-j)
    BY <1>1, <1>2, <1>3 DEF Count, SavedAt
  <2> QED BY <2>1 DEF Addresses, WordSize
<1>4. CASE ~OnX86
  <2>1. j - 1 - 2 * q \in -StackWords .. 8 /\ SavedAt(j) = 8 * (j - 1 - 2 * q)
    BY <1>1, <1>2, <1>4 DEF Count, SavedAt
  <2> QED BY <2>1 DEF Addresses, WordSize
<1> QED BY <1>3, <1>4

(* Where ldp's offset can hold the frame, stp's can hold its negative.     *)
LEMMA PairFits ==
  ASSUME PlanOK, Emitted, FrameFits, target = "aarch64"
  PROVE  PairOffset(StackSize) = StackSize /\ PairOffset(-StackSize) = -StackSize
<1>1. PICK q \in Nat : StackSize = 16 * q
  BY FrameRoom
<1>2. PairBits \in Nat \ {0} /\ PairBits - 1 \in Nat
  BY NativeAssumption
<1>3. PICK half \in Nat \ {0} : half = 2 ^ (PairBits - 1)
  BY <1>2, PowerPositive
<1>4. 2 ^ PairBits = 2 * half
  <2>1. 2 ^ (PairBits - 1 + 1) = 2 * 2 ^ (PairBits - 1)
    BY <1>2, PowerDoubles
  <2>2. PairBits - 1 + 1 = PairBits
    BY <1>2
  <2> QED BY <1>3, <2>1, <2>2
<1>5. \A x \in Int : Signed(x, PairBits) = ((x + half) % (2 * half)) - half
  BY <1>3, <1>4 DEF Signed
<1>6. (16 * q) \div 8 = 2 * q
  OBVIOUS
<1>7. (-(16 * q)) \div 8 = -(2 * q)
  OBVIOUS
<1>8. PairOffset(StackSize) = StackSize
  BY DEF FrameFits
<1>9. PICK r \in 0 .. 2 * half - 1 : r = (2 * q + half) % (2 * half)
  BY DivMod
<1>10. 8 * (r - half) = 16 * q
  BY <1>1, <1>5, <1>6, <1>8, <1>9 DEF PairOffset, WordSize
<1>11. 2 * q < half
  BY <1>10
<1>12. (-(2 * q) + half) % (2 * half) = -(2 * q) + half
  <2>1. PICK y \in Int, m \in Nat \ {0} : y = -(2 * q) + half /\ m = 2 * half
    OBVIOUS
  <2>2. y \in 0 .. m - 1
    BY <1>11, <2>1
  <2>3. y = m * 0 + y
    BY <2>1
  <2>4. y % m = y
    BY <2>1, <2>2, <2>3, DivModUnique
  <2> QED BY <2>1, <2>4
<1>13. PairOffset(-StackSize) = 8 * (-(2 * q) + half - half)
  <2>1. -StackSize = -(16 * q)
    BY <1>1
  <2>2. Signed(-(2 * q), PairBits) = -(2 * q) + half - half
    BY <1>5, <1>12
  <2> QED BY <1>7, <2>1, <2>2 DEF PairOffset, WordSize
<1> QED BY <1>1, <1>8, <1>13

(* A call begins with the stack pointer at 0.                              *)
LEMMA StackAtCall ==
  ASSUME PlanOK, NEW given
  PROVE  AtCall(StackReg, given) = 0
<1>1. /\ ArgRegs[target] \in Seq(Registers \ {"rsp", "sp"})
      /\ target \in {"x86_64", "aarch64", "riscv64"}
  BY FunctionFacts DEF PlanOK
<1>2. \A j \in DOMAIN ArgRegs[target] : ArgRegs[target][j] \notin {"rsp", "sp"}
  BY <1>1
<1>3. {j \in DOMAIN given \cap DOMAIN ArgRegs[target] : ArgRegs[target][j] = StackReg} = {}
  BY <1>2 DEF StackReg
<1>4. {j \in DOMAIN Saved : Saved[j] = StackReg} = {}
  BY <1>1 DEF Saved, StackReg, OnX86, OnRiscv
<1>5. Kept(StackReg) = 0
  BY <1>4 DEF Kept
<1> QED BY <1>3, <1>5 DEF AtCall

(* Which registers are saved; the stack pointer is none of them.           *)
LEMMA SavedFacts ==
  ASSUME ~OnRiscv
  PROVE  /\ OnX86 => /\ DOMAIN Saved = 1 .. 4
                     /\ Saved[1] = "rbp" /\ Saved[2] = "rbx" /\ Saved[3] = "rsi" /\ Saved[4] = "rdi"
         /\ ~OnX86 => DOMAIN Saved = 1 .. 2 /\ Saved[1] = "fp" /\ Saved[2] = "lr"
         /\ \A j \in DOMAIN Saved : /\ Saved[j] \in Registers \ {StackReg}
                                    /\ Saved[j] \notin {"rsp", "sp"}
         /\ \A i, j \in DOMAIN Saved : Saved[i] = Saved[j] => i = j
  BY DEF Saved, OnX86, OnRiscv, Registers, StackReg

(* While the call lasts, what is the caller's does not change.             *)
LEMMA OwnerStays ==
  ASSUME UNCHANGED <<func, target, planVars, inputs>>
  PROVE  /\ \A j : Owner(j)' = Owner(j) /\ SavedAt(j)' = SavedAt(j)
         /\ Saved' = Saved /\ StackReg' = StackReg /\ FrameReg' = FrameReg
         /\ Count' = Count /\ FrameBase' = FrameBase
         /\ AtCall(StackReg, inputs)' = AtCall(StackReg, inputs)
<1>1. OnX86' = OnX86 /\ OnRiscv' = OnRiscv /\ StackSize' = StackSize /\ target' = target
  BY FrameStays
<1>2. /\ Saved' = Saved /\ StackReg' = StackReg /\ FrameReg' = FrameReg
      /\ Count' = Count /\ FrameBase' = FrameBase
  BY <1>1 DEF Saved, StackReg, FrameReg, Count, FrameBase
<1>3. \A j : SavedAt(j)' = SavedAt(j)
  BY <1>1 DEF SavedAt
<1>4. \A r : Kept(r)' = Kept(r)
  BY <1>2 DEF Kept
<1>5. \A r, given : AtCall(r, given)' = AtCall(r, given)
  BY <1>1, <1>4 DEF AtCall
<1>6. \A j : Owner(j)' = Owner(j)
  BY <1>2, <1>5 DEF Owner
<1>7. AtCall(StackReg, inputs)' = AtCall(StackReg, inputs)
  BY <1>2, <1>5
<1> QED BY <1>2, <1>3, <1>6, <1>7

(* The function, its frame and its arguments are those of before.          *)
Same == UNCHANGED <<func, target, planVars, inputs>>

(* Words on the stack stay saved while nothing writes them.                *)
LEMMA StackedStays ==
  ASSUME Same, NEW n, Stacked(n), \A j \in 1 .. n : mem'[SavedAt(j)] = mem[SavedAt(j)]
  PROVE  Stacked(n)'
  BY OwnerStays DEF Stacked, Same

(* Registers keep the caller's values while nothing sets them.             *)
LEMMA HoldingStays ==
  ASSUME Same, NEW S, Holding(S), \A j \in S : regs'[Saved[j]] = regs[Saved[j]]
  PROVE  Holding(S)'
  BY OwnerStays DEF Holding, Same

(* The prologue on x86-64.                                                 *)
LEMMA X86Enters ==
  ASSUME PlanOK, Emitted, ~OnRiscv, OnX86, Execute, RegsOK, MemOK,
         NEW k \in 1 .. 6, pc = k, code[k] = Entry[k], EnterState(k)
  PROVE  /\ RegsOK' /\ MemOK' /\ phase' = phase /\ pc' = k + 1
         /\ k < 6 => EnterState(k + 1)'
         /\ k = 6 => InFrame'
<1>1. Same /\ OnX86' = OnX86
  BY FrameStays DEF Execute, Same
<1>2. /\ Saved[1] = "rbp" /\ Saved[2] = "rbx" /\ Saved[3] = "rsi" /\ Saved[4] = "rdi"
      /\ DOMAIN Saved = 1 .. 4 /\ Count = 4
      /\ {"rsp", "rbp", "rbx", "rsi", "rdi"} \subseteq Registers
  BY SavedFacts DEF Count, Registers
<1>3. \A j \in 1 .. 4 : SavedAt(j) \in Addresses /\ SavedAt(j) = -8 * j
  BY <1>2, SavedOnStack DEF SavedAt
<1>4. CASE k \in 1 .. 4
  <2>1. code[pc] = <<"push", Saved[k]>>
    <3>1. k = 1 \/ k = 2 \/ k = 3 \/ k = 4
      BY <1>4
    <3> QED BY <1>2, <3>1, EntryFacts
  <2>2. /\ SetReg("rsp", regs.rsp - 8) /\ Write(regs.rsp - 8, regs[Saved[k]])
        /\ pc' = pc + 1 /\ phase' = phase
    BY <2>1, StepPush
  <2>3. /\ Stacked(k - 1) /\ Holding(k .. 4) /\ regs.rsp = -8 * (k - 1)
    BY <1>4 DEF EnterState
  <2>4. regs.rsp - 8 = -8 * k /\ regs.rsp - 8 = SavedAt(k)
    BY <1>3, <1>4, <2>3
  <2>5. /\ RegsOK' /\ regs'["rsp"] = -8 * k
        /\ \A x \in Registers : x # "rsp" => regs'[x] = regs[x]
    BY <1>2, <2>2, <2>4, SetRegister
  <2>6. /\ MemOK' /\ mem'[SavedAt(k)] = regs[Saved[k]]
        /\ \A x \in Addresses : x # SavedAt(k) => mem'[x] = mem[x]
    BY <1>3, <1>4, <2>2, <2>4, WriteWord
  <2>7. regs[Saved[k]] = Owner(k)
    BY <1>4, <2>3 DEF Holding
  <2>8. Stacked(k)'
    <3>1. ASSUME NEW j \in 1 .. k PROVE mem'[SavedAt(j)] = Owner(j)
      <4>1. CASE j = k
        BY <2>6, <2>7, <4>1
      <4>2. CASE j # k
        <5>1. j \in 1 .. k - 1 /\ SavedAt(j) # SavedAt(k) /\ SavedAt(j) \in Addresses
          BY <1>3, <1>4, <4>2
        <5> QED BY <2>3, <2>6, <5>1 DEF Stacked
      <4> QED BY <4>1, <4>2
    <3> QED BY <1>1, <3>1, OwnerStays DEF Stacked, Same
  <2>9. Holding(k + 1 .. 4)'
    <3>1. ASSUME NEW j \in k + 1 .. 4 PROVE regs'[Saved[j]] = regs[Saved[j]]
      <4>1. j \in DOMAIN Saved /\ j \in k .. 4
        BY <1>2, <1>4
      <4> QED BY <2>5, <4>1, SavedFacts
    <3>2. Holding(k + 1 .. 4)
      BY <1>4, <2>3 DEF Holding
    <3> QED BY <1>1, <3>1, <3>2, HoldingStays
  <2>10. EnterState(k + 1)'
    <3>1. CASE k = 4
      BY <1>1, <2>5, <2>8, <2>9, <3>1 DEF EnterState
    <3>2. CASE k # 4
      <4>1. k + 1 <= 4 /\ k + 1 - 1 = k /\ k + 1 # 6
        BY <1>4, <3>2
      <4> QED BY <1>1, <2>5, <2>8, <2>9, <4>1 DEF EnterState
    <3> QED BY <3>1, <3>2
  <2> QED BY <1>4, <2>2, <2>5, <2>6, <2>10
<1>5. CASE k = 5
  <2>1. code[pc] = <<"mov", "rbp", "rsp">>
    BY <1>5, EntryFacts
  <2>2. SetReg("rbp", regs.rsp) /\ mem' = mem /\ pc' = pc + 1 /\ phase' = phase
    BY <2>1, StepMov
  <2>3. Stacked(4) /\ regs.rsp = -32
    BY <1>5 DEF EnterState
  <2>4. RegsOK' /\ regs'["rbp"] = -32 /\ regs'["rsp"] = -32
    BY <1>2, <2>2, <2>3, SetRegister
  <2>5. Stacked(4)'
    BY <1>1, <2>2, <2>3, StackedStays
  <2>6. Holding(6 .. 4)'
    BY DEF Holding
  <2>7. EnterState(6)'
    BY <1>1, <2>4, <2>5, <2>6 DEF EnterState
  <2> QED BY <1>5, <2>2, <2>4, <2>7 DEF MemOK
<1>6. CASE k = 6
  <2>1. code[pc] = <<"addi", "rsp", "rsp", -StackSize>>
    BY <1>6, EntryFacts
  <2>2. SetReg("rsp", regs["rsp"] + (-StackSize)) /\ mem' = mem /\ pc' = pc + 1 /\ phase' = phase
    BY <2>1, StepAddi
  <2>3. Stacked(4) /\ regs.rbp = -32
    BY <1>6 DEF EnterState
  <2>4. RegsOK' /\ regs'["rbp"] = -32
    BY <1>2, <2>2, <2>3, SetRegister
  <2>5. Stacked(4)'
    BY <1>1, <2>2, <2>3, StackedStays
  <2>6. InFrame'
    BY <1>1, <2>4, <2>5 DEF InFrame, Count, FrameReg, FrameBase
  <2> QED BY <1>6, <2>2, <2>4, <2>6 DEF MemOK
<1> QED BY <1>4, <1>5, <1>6

(* The epilogue on x86-64, from the frame or from within.                  *)
LEMMA X86Leaves ==
  ASSUME PlanOK, Emitted, ~OnRiscv, OnX86, Execute, RegsOK, MemOK,
         NEW k \in 1 .. 6, code[pc] = Exit[k],
         k = 1 => InFrame, k # 1 => LeaveState(k)
  PROVE  /\ RegsOK' /\ MemOK'
         /\ k < 6 => phase' = phase /\ pc' = pc + 1 /\ LeaveState(k + 1)'
         /\ k = 6 => phase' \in {"returned", "strayed"} /\ Undisturbed'
<1>1. Same /\ OnX86' = OnX86
  BY FrameStays DEF Execute, Same
<1>2. /\ Saved[1] = "rbp" /\ Saved[2] = "rbx" /\ Saved[3] = "rsi" /\ Saved[4] = "rdi"
      /\ DOMAIN Saved = 1 .. 4 /\ Count = 4
      /\ {"rsp", "rbp", "rbx", "rsi", "rdi"} \subseteq Registers
  BY SavedFacts DEF Count, Registers
<1>3. \A j \in 1 .. 4 : SavedAt(j) \in Addresses /\ SavedAt(j) = -8 * j
  BY <1>2, SavedOnStack DEF SavedAt
<1>4. CASE k = 1
  <2>1. code[pc] = <<"mov", "rsp", "rbp">>
    BY <1>4, ExitFacts
  <2>2. SetReg("rsp", regs["rbp"]) /\ mem' = mem /\ pc' = pc + 1 /\ phase' = phase
    BY <2>1, StepMov
  <2>3. Stacked(4) /\ regs["rbp"] = -32
    BY <1>4 DEF InFrame, Count, FrameReg, FrameBase
  <2>4. RegsOK' /\ regs'["rsp"] = -32
    BY <1>2, <2>2, <2>3, SetRegister
  <2>5. Stacked(4)'
    BY <1>1, <2>2, <2>3, StackedStays
  <2>6. \A j \in 1 .. 4 : ~(7 - 2 <= j)
    OBVIOUS
  <2>7. Holding({j \in 1 .. 4 : 7 - 2 <= j})'
    BY <2>6 DEF Holding
  <2>8. LeaveState(2)'
    BY <1>1, <2>4, <2>5, <2>7 DEF LeaveState
  <2> QED BY <1>4, <2>2, <2>4, <2>8 DEF MemOK
<1>5. CASE k \in 2 .. 5
  <2>1. PICK i \in 1 .. 4 : i = 6 - k
    <3>1. 6 - k \in 1 .. 4
      BY <1>5
    <3> QED BY <3>1
  <2>2. code[pc] = <<"pop", Saved[i]>>
    <3>1. k = 2 \/ k = 3 \/ k = 4 \/ k = 5
      BY <1>5
    <3> QED BY <1>2, <2>1, <3>1, ExitFacts
  <2>3. /\ regs' = [regs EXCEPT !["rsp"] = @ + 8, ![Saved[i]] = Read(regs.rsp)]
        /\ mem' = mem /\ pc' = pc + 1 /\ phase' = phase
    BY <2>2, StepPop
  <2>4. Stacked(4) /\ Holding({j \in 1 .. 4 : 7 - k <= j}) /\ regs.rsp = -8 * i
    BY <1>5, <2>1 DEF LeaveState
  <2>5. Read(regs.rsp) = Owner(i)
    BY <1>3, <2>1, <2>4 DEF Read, Stacked
  <2>6. Saved[i] \in Registers /\ Saved[i] # "rsp"
    BY <1>2, <2>1, SavedFacts
  <2>7. regs' = [x \in Registers |-> IF x = Saved[i] THEN Owner(i)
                                     ELSE IF x = "rsp" THEN -8 * i + 8 ELSE regs[x]]
    BY <1>2, <2>3, <2>4, <2>5, <2>6 DEF RegsOK
  <2>8. RegsOK'
    BY <2>7 DEF RegsOK
  <2>9. regs'["rsp"] = -8 * i + 8 /\ regs'[Saved[i]] = Owner(i)
    BY <1>2, <2>6, <2>7
  <2>10. \A x \in Registers : x # "rsp" /\ x # Saved[i] => regs'[x] = regs[x]
    BY <2>7
  <2>11. Stacked(4)'
    BY <1>1, <2>3, <2>4, StackedStays
  <2>12. ASSUME NEW j \in 1 .. 4, i <= j PROVE regs'[Saved[j]] = Owner(j)
    <3>1. CASE j = i
      BY <2>9, <3>1
    <3>2. CASE j # i
      <4>1. 7 - k <= j
        BY <1>5, <2>1, <2>12, <3>2
      <4>2. regs[Saved[j]] = Owner(j)
        BY <2>4, <4>1 DEF Holding
      <4>3. Saved[j] # Saved[i] /\ Saved[j] # "rsp" /\ Saved[j] \in Registers
        BY <1>2, <3>2, SavedFacts
      <4> QED BY <2>10, <4>2, <4>3
    <3> QED BY <3>1, <3>2
  <2>13. \A j \in 1 .. 4 : 7 - (k + 1) <= j => i <= j
    BY <1>5, <2>1
  <2>14. Holding({j \in 1 .. 4 : 7 - (k + 1) <= j})'
    BY <1>1, <2>12, <2>13, OwnerStays DEF Holding, Same
  <2>15. -8 * i + 8 = -8 * (6 - (k + 1))
    BY <1>5, <2>1
  <2>16. LeaveState(k + 1)'
    BY <1>1, <2>9, <2>11, <2>14, <2>15 DEF LeaveState
  <2> QED BY <1>5, <2>3, <2>8, <2>16 DEF MemOK
<1>6. CASE k = 6
  <2>1. code[pc] = <<"ret">>
    BY <1>6, ExitFacts
  <2>2. SetReg("rsp", regs["rsp"] + 8) /\ mem' = mem /\ phase' \in {"returned", "strayed"}
    BY <2>1, StepRet
  <2>3. Holding({j \in 1 .. 4 : 7 - 6 <= j}) /\ regs["rsp"] = -8 * (6 - 6)
    BY <1>6 DEF LeaveState
  <2>4. /\ RegsOK' /\ regs'["rsp"] = 8
        /\ \A x \in Registers : x # "rsp" => regs'[x] = regs[x]
    BY <1>2, <2>2, <2>3, SetRegister
  <2>5. ASSUME NEW j \in 1 .. 4 PROVE regs'[Saved[j]] = Owner(j)
    <3>1. regs[Saved[j]] = Owner(j)
      BY <2>3 DEF Holding
    <3> QED BY <1>2, <2>4, <3>1, SavedFacts
  <2>6. AtCall(StackReg, inputs) = 0 /\ StackReg = "rsp"
    BY StackAtCall DEF StackReg
  <2>7. AtCall(StackReg, inputs)' = 0
    BY <1>1, <2>6, OwnerStays DEF Same
  <2>8. \A j \in DOMAIN Saved' : regs'[Saved'[j]] = Owner(j)'
    BY <1>1, <1>2, <2>5, OwnerStays DEF Same
  <2>9. Undisturbed'
    <3>1. regs'[StackReg'] = 8
      BY <1>1, <2>4, <2>6, OwnerStays DEF Same
    <3>2. \A j \in DOMAIN Saved' : regs'[Saved'[j]] = AtCall(Saved[j], inputs)'
      BY <2>8 DEF Owner
    <3> QED BY <1>1, <2>7, <3>1, <3>2 DEF Undisturbed, WordSize
  <2> QED BY <1>6, <2>2, <2>4, <2>9 DEF MemOK
<1> QED BY <1>4, <1>5, <1>6

(* Where AArch64 saves its registers.                                      *)
LEMMA ArmFacts ==
  ASSUME PlanOK, Emitted, ~OnRiscv, ~OnX86, FrameFits
  PROVE  /\ Saved[1] = "fp" /\ Saved[2] = "lr" /\ DOMAIN Saved = 1 .. 2 /\ Count = 2
         /\ {"sp", "fp", "lr"} \subseteq Registers
         /\ SavedAt(1) \in Addresses /\ SavedAt(2) \in Addresses
         /\ SavedAt(1) = -StackSize + 0 /\ SavedAt(2) = -StackSize + 8
         /\ SavedAt(1) # SavedAt(2)
         /\ PairOffset(StackSize) = StackSize /\ PairOffset(-StackSize) = -StackSize
         /\ StackSize \in Nat
         /\ FrameReg = "sp" /\ StackReg = "sp" /\ FrameBase = -StackSize
<1>1. target = "aarch64"
  BY FunctionFacts DEF PlanOK, OnRiscv, OnX86
<1>2. PICK q \in Nat : StackSize = 16 * q
  BY FrameRoom
<1>3. /\ Saved[1] = "fp" /\ Saved[2] = "lr" /\ DOMAIN Saved = 1 .. 2 /\ Count = 2
      /\ {"sp", "fp", "lr"} \subseteq Registers
      /\ FrameReg = "sp" /\ StackReg = "sp" /\ FrameBase = -StackSize
  BY SavedFacts DEF Count, Registers, FrameReg, StackReg, FrameBase
<1>4. SavedAt(1) \in Addresses /\ SavedAt(2) \in Addresses
  BY <1>3, SavedOnStack
<1>5. SavedAt(1) = -StackSize + 0 /\ SavedAt(2) = -StackSize + 8 /\ SavedAt(1) # SavedAt(2)
  BY <1>2 DEF SavedAt
<1> QED BY <1>1, <1>2, <1>3, <1>4, <1>5, PairFits

(* The prologue on AArch64.                                                *)
LEMMA ArmEnters ==
  ASSUME PlanOK, Emitted, ~OnRiscv, ~OnX86, FrameFits, Execute, RegsOK, MemOK,
         NEW k \in 1 .. 4, pc = k, code[k] = Entry[k], EnterState(k)
  PROVE  /\ RegsOK' /\ MemOK' /\ phase' = phase /\ pc' = k + 1
         /\ k < 4 => EnterState(k + 1)'
         /\ k = 4 => InFrame'
<1>1. Same /\ OnX86' = OnX86 /\ StackSize' = StackSize
  BY FrameStays DEF Execute, Same
<1>2. CASE k = 1
  <2>1. code[pc] = <<"addi", "sp", "sp", -StackSize>>
    BY <1>2, EntryFacts, ArmFacts
  <2>2. SetReg("sp", regs["sp"] + (-StackSize)) /\ mem' = mem /\ pc' = pc + 1 /\ phase' = phase
    BY <2>1, StepAddi
  <2>3. Holding({j \in 1 .. 2 : 1 - 1 <= j}) /\ regs["sp"] = 0
    BY <1>2 DEF EnterState
  <2>4. 0 + (-StackSize) = -StackSize
    BY ArmFacts
  <2>5. RegsOK' /\ regs'["sp"] = -StackSize /\ \A x \in Registers : x # "sp" => regs'[x] = regs[x]
    BY <2>2, <2>3, <2>4, ArmFacts, SetRegister
  <2>6. ASSUME NEW j \in 1 .. 2 PROVE regs'[Saved[j]] = Owner(j)
    <3>1. regs[Saved[j]] = Owner(j)
      BY <2>3 DEF Holding
    <3> QED BY <2>5, <3>1, ArmFacts, SavedFacts
  <2>7. Holding({j \in 1 .. 2 : 2 - 1 <= j})'
    BY <1>1, <2>6, OwnerStays DEF Holding, Same
  <2>8. Stacked(2 - 2)'
    BY DEF Stacked
  <2>9. EnterState(2)'
    BY <1>1, <2>5, <2>7, <2>8 DEF EnterState
  <2> QED BY <1>2, <2>2, <2>5, <2>9 DEF MemOK
<1>3. CASE k = 2
  <2>1. code[pc] = <<"store", "sp", 0, "fp">>
    BY <1>3, EntryFacts
  <2>2. Write(regs["sp"] + 0, regs["fp"]) /\ regs' = regs /\ pc' = pc + 1 /\ phase' = phase
    BY <2>1, StepStore
  <2>3. Holding({j \in 1 .. 2 : 2 - 1 <= j}) /\ regs["sp"] = -StackSize
    BY <1>3 DEF EnterState
  <2>4. regs["fp"] = Owner(1)
    BY <2>3, ArmFacts DEF Holding
  <2>5. MemOK' /\ mem'[SavedAt(1)] = Owner(1)
    BY <2>2, <2>3, <2>4, ArmFacts, WriteWord
  <2>6. Stacked(3 - 2)'
    <3>1. \A j \in 1 .. 3 - 2 : j = 1
      OBVIOUS
    <3> QED BY <1>1, <2>5, <3>1, OwnerStays DEF Stacked, Same
  <2>7. Holding({j \in 1 .. 2 : 3 - 1 <= j})
    BY <2>3 DEF Holding
  <2>8. Holding({j \in 1 .. 2 : 3 - 1 <= j})'
    BY <1>1, <2>2, <2>7, HoldingStays
  <2>9. EnterState(3)'
    BY <1>1, <2>2, <2>3, <2>6, <2>8 DEF EnterState
  <2> QED BY <1>3, <2>2, <2>5, <2>9 DEF RegsOK
<1>4. CASE k = 3
  <2>1. code[pc] = <<"store", "sp", 8, "lr">>
    BY <1>4, EntryFacts
  <2>2. Write(regs["sp"] + 8, regs["lr"]) /\ regs' = regs /\ pc' = pc + 1 /\ phase' = phase
    BY <2>1, StepStore
  <2>3. Holding({j \in 1 .. 2 : 3 - 1 <= j}) /\ regs["sp"] = -StackSize /\ Stacked(3 - 2)
    BY <1>4 DEF EnterState
  <2>4. regs["lr"] = Owner(2)
    <3>1. 3 - 1 <= 2
      OBVIOUS
    <3> QED BY <2>3, <3>1, ArmFacts DEF Holding
  <2>5. mem[SavedAt(1)] = Owner(1)
    <3>1. 1 \in 1 .. 3 - 2
      OBVIOUS
    <3> QED BY <2>3, <3>1 DEF Stacked
  <2>6. MemOK' /\ mem'[SavedAt(2)] = Owner(2) /\ mem'[SavedAt(1)] = Owner(1)
    BY <2>2, <2>3, <2>4, <2>5, ArmFacts, WriteWord
  <2>7. Stacked(4 - 2)'
    <3>1. \A j \in 1 .. 4 - 2 : j = 1 \/ j = 2
      OBVIOUS
    <3> QED BY <1>1, <2>6, <3>1, OwnerStays DEF Stacked, Same
  <2>8. Holding({j \in 1 .. 2 : 4 - 1 <= j})'
    <3>1. \A j \in 1 .. 2 : ~(4 - 1 <= j)
      OBVIOUS
    <3> QED BY <3>1 DEF Holding
  <2>9. EnterState(4)'
    BY <1>1, <2>2, <2>3, <2>7, <2>8 DEF EnterState
  <2> QED BY <1>4, <2>2, <2>6, <2>9 DEF RegsOK
<1>5. CASE k = 4
  <2>1. code[pc] = <<"addi", "fp", "sp", 0>>
    BY <1>5, EntryFacts
  <2>2. SetReg("fp", regs["sp"] + 0) /\ mem' = mem /\ pc' = pc + 1 /\ phase' = phase
    BY <2>1, StepAddi
  <2>3. regs["sp"] = -StackSize /\ Stacked(2)
    BY <1>5 DEF EnterState
  <2>4. RegsOK' /\ regs'["sp"] = -StackSize
    BY <2>2, <2>3, ArmFacts, SetRegister
  <2>5. Stacked(2)'
    BY <1>1, <2>2, <2>3, StackedStays
  <2>6. InFrame'
    BY <1>1, <2>4, <2>5, ArmFacts, OwnerStays DEF InFrame, Same
  <2> QED BY <1>5, <2>2, <2>4, <2>6 DEF MemOK
<1> QED BY <1>2, <1>3, <1>4, <1>5

(* The epilogue on AArch64.                                                *)
LEMMA ArmLeaves ==
  ASSUME PlanOK, Emitted, ~OnRiscv, ~OnX86, FrameFits, Execute, RegsOK, MemOK,
         NEW k \in 1 .. 4, code[pc] = Exit[k],
         k = 1 => InFrame, k # 1 => LeaveState(k)
  PROVE  /\ RegsOK' /\ MemOK'
         /\ k < 4 => phase' = phase /\ pc' = pc + 1 /\ LeaveState(k + 1)'
         /\ k = 4 => phase' \in {"returned", "strayed"} /\ Undisturbed'
<1>1. Same /\ OnX86' = OnX86 /\ StackSize' = StackSize
  BY FrameStays DEF Execute, Same
<1>2. CASE k = 1
  <2>1. code[pc] = <<"load", "fp", "sp", 0>>
    BY <1>2, ExitFacts
  <2>2. SetReg("fp", Read(regs["sp"] + 0)) /\ mem' = mem /\ pc' = pc + 1 /\ phase' = phase
    BY <2>1, StepLoad
  <2>3. Stacked(2) /\ regs["sp"] = -StackSize
    BY <1>2, ArmFacts DEF InFrame
  <2>4. Read(regs["sp"] + 0) = Owner(1)
    <3>1. mem[SavedAt(1)] = Owner(1)
      BY <2>3 DEF Stacked
    <3> QED BY <2>3, <3>1, ArmFacts DEF Read
  <2>5. RegsOK' /\ regs'["fp"] = Owner(1) /\ regs'["sp"] = -StackSize
    BY <2>2, <2>3, <2>4, ArmFacts, SetRegister
  <2>6. Stacked(2)'
    BY <1>1, <2>2, <2>3, StackedStays
  <2>7. Holding({j \in 1 .. 2 : j <= 2 - 1})'
    <3>1. \A j \in 1 .. 2 : j <= 2 - 1 => j = 1
      OBVIOUS
    <3> QED BY <1>1, <2>5, <3>1, ArmFacts, OwnerStays DEF Holding, Same
  <2>8. LeaveState(2)'
    BY <1>1, <2>5, <2>6, <2>7 DEF LeaveState
  <2> QED BY <1>2, <2>2, <2>5, <2>8 DEF MemOK
<1>3. CASE k = 2
  <2>1. code[pc] = <<"load", "lr", "sp", 8>>
    BY <1>3, ExitFacts
  <2>2. SetReg("lr", Read(regs["sp"] + 8)) /\ mem' = mem /\ pc' = pc + 1 /\ phase' = phase
    BY <2>1, StepLoad
  <2>3. Stacked(2) /\ regs["sp"] = -StackSize /\ Holding({j \in 1 .. 2 : j <= 2 - 1})
    BY <1>3 DEF LeaveState
  <2>4. Read(regs["sp"] + 8) = Owner(2) /\ regs["fp"] = Owner(1)
    <3>1. mem[SavedAt(2)] = Owner(2)
      BY <2>3 DEF Stacked
    <3>2. regs[Saved[1]] = Owner(1)
      BY <2>3 DEF Holding
    <3> QED BY <2>3, <3>1, <3>2, ArmFacts DEF Read
  <2>5. RegsOK' /\ regs'["lr"] = Owner(2) /\ regs'["fp"] = Owner(1) /\ regs'["sp"] = -StackSize
    BY <2>2, <2>3, <2>4, ArmFacts, SetRegister
  <2>6. Stacked(2)'
    BY <1>1, <2>2, <2>3, StackedStays
  <2>7. Holding({j \in 1 .. 2 : j <= 3 - 1})'
    <3>1. \A j \in 1 .. 2 : j = 1 \/ j = 2
      OBVIOUS
    <3> QED BY <1>1, <2>5, <3>1, ArmFacts, OwnerStays DEF Holding, Same
  <2>8. LeaveState(3)'
    BY <1>1, <2>5, <2>6, <2>7 DEF LeaveState
  <2> QED BY <1>3, <2>2, <2>5, <2>8 DEF MemOK
<1>4. CASE k = 3
  <2>1. code[pc] = <<"addi", "sp", "sp", StackSize>>
    BY <1>4, ExitFacts, ArmFacts
  <2>2. SetReg("sp", regs["sp"] + StackSize) /\ mem' = mem /\ pc' = pc + 1 /\ phase' = phase
    BY <2>1, StepAddi
  <2>3. Stacked(2) /\ regs["sp"] = -StackSize /\ Holding({j \in 1 .. 2 : j <= 3 - 1})
    BY <1>4 DEF LeaveState
  <2>4. -StackSize + StackSize = 0
    BY ArmFacts
  <2>5. RegsOK' /\ regs'["sp"] = 0 /\ \A x \in Registers : x # "sp" => regs'[x] = regs[x]
    BY <2>2, <2>3, <2>4, ArmFacts, SetRegister
  <2>6. Stacked(2)'
    BY <1>1, <2>2, <2>3, StackedStays
  <2>7. ASSUME NEW j \in 1 .. 2 PROVE regs'[Saved[j]] = Owner(j)
    <3>1. regs[Saved[j]] = Owner(j)
      BY <2>3 DEF Holding
    <3> QED BY <2>5, <3>1, ArmFacts, SavedFacts
  <2>8. Holding({j \in 1 .. 2 : j <= 4 - 1})'
    BY <1>1, <2>7, OwnerStays DEF Holding, Same
  <2>9. LeaveState(4)'
    BY <1>1, <2>5, <2>6, <2>8 DEF LeaveState
  <2> QED BY <1>4, <2>2, <2>5, <2>9 DEF MemOK
<1>5. CASE k = 4
  <2>1. code[pc] = <<"ret">>
    BY <1>5, ExitFacts
  <2>2. regs' = regs /\ mem' = mem /\ phase' \in {"returned", "strayed"}
    BY <2>1, StepRet
  <2>3. regs["sp"] = 0 /\ Holding({j \in 1 .. 2 : j <= 4 - 1})
    BY <1>5 DEF LeaveState
  <2>4. ASSUME NEW j \in 1 .. 2 PROVE regs'[Saved[j]] = Owner(j)
    BY <2>2, <2>3 DEF Holding
  <2>5. AtCall(StackReg, inputs)' = 0
    BY <1>1, StackAtCall, OwnerStays DEF Same
  <2>6. \A j \in DOMAIN Saved' : regs'[Saved'[j]] = AtCall(Saved[j], inputs)'
    BY <1>1, <2>4, ArmFacts, OwnerStays DEF Owner, Same
  <2>7. regs'[StackReg'] = 0
    BY <1>1, <2>2, <2>3, ArmFacts, OwnerStays DEF Same
  <2>8. Undisturbed'
    BY <1>1, <2>5, <2>6, <2>7 DEF Undisturbed
  <2> QED BY <1>5, <2>2, <2>8 DEF RegsOK, MemOK
<1> QED BY <1>2, <1>3, <1>4, <1>5

(* What the saved registers' places and the frame register are.            *)
LEMMA FrameFacts ==
  ASSUME PlanOK, Emitted, ~OnRiscv
  PROVE  /\ Scratches \subseteq Registers \ {FrameReg}
         /\ Count \in {2, 4}
         /\ \A j \in 1 .. Count : SavedAt(j) \in Addresses
         /\ OnX86 => /\ FrameBase = -32
                     /\ \A j \in 1 .. Count :
                          /\ SavedAt(j) >= -32
                          /\ SavedAt(j) \in {WordSize * k : k \in -StackWords .. -1}
         /\ ~OnX86 => /\ FrameBase \in Int
                      /\ \A j \in 1 .. Count : SavedAt(j) \in Int /\ SavedAt(j) <= FrameBase + 8
<1>1. PICK q \in Nat : StackSize = 16 * q /\ 8 <= StackWords
  BY FrameRoom
<1>2. StackWords \in Nat
  BY FunctionFacts DEF PlanOK
<1>3. Scratches \subseteq Registers \ {FrameReg} /\ Count \in {2, 4}
  BY DEF Scratches, Registers, FrameReg, Count
<1>4. \A j \in 1 .. Count : SavedAt(j) \in Addresses
  BY SavedOnStack
<1>5. ASSUME OnX86, NEW j \in 1 .. Count
      PROVE  SavedAt(j) >= -32 /\ SavedAt(j) \in {WordSize * k : k \in -StackWords .. -1}
  <2>1. j \in 1 .. 4 /\ SavedAt(j) = -8 * j
    BY <1>5 DEF Count, SavedAt
  <2>2. -j \in -StackWords .. -1 /\ SavedAt(j) = 8 * (-j)
    BY <1>1, <1>2, <2>1
  <2> QED BY <2>1, <2>2 DEF WordSize
<1>6. ASSUME ~OnX86, NEW j \in 1 .. Count
      PROVE  SavedAt(j) \in Int /\ SavedAt(j) <= FrameBase + 8
  BY <1>1, <1>6 DEF Count, SavedAt, FrameBase
<1>7. (OnX86 => FrameBase = -32) /\ (~OnX86 => FrameBase \in Int)
  BY <1>1 DEF FrameBase
<1> QED BY <1>3, <1>4, <1>5, <1>6, <1>7

(* Once the code is linked, every place that can be reached lies in the    *)
(* frame, and so does where a jump goes and what follows another           *)
(* instruction.                                                            *)
LEMMA PlacesFollow ==
  ASSUME FlowOK, PatchesOK, phase \in {"compiled", "interpreting", "running"}
  PROVE  /\ FramePlace(Steps + 1)
         /\ \A p \in Steps + 1 .. Len(code) :
              /\ Harmless(code[p]) \/ (IsJump(code[p]) /\ code[p][1] = "jcc") => FramePlace(p + 1)
              /\ IsJump(code[p]) => FramePlace(Target(p))
<1>1. patches = <<>> /\ ~Open
  BY DEF PatchesOK, Open
<1>2. \A p : ~Pending(p)
  BY <1>1 DEF Pending
<1>3. \A p : Reach(p) => FramePlace(p)
  BY <1>1 DEF Reach
<1>4. Reach(Steps + 1)
  BY DEF FlowOK
<1>5. FramePlace(Steps + 1)
  BY <1>3, <1>4
<1>6. ASSUME NEW p \in Steps + 1 .. Len(code)
      PROVE  /\ Harmless(code[p]) \/ (IsJump(code[p]) /\ code[p][1] = "jcc") => FramePlace(p + 1)
             /\ IsJump(code[p]) => FramePlace(Target(p))
  <2>1. /\ Harmless(code[p]) \/ (IsJump(code[p]) /\ code[p][1] = "jcc") => Reach(p + 1)
        /\ IsJump(code[p]) => Pending(p) \/ Reach(Target(p))
    BY DEF FlowOK
  <2>2. Reach(p + 1) => FramePlace(p + 1)
    BY <1>3
  <2>3. Pending(p) \/ Reach(Target(p)) => FramePlace(Target(p))
    BY <1>2, <1>3
  <2> QED BY <2>1, <2>2, <2>3
<1> QED BY <1>5, <1>6

(* Nothing the body of the function does takes the machine out of its      *)
(* frame or over the words saved in it.                                    *)
LEMMA FrameStep ==
  ASSUME PlanOK, Emitted, ~OnRiscv, FlowOK, PatchesOK, phase = "running", Execute,
         RegsOK, MemOK, StoresInArrays, InFrame,
         NEW p, pc = p, p \in Steps + 1 .. Len(code), Harmless(code[p]) \/ IsJump(code[p])
  PROVE  /\ RegsOK' /\ MemOK' /\ phase' = phase /\ InFrame'
         /\ \E q : pc' = q /\ FramePlace(q)
<1>1. Same
  BY DEF Execute, Same
<1>2. /\ Stacked(Count) /\ regs[FrameReg] = FrameBase
      /\ FrameReg' = FrameReg /\ FrameBase' = FrameBase /\ Count' = Count
  BY <1>1, OwnerStays DEF InFrame, Same
<1>3. ASSUME regs'[FrameReg] = regs[FrameReg],
             \A j \in 1 .. Count : mem'[SavedAt(j)] = mem[SavedAt(j)]
      PROVE  InFrame'
  <2>1. Stacked(Count)'
    <3>1. PICK n : n = Count
      OBVIOUS
    <3>2. Stacked(n)'
      BY <1>1, <1>2, <1>3, <3>1, StackedStays
    <3> QED BY <1>2, <3>1, <3>2
  <2> QED BY <1>2, <1>3, <2>1 DEF InFrame
<1>4. CASE Harmless(code[p])
  <2>1. FramePlace(p + 1)
    BY <1>4, PlacesFollow
  <2>2. /\ pc' = p + 1 /\ phase' = phase
        /\ \/ /\ code[p][1] # "store" /\ mem' = mem
              /\ regs' = regs \/ \E r \in Scratches : \E v : SetReg(r, v)
           \/ /\ code[p][1] = "store" /\ regs' = regs
              /\ \E v : Write(regs[code[p][2]] + code[p][3], v)
    BY <1>4, StepHarmless
  <2>3. CASE regs' = regs /\ mem' = mem
    BY <1>3, <2>1, <2>2, <2>3 DEF RegsOK, MemOK
  <2>4. CASE mem' = mem /\ \E r \in Scratches : \E v : SetReg(r, v)
    <3>0. PICK r \in Scratches : \E v : SetReg(r, v)
      BY <2>4
    <3>1. PICK v : SetReg(r, v)
      BY <3>0
    <3>2. r \in Registers /\ r # FrameReg /\ FrameReg \in Registers
      BY FrameFacts DEF FrameReg, Registers
    <3>3. RegsOK' /\ regs'[FrameReg] = regs[FrameReg]
      BY <3>1, <3>2, SetRegister
    <3> QED BY <1>3, <2>1, <2>2, <2>4, <3>3 DEF MemOK
  <2>5. CASE code[p][1] = "store" /\ regs' = regs /\ \E v : Write(regs[code[p][2]] + code[p][3], v)
    <3>1. PICK v : Write(regs[code[p][2]] + code[p][3], v)
      BY <2>5
    <3>2. PICK a : a = regs[code[p][2]] + code[p][3]
      OBVIOUS
    <3>3. MemOK' /\ \A x \in Addresses : x # a => mem'[x] = mem[x]
      BY <3>1, <3>2, WriteWord
    <3>4. ASSUME NEW j \in 1 .. Count PROVE SavedAt(j) # a
      <4>1. CASE code[p][2] = FrameReg /\ code[p][3] \in Int
                 /\ IF OnX86 THEN code[p][3] <= -8 ELSE 16 <= code[p][3]
        <5>1. PICK c \in Int : c = code[p][3]
          BY <4>1
        <5>2. a = FrameBase + c /\ (IF OnX86 THEN c <= -8 ELSE 16 <= c)
          BY <1>2, <3>2, <4>1, <5>1
        <5>3. CASE OnX86
          <6>1. SavedAt(j) >= -32 /\ FrameBase = -32 /\ c <= -8
            BY <5>2, <5>3, FrameFacts
          <6> QED BY <5>2, <6>1
        <5>4. CASE ~OnX86
          <6>1. SavedAt(j) \in Int /\ SavedAt(j) <= FrameBase + 8 /\ FrameBase \in Int /\ 16 <= c
            BY <5>2, <5>4, FrameFacts
          <6> QED BY <5>2, <6>1
        <5> QED BY <5>3, <5>4
      <4>2. CASE code[p][2] = "r10" /\ OnX86
        <5>1. p \in DOMAIN code
          <6>1. PICK L \in Nat : L = Len(code) /\ Steps \in Nat
            BY DEF FlowOK, IsList, Steps
          <6>2. p \in 1 .. L
            BY <6>1
          <6> QED BY <6>1, <6>2 DEF FlowOK, IsList
        <5>2. a \notin {WordSize * k : k \in -StackWords .. -1}
          BY <2>5, <3>2, <4>2, <5>1 DEF StoresInArrays, Op
        <5> QED BY <4>2, <5>2, FrameFacts
      <4> QED BY <1>4, <2>5, <4>1, <4>2 DEF Harmless
    <3>5. \A j \in 1 .. Count : mem'[SavedAt(j)] = mem[SavedAt(j)]
      BY <3>3, <3>4, FrameFacts
    <3> QED BY <1>3, <2>1, <2>2, <2>5, <3>3, <3>5 DEF RegsOK
  <2> QED BY <2>2, <2>3, <2>4, <2>5
<1>5. CASE IsJump(code[p])
  <2>1. UNCHANGED <<regs, mem, phase>>
    BY <1>5, StepJump
  <2>2. pc' = Target(p) \/ (code[p][1] = "jcc" /\ pc' = p + 1)
    BY <1>5, StepJump
  <2>3. \E q : pc' = q /\ FramePlace(q)
    BY <1>5, <2>2, PlacesFollow
  <2> QED BY <1>3, <2>1, <2>3 DEF RegsOK, MemOK
<1> QED BY <1>4, <1>5

(* A call starts with the caller's registers and an empty stack.           *)
LEMMA CallBegins ==
  ASSUME PlanOK, PlanOK', Emitted, ~OnRiscv, Call
  PROVE  MachineOK'
<1>1. UNCHANGED <<func, target, planVars>> /\ phase' = "interpreting" /\ pc' = 1
  BY DEF Call
<1>2. /\ regs' = [r \in Registers |-> AtCall(r, inputs')]
      /\ \E cells : mem' = [a \in Addresses |->
            IF a \div WordSize \in DOMAIN cells THEN cells[a \div WordSize] ELSE Junk]
  BY DEF Call
<1>3. RegsOK' /\ MemOK'
  BY <1>2 DEF RegsOK, MemOK
<1>4. OnX86' = OnX86 /\ OnRiscv' = OnRiscv /\ Steps' = Steps /\ StackSize' = StackSize
  BY <1>1, FrameStays DEF Steps
<1>5. Saved' = Saved /\ StackReg' = StackReg
  BY <1>4 DEF Saved, StackReg
<1>6. \A r : Kept(r)' = Kept(r)
  BY <1>5 DEF Kept
<1>7. \A r : AtCall(r, inputs)' = AtCall(r, inputs')
  BY <1>1, <1>6 DEF AtCall
<1>8. \A j : Owner(j)' = AtCall(Saved[j], inputs')
  BY <1>5, <1>7 DEF Owner
<1>9. \A j \in DOMAIN Saved : regs'[Saved[j]] = AtCall(Saved[j], inputs')
  BY <1>2, SavedFacts
<1>10. \A S : S \subseteq DOMAIN Saved => Holding(S)'
  BY <1>5, <1>8, <1>9 DEF Holding
<1>11. regs'[StackReg] = 0
  <2>1. StackReg \in Registers
    BY DEF StackReg, Registers
  <2>2. PICK g : g = inputs'
    OBVIOUS
  <2>3. AtCall(StackReg, g) = 0
    BY StackAtCall
  <2> QED BY <1>2, <2>1, <2>2, <2>3
<1>12. EnterState(1)'
  <2>1. Stacked(0)'
    BY DEF Stacked
  <2>2. CASE OnX86
    <3>1. Holding(1 .. 4)'
      BY <1>10, <2>2, SavedFacts
    <3>2. regs'["rsp"] = 0
      BY <1>11, <2>2 DEF StackReg
    <3> QED BY <1>4, <2>1, <2>2, <3>1, <3>2 DEF EnterState
  <2>3. CASE ~OnX86
    <3>1. Holding({j \in 1 .. 2 : 1 - 1 <= j})'
      <4>1. {j \in 1 .. 2 : 1 - 1 <= j} \subseteq DOMAIN Saved
        BY <2>3, SavedFacts
      <4> QED BY <1>10, <4>1
    <3>2. regs'["sp"] = 0
      BY <1>11, <2>3 DEF StackReg
    <3> QED BY <1>4, <2>1, <2>3, <3>1, <3>2 DEF EnterState
  <2> QED BY <2>2, <2>3
<1>13. 1 \in 1 .. Steps'
  BY DEF Steps
<1>14. \E k \in 1 .. Steps' : pc' = k /\ EnterState(k)'
  BY <1>1, <1>12, <1>13
<1> QED BY <1>1, <1>3, <1>14 DEF MachineOK, RegsOK, MemOK

(* Places stay what they are while the code runs.                          *)
LEMMA PlacesStay ==
  ASSUME UNCHANGED <<func, target, planVars>>, code' = code
  PROVE  /\ \A s : ExitAt(s)' <=> ExitAt(s)
         /\ \A p : FramePlace(p)' <=> FramePlace(p)
<1>1. \A s : ExitAt(s)' <=> ExitAt(s)
  BY FrameStays DEF ExitAt
<1>2. \A p : FramePlace(p)' <=> FramePlace(p)
  BY <1>1, FrameStays DEF FramePlace
<1> QED BY <1>1, <1>2

(* The machine waits at its call, or is where it was.                      *)
LEMMA MachineStays ==
  ASSUME MachineOK, Same, code' = code, UNCHANGED machineVars,
         phase = "interpreting" \/ phase' = phase
  PROVE  MachineOK'
<1>1. /\ OnX86' = OnX86 /\ StackSize' = StackSize /\ Steps' = Steps
      /\ UNCHANGED <<func, target, planVars>>
      /\ UNCHANGED <<regs, mem, pc>>
  BY FrameStays DEF Same, machineVars
<1>2. (\A n : Stacked(n)' = Stacked(n)) /\ (\A S : Holding(S)' = Holding(S))
  BY <1>1, OwnerStays DEF Stacked, Holding, Same
<1>3. (\A k : EnterState(k)' = EnterState(k)) /\ (\A k : LeaveState(k)' = LeaveState(k))
  BY <1>1, <1>2 DEF EnterState, LeaveState
<1>4. InFrame' = InFrame
  <2>1. PICK n : n = Count
    OBVIOUS
  <2>2. Stacked(n)' = Stacked(n) /\ Count' = Count /\ FrameReg' = FrameReg /\ FrameBase' = FrameBase
    BY <1>2, OwnerStays DEF Same
  <2> QED BY <1>1, <2>1, <2>2 DEF InFrame
<1>5. FramePlace(pc)' <=> FramePlace(pc)
  <2>1. PICK p : p = pc
    OBVIOUS
  <2> QED BY <1>1, <2>1, PlacesStay
<1>6. \A s : ExitAt(s)' <=> ExitAt(s)
  BY <1>1, PlacesStay
<1>7. CASE phase = "interpreting"
  <2>1. RegsOK /\ MemOK /\ pc = 1
    BY <1>7 DEF MachineOK, RegsOK, MemOK
  <2>2. RegsOK' /\ MemOK' /\ pc' = 1
    BY <1>1, <2>1 DEF RegsOK, MemOK
  <2>3. \E k \in 1 .. Steps' : pc' = k /\ EnterState(k)'
    BY <1>1, <1>3, <1>7 DEF MachineOK
  <2> QED BY <2>2, <2>3 DEF MachineOK, RegsOK, MemOK
<1>8. CASE phase' = phase /\ phase = "running"
  <2>1. RegsOK' /\ MemOK'
    BY <1>1, <1>8 DEF MachineOK, RegsOK, MemOK
  <2>2. \/ \E k \in 1 .. Steps' : pc' = k /\ EnterState(k)'
        \/ phase' = "running" /\ FramePlace(pc)' /\ InFrame'
        \/ \E s \in Steps' + 1 .. Len(code'), k \in 2 .. Steps' :
            phase' = "running" /\ ExitAt(s)' /\ pc' = s + k - 1 /\ LeaveState(k)'
    BY <1>1, <1>3, <1>4, <1>5, <1>6, <1>8 DEF MachineOK
  <2> QED BY <1>8, <2>1, <2>2 DEF MachineOK, RegsOK, MemOK
<1>9. CASE phase' = phase /\ phase \notin {"interpreting", "running"}
  BY <1>9 DEF MachineOK
<1> QED BY <1>7, <1>8, <1>9

(* The prologue leads into the frame.                                      *)
LEMMA Entering ==
  ASSUME PlanOK, Emitted, ~OnRiscv, FrameFits, FlowOK, PatchesOK, phase = "running",
         RegsOK, MemOK, Execute, NEW k \in 1 .. Steps, pc = k, EnterState(k)
  PROVE  MachineOK' /\ phase' = "running"
<1>1. /\ UNCHANGED <<func, target, planVars>> /\ code' = code
      /\ Steps' = Steps
  BY FrameStays DEF Execute, emitVars, Steps
<1>2. code[k] = Entry[k]
  BY DEF FlowOK
<1>3. Steps \in {4, 6} /\ (OnX86 => Steps = 6) /\ (~OnX86 => Steps = 4)
  BY DEF Steps
<1>4. /\ RegsOK' /\ MemOK' /\ phase' = phase /\ pc' = k + 1
      /\ k < Steps => EnterState(k + 1)'
      /\ k = Steps => InFrame'
  <2>1. CASE OnX86
    <3>1. k \in 1 .. 6
      BY <1>3, <2>1
    <3> QED BY <1>2, <1>3, <2>1, <3>1, X86Enters
  <2>2. CASE ~OnX86
    <3>1. k \in 1 .. 4
      BY <1>3, <2>2
    <3> QED BY <1>2, <1>3, <2>2, <3>1, ArmEnters
  <2> QED BY <2>1, <2>2
<1>5. CASE k < Steps
  <2>1. PICK j \in 1 .. Steps : j = k + 1
    <3>1. k + 1 \in 1 .. Steps
      BY <1>3, <1>5
    <3> QED BY <3>1
  <2>2. EnterState(j)' /\ pc' = j
    BY <1>4, <1>5, <2>1
  <2>3. \E i \in 1 .. Steps' : pc' = i /\ EnterState(i)'
    BY <1>1, <2>1, <2>2
  <2> QED BY <1>4, <2>3 DEF MachineOK, RegsOK, MemOK
<1>6. CASE k = Steps
  <2>1. PICK q : q = pc'
    OBVIOUS
  <2>2. FramePlace(q)
    BY <1>4, <1>6, <2>1, PlacesFollow
  <2>3. FramePlace(pc)'
    BY <1>1, <2>1, <2>2, PlacesStay
  <2> QED BY <1>4, <1>6, <2>3 DEF MachineOK, RegsOK, MemOK
<1> QED BY <1>3, <1>4, <1>5, <1>6

(* The epilogue leads to the caller.                                       *)
LEMMA Leaving ==
  ASSUME PlanOK, Emitted, ~OnRiscv, FrameFits, FlowOK, phase = "running",
         RegsOK, MemOK, Execute,
         NEW s \in Steps + 1 .. Len(code), NEW k \in 1 .. Steps,
         ExitAt(s), pc = s + k - 1, k = 1 => InFrame, k # 1 => LeaveState(k)
  PROVE  MachineOK' /\ (Gone' => Undisturbed')
<1>1. /\ UNCHANGED <<func, target, planVars>> /\ code' = code
      /\ Steps' = Steps
  BY FrameStays DEF Execute, emitVars, Steps
<1>2. code[pc] = Exit[k]
  BY DEF ExitAt
<1>3. Steps \in {4, 6} /\ (OnX86 => Steps = 6) /\ (~OnX86 => Steps = 4)
  BY DEF Steps
<1>4. /\ RegsOK' /\ MemOK'
      /\ k < Steps => phase' = phase /\ pc' = pc + 1 /\ LeaveState(k + 1)'
      /\ k = Steps => phase' \in {"returned", "strayed"} /\ Undisturbed'
  <2>1. CASE OnX86
    <3>1. k \in 1 .. 6
      BY <1>3, <2>1
    <3> QED BY <1>2, <1>3, <2>1, <3>1, X86Leaves
  <2>2. CASE ~OnX86
    <3>1. k \in 1 .. 4
      BY <1>3, <2>2
    <3> QED BY <1>2, <1>3, <2>2, <3>1, ArmLeaves
  <2> QED BY <2>1, <2>2
<1>5. CASE k < Steps
  <2>1. PICK j \in 2 .. Steps : j = k + 1
    <3>1. k + 1 \in 2 .. Steps
      BY <1>3, <1>5
    <3> QED BY <3>1
  <2>2. s \in Nat
    <3>1. PICK L \in Nat : L = Len(code)
      BY DEF FlowOK, IsList
    <3> QED BY <1>3, <3>1
  <2>3. LeaveState(j)' /\ pc' = s + j - 1
    BY <1>3, <1>4, <1>5, <2>1, <2>2
  <2>4. ExitAt(s)'
    BY <1>1, PlacesStay
  <2>5. \E x \in Steps' + 1 .. Len(code'), i \in 2 .. Steps' :
          phase' = "running" /\ ExitAt(x)' /\ pc' = x + i - 1 /\ LeaveState(i)'
    BY <1>1, <1>4, <1>5, <2>1, <2>3, <2>4
  <2> QED BY <1>4, <1>5, <2>5 DEF MachineOK, RegsOK, MemOK, Gone
<1>6. CASE k = Steps
  BY <1>4, <1>6 DEF MachineOK
<1> QED BY <1>3, <1>5, <1>6

(* A step of the machine.                                                  *)
LEMMA ExecuteKeepsFrame ==
  ASSUME PlanOK, Emitted, ~OnRiscv, FrameFits, FlowOK, PatchesOK, MachineOK, StoresInArrays,
         Execute
  PROVE  MachineOK' /\ (Gone' => Undisturbed')
<1>1. phase = "running"
  BY DEF Execute
<1>2. RegsOK /\ MemOK
  BY <1>1 DEF MachineOK, RegsOK, MemOK
<1>3. ASSUME NEW k \in 1 .. Steps, pc = k, EnterState(k)
      PROVE  MachineOK' /\ (Gone' => Undisturbed')
  BY <1>1, <1>2, <1>3, Entering DEF Gone
<1>4. ASSUME FramePlace(pc), InFrame
      PROVE  MachineOK' /\ (Gone' => Undisturbed')
  <2>1. PICK p : p = pc
    OBVIOUS
  <2>2. p \in Steps + 1 .. Len(code)
    BY <1>4, <2>1 DEF FramePlace
  <2>3. CASE Harmless(code[p]) \/ IsJump(code[p])
    <3>1. RegsOK' /\ MemOK' /\ phase' = phase /\ InFrame' /\ \E q : pc' = q /\ FramePlace(q)
      BY <1>1, <1>2, <1>4, <2>1, <2>2, <2>3, FrameStep
    <3>2. PICK q : pc' = q /\ FramePlace(q)
      BY <3>1
    <3>3. FramePlace(q)'
      BY <3>2, PlacesStay DEF Execute, emitVars
    <3>4. FramePlace(pc)'
      BY <3>2, <3>3
    <3> QED BY <1>1, <3>1, <3>4 DEF MachineOK, RegsOK, MemOK, Gone
  <2>4. CASE ExitAt(p)
    <3>1. p = p + 1 - 1 /\ 1 \in 1 .. Steps
      <4>1. PICK L \in Nat : L = Len(code)
        BY DEF FlowOK, IsList
      <4> QED BY <2>2, <4>1 DEF Steps
    <3> QED BY <1>1, <1>2, <1>4, <2>1, <2>2, <2>4, <3>1, Leaving
  <2> QED BY <1>4, <2>1, <2>3, <2>4 DEF FramePlace
<1>5. ASSUME NEW s \in Steps + 1 .. Len(code), NEW k \in 2 .. Steps,
             ExitAt(s), pc = s + k - 1, LeaveState(k)
      PROVE  MachineOK' /\ (Gone' => Undisturbed')
  <2>1. k \in 1 .. Steps /\ k # 1
    BY DEF Steps
  <2> QED BY <1>1, <1>2, <1>5, <2>1, Leaving
<1> QED BY <1>1, <1>3, <1>4, <1>5 DEF MachineOK

(* The laying out of the frame, the emission and the linking.              *)
LEMMA CompileKeepsFrame ==
  ASSUME FrameInvariant, PlanOK',
         PlanArgument \/ PlanInstruction \/ BeginEmission \/ Emit \/ EndEmission \/ Patch
  PROVE  FrameInvariant'
<1>1. PlanOK /\ (~Emitted => labels = <<>> /\ patches = <<>>)
  BY DEF FrameInvariant
<1>2. ASSUME ~OnRiscv, Emitted PROVE FlowOK /\ LabelsOK /\ PatchesOK
  BY <1>2 DEF FrameInvariant
<1>3. UNCHANGED <<func, target>>
  BY DEF PlanArgument, PlanInstruction, BeginEmission, Emit, EndEmission, Patch
<1>4. OnRiscv' = OnRiscv
  BY <1>3 DEF OnRiscv
<1>5. phase' \in {"arguments", "instructions", "emitting", "linking", "compiled"}
  BY DEF PlanArgument, PlanInstruction, BeginEmission, Emit, EndEmission, Patch
<1>6. CASE PlanArgument \/ PlanInstruction
  <2>1. ~Emitted /\ ~Emitted' /\ UNCHANGED emitVars
    BY <1>6 DEF PlanArgument, PlanInstruction, Emitted
  <2> QED BY <1>1, <2>1 DEF FrameInvariant, emitVars
<1>7. ASSUME Emitted', ~OnRiscv => FlowOK' /\ LabelsOK' /\ PatchesOK' PROVE FrameInvariant'
  <2>1. MachineOK' /\ ~Gone'
    BY <1>5 DEF MachineOK, Gone
  <2> QED BY <1>4, <1>7, <2>1 DEF FrameInvariant
<1>8. CASE BeginEmission
  <2>1. ~Emitted /\ Emitted'
    BY <1>8 DEF BeginEmission, Emitted
  <2> QED BY <1>1, <1>7, <1>8, <2>1, BeginFlow
<1>9. CASE Emit
  <2>1. Emitted /\ Emitted'
    BY <1>9 DEF Emit, Emitted
  <2> QED BY <1>1, <1>2, <1>7, <1>9, <2>1, EmitKeepsFlow
<1>10. CASE EndEmission
  <2>1. /\ Emitted /\ Emitted' /\ ~Open /\ phase = "emitting" /\ phase' = "linking" /\ idx' = 1
        /\ UNCHANGED <<func, target, planVars, emitVars>>
    BY <1>10 DEF EndEmission, Emitted, Open
  <2>2. ASSUME ~OnRiscv PROVE FlowOK' /\ LabelsOK' /\ PatchesOK'
    <3>1. \A k \in DOMAIN patches : 1 <= k
      BY <1>2, <2>1, <2>2 DEF PatchesOK, IsList
    <3> QED BY <1>1, <1>2, <2>1, <2>2, <3>1, FlowUnchanged
  <2> QED BY <1>7, <2>1, <2>2
<1>11. CASE Patch
  <2>1. Emitted /\ Emitted'
    BY <1>11 DEF Patch, Emitted
  <2> QED BY <1>1, <1>2, <1>7, <1>11, <2>1, PatchKeepsFlow
<1> QED BY <1>6, <1>8, <1>9, <1>10, <1>11

(* The call and what happens in it.                                        *)
LEMMA CallKeepsFrame ==
  ASSUME FrameInvariant, PlanOK', StoresInArrays, Call \/ Interpret \/ Execute
  PROVE  FrameInvariant'
<1>1. /\ UNCHANGED <<func, target, planVars, emitVars>> /\ Emitted /\ Emitted'
      /\ phase \in {"compiled", "interpreting", "running"}
      /\ phase' \in {"interpreting", "running", "abandoned", "returned", "strayed"}
  BY DEF Call, Interpret, Execute, Move, Compute, Return, Emitted
<1>2. PlanOK /\ OnRiscv' = OnRiscv /\ (FrameFits <=> FrameFits') /\ code' = code
  BY <1>1, FrameStays DEF FrameInvariant, emitVars
<1>3. ASSUME ~OnRiscv PROVE FlowOK /\ LabelsOK /\ PatchesOK /\ (FrameFits => MachineOK)
  BY <1>1, <1>3 DEF FrameInvariant
<1>4. ASSUME ~OnRiscv PROVE FlowOK' /\ LabelsOK' /\ PatchesOK'
  <2>1. patches = <<>> /\ ~Open
    BY <1>1, <1>3, <1>4 DEF PatchesOK, Open
  <2>2. DOMAIN patches = {}
    BY <2>1
  <2> QED BY <1>1, <1>2, <1>3, <1>4, <2>1, <2>2, FlowUnchanged
<1>5. ASSUME ~OnRiscv, FrameFits PROVE MachineOK' /\ (Gone' => Undisturbed')
  <2>1. CASE Call
    <3>1. ~Gone'
      BY <2>1 DEF Call, Gone
    <3> QED BY <1>1, <1>2, <1>5, <2>1, <3>1, CallBegins
  <2>2. CASE Interpret
    <3>1. phase = "interpreting" /\ Same /\ UNCHANGED machineVars /\ ~Gone'
      BY <2>2 DEF Interpret, Same, Gone
    <3> QED BY <1>2, <1>3, <1>5, <3>1, MachineStays
  <2>3. CASE Execute
    BY <1>1, <1>2, <1>3, <1>5, <2>3, ExecuteKeepsFrame
  <2> QED BY <2>1, <2>2, <2>3
<1> QED BY <1>1, <1>2, <1>4, <1>5 DEF FrameInvariant

(* Where nothing happens, nothing is lost.                                 *)
LEMMA StutterKeepsFrame ==
  ASSUME FrameInvariant, PlanOK', UNCHANGED nativeVars
  PROVE  FrameInvariant'
<1>1. /\ UNCHANGED <<func, target, planVars, emitVars, machineVars, inputs>>
      /\ phase' = phase /\ idx' = idx /\ Same
  BY DEF nativeVars, Same
<1>2. /\ PlanOK /\ OnRiscv' = OnRiscv /\ OnX86' = OnX86 /\ (FrameFits <=> FrameFits')
      /\ (Emitted' <=> Emitted)
      /\ (Gone' <=> Gone) /\ UNCHANGED <<labels, patches, code, regs>>
  BY <1>1, FrameStays DEF FrameInvariant, emitVars, machineVars, Emitted, Gone
<1>3. ASSUME ~OnRiscv, Emitted PROVE FlowOK' /\ LabelsOK' /\ PatchesOK'
  <2>1. FlowOK /\ LabelsOK /\ PatchesOK
    BY <1>3 DEF FrameInvariant
  <2> QED BY <1>1, <1>2, <2>1, FlowUnchanged
<1>4. ASSUME ~OnRiscv, Emitted, FrameFits PROVE MachineOK'
  <2>1. MachineOK
    BY <1>4 DEF FrameInvariant
  <2> QED BY <1>1, <1>2, <2>1, MachineStays
<1>5. ASSUME ~OnRiscv, Emitted, FrameFits, Gone PROVE Undisturbed'
  <2>1. Undisturbed
    BY <1>5 DEF FrameInvariant
  <2>2. /\ Saved' = Saved /\ StackReg' = StackReg /\ \A j : Owner(j)' = Owner(j)
        /\ AtCall(StackReg, inputs)' = AtCall(StackReg, inputs)
    BY <1>1, OwnerStays
  <2>3. \A j : AtCall(Saved[j], inputs)' = AtCall(Saved[j], inputs)
    BY <2>2 DEF Owner
  <2> QED BY <1>2, <2>1, <2>2, <2>3 DEF Undisturbed
<1> QED BY <1>2, <1>3, <1>4, <1>5 DEF FrameInvariant

(* Every step keeps the invariant.                                         *)
LEMMA StepKeepsFrame ==
  ASSUME FrameInvariant, StoresInArrays, [NativeNext]_nativeVars
  PROVE  FrameInvariant'
<1>1. PlanOK'
  BY PlanStep DEF FrameInvariant
<1>2. CASE UNCHANGED nativeVars
  BY <1>1, <1>2, StutterKeepsFrame
<1>3. CASE NativeNext
  BY <1>1, <1>2, <1>3, CompileKeepsFrame, CallKeepsFrame DEF NativeNext, Over
<1> QED BY <1>2, <1>3

(* Whatever path it takes, a call on x86-64, and one on AArch64 whose frame *)
(* ldp can address, gives the registers it saved and the stack back, if the *)
(* program's own stores never reach below its arrays.                      *)
THEOREM CallerAlwaysUndisturbed == NativeSpec /\ []StoresInArrays => []CallerUndisturbed
<1>1. NativeInit => FrameInvariant
  <2>1. SUFFICES ASSUME NativeInit PROVE FrameInvariant
    OBVIOUS
  <2>2. ~Emitted /\ labels = <<>> /\ patches = <<>>
    BY <2>1 DEF NativeInit, Emitted
  <2>3. PlanOK
    <3>1. /\ func \in Functions /\ target \in Targets /\ phase = "arguments" /\ idx = 1
          /\ offset = FirstOffset /\ slot = <<>> /\ FirstOffset \in Nat
      BY <2>1 DEF NativeInit, FirstOffset, WordSize
    <3>2. Len(func.params) \in Nat /\ DOMAIN func.params = 1 .. Len(func.params)
      BY <3>1, FunctionFacts
    <3>3. DOMAIN slot = {}
      BY <3>1
    <3>4. PICK n \in Nat, f \in Nat : n = Len(func.params) /\ f = FirstOffset
      BY <3>1, <3>2
    <3>5. idx <= n + 1 /\ offset = f /\ offset <= f + 8 * (idx - 1)
      BY <3>1, <3>4
    <3>6. \A k \in DOMAIN func.params : ~(phase = "arguments" => k < idx)
      BY <3>1, <3>2
    <3>7. phase = "arguments" =>
            /\ idx <= Len(func.params) + 1
            /\ offset <= FirstOffset + 8 * (idx - 1)
      BY <3>4, <3>5
    <3>8. offset \in Nat /\ FirstOffset <= offset /\ idx \in Nat \ {0}
      BY <3>1, <3>4
    <3>9. \A v \in DOMAIN slot : slot[v] \in Nat /\ FirstOffset <= slot[v]
      BY <3>3
    <3> QED BY <2>2, <3>1, <3>6, <3>7, <3>8, <3>9 DEF PlanOK
  <2> QED BY <2>2, <2>3 DEF FrameInvariant
<1>2. FrameInvariant => CallerUndisturbed
  BY DEF FrameInvariant, CallerUndisturbed, Gone, Emitted
<1> QED BY <1>1, <1>2, StepKeepsFrame, PTL DEF NativeSpec

=============================================================================
