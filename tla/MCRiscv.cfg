SPECIFICATION NativeSpec
CONSTANTS
  Functions <- MCFunctions
  Targets = {"x86_64", "aarch64", "riscv64"}
  ArgRegs <- MCArgRegs
  ConstBits <- MCConstBits
  PairBits = 5
  Width = 10
  Words <- MCWords
  Cells <- MCCells
  StackWords = 24
  Junk = Junk
INVARIANTS
  RiscvUndisturbed
