SPECIFICATION OptSpec
CONSTANTS
  arg0 = arg0
  Args = {arg0}
  Consts = {0, 1}
  Opcodes = {"sub", "mul", "load", "store"}
  Beginnings <- SomeBeginnings
  MaxLength = 4
  Width = 2
  Inputs <- SomeInputs
  InitialCells = {0, 1}
INVARIANTS
  SameMeaning
CHECK_DEADLOCK FALSE
