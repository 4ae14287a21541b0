SPECIFICATION OptSpec
CONSTANTS
  arg0 = arg0
  Args = {arg0}
  Consts = {0}
  Opcodes = {"listlen", "listappend", "listpop"}
  Beginnings <- NoBeginning
  MaxLength = 2
  Width = 2
  Inputs <- SomeInputs
  InitialCells = {0, 1}
INVARIANTS
  EffectsNotEliminated
CHECK_DEADLOCK FALSE
