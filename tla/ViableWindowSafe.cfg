SPECIFICATION Spec
CONSTANTS
  coating = coating
  weld = weld
  bus = bus
  here = here
  beside = beside
  Never = Never
  Kinds = {coating, weld, bus}
  Spaces = {here, beside}
  Tables <- TwoTables
  Registers <- SmallRegisters
  AsOfs = {2, 4}
  Windows <- SmallWindows
  Horizons = {6}
  Instants = {1, 4}
  MaxJumps = 2
  MaxHold = 3
INVARIANTS VerdictIsExact AnswersAreTrue JumpsAreHolds
PROPERTY TailIsEnough
CHECK_DEADLOCK FALSE
