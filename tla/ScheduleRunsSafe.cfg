SPECIFICATION Spec
CONSTANTS
  r1 = r1
  r2 = r2
  r3 = r3
  Backends = {"memory", "postgres"}
  Requests = {r1, r2, r3}
  Ops = {"import", "serve", "revert", "list"}
  Maps = {}
  MaxDocs = 1
  Boot = Boot
  Generated = Generated
  NoRun = NoRun
  Default = Default
  None = None
SYMMETRY RequestSymmetry
INVARIANTS HistoryIsNumbered PointerFollowsDoc RunsAreLedgered
PROPERTIES ImplementsRegister
CHECK_DEADLOCK FALSE
