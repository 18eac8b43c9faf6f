SPECIFICATION Spec
CONSTANTS
  r1 = r1
  r2 = r2
  r3 = r3
  h1 = h1
  h2 = h2
  Backends = {"memory", "postgres"}
  Requests = {r1, r2, r3}
  Doors = {"zone_register", "budget_book", "manning_book", "geometry_register", "compartment_register", "coupling_register", "yard_clock", "rule_table"}
  Hashes = {h1, h2}
  Directories <- MCDirectories
  Lines = 1
  None = None
SYMMETRY DocumentSymmetry
INVARIANTS DocumentsAreLedgered LedgerSaysWhatIsStored LoadReportIsHonest
CHECK_DEADLOCK FALSE
