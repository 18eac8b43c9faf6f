SPECIFICATION Spec
CONSTANTS
  r1 = r1
  r2 = r2
  r3 = r3
  h1 = h1
  h2 = h2
  Backends = {"memory"}
  Requests = {r1, r2, r3}
  Doors = {"rule_table"}
  Hashes = {h1, h2}
  Directories <- MCDirectories
  Lines = 2
  None = None
INVARIANTS SignatureIsOfTheTable
CHECK_DEADLOCK FALSE
