SPECIFICATION Spec
CONSTANTS
  a = a
  b = b
  r1 = r1
  r2 = r2
  r3 = r3
  Backends = {"memory", "postgres"}
  Keys <- MCKeys
  Requests = {r1, r2, r3}
  Logs <- MCLogs
  Seeds <- MCSeeds
  Never = Never
  Seed = Seed
  MaxNow = 2
SYMMETRY RequestSymmetry
INVARIANTS RegisterIsLedgered DuplicatesOverlap MemoryEndsForGood
PROPERTIES PastReadsAreStable ImplementsFacts
CHECK_DEADLOCK FALSE
