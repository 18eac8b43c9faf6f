SPECIFICATION WalkSpec
CONSTANTS
  Compartments = {c1, c2, c3}
  trunk = trunk
  branch = branch
  exhaust = exhaust
  deck = deck
  AnyCode = AnyCode
  Types <- TwoTypes
  Codes <- TwoCodes
  CodeOf <- TypeCodes
  ReachOf <- TypeReach
  TopDepth = 4
  Hops = {2, 3}
  MaxEdges = 6
  Graphs <- SmallGraphs
INVARIANTS WalkIsExact HitsAreShallowest
SYMMETRY AnySpace
CHECK_DEADLOCK FALSE
