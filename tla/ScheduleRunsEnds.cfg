SPECIFICATION FairSpec
CONSTANTS
  r1 = r1
  r2 = r2
  r3 = r3
  Backends = {"memory", "postgres"}
  Requests = {r1, r2}
  Ops = {"import", "serve", "revert", "list", "map", "map_revert"}
  Maps = {"m"}
  MaxDocs = 1
  Boot = Boot
  Generated = Generated
  NoRun = NoRun
  Default = Default
  None = None
INVARIANTS MapsAreLedgered
PROPERTIES EveryRequestEnds
CHECK_DEADLOCK FALSE
