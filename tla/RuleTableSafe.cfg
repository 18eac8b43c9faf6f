SPECIFICATION Spec
CONSTANTS
  None = None
  Garbled = Garbled
  NotApplicable = NotApplicable
  Clocks <- MCClocks
  Hull <- MCHull
  WallClock <- MCWallClock
  Redrafts <- MCRedrafts
  FirstSheets <- MCFirstSheets
  Requests = {r1, r2}
  MaxEvents = 3
SYMMETRY Doors
CHECK_DEADLOCK FALSE
INVARIANTS VersionsNameOneReading ExportReadsBack FiringIsReported
PROPERTY MovedIsExact
