SPECIFICATION Spec
CONSTANTS
  None = None
  Root = Root
  SettleCap = 3
  ListLimit = 2
  Requests = {1, 2}
  Fixed <- HullFixed
  FirstHulls <- Hulls
  Books <- Histories
  Schedules <- Imports
  Raisable <- MCRaisable
  AsOfs = {30}
  Options <- SeenOptions
  Dispositions = {"accepted"}
  IssueKeys <- SeenKeys
  Windows <- MCWindows
  Codes = {"weld"}
  DayLength = 1000
  Now = 30
  MaxEvents = 3
PROPERTY RecordsWereTrue
INVARIANTS OpenUntilMoved LatestWordIsShown
CHECK_DEADLOCK FALSE
