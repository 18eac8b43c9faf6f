SPECIFICATION BoardsSpec
CONSTANTS
  None = None
  Root = Root
  SettleCap = 4
  ListLimit = 2
  DayLength = 1000
  PairCap = 1
  Hulls <- SmallHulls
  Spaces = {"a", "b", "c", "d", "e"}
  Instants = {0, 15, 49, 480, 779, 1010}
INVARIANTS OptionsOpen LeverageIsWhole PlansAreNeeded BoardsAgree HoursAddUp ConflictsCoverPaths
CHECK_DEADLOCK FALSE
