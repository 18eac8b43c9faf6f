SPECIFICATION Spec
CONSTANTS
  None = None
  Inputs <- MCInputs
  WallOf <- MCWallOf
  QtyOf <- MCQtyOf
  PlacardIn <- MCPlacardIn
  FoldOf <- MCFoldOf
  MaxCells = 120
  MaxDepth = 8
INVARIANTS NothingIsSilent LogicIsWhole WindowsAreHonest HoursAreLabor
CHECK_DEADLOCK FALSE
