SPECIFICATION DeskSpec
CONSTANTS
  Absent = Absent
  Piece = Piece
  Matches = {"m1", "m2"}
  Players = {"ann"}
  Strangers = {"eve"}
  Files <- SomeFiles
  Right = "right"
  MaxEra = 2
  MaxGuests = 3
  GridW = 2
  GridH = 1
  Catalog <- McCatalog
  BudgetCredits = 1
  BudgetWeight = 2
  MaxPlacements = 3
  FullHull = 2
  Wanted <- McItems
  Anchors <- Cells
  Rotations = {0, 1, 2, 3}
  First = "plate"
  TimeoutTicks = 3
  Spare = 2
  TickMs = 2
  Wrap = 5
  Frames = {1, 3}
PROPERTIES
  AgentTellsTrue
  GuestStays
  PracticeIsDuel
  NothingHangs
CHECK_DEADLOCK FALSE
