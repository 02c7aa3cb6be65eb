SPECIFICATION Spec
CONSTANTS
  GridW = 4
  GridH = 4
  Catalog <- Dw2Parts
  BudgetCredits = 330
  BudgetWeight = 14
  MaxPlacements = 16
  Wanted <- McWanted
  Anchors <- Cells
  Rotations = {1, 2, 3, 4}
INVARIANTS
  PackTypeOK
  RotationIsRigid
  PiecesAndTotals
