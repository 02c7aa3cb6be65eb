SPECIFICATION BenchSpec
CONSTANTS
  GridW = 4
  GridH = 3
  Catalog <- Dw2Parts
  BudgetCredits = 1000
  BudgetWeight = 40
  Ships <- CircuitShips
  EvadeRefWeight = 20
  FlowBudget = 4096
  Seconds = 5
  MaxVoices = 5
  Cues <- McCues
  Delays = {0, 30}
  Buffers = {80, 130}
  MaxPlays = 3
INVARIANTS
  NothingFromNothing
  LoopsAreReal
  OrderIsBlind
PROPERTIES
  SoundsKeepOrder
CHECK_DEADLOCK FALSE
