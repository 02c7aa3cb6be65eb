SPECIFICATION PairSpec
CONSTANTS
  GridW = 3
  GridH = 3
  Catalog <- Dw2Parts
  BudgetCredits = 1000
  BudgetWeight = 40
  Ships <- McShips
  Matchups <- McMatchups
  Watts <- McWatts
  Program <- McProgram
  Answers <- McAnswers
  Targets <- McTargets
  EvadeRefWeight = 20
  RoundTicks = 3
  TimeoutTicks = 5
INVARIANTS
  WrecksAgree
PROPERTIES
  NothingRevives
  FightIsFair
  DuelImplemented
CHECK_DEADLOCK FALSE
