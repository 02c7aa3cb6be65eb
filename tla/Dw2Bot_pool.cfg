SPECIFICATION ScalingSpec
CONSTANTS
  MinBots = 1
  StartBots = 1
  MaxBots = 2
  Spare = 1
  MaxLinks = 2
  Window = 1
  MaxCuts = 1
INVARIANTS
  PoolBounds
PROPERTIES
  DemandIsMet
