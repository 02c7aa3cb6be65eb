SPECIFICATION Spec
CONSTANTS
  MaxConns = 2
  MaxMatches = 1
  RoundTicks = 1
  TimeoutTicks = 1
  FullHull = 2
  Clientele = {"human", "bot"}
  MaxDrops = 1
PROPERTIES
  SurvivorWins
