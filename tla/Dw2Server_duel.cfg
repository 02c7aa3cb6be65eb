SPECIFICATION FairSpec
CONSTANTS
  MaxConns = 2
  MaxMatches = 1
  RoundTicks = 2
  TimeoutTicks = 5
  FullHull = 2
  Clientele = {"human", "bot"}
  MaxDrops = 2
INVARIANTS
  MatchesAgree
  NoIdleWait
  EndsAreJust
PROPERTIES
  MatchesEnd
  DroppedAreClosed
  HumansGetBots
