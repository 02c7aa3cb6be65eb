SPECIFICATION Spec
CONSTANTS
  MaxConns = 4
  MaxMatches = 2
  RoundTicks = 1
  TimeoutTicks = 1
  FullHull = 2
  Clientele = {"human", "bot"}
  MaxDrops = 0
INVARIANTS
  HumansPairAtOnce
  NoMatchShortage
PROPERTIES
  NoOvertaking
  BotKeptForHumans
