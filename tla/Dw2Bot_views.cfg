SPECIFICATION FairSpec
CONSTANTS
  MinBots = 1
  StartBots = 1
  MaxBots = 1
  Spare = 1
  MaxLinks = 2
  Window = 3
  MaxCuts = 2
PROPERTIES
  BotsComeBack
INVARIANTS
 ViewsAgree
