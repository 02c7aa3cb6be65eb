\* One seat of a match, played by a person, a self-test or the scripted tester.
SPECIFICATION SeatFair
CONSTANTS
  Parts <- McParts
  Clash <- McClash
  Script <- McScript
  Places <- McPlaces
  Setups <- McSetups
  RoundTicks = 1
  TimeoutTicks = 3
  Window = 2
  Cuts = 1
  Calls = {2}
INVARIANTS
  SeatAgrees
  TesterIsRight
PROPERTIES
  SeatsGetOut
CHECK_DEADLOCK FALSE
