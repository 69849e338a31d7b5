CONSTANTS
  Player = {0, 1}
  MaxPlayersInLobby = 3
  Locals = {0, 1}
  Garbage = {FALSE}
  Places <- overAll
  StartSizes = {2}
  AnimationFrames = 2
  MaxPackets = 1
  MaxPresses = 2
SPECIFICATION ScreenSpec
CHECK_DEADLOCK FALSE
INVARIANTS
  ScreenConsistent
  RestingViewsAtHome
  RequestsMakeSense
