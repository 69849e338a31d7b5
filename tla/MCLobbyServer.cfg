CONSTANTS
  Player = {0, 1, 2, 3}
  MaxPlayersInLobby = 3
  OnlyFresh = TRUE
SPECIFICATION Spec
CHECK_DEADLOCK FALSE
INVARIANTS
  LobbyConsistent
  OnePlace
  SeatsInRange
  QueueHasRoom
PROPERTIES
  SwapExchanges
  RegularMovesOnlyItself
