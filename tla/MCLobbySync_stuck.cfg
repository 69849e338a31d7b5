CONSTANTS
  Player = {0, 1, 2}
  MaxPlayersInLobby = 3
  MaxRequests = 1
SPECIFICATION FairSpec
CHECK_DEADLOCK FALSE
PROPERTY ClientsLeaveSyncing
