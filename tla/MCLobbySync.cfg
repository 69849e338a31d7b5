CONSTANTS
  Player = {0, 1}
  MaxPlayersInLobby = 2
  MaxRequests = 3
SPECIFICATION FairSpec
CHECK_DEADLOCK FALSE
INVARIANTS
  SyncConsistent
  CopiesAgreeUnlessOverlap
  NoAbortUnlessOverlap
PROPERTIES
  NoRejectUnlessOverlap
  ServerIsLobbyServer
  SnapshotsAcknowledged
