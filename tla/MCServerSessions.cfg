CONSTANTS
  Player = {p, q, r}
  MaxPlayersInLobby = 2
  WhenEmpty <- TwoPrograms
  WhenFull <- OneMore
SPECIFICATION FairSpec
CHECK_DEADLOCK FALSE
INVARIANTS
  SessionsConsistent
  ClientsKnowMembers
PROPERTIES
  ReturnIsAccepted
  HelloIsAnswered
  MarkedIsErased
