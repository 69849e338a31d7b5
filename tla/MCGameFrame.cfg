CONSTANTS
  EventType = {"Exit", "CreateGameRequest", "JoinGameRequest", "Welcome", "ExitRequest", "InputIpAddressRequest", "LobbyRequest", "LobbyChanged", "SnapshotApplied", "LobbyStateSync", "ServerDisconnect"}
  Object = {"game", "menu", "model", "layer"}
  MaxEventsPerFrame = 20
  MaxInputs = 3
  MaxNotifications = 1
SPECIFICATION Spec
CHECK_DEADLOCK FALSE
INVARIANTS
  StatesConsistent
  FewEventsPerInput
PROPERTIES
  NobodyDiesInDispatch
  GameBegins
