CONSTANTS
  EventType = {t, u}
  Object = {a, b}
  MaxEventsPerFrame = 2
  MaxPublished = 4
SPECIFICATION UsersSpec
CHECK_DEADLOCK FALSE
INVARIANTS
  QueueConsistent
PROPERTIES
  EveryoneIsCalled
  DispatchEnds
