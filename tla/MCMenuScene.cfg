CONSTANTS
  Parts = 2
  Places <- overAll
  Symbols = {2, 10}
  Clipboards <- clips
  MaxInputs = 2
SPECIFICATION Spec
CHECK_DEADLOCK FALSE
INVARIANTS
  DialogsConsistent
  AcceptsAddresses
PROPERTIES
  PromiseKept
