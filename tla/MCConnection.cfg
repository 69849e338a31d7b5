CONSTANTS
  Data <- OneByte
  MaxPackets = 2
  Capacity = 5
  ChunkSize = 4
  EraseAbove = 4
SPECIFICATION FairSpec
CHECK_DEADLOCK FALSE
INVARIANTS
  EndsConsistent
PROPERTIES
  CarriesPackets
  SentArrives
