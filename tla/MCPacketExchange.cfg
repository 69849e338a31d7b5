CONSTANTS
  Id <- Ids
  Seat <- Seats
  Nickname <- Nicknames
  Token <- Tokens
  Enum = {0, 1, 255}
  SeatLists <- Pairs
  IdLists <- Lists
SPECIFICATION ExchangeSpec
INVARIANTS
  FieldsAgree
CHECK_DEADLOCK FALSE
