CONSTANTS
  Players = 3
  Suit = {"h", "s"}
  Rank = {6, 7, 8, 9, 10, 11}
  MaxTablePositions = 2
  TotalCardsInHands = 2
  Deck <- Decks
  PassAnyTime = FALSE
  MaxBouts = 3
SPECIFICATION FairSpec
CONSTRAINT BoutsBound
CHECK_DEADLOCK FALSE
INVARIANTS
  GameConsistent
PROPERTIES
  CardsKeptWhileInRow
  OthersNeverOverload
  PhasesEnd
