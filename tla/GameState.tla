-------------------------------- MODULE GameState --------------------------------
(***************************************************************************)
(* The cards of a game: GameState, PlayerData and the moves of GameLogic.  *)
(* The state is a record, and every operation maps a state to the state it *)
(* leaves.  A card is its suit and rank (its id names the same thing), a   *)
(* player the seat it sits at, and the seats of a game are 0, 1, ... in a  *)
(* row: ClassicRules counts them modulo the number of players.  The order  *)
(* of a hand and of the boneyard is not kept, no decision reads it.        *)
(*                                                                         *)
(* Nothing in the code fills the deck and the players yet, so dealing      *)
(* starts here from a deck and players that are given.                     *)
(***************************************************************************)
EXTENDS Integers, Sequences, FiniteSets

CONSTANTS Players,            \* how many play
          Suit, Rank,         \* Rank is a set of numbers
          MaxTablePositions,
          TotalCardsInHands

ASSUME GameAssumption ==
  /\ Players \in Nat \ {0, 1}
  /\ Rank \subseteq Nat /\ IsFiniteSet(Rank) /\ IsFiniteSet(Suit)
  /\ MaxTablePositions \in Nat \ {0}
  /\ TotalCardsInHands \in Nat \ {0}

Card == [suit : Suit, rank : Rank]
GameSeat == 0..(Players - 1)
Position == 0..(MaxTablePositions - 1)
NoSeat == -1
NoTrump == "none"
Phase == {"StartingGame", "MainPlayerMove", "EveryPlayerMove", "RefillPhase"}

\* A game about to be dealt from the deck d.
initialGame(d) ==
  [ phase |-> "StartingGame", deck |-> d, boneyard |-> {},
    table |-> [i \in Position |-> <<>>],
    hand |-> [s \in GameSeat |-> {}],
    pass |-> [s \in GameSeat |-> FALSE],
    winner |-> [s \in GameSeat |-> FALSE],
    attacker |-> NoSeat, defender |-> NoSeat,
    trump |-> NoTrump ]

-----------------------------------------------------------------------------
(* The table *)

cardsAt(g, i) == {g.table[i][j] : j \in DOMAIN g.table[i]}
getTableCards(g) == UNION {cardsAt(g, i) : i \in Position}
attackerCardsOnTableSize(g) == Cardinality({i \in Position : g.table[i] # <<>>})
defenderCardsOnTableSize(g) == Cardinality({i \in Position : Len(g.table[i]) = 2})
unbeaten(g) == attackerCardsOnTableSize(g) - defenderCardsOnTableSize(g)

(* The deck: its back, the last of the sequence, is dealt first *)

deckBack(g) == g.deck[Len(g.deck)]
deckRest(d) == SubSeq(d, 1, Len(d) - 1)

dealOneCard(g, s) ==
  [g EXCEPT !.hand[s] = @ \cup {deckBack(g)}, !.deck = deckRest(@)]

\* The card at the back names the trump suit and goes to the front of the deck.
identifyTrumpCard(g) ==
  [g EXCEPT !.trump = deckBack(g).suit, !.deck = <<deckBack(g)>> \o deckRest(@)]

trumpsOf(g, s) == {c \in g.hand[s] : c.suit = g.trump}
allTrumps(g) == UNION {trumpsOf(g, s) : s \in GameSeat}
lowestTrump(g) == CHOOSE c \in allTrumps(g) : \A o \in allTrumps(g) : c.rank <= o.rank
findPlayerWithLowestTrump(g) == CHOOSE s \in GameSeat : lowestTrump(g) \in trumpsOf(g, s)

-----------------------------------------------------------------------------
(* The moves of GameLogic *)

\* The card leaves the hand before the position is looked at, so it is gone
\* from the game when the position does not take it.
putOnTable(g, s, i, c, room) ==
  LET taken == [g EXCEPT !.hand[s] = @ \ {c}]
  IN  IF room THEN [taken EXCEPT !.table[i] = Append(@, c)] ELSE taken

tossed(g, s, i, c) == putOnTable(g, s, i, c, g.table[i] = <<>>)
beaten(g, s, i, c) == putOnTable(g, s, i, c, Len(g.table[i]) = 1)

\* The loop over the table compares its counter with a number of positions
\* in use that it lowers itself whenever it empties one.
removedPositions(g) ==
  LET used(i) == attackerCardsOnTableSize(g)
                   - Cardinality({k \in 0..(i - 1) : g.table[k] # <<>>})
  IN  {i \in Position : \A k \in 0..i : k < used(k)}

takenFromTable(g) == UNION {cardsAt(g, i) : i \in removedPositions(g)}
clearedTable(g) ==
  [g EXCEPT !.table = [i \in Position |->
                         IF i \in removedPositions(g) THEN <<>> ELSE @[i]]]

moveTableCardsToBoneyard(g) ==
  [clearedTable(g) EXCEPT !.boneyard = @ \cup takenFromTable(g)]

moveTableCardsToHand_Dropped(g, s) == clearedTable(g)   \* mutant: nobody gets the cards

moveTableCardsToHand(g, s) ==
  [clearedTable(g) EXCEPT !.hand[s] = @ \cup takenFromTable(g)]

=============================================================================
