--------------------------- MODULE ClassicRulesProofs ---------------------------
(***************************************************************************)
(* Theorems about ClassicRules, for every number of players, every deck    *)
(* and any size of hands and table.                                        *)
(***************************************************************************)
EXTENDS ClassicRules, FiniteSetTheorems, FunctionTheorems, SequenceTheorems, WellFoundedInduction, TLAPS

-----------------------------------------------------------------------------
(* Numbers and finite sets *)

\* A non-empty set of natural numbers has a smallest element.
LEMMA SmallestOf ==
  ASSUME NEW T \in SUBSET Nat, T # {}
  PROVE  \E x \in T : \A y \in T : x <= y
<1> DEFINE R == OpToRel(<, Nat)
<1>1. IsWellFoundedOn(R, Nat)
  BY NatLessThanWellFounded
<1>2. PICK x \in T : \A y \in T : << y, x >> \notin R
  <2> HIDE DEF R
  <2> QED  BY <1>1, WFMin
<1>3. \A y \in T : << y, x >> \in R <=> y < x
  BY DEF OpToRel
<1>4. \A y \in T : ~(y < x)
  BY <1>2, <1>3
<1> HIDE DEF R
<1> QED  BY <1>4

\* One that is bounded has a greatest element.
LEMMA GreatestOf ==
  ASSUME NEW n \in Nat, NEW T \in SUBSET (0..n), T # {}
  PROVE  \E x \in T : \A y \in T : y <= x
<1> DEFINE U == {n - x : x \in T}
<1>1. U \in SUBSET Nat /\ U # {}
  <2>1. \A x \in T : x \in 0..n /\ n - x \in Nat
    OBVIOUS
  <2>2. PICK x \in T : TRUE
    OBVIOUS
  <2>3. n - x \in U
    OBVIOUS
  <2> QED  BY <2>1, <2>3
<1> HIDE DEF U
<1>2. PICK u \in U : \A v \in U : u <= v
  BY <1>1, SmallestOf
<1>3. PICK x \in T : u = n - x
  BY <1>2 DEF U
<1>4. \A y \in T : n - x <= n - y
  BY <1>2, <1>3 DEF U
<1>5. \A y \in T : y <= x
  BY <1>4
<1> QED  BY <1>5

\* The seats are counted in a circle.
LEMMA SeatSum ==
  ASSUME NEW s \in GameSeat, NEW k \in 0..Players
  PROVE  (s + k) % Players = IF s + k < Players THEN s + k ELSE s + k - Players
BY GameAssumption DEF GameSeat

\* There are seats, and positions of the table.
LEMMA Seats ==
  /\ 0 \in GameSeat /\ NoSeat \notin GameSeat /\ Players \in Nat /\ Players >= 2
  /\ \A s \in GameSeat : after(s) \in GameSeat
  /\ IsFiniteSet(GameSeat) /\ Cardinality(GameSeat) = Players
<1>1. /\ 0 \in GameSeat /\ NoSeat \notin GameSeat /\ Players \in Nat /\ Players >= 2
  BY GameAssumption DEF GameSeat, NoSeat
<1>2. \A s \in GameSeat : after(s) \in GameSeat
  BY <1>1, SeatSum DEF after, GameSeat
<1>3. IsFiniteSet(GameSeat) /\ Cardinality(GameSeat) = Players
  BY <1>1, FS_Interval DEF GameSeat
<1> QED  BY <1>1, <1>2, <1>3

\* Every seat is some way ahead of another one, and only one way.
LEMMA SeatAhead ==
  ASSUME NEW s \in GameSeat, NEW p \in GameSeat
  PROVE  \E k \in GameSeat : /\ (s + k) % Players = p
                             /\ \A m \in GameSeat : (s + m) % Players = p => m = k
<1> DEFINE k == IF s <= p THEN p - s ELSE p - s + Players
<1>1. s \in 0..(Players - 1) /\ p \in 0..(Players - 1) /\ Players \in Nat
  BY Seats DEF GameSeat
<1>2. k \in 0..(Players - 1) /\ (s + k = p \/ s + k = p + Players)
  BY <1>1
<1> HIDE DEF k
<1>3. \A m \in 0..(Players - 1) :
        (s + m) % Players = IF s + m < Players THEN s + m ELSE s + m - Players
  BY <1>1, SeatSum
<1>4. (s + k) % Players = p
  <2>1. (s + k) % Players = IF s + k < Players THEN s + k ELSE s + k - Players
    BY <1>2, <1>3
  <2> QED  BY <1>1, <1>2, <2>1
<1>5. ASSUME NEW m \in 0..(Players - 1), (s + m) % Players = p
      PROVE  m = k
  <2>1. s + m = p \/ s + m = p + Players
    BY <1>1, <1>3, <1>5
  <2> QED  BY <1>1, <1>2, <2>1
<1> QED  BY <1>2, <1>4, <1>5 DEF GameSeat

\* The seat after another is the farthest from it.
LEMMA SeatBehind ==
  ASSUME NEW a \in GameSeat
  PROVE  (after(a) + (Players - 1)) % Players = a
<1>1. a \in 0..(Players - 1) /\ Players \in Nat /\ Players >= 2
  BY Seats DEF GameSeat
<1>2. after(a) = IF a + 1 < Players THEN a + 1 ELSE a + 1 - Players
  BY <1>1, SeatSum DEF after
<1> DEFINE b == after(a)
<1>3. b \in GameSeat /\ (b = a + 1 \/ b = a + 1 - Players) /\ Players - 1 \in 0..Players
  BY <1>1, <1>2, Seats
<1> HIDE DEF b
<1>4. (b + (Players - 1)) % Players =
        IF b + (Players - 1) < Players THEN b + (Players - 1) ELSE b + (Players - 1) - Players
  BY <1>3, SeatSum
<1>5. (b + (Players - 1)) % Players = a
  BY <1>1, <1>3, <1>4
<1> QED  BY <1>5 DEF b

\* There are finitely many cards.
LEMMA CardsFinite == IsFiniteSet(Card)
<1> DEFINE f == [p \in Suit \X Rank |-> [suit |-> p[1], rank |-> p[2]]]
<1>1. IsFiniteSet(Suit \X Rank)
  BY GameAssumption, FS_Product
<1>2. f \in Surjection(Suit \X Rank, Card)
  <2>1. f \in [Suit \X Rank -> Card]
    BY DEF Card
  <2>2. ASSUME NEW c \in Card
        PROVE  <<c.suit, c.rank>> \in Suit \X Rank /\ f[<<c.suit, c.rank>>] = c
    BY DEF Card
  <2> HIDE DEF f
  <2> QED  BY <2>1, <2>2, Fun_IsSurj
<1> HIDE DEF f
<1> QED  BY <1>1, <1>2, FS_Surjection

-----------------------------------------------------------------------------
(***************************************************************************)
(* The cards of a game.  A card is in one place at most: in one hand, at   *)
(* one position of the deck, in one place on the table, or in the          *)
(* boneyard, and in no two of these.                                       *)
(***************************************************************************)

InHand(g, c)  == \E s \in GameSeat : c \in g.hand[s]
InDeck(g, c)  == \E i \in DOMAIN g.deck : g.deck[i] = c
OnTable(g, c) == \E i \in Position : \E j \in DOMAIN g.table[i] : g.table[i][j] = c
InGame(g, c)  == InHand(g, c) \/ InDeck(g, c) \/ OnTable(g, c) \/ c \in g.boneyard

HandsApart(g) == \A c \in Card : \A s, t \in GameSeat : c \in g.hand[s] /\ c \in g.hand[t] => s = t
DeckApart(g)  == \A i, j \in DOMAIN g.deck : g.deck[i] = g.deck[j] => i = j
TableApart(g) ==
  \A i, k \in Position : \A j \in DOMAIN g.table[i], l \in DOMAIN g.table[k] :
    g.table[i][j] = g.table[k][l] => i = k /\ j = l
Apart(g) ==
  \A c \in Card :
    /\ InHand(g, c) => ~InDeck(g, c) /\ ~OnTable(g, c) /\ c \notin g.boneyard
    /\ InDeck(g, c) => ~OnTable(g, c) /\ c \notin g.boneyard
    /\ OnTable(g, c) => c \notin g.boneyard

GoodGame(g) ==
  /\ g \in GameType
  /\ \A i \in Position : Len(g.table[i]) <= 2
  /\ HandsApart(g) /\ DeckApart(g) /\ TableApart(g) /\ Apart(g)

\* The fields of a game have their types.
LEMMA GameFields ==
  ASSUME NEW g \in GameType
  PROVE  /\ g.phase \in Phase /\ g.deck \in Seq(Card) /\ g.boneyard \in SUBSET Card
         /\ g.table \in [Position -> Seq(Card)] /\ g.hand \in [GameSeat -> SUBSET Card]
         /\ g.pass \in [GameSeat -> BOOLEAN] /\ g.winner \in [GameSeat -> BOOLEAN]
         /\ g.attacker \in SeatOrNone /\ g.defender \in SeatOrNone
         /\ g.trump \in Suit \cup {NoTrump}
BY DEF GameType

(***************************************************************************)
(* Only hands, deck, table and boneyard count for GoodGame: a game with    *)
(* the same ones is as good.                                               *)
(***************************************************************************)
LEMMA SameCards ==
  ASSUME NEW g, GoodGame(g), NEW h \in GameType,
         h.hand = g.hand, h.deck = g.deck, h.table = g.table, h.boneyard = g.boneyard
  PROVE  /\ GoodGame(h)
         /\ \A c \in Card : InGame(h, c) <=> InGame(g, c)
BY DEF GoodGame, HandsApart, DeckApart, TableApart, Apart, InHand, InDeck, OnTable, InGame

\* A game that has just begun.
LEMMA InitialGoodGame ==
  ASSUME NEW d \in Deck
  PROVE  GoodGame(initialGame(d))
<1> DEFINE g == initialGame(d)
<1>1. d \in Seq(Card) /\ IsInjective(d)
  BY DeckAssumption
<1>2. /\ g.phase = "StartingGame" /\ g.deck = d /\ g.boneyard = {}
      /\ g.table = [i \in Position |-> <<>>] /\ g.hand = [s \in GameSeat |-> {}]
  BY DEF initialGame
<1>3. g \in GameType
  BY <1>1 DEF initialGame, GameType, Phase, SeatOrNone
<1> HIDE DEF g
<1>4. \A i \in Position : g.table[i] = <<>> /\ DOMAIN g.table[i] = {} /\ Len(g.table[i]) = 0
  BY <1>2
<1>5. DeckApart(g)
  BY <1>1, <1>2 DEF DeckApart, IsInjective
<1> QED
  BY <1>2, <1>3, <1>4, <1>5
  DEF GoodGame, HandsApart, TableApart, Apart, InHand, InDeck, OnTable, g

(***************************************************************************)
(* The number of places of a card, which NoCardTwice and                   *)
(* CardsKeptWhileInRow count, is one or none.                              *)
(***************************************************************************)
LEMMA PlacesAre ==
  ASSUME NEW g, GoodGame(g), NEW c \in Card
  PROVE  placesIn(g, c) = IF InGame(g, c) THEN 1 ELSE 0
<1> DEFINE H == {s \in GameSeat : c \in g.hand[s]}
           D == {i \in DOMAIN g.deck : g.deck[i] = c}
           T == {p \in Position \X {1, 2} :
                   p[2] \in DOMAIN g.table[p[1]] /\ g.table[p[1]][p[2]] = c}
           B == g.boneyard \cap {c}
<1>1. ASSUME NEW S, \A x, y \in S : x = y
      PROVE  Cardinality(S) = IF S = {} THEN 0 ELSE 1
  <2>1. CASE S = {}
    BY <2>1, FS_EmptySet
  <2>2. CASE S # {}
    <3>1. PICK x : S = {x}
      BY <1>1, <2>2
    <3> QED  BY <2>2, <3>1, FS_Singleton
  <2> QED  BY <2>1, <2>2
<1>2. /\ \A x, y \in H : x = y
      /\ H # {} <=> InHand(g, c)
  BY DEF GoodGame, HandsApart, InHand
<1>3. /\ \A x, y \in D : x = y
      /\ D # {} <=> InDeck(g, c)
  BY DEF GoodGame, DeckApart, InDeck
<1>4. /\ \A x, y \in B : x = y
      /\ B # {} <=> c \in g.boneyard
  OBVIOUS
<1>5. \A x, y \in T : x = y
  BY DEF GoodGame, TableApart
<1>6. T # {} <=> OnTable(g, c)
  <2>1. ASSUME NEW i \in Position, NEW j \in DOMAIN g.table[i], g.table[i][j] = c
        PROVE  <<i, j>> \in T
    <3>1. g.table[i] \in Seq(Card) /\ Len(g.table[i]) <= 2
      BY GameFields DEF GoodGame
    <3>2. j \in {1, 2}
      BY <3>1, LenProperties
    <3> QED  BY <2>1, <3>2
  <2>2. ASSUME NEW p \in T
        PROVE  OnTable(g, c)
    <3>1. p[1] \in Position /\ p[2] \in DOMAIN g.table[p[1]] /\ g.table[p[1]][p[2]] = c
      OBVIOUS
    <3> QED  BY <3>1 DEF OnTable
  <2> HIDE DEF T
  <2>3. OnTable(g, c) => T # {}
    BY <2>1 DEF OnTable
  <2> QED  BY <2>2, <2>3
<1>7. /\ Cardinality(H) = IF InHand(g, c) THEN 1 ELSE 0
      /\ Cardinality(D) = IF InDeck(g, c) THEN 1 ELSE 0
      /\ Cardinality(T) = IF OnTable(g, c) THEN 1 ELSE 0
      /\ Cardinality(B) = IF c \in g.boneyard THEN 1 ELSE 0
  <2> HIDE DEF H, D, T, B
  <2> QED  BY <1>1, <1>2, <1>3, <1>4, <1>5, <1>6
<1>8. placesIn(g, c) = Cardinality(H) + Cardinality(D) + Cardinality(T) + Cardinality(B)
  BY DEF placesIn
<1> HIDE DEF H, D, T, B
<1> QED  BY <1>7, <1>8 DEF GoodGame, Apart, InGame

-----------------------------------------------------------------------------
(* Dealing *)

\* A deck without its last card.
LEMMA DeckRest ==
  ASSUME NEW d \in Seq(Card), d # <<>>
  PROVE  /\ Len(d) \in Nat \ {0} /\ d[Len(d)] \in Card
         /\ deckRest(d) \in Seq(Card) /\ Len(deckRest(d)) = Len(d) - 1
         /\ \A i \in 1..(Len(d) - 1) : deckRest(d)[i] = d[i]
<1>1. Len(d) \in Nat \ {0} /\ d[Len(d)] \in Card
  BY LenProperties, EmptySeq, ElementOfSeq
<1>2. /\ deckRest(d) \in Seq(Card) /\ Len(deckRest(d)) = Len(d) - 1
      /\ \A i \in 1..(Len(d) - 1) : deckRest(d)[i] = d[i]
  <2>1. Len(d) - 1 \in Int /\ 1 \in Int /\ \A i \in 1..(Len(d) - 1) : d[i] \in Card
    BY <1>1, ElementOfSeq
  <2> DEFINE e == SubSeq(d, 1, Len(d) - 1)
  <2>2. /\ e \in Seq(Card)
        /\ Len(e) = IF 1 <= Len(d) - 1 THEN (Len(d) - 1) - 1 + 1 ELSE 0
        /\ \A i \in 1..((Len(d) - 1) - 1 + 1) : e[i] = d[1 + i - 1]
    BY <2>1, SubSeqProperties
  <2>3. e = deckRest(d)
    BY DEF deckRest
  <2> HIDE DEF e
  <2> QED  BY <1>1, <2>2, <2>3
<1> QED  BY <1>1, <1>2

(***************************************************************************)
(* A dealt card goes from the deck to the hand: no card is doubled or      *)
(* lost, and the hand has one card more.                                   *)
(***************************************************************************)
LEMMA DealOneCard ==
  ASSUME NEW g, GoodGame(g), g.deck # <<>>, NEW s \in GameSeat
  PROVE  LET n == dealOneCard(g, s)
         IN  /\ GoodGame(n)
             /\ \A c \in Card : InGame(n, c) <=> InGame(g, c)
             /\ n.phase = g.phase /\ n.table = g.table /\ n.winner = g.winner
             /\ n.attacker = g.attacker /\ n.defender = g.defender
             /\ Len(n.deck) = Len(g.deck) - 1
             /\ \A t \in GameSeat :
                  Cardinality(n.hand[t]) = Cardinality(g.hand[t]) + (IF t = s THEN 1 ELSE 0)
<1> DEFINE n == dealOneCard(g, s)
           b == deckBack(g)
           last == Len(g.deck)
<1>1. /\ g \in GameType /\ g.deck \in Seq(Card) /\ g.hand \in [GameSeat -> SUBSET Card]
      /\ HandsApart(g) /\ DeckApart(g) /\ TableApart(g) /\ Apart(g)
      /\ \A i \in Position : Len(g.table[i]) <= 2
  BY GameFields DEF GoodGame
<1>2. /\ last \in Nat \ {0} /\ b \in Card /\ b = g.deck[last]
      /\ deckRest(g.deck) \in Seq(Card) /\ Len(deckRest(g.deck)) = last - 1
      /\ \A i \in 1..(last - 1) : deckRest(g.deck)[i] = g.deck[i]
  BY <1>1, DeckRest DEF deckBack
<1>3. /\ n.hand = [g.hand EXCEPT ![s] = @ \cup {b}] /\ n.deck = deckRest(g.deck)
      /\ n.phase = g.phase /\ n.table = g.table /\ n.winner = g.winner
      /\ n.attacker = g.attacker /\ n.defender = g.defender /\ n.boneyard = g.boneyard
  BY <1>1 DEF dealOneCard, GameType
<1>4. n \in GameType
  BY <1>1, <1>2 DEF dealOneCard, GameType
<1> HIDE DEF n, b, last
<1>5. /\ DOMAIN g.deck = 1..last /\ DOMAIN n.deck = 1..(last - 1)
      /\ \A i \in 1..(last - 1) : n.deck[i] = g.deck[i]
  BY <1>1, <1>2, <1>3, LenProperties DEF last
<1>6. InDeck(g, b) /\ ~InHand(g, b) /\ ~OnTable(g, b) /\ b \notin g.boneyard
  BY <1>1, <1>2, <1>5 DEF Apart, InDeck
<1>7. ~InDeck(n, b)
  BY <1>1, <1>2, <1>5 DEF DeckApart, InDeck
<1>8. ASSUME NEW c \in Card
      PROVE  /\ InHand(n, c) <=> InHand(g, c) \/ c = b
             /\ InDeck(g, c) <=> InDeck(n, c) \/ c = b
             /\ OnTable(n, c) <=> OnTable(g, c)
  <2>1. InHand(n, c) <=> InHand(g, c) \/ c = b
    BY <1>1, <1>3 DEF InHand
  <2>2. InDeck(g, c) <=> InDeck(n, c) \/ c = b
    BY <1>2, <1>5 DEF InDeck
  <2> QED  BY <1>3, <2>1, <2>2 DEF OnTable
<1>9. \A c \in Card : InGame(n, c) <=> InGame(g, c)
  BY <1>3, <1>8 DEF InGame
<1>10. Apart(n)
  BY <1>1, <1>2, <1>3, <1>6, <1>7, <1>8 DEF Apart
<1>11. HandsApart(n)
  BY <1>1, <1>3, <1>6 DEF HandsApart, InHand
<1>12. DeckApart(n) /\ TableApart(n)
  BY <1>1, <1>2, <1>3, <1>5 DEF DeckApart, TableApart
<1>13. \A t \in GameSeat :
         Cardinality(n.hand[t]) = Cardinality(g.hand[t]) + (IF t = s THEN 1 ELSE 0)
  <2> TAKE t \in GameSeat
  <2>1. IsFiniteSet(g.hand[t])
    BY <1>1, CardsFinite, FS_Subset
  <2>2. CASE t = s
    <3>1. n.hand[t] = g.hand[t] \cup {b} /\ b \notin g.hand[t]
      BY <1>1, <1>3, <1>6, <2>2 DEF InHand
    <3> QED  BY <2>1, <2>2, <3>1, FS_AddElement
  <2>3. CASE t # s
    <3>1. n.hand[t] = g.hand[t]
      BY <1>1, <1>3, <2>3
    <3>2. Cardinality(g.hand[t]) \in Nat
      BY <2>1, FS_CardinalityType
    <3> QED  BY <2>3, <3>1, <3>2
  <2> QED  BY <2>2, <2>3
<1>14. GoodGame(n)
  BY <1>1, <1>3, <1>4, <1>10, <1>11, <1>12 DEF GoodGame
<1>15. Len(n.deck) = Len(g.deck) - 1
  BY <1>2, <1>3 DEF last
<1> QED  BY <1>3, <1>9, <1>13, <1>14, <1>15 DEF n

(***************************************************************************)
(* The trump card goes from the back of the deck to its front.             *)
(***************************************************************************)
LEMMA TrumpCard ==
  ASSUME NEW g, GoodGame(g), g.deck # <<>>
  PROVE  LET n == identifyTrumpCard(g)
         IN  /\ GoodGame(n)
             /\ \A c \in Card : InGame(n, c) <=> InGame(g, c)
             /\ n.phase = g.phase /\ n.winner = g.winner /\ n.hand = g.hand /\ n.table = g.table
             /\ n.attacker = g.attacker /\ n.defender = g.defender
             /\ Len(n.deck) = Len(g.deck)
<1> DEFINE n == identifyTrumpCard(g)
           b == deckBack(g)
           rest == deckRest(g.deck)
           last == Len(g.deck)
<1>1. /\ g \in GameType /\ g.deck \in Seq(Card)
      /\ HandsApart(g) /\ DeckApart(g) /\ TableApart(g) /\ Apart(g)
      /\ \A i \in Position : Len(g.table[i]) <= 2
  BY GameFields DEF GoodGame
<1>2. /\ last \in Nat \ {0} /\ b \in Card /\ b = g.deck[last]
      /\ rest \in Seq(Card) /\ Len(rest) = last - 1
      /\ \A i \in 1..(last - 1) : rest[i] = g.deck[i]
  BY <1>1, DeckRest DEF deckBack
<1>3. /\ n.hand = g.hand /\ n.deck = <<b>> \o rest
      /\ n.phase = g.phase /\ n.table = g.table /\ n.winner = g.winner
      /\ n.attacker = g.attacker /\ n.defender = g.defender /\ n.boneyard = g.boneyard
  BY <1>1 DEF identifyTrumpCard, GameType
<1>4. b.suit \in Suit
  BY <1>2 DEF Card
<1> HIDE DEF b, rest, last
<1>5. /\ <<b>> \in Seq(Card) /\ Len(<<b>>) = 1 /\ <<b>>[1] = b
  BY <1>2
<1>6. /\ <<b>> \o rest \in Seq(Card) /\ Len(<<b>> \o rest) = last
      /\ \A i \in 1..last : (<<b>> \o rest)[i] = IF i <= 1 THEN <<b>>[i] ELSE rest[i - 1]
  BY <1>2, <1>5, ConcatProperties
<1>7. n \in GameType
  BY <1>1, <1>4, <1>6 DEF identifyTrumpCard, GameType, b, rest
<1> HIDE DEF n
<1>8. /\ DOMAIN g.deck = 1..last /\ DOMAIN n.deck = 1..last
      /\ n.deck[1] = g.deck[last]
      /\ \A i \in 2..last : n.deck[i] = g.deck[i - 1]
  BY <1>1, <1>2, <1>3, <1>5, <1>6, LenProperties DEF last
<1>9. \A i \in 1..(last - 1) : n.deck[i + 1] = g.deck[i]
  BY <1>2, <1>8
<1>10. \A c \in Card : InDeck(n, c) <=> InDeck(g, c)
  <2> TAKE c \in Card
  <2>1. ASSUME NEW i \in 1..last, n.deck[i] = c
        PROVE  InDeck(g, c)
    <3>1. CASE i = 1
      BY <1>2, <1>8, <2>1, <3>1 DEF InDeck
    <3>2. CASE i # 1
      <4>1. i \in 2..last /\ i - 1 \in 1..last
        BY <1>2, <3>2
      <4> QED  BY <1>8, <2>1, <4>1 DEF InDeck
    <3> QED  BY <3>1, <3>2
  <2>2. ASSUME NEW i \in 1..last, g.deck[i] = c
        PROVE  InDeck(n, c)
    <3>1. CASE i = last
      <4>1. 1 \in 1..last
        BY <1>2
      <4> QED  BY <1>8, <2>2, <3>1, <4>1 DEF InDeck
    <3>2. CASE i # last
      <4>1. i \in 1..(last - 1) /\ i + 1 \in 1..last
        BY <1>2, <3>2
      <4> QED  BY <1>8, <1>9, <2>2, <4>1 DEF InDeck
    <3> QED  BY <3>1, <3>2
  <2> QED  BY <1>8, <2>1, <2>2 DEF InDeck
<1>11. DeckApart(n)
  <2> SUFFICES ASSUME NEW i \in 1..last, NEW j \in 1..last, n.deck[i] = n.deck[j]
               PROVE  i = j
    BY <1>8 DEF DeckApart
  <2>1. \A k \in 1..last : k # 1 => k \in 2..last /\ k - 1 \in 1..last /\ k - 1 # last
    BY <1>2
  <2>2. last \in 1..last
    BY <1>2
  <2>3. \A k, m \in 1..last : g.deck[k] = g.deck[m] => k = m
    BY <1>1, <1>8 DEF DeckApart
  <2>4. i = 1 <=> j = 1
    BY <1>8, <2>1, <2>2, <2>3
  <2>5. i # 1 => i - 1 = j - 1
    BY <1>8, <2>1, <2>3, <2>4
  <2> QED  BY <2>4, <2>5
<1>12. HandsApart(n) /\ TableApart(n) /\ Apart(n)
  BY <1>1, <1>3, <1>10 DEF HandsApart, TableApart, Apart, InHand, OnTable
<1>13. \A c \in Card : InGame(n, c) <=> InGame(g, c)
  BY <1>3, <1>10 DEF InGame, InHand, OnTable
<1>14. GoodGame(n)
  BY <1>1, <1>3, <1>7, <1>11, <1>12 DEF GoodGame
<1>15. Len(n.deck) = Len(g.deck)
  BY <1>3, <1>6 DEF last
<1> QED  BY <1>3, <1>13, <1>14, <1>15 DEF n

-----------------------------------------------------------------------------
(* The table *)

\* How many positions are used and beaten.
LEMMA TableSizes ==
  ASSUME NEW g \in GameType
  PROVE  /\ IsFiniteSet({i \in Position : g.table[i] # <<>>})
         /\ IsFiniteSet({i \in Position : Len(g.table[i]) = 2})
         /\ attackerCardsOnTableSize(g) \in Nat /\ defenderCardsOnTableSize(g) \in Nat
         /\ attackerCardsOnTableSize(g) < MaxTablePositions => attackerCardsOnTableSize(g) \in Position
<1>1. IsFiniteSet(Position)
  BY GameAssumption, FS_Interval DEF Position
<1>2. /\ IsFiniteSet({i \in Position : g.table[i] # <<>>})
      /\ IsFiniteSet({i \in Position : Len(g.table[i]) = 2})
  BY <1>1, FS_Subset
<1>3. attackerCardsOnTableSize(g) \in Nat /\ defenderCardsOnTableSize(g) \in Nat
  BY <1>2, FS_CardinalityType DEF attackerCardsOnTableSize, defenderCardsOnTableSize
<1> QED  BY <1>2, <1>3, GameAssumption DEF Position

withoutCard(g, s, c) == [g EXCEPT !.hand[s] = @ \ {c}]
withCardAt(g, i, c)  == [g EXCEPT !.table[i] = Append(@, c)]

(***************************************************************************)
(* A card that is played leaves its hand, and the game if no position      *)
(* takes it.                                                               *)
(***************************************************************************)
LEMMA PutWithoutRoom ==
  ASSUME NEW g, GoodGame(g), NEW s \in GameSeat, NEW c \in g.hand[s],
         NEW n, n = withoutCard(g, s, c)
  PROVE  /\ GoodGame(n)
         /\ \A o \in Card : InHand(g, o) <=> InHand(n, o) \/ o = c
         /\ c \in Card /\ ~InHand(n, c) /\ ~OnTable(g, c)
         /\ n.phase = g.phase /\ n.winner = g.winner /\ n.deck = g.deck
         /\ n.attacker = g.attacker /\ n.defender = g.defender /\ n.boneyard = g.boneyard
         /\ n.hand[s] = g.hand[s] \ {c} /\ \A o \in GameSeat \ {s} : n.hand[o] = g.hand[o]
         /\ n.table = g.table
<1>1. /\ g \in GameType /\ g.table \in [Position -> Seq(Card)]
      /\ g.hand \in [GameSeat -> SUBSET Card] /\ c \in Card
      /\ HandsApart(g) /\ DeckApart(g) /\ TableApart(g) /\ Apart(g)
      /\ \A k \in Position : Len(g.table[k]) <= 2
  BY GameFields DEF GoodGame
<1>2. /\ n.hand = [g.hand EXCEPT ![s] = @ \ {c}] /\ n.table = g.table
      /\ n.phase = g.phase /\ n.winner = g.winner /\ n.deck = g.deck
      /\ n.attacker = g.attacker /\ n.defender = g.defender /\ n.boneyard = g.boneyard
  BY <1>1 DEF GameType, withoutCard
<1>3. n \in GameType
  <2>1. [g.hand EXCEPT ![s] = @ \ {c}] \in [GameSeat -> SUBSET Card]
    BY <1>1
  <2> QED  BY <1>1, <2>1 DEF GameType, withoutCard
<1>4. ~InHand(n, c) /\ ~OnTable(g, c)
  BY <1>1, <1>2 DEF HandsApart, InHand, Apart
<1>5. \A o \in Card : InHand(g, o) <=> InHand(n, o) \/ o = c
  BY <1>1, <1>2 DEF InHand
<1>6. HandsApart(n)
  BY <1>1, <1>2 DEF HandsApart
<1>7. /\ DeckApart(n) /\ TableApart(n)
  BY <1>1, <1>2 DEF DeckApart, TableApart
<1>8. Apart(n)
  BY <1>1, <1>2, <1>5 DEF Apart, InDeck, OnTable
<1> QED  BY <1>1, <1>2, <1>3, <1>4, <1>5, <1>6, <1>7, <1>8 DEF GoodGame

(***************************************************************************)
(* A card that is played to a position with room for it is on the table,   *)
(* and the cards of the game are the same ones.                            *)
(***************************************************************************)
LEMMA PutWithRoom ==
  ASSUME NEW g, GoodGame(g), NEW s \in GameSeat, NEW c \in g.hand[s],
         NEW i \in Position, Len(g.table[i]) < 2,
         NEW n, n = withCardAt(withoutCard(g, s, c), i, c)
  PROVE  /\ GoodGame(n)
         /\ \A o \in Card : InGame(n, o) <=> InGame(g, o)
         /\ n.phase = g.phase /\ n.winner = g.winner
         /\ n.attacker = g.attacker /\ n.defender = g.defender
         /\ n.hand[s] = g.hand[s] \ {c} /\ \A o \in GameSeat \ {s} : n.hand[o] = g.hand[o]
         /\ n.table[i] = Append(g.table[i], c) /\ \A k \in Position \ {i} : n.table[k] = g.table[k]
<1> DEFINE m == withoutCard(g, s, c)
           l == Len(g.table[i])
<1>1. /\ GoodGame(m)
      /\ \A o \in Card : InHand(g, o) <=> InHand(m, o) \/ o = c
      /\ c \in Card /\ ~InHand(m, c) /\ ~OnTable(g, c)
      /\ m.phase = g.phase /\ m.winner = g.winner /\ m.deck = g.deck
      /\ m.attacker = g.attacker /\ m.defender = g.defender /\ m.boneyard = g.boneyard
      /\ m.hand[s] = g.hand[s] \ {c} /\ \A o \in GameSeat \ {s} : m.hand[o] = g.hand[o]
      /\ m.table = g.table
  BY PutWithoutRoom
<1>2. n = withCardAt(m, i, c)
  OBVIOUS
<1> HIDE DEF m
<1>3. /\ m \in GameType /\ m.table \in [Position -> Seq(Card)]
      /\ HandsApart(m) /\ DeckApart(m) /\ TableApart(m) /\ Apart(m)
      /\ \A k \in Position : Len(m.table[k]) <= 2
  BY <1>1, GameFields DEF GoodGame
<1>4. /\ l \in Nat /\ DOMAIN g.table[i] = 1..l /\ Append(g.table[i], c) \in Seq(Card)
      /\ Len(Append(g.table[i], c)) = l + 1 /\ DOMAIN Append(g.table[i], c) = 1..(l + 1)
      /\ Append(g.table[i], c)[l + 1] = c
      /\ \A j \in 1..l : Append(g.table[i], c)[j] = g.table[i][j]
  BY <1>1, <1>3, LenProperties, AppendProperties
<1>5. /\ n.table = [g.table EXCEPT ![i] = Append(@, c)]
      /\ n.hand = m.hand /\ n.phase = m.phase /\ n.winner = m.winner /\ n.deck = m.deck
      /\ n.attacker = m.attacker /\ n.defender = m.defender /\ n.boneyard = m.boneyard
  BY <1>1, <1>2, <1>3 DEF GameType, withCardAt
<1>6. n \in GameType
  <2> DEFINE x == [m.table EXCEPT ![i] = Append(@, c)]
  <2>1. x \in [Position -> Seq(Card)]
    BY <1>1, <1>3, <1>4
  <2>2. n = [m EXCEPT !.table = x]
    BY <1>2, <1>3 DEF GameType, withCardAt
  <2> HIDE DEF x
  <2> QED  BY <1>3, <2>1, <2>2 DEF GameType
<1>7. n.table[i] = Append(g.table[i], c) /\ \A k \in Position : k # i => n.table[k] = g.table[k]
  BY <1>1, <1>3, <1>5
<1>8. \A k \in Position : Len(n.table[k]) <= 2
  BY <1>1, <1>3, <1>4, <1>7
<1> HIDE DEF l
<1>9. ~InDeck(m, c) /\ c \notin m.boneyard
  BY <1>1, GameFields DEF GoodGame, Apart, InHand, InDeck
<1>10. \A o \in Card : OnTable(n, o) <=> OnTable(g, o) \/ o = c
  <2> TAKE o \in Card
  <2>1. OnTable(n, o) => OnTable(g, o) \/ o = c
    BY <1>4, <1>7 DEF OnTable
  <2>2. OnTable(g, o) => OnTable(n, o)
    BY <1>4, <1>7 DEF OnTable
  <2>3. OnTable(n, c)
    BY <1>4, <1>7 DEF OnTable
  <2> QED  BY <2>1, <2>2, <2>3
<1>11. TableApart(n)
  <2> SUFFICES ASSUME NEW k \in Position, NEW p \in Position,
                      NEW j \in DOMAIN n.table[k], NEW q \in DOMAIN n.table[p],
                      n.table[k][j] = n.table[p][q]
               PROVE  k = p /\ j = q
    BY DEF TableApart
  <2>1. \A a \in Position : \A x \in DOMAIN n.table[a] :
          \/ x \in DOMAIN g.table[a] /\ n.table[a][x] = g.table[a][x] /\ g.table[a][x] # c
          \/ a = i /\ x = l + 1 /\ n.table[a][x] = c
    BY <1>1, <1>4, <1>7 DEF OnTable
  <2> QED  BY <1>1, <1>3, <2>1 DEF TableApart
<1>12. HandsApart(n) /\ DeckApart(n)
  BY <1>3, <1>5 DEF HandsApart, DeckApart
<1>13. \A o \in Card : OnTable(m, o) <=> OnTable(g, o)
  BY <1>1 DEF OnTable
<1>14. Apart(n)
  BY <1>1, <1>3, <1>5, <1>9, <1>10, <1>13 DEF Apart, InDeck, InHand
<1>15. \A o \in Card : InGame(n, o) <=> InGame(g, o)
  BY <1>1, <1>5, <1>10 DEF InGame, InDeck, InHand
<1> QED  BY <1>1, <1>5, <1>6, <1>7, <1>8, <1>11, <1>12, <1>14, <1>15 DEF GoodGame

(***************************************************************************)
(* Clearing the table moves the cards of the positions it empties, however *)
(* many these are, to a hand or to the boneyard.                           *)
(***************************************************************************)
LEMMA ClearedTable ==
  ASSUME NEW g, GoodGame(g)
  PROVE  LET n == clearedTable(g)
         IN  /\ n \in GameType /\ takenFromTable(g) \in SUBSET Card
             /\ \A i \in Position : Len(n.table[i]) <= 2
             /\ TableApart(n)
             /\ \A c \in Card : /\ OnTable(g, c) <=> OnTable(n, c) \/ c \in takenFromTable(g)
                                /\ OnTable(n, c) => c \notin takenFromTable(g)
             /\ n.phase = g.phase /\ n.winner = g.winner /\ n.deck = g.deck /\ n.hand = g.hand
             /\ n.attacker = g.attacker /\ n.defender = g.defender /\ n.boneyard = g.boneyard
<1> DEFINE n == clearedTable(g)
           R == removedPositions(g)
<1>1. /\ g \in GameType /\ g.table \in [Position -> Seq(Card)] /\ TableApart(g)
      /\ \A k \in Position : Len(g.table[k]) <= 2
  BY GameFields DEF GoodGame
<1>2. R \subseteq Position
  BY DEF removedPositions
<1>3. /\ n.table = [i \in Position |-> IF i \in R THEN <<>> ELSE g.table[i]]
      /\ n.phase = g.phase /\ n.winner = g.winner /\ n.deck = g.deck /\ n.hand = g.hand
      /\ n.attacker = g.attacker /\ n.defender = g.defender /\ n.boneyard = g.boneyard
  BY <1>1 DEF clearedTable, GameType
<1>4. n \in GameType
  <2>1. [i \in Position |-> IF i \in R THEN <<>> ELSE g.table[i]] \in [Position -> Seq(Card)]
    BY <1>1
  <2> QED  BY <1>1, <2>1 DEF clearedTable, GameType
<1> HIDE DEF n, R
<1>5. \A i \in Position : /\ i \in R => n.table[i] = <<>> /\ DOMAIN n.table[i] = {} /\ Len(n.table[i]) = 0
                          /\ i \notin R => n.table[i] = g.table[i]
  BY <1>3
<1>6. \A i \in Position : Len(n.table[i]) <= 2
  BY <1>1, <1>5
<1>7. TableApart(n)
  BY <1>1, <1>5 DEF TableApart
<1>8. \A c : c \in takenFromTable(g) <=> \E i \in R : \E j \in DOMAIN g.table[i] : g.table[i][j] = c
  BY DEF takenFromTable, cardsAt, R
<1>9. takenFromTable(g) \in SUBSET Card
  <2>1. ASSUME NEW i \in R, NEW j \in DOMAIN g.table[i]
        PROVE  g.table[i][j] \in Card
    BY <1>1, <1>2, ElementOfSeq, LenProperties
  <2> QED  BY <1>8, <2>1
<1>10. ASSUME NEW c \in Card
       PROVE  /\ OnTable(g, c) <=> OnTable(n, c) \/ c \in takenFromTable(g)
              /\ OnTable(n, c) => c \notin takenFromTable(g)
  <2>1. OnTable(n, c) <=> \E i \in Position \ R : \E j \in DOMAIN g.table[i] : g.table[i][j] = c
    BY <1>5 DEF OnTable
  <2>2. OnTable(g, c) <=> OnTable(n, c) \/ c \in takenFromTable(g)
    BY <1>2, <1>8, <2>1 DEF OnTable
  <2>3. OnTable(n, c) => c \notin takenFromTable(g)
    BY <1>1, <1>2, <1>8, <2>1 DEF TableApart
  <2> QED  BY <2>2, <2>3
<1> QED  BY <1>3, <1>4, <1>6, <1>7, <1>9, <1>10 DEF n

\* The defender takes the cards of the table.
LEMMA TableToHand ==
  ASSUME NEW g, GoodGame(g), NEW s \in GameSeat
  PROVE  LET n == moveTableCardsToHand(g, s)
         IN  /\ GoodGame(n)
             /\ \A c \in Card : InGame(n, c) <=> InGame(g, c)
             /\ n.phase = g.phase /\ n.winner = g.winner
             /\ n.attacker = g.attacker /\ n.defender = g.defender
<1> DEFINE n == moveTableCardsToHand(g, s)
           m == clearedTable(g)
           K == takenFromTable(g)
<1>1. /\ m \in GameType /\ K \in SUBSET Card
      /\ \A i \in Position : Len(m.table[i]) <= 2
      /\ TableApart(m)
      /\ \A c \in Card : /\ OnTable(g, c) <=> OnTable(m, c) \/ c \in K
                         /\ OnTable(m, c) => c \notin K
      /\ m.phase = g.phase /\ m.winner = g.winner /\ m.deck = g.deck /\ m.hand = g.hand
      /\ m.attacker = g.attacker /\ m.defender = g.defender /\ m.boneyard = g.boneyard
  BY ClearedTable
<1>2. HandsApart(g) /\ DeckApart(g) /\ Apart(g) /\ g.hand \in [GameSeat -> SUBSET Card]
  BY GameFields DEF GoodGame
<1> HIDE DEF m, K
<1>3. n = [m EXCEPT !.hand[s] = @ \cup K]
  BY DEF moveTableCardsToHand, m, K
<1> HIDE DEF n
<1>4. /\ n.hand = [g.hand EXCEPT ![s] = @ \cup K]
      /\ n.phase = g.phase /\ n.winner = g.winner /\ n.deck = g.deck /\ n.table = m.table
      /\ n.attacker = g.attacker /\ n.defender = g.defender /\ n.boneyard = g.boneyard
  BY <1>1, <1>3 DEF GameType
<1>5. n \in GameType
  <2>1. [g.hand EXCEPT ![s] = @ \cup K] \in [GameSeat -> SUBSET Card]
    BY <1>1, <1>2
  <2> QED  BY <1>1, <1>3, <2>1 DEF GameType
<1>6. \A c \in Card : /\ InHand(n, c) <=> InHand(g, c) \/ c \in K
                      /\ InDeck(n, c) <=> InDeck(g, c)
                      /\ OnTable(n, c) <=> OnTable(m, c)
  BY <1>2, <1>4 DEF InHand, InDeck, OnTable
<1>7. \A c \in Card : c \in K => ~InHand(g, c)
  BY <1>1, <1>2 DEF Apart
<1>8. HandsApart(n)
  BY <1>2, <1>4, <1>7 DEF HandsApart, InHand
<1>9. DeckApart(n) /\ TableApart(n)
  BY <1>1, <1>2, <1>4 DEF DeckApart, TableApart
<1>10. Apart(n)
  BY <1>1, <1>2, <1>4, <1>6 DEF Apart
<1>11. \A c \in Card : InGame(n, c) <=> InGame(g, c)
  BY <1>1, <1>4, <1>6 DEF InGame
<1>12. GoodGame(n)
  BY <1>1, <1>4, <1>5, <1>8, <1>9, <1>10 DEF GoodGame
<1> QED  BY <1>4, <1>11, <1>12 DEF n

\* The cards of the table go to the boneyard.
LEMMA TableToBoneyard ==
  ASSUME NEW g, GoodGame(g)
  PROVE  LET n == moveTableCardsToBoneyard(g)
         IN  /\ GoodGame(n)
             /\ \A c \in Card : InGame(n, c) <=> InGame(g, c)
             /\ n.phase = g.phase /\ n.winner = g.winner
             /\ n.attacker = g.attacker /\ n.defender = g.defender
<1> DEFINE n == moveTableCardsToBoneyard(g)
           m == clearedTable(g)
           K == takenFromTable(g)
<1>1. /\ m \in GameType /\ K \in SUBSET Card
      /\ \A i \in Position : Len(m.table[i]) <= 2
      /\ TableApart(m)
      /\ \A c \in Card : /\ OnTable(g, c) <=> OnTable(m, c) \/ c \in K
                         /\ OnTable(m, c) => c \notin K
      /\ m.phase = g.phase /\ m.winner = g.winner /\ m.deck = g.deck /\ m.hand = g.hand
      /\ m.attacker = g.attacker /\ m.defender = g.defender /\ m.boneyard = g.boneyard
  BY ClearedTable
<1>2. HandsApart(g) /\ DeckApart(g) /\ Apart(g) /\ g.boneyard \in SUBSET Card
  BY GameFields DEF GoodGame
<1> HIDE DEF m, K
<1>3. n = [m EXCEPT !.boneyard = @ \cup K]
  BY DEF moveTableCardsToBoneyard, m, K
<1> HIDE DEF n
<1>4. /\ n.boneyard = g.boneyard \cup K /\ n.hand = g.hand
      /\ n.phase = g.phase /\ n.winner = g.winner /\ n.deck = g.deck /\ n.table = m.table
      /\ n.attacker = g.attacker /\ n.defender = g.defender
  BY <1>1, <1>3 DEF GameType
<1>5. n \in GameType
  BY <1>1, <1>3 DEF GameType
<1>6. \A c \in Card : /\ InHand(n, c) <=> InHand(g, c)
                      /\ InDeck(n, c) <=> InDeck(g, c)
                      /\ OnTable(n, c) <=> OnTable(m, c)
  BY <1>4 DEF InHand, InDeck, OnTable
<1>7. HandsApart(n) /\ DeckApart(n) /\ TableApart(n)
  BY <1>1, <1>2, <1>4 DEF HandsApart, DeckApart, TableApart
<1>8. Apart(n)
  BY <1>1, <1>2, <1>4, <1>6 DEF Apart
<1>9. \A c \in Card : InGame(n, c) <=> InGame(g, c)
  BY <1>1, <1>4, <1>6 DEF InGame
<1>10. GoodGame(n)
  BY <1>1, <1>4, <1>5, <1>7, <1>8 DEF GoodGame
<1> QED  BY <1>4, <1>9, <1>10 DEF n

-----------------------------------------------------------------------------
(***************************************************************************)
(* Winners.  Every winner is in the list, and there is a loser before the  *)
(* list has all but one of the players.                                    *)
(***************************************************************************)

Standing(a) ==
  /\ a.won \in [GameSeat -> BOOLEAN] /\ a.list \in Seq(GameSeat) /\ a.loser \in SeatOrNone
  /\ \A s \in GameSeat : a.won[s] => \E k \in DOMAIN a.list : a.list[k] = s
  /\ a.loser = NoSeat => Len(a.list) < Players - 1

\* The winners are not more than the list is long, although the list may repeat.
LEMMA FewWinners ==
  ASSUME NEW won \in [GameSeat -> BOOLEAN], NEW list \in Seq(GameSeat),
         \A s \in GameSeat : won[s] => \E k \in DOMAIN list : list[k] = s
  PROVE  /\ Len(list) < Players => \E o \in GameSeat : ~won[o]
         /\ Len(list) < Players - 1 => \A a \in GameSeat : \E o \in GameSeat : o # a /\ ~won[o]
<1> DEFINE W == {s \in GameSeat : won[s]}
           Listed == {s \in GameSeat : \E k \in DOMAIN list : list[k] = s}
<1>1. Len(list) \in Nat /\ DOMAIN list = 1..Len(list) /\ list \in [1..Len(list) -> GameSeat]
  BY LenProperties
<1>2. list \in Surjection(1..Len(list), Listed)
  <2>1. \A k \in 1..Len(list) : list[k] \in Listed
    BY <1>1
  <2>2. list \in [1..Len(list) -> Listed]
    BY <1>1, <2>1
  <2>3. \A s \in Listed : \E k \in 1..Len(list) : list[k] = s
    BY <1>1
  <2> HIDE DEF Listed
  <2> QED  BY <2>2, <2>3, Fun_IsSurj
<1>3. IsFiniteSet(1..Len(list)) /\ Cardinality(1..Len(list)) = Len(list)
  BY <1>1, FS_Interval
<1>4. IsFiniteSet(Listed) /\ Cardinality(Listed) <= Len(list) /\ Cardinality(Listed) \in Nat
  <2> HIDE DEF Listed
  <2> QED  BY <1>2, <1>3, FS_Surjection, FS_CardinalityType
<1>5. W \subseteq Listed
  OBVIOUS
<1> HIDE DEF Listed
<1>6. IsFiniteSet(W) /\ Cardinality(W) <= Len(list) /\ Cardinality(W) \in Nat
  <2> HIDE DEF W
  <2> QED  BY <1>1, <1>4, <1>5, FS_Subset, FS_CardinalityType
<1>7. ASSUME \A o \in GameSeat : won[o]
      PROVE  Players <= Len(list)
  <2>1. W = GameSeat
    BY <1>7
  <2> QED  BY <1>6, <2>1, Seats
<1>8. ASSUME NEW a \in GameSeat, \A o \in GameSeat : o # a => won[o]
      PROVE  Players - 1 <= Len(list)
  <2>1. GameSeat \ {a} \subseteq W
    BY <1>8
  <2>2. /\ IsFiniteSet(GameSeat \ {a}) /\ Cardinality(GameSeat \ {a}) = Players - 1
    BY Seats, FS_RemoveElement
  <2>3. Cardinality(GameSeat \ {a}) <= Cardinality(W)
    <3> HIDE DEF W
    <3> QED  BY <1>6, <2>1, FS_Subset
  <2> QED  BY <1>1, <1>6, <2>2, <2>3, Seats
<1> QED  BY <1>1, <1>7, <1>8, Seats

\* One turn of the loop keeps the standing.
LEMMA AwardStanding ==
  ASSUME NEW a, Standing(a), NEW s \in GameSeat
  PROVE  Standing(award(a, s))
<1> DEFINE won == [a.won EXCEPT ![s] = TRUE]
           list == Append(a.list, s)
           last == {o \in GameSeat : ~won[o]}
           loser == IF Len(list) = Players - 1
                      THEN CHOOSE o \in last : \A q \in last : o <= q
                      ELSE a.loser
<1>1. CASE game.hand[s] # {}
  BY <1>1 DEF award
<1>2. CASE game.hand[s] = {}
  <2>1. award(a, s).won = won /\ award(a, s).list = list /\ award(a, s).loser = loser
    BY <1>2 DEF award
  <2>2. a.won \in [GameSeat -> BOOLEAN] /\ a.list \in Seq(GameSeat)
    BY DEF Standing
  <2>3. /\ Len(a.list) \in Nat /\ DOMAIN a.list = 1..Len(a.list)
        /\ list \in Seq(GameSeat) /\ Len(list) = Len(a.list) + 1
        /\ DOMAIN list = 1..(Len(a.list) + 1) /\ list[Len(a.list) + 1] = s
        /\ \A k \in 1..Len(a.list) : list[k] = a.list[k]
    BY <2>2, LenProperties, AppendProperties
  <2>4. won \in [GameSeat -> BOOLEAN]
    BY <2>2
  <2>5. ASSUME NEW o \in GameSeat, won[o]
        PROVE  \E k \in DOMAIN list : list[k] = o
    <3>1. CASE o = s
      BY <2>3, <3>1
    <3>2. CASE o # s
      <4>1. a.won[o]
        BY <2>2, <2>5, <3>2
      <4>2. PICK k \in DOMAIN a.list : a.list[k] = o
        BY <4>1 DEF Standing
      <4> QED  BY <2>3, <4>2
    <3> QED  BY <3>1, <3>2
  <2>6. CASE Len(list) = Players - 1
    <3>1. Len(list) < Players
      BY <2>6, Seats
    <3> HIDE DEF won, list
    <3>2. \E o \in GameSeat : ~won[o]
      BY <2>3, <2>4, <2>5, <3>1, FewWinners
    <3>3. last \in SUBSET Nat /\ last # {}
      BY <3>2 DEF GameSeat
    <3> HIDE DEF last
    <3>4. \E o \in last : \A q \in last : o <= q
      BY <3>3, SmallestOf
    <3>5. loser \in last
      BY <2>6, <3>4
    <3>6. loser \in GameSeat
      BY <3>5 DEF last
    <3>7. loser \in SeatOrNone /\ loser # NoSeat
      BY <3>6, Seats DEF SeatOrNone
    <3> HIDE DEF loser
    <3> QED  BY <2>1, <2>3, <2>4, <2>5, <3>7 DEF Standing
  <2>7. CASE Len(list) # Players - 1
    <3>1. loser = a.loser
      BY <2>7
    <3>2. a.loser \in SeatOrNone /\ (a.loser = NoSeat => Len(a.list) < Players - 1)
      BY DEF Standing
    <3> HIDE DEF won, list, loser
    <3>3. loser = NoSeat => Len(list) < Players - 1
      BY <2>3, <2>7, <3>1, <3>2, Seats
    <3> QED  BY <2>1, <2>3, <2>4, <2>5, <3>1, <3>2, <3>3 DEF Standing
  <2> QED  BY <2>6, <2>7
<1> QED  BY <1>1, <1>2

\* The loop over the candidates ends, and with a standing if it begins with one.
LEMMA AwardsStanding ==
  ASSUME NEW first, first = [won |-> game.winner, list |-> rules.winners, loser |-> rules.loser],
         Standing(first), rules.candidates \in Seq(GameSeat)
  PROVE  Standing(awards)
<1> DEFINE n == Len(rules.candidates)
           turn(f, i) == IF i = 0 THEN first ELSE award(f[i - 1], rules.candidates[i])
           Turns(f, k) == f = [i \in 0..k |-> turn(f, i)]
<1>1. n \in Nat /\ \A i \in 1..n : rules.candidates[i] \in GameSeat
  BY LenProperties, ElementOfSeq
<1> HIDE DEF n
<1>2. \A k \in 0..n : \E f : Turns(f, k)
  <2> DEFINE Without == {k \in 0..n : ~\E f : Turns(f, k)}
  <2> SUFFICES ASSUME Without # {} PROVE FALSE
    OBVIOUS
  <2>1. Without \in SUBSET Nat
    BY <1>1
  <2> HIDE DEF Without
  <2>2. PICK k \in Without : \A j \in Without : k <= j
    BY <2>1, SmallestOf
  <2>3. k \in 0..n /\ ~\E f : Turns(f, k)
    BY <2>2 DEF Without
  <2>4. k # 0
    <3>1. Turns([i \in 0..0 |-> first], 0)
      OBVIOUS
    <3> QED  BY <2>3, <3>1
  <2>5. k - 1 \in 0..n /\ k - 1 \notin Without
    BY <1>1, <2>1, <2>2, <2>3, <2>4
  <2>6. PICK f : Turns(f, k - 1)
    BY <2>5 DEF Without
  <2> DEFINE h == [i \in 0..k |-> IF i = k THEN award(f[k - 1], rules.candidates[k]) ELSE f[i]]
  <2>7. \A i \in 0..(k - 1) : h[i] = f[i]
    BY <1>1, <2>3
  <2>8. \A i \in 0..(k - 1) : f[i] = turn(f, i)
    BY <2>6
  <2>9. ASSUME NEW i \in 0..k
        PROVE  h[i] = turn(h, i)
    <3>1. CASE i = k
      <4>1. h[i] = award(f[k - 1], rules.candidates[k])
        BY <3>1
      <4>2. h[k - 1] = f[k - 1]
        BY <1>1, <2>3, <2>4, <2>7
      <4> HIDE DEF h
      <4> QED  BY <2>4, <3>1, <4>1, <4>2
    <3>2. CASE i # k /\ i # 0
      <4>1. i \in 0..(k - 1) /\ i - 1 \in 0..(k - 1)
        BY <1>1, <2>3, <3>2
      <4> HIDE DEF h
      <4> QED  BY <2>7, <2>8, <3>2, <4>1
    <3>3. CASE i # k /\ i = 0
      <4>1. i \in 0..(k - 1)
        BY <1>1, <2>3, <3>3
      <4> HIDE DEF h
      <4> QED  BY <2>7, <2>8, <3>3, <4>1
    <3> QED  BY <3>1, <3>2, <3>3
  <2>10. h = [i \in 0..k |-> turn(h, i)]
    <3>1. h = [i \in 0..k |-> h[i]]
      OBVIOUS
    <3> HIDE DEF h
    <3> QED  BY <2>9, <3>1
  <2> HIDE DEF h
  <2> QED  BY <2>3, <2>10
<1>3. Turns(awardsAfter, n)
  <2>1. awardsAfter = CHOOSE f : Turns(f, n)
    BY DEF awardsAfter, n
  <2>2. \E f : Turns(f, n)
    BY <1>1, <1>2
  <2> HIDE DEF Turns
  <2> QED  BY <2>1, <2>2
<1>4. \A i \in 0..n : awardsAfter[i] = turn(awardsAfter, i)
  BY <1>3
<1> HIDE DEF Turns
<1>5. \A i \in 0..n : Standing(awardsAfter[i])
  <2> DEFINE Bad == {i \in 0..n : ~Standing(awardsAfter[i])}
  <2> SUFFICES ASSUME Bad # {} PROVE FALSE
    OBVIOUS
  <2>1. Bad \in SUBSET Nat
    BY <1>1
  <2> HIDE DEF Bad
  <2>2. PICK i \in Bad : \A j \in Bad : i <= j
    BY <2>1, SmallestOf
  <2>3. i \in 0..n /\ ~Standing(awardsAfter[i])
    BY <2>2 DEF Bad
  <2>4. i # 0
    BY <1>4, <2>3
  <2>5. i - 1 \in 0..n /\ i \in 1..n /\ i - 1 \notin Bad
    BY <1>1, <2>1, <2>2, <2>3, <2>4
  <2>6. Standing(awardsAfter[i - 1])
    BY <2>5 DEF Bad
  <2>7. awardsAfter[i] = award(awardsAfter[i - 1], rules.candidates[i])
    BY <1>4, <2>3, <2>4
  <2>8. Standing(award(awardsAfter[i - 1], rules.candidates[i]))
    BY <1>1, <2>5, <2>6, AwardStanding
  <2> QED  BY <2>3, <2>7, <2>8
<1> QED  BY <1>1, <1>5 DEF awards, n

-----------------------------------------------------------------------------
(***************************************************************************)
(* The search for the next roles: it finds the first player from a seat    *)
(* on who is still in the game.                                            *)
(***************************************************************************)
LEMMA StillPlaying ==
  ASSUME NEW s \in GameSeat, NEW p \in GameSeat, ~game.winner[p]
  PROVE  \E k \in GameSeat :
           /\ stillPlaying(s) = (s + k) % Players
           /\ ~game.winner[(s + k) % Players]
           /\ \A j \in 0..(k - 1) : game.winner[(s + j) % Players]
<1> DEFINE found(k) == /\ ~game.winner[(s + k) % Players]
                       /\ \A j \in 0..(k - 1) : game.winner[(s + j) % Players]
           K == {k \in GameSeat : ~game.winner[(s + k) % Players]}
<1>1. \E k \in GameSeat : (s + k) % Players = p
  BY SeatAhead
<1>2. K \in SUBSET Nat /\ K # {}
  BY <1>1 DEF GameSeat
<1> HIDE DEF K
<1>3. PICK k \in K : \A j \in K : k <= j
  BY <1>2, SmallestOf
<1>4. k \in GameSeat /\ ~game.winner[(s + k) % Players]
  BY <1>3 DEF K
<1>5. \A j \in 0..(k - 1) : j \in GameSeat /\ j \notin K
  BY <1>3, <1>4, Seats DEF GameSeat
<1>6. found(k)
  BY <1>4, <1>5 DEF K
<1> DEFINE n == CHOOSE m \in GameSeat : found(m)
<1>7. stillPlaying(s) = (s + n) % Players
  BY DEF stillPlaying
<1> HIDE DEF found
<1>8. n \in GameSeat /\ found(n)
  BY <1>4, <1>6
<1> HIDE DEF n
<1> QED  BY <1>7, <1>8 DEF found

\* The roles of the next bout, when two players at least have not won.
LEMMA NextRoles ==
  ASSUME game.defender \in GameSeat,
         \A a \in GameSeat : \E o \in GameSeat : o # a /\ ~game.winner[o]
  PROVE  /\ nextAttacker \in GameSeat /\ nextDefender \in GameSeat
         /\ nextAttacker # nextDefender
         /\ ~game.winner[nextAttacker] /\ ~game.winner[nextDefender]
<1> DEFINE from == IF rules.defended THEN game.defender ELSE after(game.defender)
           a == nextAttacker
<1>1. from \in GameSeat
  BY Seats
<1> HIDE DEF from
<1>2. PICK p \in GameSeat : ~game.winner[p]
  BY Seats
<1>3. PICK k \in GameSeat : /\ stillPlaying(from) = (from + k) % Players
                            /\ ~game.winner[(from + k) % Players]
  BY <1>1, <1>2, StillPlaying
<1>4. \A s, m \in GameSeat : (s + m) % Players \in GameSeat
  BY SeatSum, Seats DEF GameSeat
<1>5. a \in GameSeat /\ ~game.winner[a]
  BY <1>1, <1>3, <1>4 DEF nextAttacker, from
<1> HIDE DEF a
<1>6. PICK o \in GameSeat : o # a /\ ~game.winner[o]
  BY <1>5
<1>7. after(a) \in GameSeat
  BY <1>5, Seats
<1>8. PICK m \in GameSeat : /\ stillPlaying(after(a)) = (after(a) + m) % Players
                            /\ ~game.winner[(after(a) + m) % Players]
                            /\ \A j \in 0..(m - 1) : game.winner[(after(a) + j) % Players]
  BY <1>6, <1>7, StillPlaying
<1>9. (after(a) + m) % Players # a
  <2> SUFFICES ASSUME (after(a) + m) % Players = a
               PROVE  FALSE
    OBVIOUS
  <2>1. m = Players - 1
    <3>1. Players - 1 \in GameSeat
      BY Seats DEF GameSeat
    <3> QED  BY <1>5, <1>7, <3>1, SeatAhead, SeatBehind
  <2>2. PICK j \in GameSeat : (after(a) + j) % Players = o
    BY <1>7, SeatAhead
  <2>3. j # m
    BY <1>6, <2>2
  <2>4. j \in 0..(m - 1)
    BY <2>1, <2>3, Seats DEF GameSeat
  <2> QED  BY <1>6, <1>8, <2>2, <2>4
<1> QED  BY <1>4, <1>5, <1>7, <1>8, <1>9 DEF nextDefender, a

-----------------------------------------------------------------------------
(* The invariant *)

\* A change of phase is prepared once the game is on.
Changes ==
  rules.changing =>
    /\ game.phase # "StartingGame"
    /\ rules.newPhase \in {"MainPlayerMove", "EveryPlayerMove", "RefillPhase"}

\* When the roles are known, and when they are those of the bout to be played.
RolesKnown == game.phase # "StartingGame" \/ rules.firstMoveFound
RolesCount ==
  \/ MovePhase
  \/ game.phase = "RefillPhase" /\ rules.changing
  \/ game.phase = "StartingGame" /\ rules.firstMoveFound

Roles ==
  /\ RolesKnown => game.attacker \in GameSeat /\ game.defender \in GameSeat
  /\ RolesCount =>
       /\ game.attacker # game.defender
       /\ ~game.winner[game.attacker] /\ ~game.winner[game.defender]

standing == [won |-> game.winner, list |-> rules.winners, loser |-> rules.loser]

Winners ==
  /\ Standing(standing)
  /\ game.phase = "StartingGame" => rules.winners = <<>> /\ rules.loser = NoSeat

(***************************************************************************)
(* Until the trump is shown the cards are dealt in rounds: q rounds are    *)
(* complete, and the seats before the next one have a card more.  So the   *)
(* deck has not run out when its last card is to name the trump.           *)
(***************************************************************************)
Dealing ==
  game.phase = "StartingGame" /\ ~rules.trumpShown =>
    /\ rules.maxCards = TotalCardsInHands /\ ~rules.firstMoveFound
    /\ \E d \in Deck, q \in 0..TotalCardsInHands :
         /\ \A s \in GameSeat :
              Cardinality(game.hand[s]) = IF s < rules.dealSeat THEN q + 1 ELSE q
         /\ Len(game.deck) = Len(d) - (Players * q + rules.dealSeat)
         /\ q = TotalCardsInHands => rules.dealSeat = 0

IInv ==
  /\ rules \in RulesType
  /\ GoodGame(game)
  /\ Changes /\ Roles /\ Winners /\ Dealing

KeepsCards == \A c \in Card : InGame(game', c) <=> InGame(game, c)

\* The fields of the rules have their types.
LEMMA RulesFields ==
  ASSUME rules \in RulesType
  PROVE  /\ rules.maxCards \in Nat /\ rules.dealSeat \in GameSeat
         /\ rules.attackersOrder \in Seq(GameSeat) /\ rules.candidates \in Seq(GameSeat)
         /\ rules.winners \in Seq(GameSeat) /\ rules.loser \in SeatOrNone
         /\ rules.awarded \in Nat /\ rules.bouts \in Nat
         /\ rules.newPhase \in PhaseOrNone
BY DEF RulesType

(***************************************************************************)
(* A step that leaves the cards and the winners alone, and, as long as the *)
(* trump is not shown, also what counts for dealing.                       *)
(***************************************************************************)
LEMMA KeptGame ==
  ASSUME IInv, game' \in GameType,
         game'.hand = game.hand, game'.deck = game.deck,
         game'.table = game.table, game'.boneyard = game.boneyard,
         game'.winner = game.winner,
         rules'.winners = rules.winners, rules'.loser = rules.loser,
         game'.phase = "StartingGame" => game.phase = "StartingGame",
         game'.phase = "StartingGame" /\ ~rules'.trumpShown =>
           /\ ~rules.trumpShown /\ rules'.maxCards = rules.maxCards
           /\ rules'.dealSeat = rules.dealSeat /\ rules'.firstMoveFound = rules.firstMoveFound
  PROVE  GoodGame(game') /\ KeepsCards /\ Winners' /\ Dealing'
<1>1. GoodGame(game') /\ KeepsCards
  BY SameCards DEF IInv, KeepsCards
<1>2. Winners'
  BY DEF IInv, Winners, standing
<1>3. Dealing'
  BY DEF IInv, Dealing
<1> QED  BY <1>1, <1>2, <1>3

\* A game keeps its type with another phase, other passes or other roles.
LEMMA GameFlow ==
  ASSUME NEW g \in GameType, NEW p \in Phase, NEW x \in [GameSeat -> BOOLEAN],
         NEW a \in GameSeat, NEW d \in GameSeat
  PROVE  /\ [g EXCEPT !.phase = p] \in GameType
         /\ [g EXCEPT !.pass = x] \in GameType
         /\ withRoles(g, a, d) \in GameType
         /\ [withRoles(g, a, d) EXCEPT !.pass = x] \in GameType
BY DEF GameType, withRoles, SeatOrNone

-----------------------------------------------------------------------------
(* The invariant holds at the beginning *)

\* The first state, with the deck as it is given, satisfies the invariant.
LEMMA InitIInv == Init => IInv
<1> SUFFICES ASSUME Init PROVE IInv
  OBVIOUS
<1>1. PICK d \in Deck : game = initialGame(d)
  BY DEF Init
<1>2. rules = initialRules
  BY DEF Init
<1>3. /\ d \in Seq(Card) /\ Len(d) > Players * TotalCardsInHands
  BY DeckAssumption
<1>4. GoodGame(game)
  BY <1>1, InitialGoodGame
<1>5. rules \in RulesType
  BY <1>2, Seats, GameAssumption, EmptySeq DEF initialRules, RulesType, PhaseOrNone, SeatOrNone
<1>6. /\ game.phase = "StartingGame" /\ game.deck = d /\ game.winner = [s \in GameSeat |-> FALSE]
      /\ game.hand = [s \in GameSeat |-> {}]
  BY <1>1 DEF initialGame
<1>7. /\ rules.maxCards = TotalCardsInHands /\ rules.dealSeat = 0 /\ ~rules.changing
      /\ ~rules.trumpShown /\ ~rules.firstMoveFound
      /\ rules.winners = <<>> /\ rules.loser = NoSeat
  BY <1>2 DEF initialRules
<1>8. Changes /\ Roles
  BY <1>6, <1>7 DEF Changes, Roles, RolesKnown, RolesCount, MovePhase
<1>9. Winners
  <2>1. Len(<<>>) < Players - 1 /\ <<>> \in Seq(GameSeat)
    BY Seats, EmptySeq
  <2> QED  BY <1>6, <1>7, <2>1 DEF Winners, Standing, standing, SeatOrNone
<1>10. Dealing
  <2>1. \A s \in GameSeat : Cardinality(game.hand[s]) = 0 /\ ~(s < rules.dealSeat)
    BY <1>6, <1>7, FS_EmptySet, Seats DEF GameSeat
  <2>2. 0 \in 0..TotalCardsInHands
    BY GameAssumption
  <2>3. Len(game.deck) = Len(d) - (Players * 0 + rules.dealSeat)
    BY <1>3, <1>6, <1>7, LenProperties, Seats
  <2> QED  BY <1>6, <1>7, <2>1, <2>2, <2>3 DEF Dealing
<1> QED  BY <1>4, <1>5, <1>8, <1>9, <1>10 DEF IInv

-----------------------------------------------------------------------------
(* The steps of the start *)

\* The prepared phase begins: its roles count already.
LEMMA SetNewPhaseStep ==
  ASSUME IInv, NEW t \in Elapsed, SetNewPhase(t)
  PROVE  IInv' /\ KeepsCards
<1>1. /\ game.phase # "StartingGame" /\ game \in GameType
      /\ rules.newPhase \in {"MainPlayerMove", "EveryPlayerMove", "RefillPhase"}
  BY DEF SetNewPhase, IInv, Changes, GoodGame
<1>2. /\ game' = [game EXCEPT !.phase = rules.newPhase]
      /\ rules' = [rules EXCEPT !.changing = FALSE]
  BY DEF SetNewPhase
<1>3. game' \in GameType
  BY <1>1, <1>2, GameFlow DEF Phase, GameType
<1>4. /\ game'.phase = rules.newPhase /\ game'.hand = game.hand /\ game'.deck = game.deck
      /\ game'.table = game.table /\ game'.boneyard = game.boneyard /\ game'.winner = game.winner
      /\ game'.attacker = game.attacker /\ game'.defender = game.defender
  BY <1>1, <1>2 DEF GameType
<1>5. /\ rules' \in RulesType /\ ~rules'.changing
      /\ rules'.winners = rules.winners /\ rules'.loser = rules.loser
  BY <1>2 DEF IInv, RulesType
<1>6. GoodGame(game') /\ KeepsCards /\ Winners' /\ Dealing'
  BY <1>1, <1>3, <1>4, <1>5, KeptGame
<1>7. Roles'
  <2>1. game.phase \in Phase /\ rules.changing
    BY <1>1 DEF GameType, SetNewPhase
  <2>2. RolesKnown /\ RolesCount
    BY <1>1, <2>1 DEF RolesKnown, RolesCount, Phase, MovePhase
  <2> QED  BY <1>4, <2>2 DEF IInv, Roles
<1>8. Changes'
  BY <1>5 DEF Changes
<1> QED  BY <1>5, <1>6, <1>7, <1>8 DEF IInv

\* The rounds that are dealt never need more cards than full hands do.
LEMMA Rounds ==
  ASSUME NEW q \in 0..TotalCardsInHands, NEW s \in GameSeat, q = TotalCardsInHands => s = 0
  PROVE  /\ Players * q + s <= Players * TotalCardsInHands
         /\ Players * q \in Nat /\ Players * (q + 1) = Players * q + Players
         /\ Players * TotalCardsInHands \in Nat
<1>1. /\ Players \in Nat /\ TotalCardsInHands \in Nat /\ q \in Nat /\ q <= TotalCardsInHands
      /\ s \in Nat /\ s < Players
  BY GameAssumption, Seats DEF GameSeat
<1>2. \A a, b, c \in Nat : a * (b + c) = a * b + a * c /\ a * b \in Nat
  BY SMT
<1>3. CASE q = TotalCardsInHands
  BY <1>1, <1>2, <1>3
<1>4. CASE q < TotalCardsInHands
  <2>1. TotalCardsInHands = q + (1 + (TotalCardsInHands - q - 1)) /\ TotalCardsInHands - q - 1 \in Nat
    BY <1>1, <1>4
  <2> DEFINE r == TotalCardsInHands - q - 1
  <2>2. TotalCardsInHands = q + (1 + r) /\ r \in Nat
    BY <2>1
  <2> HIDE DEF r
  <2>3. /\ Players * (q + (1 + r)) = Players * q + Players * (1 + r)
        /\ Players * (1 + r) = Players * 1 + Players * r
        /\ Players * q \in Nat /\ Players * r \in Nat /\ Players * (q + 1) = Players * q + Players * 1
    BY <1>1, <1>2, <2>2
  <2>4. Players * 1 = Players
    BY <1>1
  <2> QED  BY <1>1, <1>2, <2>2, <2>3, <2>4
<1> QED  BY <1>1, <1>3, <1>4

\* A card is dealt; the last seat of a round completes it.
LEMMA DealAtStartStep ==
  ASSUME IInv, NEW t \in Elapsed, DealAtStart(t)
  PROVE  IInv' /\ KeepsCards
<1> DEFINE s == rules.dealSeat
<1>1. /\ game.phase = "StartingGame" /\ needToDeal /\ game.deck # <<>>
      /\ game' = dealOneCard(game, s) /\ rules' = [rules EXCEPT !.dealSeat = after(@)]
  BY DEF DealAtStart, needToDeal
<1>2. GoodGame(game) /\ rules \in RulesType /\ s \in GameSeat
  BY RulesFields DEF IInv
<1>3. rules' \in RulesType
  BY <1>1, <1>2, Seats DEF RulesType
<1>4. /\ rules'.dealSeat = after(s) /\ rules'.maxCards = rules.maxCards
      /\ rules'.trumpShown = rules.trumpShown /\ rules'.firstMoveFound = rules.firstMoveFound
      /\ rules'.changing = rules.changing /\ rules'.newPhase = rules.newPhase
      /\ rules'.winners = rules.winners /\ rules'.loser = rules.loser
  BY <1>1, <1>2 DEF RulesType
<1> HIDE DEF s
<1>5. /\ GoodGame(game')
      /\ \A c \in Card : InGame(game', c) <=> InGame(game, c)
      /\ game'.phase = game.phase /\ game'.table = game.table /\ game'.winner = game.winner
      /\ game'.attacker = game.attacker /\ game'.defender = game.defender
      /\ Len(game'.deck) = Len(game.deck) - 1
      /\ \A o \in GameSeat :
           Cardinality(game'.hand[o]) = Cardinality(game.hand[o]) + (IF o = s THEN 1 ELSE 0)
  BY <1>1, <1>2, DealOneCard
<1>6. Changes' /\ Roles' /\ Winners'
  BY <1>4, <1>5 DEF IInv, Changes, Roles, RolesKnown, RolesCount, MovePhase, Winners, standing
<1>7. Dealing'
  <2> SUFFICES ASSUME ~rules.trumpShown PROVE Dealing'
    BY <1>4 DEF Dealing
  <2>1. /\ rules.maxCards = TotalCardsInHands /\ ~rules.firstMoveFound
    BY <1>1 DEF IInv, Dealing
  <2>2. PICK d \in Deck, q \in 0..TotalCardsInHands :
          /\ \A o \in GameSeat : Cardinality(game.hand[o]) = IF o < s THEN q + 1 ELSE q
          /\ Len(game.deck) = Len(d) - (Players * q + s)
          /\ q = TotalCardsInHands => s = 0
    BY <1>1 DEF IInv, Dealing, s
  <2>3. PICK short \in GameSeat : Cardinality(game.hand[short]) < TotalCardsInHands
    BY <1>1, <2>1 DEF needToDeal
  <2>4. q # TotalCardsInHands
    BY <2>2, <2>3, GameAssumption DEF GameSeat
  <2>5. Len(d) \in Nat
    BY DeckAssumption, LenProperties
  <2>6. CASE s + 1 < Players
    <3>1. after(s) = s + 1
      BY <1>2, <2>6, SeatSum, Seats DEF after
    <3>2. \A o \in GameSeat : Cardinality(game'.hand[o]) = IF o < s + 1 THEN q + 1 ELSE q
      BY <1>2, <1>5, <2>2 DEF GameSeat
    <3> DEFINE n == Players * q
    <3>3. n \in Nat
      BY <1>2, <2>2, Rounds
    <3>4. Len(game.deck) = Len(d) - (n + s)
      BY <2>2
    <3> HIDE DEF n
    <3>5. Len(game'.deck) = Len(d) - (n + (s + 1))
      BY <1>2, <1>5, <2>5, <3>3, <3>4, Seats DEF GameSeat
    <3> QED  BY <1>4, <2>1, <2>2, <2>4, <3>1, <3>2, <3>5 DEF Dealing, n
  <2>7. CASE s + 1 = Players
    <3>1. after(s) = 0
      BY <1>2, <2>7, SeatSum, Seats DEF after
    <3>2. q + 1 \in 0..TotalCardsInHands
      BY <2>4, GameAssumption
    <3>3. \A o \in GameSeat : Cardinality(game'.hand[o]) = q + 1 /\ ~(o < 0)
      BY <1>2, <1>5, <2>2, <2>7 DEF GameSeat
    <3>4. Len(game'.deck) = Len(d) - (Players * (q + 1) + 0)
      BY <1>2, <1>5, <2>2, <2>5, <2>7, Rounds DEF GameSeat
    <3> QED  BY <1>4, <2>1, <3>1, <3>2, <3>3, <3>4 DEF Dealing
  <2> QED  BY <1>2, <2>6, <2>7, Seats DEF GameSeat
<1> QED  BY <1>3, <1>5, <1>6, <1>7 DEF IInv, KeepsCards

\* As long as the trump is not shown, the deck has a card to show.
LEMMA DeckLasts ==
  ASSUME IInv, game.phase = "StartingGame", ~rules.trumpShown
  PROVE  game.deck # <<>>
<1>1. PICK d \in Deck, q \in 0..TotalCardsInHands :
        /\ Len(game.deck) = Len(d) - (Players * q + rules.dealSeat)
        /\ q = TotalCardsInHands => rules.dealSeat = 0
  BY DEF IInv, Dealing
<1>2. /\ Len(d) \in Nat /\ Len(d) > Players * TotalCardsInHands
  BY DeckAssumption, LenProperties
<1>3. rules.dealSeat \in GameSeat /\ rules.dealSeat \in Nat
  BY RulesFields, Seats DEF IInv, GameSeat
<1>4. Len(game.deck) > 0
  BY <1>1, <1>2, <1>3, Rounds
<1> QED  BY <1>4, EmptySeq

\* The trump is named by the card at the back of the deck.
LEMMA IdentifyTrumpCardStep ==
  ASSUME IInv, NEW t \in Elapsed, IdentifyTrumpCard(t)
  PROVE  IInv' /\ KeepsCards
<1>1. /\ game.phase = "StartingGame" /\ ~rules.trumpShown
      /\ game' = identifyTrumpCard(game) /\ rules' = [rules EXCEPT !.dealt = TRUE]
  BY DEF IdentifyTrumpCard
<1>2. GoodGame(game) /\ rules \in RulesType /\ game.deck # <<>>
  BY <1>1, DeckLasts DEF IInv
<1>3. rules' \in RulesType
  BY <1>1, <1>2 DEF RulesType
<1>4. /\ rules'.dealSeat = rules.dealSeat /\ rules'.maxCards = rules.maxCards
      /\ rules'.trumpShown = rules.trumpShown /\ rules'.firstMoveFound = rules.firstMoveFound
      /\ rules'.changing = rules.changing /\ rules'.newPhase = rules.newPhase
      /\ rules'.winners = rules.winners /\ rules'.loser = rules.loser
  BY <1>1, <1>2 DEF RulesType
<1>5. /\ GoodGame(game')
      /\ \A c \in Card : InGame(game', c) <=> InGame(game, c)
      /\ game'.phase = game.phase /\ game'.winner = game.winner /\ game'.hand = game.hand
      /\ game'.attacker = game.attacker /\ game'.defender = game.defender
      /\ Len(game'.deck) = Len(game.deck)
  BY <1>1, <1>2, TrumpCard
<1>6. Changes' /\ Roles' /\ Winners'
  BY <1>4, <1>5 DEF IInv, Changes, Roles, RolesKnown, RolesCount, MovePhase, Winners, standing
<1>7. Dealing'
  BY <1>4, <1>5 DEF IInv, Dealing
<1> QED  BY <1>3, <1>5, <1>6, <1>7 DEF IInv, KeepsCards

\* Somebody holds the lowest trump, and the next seat is another one.
LEMMA FirstRoles ==
  ASSUME game \in GameType, allTrumps(game) # {}
  PROVE  /\ findPlayerWithLowestTrump(game) \in GameSeat
         /\ after(findPlayerWithLowestTrump(game)) \in GameSeat
         /\ after(findPlayerWithLowestTrump(game)) # findPlayerWithLowestTrump(game)
<1> DEFINE ranks == {c.rank : c \in allTrumps(game)}
<1>1. allTrumps(game) \subseteq Card
  BY GameFields DEF allTrumps, trumpsOf
<1>2. \A c \in allTrumps(game) : c.rank \in Nat
  BY <1>1, GameAssumption DEF Card
<1>3. ranks \in SUBSET Nat /\ ranks # {}
  BY <1>2
<1> HIDE DEF ranks
<1>4. PICK r \in ranks : \A q \in ranks : r <= q
  BY <1>3, SmallestOf
<1>5. \E c \in allTrumps(game) : \A o \in allTrumps(game) : c.rank <= o.rank
  BY <1>4 DEF ranks
<1>6. lowestTrump(game) \in allTrumps(game)
  BY <1>5 DEF lowestTrump
<1>7. findPlayerWithLowestTrump(game) \in GameSeat
  BY <1>6 DEF allTrumps, findPlayerWithLowestTrump
<1>8. ASSUME NEW s \in GameSeat
      PROVE  after(s) # s
  <2>1. after(s) = IF s + 1 < Players THEN s + 1 ELSE s + 1 - Players
    BY SeatSum, Seats DEF after
  <2> QED  BY <2>1, Seats DEF GameSeat
<1> QED  BY <1>7, <1>8, Seats

\* The first roles are found.
LEMMA IdentifyFirstMoveStep ==
  ASSUME IInv, NEW t \in Elapsed, IdentifyFirstMove(t)
  PROVE  IInv' /\ KeepsCards
<1> DEFINE first == findPlayerWithLowestTrump(game)
<1>1. /\ game.phase = "StartingGame" /\ rules.trumpShown /\ allTrumps(game) # {}
      /\ game' = withRoles(game, first, after(first))
      /\ rules' = [rules EXCEPT !.maxCards = TotalCardsInHands, !.dealt = TRUE, !.firstMoveFound = TRUE]
  BY DEF IdentifyFirstMove
<1>2. game \in GameType /\ rules \in RulesType
  BY DEF IInv, GoodGame
<1>3. first \in GameSeat /\ after(first) \in GameSeat /\ after(first) # first
  BY <1>1, <1>2, FirstRoles
<1> HIDE DEF first
<1>4. game' \in GameType
  BY <1>1, <1>2, <1>3 DEF GameType, withRoles, SeatOrNone
<1>5. /\ game'.phase = game.phase /\ game'.hand = game.hand /\ game'.deck = game.deck
      /\ game'.table = game.table /\ game'.boneyard = game.boneyard /\ game'.winner = game.winner
      /\ game'.attacker = first /\ game'.defender = after(first)
  BY <1>1, <1>2 DEF GameType, withRoles
<1>6. rules' \in RulesType
  BY <1>1, <1>2, GameAssumption DEF RulesType
<1>7. /\ rules'.trumpShown = rules.trumpShown
      /\ rules'.changing = rules.changing /\ rules'.newPhase = rules.newPhase
      /\ rules'.winners = rules.winners /\ rules'.loser = rules.loser
  BY <1>1, <1>2 DEF RulesType
<1>8. GoodGame(game') /\ KeepsCards /\ Winners' /\ Dealing'
  BY <1>1, <1>4, <1>5, <1>7, KeptGame
<1>9. \A s \in GameSeat : ~game.winner[s]
  BY <1>1 DEF IInv, Winners, Standing, standing
<1>10. Roles'
  BY <1>3, <1>5, <1>9 DEF Roles
<1>11. Changes'
  BY <1>5, <1>7 DEF IInv, Changes
<1> QED  BY <1>6, <1>8, <1>10, <1>11 DEF IInv

\* The first bout begins.
LEMMA StartFirstMoveStep ==
  ASSUME IInv, NEW t \in Elapsed, StartFirstMove(t)
  PROVE  IInv' /\ KeepsCards
<1>1. /\ game.phase = "StartingGame" /\ rules.firstMoveFound
      /\ game' = [game EXCEPT !.phase = "MainPlayerMove"] /\ rules' = rules
  BY DEF StartFirstMove
<1>2. game \in GameType /\ rules \in RulesType
  BY DEF IInv, GoodGame
<1>3. game' \in GameType
  BY <1>1, <1>2 DEF GameType, Phase
<1>4. /\ game'.phase = "MainPlayerMove" /\ game'.hand = game.hand /\ game'.deck = game.deck
      /\ game'.table = game.table /\ game'.boneyard = game.boneyard /\ game'.winner = game.winner
      /\ game'.attacker = game.attacker /\ game'.defender = game.defender
  BY <1>1, <1>2 DEF GameType
<1>5. GoodGame(game') /\ KeepsCards /\ Winners' /\ Dealing'
  BY <1>1, <1>3, <1>4, KeptGame
<1>6. RolesKnown /\ RolesCount
  BY <1>1 DEF RolesKnown, RolesCount
<1>7. Roles' /\ Changes'
  BY <1>1, <1>4, <1>6 DEF IInv, Roles, Changes
<1> QED  BY <1>1, <1>2, <1>5, <1>7 DEF IInv

\* The other steps of the start: the trump has been seen, or nobody has one.
LEMMA FlagsOfStartStep ==
  ASSUME IInv, NEW t \in Elapsed, TrumpCardShown(t) \/ DealExtraCards(t)
  PROVE  IInv' /\ KeepsCards
<1>1. /\ game.phase = "StartingGame" /\ game' = game
      /\ \/ rules' = [rules EXCEPT !.dealt = TRUE, !.trumpShown = TRUE]
         \/ rules' = [rules EXCEPT !.maxCards = @ + 1, !.dealt = FALSE] /\ rules.trumpShown
  BY DEF TrumpCardShown, DealExtraCards
<1>2. game \in GameType /\ rules \in RulesType /\ rules.maxCards \in Nat
  BY RulesFields DEF IInv, GoodGame
<1>3. rules' \in RulesType
  <2>1. [rules EXCEPT !.dealt = TRUE, !.trumpShown = TRUE] \in RulesType
    BY <1>2 DEF RulesType
  <2>2. \A m \in Nat : [rules EXCEPT !.maxCards = m, !.dealt = FALSE] \in RulesType
    BY <1>2 DEF RulesType
  <2>3. rules.maxCards + 1 \in Nat
    BY <1>2
  <2> QED  BY <1>1, <2>1, <2>2, <2>3
<1>4. /\ rules'.trumpShown /\ rules'.firstMoveFound = rules.firstMoveFound
      /\ rules'.changing = rules.changing /\ rules'.newPhase = rules.newPhase
      /\ rules'.winners = rules.winners /\ rules'.loser = rules.loser
  BY <1>1, <1>2 DEF RulesType
<1>5. GoodGame(game') /\ KeepsCards /\ Winners' /\ Dealing'
  BY <1>1, <1>2, <1>4, KeptGame
<1>6. Roles' /\ Changes'
  BY <1>1, <1>4 DEF IInv, Roles, RolesKnown, RolesCount, MovePhase, Changes
<1> QED  BY <1>3, <1>5, <1>6 DEF IInv

-----------------------------------------------------------------------------
(* The steps of a bout *)

\* A bout ends, or the other attackers may attack.
LEMMA BoutStep ==
  ASSUME IInv, NEW p \in {"MainPlayerMove", "EveryPlayerMove"}, InPhase(p),
         NEW x \in [GameSeat -> BOOLEAN], game' = [game EXCEPT !.pass = x] \/ game' = game,
         NEW d \in BOOLEAN, NEW e \in BOOLEAN,
         NEW q \in {"MainPlayerMove", "EveryPlayerMove", "RefillPhase"},
         rules' = [rules EXCEPT !.defended = d, !.extraTossed = e, !.changing = TRUE, !.newPhase = q]
  PROVE  IInv' /\ KeepsCards
<1>1. game.phase = p /\ game \in GameType /\ rules \in RulesType
  BY DEF InPhase, IInv, GoodGame
<1>2. game' \in GameType
  BY <1>1 DEF GameType
<1>3. /\ game'.phase = game.phase /\ game'.hand = game.hand /\ game'.deck = game.deck
      /\ game'.table = game.table /\ game'.boneyard = game.boneyard /\ game'.winner = game.winner
      /\ game'.attacker = game.attacker /\ game'.defender = game.defender
  BY <1>1 DEF GameType
<1>4. rules' \in RulesType
  BY <1>1 DEF RulesType, PhaseOrNone, Phase
<1>5. /\ rules'.newPhase = q /\ rules'.winners = rules.winners /\ rules'.loser = rules.loser
      /\ rules'.firstMoveFound = rules.firstMoveFound
  BY <1>1 DEF RulesType
<1>6. GoodGame(game') /\ KeepsCards /\ Winners' /\ Dealing'
  BY <1>1, <1>2, <1>3, <1>5, KeptGame
<1>7. RolesKnown /\ RolesCount
  BY <1>1 DEF RolesKnown, RolesCount, MovePhase
<1>8. Roles' /\ Changes'
  BY <1>1, <1>3, <1>5, <1>7 DEF IInv, Roles, Changes
<1> QED  BY <1>4, <1>6, <1>8 DEF IInv

\* Every step that ends a bout or changes who attacks is such a step.
LEMMA BoutSteps ==
  ASSUME IInv, \/ MainPlayerMoveEnds \/ MainPlayerMovePasses
               \/ EveryPlayerMoveEnds \/ EveryPlayerMoveReturns
  PROVE  IInv' /\ KeepsCards
<1>1. /\ game \in GameType /\ game.pass \in [GameSeat -> BOOLEAN] /\ rules \in RulesType
      /\ rules.defended \in BOOLEAN /\ rules.extraTossed \in BOOLEAN
  BY GameFields DEF IInv, GoodGame, RulesType
<1>2. \A d \in BOOLEAN : EndBout(d) =>
        /\ game' = game
        /\ rules' = [rules EXCEPT !.defended = d, !.extraTossed = rules.extraTossed,
                                  !.changing = TRUE, !.newPhase = "RefillPhase"]
  BY <1>1 DEF EndBout, preparePhaseChange, RulesType
<1>3. CASE MainPlayerMoveEnds
  <2>1. PICK d \in BOOLEAN : EndBout(d)
    BY <1>3 DEF MainPlayerMoveEnds
  <2>2. InPhase("MainPlayerMove")
    BY <1>3 DEF MainPlayerMoveEnds
  <2> QED  BY <1>1, <1>2, <2>1, <2>2, BoutStep
<1>4. CASE EveryPlayerMoveEnds
  <2>1. PICK d \in BOOLEAN : EndBout(d)
    BY <1>4 DEF EveryPlayerMoveEnds
  <2>2. InPhase("EveryPlayerMove")
    BY <1>4 DEF EveryPlayerMoveEnds
  <2> QED  BY <1>1, <1>2, <2>1, <2>2, BoutStep
<1>5. CASE MainPlayerMovePasses
  <2> DEFINE x == [game.pass EXCEPT ![game.attacker] = FALSE]
  <2>1. InPhase("MainPlayerMove") /\ game' = [game EXCEPT !.pass = x]
    BY <1>1, <1>5 DEF MainPlayerMovePasses, GameType
  <2>2. rules' = [rules EXCEPT !.defended = rules.defended, !.extraTossed = rules.extraTossed,
                               !.changing = TRUE, !.newPhase = "EveryPlayerMove"]
    BY <1>1, <1>5 DEF MainPlayerMovePasses, preparePhaseChange, RulesType
  <2>3. x \in [GameSeat -> BOOLEAN]
    BY <1>1
  <2> HIDE DEF x
  <2> QED  BY <1>1, <2>1, <2>2, <2>3, BoutStep
<1>6. CASE EveryPlayerMoveReturns
  <2> DEFINE x == [s \in GameSeat |->
                     IF s = game.defender \/ game.hand[s] = {} THEN game.pass[s] ELSE FALSE]
  <2>1. InPhase("EveryPlayerMove") /\ game' = [game EXCEPT !.pass = x]
    BY <1>1, <1>6 DEF EveryPlayerMoveReturns, GameType
  <2>2. rules' = [rules EXCEPT !.defended = rules.defended, !.extraTossed = FALSE,
                               !.changing = TRUE, !.newPhase = "MainPlayerMove"]
    BY <1>1, <1>6 DEF EveryPlayerMoveReturns, preparePhaseChange, RulesType
  <2>3. x \in [GameSeat -> BOOLEAN]
    BY <1>1
  <2> HIDE DEF x
  <2> QED  BY <1>1, <2>1, <2>2, <2>3, BoutStep
<1> QED  BY <1>3, <1>4, <1>5, <1>6

-----------------------------------------------------------------------------
(* The steps of the refill *)

\* What a step of the refill keeps that does not prepare the next bout.
LEMMA RefillKept ==
  ASSUME IInv, InPhase("RefillPhase"), GoodGame(game'), rules' \in RulesType,
         game'.phase = game.phase, game'.attacker = game.attacker,
         game'.defender = game.defender, ~rules'.changing, Winners'
  PROVE  IInv'
<1>1. game.phase = "RefillPhase"
  BY DEF InPhase
<1>2. Roles' /\ Changes' /\ Dealing'
  BY <1>1 DEF IInv, Roles, RolesKnown, RolesCount, MovePhase, Changes, Dealing
<1> QED  BY <1>2 DEF IInv

\* The table is cleared, for the boneyard or for the defender.
LEMMA ClearTableStep ==
  ASSUME IInv, ClearTable
  PROVE  IInv' /\ KeepsCards
<1>1. /\ InPhase("RefillPhase") /\ game.phase = "RefillPhase" /\ ~rules.changing
      /\ \/ game' = moveTableCardsToBoneyard(game)
         \/ game' = moveTableCardsToHand(game, game.defender)
      /\ rules' = [rules EXCEPT !.cleared = TRUE]
  BY DEF ClearTable, InPhase
<1>2. GoodGame(game) /\ rules \in RulesType /\ game.defender \in GameSeat
  BY <1>1 DEF IInv, Roles, RolesKnown
<1>3. /\ rules' \in RulesType /\ ~rules'.changing
      /\ rules'.winners = rules.winners /\ rules'.loser = rules.loser
  BY <1>1, <1>2 DEF RulesType
<1>4. /\ GoodGame(game')
      /\ \A c \in Card : InGame(game', c) <=> InGame(game, c)
      /\ game'.phase = game.phase /\ game'.winner = game.winner
      /\ game'.attacker = game.attacker /\ game'.defender = game.defender
  BY <1>1, <1>2, TableToHand, TableToBoneyard
<1>5. Winners'
  BY <1>3, <1>4 DEF IInv, Winners, standing
<1> QED  BY <1>1, <1>3, <1>4, <1>5, RefillKept DEF KeepsCards

\* The next player to get a card is at the table.
LEMMA NextToRefill ==
  ASSUME game.defender \in GameSeat, rules.attackersOrder \in Seq(GameSeat)
  PROVE  nextToRefill \in GameSeat
<1> DEFINE lacking == {i \in DOMAIN rules.attackersOrder :
                         Cardinality(game.hand[rules.attackersOrder[i]]) < TotalCardsInHands}
           l == CHOOSE i \in lacking : \A j \in lacking : j <= i
<1>1. nextToRefill = IF lacking = {} THEN game.defender ELSE rules.attackersOrder[l]
  BY DEF nextToRefill
<1>2. /\ Len(rules.attackersOrder) \in Nat /\ DOMAIN rules.attackersOrder = 1..Len(rules.attackersOrder)
      /\ \A i \in DOMAIN rules.attackersOrder : rules.attackersOrder[i] \in GameSeat
  BY LenProperties, ElementOfSeq
<1>3. lacking \in SUBSET (0..Len(rules.attackersOrder)) /\ lacking \subseteq DOMAIN rules.attackersOrder
  BY <1>2
<1> HIDE DEF lacking
<1>4. CASE lacking = {}
  BY <1>1, <1>4
<1>5. CASE lacking # {}
  <2>1. \E i \in lacking : \A j \in lacking : j <= i
    BY <1>2, <1>3, <1>5, GreatestOf
  <2>2. l \in lacking
    BY <2>1
  <2> HIDE DEF l
  <2> QED  BY <1>1, <1>2, <1>3, <1>5, <2>2
<1> QED  BY <1>4, <1>5

\* A card is dealt after a bout.
LEMMA DealAtRefillStep ==
  ASSUME IInv, NEW t \in Elapsed, DealAtRefill(t)
  PROVE  IInv' /\ KeepsCards
<1> DEFINE s == nextToRefill
<1>1. /\ InPhase("RefillPhase") /\ game.phase = "RefillPhase" /\ ~rules.changing
      /\ game.deck # <<>> /\ game' = dealOneCard(game, s)
      /\ rules' = [rules EXCEPT !.dealSeat = s]
  BY DEF DealAtRefill, Refilling, needToDeal, InPhase
<1>2. GoodGame(game) /\ rules \in RulesType /\ game.defender \in GameSeat
  BY <1>1 DEF IInv, Roles, RolesKnown
<1>3. s \in GameSeat
  BY <1>2, NextToRefill, RulesFields
<1> HIDE DEF s
<1>4. /\ rules' \in RulesType /\ ~rules'.changing
      /\ rules'.winners = rules.winners /\ rules'.loser = rules.loser
  BY <1>1, <1>2, <1>3 DEF RulesType
<1>5. /\ GoodGame(game')
      /\ \A c \in Card : InGame(game', c) <=> InGame(game, c)
      /\ game'.phase = game.phase /\ game'.winner = game.winner
      /\ game'.attacker = game.attacker /\ game'.defender = game.defender
  BY <1>1, <1>2, <1>3, DealOneCard
<1>6. Winners'
  BY <1>4, <1>5 DEF IInv, Winners, standing
<1> QED  BY <1>1, <1>4, <1>5, <1>6, RefillKept DEF KeepsCards

\* Candidates with empty hands become winners, and perhaps somebody the loser.
LEMMA CheckForWinnersStep ==
  ASSUME IInv, NEW t \in Elapsed, CheckForWinnersAndLoser(t)
  PROVE  IInv' /\ KeepsCards
<1>1. /\ InPhase("RefillPhase") /\ game.phase = "RefillPhase" /\ ~rules.changing
      /\ game' = [game EXCEPT !.winner = awards.won]
      /\ rules' = [rules EXCEPT !.winners = awards.list, !.loser = awards.loser,
                                !.candidates = <<>>, !.checked = TRUE, !.dealt = TRUE]
  BY DEF CheckForWinnersAndLoser, Refilling, InPhase
<1>2. GoodGame(game) /\ game \in GameType /\ rules \in RulesType
  BY DEF IInv, GoodGame
<1>3. Standing(awards)
  <2>1. standing = [won |-> game.winner, list |-> rules.winners, loser |-> rules.loser]
    BY DEF standing
  <2>2. Standing(standing) /\ rules.candidates \in Seq(GameSeat)
    BY <1>2, RulesFields DEF IInv, Winners
  <2> QED  BY <2>1, <2>2, AwardsStanding
<1> DEFINE w == awards.won
           l == awards.list
           o == awards.loser
<1>4. w \in [GameSeat -> BOOLEAN] /\ l \in Seq(GameSeat) /\ o \in SeatOrNone
  BY <1>3 DEF Standing
<1>5. /\ game' = [game EXCEPT !.winner = w]
      /\ rules' = [rules EXCEPT !.winners = l, !.loser = o,
                                !.candidates = <<>>, !.checked = TRUE, !.dealt = TRUE]
  BY <1>1
<1>6. Standing([won |-> w, list |-> l, loser |-> o])
  BY <1>3 DEF Standing
<1> HIDE DEF w, l, o
<1>7. game' \in GameType
  BY <1>2, <1>4, <1>5 DEF GameType
<1>8. /\ game'.hand = game.hand /\ game'.deck = game.deck /\ game'.phase = game.phase
      /\ game'.table = game.table /\ game'.boneyard = game.boneyard
      /\ game'.attacker = game.attacker /\ game'.defender = game.defender /\ game'.winner = w
  BY <1>2, <1>5 DEF GameType
<1>9. <<>> \in Seq(GameSeat)
  BY EmptySeq
<1>10. rules' \in RulesType
  BY <1>2, <1>4, <1>5, <1>9 DEF RulesType
<1>11. ~rules'.changing /\ rules'.winners = l /\ rules'.loser = o
  BY <1>1, <1>2, <1>5 DEF RulesType
<1>12. GoodGame(game') /\ \A c \in Card : InGame(game', c) <=> InGame(game, c)
  BY <1>2, <1>7, <1>8, SameCards
<1>13. Winners'
  <2>1. standing' = [won |-> w, list |-> l, loser |-> o]
    BY <1>8, <1>11 DEF standing
  <2> QED  BY <1>1, <1>6, <1>8, <2>1 DEF Winners
<1> QED  BY <1>1, <1>8, <1>10, <1>11, <1>12, <1>13, RefillKept DEF KeepsCards

\* The other steps of the refill change flags only.
LEMMA FlagsOfRefillStep ==
  ASSUME IInv, NEW t \in Elapsed,
         ClearTableShown(t) \/ RewardPlayer(t) \/ WaitForReward(t) \/ GameOver(t)
  PROVE  IInv' /\ KeepsCards
<1>1. /\ InPhase("RefillPhase") /\ game' = game
      /\ \/ rules' = [rules EXCEPT !.clearShown = TRUE]
         \/ rules' = [rules EXCEPT !.awarded = @ + 1, !.dealt = TRUE]
         \/ rules' = [rules EXCEPT !.dealt = TRUE]
         \/ rules' = [rules EXCEPT !.rewarded = TRUE, !.dealt = TRUE]
  BY DEF ClearTableShown, RewardPlayer, WaitForReward, GameOver, Refilling
<1>2. GoodGame(game) /\ rules \in RulesType /\ ~rules.changing
  BY <1>1 DEF IInv, InPhase
<1>3. rules' \in RulesType
  <2>1. /\ [rules EXCEPT !.clearShown = TRUE] \in RulesType
        /\ [rules EXCEPT !.dealt = TRUE] \in RulesType
        /\ [rules EXCEPT !.rewarded = TRUE, !.dealt = TRUE] \in RulesType
    BY <1>2 DEF RulesType
  <2>2. \A n \in Nat : [rules EXCEPT !.awarded = n, !.dealt = TRUE] \in RulesType
    BY <1>2 DEF RulesType
  <2>3. rules.awarded + 1 \in Nat
    BY <1>2, RulesFields
  <2> QED  BY <1>1, <2>1, <2>2, <2>3
<1>4. ~rules'.changing /\ rules'.winners = rules.winners /\ rules'.loser = rules.loser
  BY <1>1, <1>2 DEF RulesType
<1>5. Winners'
  BY <1>1, <1>4 DEF IInv, Winners, standing
<1> QED  BY <1>1, <1>2, <1>3, <1>4, <1>5, RefillKept DEF KeepsCards

\* The next bout has roles that are still in the game.
LEMMA NextTurnStep ==
  ASSUME IInv, NEW t \in Elapsed, NextTurn(t)
  PROVE  IInv' /\ KeepsCards
<1> DEFINE a == nextAttacker
           d == nextDefender
           x == [s \in GameSeat |-> IF game.winner[s] THEN game.pass[s] ELSE FALSE]
<1>1. InPhase("RefillPhase") /\ game.phase = "RefillPhase" /\ rules.loser = NoSeat
  BY DEF NextTurn, Refilling, InPhase
<1>2. /\ GoodGame(game) /\ game \in GameType /\ rules \in RulesType /\ game.defender \in GameSeat
      /\ game.winner \in [GameSeat -> BOOLEAN] /\ game.pass \in [GameSeat -> BOOLEAN]
  BY <1>1, GameFields DEF IInv, GoodGame, Roles, RolesKnown
<1>3. game' = [withRoles(game, a, d) EXCEPT !.pass = x]
  <2>1. withRoles(game, a, d).pass = game.pass
    BY <1>2 DEF withRoles, GameType
  <2> QED  BY <2>1 DEF NextTurn
<1>4. \A s \in GameSeat : \E o \in GameSeat : o # s /\ ~game.winner[o]
  <2>1. Standing(standing)
    BY DEF IInv, Winners
  <2>2. /\ rules.winners \in Seq(GameSeat) /\ Len(rules.winners) < Players - 1
        /\ \A s \in GameSeat : game.winner[s] => \E k \in DOMAIN rules.winners : rules.winners[k] = s
    BY <1>1, <2>1 DEF Standing, standing
  <2> QED  BY <1>2, <2>2, FewWinners
<1>5. /\ a \in GameSeat /\ d \in GameSeat /\ a # d /\ ~game.winner[a] /\ ~game.winner[d]
  BY <1>2, <1>4, NextRoles
<1>6. x \in [GameSeat -> BOOLEAN]
  BY <1>2
<1> HIDE DEF a, d, x
<1>7. game' \in GameType
  <2>1. "RefillPhase" \in Phase
    BY DEF Phase
  <2> QED  BY <1>2, <1>3, <1>5, <1>6, <2>1, GameFlow
<1>8. /\ game'.hand = game.hand /\ game'.deck = game.deck /\ game'.phase = game.phase
      /\ game'.table = game.table /\ game'.boneyard = game.boneyard /\ game'.winner = game.winner
      /\ game'.attacker = a /\ game'.defender = d
  BY <1>2, <1>3 DEF GameType, withRoles
<1> DEFINE n == rules.bouts + 1
<1>9. rules' = [rules EXCEPT !.defended = FALSE, !.cleared = FALSE, !.clearShown = FALSE,
                             !.dealt = FALSE, !.checked = FALSE, !.rewarded = FALSE,
                             !.extraTossed = FALSE, !.bouts = n,
                             !.changing = TRUE, !.newPhase = "MainPlayerMove"]
  BY <1>2 DEF NextTurn, turnReset, preparePhaseChange, RulesType
<1>10. n \in Nat
  BY <1>2, RulesFields
<1> HIDE DEF n
<1>11. rules' \in RulesType
  <2> DEFINE r == [rules EXCEPT !.defended = FALSE, !.cleared = FALSE, !.clearShown = FALSE,
                                !.dealt = FALSE, !.checked = FALSE]
  <2>1. r \in RulesType
    BY <1>2 DEF RulesType
  <2>2. rules' = [r EXCEPT !.rewarded = FALSE, !.extraTossed = FALSE, !.bouts = n,
                           !.changing = TRUE, !.newPhase = "MainPlayerMove"]
    BY <1>9
  <2>3. "MainPlayerMove" \in PhaseOrNone
    BY DEF PhaseOrNone, Phase
  <2> HIDE DEF r
  <2> QED  BY <1>10, <2>1, <2>2, <2>3 DEF RulesType
<1>12. /\ rules'.winners = rules.winners /\ rules'.loser = rules.loser
       /\ rules'.newPhase = "MainPlayerMove"
  BY <1>2, <1>9 DEF RulesType
<1>13. GoodGame(game') /\ KeepsCards /\ Winners' /\ Dealing'
  BY <1>1, <1>7, <1>8, <1>12, KeptGame
<1>14. Roles' /\ Changes'
  BY <1>1, <1>5, <1>8, <1>12 DEF Roles, Changes
<1> QED  BY <1>11, <1>13, <1>14 DEF IInv

-----------------------------------------------------------------------------
(* The players' moves *)

\* What a move keeps whose cards are well placed.
LEMMA MoveKept ==
  ASSUME IInv, MovePhase, GoodGame(game'), rules' \in RulesType,
         game'.phase = game.phase, game'.winner = game.winner,
         game'.attacker = game.attacker, game'.defender = game.defender,
         rules'.changing = rules.changing, rules'.newPhase = rules.newPhase,
         rules'.winners = rules.winners, rules'.loser = rules.loser
  PROVE  IInv'
<1>1. game.phase # "StartingGame"
  BY DEF MovePhase
<1>2. RolesKnown /\ RolesCount
  BY <1>1 DEF RolesKnown, RolesCount
<1>3. Roles' /\ Changes' /\ Winners' /\ Dealing'
  BY <1>1, <1>2 DEF IInv, Roles, Changes, Winners, standing, Dealing
<1> QED  BY <1>3 DEF IInv

\* What a move makes of the rules, by the fields it may change.
LEMMA RulesOfMove ==
  ASSUME rules \in RulesType, NEW g,
         NEW o \in Seq(GameSeat), NEW e \in BOOLEAN, NEW c \in Seq(GameSeat),
         rules' = [recalculated(rules, g) EXCEPT !.attackersOrder = o, !.extraTossed = e, !.candidates = c]
  PROVE  /\ rules' \in RulesType
         /\ rules'.changing = rules.changing /\ rules'.newPhase = rules.newPhase
         /\ rules'.winners = rules.winners /\ rules'.loser = rules.loser
<1> DEFINE b == unbeaten(g) = 0
           l == attackerCardsOnTableSize(g) = MaxTablePositions
           p == \A s \in GameSeat \ {g.defender} : g.pass[s]
           r == [rules EXCEPT !.allBeaten = b, !.limit = l, !.allPass = p]
<1>1. b \in BOOLEAN /\ l \in BOOLEAN /\ p \in BOOLEAN
  OBVIOUS
<1>2. recalculated(rules, g) = r
  BY DEF recalculated
<1> HIDE DEF b, l, p
<1>3. r \in RulesType
  BY <1>1 DEF RulesType
<1>4. r.changing = rules.changing /\ r.newPhase = rules.newPhase /\ r.winners = rules.winners
      /\ r.loser = rules.loser
  BY DEF RulesType
<1>5. rules' = [r EXCEPT !.attackersOrder = o, !.extraTossed = e, !.candidates = c]
  BY <1>2
<1> HIDE DEF r
<1> QED  BY <1>3, <1>4, <1>5 DEF RulesType

(***************************************************************************)
(* A toss puts the card at the first position that is not in use if the    *)
(* positions in use are in a row; if not, the card may be lost.            *)
(***************************************************************************)
LEMMA TossStep ==
  ASSUME IInv, NEW s \in GameSeat, NEW c \in game.hand[s], Toss(s, c)
  PROVE  IInv' /\ (tableInRow => KeepsCards)
<1> DEFINE i == attackerCardsOnTableSize(game)
           room == game.table[i] = <<>>
           thrown == tossed(game, s, i, c)
           out == thrown.hand[s] = {}
<1>1. GoodGame(game) /\ game \in GameType /\ rules \in RulesType
  BY DEF IInv, GoodGame
<1>2. MovePhase /\ i \in Position
  BY <1>1, TableSizes DEF Toss, canToss
<1>3. thrown = putOnTable(game, s, i, c, room) /\ room \in BOOLEAN /\ (room => Len(game.table[i]) < 2)
  <2>1. Len(<<>>) = 0
    BY EmptySeq
  <2> QED  BY <2>1 DEF tossed
<1>4. \/ ~room /\ game' = thrown /\ rules' = rules
      \/ /\ room
         /\ game' = [thrown EXCEPT !.pass[s] = @ \/ out]
         /\ rules' =
              [recalculated(rules, thrown) EXCEPT
                 !.attackersOrder = IF s \in {@[j] : j \in DOMAIN @} THEN Append(@, s) ELSE @,
                 !.extraTossed = @ \/ s # game.attacker,
                 !.candidates = IF out THEN Append(@, s) ELSE @]
  BY DEF Toss
<1>5. tableInRow => room
  <2> SUFFICES ASSUME tableInRow, ~room
               PROVE  FALSE
    OBVIOUS
  <2>1. i < attackerCardsOnTableSize(game)
    BY <1>2 DEF tableInRow
  <2> QED  BY <1>2, <2>1 DEF Position
<1>0. s \in GameSeat /\ c \in game.hand[s]
  OBVIOUS
<1> HIDE DEF thrown, i, room
<1>6. /\ GoodGame(thrown)
      /\ room => \A o \in Card : InGame(thrown, o) <=> InGame(game, o)
      /\ thrown.phase = game.phase /\ thrown.winner = game.winner
      /\ thrown.attacker = game.attacker /\ thrown.defender = game.defender
  <2>1. CASE room
    <3>1. thrown = withCardAt(withoutCard(game, s, c), i, c)
      BY <1>3, <2>1 DEF putOnTable, withoutCard, withCardAt
    <3>2. Len(game.table[i]) < 2
      BY <1>3, <2>1
    <3> QED  BY <1>0, <1>1, <1>2, <2>1, <3>1, <3>2, PutWithRoom
  <2>2. CASE ~room
    <3>1. thrown = withoutCard(game, s, c)
      BY <1>3, <2>2 DEF putOnTable, withoutCard
    <3> QED  BY <1>0, <1>1, <1>2, <1>3, <2>2, <3>1, PutWithoutRoom
  <2> QED  BY <2>1, <2>2
<1>7. CASE ~room
  <2>1. game' = thrown /\ rules' = rules
    BY <1>4, <1>7
  <2> QED  BY <1>1, <1>2, <1>5, <1>6, <1>7, <2>1, MoveKept
<1>8. CASE room
  <2>1. thrown \in GameType /\ thrown.pass \in [GameSeat -> BOOLEAN]
    BY <1>6, GameFields DEF GoodGame
  <2> DEFINE x == [thrown.pass EXCEPT ![s] = @ \/ out]
  <2>2. game' = [thrown EXCEPT !.pass = x] /\ x \in [GameSeat -> BOOLEAN]
    BY <1>4, <1>8, <2>1 DEF GameType
  <2> HIDE DEF x
  <2>3. /\ game' \in GameType
        /\ game'.hand = thrown.hand /\ game'.deck = thrown.deck /\ game'.phase = thrown.phase
        /\ game'.table = thrown.table /\ game'.boneyard = thrown.boneyard
        /\ game'.winner = thrown.winner
        /\ game'.attacker = thrown.attacker /\ game'.defender = thrown.defender
    BY <2>1, <2>2 DEF GameType
  <2>4. GoodGame(game') /\ KeepsCards
    BY <1>6, <1>8, <2>3, SameCards DEF KeepsCards
  <2> DEFINE order == IF s \in {rules.attackersOrder[j] : j \in DOMAIN rules.attackersOrder}
                        THEN Append(rules.attackersOrder, s) ELSE rules.attackersOrder
             e == rules.extraTossed \/ s # game.attacker
             next == IF out THEN Append(rules.candidates, s) ELSE rules.candidates
  <2>5. /\ recalculated(rules, thrown).attackersOrder = rules.attackersOrder
        /\ recalculated(rules, thrown).extraTossed = rules.extraTossed
        /\ recalculated(rules, thrown).candidates = rules.candidates
    BY <1>1 DEF recalculated, RulesType
  <2> HIDE DEF out
  <2>6. rules' = [recalculated(rules, thrown) EXCEPT
                    !.attackersOrder = order, !.extraTossed = e, !.candidates = next]
    <3> DEFINE r == recalculated(rules, thrown)
    <3>1. rules' = [r EXCEPT
                 !.attackersOrder = IF s \in {r.attackersOrder[j] : j \in DOMAIN r.attackersOrder}
                                      THEN Append(r.attackersOrder, s) ELSE r.attackersOrder,
                 !.extraTossed = r.extraTossed \/ s # game.attacker,
                 !.candidates = IF out THEN Append(r.candidates, s) ELSE r.candidates]
      BY <1>4, <1>8
    <3> QED  BY <2>5, <3>1
  <2>7. order \in Seq(GameSeat) /\ next \in Seq(GameSeat)
    BY <1>1, RulesFields, AppendProperties
  <2>8. e \in BOOLEAN
    BY <1>1 DEF RulesType
  <2> HIDE DEF order, e, next
  <2>9. /\ rules' \in RulesType
        /\ rules'.changing = rules.changing /\ rules'.newPhase = rules.newPhase
        /\ rules'.winners = rules.winners /\ rules'.loser = rules.loser
    BY <1>1, <2>6, <2>7, <2>8, RulesOfMove
  <2> QED  BY <1>2, <1>6, <2>3, <2>4, <2>9, MoveKept
<1> QED  BY <1>7, <1>8

\* A card that beats another one joins it.
LEMMA BeatStep ==
  ASSUME IInv, NEW s \in GameSeat, NEW c \in game.hand[s], NEW i \in Position, Beat(s, i, c)
  PROVE  IInv' /\ KeepsCards
<1> DEFINE room == Len(game.table[i]) = 1
           thrown == beaten(game, s, i, c)
           out == thrown.hand[s] = {}
<1>1. GoodGame(game) /\ game \in GameType /\ rules \in RulesType
  BY DEF IInv, GoodGame
<1>2. MovePhase /\ room
  BY DEF Beat, canBeat
<1>3. thrown = putOnTable(game, s, i, c, room) /\ room \in BOOLEAN /\ (room => Len(game.table[i]) < 2)
  <2>1. room \in BOOLEAN
    OBVIOUS
  <2>2. room => Len(game.table[i]) < 2
    OBVIOUS
  <2>3. thrown = putOnTable(game, s, i, c, room)
    BY DEF beaten
  <2> QED  BY <2>1, <2>2, <2>3
<1>4. /\ game' = thrown
      /\ rules' = [recalculated(rules, thrown) EXCEPT !.candidates = IF out THEN Append(@, s) ELSE @]
  BY DEF Beat
<1> HIDE DEF thrown, room
<1>5. /\ GoodGame(thrown)
      /\ room => \A o \in Card : InGame(thrown, o) <=> InGame(game, o)
      /\ thrown.phase = game.phase /\ thrown.winner = game.winner
      /\ thrown.attacker = game.attacker /\ thrown.defender = game.defender
  <2>1. CASE room
    <3>1. thrown = withCardAt(withoutCard(game, s, c), i, c)
      BY <1>3, <2>1 DEF putOnTable, withoutCard, withCardAt
    <3>2. Len(game.table[i]) < 2
      BY <1>3, <2>1
    <3> QED  BY <1>1, <2>1, <3>1, <3>2, PutWithRoom
  <2>2. CASE ~room
    <3>1. thrown = withoutCard(game, s, c)
      BY <1>3, <2>2 DEF putOnTable, withoutCard
    <3> QED  BY <1>1, <1>3, <2>2, <3>1, PutWithoutRoom
  <2> QED  BY <2>1, <2>2
<1> DEFINE next == IF out THEN Append(rules.candidates, s) ELSE rules.candidates
<1>6. /\ recalculated(rules, thrown).attackersOrder = rules.attackersOrder
      /\ recalculated(rules, thrown).extraTossed = rules.extraTossed
      /\ recalculated(rules, thrown).candidates = rules.candidates
      /\ recalculated(rules, thrown) \in RulesType
  <2> DEFINE b == unbeaten(thrown) = 0
             l == attackerCardsOnTableSize(thrown) = MaxTablePositions
             p == \A o \in GameSeat \ {thrown.defender} : thrown.pass[o]
  <2>1. b \in BOOLEAN /\ l \in BOOLEAN /\ p \in BOOLEAN
    OBVIOUS
  <2>2. recalculated(rules, thrown) = [rules EXCEPT !.allBeaten = b, !.limit = l, !.allPass = p]
    BY DEF recalculated
  <2> HIDE DEF b, l, p
  <2> QED  BY <1>1, <2>1, <2>2 DEF RulesType
<1> HIDE DEF out
<1>7. rules' = [recalculated(rules, thrown) EXCEPT
                  !.attackersOrder = rules.attackersOrder, !.extraTossed = rules.extraTossed,
                  !.candidates = next]
  <2> DEFINE r == recalculated(rules, thrown)
  <2>1. rules' = [r EXCEPT !.candidates = next]
    BY <1>4, <1>6
  <2>2. /\ r.attackersOrder = rules.attackersOrder /\ r.extraTossed = rules.extraTossed
        /\ r \in RulesType
    BY <1>6
  <2> HIDE DEF r, next
  <2>3. rules' = [r EXCEPT !.attackersOrder = r.attackersOrder, !.extraTossed = r.extraTossed,
                           !.candidates = next]
    BY <2>1, <2>2 DEF RulesType
  <2> QED  BY <2>2, <2>3 DEF r
<1>8. rules.attackersOrder \in Seq(GameSeat) /\ rules.extraTossed \in BOOLEAN /\ next \in Seq(GameSeat)
  BY <1>1, RulesFields, AppendProperties DEF RulesType
<1> HIDE DEF next
<1>9. /\ rules' \in RulesType
      /\ rules'.changing = rules.changing /\ rules'.newPhase = rules.newPhase
      /\ rules'.winners = rules.winners /\ rules'.loser = rules.loser
  BY <1>1, <1>7, <1>8, RulesOfMove
<1> QED  BY <1>2, <1>4, <1>5, <1>9, MoveKept DEF KeepsCards

\* A pass changes who has passed, and nothing else.
LEMMA PassStep ==
  ASSUME IInv, NEW s \in GameSeat, PassAction(s)
  PROVE  IInv' /\ KeepsCards
<1> DEFINE x == [game.pass EXCEPT ![s] = TRUE]
<1>1. game \in GameType /\ rules \in RulesType /\ game.pass \in [GameSeat -> BOOLEAN]
  BY GameFields DEF IInv, GoodGame
<1>2. game' = [game EXCEPT !.pass = x] /\ rules' = rules /\ x \in [GameSeat -> BOOLEAN]
  BY <1>1 DEF PassAction, GameType
<1> HIDE DEF x
<1>3. game' \in GameType
  BY <1>1, <1>2 DEF GameType
<1>4. /\ game'.phase = game.phase /\ game'.hand = game.hand /\ game'.deck = game.deck
      /\ game'.table = game.table /\ game'.boneyard = game.boneyard /\ game'.winner = game.winner
      /\ game'.attacker = game.attacker /\ game'.defender = game.defender
  BY <1>1, <1>2 DEF GameType
<1>5. GoodGame(game') /\ KeepsCards /\ Winners' /\ Dealing'
  BY <1>2, <1>3, <1>4, KeptGame
<1>6. Roles' /\ Changes'
  BY <1>2, <1>4 DEF IInv, Roles, RolesKnown, RolesCount, MovePhase, Changes
<1> QED  BY <1>1, <1>2, <1>5, <1>6 DEF IInv

-----------------------------------------------------------------------------
(* The theorems *)

\* Every step keeps the invariant, and the cards while the table is in a row.
LEMMA StepIInv ==
  ASSUME IInv, [Next]_vars
  PROVE  IInv' /\ (tableInRow => KeepsCards)
<1>1. CASE UNCHANGED vars
  <2>1. game' = game /\ rules' = rules
    BY <1>1 DEF vars
  <2>2. IInv'
    BY <2>1 DEF IInv, Changes, Roles, RolesKnown, RolesCount, MovePhase, Winners, standing, Dealing
  <2> QED  BY <2>1, <2>2 DEF KeepsCards
<1>2. ASSUME NEW t \in Elapsed, Update(t)
      PROVE  IInv' /\ KeepsCards
  BY <1>2, SetNewPhaseStep, DealAtStartStep, IdentifyTrumpCardStep, FlagsOfStartStep,
     IdentifyFirstMoveStep, StartFirstMoveStep, BoutSteps, ClearTableStep, DealAtRefillStep,
     CheckForWinnersStep, FlagsOfRefillStep, NextTurnStep
  DEF Update
<1>3. ASSUME NEW s \in GameSeat, Move(s)
      PROVE  IInv' /\ (tableInRow => KeepsCards)
  BY <1>3, TossStep, BeatStep, PassStep DEF Move
<1> QED  BY <1>1, <1>2, <1>3 DEF Next

\* The invariant holds in every state the game can reach.
THEOREM AlwaysIInv == Spec => []IInv
<1>1. IInv /\ [Next]_vars => IInv'
  BY StepIInv
<1> QED  BY <1>1, InitIInv, PTL DEF Spec

(***************************************************************************)
(* Types; no card is in two places, however it is dealt, tossed, beaten,   *)
(* taken or cleared away; and a bout is between two players who are both   *)
(* still in the game, although players win one after the other and several *)
(* at once.                                                                *)
(***************************************************************************)
THEOREM GameStaysConsistent == Spec => []GameConsistent
<1>1. IInv => GameConsistent
  <2> SUFFICES ASSUME IInv PROVE GameConsistent
    OBVIOUS
  <2>1. TypeOK
    BY DEF IInv, GoodGame, TypeOK
  <2>2. NoCardTwice
    <3> SUFFICES ASSUME NEW c \in Card PROVE places(c) <= 1
      BY DEF NoCardTwice
    <3>1. places(c) = IF InGame(game, c) THEN 1 ELSE 0
      BY PlacesAre DEF IInv, places
    <3> QED  BY <3>1
  <2>3. RolesStillPlay
    BY DEF IInv, Roles, RolesCount, RolesStillPlay
  <2> QED  BY <2>1, <2>2, <2>3 DEF GameConsistent
<1> QED  BY <1>1, AlwaysIInv, PTL

(***************************************************************************)
(* No step loses a card as long as the positions in use are the first ones *)
(* of the table.                                                           *)
(***************************************************************************)
THEOREM NoCardIsLost == Spec => CardsKeptWhileInRow
<1>1. ASSUME IInv, [Next]_vars
      PROVE  cardsKept
  <2> SUFFICES ASSUME NEW c \in Card, tableInRow
               PROVE  places(c)' = places(c)
    BY DEF cardsKept
  <2>1. IInv' /\ KeepsCards
    BY <1>1, StepIInv
  <2>2. placesIn(game, c) = IF InGame(game, c) THEN 1 ELSE 0
    BY <1>1, PlacesAre DEF IInv
  <2>3. placesIn(game', c) = IF InGame(game', c) THEN 1 ELSE 0
    BY <2>1, PlacesAre DEF IInv
  <2> QED  BY <2>1, <2>2, <2>3 DEF KeepsCards, places
<1>2. IInv /\ [Next]_vars => [cardsKept]_game
  BY <1>1
<1> QED  BY <1>2, AlwaysIInv, PTL DEF Spec, CardsKeptWhileInRow

-----------------------------------------------------------------------------
(* The cards the defender has to beat *)

\* A card at an empty position is one more to beat, a second one one less.
LEMMA PlayedCount ==
  ASSUME NEW g \in GameType, NEW n \in GameType, NEW i \in Position, NEW c \in Card,
         Len(g.table[i]) \in {0, 1},
         n.table[i] = Append(g.table[i], c),
         \A k \in Position \ {i} : n.table[k] = g.table[k]
  PROVE  /\ unbeaten(g) \in Int /\ unbeaten(n) \in Int
         /\ Len(g.table[i]) = 0 => unbeaten(n) = unbeaten(g) + 1
         /\ Len(g.table[i]) = 1 => unbeaten(n) = unbeaten(g) - 1
<1> DEFINE used(h) == {k \in Position : h.table[k] # <<>>}
           full(h) == {k \in Position : Len(h.table[k]) = 2}
<1>1. /\ IsFiniteSet(used(g)) /\ IsFiniteSet(used(n)) /\ IsFiniteSet(full(g)) /\ IsFiniteSet(full(n))
      /\ Cardinality(used(g)) \in Nat /\ Cardinality(used(n)) \in Nat
      /\ Cardinality(full(g)) \in Nat /\ Cardinality(full(n)) \in Nat
  BY TableSizes, FS_CardinalityType
<1>2. /\ unbeaten(g) = Cardinality(used(g)) - Cardinality(full(g))
      /\ unbeaten(n) = Cardinality(used(n)) - Cardinality(full(n))
  BY DEF unbeaten, attackerCardsOnTableSize, defenderCardsOnTableSize
<1>3. g.table[i] \in Seq(Card) /\ n.table[i] \in Seq(Card)
  BY GameFields
<1>4. Len(n.table[i]) = Len(g.table[i]) + 1
  BY <1>3, AppendProperties
<1>0. \A q \in Seq(Card) : Len(q) \in Nat /\ (q = <<>> <=> Len(q) = 0)
  BY EmptySeq, LenProperties
<1>5. i \in used(n) /\ (i \in used(g) <=> Len(g.table[i]) # 0)
  <2>1. n.table[i] # <<>>
    BY <1>0, <1>3, <1>4
  <2>2. g.table[i] # <<>> <=> Len(g.table[i]) # 0
    BY <1>0, <1>3
  <2> QED  BY <2>1, <2>2
<1>6. \A k \in Position \ {i} : (k \in used(n) <=> k \in used(g)) /\ (k \in full(n) <=> k \in full(g))
  OBVIOUS
<1>9. (i \in full(g) <=> Len(g.table[i]) = 2) /\ (i \in full(n) <=> Len(n.table[i]) = 2)
  OBVIOUS
<1>10. (i \in used(g) <=> Len(g.table[i]) # 0) /\ i \in used(n)
  BY <1>5
<1>11. used(g) \subseteq Position /\ used(n) \subseteq Position
       /\ full(g) \subseteq Position /\ full(n) \subseteq Position
  OBVIOUS
<1> HIDE DEF used, full
<1>7. CASE Len(g.table[i]) = 0
  <2>1. i \notin used(g) /\ i \notin full(g) /\ i \notin full(n)
    BY <1>4, <1>7, <1>9, <1>10
  <2>5. used(n) = used(g) \cup {i}
    BY <1>6, <1>10, <1>11, <2>1
  <2>6. full(n) = full(g)
    <3>1. \A k \in Position : k \in full(n) <=> k \in full(g)
      BY <1>6, <1>10, <2>1
    <3>2. full(n) \subseteq full(g) /\ full(g) \subseteq full(n)
      BY <1>11, <3>1
    <3> QED  BY <3>2
  <2>2. used(n) = used(g) \cup {i} /\ full(n) = full(g)
    BY <2>5, <2>6
  <2>3. Cardinality(used(n)) = Cardinality(used(g)) + 1
    BY <1>1, <2>1, <2>2, FS_AddElement
  <2>4. Cardinality(full(n)) = Cardinality(full(g))
    BY <2>2
  <2> QED  BY <1>1, <1>2, <1>7, <2>3, <2>4
<1>8. CASE Len(g.table[i]) = 1
  <2>1. i \in used(g) /\ i \notin full(g) /\ i \in full(n)
    BY <1>4, <1>8, <1>9, <1>10
  <2>5. used(n) = used(g)
    <3>1. \A k \in Position : k \in used(n) <=> k \in used(g)
      BY <1>6, <1>10, <2>1
    <3>2. used(n) \subseteq used(g) /\ used(g) \subseteq used(n)
      BY <1>11, <3>1
    <3> QED  BY <3>2
  <2>6. full(n) = full(g) \cup {i}
    BY <1>6, <1>10, <1>11, <2>1
  <2>2. used(n) = used(g) /\ full(n) = full(g) \cup {i}
    BY <2>5, <2>6
  <2>3. Cardinality(full(n)) = Cardinality(full(g)) + 1
    BY <1>1, <2>1, <2>2, FS_AddElement
  <2>4. Cardinality(used(n)) = Cardinality(used(g))
    BY <2>2
  <2> QED  BY <1>1, <1>2, <1>8, <2>3, <2>4
<1> QED  BY <1>7, <1>8

\* The counts depend on the table, the defender and its hand.
LEMMA SameAnswer ==
  ASSUME game'.table = game.table, game'.defender = game.defender, game'.hand = game.hand
  PROVE  defenderCanAnswer => defenderCanAnswer'
  BY DEF defenderCanAnswer, unbeaten, attackerCardsOnTableSize, defenderCardsOnTableSize

\* While a bout is played, an update leaves the cards and the roles as they are.
LEMMA UpdateInBout ==
  ASSUME IInv, MovePhase, NEW t \in Elapsed, Update(t)
  PROVE  game'.table = game.table /\ game'.defender = game.defender /\ game'.hand = game.hand
<1>1. game \in GameType
  BY DEF IInv, GoodGame
<1>2. game.phase # "StartingGame" /\ game.phase # "RefillPhase"
  BY DEF MovePhase
<1>3. SetNewPhase(t) \/ MainPlayerMoveEnds \/ MainPlayerMovePasses
        \/ EveryPlayerMoveEnds \/ EveryPlayerMoveReturns
  BY <1>2 DEF Update, DealAtStart, IdentifyTrumpCard, TrumpCardShown, DealExtraCards,
              IdentifyFirstMove, StartFirstMove, ClearTable, ClearTableShown, DealAtRefill,
              CheckForWinnersAndLoser, RewardPlayer, WaitForReward, NextTurn, GameOver,
              Refilling, InPhase
<1>4. CASE SetNewPhase(t)
  BY <1>1, <1>4 DEF SetNewPhase, GameType
<1>5. CASE MainPlayerMoveEnds \/ EveryPlayerMoveEnds
  BY <1>5 DEF MainPlayerMoveEnds, EveryPlayerMoveEnds, EndBout
<1>6. CASE MainPlayerMovePasses
  BY <1>1, <1>6 DEF MainPlayerMovePasses, GameType
<1>7. CASE EveryPlayerMoveReturns
  BY <1>1, <1>7 DEF EveryPlayerMoveReturns, GameType
<1> QED  BY <1>3, <1>4, <1>5, <1>6, <1>7

\* A toss of another player that finds room leaves the defender able to answer.
LEMMA TossAnswerable ==
  ASSUME IInv, defenderCanAnswer, NEW s \in GameSeat, NEW c \in game.hand[s], Toss(s, c),
         s # game.defender
  PROVE  defenderCanAnswer'
<1> DEFINE i == attackerCardsOnTableSize(game)
           n == tossed(game, s, i, c)
           d == game.defender
<1>1. GoodGame(game) /\ game \in GameType /\ c \in Card
  BY GameFields DEF IInv, GoodGame
<1>2. MovePhase /\ i \in Position /\ Cardinality(game.hand[d]) # unbeaten(game)
  BY <1>1, TableSizes DEF Toss, canToss
<1>3. d \in GameSeat
  BY <1>2 DEF IInv, Roles, RolesKnown, MovePhase
<1>4. IsFiniteSet(game.hand[d]) /\ Cardinality(game.hand[d]) \in Nat
  BY <1>1, <1>3, GameFields, CardsFinite, FS_Subset, FS_CardinalityType
<1>5. game'.table = n.table /\ game'.hand = n.hand /\ game'.defender = n.defender
  <2>1. /\ n \in [phase : {n.phase}, deck : {n.deck}, boneyard : {n.boneyard}, table : {n.table},
                  hand : {n.hand}, pass : {n.pass}, winner : {n.winner}, attacker : {n.attacker},
                  defender : {n.defender}, trump : {n.trump}]
    BY <1>1 DEF tossed, putOnTable, GameType
  <2>2. game' = n \/ game' = [n EXCEPT !.pass[s] = @ \/ n.hand[s] = {}]
    BY DEF Toss
  <2> HIDE DEF n
  <2> QED  BY <2>1, <2>2
<1>6. CASE game.table[i] = <<>>
  <2>1. n = withCardAt(withoutCard(game, s, c), i, c)
    BY <1>6 DEF tossed, putOnTable, withoutCard, withCardAt
  <2> HIDE DEF n, i
  <2>2. Len(game.table[i]) = 0
    BY <1>6, EmptySeq
  <2>3. /\ GoodGame(n) /\ n.defender = d /\ n.hand[d] = game.hand[d]
        /\ n.table[i] = Append(game.table[i], c)
        /\ \A k \in Position \ {i} : n.table[k] = game.table[k]
    BY <1>1, <1>2, <1>3, <2>1, <2>2, PutWithRoom
  <2>4. n \in GameType
    BY <2>3 DEF GoodGame
  <2>5. unbeaten(game) \in Int /\ unbeaten(n) = unbeaten(game) + 1
    BY <1>1, <1>2, <2>2, <2>3, <2>4, PlayedCount
  <2>6. unbeaten(n) <= Cardinality(game.hand[d])
    BY <1>2, <1>4, <2>5 DEF defenderCanAnswer
  <2> QED  BY <1>5, <2>3, <2>6
           DEF defenderCanAnswer, unbeaten, attackerCardsOnTableSize, defenderCardsOnTableSize
<1>7. CASE game.table[i] # <<>>
  <2>1. n = withoutCard(game, s, c)
    BY <1>7 DEF tossed, putOnTable, withoutCard
  <2> HIDE DEF n, i
  <2>2. n.defender = d /\ n.hand[d] = game.hand[d] /\ n.table = game.table
    BY <1>1, <1>3, <2>1, PutWithoutRoom
  <2> QED  BY <1>5, <2>2
           DEF defenderCanAnswer, unbeaten, attackerCardsOnTableSize, defenderCardsOnTableSize
<1> QED  BY <1>6, <1>7

\* A card that beats another one is one card less in the hand, and one less to beat.
LEMMA BeatAnswerable ==
  ASSUME IInv, defenderCanAnswer, NEW s \in GameSeat, NEW c \in game.hand[s], NEW i \in Position,
         Beat(s, i, c)
  PROVE  defenderCanAnswer'
<1> DEFINE n == beaten(game, s, i, c)
<1>1. GoodGame(game) /\ game \in GameType /\ c \in Card
  BY GameFields DEF IInv, GoodGame
<1>2. Len(game.table[i]) = 1 /\ s = game.defender
  BY DEF Beat, canBeat
<1>3. IsFiniteSet(game.hand[s]) /\ Cardinality(game.hand[s]) \in Nat
  BY <1>1, GameFields, CardsFinite, FS_Subset, FS_CardinalityType
<1>4. n = withCardAt(withoutCard(game, s, c), i, c)
  BY <1>2 DEF beaten, putOnTable, withoutCard, withCardAt
<1>11. game' = n
  BY DEF Beat
<1> HIDE DEF n
<1>5. Len(game.table[i]) < 2
  BY <1>2
<1>6. /\ GoodGame(n) /\ n.defender = s /\ n.hand[s] = game.hand[s] \ {c}
      /\ n.table[i] = Append(game.table[i], c)
      /\ \A k \in Position \ {i} : n.table[k] = game.table[k]
  <2>1. n.defender = game.defender
    BY <1>1, <1>4, <1>5, PutWithRoom
  <2>2. n.hand[s] = game.hand[s] \ {c}
    BY <1>1, <1>4, <1>5, PutWithRoom
  <2>3. GoodGame(n)
    BY <1>1, <1>4, <1>5, PutWithRoom
  <2>4. n.table[i] = Append(game.table[i], c)
    BY <1>1, <1>4, <1>5, PutWithRoom
  <2>5. \A k \in Position \ {i} : n.table[k] = game.table[k]
    BY <1>1, <1>4, <1>5, PutWithRoom
  <2> QED  BY <1>2, <2>1, <2>2, <2>3, <2>4, <2>5
<1>7. n \in GameType
  BY <1>6 DEF GoodGame
<1>8. unbeaten(game) \in Int /\ unbeaten(n) = unbeaten(game) - 1
  BY <1>1, <1>2, <1>6, <1>7, PlayedCount
<1>9. Cardinality(n.hand[s]) = Cardinality(game.hand[s]) - 1
  BY <1>3, <1>6, FS_RemoveElement
<1>10. unbeaten(n) <= Cardinality(n.hand[s])
  BY <1>2, <1>3, <1>8, <1>9 DEF defenderCanAnswer
<1> QED  BY <1>2, <1>6, <1>10, <1>11
         DEF defenderCanAnswer, unbeaten, attackerCardsOnTableSize, defenderCardsOnTableSize

(***************************************************************************)
(* The defender never faces more unbeaten cards than it holds unless it    *)
(* tosses to itself, so no other player ever passes the comparison of      *)
(* canToss with a negative difference.                                     *)
(***************************************************************************)
THEOREM DefenderIsNotOverloaded == Spec => OthersNeverOverload
<1>1. ASSUME IInv, [Next]_vars
      PROVE  answerable
  <2> SUFFICES ASSUME MovePhase, defenderCanAnswer
               PROVE  defenderCanAnswer' \/ \E c \in Card : Toss(game.defender, c)
    BY DEF answerable
  <2>1. CASE UNCHANGED vars
    BY <2>1, SameAnswer DEF vars
  <2>2. ASSUME NEW t \in Elapsed, Update(t)
        PROVE  defenderCanAnswer'
    BY <1>1, <2>2, UpdateInBout, SameAnswer
  <2>3. ASSUME NEW s \in GameSeat, Move(s)
        PROVE  defenderCanAnswer' \/ \E c \in Card : Toss(game.defender, c)
    <3>1. ASSUME NEW c \in game.hand[s], Toss(s, c)
          PROVE  defenderCanAnswer' \/ \E o \in Card : Toss(game.defender, o)
      <4>1. c \in Card
        BY <1>1, GameFields DEF IInv, GoodGame
      <4>2. CASE s = game.defender
        BY <3>1, <4>1, <4>2
      <4>3. CASE s # game.defender
        BY <1>1, <3>1, <4>3, TossAnswerable
      <4> QED  BY <4>2, <4>3
    <3>2. ASSUME NEW c \in game.hand[s], NEW i \in Position, Beat(s, i, c)
          PROVE  defenderCanAnswer'
      BY <1>1, <3>2, BeatAnswerable
    <3>3. CASE PassAction(s)
      <4>1. game \in GameType
        BY <1>1 DEF IInv, GoodGame
      <4>2. game'.table = game.table /\ game'.defender = game.defender /\ game'.hand = game.hand
        BY <3>3, <4>1 DEF PassAction, GameType
      <4> QED  BY <4>2, SameAnswer
    <3> QED  BY <2>3, <3>1, <3>2, <3>3 DEF Move
  <2> QED  BY <1>1, <2>1, <2>2, <2>3 DEF Next
<1>2. IInv /\ [Next]_vars => [answerable]_vars
  BY <1>1
<1> QED  BY <1>2, AlwaysIInv, PTL DEF Spec, OthersNeverOverload

=============================================================================
