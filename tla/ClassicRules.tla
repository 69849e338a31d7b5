------------------------------ MODULE ClassicRules ------------------------------
(***************************************************************************)
(* The rules of the classic game over GameState: the phases of update, one *)
(* action per step it can take in a frame, and the players' three moves,   *)
(* whose handlers stand at the end of ClassicRules.cpp in a comment, as    *)
(* their subscriptions do.  They are modelled as written there.            *)
(*                                                                         *)
(* The timer is read in two ways only: against the delay between two cards *)
(* that are dealt, and against delays that are all longer.  A frame finds  *)
(* it at a class t of Elapsed; where a step resets the timer and goes on,  *)
(* the rest of the step finds it at zero.                                  *)
(***************************************************************************)
EXTENDS GameState, Functions

CONSTANTS Deck,               \* the decks a game may start from
          PassAnyTime         \* may a player pass also when nobody is to move?

\* No card is twice in a deck, and one is left for the trump when everybody has
\* been dealt a hand.
ASSUME DeckAssumption ==
  \A d \in Deck :
    /\ d \in Seq(Card) /\ IsInjective(d)
    /\ Len(d) > Players * TotalCardsInHands

VARIABLES game, rules
vars == <<game, rules>>

Elapsed == 0..2
DealDelayTime == 1
LongDelayTime == 2

initialRules ==
  [ maxCards |-> TotalCardsInHands, dealSeat |-> 0,
    allPass |-> FALSE, allBeaten |-> TRUE, limit |-> FALSE, defended |-> FALSE,
    extraTossed |-> FALSE, attackersOrder |-> <<>>,
    candidates |-> <<>>, winners |-> <<>>, loser |-> NoSeat, awarded |-> 0,
    changing |-> FALSE, newPhase |-> "None",
    dealt |-> FALSE, trumpShown |-> FALSE, firstMoveFound |-> FALSE,
    cleared |-> FALSE, clearShown |-> FALSE, checked |-> FALSE, rewarded |-> FALSE,
    bouts |-> 0 ]                                        \* history: bouts that ended

Init ==
  /\ \E d \in Deck : game = initialGame(d)
  /\ rules = initialRules

after(s) == (s + 1) % Players
preparePhaseChange(r, p) == [r EXCEPT !.changing = TRUE, !.newPhase = p]
withRoles(g, a, d) == [g EXCEPT !.attacker = a, !.defender = d]

\* The update of a phase other than StartingGame, while no change is prepared.
InPhase(p) == game.phase = p /\ ~rules.changing

SetNewPhase(t) ==
  /\ rules.changing
  /\ t >= LongDelayTime
  /\ game' = [game EXCEPT !.phase = rules.newPhase]
  /\ rules' = [rules EXCEPT !.changing = FALSE]

-----------------------------------------------------------------------------
(* StartingGame *)

needToDeal == game.deck # <<>> /\ \E s \in GameSeat : Cardinality(game.hand[s]) < rules.maxCards

\* dealCards has returned true, in this frame or before.
DealingDone(t) == rules.dealt \/ (t >= DealDelayTime /\ ~needToDeal)

DealAtStart(t) ==
  /\ game.phase = "StartingGame"
  /\ ~rules.dealt /\ needToDeal
  /\ t >= DealDelayTime
  /\ game' = dealOneCard(game, rules.dealSeat)
  /\ rules' = [rules EXCEPT !.dealSeat = after(@)]

IdentifyTrumpCard(t) ==
  /\ game.phase = "StartingGame"
  /\ DealingDone(t)
  /\ ~rules.trumpShown /\ game.trump = NoTrump
  /\ game' = identifyTrumpCard(game)
  /\ rules' = [rules EXCEPT !.dealt = TRUE]

TrumpCardShown(t) ==
  /\ game.phase = "StartingGame"
  /\ DealingDone(t)
  /\ ~rules.trumpShown /\ game.trump # NoTrump
  /\ t >= LongDelayTime
  /\ rules' = [rules EXCEPT !.dealt = TRUE, !.trumpShown = TRUE]
  /\ UNCHANGED game

\* Nobody holds a trump: everybody gets one more card.
DealExtraCards(t) ==
  /\ game.phase = "StartingGame"
  /\ DealingDone(t)
  /\ rules.trumpShown /\ ~rules.firstMoveFound
  /\ allTrumps(game) = {}
  /\ rules' = [rules EXCEPT !.maxCards = @ + 1, !.dealt = FALSE]
  /\ UNCHANGED game

IdentifyFirstMove(t) ==
  /\ game.phase = "StartingGame"
  /\ DealingDone(t)
  /\ rules.trumpShown /\ ~rules.firstMoveFound
  /\ allTrumps(game) # {}
  /\ LET first == findPlayerWithLowestTrump(game)
     IN  game' = withRoles(game, first, after(first))
  /\ rules' = [rules EXCEPT !.maxCards = TotalCardsInHands, !.dealt = TRUE,
                            !.firstMoveFound = TRUE]

StartFirstMove(t) ==
  /\ game.phase = "StartingGame"
  /\ rules.firstMoveFound
  /\ t >= LongDelayTime
  /\ game' = [game EXCEPT !.phase = "MainPlayerMove"]
  /\ UNCHANGED rules

-----------------------------------------------------------------------------
(* MainPlayerMove and EveryPlayerMove *)

attackerPassed == game.pass[game.attacker]
defenderPassed == game.pass[game.defender]

\* Whether the bout ends in this frame, and with the defender beaten or not.
taken ==
  IF Players = 2
    THEN defenderPassed /\ (attackerPassed \/ rules.limit)
    ELSE rules.allPass /\ ~rules.allBeaten /\ defenderPassed
repelled ==
  IF Players = 2
    THEN ~taken /\ attackerPassed /\ rules.allBeaten
    ELSE rules.allPass /\ rules.allBeaten

EndBout(d) ==
  /\ rules' = preparePhaseChange([rules EXCEPT !.defended = d], "RefillPhase")
  /\ UNCHANGED game

MainPlayerMoveEnds ==
  /\ InPhase("MainPlayerMove")
  /\ \/ repelled /\ EndBout(TRUE)
     \/ taken /\ EndBout(FALSE)

\* The main attacker has passed: the others may attack.
MainPlayerMovePasses ==
  /\ InPhase("MainPlayerMove")
  /\ Players > 2
  /\ attackerPassed /\ ~rules.allPass /\ ~rules.limit
  /\ game' = [game EXCEPT !.pass[game.attacker] = FALSE]
  /\ rules' = preparePhaseChange(rules, "EveryPlayerMove")

EveryPlayerMoveEnds ==
  /\ InPhase("EveryPlayerMove")
  /\ \/ rules.allPass /\ rules.allBeaten /\ EndBout(TRUE)
     \/ /\ ~(rules.allPass /\ rules.allBeaten)
        /\ defenderPassed /\ (rules.allPass \/ rules.limit)
        /\ EndBout(FALSE)

\* Another attacker has tossed: the main attacker may go on.
EveryPlayerMoveReturns ==
  /\ InPhase("EveryPlayerMove")
  /\ ~(rules.allPass /\ rules.allBeaten) /\ ~defenderPassed
  /\ rules.extraTossed /\ game.hand[game.attacker] # {} /\ ~rules.limit
  /\ game' = [game EXCEPT !.pass =
                [s \in GameSeat |-> IF s = game.defender \/ game.hand[s] = {} THEN @[s] ELSE FALSE]]
  /\ rules' = preparePhaseChange([rules EXCEPT !.extraTossed = FALSE], "MainPlayerMove")

-----------------------------------------------------------------------------
(* RefillPhase *)

ClearTable ==
  /\ InPhase("RefillPhase")
  /\ ~rules.cleared
  /\ game' = IF rules.defended THEN moveTableCardsToBoneyard(game)
                               ELSE moveTableCardsToHand(game, game.defender)
  /\ rules' = [rules EXCEPT !.cleared = TRUE]

ClearTableShown(t) ==
  /\ InPhase("RefillPhase")
  /\ rules.cleared /\ ~rules.clearShown
  /\ t >= LongDelayTime
  /\ rules' = [rules EXCEPT !.clearShown = TRUE]
  /\ UNCHANGED game

Refilling == InPhase("RefillPhase") /\ rules.clearShown

\* The last of the attackers, in the order they joined in, who lacks a card.
nextToRefill ==
  LET lacking == {i \in DOMAIN rules.attackersOrder :
                    Cardinality(game.hand[rules.attackersOrder[i]]) < TotalCardsInHands}
  IN  IF lacking = {} THEN game.defender
      ELSE rules.attackersOrder[CHOOSE i \in lacking : \A j \in lacking : j <= i]

DealAtRefill(t) ==
  /\ Refilling
  /\ ~rules.dealt /\ needToDeal
  /\ t >= DealDelayTime
  /\ game' = dealOneCard(game, nextToRefill)
  /\ rules' = [rules EXCEPT !.dealSeat = nextToRefill]

\* One turn of the loop of checkForWinnersAndLoser, for the candidate s.
award(acc, s) ==
  IF game.hand[s] # {} THEN acc
  ELSE LET won  == [acc.won EXCEPT ![s] = TRUE]
           list == Append(acc.list, s)
           last == {o \in GameSeat : ~won[o]}
       IN  [ won |-> won, list |-> list,
             loser |-> IF Len(list) = Players - 1
                         THEN CHOOSE o \in last : \A q \in last : o <= q
                         ELSE acc.loser ]

\* What the loop has after its first i turns.
awardsAfter[i \in 0..Len(rules.candidates)] ==
  IF i = 0 THEN [won |-> game.winner, list |-> rules.winners, loser |-> rules.loser]
  ELSE award(awardsAfter[i - 1], rules.candidates[i])

awards == awardsAfter[Len(rules.candidates)]

\* checkForWinnersAndLoser does not return early.
ToCheck ==
  /\ ~rules.checked
  /\ rules.loser = NoSeat /\ rules.candidates # <<>> /\ game.deck = <<>>

CheckForWinnersAndLoser(t) ==
  /\ Refilling /\ DealingDone(t) /\ ToCheck
  /\ game' = [game EXCEPT !.winner = awards.won]
  /\ rules' = [rules EXCEPT !.winners = awards.list, !.loser = awards.loser,
                            !.candidates = <<>>, !.checked = TRUE, !.dealt = TRUE]

RewardPlayer(t) ==
  /\ Refilling /\ DealingDone(t) /\ ~ToCheck
  /\ ~rules.rewarded /\ rules.awarded # Len(rules.winners)
  /\ t >= LongDelayTime
  /\ rules' = [rules EXCEPT !.awarded = @ + 1, !.dealt = TRUE]
  /\ UNCHANGED game

\* The frame waits for the next reward, having seen that no card is to be dealt.
WaitForReward(t) ==
  /\ Refilling /\ DealingDone(t) /\ ~ToCheck
  /\ ~rules.rewarded /\ t < LongDelayTime
  /\ rules' = [rules EXCEPT !.dealt = TRUE]
  /\ UNCHANGED game

RewardsDone_Counted(t) ==               \* mutant: every player gets a reward
  \/ rules.rewarded
  \/ rules.awarded = Players /\ t >= LongDelayTime

RewardsDone(t) ==
  \/ rules.rewarded
  \/ rules.awarded = Len(rules.winners) /\ t >= LongDelayTime

\* The first seat from s on whose player is still in the game.
stillPlaying(s) ==
  LET at(k) == (s + k) % Players
      n == CHOOSE k \in GameSeat :
             /\ ~game.winner[at(k)]
             /\ \A j \in 0..(k - 1) : game.winner[at(j)]
  IN  at(n)

nextAttacker == stillPlaying(IF rules.defended THEN game.defender ELSE after(game.defender))
nextDefender_Neighbour == after(nextAttacker)   \* mutant: winners are not skipped
nextDefender == stillPlaying(after(nextAttacker))

turnReset(r) ==
  [r EXCEPT !.cleared = FALSE, !.clearShown = FALSE, !.dealt = FALSE,
            !.checked = FALSE, !.rewarded = FALSE, !.extraTossed = FALSE,
            !.bouts = @ + 1]

NextTurn(t) ==
  /\ Refilling /\ DealingDone(t) /\ ~ToCheck /\ RewardsDone(t)
  /\ rules.loser = NoSeat
  /\ game' = [withRoles(game, nextAttacker, nextDefender) EXCEPT
                !.pass = [s \in GameSeat |-> IF game.winner[s] THEN @[s] ELSE FALSE]]
  /\ rules' = preparePhaseChange(turnReset([rules EXCEPT !.defended = FALSE]), "MainPlayerMove")

\* Nothing follows yet: the rules stay here for good.
GameOver(t) ==
  /\ Refilling /\ DealingDone(t) /\ ~ToCheck /\ RewardsDone(t)
  /\ rules.loser # NoSeat
  /\ rules' = [rules EXCEPT !.rewarded = TRUE, !.dealt = TRUE]
  /\ UNCHANGED game

-----------------------------------------------------------------------------
(* The players' moves *)

\* recalculateRuleState: what the update reads of the table and of the passes.
recalculated(r, g) ==
  [r EXCEPT !.allBeaten = unbeaten(g) = 0,
            !.limit = attackerCardsOnTableSize(g) = MaxTablePositions,
            !.allPass = \A s \in GameSeat \ {g.defender} : g.pass[s]]

MovePhase == game.phase \in {"MainPlayerMove", "EveryPlayerMove"}

\* The subtraction is one of unsigned numbers, so only zero is refused.
canToss_AnyNumber(s, c) ==              \* mutant: the defender's hand is not looked at
  /\ MovePhase
  /\ attackerCardsOnTableSize(game) < MaxTablePositions
  /\ getTableCards(game) # {} =>
       c \in game.hand[s] /\ \E o \in getTableCards(game) : o.rank = c.rank

canToss(s, c) ==
  /\ MovePhase
  /\ attackerCardsOnTableSize(game) < MaxTablePositions
  /\ Cardinality(game.hand[game.defender]) # unbeaten(game)
  /\ getTableCards(game) # {} =>
       c \in game.hand[s] /\ \E o \in getTableCards(game) : o.rank = c.rank

\* Only tosses that have a card to move: the others change nothing.
Toss(s, c) ==
  LET i == attackerCardsOnTableSize(game)
      thrown == tossed(game, s, i, c)
      out == thrown.hand[s] = {}
      r == recalculated(rules, thrown)
  IN  /\ canToss(s, c) /\ c \in game.hand[s]
      /\ IF game.table[i] # <<>>
           THEN game' = thrown /\ UNCHANGED rules
           ELSE /\ game' = [thrown EXCEPT !.pass[s] = @ \/ out]
                /\ rules' =
                     [r EXCEPT
                        !.attackersOrder = IF s \in {@[j] : j \in DOMAIN @} THEN Append(@, s) ELSE @,
                        !.extraTossed = @ \/ s # game.attacker,
                        !.candidates = IF out THEN Append(@, s) ELSE @]

covers(c, o) ==
  IF c.suit = game.trump
    THEN o.suit # game.trump \/ c.rank > o.rank
    ELSE c.suit = o.suit /\ c.rank >= o.rank

canBeat(s, i, c) ==
  /\ MovePhase
  /\ Len(game.table[i]) = 1
  /\ s = game.defender /\ c \in game.hand[s]
  /\ covers(c, game.table[i][1])

Beat(s, i, c) ==
  LET thrown == beaten(game, s, i, c)
      r == recalculated(rules, thrown)
  IN  /\ canBeat(s, i, c)
      /\ game' = thrown
      /\ rules' = [r EXCEPT !.candidates = IF thrown.hand[s] = {} THEN Append(@, s) ELSE @]

PassAction(s) ==
  /\ PassAnyTime \/ MovePhase
  /\ ~game.pass[s]
  /\ game' = [game EXCEPT !.pass[s] = TRUE]
  /\ UNCHANGED rules

-----------------------------------------------------------------------------
Update(t) ==
  \/ SetNewPhase(t)
  \/ DealAtStart(t) \/ IdentifyTrumpCard(t) \/ TrumpCardShown(t)
  \/ DealExtraCards(t) \/ IdentifyFirstMove(t) \/ StartFirstMove(t)
  \/ MainPlayerMoveEnds \/ MainPlayerMovePasses
  \/ EveryPlayerMoveEnds \/ EveryPlayerMoveReturns
  \/ ClearTable \/ ClearTableShown(t) \/ DealAtRefill(t)
  \/ CheckForWinnersAndLoser(t) \/ RewardPlayer(t) \/ WaitForReward(t)
  \/ NextTurn(t) \/ GameOver(t)

Move(s) ==
  \/ \E c \in game.hand[s] : Toss(s, c)
  \/ \E c \in game.hand[s], i \in Position : Beat(s, i, c)
  \/ PassAction(s)

Next ==
  \/ \E t \in Elapsed : Update(t)
  \/ \E s \in GameSeat : Move(s)

Spec == Init /\ [][Next]_vars

\* The frame loop calls update for ever, and time passes.
FairSpec == Spec /\ WF_vars(Update(LongDelayTime))

-----------------------------------------------------------------------------
PhaseOrNone == Phase \cup {"None"}
SeatOrNone == GameSeat \cup {NoSeat}

GameType ==
  [ phase : Phase, deck : Seq(Card), boneyard : SUBSET Card,
    table : [Position -> Seq(Card)], hand : [GameSeat -> SUBSET Card],
    pass : [GameSeat -> BOOLEAN], winner : [GameSeat -> BOOLEAN],
    attacker : SeatOrNone, defender : SeatOrNone,
    trump : Suit \cup {NoTrump} ]

RulesType ==
  [ maxCards : Nat, dealSeat : GameSeat,
    allPass : BOOLEAN, allBeaten : BOOLEAN, limit : BOOLEAN, defended : BOOLEAN,
    extraTossed : BOOLEAN, attackersOrder : Seq(GameSeat),
    candidates : Seq(GameSeat), winners : Seq(GameSeat), loser : SeatOrNone, awarded : Nat,
    changing : BOOLEAN, newPhase : PhaseOrNone,
    dealt : BOOLEAN, trumpShown : BOOLEAN, firstMoveFound : BOOLEAN,
    cleared : BOOLEAN, clearShown : BOOLEAN, checked : BOOLEAN, rewarded : BOOLEAN,
    bouts : Nat ]

TypeOK ==
  /\ game \in GameType
  /\ \A i \in Position : Len(game.table[i]) <= 2
  /\ rules \in RulesType

(***************************************************************************)
(* A bout is between two players who are both still in the game: what      *)
(* determineNextTurnRoles calls a logic mistake otherwise, and throws.     *)
(***************************************************************************)
RolesStillPlay ==
  MovePhase =>
    /\ game.attacker # game.defender
    /\ ~game.winner[game.attacker] /\ ~game.winner[game.defender]

\* The places of a card: in hands, in the deck, on the table, in the boneyard.
placesIn(g, c) ==
  Cardinality({s \in GameSeat : c \in g.hand[s]})
    + Cardinality({i \in DOMAIN g.deck : g.deck[i] = c})
    + Cardinality({p \in Position \X {1, 2} :
                     p[2] \in DOMAIN g.table[p[1]] /\ g.table[p[1]][p[2]] = c})
    + Cardinality(g.boneyard \cap {c})

places(c) == placesIn(game, c)

\* However the cards are dealt, tossed, beaten and taken, no card is twice in the game.
NoCardTwice == \A c \in Card : places(c) <= 1

\* The state of a game is one a game can be in: types, cards and roles.
GameConsistent == TypeOK /\ NoCardTwice /\ RolesStillPlay

\* The positions in use are the first ones, as a toss supposes of them.
tableInRow == \A i \in Position : game.table[i] # <<>> => i < attackerCardsOnTableSize(game)

cardsKept == \A c \in Card : tableInRow => places(c)' = places(c)

(***************************************************************************)
(* A card never leaves the game while the positions in use are in a row:   *)
(* the only move that loses a card is a toss to a position that is taken,  *)
(* and only a table that was not cleared completely leads there.           *)
(***************************************************************************)
CardsKeptWhileInRow == [][cardsKept]_game

defenderCanAnswer == unbeaten(game) <= Cardinality(game.hand[game.defender])

answerable ==
  MovePhase /\ defenderCanAnswer /\ MovePhase' => defenderCanAnswer' \/ (\E c \in Card : Toss(game.defender, c))

(***************************************************************************)
(* As long as the defender does not toss to itself, which canToss allows,  *)
(* it never faces more unbeaten cards than it holds: the comparison of     *)
(* unsigned numbers in canToss is not passed by a negative difference.     *)
(***************************************************************************)
OthersNeverOverload == [][answerable]_vars

boutEnds == InPhase("MainPlayerMove") /\ rules'.changing /\ rules'.newPhase = "RefillPhase"

(***************************************************************************)
(* A bout does not end before anything was played in it: there is a card   *)
(* on the table or the main attacker has passed.                           *)
(***************************************************************************)
BoutNeedsAttack == [][boutEnds => getTableCards(game) # {} \/ attackerPassed]_vars

nextTurnPrepared == game.phase = "RefillPhase" /\ rules.changing

\* The next bout begins with an empty table: the last one's cards are cleared.
NewBoutClean == nextTurnPrepared => getTableCards(game) = {}

\* As long as the deck lasts, a bout begins with a full hand for everybody.
HandsRefilled ==
  nextTurnPrepared /\ game.deck # <<>> =>
    \A s \in GameSeat : Cardinality(game.hand[s]) >= TotalCardsInHands

\* The game has a loser only when everybody else has won, with no card left.
LoserIsLast ==
  rules.loser # NoSeat =>
    \A s \in GameSeat \ {rules.loser} : game.winner[s] /\ game.hand[s] = {}

\* The start ends: cards are dealt until somebody has a trump and moves first.
GameStarts == game.phase = "StartingGame" ~> game.phase = "MainPlayerMove"

(***************************************************************************)
(* A refill ends, with the next bout or with a loser: neither the dealing, *)
(* nor the rewards, nor the search for the next roles goes on for ever.    *)
(***************************************************************************)
RefillEnds ==
  game.phase = "RefillPhase" ~> (game.phase = "MainPlayerMove" \/ rules.loser # NoSeat)

\* With frames going on, the phases without moves of the players end.
PhasesEnd == GameStarts /\ RefillEnds

everybodyPassed == MovePhase /\ \A s \in GameSeat : game.winner[s] \/ game.pass[s]

\* When everybody who still plays has passed, the rules go on by themselves.
PassedBoutGoesOn == everybodyPassed ~> (~everybodyPassed \/ rules.changing)

=============================================================================
