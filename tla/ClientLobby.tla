------------------------------- MODULE ClientLobby -------------------------------
(***************************************************************************)
(* A client's copy of the lobby: ClientLobbyState and ClientLobbyLogic as  *)
(* functions on a record of the same type as the server's.                 *)
(*                                                                         *)
(* A function that models a notification returns an outcome and a view.    *)
(* The outcome is "applied" (the code returns true), "refused" (it returns *)
(* false and the caller asks for a snapshot) or the name of the assert of  *)
(* ClientLobbyState that fails first, in the order of the code.            *)
(***************************************************************************)
EXTENDS LobbyLogic

AssertNames == {"invalidSeat", "noSeat", "sameSeat", "swapSameSeat"}

isValidSeatPosition(V, s) == s = QueueSeat \/ s \in 0..(V.ppg - 1)

getPlayerIdBySeatIndex(V, s) ==
  IF s \in 0..(V.ppg - 1) THEN V.seats.playerAt[s] ELSE Nobody

getPlayerSeatIndex(V, p) ==
  IF p \in V.profiles THEN getSeatPositionById(V, p) ELSE Nowhere

\* A seat holds one player; the queue counts as occupied as soon as one waits.
isSeatOccupied(V, s) ==
  IF s = QueueSeat THEN V.queue # << >> ELSE V.seats.playerAt[s] # Nobody

\* The body of movePlayerToSeatPosition is the server's, its asserts are not.
movePlayerToSeatPosition(V, p, s) == changePlayerSeatPosition(V, p, s)

moveOutcome(V, p, s) ==
  CASE ~isValidSeatPosition(V, s)         -> "invalidSeat"
    [] getPlayerSeatIndex(V, p) = Nowhere -> "noSeat"
    [] getPlayerSeatIndex(V, p) = s       -> "sameSeat"
    [] OTHER                              -> "applied"

(***************************************************************************)
(* When the second player waits in the queue the code assigns the FIRST    *)
(* player its own seat and puts it into the queue: the second one ends up  *)
(* nowhere.  (The server, on the same swap, assigns the second one.)       *)
(***************************************************************************)
swapPlayersInView(V, p, q) ==
  LET sp == getPlayerSeatIndex(V, p)
      sq == getPlayerSeatIndex(V, q)
  IN  IF sp # QueueSeat /\ sq = QueueSeat
      THEN [V EXCEPT !.queue = replaceId(@, q, p), !.seats = assignSeat(@, p, sp)]
      ELSE swapPlayersSeatPositions(V, p, q)

applyPlayerConnected(V, p, s) ==
  IF p \in V.profiles \/ isSeatOccupied(V, s)
  THEN [outcome |-> "refused", view |-> V]
  ELSE [outcome |-> "applied", view |-> addPlayer(V, p, s)]

applySeatPositionsChanged(V, p, s) ==
  IF p \notin V.profiles \/ getPlayerIdBySeatIndex(V, s) # Nobody
  THEN [outcome |-> "refused", view |-> V]
  ELSE LET o == moveOutcome(V, p, s)
       IN  [outcome |-> o,
            view |-> IF o = "applied" THEN movePlayerToSeatPosition(V, p, s) ELSE V]

applySeatPositionsSwapped(V, p, q) ==
  LET sp == getPlayerSeatIndex(V, p)
      sq == getPlayerSeatIndex(V, q)
  IN  CASE Nowhere \in {sp, sq} -> [outcome |-> "refused", view |-> V]
        [] sp = sq              -> [outcome |-> "swapSameSeat", view |-> V]
        [] OTHER                -> [outcome |-> "applied",
                                    view |-> swapPlayersInView(V, p, q)]

\* The ids at the dropped seats, in the order in which they are sent to the queue.
movedByShrinking(V, v) ==
  LET at(s) == IF s \in v..(V.ppg - 1) /\ V.seats.playerAt[s] # Nobody
               THEN << V.seats.playerAt[s] >> ELSE << >>
  IN  at(2) \o at(3)

\* The change is made in any case; a client that had to move someone resyncs.
applyPlayersPerGameChange(V, v) ==
  [outcome |-> IF movedByShrinking(V, v) = << >> THEN "applied" ELSE "refused",
   view    |-> playersPerGameChanged(V, v)]

applyLobbyOpenState(V, b) ==
  [outcome |-> IF b = V.open THEN "refused" ELSE "applied",
   view    |-> lobbyOpenChanged(V, b)]

(***************************************************************************)
(* The view built from the packets of a snapshot of lobby L: the settings, *)
(* the players, then the seat map (whose key -1, if present, is pushed to  *)
(* the queue by assignPlayerToSeatPosition), then the queue.               *)
(***************************************************************************)
snapshotOutcome(L) ==
  IF \E s \in Seat : L.seats.playerAt[s] # Nobody /\ ~isValidSeatPosition(L, s)
  THEN "invalidSeat" ELSE "applied"

snapshotView(L) ==
  LET stray == L.seats.playerAt[QueueSeat]
      V     == [L EXCEPT !.hostId = IF HostProfile \in L.profiles THEN HostProfile ELSE Nobody]
  IN  IF stray = Nobody THEN V
      ELSE [V EXCEPT !.seats = erase(@, stray), !.queue = << stray >> \o @]

-----------------------------------------------------------------------------
(***************************************************************************)
(* The user's requests: what LobbyLayer and the panels let the user c ask  *)
(* for, and the conditions under which ClientLobbyLogic accepts it.        *)
(***************************************************************************)
MayChangeSeat(V, c, p, s) ==
  /\ {c, p} \subseteq V.profiles
  /\ c # p => isHost(c)                      \* blockInteraction, then the logic
  /\ V.canMove \/ isHost(c)
  /\ isValidSeatPosition(V, s)               \* the panel shows ppg seats
  /\ getPlayerSeatIndex(V, p) \notin {Nowhere, s}
  /\ getPlayerIdBySeatIndex(V, s) = Nobody

\* Dropped on a seat that is taken: q is the player who sits there.
MaySwap(V, c, p, q) ==
  /\ {c, p, q} \subseteq V.profiles
  /\ isHost(c)
  /\ getPlayerSeatIndex(V, p) # Nowhere
  /\ getPlayerSeatIndex(V, q) \in 0..(V.ppg - 1)
  /\ getPlayerSeatIndex(V, p) # getPlayerSeatIndex(V, q)

\* The two arrows go round 2, 3, 4, so every other value is one click away.
MayChangePlayersPerGame(V, c, v) == isHost(c) /\ v # V.ppg

MayChangeLobbyOpen(V, c, b) == isHost(c) /\ b # V.open

=============================================================================
