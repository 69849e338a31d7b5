------------------------------- MODULE LobbyLogic -------------------------------
(***************************************************************************)
(* LobbyLogic: what the server does with a lobby request.  For each        *)
(* request there is the condition under which the code returns true (the   *)
(* conjunction of its early returns negated) and the lobby it then leaves. *)
(* A request that is not accepted leaves the lobby as it was.  i is the    *)
(* initiator, the id of the profile of the session that sent the request.  *)
(***************************************************************************)
EXTENDS LobbyState

\* Mutant of canJoin: off by one.
canJoinOneMore(L) == Cardinality(L.profiles) <= MaxPlayersInLobby /\ L.open

canJoin(L) == Cardinality(L.profiles) < MaxPlayersInLobby /\ L.open

playerConnected(L, p) ==
  IF isHost(p)
  THEN LET H == [L EXCEPT !.hostId = p]
       IN  addPlayer(H, p, IF isSeatPositionOccupied(H, 0) THEN QueueSeat ELSE 0)
  ELSE addPlayer(L, p, QueueSeat)

\* Mutant of SeatChangeAccepted: the initiator's right to move p is not checked.
SeatChangeAcceptedOfAnyone(L, p, s, i) ==
  /\ L.canMove \/ i = L.hostId
  /\ isSeatPositionCorrect(L, s)
  /\ ~isSeatPositionOccupied(L, s)
  /\ getSeatPositionById(L, p) \notin {Nowhere, s}
  /\ p \in L.profiles

SeatChangeAccepted(L, p, s, i) ==
  /\ L.canMove \/ i = L.hostId
  /\ isSeatPositionCorrect(L, s)
  /\ ~isSeatPositionOccupied(L, s)
  /\ getSeatPositionById(L, p) \notin {Nowhere, s}
  /\ p \in L.profiles
  /\ p # i => isHost(i)

SwapAccepted(L, p, q, i) ==
  /\ i \in L.profiles /\ isHost(i)
  /\ {p, q} \subseteq L.profiles
  /\ Nowhere \notin {getSeatPositionById(L, p), getSeatPositionById(L, q)}
  /\ getSeatPositionById(L, p) # getSeatPositionById(L, q)

PlayersPerGameAccepted(L, v, i) ==
  /\ i \in L.profiles /\ isHost(i)
  /\ v # L.ppg
  /\ v \in MinPlayersPerGame..MaxPlayersPerGame

clearSeat(L, s) ==
  IF L.seats.playerAt[s] = Nobody THEN L
  ELSE changePlayerSeatPosition(L, L.seats.playerAt[s], QueueSeat)

\* Mutant of clearDroppedSeats: the loop starts one seat too late.
clearDroppedSeatsTooLate(L, v) ==
  IF 3 \in (v + 1)..(L.ppg - 1) THEN clearSeat(L, 3) ELSE L

(***************************************************************************)
(* The loop over the dropped seats v .. ppg - 1, in order.  Seats 2 and 3  *)
(* are the only ones a table can drop.                                     *)
(***************************************************************************)
clearDroppedSeats(L, v) ==
  LET two == IF 2 \in v..(L.ppg - 1) THEN clearSeat(L, 2) ELSE L
  IN  IF 3 \in v..(L.ppg - 1) THEN clearSeat(two, 3) ELSE two

playersPerGameChanged(L, v) == [clearDroppedSeats(L, v) EXCEPT !.ppg = v]

LobbyOpenAccepted(L, b, i) == b # L.open /\ i = L.hostId

lobbyOpenChanged(L, b) == [L EXCEPT !.open = b]

=============================================================================
