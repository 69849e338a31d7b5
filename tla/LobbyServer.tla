------------------------------- MODULE LobbyServer -------------------------------
(***************************************************************************)
(* The lobby as the server keeps it, driven by the packets of its          *)
(* sessions: one action per handler of Server.cpp that changes the lobby.  *)
(* A rejected request changes nothing here (the server answers it with a   *)
(* snapshot, see LobbySync).                                               *)
(*                                                                         *)
(* A client checks a request against its own copy of the lobby before it   *)
(* sends it, and the server checks less.  OnlyFresh says which requests    *)
(* arrive: TRUE, those that the client's checks allow on the lobby the     *)
(* server has when it handles them; FALSE, also those a client made from a *)
(* copy that has since become stale.                                       *)
(***************************************************************************)
EXTENDS LobbyLogic

CONSTANT OnlyFresh

ASSUME OnlyFreshAssumption == OnlyFresh \in BOOLEAN

VARIABLE lobby

Init == lobby = initialLobby

\* onHelloPacket, the branch of a profile that is not in the lobby.  Ids are
\* dealt in the order of the hellos and the first one meets an empty, open
\* lobby: before the host has joined once, nobody else has.
PlayerConnect(p) ==
  /\ isHost(p) \/ lobby.hostId # Nobody
  /\ p \notin lobby.profiles
  /\ canJoin(lobby)
  /\ lobby' = playerConnected(lobby, p)

PlayerDisconnected(p) ==
  /\ p \in lobby.profiles
  /\ lobby' = deletePlayer(lobby, p)

SeatPositionsChange(i, p, s) ==
  /\ OnlyFresh => s < lobby.ppg            \* ClientLobbyState::isValidSeatPosition
  /\ SeatChangeAccepted(lobby, p, s, i)
  /\ lobby' = changePlayerSeatPosition(lobby, p, s)

SeatPositionsSwap(i, p, q) ==
  /\ OnlyFresh => getSeatPositionById(lobby, q) # QueueSeat   \* onLobbyPlayerViewDrop
  /\ SwapAccepted(lobby, p, q, i)
  /\ lobby' = swapPlayersSeatPositions(lobby, p, q)

PlayersPerGameChange(i, v) ==
  /\ PlayersPerGameAccepted(lobby, v, i)
  /\ lobby' = playersPerGameChanged(lobby, v)

LobbyOpenStateChange(i, b) ==
  /\ LobbyOpenAccepted(lobby, b, i)
  /\ lobby' = lobbyOpenChanged(lobby, b)

\* A request of the player i, who is in the lobby.
RequestOf(i) ==
  \/ \E p \in Player, s \in Seat : SeatPositionsChange(i, p, s)
  \/ \E p, q \in Player : SeatPositionsSwap(i, p, q)
  \/ \E v \in MinPlayersPerGame..MaxPlayersPerGame : PlayersPerGameChange(i, v)
  \/ \E b \in BOOLEAN : LobbyOpenStateChange(i, b)

Next ==
  \/ \E p \in Player : PlayerConnect(p)
  \/ \E p \in Player : PlayerDisconnected(p)
  \/ \E i \in lobby.profiles : RequestOf(i)

Spec == Init /\ [][Next]_lobby

-----------------------------------------------------------------------------
TypeOK == lobby \in LobbyType

(***************************************************************************)
(* Whatever requests arrive, in whatever order and however stale, the two  *)
(* maps of SeatPositionsState stay inverse to each other.                  *)
(***************************************************************************)
SeatMapsInverse == MapsInverse(lobby.seats)

(***************************************************************************)
(* Whoever sits at a seat or waits in the queue is a player of the lobby,  *)
(* so a disconnected player leaves no id behind in the seat maps or queue. *)
(***************************************************************************)
OccupantsInLobby ==
  /\ \A p \in Player : lobby.seats.seatOf[p] # Nowhere => p \in lobby.profiles
  /\ Ids(lobby.queue) \subseteq lobby.profiles

\* What holds of the lobby's data whatever requests arrive: type, maps, occupants.
LobbyConsistent == TypeOK /\ SeatMapsInverse /\ OccupantsInLobby

seated(p) == lobby.seats.seatOf[p] # Nowhere
queued(p) == p \in Ids(lobby.queue)

(***************************************************************************)
(* Every player of the lobby is in exactly one place, a seat of the table  *)
(* or one position of the queue.  Needs fresh requests: LobbyLogic checks  *)
(* neither the table's size nor who of the two swapped players is queued.  *)
(***************************************************************************)
OnePlace ==
  /\ \A p \in lobby.profiles : seated(p) <=> ~queued(p)
  /\ IsInjective(lobby.queue)

\* Nobody sits at a seat the table does not have, also right after it shrank.
SeatsInRange ==
  \A p \in Player : seated(p) => lobby.seats.seatOf[p] \in 0..(lobby.ppg - 1)

(***************************************************************************)
(* A seated player can always be sent back to the queue: the assert of     *)
(* changePlayerSeatPosition when the table shrinks, which no check of      *)
(* applyPlayersPerGameChangeRequest precedes.                              *)
(***************************************************************************)
QueueHasRoom ==
  /\ Cardinality(lobby.profiles) <= MaxPlayersInLobby
  /\ (\E p \in Player : seated(p)) => ~isSeatPositionOccupied(lobby, QueueSeat)

position(p) == getSeatPositionById(lobby, p)

swapExchange ==
  \A i \in lobby.profiles, p, q \in Player :
    SeatPositionsSwap(i, p, q) => position(p)' = position(q) /\ position(q)' = position(p)

(***************************************************************************)
(* A swap gives each of the two players the position of the other: what    *)
(* ClientLobbyLogic reports of it as its two SeatChanges.                  *)
(***************************************************************************)
SwapExchanges == [][swapExchange]_lobby

movesOnlyItself(i) ==
  /\ \A p \in Player \ {i} : position(p)' = position(p)
  /\ lobby'.ppg = lobby.ppg /\ lobby'.open = lobby.open

regularRequest ==
  \A i \in lobby.profiles : RequestOf(i) /\ ~isHost(i) => movesOnlyItself(i)

(***************************************************************************)
(* A request of a player who is not the host changes at most that player's *)
(* own position, whatever ids the packet names: no other player moves, and *)
(* the table's size and the lobby's door stay as they are.                 *)
(***************************************************************************)
RegularMovesOnlyItself == [][regularRequest]_lobby

=============================================================================
