------------------------------- MODULE LobbyState -------------------------------
(***************************************************************************)
(* The server's LobbyState as a record, and its operations as functions    *)
(* from lobby to lobby.  An operation states what its body does once its   *)
(* asserts hold; LobbyLogic establishes them before every call.            *)
(*                                                                         *)
(* The profile's role lives in PlayerProfile.  LobbyLogic gives the role   *)
(* Host to id 0 and to nobody else, whenever that profile joins, so the    *)
(* role is a function of the id.                                           *)
(***************************************************************************)
EXTENDS SeatPositions, IdQueue

CONSTANT MaxPlayersInLobby

ASSUME MaxPlayersInLobbyAssumption == MaxPlayersInLobby \in Nat \ {0}

HostProfile == 0
isHost(p)   == p = HostProfile

LobbyType ==
  [seats    : SeatPositionsType,
   queue    : Seq(Player),
   profiles : SUBSET Player,           \* playerProfilesInLobby
   open     : BOOLEAN,
   canMove  : BOOLEAN,
   ppg      : MinPlayersPerGame..MaxPlayersPerGame,
   hostId   : {HostProfile, Nobody}]

initialLobby ==
  [seats |-> emptySeats, queue |-> << >>, profiles |-> {}, open |-> TRUE,
   canMove |-> TRUE, ppg |-> MinPlayersPerGame, hostId |-> Nobody]

getSeatPositionById(L, p) ==
  IF L.seats.seatOf[p] # Nowhere THEN L.seats.seatOf[p]
  ELSE IF p \in Ids(L.queue) THEN QueueSeat ELSE Nowhere

(***************************************************************************)
(* The code rejects seat > playersPerGame && seat < 0, the first           *)
(* comparison being unsigned: only the negative numbers other than -1 are  *)
(* refused, and a seat beyond the table passes.                            *)
(***************************************************************************)
isSeatPositionCorrect(L, s) == s = QueueSeat \/ s >= 0

isSeatPositionOccupied(L, s) ==
  IF s = QueueSeat THEN Len(L.queue) >= MaxPlayersInLobby
                   ELSE L.seats.playerAt[s] # Nobody

place(L, p, s) ==
  IF s = QueueSeat THEN [L EXCEPT !.queue = Append(@, p)]
                   ELSE [L EXCEPT !.seats = assignSeat(@, p, s)]

\* Mutant of changePlayerSeatPosition: a player who leaves the queue stays in it.
changeSeatKeepsQueue(L, p, s) == place([L EXCEPT !.seats = erase(@, p)], p, s)

changePlayerSeatPosition(L, p, s) ==
  LET out == IF getSeatPositionById(L, p) = QueueSeat
             THEN [L EXCEPT !.queue = eraseId(@, p)]
             ELSE [L EXCEPT !.seats = erase(@, p)]
  IN  place(out, p, s)

\* Mutant of swapPlayersSeatPositions: a first player from the queue is not replaced in it.
swapKeepsQueue(L, p, q) ==
  IF getSeatPositionById(L, p) = QueueSeat
  THEN [L EXCEPT !.seats = assignSeat(@, p, getSeatPositionById(L, q))]
  ELSE [L EXCEPT !.seats = swapPlayers(@, p, q)]

(***************************************************************************)
(* The middle case is the code's: when the second player waits in the      *)
(* queue, it is the second player that is assigned its own seat, -1, and   *)
(* the first one is written into the queue without leaving its seat.       *)
(***************************************************************************)
swapPlayersSeatPositions(L, p, q) ==
  LET sp == getSeatPositionById(L, p)
      sq == getSeatPositionById(L, q)
  IN  IF sp = QueueSeat
      THEN [L EXCEPT !.queue = replaceId(@, p, q), !.seats = assignSeat(@, p, sq)]
      ELSE IF sq = QueueSeat
      THEN [L EXCEPT !.queue = replaceId(@, q, p), !.seats = assignSeat(@, q, sq)]
      ELSE [L EXCEPT !.seats = swapPlayers(@, p, q)]

addPlayer(L, p, s) == place([L EXCEPT !.profiles = @ \cup {p}], p, s)

\* Mutant of deletePlayer: the queue is forgotten.
deletePlayerKeepsQueue(L, p) ==
  [L EXCEPT !.seats = erase(@, p), !.profiles = @ \ {p}]

deletePlayer(L, p) ==
  [L EXCEPT !.seats = erase(@, p), !.queue = eraseId(@, p), !.profiles = @ \ {p}]

=============================================================================
