-------------------------------- MODULE LobbySync --------------------------------
(***************************************************************************)
(* The lobby of the server and the copies of it in the clients, kept in    *)
(* step by packets over TCP: a client applies its user's request to its    *)
(* own copy at once and sends it; the server accepts it and notifies the   *)
(* other clients, or rejects it and sends the requester a snapshot, which  *)
(* replaces that client's copy and is acknowledged.                        *)
(*                                                                         *)
(* Every process runs one thread that handles packets and user events in   *)
(* turn, so a handler is one step.  The process of the host, client 0,     *)
(* holds the server too.                                                   *)
(***************************************************************************)
EXTENDS ClientLobby

CONSTANT MaxRequests      \* bound: how many times users act

ASSUME MaxRequestsAssumption == MaxRequests \in Nat

VARIABLES
  lobby,      \* the server's LobbyState
  session,    \* ClientSession::syncState, per client
  view,       \* ClientModel::clientLobbyState, per client
  sync,       \* ClientModel::syncState, per client
  welcomed,   \* ClientModel::initialized, per client
  down,       \* "up", or the assert that ended the client's process
  toClient,   \* packets on their way to a client
  toServer,   \* packets on their way from a client
  hellos,     \* profiles made so far: the next id of PlayerProfile's counter
  requests,   \* user actions so far
  overlap     \* history: some request was made on a copy that was behind

serverVars == << lobby, session, hellos >>
clientVars == << view, sync, welcomed, down >>
netVars    == << toClient, toServer >>
vars       == << serverVars, clientVars, netVars, requests, overlap >>

Init ==
  /\ lobby    = initialLobby
  /\ session  = [c \in Player |-> "Unsynced"]
  /\ view     = [c \in Player |-> initialLobby]
  /\ sync     = [c \in Player |-> "Unsynced"]
  /\ welcomed = [c \in Player |-> FALSE]
  /\ down     = [c \in Player |-> "up"]
  /\ toClient = [c \in Player |-> << >>]
  /\ toServer = [c \in Player |-> << >>]
  /\ hellos   = 0
  /\ requests = 0
  /\ overlap  = FALSE

-----------------------------------------------------------------------------
(* Packets *)

SeatChangePacket(p, s) == [type |-> "SeatPositionsChange", id |-> p, seat |-> s]
SwapPacket(p, q)       == [type |-> "SeatPositionsSwap", first |-> p, second |-> q]
PpgPacket(v)           == [type |-> "PlayersPerGameChange", value |-> v]
OpenPacket(b)          == [type |-> "LobbyOpenStateChange", isOpen |-> b]
ConnectedPacket(p, s)  == [type |-> "PlayerConnected", id |-> p, seat |-> s]
Welcome                == [type |-> "Welcome"]
SnapshotBegin          == [type |-> "SnapshotBegin"]
SnapshotEnd(L)         == [type |-> "SnapshotEnd", lobby |-> L]
SnapshotAck            == [type |-> "SnapshotAck"]
UpdateRequest          == [type |-> "UpdateRequest"]

RequestTypes ==
  {"SeatPositionsChange", "SeatPositionsSwap", "PlayersPerGameChange", "LobbyOpenStateChange"}
NotifyTypes  == RequestTypes \cup {"PlayerConnected"}

isRequest(m) == m.type \in RequestTypes
hasRequest(c) == \E k \in DOMAIN toServer[c] : isRequest(toServer[c][k])

(***************************************************************************)
(* The parts of a snapshot are queued by one handler and the channel is    *)
(* FIFO, so they arrive in a row: SnapshotEnd carries what they say.       *)
(***************************************************************************)
Snapshot(L) == << SnapshotBegin, SnapshotEnd(L) >>

\* Mutants of broadcast: the requester hears of its own request; the host hears of nothing.
broadcastToAll(chan, m, c) ==
  [d \in Player |-> IF d \in lobby.profiles THEN Append(chan[d], m) ELSE chan[d]]

broadcastNotToHost(chan, m, c) ==
  [d \in Player |-> IF d \in lobby.profiles \ {c, HostProfile} THEN Append(chan[d], m) ELSE chan[d]]

\* broadcast to the sessions of the lobby; one not yet welcomed drops the packet.
broadcast(chan, m, c) ==
  [d \in Player |-> IF d \in lobby.profiles \ {c} THEN Append(chan[d], m) ELSE chan[d]]

-----------------------------------------------------------------------------
(* The server *)

ServerUp == down[HostProfile] = "up"

anyRequest == \E d \in Player : hasRequest(d)

\* onHelloPacket of a client whose token is new
Hello(c) ==
  /\ ServerUp
  /\ c = hellos
  /\ hellos' = hellos + 1
  /\ IF canJoin(lobby)
     THEN LET L == playerConnected(lobby, c)
              m == ConnectedPacket(c, getSeatPositionById(L, c))
          IN  /\ lobby'    = L
              /\ session'  = [session EXCEPT ![c] = "Syncing"]
              /\ toClient' = [broadcast(toClient, m, c) EXCEPT
                                ![c] = << Welcome >> \o Snapshot(L)]
              /\ overlap'  = (overlap \/ anyRequest)
     ELSE UNCHANGED << lobby, session, toClient, overlap >>
  /\ UNCHANGED << clientVars, toServer, requests >>

Accepted(L, m, i) ==
  CASE m.type = "SeatPositionsChange"  -> SeatChangeAccepted(L, m.id, m.seat, i)
    [] m.type = "SeatPositionsSwap"    -> SwapAccepted(L, m.first, m.second, i)
    [] m.type = "PlayersPerGameChange" -> PlayersPerGameAccepted(L, m.value, i)
    [] m.type = "LobbyOpenStateChange" -> LobbyOpenAccepted(L, m.isOpen, i)

\* Mutant of applied: a smaller table keeps the players of the seats it drops.
appliedWithoutClearing(L, m) ==
  CASE m.type = "SeatPositionsChange"  -> changePlayerSeatPosition(L, m.id, m.seat)
    [] m.type = "SeatPositionsSwap"    -> swapPlayersSeatPositions(L, m.first, m.second)
    [] m.type = "PlayersPerGameChange" -> [L EXCEPT !.ppg = m.value]
    [] m.type = "LobbyOpenStateChange" -> lobbyOpenChanged(L, m.isOpen)

applied(L, m) ==
  CASE m.type = "SeatPositionsChange"  -> changePlayerSeatPosition(L, m.id, m.seat)
    [] m.type = "SeatPositionsSwap"    -> swapPlayersSeatPositions(L, m.first, m.second)
    [] m.type = "PlayersPerGameChange" -> playersPerGameChanged(L, m.value)
    [] m.type = "LobbyOpenStateChange" -> lobbyOpenChanged(L, m.isOpen)

Arrived(c) ==
  /\ ServerUp
  /\ toServer[c] # << >>
  /\ toServer' = [toServer EXCEPT ![c] = Tail(@)]
  /\ UNCHANGED << hellos, clientVars, requests, overlap >>

AcceptRequest(c) ==
  /\ Arrived(c)
  /\ LET m == Head(toServer[c])
     IN  /\ isRequest(m) /\ Accepted(lobby, m, c)
         /\ lobby' = applied(lobby, m)
         /\ toClient' = broadcast(toClient, m, c)
  /\ UNCHANGED session

\* Mutant of RejectRequest: a second snapshot is sent before the first is acknowledged.
RejectWhileSyncing(c) ==
  /\ Arrived(c)
  /\ LET m == Head(toServer[c]) IN isRequest(m) /\ ~Accepted(lobby, m, c)
  /\ session'  = [session EXCEPT ![c] = "Syncing"]
  /\ toClient' = [toClient EXCEPT ![c] = @ \o Snapshot(lobby)]
  /\ UNCHANGED lobby

\* sendFullSnapshotUpdate: silent while an earlier snapshot is unacknowledged.
RejectRequest(c) ==
  /\ Arrived(c)
  /\ LET m == Head(toServer[c]) IN isRequest(m) /\ ~Accepted(lobby, m, c)
  /\ IF session[c] = "Syncing"
     THEN UNCHANGED << session, toClient >>
     ELSE /\ session'  = [session EXCEPT ![c] = "Syncing"]
          /\ toClient' = [toClient EXCEPT ![c] = @ \o Snapshot(lobby)]
  /\ UNCHANGED lobby

onSnapshotAck(c) ==
  /\ Arrived(c)
  /\ Head(toServer[c]) = SnapshotAck
  /\ session' = [session EXCEPT ![c] = "Synced"]
  /\ UNCHANGED << lobby, toClient >>

\* Server::registerHandlers has no handler for UpdateRequest: dispatch drops it.
DropUpdateRequest(c) ==
  /\ Arrived(c)
  /\ Head(toServer[c]) = UpdateRequest
  /\ UNCHANGED << lobby, session, toClient >>

ServerStep(c) ==
  Hello(c) \/ AcceptRequest(c) \/ RejectRequest(c) \/ onSnapshotAck(c) \/ DropUpdateRequest(c)

-----------------------------------------------------------------------------
(* A client receives a packet *)

Received(c) ==
  /\ down[c] = "up"
  /\ toClient[c] # << >>
  /\ toClient' = [toClient EXCEPT ![c] = Tail(@)]
  /\ UNCHANGED << serverVars, requests, overlap >>

onWelcome(c) ==
  /\ Received(c)
  /\ Head(toClient[c]) = Welcome
  /\ view'     = [view EXCEPT ![c] = initialLobby]
  /\ welcomed' = [welcomed EXCEPT ![c] = TRUE]
  /\ UNCHANGED << sync, down, toServer >>

onSnapshotBegin(c) ==
  /\ Received(c)
  /\ Head(toClient[c]) = SnapshotBegin
  /\ sync' = [sync EXCEPT ![c] = "Syncing"]
  /\ UNCHANGED << view, welcomed, down, toServer >>

\* Mutant of onSnapshotEnd: the snapshot is not acknowledged.
SnapshotEndWithoutAck(c) ==
  /\ Received(c)
  /\ Head(toClient[c]).type = "SnapshotEnd"
  /\ view' = [view EXCEPT ![c] = snapshotView(Head(toClient[c]).lobby)]
  /\ sync' = [sync EXCEPT ![c] = "Synced"]
  /\ UNCHANGED << welcomed, down, toServer >>

onSnapshotEnd(c) ==
  /\ Received(c)
  /\ Head(toClient[c]).type = "SnapshotEnd"
  /\ LET L == Head(toClient[c]).lobby
     IN  IF snapshotOutcome(L) = "applied"
         THEN /\ view'     = [view EXCEPT ![c] = snapshotView(L)]
              /\ sync'     = [sync EXCEPT ![c] = "Synced"]
              /\ toServer' = [toServer EXCEPT ![c] = Append(@, SnapshotAck)]
              /\ UNCHANGED down
         ELSE /\ down' = [down EXCEPT ![c] = snapshotOutcome(L)]
              /\ UNCHANGED << view, sync, toServer >>
  /\ UNCHANGED welcomed

notified(V, m) ==
  CASE m.type = "PlayerConnected"      -> applyPlayerConnected(V, m.id, m.seat)
    [] m.type = "SeatPositionsChange"  -> applySeatPositionsChanged(V, m.id, m.seat)
    [] m.type = "SeatPositionsSwap"    -> applySeatPositionsSwapped(V, m.first, m.second)
    [] m.type = "PlayersPerGameChange" -> applyPlayersPerGameChange(V, m.value)
    [] m.type = "LobbyOpenStateChange" -> applyLobbyOpenState(V, m.isOpen)

onNotify(c) ==
  /\ Received(c)
  /\ Head(toClient[c]).type \in NotifyTypes
  /\ sync[c] = "Synced"
  /\ LET r == notified(view[c], Head(toClient[c]))
     IN  /\ view' = [view EXCEPT ![c] = r.view]
         /\ down' = IF r.outcome \in AssertNames
                    THEN [down EXCEPT ![c] = r.outcome] ELSE down
         /\ IF r.outcome = "refused"            \* sendSnapshotUpdateRequest
            THEN /\ sync'     = [sync EXCEPT ![c] = "Syncing"]
                 /\ toServer' = [toServer EXCEPT ![c] = Append(@, UpdateRequest)]
            ELSE UNCHANGED << sync, toServer >>
  /\ UNCHANGED welcomed

\* Only the dispatcher of the Synced state knows the Notify packets.
DropNotify(c) ==
  /\ Received(c)
  /\ Head(toClient[c]).type \in NotifyTypes
  /\ sync[c] # "Synced"
  /\ UNCHANGED << clientVars, toServer >>

ClientStep(c) ==
  onWelcome(c) \/ onSnapshotBegin(c) \/ onSnapshotEnd(c) \/ onNotify(c) \/ DropNotify(c)

-----------------------------------------------------------------------------
(* The user of client c *)

(***************************************************************************)
(* History only: c's copy is what the server will have when the request    *)
(* arrives, provided nobody else acts before.                              *)
(***************************************************************************)
UpToDate(c) ==
  /\ \A d \in Player \ {c} : ~hasRequest(d)
  /\ toClient[c] = << >>
  /\ ~hasRequest(c) => view[c] = lobby

\* The request is applied to the copy at once and its packets are sent.
Ask(c, V, packets) ==
  /\ down[c] = "up" /\ ServerUp /\ welcomed[c]
  /\ requests < MaxRequests
  /\ view'     = [view EXCEPT ![c] = V]
  /\ toServer' = [toServer EXCEPT ![c] = @ \o packets]
  /\ requests' = requests + 1
  /\ overlap'  = (overlap \/ ~UpToDate(c))
  /\ UNCHANGED << serverVars, sync, welcomed, down, toClient >>

AskSeatChange(c, p, s) ==
  /\ MayChangeSeat(view[c], c, p, s)
  /\ Ask(c, movePlayerToSeatPosition(view[c], p, s), << SeatChangePacket(p, s) >>)

AskSwap(c, p, q) ==
  /\ MaySwap(view[c], c, p, q)
  /\ Ask(c, swapPlayersInView(view[c], p, q), << SwapPacket(p, q) >>)

\* Mutant of AskPlayersPerGame: the moves follow the change instead of preceding it.
AskPlayersPerGameFirst(c, v) ==
  /\ MayChangePlayersPerGame(view[c], c, v)
  /\ LET out == movedByShrinking(view[c], v)
     IN  Ask(c, playersPerGameChanged(view[c], v),
             << PpgPacket(v) >> \o [k \in DOMAIN out |-> SeatChangePacket(out[k], QueueSeat)])

\* The players the smaller table has no seat for are sent to the queue first.
AskPlayersPerGame(c, v) ==
  /\ MayChangePlayersPerGame(view[c], c, v)
  /\ LET out == movedByShrinking(view[c], v)
     IN  Ask(c, playersPerGameChanged(view[c], v),
             [k \in DOMAIN out |-> SeatChangePacket(out[k], QueueSeat)] \o << PpgPacket(v) >>)

AskLobbyOpen(c, b) ==
  /\ MayChangeLobbyOpen(view[c], c, b)
  /\ Ask(c, lobbyOpenChanged(view[c], b), << OpenPacket(b) >>)

UserStep(c) ==
  \/ \E p \in Player, s \in Seat : AskSeatChange(c, p, s)
  \/ \E p, q \in Player : AskSwap(c, p, q)
  \/ \E v \in MinPlayersPerGame..MaxPlayersPerGame : AskPlayersPerGame(c, v)
  \/ \E b \in BOOLEAN : AskLobbyOpen(c, b)

Next == \E c \in Player : ServerStep(c) \/ ClientStep(c) \/ UserStep(c)

Spec == Init /\ [][Next]_vars

(***************************************************************************)
(* Every frame of every process handles what has arrived and flushes what  *)
(* is queued, so packets are eventually delivered and handled.  Nothing    *)
(* makes a user act or a new player connect.                               *)
(***************************************************************************)
Deliver(c) ==
  \/ AcceptRequest(c) \/ RejectRequest(c) \/ onSnapshotAck(c) \/ DropUpdateRequest(c)
  \/ ClientStep(c)

FairSpec == Spec /\ \A c \in Player : WF_vars(Deliver(c))

-----------------------------------------------------------------------------
Packet ==
  [type : {"SeatPositionsChange"}, id : Player, seat : Seat]
    \cup [type : {"SeatPositionsSwap"}, first : Player, second : Player]
    \cup [type : {"PlayersPerGameChange"}, value : MinPlayersPerGame..MaxPlayersPerGame]
    \cup [type : {"LobbyOpenStateChange"}, isOpen : BOOLEAN]
    \cup [type : {"PlayerConnected"}, id : Player, seat : Seat]
    \cup [type : {"SnapshotEnd"}, lobby : LobbyType]
    \cup {Welcome, SnapshotBegin, SnapshotAck, UpdateRequest}

TypeOK ==
  /\ lobby \in LobbyType
  /\ session \in [Player -> {"Unsynced", "Syncing", "Synced"}]
  /\ view \in [Player -> LobbyType]
  /\ sync \in [Player -> {"Unsynced", "Syncing", "Synced"}]
  /\ welcomed \in [Player -> BOOLEAN]
  /\ down \in [Player -> {"up"} \cup AssertNames]
  /\ toClient \in [Player -> Seq(Packet)]
  /\ toServer \in [Player -> Seq(Packet)]
  /\ hellos \in Nat
  /\ requests \in 0..MaxRequests
  /\ overlap \in BOOLEAN

(***************************************************************************)
(* The snapshot handshake, with any overlap of requests: a session that is *)
(* Syncing has exactly one snapshot on its way to the client or one        *)
(* acknowledgement on its way back, and one that is not has neither.  Two  *)
(* snapshots never overtake each other, and none is answered twice.        *)
(***************************************************************************)
pending(c) ==
  Cardinality({k \in DOMAIN toClient[c] : toClient[c][k].type = "SnapshotEnd"})
    + Cardinality({k \in DOMAIN toServer[c] : toServer[c][k] = SnapshotAck})

SnapshotHandshake ==
  \A c \in Player : down[c] = "up" =>
    pending(c) = IF session[c] = "Syncing" THEN 1 ELSE 0

\* Every client's seat maps stay inverse to each other, whatever it is notified of.
ViewSeatsInverse == \A c \in Player : MapsInverse(view[c].seats)

\* What no overlap of requests breaks: the types, the handshake, the copies' maps.
SyncConsistent == TypeOK /\ SnapshotHandshake /\ ViewSeatsInverse

(***************************************************************************)
(* Once no request is under way and all that was sent to a synced client   *)
(* has been handled, its copy is the server's lobby, queue order included. *)
(* It holds as long as no two requests overlapped.                         *)
(***************************************************************************)
AgreesWithServer(c) ==
  sync[c] = "Synced" /\ down[c] = "up" /\ toClient[c] = << >> /\ ~anyRequest
    => view[c] = lobby

CopiesAgreeUnlessOverlap == ~overlap => \A c \in Player : AgreesWithServer(c)

\* Without overlapping requests no assert of a client ever fails.
NoAbortUnlessOverlap == ~overlap => \A c \in Player : down[c] = "up"

\* The server refuses no request that was made on an up-to-date copy.
NoRejectUnlessOverlap == [][~overlap => \A c \in Player : ~RejectRequest(c)]_vars

(***************************************************************************)
(* The server's side of this module is LobbyServer with any requests; and, *)
(* as long as requests do not overlap, it is LobbyServer with fresh ones,  *)
(* so what is proved of that one (one place per player, no seat beyond the *)
(* table) holds of the lobby here.                                         *)
(***************************************************************************)
AnyServer   == INSTANCE LobbyServer WITH OnlyFresh <- FALSE
FreshServer == INSTANCE LobbyServer WITH OnlyFresh <- TRUE

ServerIsLobbyServer == AnyServer!Spec /\ [][overlap' \/ FreshServer!Next]_lobby

\* Every snapshot is acknowledged, unless the client or the host has died.
SnapshotsAcknowledged ==
  \A c \in Player :
    session[c] = "Syncing" ~> session[c] = "Synced" \/ down[c] # "up" \/ ~ServerUp

-----------------------------------------------------------------------------
(* What the code's asserts and names claim, and overlapping requests break *)

\* ClientLobbyState.cpp:178 and :95, assert(isValidSeatPosition(seatPosition))
NoInvalidSeatAbort == \A c \in Player : down[c] # "invalidSeat"

\* ClientLobbyState.cpp:182, assert(*currentSeatPositionOpt != seatPosition)
NoSameSeatAbort == \A c \in Player : down[c] # "sameSeat"

\* ClientLobbyState.cpp:207, assert(*firstPlayerSeatIndexOpt != *secondPlayerSeatIndexOpt)
NoSwapSameSeatAbort == \A c \in Player : down[c] # "swapSameSeat"

\* A client that is Synced has the server's lobby once everything is handled.
SyncedCopiesAgree == \A c \in Player : AgreesWithServer(c)

\* A client that asked for a snapshot (UpdateRequest) gets in sync again.
ClientsLeaveSyncing ==
  \A c \in Player :
    sync[c] = "Syncing" ~> sync[c] = "Synced" \/ down[c] # "up" \/ ~ServerUp

=============================================================================
