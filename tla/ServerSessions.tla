------------------------------ MODULE ServerSessions ------------------------------
(***************************************************************************)
(* The sessions of the server: a connection is accepted, says hello with   *)
(* its token, is let into the lobby or refused, is marked for              *)
(* disconnection and erased; and the programs at the other ends, which     *)
(* start, end without notice and start again with the same token.          *)
(*                                                                         *)
(* A connection k has a session and a client.  The lobby is reduced to its *)
(* members, what a client sees of it to the members it knows (the seats    *)
(* are in LobbyServer and LobbySync), and a snapshot to the welcome it     *)
(* follows.  The steps of a frame are actions of their own, one session    *)
(* and one packet at a time: the frames of the processes interleave.       *)
(***************************************************************************)
EXTENDS Integers, Sequences, FiniteSets, SequencesExt

CONSTANTS Player,             \* who may play: a token each
          MaxPlayersInLobby,
          WhenEmpty,          \* bounds: programs that start, clients that say that
          WhenFull            \* they leave, from an empty and from a full lobby on

ASSUME SessionsAssumption ==
  /\ IsFiniteSet(Player)
  /\ MaxPlayersInLobby \in Nat \ {0}
  /\ WhenEmpty \in [starts : Nat, quits : Nat]
  /\ WhenFull \in [starts : Nat, quits : Nat]

NoProfile == "none"
ASSUME NoProfileAssumption == NoProfile \notin Player

Connection == 1..Max({WhenEmpty.starts, MaxPlayersInLobby + WhenFull.starts})

VARIABLES
  left,       \* bounds: the starts and quits that may still come
  profiles,   \* the tokens the server knows
  members,    \* the players of the lobby
  isOpen,     \* LobbyState::isOpen
  session,    \* ClientSession, per connection
  client,     \* the program at the other end, per connection
  toServer,   \* packets on their way to the server
  toClient    \* packets on their way to the client

vars == <<left, profiles, members, isOpen, session, client, toServer, toClient>>

newSession ==
  [ state |-> "pending", profile |-> NoProfile, broken |-> FALSE,
    marked |-> FALSE, expired |-> FALSE, out |-> <<>> ]

newClient(p) ==
  [ player |-> p, up |-> TRUE, initialized |-> FALSE, sync |-> "Unsynced",
    known |-> {}, told |-> FALSE,
    quit |-> FALSE ]                                 \* history: it said that it leaves

noClient == [newClient(NoProfile) EXCEPT !.up = FALSE]

connected(p, M) ==
  [ session |-> [newSession EXCEPT !.state = "open", !.profile = p],
    client |-> [newClient(p) EXCEPT !.initialized = TRUE, !.sync = "Synced",
                                    !.known = M] ]

\* The server has just started, or the lobby is full, of synchronised players.
Init ==
  /\ profiles \in {{}} \cup {M \in SUBSET Player : Cardinality(M) = MaxPlayersInLobby}
  /\ members = profiles
  /\ left = IF profiles = {} THEN WhenEmpty ELSE WhenFull
  /\ isOpen = TRUE
  /\ \E player \in [1..Cardinality(profiles) -> profiles] :
       /\ IsInjective(player)
       /\ session = [k \in Connection |->
            IF k \in DOMAIN player THEN connected(player[k], members).session ELSE newSession]
       /\ client = [k \in Connection |->
            IF k \in DOMAIN player THEN connected(player[k], members).client ELSE noClient]
  /\ toServer = [k \in Connection |-> <<>>]
  /\ toClient = [k \in Connection |-> <<>>]

-----------------------------------------------------------------------------
(* Packets *)

Hello == [type |-> "Hello"]
UpdateRequest == [type |-> "UpdateRequest"]
PlayerDisconnected == [type |-> "PlayerDisconnected"]
Welcome(M) == [type |-> "Welcome", members |-> M]       \* with the snapshot
ServerDisconnect == [type |-> "ServerDisconnect"]
NotifyPlayerConnected(p) == [type |-> "NotifyPlayerConnected", player |-> p]
NotifyPlayerDisconnected(p) == [type |-> "NotifyPlayerDisconnected", player |-> p]

\* The sessions in Server::clients.
open(k) == session[k].state = "open"

sent(S, k, m) == [S EXCEPT ![k].out = Append(@, m)]

\* To every session but those of the player p, also to one without a profile.
broadcast(S, m, p) ==
  [k \in Connection |->
     IF S[k].state = "open" /\ S[k].profile # p
       THEN [S[k] EXCEPT !.out = Append(@, m)] ELSE S[k]]

-----------------------------------------------------------------------------
(* The programs *)

started(k) == client[k].player # NoProfile

Start(p) ==
  /\ left.starts > 0
  /\ left' = [left EXCEPT !.starts = @ - 1]
  /\ \E k \in Connection :
       /\ {j \in Connection : started(j)} = 1..(k - 1)
       /\ client' = [client EXCEPT ![k] = newClient(p)]
       /\ toServer' = [toServer EXCEPT ![k] = <<Hello>>]
  /\ UNCHANGED <<profiles, members, isOpen, session, toClient>>

\* A crash, or the user closes the window: nothing is sent.
Stop(k) ==
  /\ client[k].up
  /\ client' = [client EXCEPT ![k].up = FALSE]
  /\ UNCHANGED <<left, profiles, members, isOpen, session, toServer, toClient>>

Quit(k) ==
  /\ left.quits > 0
  /\ left' = [left EXCEPT !.quits = @ - 1]
  /\ client[k].up /\ client[k].initialized
  /\ client' = [client EXCEPT ![k].up = FALSE, ![k].quit = TRUE]
  /\ toServer' = [toServer EXCEPT ![k] = Append(@, PlayerDisconnected)]
  /\ UNCHANGED <<profiles, members, isOpen, session, toClient>>

Received(k, type) ==
  /\ client[k].up
  /\ toClient[k] # <<>> /\ Head(toClient[k]).type = type
  /\ toClient' = [toClient EXCEPT ![k] = Tail(@)]
  /\ UNCHANGED <<left, profiles, members, isOpen, session>>

onWelcomePacket(k) ==
  /\ Received(k, "Welcome")
  /\ client' = [client EXCEPT ![k].initialized = TRUE, ![k].sync = "Synced",
                              ![k].known = Head(toClient[k]).members]
  /\ UNCHANGED toServer

onServerDisconnectPacket(k) ==
  /\ Received(k, "ServerDisconnect")
  /\ client' = [client EXCEPT ![k].told = TRUE]
  /\ UNCHANGED toServer

applyPlayerConnected(k, p) ==
  /\ client' = [client EXCEPT ![k].known = @ \cup {p}]
  /\ UNCHANGED toServer

sendSnapshotUpdateRequest(k) ==
  /\ client' = [client EXCEPT ![k].sync = "Syncing"]
  /\ toServer' = [toServer EXCEPT ![k] = Append(@, UpdateRequest)]

\* Mutant of onNotifyPlayerConnectedPacket: no snapshot is asked for.
onNotifyPlayerConnectedPacket_GoesOn(k) ==
  /\ Received(k, "NotifyPlayerConnected")
  /\ client[k].sync = "Synced"
  /\ LET p == Head(toClient[k]).player
     IN  \/ client[k].known # {} /\ UNCHANGED <<client, toServer>>
         \/ p \notin client[k].known /\ applyPlayerConnected(k, p)

\* Refused when the player is known, or when its seat is occupied: the seat by somebody
\* who is known, the queue as soon as one of them waits in it.  Who of them sits where is
\* not in this module, so each of them may be in the way.
onNotifyPlayerConnectedPacket(k) ==
  /\ Received(k, "NotifyPlayerConnected")
  /\ client[k].sync = "Synced"
  /\ LET p == Head(toClient[k]).player
     IN  \/ client[k].known # {} /\ sendSnapshotUpdateRequest(k)
         \/ p \notin client[k].known /\ applyPlayerConnected(k, p)

onNotifyPlayerDisconnectedPacket(k) ==
  /\ Received(k, "NotifyPlayerDisconnected")
  /\ client[k].sync = "Synced"
  /\ client' = [client EXCEPT ![k].known = @ \ {Head(toClient[k]).player}]
  /\ UNCHANGED toServer

\* Before the welcome, and while Syncing, a notification has no handler.
DropNotify(k) ==
  /\ \/ Received(k, "NotifyPlayerConnected")
     \/ Received(k, "NotifyPlayerDisconnected")
  /\ client[k].sync # "Synced"
  /\ UNCHANGED <<client, toServer>>

-----------------------------------------------------------------------------
(* The server's handlers *)

Handled(k, type) ==
  /\ open(k)
  /\ toServer[k] # <<>> /\ Head(toServer[k]).type = type
  /\ toServer' = [toServer EXCEPT ![k] = Tail(@)]
  /\ UNCHANGED <<left, isOpen, client, toClient>>

clientsToDisconnectByToken_Nobody(S, p) == S   \* mutant

\* The tokens are compared and the result is not used: whoever has a profile is marked.
clientsToDisconnectByToken(S, p) ==
  [k \in Connection |->
     IF S[k].state = "open" /\ S[k].profile # NoProfile
       THEN [S[k] EXCEPT !.marked = TRUE] ELSE S[k]]

identified_ProfileFirst(k, p) ==   \* mutant: the profile is set before the others go
  LET S == [session EXCEPT ![k].profile = p]
  IN  IF p \in profiles THEN clientsToDisconnectByToken(S, p) ELSE S

\* The session k belongs to the player p; a known token puts others out first.
identified(k, p) ==
  LET S == IF p \in profiles THEN clientsToDisconnectByToken(session, p) ELSE session
  IN  [S EXCEPT ![k].profile = p]

canJoin == isOpen /\ Cardinality(members) < MaxPlayersInLobby

welcomed(S, k, M, p) == broadcast(sent(S, k, Welcome(M)), NotifyPlayerConnected(p), p)

refused(S, k) == [sent(S, k, ServerDisconnect) EXCEPT ![k].marked = TRUE]

\* Every token is correct (isTokenCorrect compares an unsigned number with 0).
onHelloPacket(k) ==
  LET p == client[k].player
      S == identified(k, p)
      M == members \cup {p}
      in == p \in members \/ canJoin
  IN  /\ Handled(k, "Hello")
      /\ profiles' = profiles \cup {p}
      /\ members' = IF in THEN M ELSE members
      /\ session' = IF in THEN welcomed(S, k, M, p) ELSE refused(S, k)

onPlayerDisconnectedPacket(k) ==
  LET p == session[k].profile
  IN  /\ Handled(k, "PlayerDisconnected")
      /\ members' = members \ {p}
      /\ session' = [broadcast(session, NotifyPlayerDisconnected(p), p) EXCEPT ![k].marked = TRUE]
      /\ UNCHANGED profiles

\* Server::registerHandlers has no handler for it.
DropUpdateRequest(k) ==
  /\ Handled(k, "UpdateRequest")
  /\ UNCHANGED <<profiles, members, session>>

\* The host's request is accepted; which member is the host is in LobbyServer.
LobbyOpenStateChange ==
  /\ members # {}
  /\ isOpen' = ~isOpen
  /\ UNCHANGED <<left, profiles, members, session, client, toServer, toClient>>

-----------------------------------------------------------------------------
(* The server's frame *)

serverFrame == UNCHANGED <<left, profiles, members, isOpen, client>>

\* One connection a frame, in the order they were made.
acceptNewClients(k) ==
  /\ session[k].state = "pending" /\ started(k)
  /\ \A j \in 1..(k - 1) : session[j].state # "pending"
  /\ session' = [session EXCEPT ![k].state = "open"]
  /\ serverFrame /\ UNCHANGED <<toServer, toClient>>

\* A session that failed to send is marked.
updateClient(k) ==
  /\ open(k)
  /\ session[k].broken /\ ~session[k].marked
  /\ session' = [session EXCEPT ![k].marked = TRUE]
  /\ serverFrame /\ UNCHANGED <<toServer, toClient>>

\* The timer of a marked session reaches MaxDisconnectTime.
updateDisconnectTimer(k) ==
  /\ open(k)
  /\ session[k].marked /\ ~session[k].expired
  /\ session' = [session EXCEPT ![k].expired = TRUE]
  /\ serverFrame /\ UNCHANGED <<toServer, toClient>>

eraseClient_AtOnce(k) ==   \* mutant: with packets to send
  /\ open(k)
  /\ session[k].marked
  /\ session' = [session EXCEPT ![k] = [newSession EXCEPT !.state = "erased"]]
  /\ toServer' = [toServer EXCEPT ![k] = <<>>]
  /\ serverFrame /\ UNCHANGED toClient

eraseClient_WaitsForPeer(k) ==   \* mutant: no timer
  /\ session[k].out = <<>>
  /\ eraseClient_AtOnce(k)

eraseClient(k) ==
  /\ open(k)
  /\ session[k].marked
  /\ session[k].out = <<>> \/ session[k].expired
  /\ session' = [session EXCEPT ![k] = [newSession EXCEPT !.state = "erased"]]
  /\ toServer' = [toServer EXCEPT ![k] = <<>>]
  /\ serverFrame /\ UNCHANGED toClient

sendPendingPackets(k) ==
  /\ open(k)
  /\ session[k].out # <<>> /\ ~session[k].broken
  /\ session' = [session EXCEPT ![k].out = <<>>]
  /\ toClient' = [toClient EXCEPT ![k] = IF client[k].up THEN @ \o session[k].out ELSE @]
  /\ serverFrame /\ UNCHANGED toServer

\* The only way the server learns that a program has ended.
sendFails(k) ==
  /\ open(k)
  /\ session[k].out # <<>> /\ ~session[k].broken
  /\ ~client[k].up
  /\ session' = [session EXCEPT ![k].broken = TRUE]
  /\ serverFrame /\ UNCHANGED <<toServer, toClient>>

-----------------------------------------------------------------------------
ServerStep(k) ==
  \/ acceptNewClients(k)
  \/ onHelloPacket(k) \/ onPlayerDisconnectedPacket(k) \/ DropUpdateRequest(k)
  \/ updateClient(k) \/ updateDisconnectTimer(k) \/ eraseClient(k)
  \/ sendPendingPackets(k) \/ sendFails(k)

ClientStep(k) ==
  \/ onWelcomePacket(k) \/ onServerDisconnectPacket(k)
  \/ onNotifyPlayerConnectedPacket(k) \/ onNotifyPlayerDisconnectedPacket(k)
  \/ DropNotify(k)

Next ==
  \/ \E p \in Player : Start(p)
  \/ LobbyOpenStateChange
  \/ \E k \in Connection : Stop(k) \/ Quit(k) \/ ServerStep(k) \/ ClientStep(k)

Spec == Init /\ [][Next]_vars

\* The frame loops go on: what can be done in a frame is done in some frame.
FairSpec ==
  /\ Spec
  /\ \A k \in Connection :
       /\ WF_vars(acceptNewClients(k))
       /\ WF_vars(onHelloPacket(k) \/ onPlayerDisconnectedPacket(k) \/ DropUpdateRequest(k))
       /\ WF_vars(updateClient(k)) /\ WF_vars(updateDisconnectTimer(k))
       /\ WF_vars(eraseClient(k))
       /\ WF_vars(sendPendingPackets(k) \/ sendFails(k))
       /\ WF_vars(ClientStep(k))

-----------------------------------------------------------------------------
Packet ==
  {Hello, UpdateRequest, PlayerDisconnected, ServerDisconnect}
    \cup [type : {"Welcome"}, members : SUBSET Player]
    \cup [type : {"NotifyPlayerConnected", "NotifyPlayerDisconnected"}, player : Player]

TypeOK ==
  /\ left \in [starts : Nat, quits : Nat]
  /\ profiles \subseteq Player /\ members \subseteq profiles /\ isOpen \in BOOLEAN
  /\ session \in [Connection ->
       [ state : {"pending", "open", "erased"}, profile : Player \cup {NoProfile},
         broken : BOOLEAN, marked : BOOLEAN, expired : BOOLEAN, out : Seq(Packet) ]]
  /\ client \in [Connection ->
       [ player : Player \cup {NoProfile}, up : BOOLEAN, initialized : BOOLEAN,
         sync : {"Unsynced", "Syncing", "Synced"}, known : SUBSET Player, told : BOOLEAN,
         quit : BOOLEAN ]]
  /\ \A k \in Connection : toServer[k] \in Seq(Packet) /\ toClient[k] \in Seq(Packet)

living(k) == open(k) /\ session[k].profile # NoProfile /\ ~session[k].marked

(***************************************************************************)
(* A player has at most one session that is to stay, however often its     *)
(* programs start and end with the same token.                             *)
(***************************************************************************)
OneLivingSession ==
  \A j, k \in Connection :
    living(j) /\ living(k) /\ session[j].profile = session[k].profile => j = k

hasLeft(p) == \E k \in Connection : client[k].quit /\ client[k].player = p

(***************************************************************************)
(* A session that is to stay belongs to a player of the lobby, unless one  *)
(* of that player's programs has said that it leaves: its word may come    *)
(* after the hello of the next one.                                        *)
(***************************************************************************)
LivingInLobby ==
  \A k \in Connection :
    living(k) /\ ~hasLeft(session[k].profile) => session[k].profile \in members

\* Sessions, tokens and members fit together, however programs start and end.
SessionsConsistent == TypeOK /\ OneLivingSession /\ LivingInLobby

onTheWay(k) == toClient[k] \o session[k].out

wasRefused(k) == client[k].told \/ ServerDisconnect \in Range(onTheWay(k))

puts(m, p) ==
  \/ m.type = "Welcome" /\ p \in m.members
  \/ m.type = "NotifyPlayerConnected" /\ m.player = p

takes(m, p) ==
  \/ m.type = "Welcome" /\ p \notin m.members
  \/ m.type = "NotifyPlayerDisconnected" /\ m.player = p

\* Who is known after the packets s to a client that knows K and refuses none of them:
\* who was put in, or known before, and not taken out later.
knownIfApplied(K, s) ==
  {p \in Player :
     \/ \E i \in 1..Len(s) : puts(s[i], p) /\ \A j \in (i + 1)..Len(s) : ~takes(s[j], p)
     \/ p \in K /\ \A j \in 1..Len(s) : ~takes(s[j], p)}

\* A player is announced on the way to k, and k will be synchronised when it hears of it.
mayRefuse(k) ==
  \E i \in 1..Len(onTheWay(k)) :
    /\ onTheWay(k)[i].type = "NotifyPlayerConnected"
    /\ client[k].sync = "Synced" \/ \E j \in 1..(i - 1) : onTheWay(k)[j].type = "Welcome"

(***************************************************************************)
(* A client that did not refuse a notification, and has none on its way    *)
(* that it may refuse, knows the lobby as soon as it has what is on its    *)
(* way: no member is missed between the snapshot of a hello and the        *)
(* notifications before and after it, also of a session that is marked,    *)
(* unless that session was refused.  Nothing is said of a client that      *)
(* refused a notification: it waits for a snapshot, which the server sends *)
(* only for another reason (LobbySync has those).                          *)
(***************************************************************************)
ClientsKnowMembers ==
  \A k \in Connection :
    open(k) /\ client[k].up /\ session[k].profile \in members
      /\ client[k].sync # "Syncing" /\ ~wasRefused(k) /\ ~mayRefuse(k) =>
      knownIfApplied(client[k].known, onTheWay(k)) = members

returning(k) == onHelloPacket(k) /\ client[k].player \in members /\ ~session[k].marked

(***************************************************************************)
(* A player of the lobby whose program starts again is let in again, also  *)
(* into a full or a closed one, and its new session is not the one put out.*)
(***************************************************************************)
ReturnIsAccepted ==
  [][\A k \in Connection : returning(k) =>
       /\ ~session'[k].marked
       /\ \E m \in Range(session'[k].out) : m.type = "Welcome"]_vars

marksOthers(k) ==
  \E j \in Connection :
    ~session[j].marked /\ session'[j].marked /\ session'[j].profile # client[k].player

(***************************************************************************)
(* A hello puts out the older sessions of its own token only.              *)
(***************************************************************************)
OnlyOwnSessionsMarked == [][\A k \in Connection : onHelloPacket(k) => ~marksOthers(k)]_vars

(***************************************************************************)
(* A client is not thrown out of its synchronised state by a player who    *)
(* comes back: there is a packet of its own for this.                      *)
(***************************************************************************)
ReturnKeepsOthersSynced ==
  [][\A k \in Connection :
       onNotifyPlayerConnectedPacket(k) /\ Head(toClient[k]).player \in client[k].known
         => client'[k].sync = "Synced"]_vars

\* The program k runs, and its session has not been erased.
waits(k) == client[k].up /\ session[k].state # "erased"

(***************************************************************************)
(* Every hello is answered, with a welcome or with the server's refusal,   *)
(* also when the session is marked in between: it is not erased with the   *)
(* answer in its queue, unless its timer has expired.                      *)
(***************************************************************************)
HelloIsAnswered ==
  \A k \in Connection :
    waits(k) ~>
      (client[k].initialized \/ client[k].told \/ ~client[k].up \/ session[k].expired)

\* A session that is marked does not stay, even if its peer takes no packet any more.
MarkedIsErased ==
  \A k \in Connection : (open(k) /\ session[k].marked) ~> ~open(k)

=============================================================================
