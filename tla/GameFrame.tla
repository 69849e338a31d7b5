------------------------------- MODULE GameFrame -------------------------------
(***************************************************************************)
(* The frame of the program (the loop of Source.cpp, Game.cpp) with the    *)
(* scenes of UIController, the subscribers of the event system, and the    *)
(* lobby states ClientModel makes, replaces and deletes.                   *)
(*                                                                         *)
(* A lobby state is the number of its construction: what matters here is   *)
(* who points at it and whether it was deleted.  The menus are reduced to  *)
(* the events they can publish (Menu; MenuScene has them in full), the     *)
(* server to how it answers this client's packets, in their order, and     *)
(* what it tells it of the others: who the members are, and which requests *)
(* are right, is in LobbyServer, LobbySync and ServerSessions.             *)
(***************************************************************************)
EXTENDS EventSystem, Menu, FiniteSets

CONSTANTS
  MaxInputs,        \* bound on what the user does
  MaxNotifications  \* bound on the notifications

Types ==
  { "Exit", "CreateGameRequest", "JoinGameRequest", "Welcome",       \* for the game
    "ExitRequest", "InputIpAddressRequest",                          \* for the menu
    "LobbyRequest",    \* the four requests ClientModel listens to
    "LobbyChanged",    \* the five changes LobbyLayer listens to
    "SnapshotApplied", "LobbyStateSync", "ServerDisconnect" }        \* for nobody

Objects == {"game", "menu", "model", "layer"}

\* What the events and the objects of the program are.
ProgramNames == EventType = Types /\ Object = Objects

VARIABLES
  phase,      \* where the frame is
  isOpen,     \* the window
  server,     \* m_server is there
  model,      \* m_clientModel
  deleted,    \* the lobby states that are no more
  scene,      \* UIController: currentScene, m_sceneToDelete, the state LobbyScene shows
  dialogs,    \* the modal layers of the menu that are visible
  closed,     \* those that were closed and may still be answered (Menu)
  wire,       \* the packets that are on their way to the client
  asked,      \* the packets of the client that the server did not handle yet
  outcome,    \* what an assert or a use of a deleted state made of the program
  inputs,     \* the packets and the user's actions of this frame
  left,       \* what the bounds leave to the user and to the server
  together    \* the network: the first snapshot comes with the welcome, and no other ever

gameVars == <<isOpen, server, model, deleted, scene, dialogs, closed, outcome>>
outsideVars == <<wire, asked, inputs, left, together>>
vars == <<esVars, phase, gameVars, outsideVars>>

noState == 0
noModel == [exists |-> FALSE, initialized |-> FALSE, syncState |-> "Unsynced",
            state |-> noState, temp |-> noState, toDelete |-> {}, made |-> 0]

\* Mutant of gameListensTo: nobody waits for the welcome.
gameDoesNotWait == {"Exit", "CreateGameRequest", "JoinGameRequest"}

gameListensTo == {"Exit", "CreateGameRequest", "JoinGameRequest", "Welcome"}
menuListensTo == {"ExitRequest", "InputIpAddressRequest"}

Init ==
  /\ EventSystemInit
  /\ alive = {"game", "menu"}
  /\ handlers = subscribe(subscribe(noHandlers, gameListensTo, "game"), menuListensTo, "menu")
  /\ phase = "receive" /\ isOpen = TRUE /\ server = FALSE /\ model = noModel
  /\ deleted = {} /\ dialogs = {} /\ closed = {}
  /\ scene = [current |-> "menu", toDelete |-> "none", shown |-> noState]
  /\ wire = << >> /\ asked = << >> /\ outcome = "running" /\ inputs = 0
  /\ together \in BOOLEAN
  /\ left = [user |-> MaxInputs, notifications |-> MaxNotifications]

running == outcome = "running" /\ cursor.state # "thrown"
In(p) == running /\ phase = p

-----------------------------------------------------------------------------
(* processReceivingPacket: ClientModel and what the server sends it *)

snapshot == <<"SnapshotBegin", "SnapshotEnd">>

sends(packets) == wire' = wire \o packets

\* Welcomed, new or again, or refused: the lobby is full or closed.  No token is incorrect
\* (isTokenCorrect compares an unsigned number with 0).
onHelloPacket == sends(<<"Welcome">> \o snapshot) \/ sends(<<"ServerDisconnect">>)

\* Accepted, and the others are told; or rejected, and a welcomed client gets the lobby,
\* unless its session waits for the acknowledgement of an earlier snapshot.
onLobbyRequestPacket == sends(<< >>) \/ (model.initialized /\ ~together /\ sends(snapshot))

\* Server::registerHandlers has no handler for an UpdateRequest.
ServerAnswers ==
  /\ running /\ asked # << >>
  /\ \/ Head(asked) = "Hello" /\ onHelloPacket
     \/ Head(asked) = "LobbyRequest" /\ onLobbyRequestPacket
     \/ Head(asked) = "UpdateRequest" /\ sends(<< >>)
  /\ asked' = Tail(asked)
  /\ UNCHANGED <<esVars, phase, gameVars, inputs, left, together>>

\* broadcast: what the others did.  A client that is not welcomed ignores it.
ServerNotifies ==
  /\ running /\ model.initialized /\ left.notifications > 0
  /\ sends(<<"Notify">>)
  /\ left' = [left EXCEPT !.notifications = @ - 1]
  /\ UNCHANGED <<esVars, phase, gameVars, asked, inputs, together>>

newState == model.made + 1

onWelcomePacket ==
  /\ model' = [model EXCEPT !.initialized = TRUE, !.state = newState, !.made = newState]
  /\ deleted' = deleted \cup ({model.state} \ {noState})
  /\ publish(<< [type |-> "Welcome", state |-> newState] >>)
  /\ UNCHANGED asked

\* The event has no handler: the game stays in its menu, with its model.
onServerDisconnectPacket ==
  /\ publish(<< [type |-> "ServerDisconnect"] >>)
  /\ UNCHANGED <<model, deleted, asked>>

onSnapshotBeginPacket ==
  /\ model' = [model EXCEPT !.syncState = "Syncing", !.temp = newState, !.made = newState]
  /\ deleted' = deleted \cup ({model.temp} \ {noState})
  /\ nothingPublished /\ UNCHANGED asked

\* Mutant of onSnapshotEndPacket: the old state is deleted at once.
onSnapshotEndDeletes ==
  /\ model' = [model EXCEPT !.syncState = "Synced", !.state = model.temp, !.temp = noState]
  /\ deleted' = deleted \cup {model.state}
  /\ publish(<< [type |-> "SnapshotApplied", state |-> model.temp] >>)
  /\ UNCHANGED asked

\* The state it replaces lives until the frame cleans up.
onSnapshotEndPacket ==
  /\ IF model.temp = noState
     THEN model' = [model EXCEPT !.syncState = "Synced"] /\ nothingPublished
     ELSE /\ model' = [model EXCEPT !.syncState = "Synced", !.state = model.temp,
                                    !.temp = noState, !.toDelete = @ \cup {model.state}]
          /\ publish(<< [type |-> "SnapshotApplied", state |-> model.temp] >>)
  /\ UNCHANGED <<deleted, asked>>

\* The notifications: applied, or refused and a snapshot is asked for.  The
\* number of players is applied even then.
onNotification ==
  /\ UNCHANGED deleted
  /\ \E applied, refused \in BOOLEAN :
       /\ applied \/ refused
       /\ publish(IF applied THEN << [type |-> "LobbyChanged"] >> ELSE << >>)
       /\ IF refused
          THEN /\ model' = [model EXCEPT !.syncState = "Syncing"]
               /\ asked' = Append(asked, "UpdateRequest")
          ELSE UNCHANGED <<model, asked>>

ignored == UNCHANGED <<model, deleted, asked>> /\ nothingPublished

\* dispatch of the state's dispatcher, then of the common one.
handlePacket(p) ==
  CASE p = "Welcome" /\ (~model.initialized \/ model.syncState = "Unsynced") -> onWelcomePacket
    [] p = "ServerDisconnect" -> onServerDisconnectPacket
    [] p = "SnapshotBegin" /\ model.initialized -> onSnapshotBeginPacket
    [] p = "SnapshotEnd" /\ model.initialized /\ model.syncState = "Syncing" -> onSnapshotEndPacket
    [] p = "Notify" /\ model.initialized /\ model.syncState = "Synced" -> onNotification
    [] OTHER -> ignored

processReceivingPackets ==
  /\ In("receive") /\ model.exists /\ wire # << >>
  /\ handlePacket(Head(wire))
  /\ wire' = Tail(wire) /\ inputs' = inputs + 1
  /\ UNCHANGED <<queue, handlers, alive, cursor, phase, isOpen, server, scene, dialogs, closed, outcome, left, together>>

\* What has not arrived yet is for the next frame.
received ==
  /\ In("receive")
  /\ (together /\ model.exists) => wire = << >>
  /\ phase' = "events"
  /\ UNCHANGED <<esVars, gameVars, outsideVars>>

-----------------------------------------------------------------------------
(* handleEvents: what the user can make the scene publish *)

showsDeleted == scene.current = "lobby" /\ scene.shown \in deleted

\* The lobby's controls read the lobby state to know what to ask for.
handleEvents ==
  /\ In("events") /\ left.user > 0 /\ isOpen
  /\ left' = [left EXCEPT !.user = @ - 1] /\ inputs' = inputs + 1
  /\ \/ /\ scene.current = "menu"
        /\ \E t \in menuEvents(dialogs, closed) : publish(<< [type |-> t] >>)
        /\ UNCHANGED <<outcome, dialogs, closed>>
     \/ /\ scene.current = "menu" /\ dialogs # {}
        /\ dialogs' = dialogs \ {topOf(dialogs)} /\ closed' = closed \cup {topOf(dialogs)}
        /\ nothingPublished /\ UNCHANGED outcome
     \/ /\ scene.current = "lobby"
        /\ \E t \in {"ExitRequest", "LobbyRequest"} : publish(<< [type |-> t] >>)
        /\ outcome' = IF showsDeleted THEN "deletedState" ELSE outcome
        /\ UNCHANGED <<dialogs, closed>>
  /\ UNCHANGED <<queue, handlers, alive, cursor, phase, isOpen, server, model, deleted, scene, wire, asked, together>>

\* sf::Event::Closed
close ==
  /\ In("events") /\ isOpen /\ left.user > 0
  /\ isOpen' = FALSE /\ left' = [left EXCEPT !.user = @ - 1]
  /\ UNCHANGED <<esVars, phase, server, model, deleted, scene, dialogs, closed, outcome, wire, asked, inputs, together>>

-----------------------------------------------------------------------------
(* dispatchEvents: the handlers *)

atHandlerOf(object, type) ==
  /\ In("dispatch") /\ atHandler /\ called \in alive
  /\ called = object /\ current.type = type
  /\ cursor' = nextHandler
  /\ UNCHANGED <<queue, phase, wire, inputs, left, together>>

onExitEvent ==
  /\ atHandlerOf("game", "Exit")
  /\ isOpen' = FALSE
  /\ nothingPublished
  /\ UNCHANGED <<handlers, alive, server, model, deleted, scene, dialogs, closed, asked, outcome>>

\* Both asserts; then ClientModel's constructor: init, subscribeAll, and the
\* hello, which is not sent when connect fails.
makesModel(withServer) ==
  /\ nothingPublished
  /\ UNCHANGED <<isOpen, deleted, scene, dialogs, closed>>
  /\ IF server \/ model.exists
     THEN /\ outcome' = "assertNoGame"
          /\ UNCHANGED <<handlers, alive, server, model, asked>>
     ELSE /\ server' = withServer
          /\ model' = [noModel EXCEPT !.exists = TRUE]
          /\ handlers' = subscribe(handlers, {"LobbyRequest"}, "model")
          /\ alive' = alive \cup {"model"}
          /\ asked' \in {asked, Append(asked, "Hello")}
          /\ UNCHANGED outcome

onCreateGameRequestEvent == atHandlerOf("game", "CreateGameRequest") /\ makesModel(TRUE)
onJoinGameRequestEvent   == atHandlerOf("game", "JoinGameRequest")   /\ makesModel(FALSE)

\* Mutant of setScene: the old scene goes at once.
setSceneDeletes(state) ==
  /\ scene' = [scene EXCEPT !.current = "lobby", !.shown = state]
  /\ handlers' = subscribe(handlers, {"LobbyChanged"}, "layer")
  /\ alive' = (alive \ {"menu"}) \cup {"layer"}
  /\ UNCHANGED outcome

\* LobbyScene's init makes the LobbyLayer, which subscribes.
setScene(state) ==
  IF scene.toDelete # "none"
  THEN outcome' = "assertNoSceneToDelete" /\ UNCHANGED <<scene, handlers, alive>>
  ELSE /\ scene' = [current |-> "lobby", toDelete |-> scene.current, shown |-> state]
       /\ handlers' = subscribe(handlers, {"LobbyChanged"}, "layer")
       /\ alive' = alive \cup {"layer"}
       /\ UNCHANGED outcome

onWelcomeEvent ==
  /\ atHandlerOf("game", "Welcome")
  /\ setScene(model.state)
  /\ nothingPublished
  /\ UNCHANGED <<isOpen, server, model, deleted, dialogs, closed, asked>>

\* showModalLayer
onDialogRequestEvent ==
  /\ \E d \in Dialogs : atHandlerOf("menu", asks[d]) /\ dialogs' = dialogs \cup {d}
  /\ closed' = {}
  /\ nothingPublished
  /\ UNCHANGED <<handlers, alive, isOpen, server, model, deleted, scene, asked, outcome>>

\* Mutant of onLobbyRequestEvent: the request is published again.
onLobbyRequestAgain ==
  /\ atHandlerOf("model", "LobbyRequest")
  /\ publish(<< [type |-> "LobbyRequest"] >>)
  /\ UNCHANGED <<handlers, alive, gameVars, asked>>

\* Refused, or one change; a smaller table may also send two players away.  Each
\* change is asked of the server too.
onLobbyRequestEvent ==
  /\ atHandlerOf("model", "LobbyRequest")
  /\ \/ publish(<< [type |-> "LobbyStateSync"] >>) /\ UNCHANGED asked
     \/ \E n \in {1, 3} : /\ publish([i \in 1..n |-> [type |-> "LobbyChanged"]])
                          /\ asked' = asked \o [i \in 1..n |-> "LobbyRequest"]
  /\ UNCHANGED <<handlers, alive, gameVars>>

onLobbyChangedEvent ==
  /\ atHandlerOf("layer", "LobbyChanged")
  /\ outcome' = IF showsDeleted THEN "deletedState" ELSE outcome
  /\ nothingPublished
  /\ UNCHANGED <<handlers, alive, isOpen, server, model, deleted, scene, dialogs, closed, asked>>

Handle ==
  \/ onExitEvent \/ onCreateGameRequestEvent \/ onJoinGameRequestEvent \/ onWelcomeEvent
  \/ onDialogRequestEvent \/ onLobbyRequestEvent \/ onLobbyChangedEvent

dispatch ==
  /\ In("dispatch")
  /\ Dispatching
  /\ phase' = IF cursor'.state = "outside" THEN "cleanUp" ELSE phase
  /\ UNCHANGED <<gameVars, outsideVars>>

beginsDispatch ==
  /\ In("events") /\ BeginDispatch
  /\ phase' = "dispatch"
  /\ UNCHANGED <<gameVars, outsideVars>>

-----------------------------------------------------------------------------
(* cleanUp, and what is left of the frame *)

cleanUp ==
  /\ In("cleanUp")
  /\ deleted' = deleted \cup (model.toDelete \ {noState})
  /\ model' = [model EXCEPT !.toDelete = {}]
  /\ scene' = [scene EXCEPT !.toDelete = "none"]
  /\ alive' = alive \ {scene.toDelete}
  /\ dialogs' = IF scene.toDelete = "menu" THEN {} ELSE dialogs
  /\ closed'  = IF scene.toDelete = "menu" THEN {} ELSE closed
  /\ inputs' = 0
  /\ phase' = IF isOpen THEN "receive" ELSE "over"
  /\ UNCHANGED <<queue, nextQueue, handlers, cursor, published, isOpen, server, outcome, wire, asked, left, together>>

Frame == processReceivingPackets \/ received \/ beginsDispatch \/ dispatch \/ Handle \/ cleanUp
User  == handleEvents \/ close
Next  == Frame \/ User \/ ServerAnswers \/ ServerNotifies

\* The loop goes on while the window is open; the server's loop handles what has arrived,
\* and what it sent arrives: not every frame ends its receiving before that.
Spec ==
  /\ Init /\ [][Next]_vars
  /\ WF_vars(Frame) /\ WF_vars(ServerAnswers) /\ SF_vars(processReceivingPackets)

-----------------------------------------------------------------------------
(* Properties *)

TypeOK ==
  /\ phase \in {"receive", "events", "dispatch", "cleanUp", "over"}
  /\ model.syncState \in {"Unsynced", "Syncing", "Synced"}
  /\ scene.current \in {"menu", "lobby"} /\ scene.toDelete \in {"none", "menu"}
  /\ outcome \in {"running", "assertNoGame", "assertNoSceneToDelete", "deletedState"}
  /\ model.toDelete \cup deleted \subseteq 1..model.made
  /\ together \in BOOLEAN
  /\ scene.current = "lobby" => scene.shown \in 1..model.made

\* An event that carries a lobby state carries one that still lives, although
\* a snapshot may have replaced it in the same frame (statesToDelete).
EventsReferToLiveStates ==
  \A i \in DOMAIN waiting :
    waiting[i].type \in {"Welcome", "SnapshotApplied"} => waiting[i].state \notin deleted

\* The scene the user sees shows a lobby state that was not deleted: the one
\* of the first snapshot, when that comes in the frame of the welcome and no
\* other follows.  A later one deletes the state the scene goes on using.
ShownStateLives == together => ~showsDeleted

\* The lobby states the frame, its events and its scene refer to are alive.
StatesConsistent == TypeOK /\ EventsReferToLiveStates /\ ShownStateLives

\* One input makes at most four events: the request, two players sent to the
\* queue and the new size of the table.  The bound of dispatch is far away.
FewEventsPerInput == cursor.processed <= 4 * inputs

\* Nothing is destroyed while events are dispatched: a handler's object, the
\* menu of onWelcomeEvent included, outlives the handlers that are running.
NobodyDiesInDispatch == [][alive \subseteq alive' \/ phase = "cleanUp"]_vars

hasAsked(packet) == \E i \in DOMAIN asked : asked[i] = packet
isComing(packet) == \E i \in DOMAIN wire : wire[i] = packet
isPublished(type) == \E i \in DOMAIN waiting : waiting[i].type = type
stops == ~running \/ ~isOpen

\* Whose hello was sent gets to the lobby, or the program hears of the server's
\* refusal, unless it stops before; and who is welcomed gets to the lobby.
GameBegins ==
  /\ hasAsked("Hello") ~> scene.current = "lobby" \/ isPublished("ServerDisconnect") \/ stops
  /\ isComing("Welcome") ~> scene.current = "lobby" \/ stops

=============================================================================
