------------------------------ MODULE LobbyScreen ------------------------------
(***************************************************************************)
(* The frames of a client that shows the lobby: packets of the others      *)
(* change the copy of the lobby at the beginning of a frame; then the      *)
(* mouse moves, as IScene hands it to the elements, and presses and        *)
(* releases; then events are dispatched, to ClientModel, whose handlers of *)
(* the requests change the copy too, and to LobbyLayer; then animations go *)
(* on.  So a layer hears of a change after the user may have acted on it,  *)
(* and when later changes were made already.                               *)
(*                                                                         *)
(* The copy is assumed to live (GameFrame says when it does), and the      *)
(* packets to be those a server sends that agrees with it (LobbySync says  *)
(* when it does).                                                          *)
(***************************************************************************)
EXTENDS LobbyLayer

CONSTANTS
  Places,            \* where the mouse goes
  StartSizes,        \* the sizes of the table at the beginning
  AnimationFrames,   \* the frames an animation takes
  MaxPackets, MaxPresses    \* bounds on what the others and the user do

ASSUME ScreenAssumption ==
  /\ IsFiniteSet(Player)
  /\ StartSizes \subseteq MinPlayersPerGame..MaxPlayersPerGame
  /\ AnimationFrames \in Nat \ {0}

VARIABLES
  copy,      \* ClientModel::clientLobbyState
  layer,      \* the record of LobbyLayer
  mouse,      \* its place, whether its button is down, m_underMouseElement
  events,     \* the event system's queue
  phase,      \* where the frame is
  left,       \* what the bounds leave
  changes,    \* history: changes of the copy in this frame
  calm        \* history: never two in a frame, and nobody left

history == <<changes, calm>>
screenVars == <<local, copy, layer, mouse, events, phase, left, history>>

\* A step of phase p, on the same screen.
In(p) == running(layer) /\ phase = p /\ UNCHANGED local

changed ==
  /\ changes' = changes + 1
  /\ calm' = (calm /\ changes' = 1)

\* A snapshot may hold any arrangement of the players: seated at seatOf, or in the queue.
initialArrangement(size, seatOf, queue) ==
  [initialLobby EXCEPT !.ppg = size, !.queue = queue, !.profiles = DOMAIN seatOf \cup Ids(queue),
    !.seats = [playerAt |-> [s \in Seat |-> IF s \in Range(seatOf)
                                           THEN CHOOSE p \in DOMAIN seatOf : seatOf[p] = s ELSE Nobody],
               seatOf   |-> [p \in Player |-> IF p \in DOMAIN seatOf THEN seatOf[p] ELSE Nowhere]]]

\* init: the seats, then a view of every player, then the buttons.
initialLayer(V, garbage) ==
  LET seats == [shown |-> V.ppg]
  IN  [views    |-> [p \in V.profiles |-> [pos |-> home(seats, V, p), animations |-> << >>]],
       control  |-> [e \in V.profiles \cup {LockButton, Arrows} |->
                       IF e \in V.profiles THEN playerControl(e, garbage) ELSE buttonControl(e, garbage)],
       shown    |-> V.ppg,   showsOpen |-> V.open,
       captured |-> Nothing, outcome   |-> "running"]

ScreenInit ==
  /\ local \in Locals
  /\ \E size \in StartSizes, players \in {ps \in SUBSET Player : {HostProfile, local} \subseteq ps} :
     \E waiting \in SUBSET players, g \in flags :
     \E queue \in SetToSeqs(waiting), seatOf \in Injection(players \ waiting, 0..(size - 1)) :
        /\ copy = initialArrangement(size, seatOf, queue)
        /\ layer = initialLayer(copy, g)
  /\ mouse = [place |-> at("floor"), down |-> FALSE, under |-> Nothing]
  /\ events = << >> /\ phase = "receive" /\ changes = 0 /\ calm = TRUE
  /\ left = [packets |-> MaxPackets, presses |-> MaxPresses]

-----------------------------------------------------------------------------
(* processReceivingPackets: what the others did *)

receives(V, evs) ==
  /\ copy' = V /\ events' = events \o evs

NotifySeatPositionsChanged(i) ==
  \E p \in copy.profiles, s \in QueueSeat..(copy.ppg - 1) :
    /\ MayChangeSeat(copy, i, p, s)
    /\ receives(applySeatPositionsChanged(copy, p, s).view, << SeatChanged("SeatChanged", p, s) >>)

NotifySeatPositionsSwapped(i) ==
  \E p, q \in copy.profiles :
    /\ MaySwap(copy, i, p, q)
    /\ receives(applySeatPositionsSwapped(copy, p, q).view, << Swapped("Swapped", p, q) >>)

\* Those who sat at the seats it drops have left them, in packets of their own.
NotifyPlayersPerGameChanged(i) ==
  \E v \in MinPlayersPerGame..MaxPlayersPerGame :
    /\ MayChangePlayersPerGame(copy, i, v) /\ movedByShrinking(copy, v) = << >>
    /\ receives(applyPlayersPerGameChange(copy, v).view, << Value("PlayersPerGameChanged", v) >>)

NotifyLobbyOpenStateChanged(i) ==
  /\ isHost(i)
  /\ receives(applyLobbyOpenState(copy, ~copy.open).view, << Value("LobbyOpenChanged", ~copy.open) >>)

\* Ids are not used again.  A client takes in one waiting player at most.
NotifyPlayerConnected ==
  \E p \in Player \ (copy.profiles \cup viewed(layer)) :
    /\ applyPlayerConnected(copy, p, QueueSeat).outcome = "applied"
    /\ receives(applyPlayerConnected(copy, p, QueueSeat).view, << SeatChanged("Connected", p, QueueSeat) >>)

\* LobbyLayer is not among the subscribers of PlayerDisconnectedEvent.
NotifyPlayerDisconnected ==
  \E p \in copy.profiles \ {local, HostProfile} :
    receives(deletePlayer(copy, p), << >>)

ReceivePacket ==
  /\ In("receive") /\ left.packets > 0
  /\ left' = [left EXCEPT !.packets = @ - 1]
  /\ \/ /\ \/ NotifyPlayerConnected
           \/ \E i \in copy.profiles \ {local} :
                \/ NotifySeatPositionsChanged(i)  \/ NotifySeatPositionsSwapped(i)
                \/ NotifyPlayersPerGameChanged(i) \/ NotifyLobbyOpenStateChanged(i)
        /\ changed
     \/ NotifyPlayerDisconnected /\ calm' = FALSE /\ UNCHANGED changes
  /\ UNCHANGED <<layer, mouse, phase>>

-----------------------------------------------------------------------------
(* IScene and InputCapture *)

\* mouseInputUpdate, while nothing is captured or held down.
underMouse(e) ==
  LET off == IF mouse.under = Nothing THEN layer ELSE hover(layer, copy, mouse.under, FALSE)
  IN  layer' = IF e = mouse.under THEN IF e = Nothing THEN layer ELSE hover(layer, copy, e, TRUE)
               ELSE CASE e = Nothing -> abort(off, "nullElement")
                      [] e = Floor   -> off
                      [] OTHER       -> hover(off, copy, e, TRUE)

isDragging == layer.captured # Nothing

dragTo(spot) ==
  IF layer.control[layer.captured].dragged /\ spot # mouse.place
  THEN layer' = [layer EXCEPT !.views[layer.captured].pos = air]
  ELSE UNCHANGED layer

MouseInputUpdate ==
  /\ In("receive")
  /\ phase' = "input"
  /\ \E spot \in Places :
       IF isDragging
       THEN dragTo(spot) /\ mouse' = [mouse EXCEPT !.place = spot]
       ELSE IF mouse.under # Nothing /\ layer.control[mouse.under].pressed
       THEN UNCHANGED layer /\ mouse' = [mouse EXCEPT !.place = spot]
       ELSE \E e \in elementsAt(layer, spot) :
              /\ underMouse(e)
              /\ mouse' = [mouse EXCEPT !.place = spot, !.under = IF e = Floor THEN Nothing ELSE e]
  /\ UNCHANGED <<copy, events, left, history>>

isView(e) == e \in viewed(layer)

\* UIInteractive::onMouseDown, with the callback of a player's view.
pressed(e) ==
  LET c == setPressed(layer.control[e], TRUE)
  IN  IF isView(e)
      THEN layer' = [layer EXCEPT !.control[e] = setDragged(c, TRUE), !.captured = e]
      ELSE layer' = [layer EXCEPT !.control[e] = c]

MousePressed ==
  /\ In("input") /\ ~mouse.down /\ left.presses > 0
  /\ left' = [left EXCEPT !.presses = @ - 1]
  /\ mouse' = [mouse EXCEPT !.down = TRUE]
  /\ IF isDragging \/ mouse.under = Nothing \/ ~canBePressed(layer.control[mouse.under])
     THEN UNCHANGED layer
     ELSE pressed(mouse.under)
  /\ UNCHANGED <<copy, events, phase, history>>

\* UIInteractive::onMouseUp of a view that is captured: releaseInput.
captureEnds(p) ==
  LET L == [layer EXCEPT !.captured = Nothing, !.control[p] = captureEnded(setPressed(@, FALSE))]
  IN  /\ layer' = drop(L, copy, p)
      /\ events' = events \o IF running(layer') THEN dropRequests(L, copy, p, mouse.place) ELSE << >>

\* The click of the lock button, or of one of the two arrows.
clickRequests(e) ==
  IF e = LockButton THEN { << Value("OpenRequest", layer.showsOpen) >> }
  ELSE { << Value("PlayersPerGameRequest", v) >> :
         v \in (MinPlayersPerGame..MaxPlayersPerGame) \ {copy.ppg} }

\* UIInteractive::onMouseUp of what is under the mouse; a view that is not captured does nothing.
released(e) ==
  LET c == layer.control[e]
  IN  \E isHit \in hits(layer, e, mouse.place) :
        /\ layer' = [layer EXCEPT !.control[e] = setPressed(c, FALSE)]
        /\ IF c.pressed /\ isHit /\ canBeClicked(c) /\ ~isView(e)
           THEN \E asked \in clickRequests(e) : events' = events \o asked
           ELSE UNCHANGED events

MouseReleased ==
  /\ In("input") /\ mouse.down
  /\ mouse' = [mouse EXCEPT !.down = FALSE]
  /\ CASE isDragging /\ canBePressed(layer.control[layer.captured]) -> captureEnds(layer.captured)
       [] ~isDragging /\ mouse.under # Nothing /\ canBePressed(layer.control[mouse.under]) ->
            released(mouse.under)
       [] OTHER -> UNCHANGED <<layer, events>>
  /\ UNCHANGED <<copy, phase, left, history>>

EndOfInput ==
  /\ In("input") /\ phase' = "dispatch"
  /\ UNCHANGED <<copy, layer, mouse, events, left, history>>

-----------------------------------------------------------------------------
(* dispatchEvents *)

ev == Head(events)

handles(type) ==
  /\ In("dispatch") /\ events # << >> /\ ev.type = type
  /\ UNCHANGED <<mouse, phase, left>>

\* ClientModel's handlers of the requests: LobbyStateSyncEvent has no subscriber.
refused == events' = Tail(events) /\ UNCHANGED <<copy, layer, history>>
accepted(V, evs) ==
  /\ copy' = V /\ events' = Tail(events) \o evs
  /\ changed /\ UNCHANGED layer

MayMove(p, s) ==
  /\ {local, p} \subseteq copy.profiles
  /\ p = local \/ isHost(local)
  /\ copy.canMove \/ isHost(local)
  /\ getPlayerSeatIndex(copy, p) \notin {Nowhere, s}
  /\ getPlayerIdBySeatIndex(copy, s) = Nobody

onSeatPositionsChangeRequestEvent ==
  /\ handles("SeatRequest")
  /\ IF ~MayMove(ev.id, ev.seat) THEN refused
     ELSE IF moveOutcome(copy, ev.id, ev.seat) = "applied"
     THEN accepted(movePlayerToSeatPosition(copy, ev.id, ev.seat),
                   << SeatChanged("SeatChanged", ev.id, ev.seat) >>)
     ELSE /\ layer' = abort(layer, moveOutcome(copy, ev.id, ev.seat))
          /\ events' = Tail(events) /\ UNCHANGED <<copy, history>>

MaySwapNow(p, q) ==
  /\ isHost(local) /\ {local, p, q} \subseteq copy.profiles
  /\ getPlayerSeatIndex(copy, p) # getPlayerSeatIndex(copy, q)
  /\ Nowhere \notin {getPlayerSeatIndex(copy, p), getPlayerSeatIndex(copy, q)}

onSeatPositionsSwapRequestEvent ==
  /\ handles("SwapRequest")
  /\ IF MaySwapNow(ev.first, ev.second)
     THEN accepted(swapPlayersInView(copy, ev.first, ev.second),
                   << Swapped("Swapped", ev.first, ev.second) >>)
     ELSE refused

onPlayersPerGameChangeRequestEvent ==
  /\ handles("PlayersPerGameRequest")
  /\ LET moved == movedByShrinking(copy, ev.value)
     IN  accepted(applyPlayersPerGameChange(copy, ev.value).view,
                  [i \in DOMAIN moved |-> SeatChanged("SeatChanged", moved[i], QueueSeat)]
                  \o << Value("PlayersPerGameChanged", ev.value) >>)

onLobbyOpenStateChangeRequestEvent ==
  /\ handles("OpenRequest")
  /\ IF applyLobbyOpenState(copy, ev.value).outcome = "applied"
     THEN accepted(applyLobbyOpenState(copy, ev.value).view, << Value("LobbyOpenChanged", ev.value) >>)
     ELSE refused

\* LobbyLayer's handlers.
layerHandles(type, L) ==
  /\ handles(type)
  /\ layer' = L /\ events' = Tail(events)
  /\ UNCHANGED <<copy, history>>

onLobbyChanged ==
  \/ \E g \in flags : layerHandles("Connected", onPlayerConnectedEvent(layer, copy, ev, g))
  \/ layerHandles("SeatChanged", onSeatPositionsChangedEvent(layer, copy, ev))
  \/ layerHandles("Swapped", onSeatPositionsSwappedEvent(layer, copy, ev))
  \/ layerHandles("PlayersPerGameChanged", onPlayersPerGameChangedEvent(layer, copy, ev))
  \/ layerHandles("LobbyOpenChanged", onLobbyOpenStateChangedEvent(layer, copy, ev))

onRequest ==
  \/ onSeatPositionsChangeRequestEvent  \/ onSeatPositionsSwapRequestEvent
  \/ onPlayersPerGameChangeRequestEvent \/ onLobbyOpenStateChangeRequestEvent

-----------------------------------------------------------------------------
(* update: the animations *)

stepped(a) == [a EXCEPT !.age = @ + 1]
isOver(a)  == a.age = AnimationFrames
placeIn(a) == IF isOver(a) \/ a.from = a.to THEN a.to ELSE air

\* It sets the place, and one that is over goes and calls its callback.
onUpdate(r, a) ==
  [pos |-> placeIn(a),
   animations |-> IF isOver(a) THEN r.animations ELSE Append(r.animations, a),
   control    |-> IF isOver(a) THEN unblockInteraction(r.control) ELSE r.control]

\* The animations of a view with its control c, in turn: the newest has the last word.
updateAnimations(view, c) ==
  LET after[i \in 0..Len(view.animations)] ==
        IF i = 0 THEN [pos |-> view.pos, animations |-> << >>, control |-> c]
        ELSE onUpdate(after[i - 1], stepped(view.animations[i]))
  IN  after[Len(view.animations)]

Update ==
  /\ In("dispatch") /\ events = << >>
  /\ LET now(p) == updateAnimations(layer.views[p], layer.control[p])
     IN  layer' = [layer EXCEPT
           !.views   = [p \in viewed(layer) |-> [pos |-> now(p).pos, animations |-> now(p).animations]],
           !.control = [e \in DOMAIN @ |-> IF isView(e) THEN now(e).control ELSE @[e]]]
  /\ phase' = "receive" /\ changes' = 0
  /\ UNCHANGED <<copy, mouse, events, left, calm>>

-----------------------------------------------------------------------------
User  == MousePressed \/ MouseReleased
Frame == MouseInputUpdate \/ EndOfInput \/ onRequest \/ onLobbyChanged \/ Update
ScreenNext  == ReceivePacket \/ User \/ Frame

\* The frame loop goes on, whatever the user and the others do.
ScreenSpec == ScreenInit /\ [][ScreenNext]_screenVars /\ WF_screenVars(Frame)

-----------------------------------------------------------------------------
(* Properties *)

ScreenTypeOK ==
  /\ copy \in LobbyType
  /\ layer.control \in [viewed(layer) \cup {LockButton, Arrows} -> Control]
  /\ layer.shown \in MinPlayersPerGame..MaxPlayersPerGame
  /\ layer.captured \in viewed(layer) \cup {Nothing}
  /\ mouse.under \in viewed(layer) \cup {LockButton, Arrows, Nothing}
  /\ phase \in {"receive", "input", "dispatch"}

\* A view is locked once for every animation that runs, and once more when it
\* shows another player to one who is not the host: no unlocking is missing or
\* too much, whichever animations overlap.
LocksBalanced ==
  \A p \in viewed(layer) :
    LET locks == Len(layer.views[p].animations) + IF isForeign(p) THEN 1 ELSE 0
        c == layer.control[p]
    IN  c.hover = locks /\ c.press = locks /\ c.drag = locks /\ c.click = locks + 1

\* Exactly the view that has captured the mouse is dragged, and no animation
\* pulls at it meanwhile.  (So blockPress never meets a captured control.)
DraggedIsCaptured ==
  \A p \in viewed(layer) :
    /\ layer.control[p].dragged <=> layer.captured = p
    /\ layer.control[p].dragged => layer.views[p].animations = << >>

\* Controls, animations and the capture of the mouse fit together.
ScreenConsistent == ScreenTypeOK /\ LocksBalanced /\ DraggedIsCaptured

\* What a player who is not the host can ask for with the mouse: to move itself.
RegularMovesOnlyItself ==
  ~isHost(local) => \A i \in DOMAIN events :
    /\ events[i].type \notin {"SwapRequest", "PlayersPerGameRequest", "OpenRequest"}
    /\ events[i].type = "SeatRequest" => events[i].id = local

\* The lock button asks for the opposite of what the lobby is, the arrows for
\* another size, even when a click follows another one in the same frame.
AsksForNews ==
  \A i \in DOMAIN events :
    (events[i].type = "OpenRequest" /\ phase = "input") => events[i].value # copy.open

\* The mouse asks for nothing the player may not have, and nothing that is so already.
RequestsMakeSense == RegularMovesOnlyItself /\ AsksForNews

=============================================================================
