------------------------------- MODULE LobbyLayer -------------------------------
(***************************************************************************)
(* The lobby on the screen of the player local: LobbyLayer with its views  *)
(* of the players, the seats of the table, the lock button and the arrows, *)
(* as functions on a record.  LobbyScreen has the frames they are called   *)
(* in.  A place is where a view or the mouse is: a seat of the table, a    *)
(* slot of the queue, a control, or "air", anywhere else.                  *)
(***************************************************************************)
EXTENDS ClientLobby, UIInteractive, SequencesExt

CONSTANTS
  Locals,     \* the players whose screens are considered
  Garbage     \* what an uninitialised flag may be

ASSUME LayerAssumption == Locals \subseteq Player /\ Garbage \subseteq BOOLEAN

VARIABLE local      \* the player in front of the screen

\* The elements under the mouse that are not players.
LockButton == -10
Arrows     == -11
Floor      == -12     \* an element that is not interactive
Nothing    == -13     \* nullptr

-----------------------------------------------------------------------------
(* Places *)

at(name)    == [at |-> name, slot |-> 0]
queueSlot(i) == [at |-> "queue", slot |-> i]
air         == at("air")

seatNames == [size \in MinPlayersPerGame..MaxPlayersPerGame |->
                CASE size = 2 -> <<"down", "top">>
                  [] size = 3 -> <<"down", "left", "right">>
                  [] size = 4 -> <<"down", "left", "top", "right">>]

getGlobalSeatPositionBySeatIndex(shown, index) == at(seatNames[shown][index + 1])

isVisibleSeat(shown, spot) == \E i \in DOMAIN seatNames[shown] : at(seatNames[shown][i]) = spot
getSeatIndexBySeatElement(shown, spot) ==
  (CHOOSE i \in DOMAIN seatNames[shown] : at(seatNames[shown][i]) = spot) - 1

getPlayerIndexInQueueById(V, p) == (CHOOSE i \in DOMAIN V.queue : V.queue[i] = p) - 1
queuePlace(V, p) == queueSlot(getPlayerIndexInQueueById(V, p))

-----------------------------------------------------------------------------
(***************************************************************************)
(* The layer as a record:                                                  *)
(*   views[p]   : where p's view is, and its animations, the oldest first, *)
(*   control[e] : the interaction state of the views and of the controls,  *)
(*   showsOpen  : the open lock is the visible sprite of the lock button,  *)
(*   shown      : LobbySeatsPanel::m_currentPlayersPerGame,                *)
(*   captured   : InputCapture::m_capturedElement,                         *)
(*   outcome    : "running", or what ended the program.                    *)
(***************************************************************************)
running(L)  == L.outcome = "running"
abort(L, why) == [L EXCEPT !.outcome = why]
viewed(L)   == DOMAIN L.views

\* applyMoveAnimationToPlayer
startMove(L, p, spot) ==
  IF ~running(L) THEN L
  ELSE IF L.control[p].dragged THEN abort(L, "dragged")
  ELSE [L EXCEPT !.control[p] = blockInteraction(@),
                 !.views[p].animations =
                    Append(@, [from |-> L.views[p].pos, to |-> spot, age |-> 0])]

\* A place of the table, given by its index, exists only on the table that is shown.
IsSeat(L, index) == index \in 0..(L.shown - 1)

\* m_clientLobbyState and the panels: the place where p belongs, or what is wrong with it.
homeOutcome(L, V, p) ==
  LET s == getPlayerSeatIndex(V, p)
  IN  CASE s = Nowhere                                   -> "noPlayer"
        [] s \notin {Nowhere, QueueSeat} /\ ~IsSeat(L, s) -> "noSuchSeat"
        [] OTHER                                         -> "running"

home(L, V, p) ==
  LET s == getPlayerSeatIndex(V, p)
  IN  IF s = QueueSeat THEN queuePlace(V, p) ELSE getGlobalSeatPositionBySeatIndex(L.shown, s)

(***************************************************************************)
(* One view of a loop over them, towards its slot of the queue or towards  *)
(* its home.  The test whether a view is in its slot compares its corner   *)
(* with the slot's centre, so every view that waits is moved, in place or  *)
(* not.                                                                    *)
(***************************************************************************)
moveToSlot(L, V, p) == IF L.control[p].dragged THEN L ELSE startMove(L, p, queuePlace(V, p))

moveHome(L, V, p) ==
  IF homeOutcome(L, V, p) # "running" THEN abort(L, homeOutcome(L, V, p))
                                      ELSE startMove(L, p, home(L, V, p))

moveView(L, V, p, toSlots) ==
  IF ~running(L) THEN L
  ELSE IF p \notin viewed(L) THEN abort(L, "resync")
  ELSE IF toSlots THEN moveToSlot(L, V, p) ELSE moveHome(L, V, p)

moveInTurn(L, V, players, toSlots) ==
  LET after[i \in 0..Len(players)] ==
        IF i = 0 THEN L ELSE moveView(after[i - 1], V, players[i], toSlots)
  IN  after[Len(players)]

updatePlayersSeatsInQueue(L, V) == moveInTurn(L, V, V.queue, TRUE)

updatePlayersTablePositions(L, V) ==
  moveInTurn(L, V, SetToSeq({p \in Player : V.seats.seatOf[p] # Nowhere}), FALSE)

-----------------------------------------------------------------------------
(* Views *)

isForeign(p) == ~isHost(local) /\ p # local

\* LobbyPlayerView::init, and the end of addPlayer.
playerControl(p, garbage) ==
  LET c == unblockDrag(blockClick(newControl(garbage)))
  IN  IF isForeign(p) THEN blockInteraction(c) ELSE c

flags == [{"hovered", "pressed", "dragged"} -> Garbage]

addView(L, p, spot, garbage) ==
  [L EXCEPT !.views   = [q \in {p} \cup DOMAIN @ |->
                           IF q = p THEN [pos |-> spot, animations |-> << >>] ELSE @[q]],
            !.control = [e \in {p} \cup DOMAIN @ |->
                           IF e = p THEN playerControl(p, garbage) ELSE @[e]]]

buttonControl(e, garbage) ==
  IF e = LockButton /\ ~isHost(local) THEN blockInteraction(newControl(garbage))
                                      ELSE newControl(garbage)

\* The arrows are invisible, and so never hit, where local is not the host.
elementsAt(L, spot) ==
  LET there  == {p \in viewed(L) : L.views[p].pos = spot}
      flying == {p \in viewed(L) : L.views[p].pos = air}
      under  == CASE spot.at = "lock"    -> LockButton
                  [] spot.at = "arrows" /\ isHost(local) -> Arrows
                  [] spot.at = "outside" -> Nothing
                  [] OTHER                -> Floor
  IN  IF spot.at = "outside" THEN {Nothing}
      ELSE flying \cup IF there # {} THEN there ELSE {under}

\* hitTest of one element.
hits(L, e, spot) ==
  CASE e = LockButton -> {spot.at = "lock"}
    [] e = Arrows     -> {spot.at = "arrows"}
    [] OTHER          -> IF L.views[e].pos = air /\ spot.at # "outside" THEN BOOLEAN
                                                              ELSE {L.views[e].pos = spot}

(***************************************************************************)
(* setHovered with the callbacks of the lock button: under the mouse it    *)
(* shows what a click would make of the lobby, else what the lobby is.     *)
(***************************************************************************)
hover(L, V, e, value) ==
  LET c == setHovered(L.control[e], value)
  IN  [L EXCEPT !.control[e]  = c,
                !.showsOpen = IF e # LockButton \/ c.hovered = L.control[e].hovered THEN @
                              ELSE IF c.hovered THEN ~V.open ELSE V.open]

\* Mutant of updateLockButton: the sprites stay as they are.
updateLockButtonNever(L, V) == L

updateLockButton(L, V) ==
  LET off == [hover(L, V, LockButton, FALSE) EXCEPT !.showsOpen = V.open]
  IN  IF L.control[LockButton].hovered THEN hover(off, V, LockButton, TRUE) ELSE off

-----------------------------------------------------------------------------
(* Events.  The handlers see the copy as it is when the event is handled. *)

SeatChanged(type, p, s) == [type |-> type, id |-> p, seat |-> s]
Swapped(type, p, q)     == [type |-> type, first |-> p, second |-> q]
Value(type, v)          == [type |-> type, value |-> v]

\* The place an event names for a player: a slot of the queue or a seat that is shown.
seatOutcome(L, V, p, s) ==
  CASE s = QueueSeat /\ p \notin Ids(V.queue) -> "resync"
    [] s # QueueSeat /\ ~IsSeat(L, s)         -> "noSuchSeat"
    [] OTHER                                  -> "running"

seatPlace(L, V, p, s) ==
  IF s = QueueSeat THEN queuePlace(V, p) ELSE getGlobalSeatPositionBySeatIndex(L.shown, s)

onPlayerConnectedEvent(L, V, ev, garbage) ==
  LET outcome == seatOutcome(L, V, ev.id, ev.seat)
  IN  IF ev.id \in viewed(L) THEN abort(L, "connectedTwice")
      ELSE IF outcome # "running" THEN abort(L, outcome)
      ELSE addView(L, ev.id, seatPlace(L, V, ev.id, ev.seat), garbage)

\* Mutant of onSeatPositionsChangedEvent: the queue does not close up.
onSeatChangedAlone(L, V, ev) ==
  LET outcome == IF ev.id \notin viewed(L) THEN "resync" ELSE seatOutcome(L, V, ev.id, ev.seat)
  IN  IF outcome # "running" THEN abort(L, outcome)
      ELSE startMove(L, ev.id, seatPlace(L, V, ev.id, ev.seat))

onSeatPositionsChangedEvent(L, V, ev) ==
  LET outcome == IF ev.id \notin viewed(L) THEN "resync" ELSE seatOutcome(L, V, ev.id, ev.seat)
      spot    == seatPlace(L, V, ev.id, ev.seat)
  IN  IF outcome # "running" THEN abort(L, outcome)
      ELSE IF L.views[ev.id].pos = spot THEN L
      ELSE updatePlayersSeatsInQueue(startMove(L, ev.id, spot), V)

onSeatPositionsSwappedEvent(L, V, ev) ==
  LET both     == {ev.first, ev.second}
      seats    == {getPlayerSeatIndex(V, p) : p \in both}
      move(A, p) == IF L.views[p].pos = home(L, V, p) THEN A ELSE startMove(A, p, home(L, V, p))
  IN  IF ~(both \subseteq viewed(L)) \/ Nowhere \in seats \/ Cardinality(seats) = 1
      THEN abort(L, "resync")
      ELSE IF \E p \in both : homeOutcome(L, V, p) # "running" THEN abort(L, "noSuchSeat")
      ELSE move(move(L, ev.first), ev.second)

onPlayersPerGameChangedEvent(L, V, ev) ==
  updatePlayersTablePositions([L EXCEPT !.shown = ev.value], V)

onLobbyOpenStateChangedEvent(L, V, ev) == updateLockButton(L, V)

-----------------------------------------------------------------------------
(* The user drops a view *)

canChangePosition(V) == isHost(local) \/ V.canMove
canSwapPositions     == isHost(local)

dropRequests(L, V, p, spot) ==
  LET current == getPlayerSeatIndex(V, p)
  IN  IF isVisibleSeat(L.shown, spot)
      THEN LET s == getSeatIndexBySeatElement(L.shown, spot)
               q == getPlayerIdBySeatIndex(V, s)
           IN  CASE s # current /\ q # Nobody /\ canSwapPositions ->
                      << Swapped("SwapRequest", p, q) >>
                 [] s # current /\ q = Nobody /\ canChangePosition(V) ->
                      << SeatChanged("SeatRequest", p, s) >>
                 [] OTHER -> << >>
      ELSE IF spot.at = "queue" /\ current # QueueSeat /\ canChangePosition(V)
           THEN << SeatChanged("SeatRequest", p, QueueSeat) >> ELSE << >>

\* onLobbyPlayerViewDrop without its requests: the view flies home.
drop(L, V, p) == moveHome(L, V, p)

=============================================================================
