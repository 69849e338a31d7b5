----------------------------- MODULE MCLobbyScreen -----------------------------
(* LobbyScreen for TLC: where the mouse goes, and the properties. *)
EXTENDS LobbyScreen

overAll ==
  { at("floor"), at("down"), at("top"), at("left"), queueSlot(0), at("lock"), at("arrows") }

\* With the third seat of a table for three, and off the floor.
overThird == { at("floor"), at("down"), at("right"), at("outside") }

-----------------------------------------------------------------------------
\* When nothing moves and nothing is dragged, every view is where the lobby
\* has its player, and the table has the lobby's size: however drags, packets
\* and animations overlapped, unless two changes met in one frame or somebody left.
AtRest ==
  /\ phase = "receive" /\ events = << >> /\ changes = 0 /\ ~isDragging /\ running(layer)
  /\ \A p \in viewed(layer) : layer.views[p].animations = << >>
RestingViewsAtHome ==
  calm /\ AtRest => /\ layer.shown = copy.ppg
                    /\ \A p \in viewed(layer) : layer.views[p].pos = home(layer, copy, p)

\* assert(!player.isDragged()): nothing moves a view while the user drags it.
NotMovedWhileDragged == layer.outcome # "dragged"

\* assert(index < m_currentPlayersPerGame): a seat the copy has is on the table that is shown.
SeatsAreShown == layer.outcome # "noSuchSeat"

\* assert(false) of resyncLayer and addPlayer: an event fits the copy it is handled with.
EventsFitTheCopy == layer.outcome # "resync"

\* assert(isValidSeatPosition(seatPosition)): the user is offered no seat the copy lost.
RequestedSeatExists == layer.outcome # "invalidSeat"

\* getPlayerSeatIndex(playerId).value(): whoever can be dropped is in the lobby.
DroppedPlayerIsThere == layer.outcome # "noPlayer"

\* element->asInteractive(): there is an element when the one under the mouse changes.
SomethingUnderMouse == layer.outcome # "nullElement"

=============================================================================
