------------------------------- MODULE EventUsers -------------------------------
(***************************************************************************)
(* EventSystem with handlers that do anything its users could: nothing,    *)
(* publish an event, create an object that subscribes (not to the type     *)
(* that is being dispatched: nobody does, and it would be undefined), or   *)
(* destroy an object, themselves included.                                 *)
(***************************************************************************)
EXTENDS EventSystem

CONSTANT MaxPublished    \* bound on the events of a behaviour

VARIABLES
  unborn,      \* objects that were not created yet
  heard,       \* who was called for the event at hand
  listening,   \* who was to be called for it
  done         \* the events done in this dispatch

ghosts == <<unborn, heard, listening, done>>
usersVars == <<esVars, ghosts>>

UsersInit ==
  /\ EventSystemInit /\ handlers = noHandlers
  /\ alive = {}
  /\ unborn = Object /\ heard = {} /\ listening = {} /\ done = 0

Create ==
  \E o \in unborn, types \in SUBSET EventType :
    /\ cursor.handler # 0 => current.type \notin types
    /\ handlers' = subscribe(handlers, types, o)
    /\ alive' = alive \cup {o} /\ unborn' = unborn \ {o}
    /\ nothingPublished

Destroy ==
  \E o \in alive :
    /\ alive' = alive \ {o}
    /\ UNCHANGED <<handlers, unborn>> /\ nothingPublished

Publish ==
  \E t \in EventType :
    /\ published < MaxPublished
    /\ publish(<< [type |-> t] >>)
    /\ UNCHANGED <<handlers, alive, unborn>>

Nothing == UNCHANGED <<handlers, alive, unborn>> /\ nothingPublished

CallHandler ==
  /\ atHandler /\ called \in alive
  /\ cursor' = nextHandler
  /\ Create \/ Destroy \/ Publish \/ Nothing
  /\ heard' = heard \cup {called}
  /\ UNCHANGED <<queue, listening, done>>

BetweenFrames ==
  /\ cursor.state = "outside"
  /\ Create \/ Destroy \/ Publish
  /\ UNCHANGED <<queue, cursor, heard, listening, done>>

Dispatch ==
  \/ BeginDispatch /\ done' = 0 /\ UNCHANGED <<unborn, heard, listening>>
  \/ /\ BeginItem
     /\ listening' = ToSet(subscribers) \cap alive /\ heard' = {}
     /\ UNCHANGED <<unborn, done>>
  \/ SkipDead /\ UNCHANGED ghosts
  \/ EndItem /\ done' = done + 1 /\ UNCHANGED <<unborn, heard, listening>>
  \/ EndRound /\ UNCHANGED ghosts

\* A frame that threw ended the program.
UsersNext == CallHandler \/ BetweenFrames \/ Dispatch

\* The thread that is in dispatch goes on with it.
UsersSpec == UsersInit /\ [][UsersNext]_usersVars /\ WF_usersVars(Dispatch \/ CallHandler)

-----------------------------------------------------------------------------
UsersTypeOK ==
  /\ handlers \in [EventType -> Seq(Object)]
  /\ alive \subseteq Object
  /\ cursor.state \in {"outside", "inside", "thrown"}
  /\ cursor.handler \in 0..(cursor.last + 1) /\ cursor.item \in 1..(Len(queue) + 1)

\* Events are neither lost, doubled nor reordered: those that wait are, in
\* order, the last ones published, however many handlers published meanwhile.
WaitingInOrder ==
  \A i \in DOMAIN waiting : waiting[i].id = published - Len(waiting) + i

\* Dispatch ends, one way or the other, even when every handler publishes.
DispatchEnds == cursor.state = "inside" ~> cursor.state # "inside"

\* A frame never goes through more than one event above the bound.
FrameIsBounded == done <= MaxEventsPerFrame + 1

\* The queue and the cursor fit together, within the bound of a frame.
QueueConsistent == UsersTypeOK /\ WaitingInOrder /\ FrameIsBounded

\* Who subscribed before an event is called for it, unless it dies meanwhile,
\* whatever the handlers before it created or destroyed; and no event waits for
\* the next frame: what handlers published is dispatched too.
EveryoneIsCalled ==
  [][/\ EndItem => listening \cap alive \subseteq heard
     /\ EndRound /\ cursor'.state = "outside" => nextQueue' = << >> /\ queue' = << >>]_usersVars

=============================================================================
