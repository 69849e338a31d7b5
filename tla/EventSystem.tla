------------------------------ MODULE EventSystem ------------------------------
(***************************************************************************)
(* EventSystem.h: the events of a frame, their handlers and the dispatch   *)
(* that brings them together.  What a handler does is the business of the  *)
(* module that extends this one; here are the steps of dispatch around it. *)
(*                                                                         *)
(* A handler is named by its object: subscribe stores the object and a     *)
(* weak_ptr to its life state, and the object of a dead life state is not  *)
(* called any more.  An event is a record with a field type and a field    *)
(* id, the number of its publication, which the code does not have.        *)
(***************************************************************************)
EXTENDS Integers, Sequences, SequencesExt, FiniteSets

CONSTANTS
  EventType,
  Object,
  MaxEventsPerFrame     \* MAX_EVENTS_PER_FRAME, 1000 in the code

ASSUME MaxEventsAssumption == MaxEventsPerFrame \in Nat \ {0}

VARIABLES
  queue,        \* the events dispatch goes through
  nextQueue,    \* the events published since dispatch took the others
  handlers,     \* EventType -> the objects that subscribed, in order
  alive,        \* the objects whose life state says so
  cursor,       \* where dispatch is
  published     \* the number of events published so far

esVars == <<queue, nextQueue, handlers, alive, cursor, published>>

(***************************************************************************)
(* item is the event dispatch is at, handler the one of its handlers, last *)
(* how many there were when the range-for over them began, processed the   *)
(* events done in this frame.                                              *)
(***************************************************************************)
outside == [state |-> "outside", item |-> 1, handler |-> 0, last |-> 0, processed |-> 0]

noHandlers == [t \in EventType |-> << >>]

EventSystemInit ==
  /\ queue = << >> /\ nextQueue = << >>
  /\ cursor = outside
  /\ published = 0

\* Where an object that constructs itself enters its handlers, one per type.
subscribe(h, types, object) ==
  [t \in EventType |-> IF t \in types THEN Append(h[t], object) ELSE h[t]]

withId(event, id) == [f \in DOMAIN event \cup {"id"} |-> IF f = "id" THEN id ELSE event[f]]

numbered(events, n) == [i \in DOMAIN events |-> withId(events[i], n + i)]

\* Mutant of publish: the event goes in front.
publishInFront(events) ==
  /\ nextQueue' = numbered(events, published) \o nextQueue
  /\ published' = published + Len(events)

publish(events) ==
  /\ nextQueue' = nextQueue \o numbered(events, published)
  /\ published' = published + Len(events)

nothingPublished == UNCHANGED <<nextQueue, published>>

\* The events that wait for their handlers, or are with them.
waiting ==
  (IF cursor.state = "outside" THEN << >> ELSE SubSeq(queue, cursor.item, Len(queue))) \o nextQueue

current    == queue[cursor.item]
subscribers == handlers[current.type]

atItem == cursor.state = "inside" /\ cursor.item <= Len(queue)

\* The first turn of the do-while finds the queue of the last dispatch, empty.
BeginDispatch ==
  /\ cursor.state = "outside"
  /\ cursor' = [outside EXCEPT !.state = "inside"]
  /\ UNCHANGED <<queue, nextQueue, handlers, alive, published>>

BeginItem ==
  /\ atItem /\ cursor.handler = 0
  /\ cursor' = [cursor EXCEPT !.handler = 1, !.last = Len(subscribers)]
  /\ UNCHANGED <<queue, nextQueue, handlers, alive, published>>

atHandler == atItem /\ cursor.handler \in 1..cursor.last

\* The handler to call; one that grew its own vector has lost it.
called == subscribers[cursor.handler]

\* Mutants of nextHandler: one is left out; the loop stays where it is.
leavesOneOut == [cursor EXCEPT !.handler = @ + 2]
staysThere   == [cursor EXCEPT !.handler = @]

nextHandler == [cursor EXCEPT !.handler = @ + 1]

SkipDead ==
  /\ atHandler /\ called \notin alive
  /\ cursor' = nextHandler
  /\ UNCHANGED <<queue, nextQueue, handlers, alive, published>>

\* remove_if over handlers: those of dead objects go, the others keep their order.
staying(objects, living, i) == Cardinality({j \in 1..i : objects[j] \in living})
survivors(objects, living) ==
  [k \in 1..staying(objects, living, Len(objects)) |->
     objects[CHOOSE i \in DOMAIN objects : objects[i] \in living /\ staying(objects, living, i) = k]]

\* One event too many ends the program.
EndItem ==
  /\ atItem /\ cursor.handler > cursor.last
  /\ handlers' = [handlers EXCEPT ![current.type] = survivors(@, alive)]
  /\ cursor' = IF cursor.processed + 1 > MaxEventsPerFrame
               THEN [cursor EXCEPT !.state = "thrown"]
               ELSE [cursor EXCEPT !.item = @ + 1, !.handler = 0, !.processed = @ + 1]
  /\ UNCHANGED <<queue, nextQueue, alive, published>>

\* clear, swap, and once more unless nothing was published.
EndRound ==
  /\ cursor.state = "inside" /\ cursor.item > Len(queue)
  /\ queue' = nextQueue /\ nextQueue' = << >>
  /\ cursor' = IF nextQueue = << >> THEN outside
               ELSE [cursor EXCEPT !.item = 1, !.handler = 0]
  /\ UNCHANGED <<handlers, alive, published>>

Dispatching == BeginItem \/ SkipDead \/ EndItem \/ EndRound

=============================================================================
