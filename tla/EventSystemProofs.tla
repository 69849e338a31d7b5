---------------------------- MODULE EventSystemProofs ----------------------------
(***************************************************************************)
(* Theorems about the event system, with users that do anything            *)
(* (EventUsers) and with those of the program (GameFrame).                 *)
(***************************************************************************)
EXTENDS EventUsers, GameFrame, FiniteSetTheorems, SequenceTheorems, WellFoundedInduction, TLAPS

-----------------------------------------------------------------------------
(* The handlers that stay *)

\* A non-empty set of natural numbers has a smallest element.
LEMMA SmallestOf ==
  ASSUME NEW T \in SUBSET Nat, T # {}
  PROVE  \E x \in T : \A y \in T : x <= y
<1> DEFINE R == OpToRel(<, Nat)
<1>1. IsWellFoundedOn(R, Nat)
  BY NatLessThanWellFounded
<1>2. PICK x \in T : \A y \in T : << y, x >> \notin R
  <2> HIDE DEF R
  <2> QED  BY <1>1, WFMin
<1>3. \A y \in T : << y, x >> \in R <=> y < x
  BY DEF OpToRel
<1>4. \A y \in T : ~(y < x)
  BY <1>2, <1>3
<1> HIDE DEF R
<1> QED  BY <1>4

\* They are counted one position at a time.
LEMMA StayingSteps ==
  ASSUME NEW objects, NEW living, NEW i \in Nat
  PROVE  /\ staying(objects, living, i) \in 0..i
         /\ staying(objects, living, 0) = 0
         /\ objects[i + 1] \in living
              => staying(objects, living, i + 1) = staying(objects, living, i) + 1
         /\ objects[i + 1] \notin living
              => staying(objects, living, i + 1) = staying(objects, living, i)
<1> DEFINE At(n) == {j \in 1..n : objects[j] \in living}
<1>1. \A n \in Nat : IsFiniteSet(At(n)) /\ Cardinality(At(n)) \in 0..n
  <2> TAKE n \in Nat
  <2>1. IsFiniteSet(1..n) /\ Cardinality(1..n) = n
    <3>1. Cardinality(1..n) = IF 1 > n THEN 0 ELSE n - 1 + 1
      BY FS_Interval
    <3> QED  BY <3>1, FS_Interval
  <2>2. At(n) \in SUBSET (1..n)
    OBVIOUS
  <2>3. IsFiniteSet(At(n)) /\ Cardinality(At(n)) <= Cardinality(1..n)
    BY <2>1, <2>2, FS_Subset
  <2>4. Cardinality(At(n)) \in Nat
    BY <2>3, FS_CardinalityType
  <2> QED  BY <2>1, <2>3, <2>4
<1>2. At(0) = {}
  OBVIOUS
<1>3. objects[i + 1] \in living => At(i + 1) = At(i) \cup {i + 1} /\ i + 1 \notin At(i)
  OBVIOUS
<1>4. objects[i + 1] \notin living => At(i + 1) = At(i)
  OBVIOUS
<1>5. \A n \in Nat : staying(objects, living, n) = Cardinality(At(n))
  BY DEF staying
<1> HIDE DEF At
<1> QED  BY <1>1, <1>2, <1>3, <1>4, <1>5, FS_AddElement, FS_EmptySet

\* Each number up to the number of those that stay is reached at one of them.
LEMMA StayingReaches ==
  ASSUME NEW S, NEW objects \in Seq(S), NEW living,
         NEW k \in 1..staying(objects, living, Len(objects))
  PROVE  \E i \in DOMAIN objects : objects[i] \in living /\ staying(objects, living, i) = k
<1> DEFINE f(i) == staying(objects, living, i)
           Late == {i \in 0..Len(objects) : f(i) >= k}
<1>1. Len(objects) \in Nat /\ DOMAIN objects = 1..Len(objects)
  BY LenProperties
<1>2. /\ f(0) = 0 /\ \A i \in Nat : f(i) \in 0..i
      /\ \A i \in Nat : objects[i + 1] \in living => f(i + 1) = f(i) + 1
      /\ \A i \in Nat : objects[i + 1] \notin living => f(i + 1) = f(i)
  BY StayingSteps
<1>3. k \in Nat \ {0} /\ f(Len(objects)) >= k
  BY <1>1, <1>2
<1> HIDE DEF f
<1>4. PICK i \in Late : \A j \in Late : i <= j
  <2>1. Late \in SUBSET Nat /\ Late # {}
    BY <1>1, <1>3
  <2> QED  BY <2>1, SmallestOf
<1>5. i \in 1..Len(objects) /\ f(i) >= k
  BY <1>1, <1>2, <1>3, <1>4
<1>6. i - 1 \in 0..Len(objects) /\ ~(f(i - 1) >= k)
  BY <1>1, <1>4, <1>5
<1>7. i - 1 \in Nat /\ i \in Nat /\ (i - 1) + 1 = i
  BY <1>5
<1>8. f(i - 1) \in Nat /\ f(i) \in Nat
  BY <1>2, <1>7
<1>9. objects[i] \in living /\ f(i) = f(i - 1) + 1
  BY <1>2, <1>3, <1>5, <1>6, <1>7, <1>8
<1>10. f(i) = k
  BY <1>3, <1>5, <1>6, <1>8, <1>9
<1> QED  BY <1>1, <1>5, <1>9, <1>10 DEF f

\* What stays is a sequence of the same objects, and no longer.
LEMMA SurvivorsAre ==
  ASSUME NEW S, NEW objects \in Seq(S), NEW living
  PROVE  /\ survivors(objects, living) \in Seq(S)
         /\ Len(survivors(objects, living)) \in 0..Len(objects)
<1> DEFINE f(i) == staying(objects, living, i)
           at(k) == CHOOSE i \in DOMAIN objects : objects[i] \in living /\ f(i) = k
           n == f(Len(objects))
           t == [k \in 1..n |-> objects[at(k)]]
<1>1. Len(objects) \in Nat /\ DOMAIN objects = 1..Len(objects)
  BY LenProperties
<1>2. n \in 0..Len(objects)
  BY <1>1, StayingSteps
<1>3. survivors(objects, living) = t
  BY <1>1 DEF survivors
<1>4. ASSUME NEW k \in 1..n
      PROVE  objects[at(k)] \in S
  <2>1. \E i \in DOMAIN objects : objects[i] \in living /\ f(i) = k
    BY StayingReaches
  <2>2. at(k) \in DOMAIN objects
    <3> HIDE DEF f
    <3> QED  BY <2>1
  <2> QED  BY <1>1, <2>2, ElementOfSeq
<1> HIDE DEF f, at
<1>5. t \in Seq(S) /\ Len(t) = n
  <2>1. \A k \in 1..n : t[k] \in S
    BY <1>4
  <2>2. t \in [1..n -> S]
    BY <2>1
  <2>3. DOMAIN t = 1..n /\ n \in Nat
    BY <1>2
  <2> HIDE DEF t, n
  <2>4. t \in Seq(S)
    BY <2>2, <2>3, SeqDef
  <2> QED  BY <2>3, <2>4, LenProperties
<1> QED  BY <1>2, <1>3, <1>5

-----------------------------------------------------------------------------
(* The queue and the cursor *)

Cursor == [state : {"outside", "inside", "thrown"}, item : Nat \ {0},
           handler : Nat, last : Nat, processed : 0..MaxEventsPerFrame]

\* The cursor lies in the queue, and in the handlers of the event it is at.
Fitting(c, q, h) ==
  /\ c.item <= Len(q) + 1 /\ c.handler <= c.last + 1
  /\ c.state = "outside" => c = outside /\ q = << >>
  /\ c.handler # 0 => c.item <= Len(q)
  /\ c.state = "inside" /\ c.handler # 0 => c.last <= Len(h[q[c.item].type])

\* S has the events of the user of the event system.
Fits(S) ==
  /\ queue \in Seq(S) /\ nextQueue \in Seq(S) /\ published \in Nat
  /\ handlers \in [EventType -> Seq(Object)] /\ alive \subseteq Object
  /\ cursor \in Cursor
  /\ Fitting(cursor, queue, handlers)

Events(S) == \A e \in S : e.type \in EventType

\* Where nothing is dispatched.
LEMMA OutsideIsCursor == outside \in Cursor /\ \A h : Fitting(outside, << >>, h)
<1>1. MaxEventsPerFrame \in Nat
  BY MaxEventsAssumption
<1>2. outside \in Cursor
  BY <1>1 DEF outside, Cursor
<1> QED  BY <1>2 DEF Fitting, outside

\* What the loops read of the queue and the handlers.
LEMMA FitsReads ==
  ASSUME NEW S, Events(S), Fits(S)
  PROVE  /\ Len(queue) \in Nat /\ Len(nextQueue) \in Nat
         /\ DOMAIN queue = 1..Len(queue) /\ DOMAIN nextQueue = 1..Len(nextQueue)
         /\ cursor.item \in Nat \ {0} /\ cursor.handler \in Nat /\ cursor.last \in Nat
         /\ cursor.processed \in 0..MaxEventsPerFrame
         /\ cursor.item <= Len(queue) =>
              /\ current \in S /\ current.type \in EventType
              /\ subscribers \in Seq(Object) /\ Len(subscribers) \in Nat
              /\ DOMAIN subscribers = 1..Len(subscribers)
<1>1. Len(queue) \in Nat /\ Len(nextQueue) \in Nat
      /\ DOMAIN queue = 1..Len(queue) /\ DOMAIN nextQueue = 1..Len(nextQueue)
  BY LenProperties DEF Fits
<1>2. /\ cursor.item \in Nat \ {0} /\ cursor.handler \in Nat /\ cursor.last \in Nat
      /\ cursor.processed \in 0..MaxEventsPerFrame
  BY DEF Fits, Cursor
<1>3. ASSUME cursor.item <= Len(queue)
      PROVE  /\ current \in S /\ current.type \in EventType
             /\ subscribers \in Seq(Object) /\ Len(subscribers) \in Nat
             /\ DOMAIN subscribers = 1..Len(subscribers)
  <2>1. cursor.item \in 1..Len(queue)
    BY <1>1, <1>2, <1>3
  <2>2. current \in S
    BY <2>1, ElementOfSeq DEF current, Fits
  <2>3. current.type \in EventType
    BY <2>2 DEF Events
  <2>4. subscribers \in Seq(Object)
    BY <2>3 DEF subscribers, Fits
  <2> QED  BY <2>2, <2>3, <2>4, LenProperties
<1> QED  BY <1>1, <1>2, <1>3

\* The cursor after the steps that move it.
LEMMA CursorSteps ==
  ASSUME NEW c \in Cursor, NEW n \in Nat
  PROVE  /\ [c EXCEPT !.handler = 1, !.last = n]
              = [state |-> c.state, item |-> c.item, handler |-> 1, last |-> n, processed |-> c.processed]
         /\ [c EXCEPT !.handler = @ + 1]
              = [state |-> c.state, item |-> c.item, handler |-> c.handler + 1, last |-> c.last,
                 processed |-> c.processed]
         /\ [c EXCEPT !.state = "thrown"]
              = [state |-> "thrown", item |-> c.item, handler |-> c.handler, last |-> c.last,
                 processed |-> c.processed]
         /\ [c EXCEPT !.item = @ + 1, !.handler = 0, !.processed = @ + 1]
              = [state |-> c.state, item |-> c.item + 1, handler |-> 0, last |-> c.last,
                 processed |-> c.processed + 1]
         /\ [c EXCEPT !.item = 1, !.handler = 0]
              = [state |-> c.state, item |-> 1, handler |-> 0, last |-> c.last,
                 processed |-> c.processed]
         /\ [outside EXCEPT !.state = "inside"]
              = [state |-> "inside", item |-> 1, handler |-> 0, last |-> 0, processed |-> 0]
<1> USE DEF Cursor
<1>1. [c EXCEPT !.handler = 1, !.last = n]
        = [state |-> c.state, item |-> c.item, handler |-> 1, last |-> n, processed |-> c.processed]
  <2> DEFINE d == [c EXCEPT !.handler = 1]
  <2>1. d = [state |-> c.state, item |-> c.item, handler |-> 1, last |-> c.last,
             processed |-> c.processed]
    OBVIOUS
  <2>2. [c EXCEPT !.handler = 1, !.last = n] = [d EXCEPT !.last = n]
    OBVIOUS
  <2> HIDE DEF d
  <2> QED  BY <2>1, <2>2
<1>2. [c EXCEPT !.handler = @ + 1]
        = [state |-> c.state, item |-> c.item, handler |-> c.handler + 1, last |-> c.last,
           processed |-> c.processed]
  OBVIOUS
<1>3. [c EXCEPT !.state = "thrown"]
        = [state |-> "thrown", item |-> c.item, handler |-> c.handler, last |-> c.last,
           processed |-> c.processed]
  OBVIOUS
<1>4. [c EXCEPT !.item = @ + 1, !.handler = 0, !.processed = @ + 1]
        = [state |-> c.state, item |-> c.item + 1, handler |-> 0, last |-> c.last,
           processed |-> c.processed + 1]
  <2> DEFINE d == [c EXCEPT !.item = c.item + 1]
             e == [d EXCEPT !.handler = 0]
  <2>1. d = [state |-> c.state, item |-> c.item + 1, handler |-> c.handler, last |-> c.last,
             processed |-> c.processed]
    OBVIOUS
  <2>2. [c EXCEPT !.item = @ + 1, !.handler = 0, !.processed = @ + 1]
          = [e EXCEPT !.processed = c.processed + 1]
    OBVIOUS
  <2> HIDE DEF d
  <2>3. e = [state |-> c.state, item |-> c.item + 1, handler |-> 0, last |-> c.last,
             processed |-> c.processed]
    BY <2>1
  <2> HIDE DEF e
  <2> QED  BY <2>2, <2>3
<1>5. [c EXCEPT !.item = 1, !.handler = 0]
        = [state |-> c.state, item |-> 1, handler |-> 0, last |-> c.last,
           processed |-> c.processed]
  <2> DEFINE d == [c EXCEPT !.item = 1]
  <2>1. d = [state |-> c.state, item |-> 1, handler |-> c.handler, last |-> c.last,
             processed |-> c.processed]
    OBVIOUS
  <2>2. [c EXCEPT !.item = 1, !.handler = 0] = [d EXCEPT !.handler = 0]
    OBVIOUS
  <2> HIDE DEF d
  <2> QED  BY <2>1, <2>2
<1>6. [outside EXCEPT !.state = "inside"]
        = [state |-> "inside", item |-> 1, handler |-> 0, last |-> 0, processed |-> 0]
  BY DEF outside
<1> QED  BY <1>1, <1>2, <1>3, <1>4, <1>5, <1>6

\* What each of them does to the fields.
CursorAt(c, state, item, handler, last, processed) ==
  /\ c \in Cursor
  /\ c.state = state /\ c.item = item /\ c.handler = handler /\ c.last = last
  /\ c.processed = processed

\* dispatch is entered.
LEMMA BeginDispatchFits ==
  ASSUME NEW S, Events(S), Fits(S), BeginDispatch
  PROVE  Fits(S)' /\ CursorAt(cursor', "inside", 1, 0, 0, 0) /\ queue' = << >>
<1>1. CursorAt(cursor', "inside", 1, 0, 0, 0)
  <2>1. cursor' = [state |-> "inside", item |-> 1, handler |-> 0, last |-> 0, processed |-> 0]
    BY CursorSteps DEF BeginDispatch, Fits
  <2> QED  BY <2>1, MaxEventsAssumption DEF CursorAt, Cursor
<1>2. queue' = << >> /\ queue' = queue
  BY DEF BeginDispatch, Fits, Fitting
<1>3. Fitting(cursor', queue', handlers')
  BY <1>1, <1>2 DEF CursorAt, Fitting
<1> QED  BY <1>1, <1>2, <1>3 DEF Fits, BeginDispatch, CursorAt

\* The handlers of the next event are counted.
LEMMA BeginItemFits ==
  ASSUME NEW S, Events(S), Fits(S), BeginItem
  PROVE  /\ Fits(S)'
         /\ CursorAt(cursor', "inside", cursor.item, 1, Len(subscribers), cursor.processed)
<1>1. /\ cursor.item \in 1..Len(queue) /\ cursor.state = "inside"
      /\ Len(queue) \in Nat /\ Len(subscribers) \in Nat
  BY FitsReads DEF BeginItem, atItem
<1>2. CursorAt(cursor', "inside", cursor.item, 1, Len(subscribers), cursor.processed)
  <2>1. cursor \in Cursor
    BY DEF Fits
  <2>2. cursor' = [state |-> cursor.state, item |-> cursor.item, handler |-> 1,
                   last |-> Len(subscribers), processed |-> cursor.processed]
    BY <1>1, <2>1, CursorSteps DEF BeginItem
  <2> QED  BY <1>1, <2>1, <2>2 DEF CursorAt, Cursor
<1>3. Fitting(cursor', queue, handlers)
  BY <1>1, <1>2 DEF CursorAt, Fitting, subscribers, current
<1> QED  BY <1>2, <1>3 DEF Fits, BeginItem, CursorAt

(***************************************************************************)
(* The loop over the handlers goes on, whatever the handler did that was   *)
(* called: it may publish and let others subscribe.                        *)
(***************************************************************************)
LEMMA NextHandlerFits ==
  ASSUME NEW S, Events(S), Fits(S), atHandler, cursor' = nextHandler, queue' = queue,
         nextQueue' \in Seq(S), published' \in Nat,
         handlers' \in [EventType -> Seq(Object)], alive' \subseteq Object,
         Len(subscribers) <= Len(handlers'[current.type])
  PROVE  /\ Fits(S)'
         /\ CursorAt(cursor', "inside", cursor.item, cursor.handler + 1, cursor.last, cursor.processed)
         /\ cursor.handler \in 1..cursor.last /\ cursor.last <= Len(subscribers)
<1>1. /\ cursor.item \in 1..Len(queue) /\ cursor.state = "inside" /\ cursor.handler \in 1..cursor.last
      /\ Len(queue) \in Nat /\ Len(subscribers) \in Nat /\ cursor.last \in Nat
  BY FitsReads DEF atHandler, atItem
<1>2. CursorAt(cursor', "inside", cursor.item, cursor.handler + 1, cursor.last, cursor.processed)
  <2>1. cursor \in Cursor
    BY DEF Fits
  <2>2. cursor' = [state |-> cursor.state, item |-> cursor.item, handler |-> cursor.handler + 1,
                   last |-> cursor.last, processed |-> cursor.processed]
    BY <2>1, CursorSteps DEF nextHandler
  <2> QED  BY <1>1, <2>1, <2>2 DEF CursorAt, Cursor
<1>3. cursor.last <= Len(subscribers)
  BY <1>1 DEF Fits, Fitting, subscribers, current
<1>4. Len(handlers'[current.type]) \in Nat
  <2>1. current.type \in EventType
    BY <1>1, FitsReads
  <2> QED  BY <2>1, LenProperties
<1>5. Fitting(cursor', queue, handlers')
  <2>1. cursor'.last <= Len(handlers'[current.type])
    BY <1>1, <1>2, <1>3, <1>4 DEF CursorAt
  <2>2. queue[cursor'.item] = current
    BY <1>2 DEF CursorAt, current
  <2> QED  BY <1>1, <1>2, <2>1, <2>2 DEF CursorAt, Fitting
<1> QED  BY <1>1, <1>2, <1>3, <1>5 DEF Fits, CursorAt

\* A dead object is passed over.
LEMMA SkipDeadFits ==
  ASSUME NEW S, Events(S), Fits(S), SkipDead
  PROVE  /\ Fits(S)'
         /\ CursorAt(cursor', "inside", cursor.item, cursor.handler + 1, cursor.last, cursor.processed)
         /\ cursor.handler \in 1..cursor.last /\ cursor.last <= Len(subscribers)
<1>1. cursor.item <= Len(queue)
  BY DEF SkipDead, atHandler, atItem
<1>2. Len(subscribers) <= Len(handlers'[current.type])
  BY <1>1, FitsReads DEF SkipDead, subscribers
<1>3. /\ nextQueue' \in Seq(S) /\ published' \in Nat /\ queue' = queue
      /\ handlers' \in [EventType -> Seq(Object)] /\ alive' \subseteq Object
      /\ atHandler /\ cursor' = nextHandler
  BY DEF SkipDead, Fits
<1> QED  BY <1>2, <1>3, NextHandlerFits

\* The dead handlers of the event are erased, and the loop goes on or throws.
LEMMA EndItemFits ==
  ASSUME NEW S, Events(S), Fits(S), EndItem
  PROVE  /\ Fits(S)'
         /\ cursor.item \in 1..Len(queue)
         /\ handlers'[current.type] = survivors(subscribers, alive)
         /\ \A t \in EventType \ {current.type} : handlers'[t] = handlers[t]
         /\ IF cursor.processed = MaxEventsPerFrame
            THEN CursorAt(cursor', "thrown", cursor.item, cursor.handler, cursor.last, cursor.processed)
            ELSE CursorAt(cursor', "inside", cursor.item + 1, 0, cursor.last, cursor.processed + 1)
<1>1. /\ cursor.item \in 1..Len(queue) /\ cursor.state = "inside"
      /\ Len(queue) \in Nat /\ current.type \in EventType /\ subscribers \in Seq(Object)
      /\ cursor.processed \in 0..MaxEventsPerFrame /\ MaxEventsPerFrame \in Nat
  BY FitsReads, MaxEventsAssumption DEF EndItem, atItem
<1>2. /\ handlers' \in [EventType -> Seq(Object)]
      /\ handlers'[current.type] = survivors(subscribers, alive)
      /\ \A t \in EventType \ {current.type} : handlers'[t] = handlers[t]
  <2>1. handlers \in [EventType -> Seq(Object)]
    BY DEF Fits
  <2>2. survivors(subscribers, alive) \in Seq(Object)
    BY <1>1, SurvivorsAre
  <2>3. handlers' = [handlers EXCEPT ![current.type] = survivors(subscribers, alive)]
    BY DEF EndItem, subscribers
  <2> QED  BY <1>1, <2>1, <2>2, <2>3
<1>3. IF cursor.processed = MaxEventsPerFrame
      THEN CursorAt(cursor', "thrown", cursor.item, cursor.handler, cursor.last, cursor.processed)
      ELSE CursorAt(cursor', "inside", cursor.item + 1, 0, cursor.last, cursor.processed + 1)
  <2>1. cursor \in Cursor
    BY DEF Fits
  <2>2. CASE cursor.processed = MaxEventsPerFrame
    <3>1. cursor' = [cursor EXCEPT !.state = "thrown"]
      BY <1>1, <2>2 DEF EndItem
    <3>2. cursor' = [state |-> "thrown", item |-> cursor.item, handler |-> cursor.handler,
                     last |-> cursor.last, processed |-> cursor.processed]
      BY <2>1, <3>1, CursorSteps
    <3> QED  BY <2>1, <2>2, <3>2 DEF CursorAt, Cursor
  <2>3. CASE cursor.processed # MaxEventsPerFrame
    <3>1. cursor' = [cursor EXCEPT !.item = @ + 1, !.handler = 0, !.processed = @ + 1]
      BY <1>1, <2>3 DEF EndItem
    <3>2. cursor' = [state |-> cursor.state, item |-> cursor.item + 1, handler |-> 0,
                     last |-> cursor.last, processed |-> cursor.processed + 1]
      BY <2>1, <3>1, CursorSteps
    <3> QED  BY <1>1, <2>1, <2>3, <3>2 DEF CursorAt, Cursor
  <2> QED  BY <2>2, <2>3
<1>4. Fitting(cursor', queue, handlers')
  <2>1. /\ cursor.handler \in Nat /\ cursor.last \in Nat /\ cursor.item \in Nat
        /\ cursor.handler <= cursor.last + 1
    BY DEF Fits, Fitting, Cursor
  <2>2. CASE cursor.processed = MaxEventsPerFrame
    BY <1>1, <1>3, <2>1, <2>2 DEF CursorAt, Fitting
  <2>3. CASE cursor.processed # MaxEventsPerFrame
    BY <1>1, <1>3, <2>1, <2>3 DEF CursorAt, Fitting
  <2> QED  BY <2>2, <2>3
<1> QED  BY <1>1, <1>2, <1>3, <1>4 DEF Fits, EndItem, CursorAt

\* What was published becomes the queue, or dispatch ends.
LEMMA EndRoundFits ==
  ASSUME NEW S, Events(S), Fits(S), EndRound
  PROVE  /\ Fits(S)'
         /\ cursor.item = Len(queue) + 1 /\ cursor.handler = 0
         /\ nextQueue = << >> => cursor' = outside
         /\ nextQueue # << >> => CursorAt(cursor', "inside", 1, 0, cursor.last, cursor.processed)
<1>1. /\ Len(queue) \in Nat /\ cursor.item = Len(queue) + 1 /\ cursor.handler = 0
      /\ cursor.last \in Nat /\ Len(nextQueue) \in Nat /\ cursor.state = "inside"
  BY FitsReads DEF EndRound, Fits, Fitting
<1>2. nextQueue = << >> => cursor' = outside
  BY DEF EndRound
<1>3. nextQueue # << >> => CursorAt(cursor', "inside", 1, 0, cursor.last, cursor.processed)
  <2>1. cursor \in Cursor
    BY DEF Fits
  <2>2. nextQueue # << >> =>
          cursor' = [state |-> cursor.state, item |-> 1, handler |-> 0, last |-> cursor.last,
                     processed |-> cursor.processed]
    BY <2>1, CursorSteps DEF EndRound
  <2> QED  BY <1>1, <2>1, <2>2 DEF CursorAt, Cursor
<1>4. cursor' \in Cursor /\ Fitting(cursor', nextQueue, handlers)
  <2>1. CASE nextQueue = << >>
    BY <1>2, <2>1, OutsideIsCursor
  <2>2. CASE nextQueue # << >>
    BY <1>1, <1>3, <2>2 DEF CursorAt, Fitting
  <2> QED  BY <2>1, <2>2
<1>5. << >> \in Seq(S)
  BY EmptySeq
<1> QED  BY <1>1, <1>2, <1>3, <1>4, <1>5 DEF Fits, EndRound

-----------------------------------------------------------------------------
(* What handlers do *)

\* What is published joins the queue of the next round, in order.
LEMMA PublishAppends ==
  ASSUME NEW S, nextQueue \in Seq(S), published \in Nat, NEW events,
         Len(events) \in Nat, DOMAIN events = 1..Len(events),
         \A i \in 1..Len(events) : withId(events[i], published + i) \in S,
         publish(events)
  PROVE  /\ nextQueue' \in Seq(S) /\ Len(nextQueue') = Len(nextQueue) + Len(events)
         /\ published' = published + Len(events) /\ published' \in Nat
         /\ Len(nextQueue) \in Nat /\ Len(events) \in Nat
         /\ \A i \in 1..Len(nextQueue) : nextQueue'[i] = nextQueue[i]
         /\ \A i \in 1..Len(events) :
              nextQueue'[Len(nextQueue) + i] = withId(events[i], published + i)
<1> DEFINE more == numbered(events, published)
<1>1. Len(events) \in Nat /\ Len(nextQueue) \in Nat /\ DOMAIN events = 1..Len(events)
  BY LenProperties
<1>2. more \in Seq(S) /\ Len(more) = Len(events)
      /\ \A i \in 1..Len(events) : more[i] = withId(events[i], published + i)
  <2>1. /\ DOMAIN more = 1..Len(events)
        /\ \A i \in 1..Len(events) : more[i] = withId(events[i], published + i)
    BY <1>1 DEF numbered
  <2>2. more \in [1..Len(events) -> S]
    BY <1>1 DEF numbered
  <2> HIDE DEF more
  <2>3. more \in Seq(S)
    BY <1>1, <2>2, SeqDef
  <2> QED  BY <1>1, <2>1, <2>3, LenProperties
<1> HIDE DEF more
<1>3. nextQueue' = nextQueue \o more /\ published' = published + Len(events)
  BY DEF publish, more
<1>4. /\ nextQueue \o more \in Seq(S) /\ Len(nextQueue \o more) = Len(nextQueue) + Len(more)
      /\ \A i \in 1..(Len(nextQueue) + Len(more)) :
           (nextQueue \o more)[i] = IF i <= Len(nextQueue) THEN nextQueue[i] ELSE more[i - Len(nextQueue)]
  BY <1>2, ConcatProperties
<1>5. \A i \in 1..Len(nextQueue) : nextQueue'[i] = nextQueue[i]
  BY <1>1, <1>2, <1>3, <1>4
<1>6. ASSUME NEW i \in 1..Len(events)
      PROVE  nextQueue'[Len(nextQueue) + i] = withId(events[i], published + i)
  <2>1. /\ Len(nextQueue) + i \in 1..(Len(nextQueue) + Len(more)) /\ ~(Len(nextQueue) + i <= Len(nextQueue))
        /\ Len(nextQueue) + i - Len(nextQueue) = i
    BY <1>1, <1>2
  <2> QED  BY <1>2, <1>3, <1>4, <2>1
<1> QED  BY <1>1, <1>2, <1>3, <1>4, <1>5, <1>6

\* One event.
LEMMA PublishOne ==
  ASSUME NEW S, nextQueue \in Seq(S), published \in Nat, NEW e,
         withId(e, published + 1) \in S, publish(<< e >>)
  PROVE  /\ nextQueue' \in Seq(S) /\ Len(nextQueue') = Len(nextQueue) + 1
         /\ published' = published + 1 /\ Len(nextQueue) \in Nat
         /\ \A i \in 1..Len(nextQueue) : nextQueue'[i] = nextQueue[i]
         /\ nextQueue'[Len(nextQueue) + 1] = withId(e, published + 1)
<1> DEFINE events == << e >>
<1>1. Len(events) \in Nat /\ DOMAIN events = 1..Len(events) /\ publish(events)
  OBVIOUS
<1>2. Len(events) = 1 /\ events[1] = e
  OBVIOUS
<1> HIDE DEF events
<1>3. \A i \in 1..Len(events) : withId(events[i], published + i) \in S
  BY <1>2
<1>4. nextQueue' \in Seq(S) /\ Len(nextQueue) \in Nat
  BY <1>1, <1>3, PublishAppends
<1>5. Len(nextQueue') = Len(nextQueue) + Len(events) /\ published' = published + Len(events)
  BY <1>1, <1>3, PublishAppends
<1>6. \A i \in 1..Len(nextQueue) : nextQueue'[i] = nextQueue[i]
  BY <1>1, <1>3, PublishAppends
<1>7. \A i \in 1..Len(events) :
        nextQueue'[Len(nextQueue) + i] = withId(events[i], published + i)
  BY <1>1, <1>3, PublishAppends
<1> QED  BY <1>2, <1>4, <1>5, <1>6, <1>7

\* An object that subscribes comes after the others.
LEMMA SubscribeAppends ==
  ASSUME NEW h \in [EventType -> Seq(Object)], NEW types, NEW o \in Object
  PROVE  /\ subscribe(h, types, o) \in [EventType -> Seq(Object)]
         /\ \A t \in EventType : t \in types => subscribe(h, types, o)[t] = Append(h[t], o)
         /\ \A t \in EventType : t \notin types => subscribe(h, types, o)[t] = h[t]
         /\ \A t \in EventType : Len(h[t]) \in Nat /\ Len(h[t]) <= Len(subscribe(h, types, o)[t])
<1>1. \A t \in EventType : Append(h[t], o) \in Seq(Object) /\ Len(Append(h[t], o)) = Len(h[t]) + 1
  BY AppendProperties
<1>2. /\ \A t \in EventType : t \in types => subscribe(h, types, o)[t] = Append(h[t], o)
      /\ \A t \in EventType : t \notin types => subscribe(h, types, o)[t] = h[t]
  BY DEF subscribe
<1>3. subscribe(h, types, o) \in [EventType -> Seq(Object)]
  BY <1>1 DEF subscribe
<1>4. \A t \in EventType : Len(h[t]) \in Nat
  BY LenProperties
<1> QED  BY <1>1, <1>2, <1>3, <1>4

-----------------------------------------------------------------------------
(* Users that do anything *)

UserEvents == [type : EventType, id : Int]

\* The event of a user, once it has its number.
LEMMA UserEventNumbered ==
  ASSUME NEW t \in EventType, NEW n \in Nat
  PROVE  withId([type |-> t], n) \in UserEvents /\ withId([type |-> t], n).id = n
<1>1. withId([type |-> t], n) = [type |-> t, id |-> n]
  BY DEF withId
<1> QED  BY <1>1 DEF UserEvents

(***************************************************************************)
(* The events that wait are the last ones published, in order: those that  *)
(* a handler published meanwhile come after all others.                    *)
(***************************************************************************)
InOrder ==
  /\ \A i \in 1..Len(nextQueue) : nextQueue[i].id = published - Len(nextQueue) + i
  /\ cursor.state # "outside" =>
       \A i \in cursor.item..Len(queue) :
         queue[i].id = published - Len(nextQueue) - Len(queue) + i

Counted ==
  /\ done \in Int /\ done <= MaxEventsPerFrame + 1
  /\ cursor.state = "inside" => done = cursor.processed

\* Who is still to be called for the event at hand.
ToCall == {subscribers[k] : k \in cursor.handler..cursor.last}

Calling ==
  /\ unborn \subseteq Object /\ listening \subseteq Object /\ (alive \cup listening) \cap unborn = {}
  /\ cursor.state = "inside" /\ cursor.handler # 0 => listening \cap alive \subseteq heard \cup ToCall

UsersInv == Fits(UserEvents) /\ InOrder /\ Counted /\ Calling

\* The events of the users have a type.
LEMMA UserEventsAreEvents == Events(UserEvents)
BY DEF Events, UserEvents

\* At the beginning nothing was published and nobody created.
LEMMA UsersInitInv == UsersInit => UsersInv
<1> SUFFICES ASSUME UsersInit  PROVE UsersInv
  OBVIOUS
<1>1. << >> \in Seq(UserEvents) /\ << >> \in Seq(Object) /\ Len(<< >>) = 0
  BY EmptySeq
<1>2. Fits(UserEvents)
  BY <1>1, OutsideIsCursor DEF UsersInit, EventSystemInit, Fits, noHandlers
<1>3. InOrder
  BY <1>1 DEF UsersInit, EventSystemInit, InOrder, outside
<1>4. Counted
  BY MaxEventsAssumption DEF UsersInit, EventSystemInit, Counted, outside
<1>5. Calling
  BY DEF UsersInit, EventSystemInit, Calling, outside
<1> QED  BY <1>2, <1>3, <1>4, <1>5 DEF UsersInv

(***************************************************************************)
(* What a handler, or the program between two frames, may do: the queue is *)
(* left alone, one event is published, objects come and go.                *)
(***************************************************************************)
Acts ==
  /\ nextQueue' \in Seq(UserEvents) /\ published' \in Nat
  /\ \A i \in 1..Len(nextQueue') : nextQueue'[i].id = published' - Len(nextQueue') + i
  /\ published' - Len(nextQueue') = published - Len(nextQueue)
  /\ handlers' \in [EventType -> Seq(Object)] /\ alive' \subseteq Object /\ unborn' \subseteq Object
  /\ (alive' \cup listening) \cap unborn' = {}
  /\ listening \cap alive' \subseteq alive
  /\ cursor.handler # 0 => handlers'[current.type] = handlers[current.type]

\* Each of the three, and doing nothing.
LEMMA UsersAct ==
  ASSUME UsersInv, Create \/ Destroy \/ Publish \/ Nothing,
         cursor.handler # 0 => current.type \in EventType
  PROVE  Acts
<1>1. /\ nextQueue \in Seq(UserEvents) /\ published \in Nat
      /\ handlers \in [EventType -> Seq(Object)] /\ alive \subseteq Object
      /\ \A i \in 1..Len(nextQueue) : nextQueue[i].id = published - Len(nextQueue) + i
      /\ unborn \subseteq Object /\ (alive \cup listening) \cap unborn = {}
  BY DEF UsersInv, Fits, InOrder, Calling
<1>2. CASE Create
  <2>1. PICK o \in unborn, types \in SUBSET EventType :
          /\ cursor.handler # 0 => current.type \notin types
          /\ handlers' = subscribe(handlers, types, o)
          /\ alive' = alive \cup {o} /\ unborn' = unborn \ {o}
          /\ nothingPublished
    BY <1>2 DEF Create
  <2>2. handlers' \in [EventType -> Seq(Object)]
    BY <1>1, <2>1, SubscribeAppends
  <2>3. cursor.handler # 0 => handlers'[current.type] = handlers[current.type]
    BY <1>1, <2>1, SubscribeAppends
  <2>4. nextQueue' = nextQueue /\ published' = published
    BY <2>1 DEF nothingPublished
  <2> QED  BY <1>1, <2>1, <2>2, <2>3, <2>4 DEF Acts
<1>3. CASE Destroy
  BY <1>1, <1>3 DEF Destroy, nothingPublished, Acts
<1>4. CASE Publish
  <2>1. PICK t \in EventType : publish(<< [type |-> t] >>) /\ UNCHANGED <<handlers, alive, unborn>>
    BY <1>4 DEF Publish
  <2> DEFINE e == [type |-> t]
  <2>2. withId(e, published + 1) \in UserEvents /\ withId(e, published + 1).id = published + 1
    BY <1>1, UserEventNumbered
  <2> HIDE DEF e
  <2>5. /\ nextQueue' \in Seq(UserEvents) /\ Len(nextQueue') = Len(nextQueue) + 1
        /\ published' = published + 1 /\ Len(nextQueue) \in Nat
        /\ \A i \in 1..Len(nextQueue) : nextQueue'[i] = nextQueue[i]
        /\ nextQueue'[Len(nextQueue) + 1] = withId(e, published + 1)
    <3>1. publish(<< e >>)
      BY <2>1 DEF e
    <3> QED  BY <1>1, <2>2, <3>1, PublishOne
  <2>6. \A i \in 1..Len(nextQueue') : nextQueue'[i].id = published' - Len(nextQueue') + i
    <3>1. ASSUME NEW i \in 1..Len(nextQueue)
          PROVE  nextQueue'[i].id = published' - Len(nextQueue') + i
      BY <1>1, <2>5
    <3>2. nextQueue'[Len(nextQueue) + 1].id = published'
      BY <2>2, <2>5
    <3> QED  BY <1>1, <2>5, <3>1, <3>2
  <2> QED  BY <1>1, <2>1, <2>5, <2>6 DEF Acts
<1>5. CASE Nothing
  BY <1>1, <1>5 DEF Nothing, nothingPublished, Acts
<1> QED  BY <1>2, <1>3, <1>4, <1>5

\* A handler is called: whatever it does, the others are called after it.
LEMMA CallHandlerInv == UsersInv /\ CallHandler => UsersInv'
<1> SUFFICES ASSUME UsersInv, CallHandler  PROVE UsersInv'
  OBVIOUS
<1>1. /\ atHandler /\ called \in alive /\ cursor' = nextHandler
      /\ Create \/ Destroy \/ Publish \/ Nothing
      /\ heard' = heard \cup {called} /\ queue' = queue /\ listening' = listening /\ done' = done
  BY DEF CallHandler
<1>2. Fits(UserEvents) /\ Events(UserEvents)
  BY UserEventsAreEvents DEF UsersInv
<1>3. /\ cursor.item <= Len(queue) /\ cursor.handler \in 1..cursor.last /\ cursor.state = "inside"
      /\ current.type \in EventType /\ cursor.last \in Nat /\ cursor.item \in Nat \ {0}
      /\ Len(queue) \in Nat /\ Len(nextQueue) \in Nat
  BY <1>1, <1>2, FitsReads DEF atHandler, atItem
<1>4. Acts
  BY <1>1, <1>3, UsersAct
<1>5. handlers'[current.type] = subscribers /\ Len(subscribers) \in Nat
  BY <1>2, <1>3, <1>4, FitsReads DEF Acts, subscribers
<1>6. /\ Fits(UserEvents)'
      /\ CursorAt(cursor', "inside", cursor.item, cursor.handler + 1, cursor.last, cursor.processed)
  BY <1>1, <1>2, <1>4, <1>5, NextHandlerFits DEF Acts
<1>7. InOrder'
  <2>1. \A i \in cursor.item..Len(queue) :
          queue[i].id = published - Len(nextQueue) - Len(queue) + i
    BY <1>3 DEF UsersInv, InOrder
  <2>2. published - Len(nextQueue) = published' - Len(nextQueue')
    BY <1>4 DEF Acts
  <2> QED  BY <1>1, <1>4, <1>6, <2>1, <2>2 DEF Acts, InOrder, CursorAt
<1>8. Counted'
  BY <1>1, <1>3, <1>6 DEF UsersInv, Counted, CursorAt
<1>9. Calling'
  <2>1. subscribers' = subscribers
    BY <1>1, <1>5, <1>6 DEF subscribers, current, CursorAt
  <2>2. ToCall \subseteq {called} \cup ToCall'
    BY <1>3, <1>6, <2>1 DEF ToCall, called, CursorAt
  <2>3. listening \cap alive \subseteq heard \cup ToCall
    BY <1>3 DEF UsersInv, Calling
  <2>4. listening' \cap alive' \subseteq heard' \cup ToCall'
    BY <1>1, <1>4, <2>2, <2>3 DEF Acts
  <2>5. unborn' \subseteq Object /\ listening' \subseteq Object /\ (alive' \cup listening') \cap unborn' = {}
    BY <1>1, <1>4 DEF Acts, UsersInv, Calling
  <2> QED  BY <2>4, <2>5 DEF Calling
<1> QED  BY <1>6, <1>7, <1>8, <1>9 DEF UsersInv

\* Between two frames everything else goes on, too.
LEMMA BetweenFramesInv == UsersInv /\ BetweenFrames => UsersInv'
<1> SUFFICES ASSUME UsersInv, BetweenFrames  PROVE UsersInv'
  OBVIOUS
<1>1. /\ cursor.state = "outside"
      /\ Create \/ Destroy \/ Publish
      /\ UNCHANGED <<queue, cursor, heard, listening, done>>
  BY DEF BetweenFrames
<1>2. Fits(UserEvents) /\ cursor = outside /\ queue = << >>
  BY <1>1 DEF UsersInv, Fits, Fitting
<1>3. cursor.handler = 0
  BY <1>2 DEF outside
<1>4. Acts
  BY <1>1, <1>3, UsersAct
<1>5. Fits(UserEvents)'
  BY <1>1, <1>2, <1>4, OutsideIsCursor DEF Fits, Acts
<1>6. InOrder'
  BY <1>1, <1>4 DEF InOrder, Acts
<1>7. Counted'
  BY <1>1 DEF UsersInv, Counted
<1>8. Calling'
  BY <1>1, <1>4 DEF UsersInv, Calling, Acts
<1> QED  BY <1>5, <1>6, <1>7, <1>8 DEF UsersInv

\* dispatch itself loses nobody that is still to be called.
LEMMA DispatchInv == UsersInv /\ Dispatch => UsersInv'
<1> SUFFICES ASSUME UsersInv, Dispatch  PROVE UsersInv'
  OBVIOUS
<1>1. Fits(UserEvents) /\ Events(UserEvents)
  BY UserEventsAreEvents DEF UsersInv
<1>2. /\ Len(queue) \in Nat /\ Len(nextQueue) \in Nat /\ cursor.item \in Nat \ {0}
      /\ cursor.handler \in Nat /\ cursor.last \in Nat /\ cursor.processed \in 0..MaxEventsPerFrame
      /\ MaxEventsPerFrame \in Nat /\ published \in Nat
  BY <1>1, FitsReads, MaxEventsAssumption DEF Fits
<1>3. CASE BeginDispatch /\ done' = 0 /\ UNCHANGED <<unborn, heard, listening>>
  <2>1. Fits(UserEvents)' /\ CursorAt(cursor', "inside", 1, 0, 0, 0) /\ queue' = << >>
    BY <1>1, <1>3, BeginDispatchFits
  <2>2. UNCHANGED <<nextQueue, alive, published>>
    BY <1>3 DEF BeginDispatch
  <2>3. InOrder'
    BY <2>1, <2>2 DEF UsersInv, InOrder, CursorAt
  <2>4. Counted'
    BY <1>2, <1>3, <2>1 DEF Counted, CursorAt
  <2>5. Calling'
    BY <1>3, <2>1, <2>2 DEF UsersInv, Calling, CursorAt
  <2> QED  BY <2>1, <2>3, <2>4, <2>5 DEF UsersInv
<1>4. CASE /\ BeginItem
           /\ listening' = ToSet(subscribers) \cap alive /\ heard' = {}
           /\ UNCHANGED <<unborn, done>>
  <2>1. /\ Fits(UserEvents)'
        /\ CursorAt(cursor', "inside", cursor.item, 1, Len(subscribers), cursor.processed)
    BY <1>1, <1>4, BeginItemFits
  <2>2. UNCHANGED <<queue, nextQueue, handlers, alive, published>> /\ cursor.state = "inside"
    BY <1>4 DEF BeginItem, atItem
  <2>3. InOrder'
    BY <2>1, <2>2 DEF UsersInv, InOrder, CursorAt
  <2>4. Counted'
    BY <1>4, <2>1, <2>2 DEF UsersInv, Counted, CursorAt
  <2>5. Calling'
    <3>1. subscribers' = subscribers
      BY <2>1, <2>2 DEF subscribers, current, CursorAt
    <3>2. DOMAIN subscribers = 1..Len(subscribers)
      BY <1>1, <1>4, FitsReads DEF BeginItem, atItem
    <3>3. ToSet(subscribers) = ToCall'
      BY <2>1, <3>1, <3>2 DEF ToSet, ToCall, CursorAt
    <3>4. listening' \cap alive' \subseteq heard' \cup ToCall'
      BY <1>4, <3>3
    <3>5. alive \subseteq Object
      BY <1>1 DEF Fits
    <3> QED  BY <1>4, <2>2, <3>4, <3>5 DEF UsersInv, Calling
  <2> QED  BY <2>1, <2>3, <2>4, <2>5 DEF UsersInv
<1>5. CASE SkipDead /\ UNCHANGED ghosts
  <2>1. /\ Fits(UserEvents)'
        /\ CursorAt(cursor', "inside", cursor.item, cursor.handler + 1, cursor.last, cursor.processed)
        /\ cursor.handler \in 1..cursor.last
    BY <1>1, <1>5, SkipDeadFits
  <2>2. /\ UNCHANGED <<queue, nextQueue, handlers, alive, published, unborn, heard, listening, done>>
        /\ cursor.state = "inside" /\ called \notin alive
    BY <1>5 DEF SkipDead, atHandler, atItem, ghosts
  <2>3. InOrder'
    BY <2>1, <2>2 DEF UsersInv, InOrder, CursorAt
  <2>4. Counted'
    BY <2>1, <2>2 DEF UsersInv, Counted, CursorAt
  <2>5. Calling'
    <3>1. subscribers' = subscribers
      BY <2>1, <2>2 DEF subscribers, current, CursorAt
    <3>2. ToCall \subseteq {called} \cup ToCall'
      BY <1>2, <2>1, <3>1 DEF ToCall, called, CursorAt
    <3>3. listening \cap alive \subseteq heard \cup ToCall
      BY <2>1, <2>2 DEF UsersInv, Calling
    <3>4. listening' \cap alive' \subseteq heard' \cup ToCall'
      BY <2>2, <3>2, <3>3
    <3> QED  BY <2>2, <3>4 DEF UsersInv, Calling
  <2> QED  BY <2>1, <2>3, <2>4, <2>5 DEF UsersInv
<1>6. CASE EndItem /\ done' = done + 1 /\ UNCHANGED <<unborn, heard, listening>>
  <2>1. /\ Fits(UserEvents)'
        /\ IF cursor.processed = MaxEventsPerFrame
           THEN CursorAt(cursor', "thrown", cursor.item, cursor.handler, cursor.last, cursor.processed)
           ELSE CursorAt(cursor', "inside", cursor.item + 1, 0, cursor.last, cursor.processed + 1)
    BY <1>1, <1>6, EndItemFits
  <2>2. /\ UNCHANGED <<queue, nextQueue, alive, published>> /\ cursor.state = "inside"
    BY <1>6 DEF EndItem, atItem
  <2>3. done = cursor.processed /\ done \in Int
    BY <2>2 DEF UsersInv, Counted
  <2>4. \A i \in cursor.item..Len(queue) :
          queue[i].id = published - Len(nextQueue) - Len(queue) + i
    BY <2>2 DEF UsersInv, InOrder
  <2>5. CASE cursor.processed = MaxEventsPerFrame
    <3>1. InOrder'
      BY <2>1, <2>2, <2>4, <2>5 DEF UsersInv, InOrder, CursorAt
    <3>2. Counted'
      BY <1>2, <1>6, <2>1, <2>3, <2>5 DEF Counted, CursorAt
    <3>3. Calling'
      BY <1>6, <2>1, <2>2, <2>5 DEF UsersInv, Calling, CursorAt
    <3> QED  BY <2>1, <3>1, <3>2, <3>3 DEF UsersInv
  <2>6. CASE cursor.processed # MaxEventsPerFrame
    <3>1. InOrder'
      <4>1. \A i \in (cursor.item + 1)..Len(queue) :
              queue[i].id = published - Len(nextQueue) - Len(queue) + i
        BY <1>2, <2>4
      <4> QED  BY <2>1, <2>2, <2>6, <4>1 DEF UsersInv, InOrder, CursorAt
    <3>2. Counted'
      BY <1>2, <1>6, <2>1, <2>3, <2>6 DEF Counted, CursorAt
    <3>3. Calling'
      BY <1>6, <2>1, <2>2, <2>6 DEF UsersInv, Calling, CursorAt
    <3> QED  BY <2>1, <3>1, <3>2, <3>3 DEF UsersInv
  <2> QED  BY <2>5, <2>6
<1>7. CASE EndRound /\ UNCHANGED ghosts
  <2>1. /\ Fits(UserEvents)'
        /\ nextQueue = << >> => cursor' = outside
        /\ nextQueue # << >> => CursorAt(cursor', "inside", 1, 0, cursor.last, cursor.processed)
    BY <1>1, <1>7, EndRoundFits
  <2>2. /\ queue' = nextQueue /\ nextQueue' = << >> /\ UNCHANGED <<alive, published, unborn, listening, done>>
        /\ cursor.state = "inside"
    BY <1>7 DEF EndRound, ghosts
  <2>3. /\ cursor'.item = 1 /\ cursor'.handler = 0
        /\ cursor'.state = "inside" => cursor'.processed = cursor.processed
    BY <2>1 DEF CursorAt, outside
  <2>4. InOrder'
    <3>1. \A i \in 1..Len(nextQueue) : nextQueue[i].id = published - Len(nextQueue) + i
      BY DEF UsersInv, InOrder
    <3>2. \A i \in 1..Len(nextQueue) : nextQueue[i].id = published - 0 - Len(nextQueue) + i
      BY <1>2, <3>1
    <3>3. Len(<< >>) = 0
      OBVIOUS
    <3> QED  BY <2>2, <2>3, <3>2, <3>3 DEF InOrder
  <2>5. Counted'
    BY <2>2, <2>3 DEF UsersInv, Counted
  <2>6. Calling'
    BY <2>2, <2>3 DEF UsersInv, Calling
  <2> QED  BY <2>1, <2>4, <2>5, <2>6 DEF UsersInv
<1> QED  BY <1>3, <1>4, <1>5, <1>6, <1>7 DEF Dispatch

\* The invariant of the event system, whatever its users do.
LEMMA AlwaysUsersInv == UsersSpec => []UsersInv
<1>1. UsersInv /\ [UsersNext]_usersVars => UsersInv'
  <2> SUFFICES ASSUME UsersInv, [UsersNext]_usersVars  PROVE UsersInv'
    OBVIOUS
  <2>1. CASE UNCHANGED usersVars
    BY <2>1 DEF usersVars, esVars, ghosts, UsersInv, Fits, Fitting, InOrder, Counted, Calling, ToCall,
                subscribers, current
  <2> QED  BY <2>1, CallHandlerInv, BetweenFramesInv, DispatchInv DEF UsersNext
<1> QED  BY <1>1, UsersInitInv, PTL DEF UsersSpec

\* What waits: the rest of the queue, and then what was published meanwhile.
LEMMA WaitingIs ==
  ASSUME NEW S, Events(S), Fits(S)
  PROVE  \E rest \in Seq(S) :
           /\ waiting = rest \o nextQueue
           /\ cursor.state = "outside" => rest = << >>
           /\ cursor.state # "outside" =>
                /\ Len(rest) = Len(queue) - cursor.item + 1
                /\ \A i \in 1..Len(rest) : rest[i] = queue[cursor.item - 1 + i]
<1>1. CASE cursor.state = "outside"
  <2>1. << >> \in Seq(S) /\ waiting = << >> \o nextQueue
    BY <1>1, EmptySeq DEF waiting
  <2> QED  BY <1>1, <2>1
<1>2. CASE cursor.state # "outside"
  <2> DEFINE m == cursor.item
             n == Len(queue)
             rest == SubSeq(queue, m, n)
  <2>1. m \in Nat \ {0} /\ n \in Nat /\ m <= n + 1 /\ queue \in Seq(S) /\ DOMAIN queue = 1..n
    BY FitsReads DEF Fits, Fitting
  <2>2. \A i \in m..n : queue[i] \in S
    BY <2>1, ElementOfSeq
  <2>3. waiting = rest \o nextQueue
    BY <1>2 DEF waiting
  <2> HIDE DEF m, n
  <2>4. /\ rest \in Seq(S) /\ Len(rest) = (IF m <= n THEN n - m + 1 ELSE 0)
        /\ \A i \in 1..(n - m + 1) : rest[i] = queue[m + i - 1]
    BY <2>1, <2>2, SubSeqProperties
  <2>5. Len(rest) = n - m + 1 /\ \A i \in 1..Len(rest) : rest[i] = queue[m - 1 + i]
    BY <2>1, <2>4
  <2> HIDE DEF rest
  <2> QED  BY <1>2, <2>3, <2>4, <2>5 DEF m, n
<1> QED  BY <1>1, <1>2

(***************************************************************************)
(* However many events the handlers publish, none is lost, doubled or      *)
(* reordered, the cursor stays in its queue and its handlers, and no frame *)
(* goes through more than one event above the bound.                       *)
(***************************************************************************)
THEOREM QueueStaysConsistent == UsersSpec => []QueueConsistent
<1>1. ASSUME UsersInv  PROVE UsersTypeOK
  BY <1>1, UserEventsAreEvents, FitsReads DEF UsersInv, Fits, Fitting, Cursor, UsersTypeOK
<1>2. ASSUME UsersInv  PROVE WaitingInOrder
  <2>1. Fits(UserEvents) /\ Events(UserEvents)
    BY <1>2, UserEventsAreEvents DEF UsersInv
  <2>2. PICK rest \in Seq(UserEvents) :
           /\ waiting = rest \o nextQueue
           /\ cursor.state = "outside" => rest = << >>
           /\ cursor.state # "outside" =>
                /\ Len(rest) = Len(queue) - cursor.item + 1
                /\ \A i \in 1..Len(rest) : rest[i] = queue[cursor.item - 1 + i]
    BY <2>1, WaitingIs
  <2>3. /\ Len(rest) \in Nat /\ Len(nextQueue) \in Nat /\ Len(queue) \in Nat /\ published \in Nat
        /\ cursor.item \in Nat /\ nextQueue \in Seq(UserEvents)
    BY <2>1, FitsReads, LenProperties DEF Fits
  <2>4. /\ rest \o nextQueue \in Seq(UserEvents)
        /\ Len(rest \o nextQueue) = Len(rest) + Len(nextQueue)
        /\ \A i \in 1..(Len(rest) + Len(nextQueue)) :
             (rest \o nextQueue)[i] = IF i <= Len(rest) THEN rest[i] ELSE nextQueue[i - Len(rest)]
    BY <2>3, ConcatProperties
  <2>5. DOMAIN waiting = 1..(Len(rest) + Len(nextQueue)) /\ Len(waiting) = Len(rest) + Len(nextQueue)
    BY <2>2, <2>4, LenProperties
  <2>6. ASSUME NEW i \in 1..Len(rest)
        PROVE  rest[i].id = published - Len(nextQueue) - Len(rest) + i
    <3>1. cursor.state # "outside"
      <4>1. Len(<< >>) = 0
        OBVIOUS
      <4> QED  BY <2>2, <4>1
    <3>2. cursor.item - 1 + i \in cursor.item..Len(queue)
      BY <2>2, <2>3, <3>1
    <3>3. queue[cursor.item - 1 + i].id
            = published - Len(nextQueue) - Len(queue) + (cursor.item - 1 + i)
      BY <1>2, <3>1, <3>2 DEF UsersInv, InOrder
    <3>4. rest[i] = queue[cursor.item - 1 + i] /\ Len(rest) = Len(queue) - cursor.item + 1
      BY <2>2, <3>1
    <3>5. published - Len(nextQueue) - Len(queue) + (cursor.item - 1 + i)
            = published - Len(nextQueue) - Len(rest) + i
      BY <2>3, <3>4
    <3> QED  BY <3>3, <3>4, <3>5
  <2>7. ASSUME NEW i \in 1..Len(nextQueue)
        PROVE  nextQueue[i].id = published - Len(nextQueue) + i
    BY <1>2 DEF UsersInv, InOrder
  <2>8. ASSUME NEW i \in 1..(Len(rest) + Len(nextQueue))
        PROVE  waiting[i].id = published - Len(waiting) + i
    <3>1. CASE i <= Len(rest)
      BY <2>2, <2>3, <2>4, <2>5, <2>6, <3>1
    <3>2. CASE ~(i <= Len(rest))
      <4>1. i - Len(rest) \in 1..Len(nextQueue) /\ waiting[i] = nextQueue[i - Len(rest)]
        BY <2>2, <2>3, <2>4, <3>2
      <4>2. nextQueue[i - Len(rest)].id = published - Len(nextQueue) + (i - Len(rest))
        BY <2>7, <4>1
      <4> QED  BY <2>3, <2>5, <4>1, <4>2
    <3> QED  BY <3>1, <3>2
  <2> QED  BY <2>5, <2>8 DEF WaitingInOrder
<1>3. ASSUME UsersInv  PROVE FrameIsBounded
  BY <1>3 DEF UsersInv, Counted, FrameIsBounded
<1>4. UsersInv => QueueConsistent
  BY <1>1, <1>2, <1>3 DEF QueueConsistent
<1> QED  BY <1>4, AlwaysUsersInv, PTL

(***************************************************************************)
(* Whoever had subscribed when an event was reached, and lives when it is  *)
(* done, was called for it, whatever the handlers before it created or     *)
(* destroyed; and dispatch ends with nothing left to dispatch.             *)
(***************************************************************************)
THEOREM NobodyIsForgotten == UsersSpec => EveryoneIsCalled
<1>1. ASSUME UsersInv, EndItem
      PROVE  listening \cap alive \subseteq heard
  <2>1. Fits(UserEvents) /\ Events(UserEvents)
    BY <1>1, UserEventsAreEvents DEF UsersInv
  <2>2. cursor.state = "inside" /\ cursor.handler > cursor.last /\ cursor.handler \in Nat
        /\ cursor.last \in Nat
    BY <1>1, <2>1, FitsReads DEF EndItem, atItem
  <2>3. ToCall = {}
    BY <2>2 DEF ToCall
  <2>4. cursor.handler # 0
    BY <2>2
  <2> QED  BY <1>1, <2>2, <2>3, <2>4 DEF UsersInv, Calling
<1>2. ASSUME UsersInv, EndRound, cursor'.state = "outside"
      PROVE  nextQueue' = << >> /\ queue' = << >>
  <2>1. Fits(UserEvents) /\ Events(UserEvents)
    BY <1>2, UserEventsAreEvents DEF UsersInv
  <2>2. nextQueue # << >> => CursorAt(cursor', "inside", 1, 0, cursor.last, cursor.processed)
    BY <1>2, <2>1, EndRoundFits
  <2>3. nextQueue = << >>
    BY <1>2, <2>2 DEF CursorAt
  <2> QED  BY <1>2, <2>3 DEF EndRound
<1> DEFINE Step == /\ EndItem => listening \cap alive \subseteq heard
                   /\ EndRound /\ cursor'.state = "outside" => nextQueue' = << >> /\ queue' = << >>
<1>3. UsersInv => [Step]_usersVars
  BY <1>1, <1>2
<1> QED  BY <1>3, AlwaysUsersInv, PTL DEF EveryoneIsCalled

-----------------------------------------------------------------------------
(* The program's frame *)

StateTypes == {"Welcome", "SnapshotApplied"}
GameEvents == [type : Types \ StateTypes, id : Int] \cup [type : StateTypes, state : Nat \ {0}, id : Int]

\* Where in a sequence of events those of a type are, from the position first on.
At(q, first, t) == {i \in first..Len(q) : q[i].type = t}

\* The first event of the queue whose handlers are still to be called; those
\* that matter here have one.
firstToHandle == IF cursor.handler > 1 THEN cursor.item + 1 ELSE cursor.item

ToHandle(t) == Cardinality(At(queue, firstToHandle, t)) + Cardinality(At(nextQueue, 1, t))

\* Dispatch is where the phase says; what was published before is done when it ends.
Phases ==
  /\ phase \in {"receive", "events", "dispatch", "cleanUp", "over"}
  /\ phase # "dispatch" <=> cursor.state = "outside"
  /\ phase \in {"cleanUp", "over"} => nextQueue = << >>

\* At most one object listens to each of these.
Listeners ==
  /\ Len(handlers["Welcome"]) <= 1
  /\ Len(handlers["LobbyRequest"]) <= IF model.exists THEN 1 ELSE 0

Undone == Len(queue) - cursor.item + 1 + Len(nextQueue)

Inputs ==
  /\ inputs \in Nat
  /\ cursor.processed + Undone + 3 * ToHandle("LobbyRequest") <= 4 * inputs

Packets == {"Welcome", "ServerDisconnect", "SnapshotBegin", "SnapshotEnd", "Notify"}
Requests == {"Hello", "LobbyRequest", "UpdateRequest"}

Model == [exists : BOOLEAN, initialized : BOOLEAN, syncState : {"Unsynced", "Syncing", "Synced"},
          state : Nat, temp : Nat, toDelete : SUBSET Nat, made : Nat]
Scene == [current : {"menu", "lobby"}, toDelete : {"none", "menu"}, shown : Nat]

Typed ==
  /\ model \in Model /\ scene \in Scene
  /\ outcome \in {"running", "assertNoGame", "assertNoSceneToDelete", "deletedState"}
  /\ together \in BOOLEAN /\ closed \subseteq Dialogs /\ wire \in Seq(Packets)
  /\ scene.current = "menu" => scene.toDelete = "none"

\* The pointers of the model: what they point at was made and not deleted, and
\* they do not point at the same.
Pointers ==
  /\ model.toDelete \cup deleted \subseteq 1..model.made /\ model.toDelete \cap deleted = {}
  /\ model.state <= model.made /\ model.temp <= model.made
  /\ model.state \notin deleted \cup model.toDelete
  /\ model.temp # noState => model.temp \notin deleted \cup model.toDelete \cup {model.state}
  /\ scene.current = "lobby" => scene.shown \in 1..model.made

\* Nothing but notifications arrives from the n-th packet on.
NotifiesFrom(n) == \A i \in n..Len(wire) : wire[i] = "Notify"

\* The two answers to the hello.
Welcoming ==
  Len(wire) = 3 /\ wire[1] = "Welcome" /\ wire[2] = "SnapshotBegin" /\ wire[3] = "SnapshotEnd"
Refusing == Len(wire) = 1 /\ wire[1] = "ServerDisconnect"

\* One hello is asked, and not after its answer.
Hellos(s) == {i \in 1..Len(s) : s[i] = "Hello"}
Asking ==
  /\ asked \in Seq(Requests)
  /\ \A i, j \in Hellos(asked) : i = j
  /\ Hellos(asked) # {} => model.exists /\ ~model.initialized /\ wire = << >>

\* Before the welcome there is nothing.
Beginning ==
  /\ model.exists \/ wire = << >>
  /\ model.initialized => model.exists /\ model.state # noState
  /\ ~model.initialized =>
       /\ model.made = 0 /\ model.temp = 0 /\ model.syncState = "Unsynced"
       /\ scene.current = "menu" /\ ToHandle("Welcome") = 0
       /\ wire = << >> \/ Welcoming \/ Refusing

\* The game is welcomed once.
Once ==
  model.initialized =>
    /\ \A i \in 1..Len(wire) : wire[i] # "Welcome"
    /\ ToHandle("Welcome") + (IF scene.current = "lobby" THEN 1 ELSE 0) <= 1

\* The lobby states that events carry are the model's.
StatesOf(q, first) == {q[i].state : i \in {j \in first..Len(q) : q[j].type \in StateTypes}}
CarriedStates == StatesOf(queue, cursor.item) \cup StatesOf(nextQueue, 1)
Carried == CarriedStates \subseteq {model.state} \cup model.toDelete

\* The first snapshot, when it comes together with the welcome and no other follows.
Arriving ==
  /\ phase = "receive" /\ scene.current = "menu" /\ model.state = 1
  /\ \/ /\ Len(wire) >= 2 /\ wire[1] = "SnapshotBegin" /\ wire[2] = "SnapshotEnd" /\ NotifiesFrom(3)
        /\ model.temp = 0 /\ model.made = 1
     \/ /\ Len(wire) >= 1 /\ wire[1] = "SnapshotEnd" /\ NotifiesFrom(2)
        /\ model.temp = 2 /\ model.made = 2 /\ model.syncState = "Syncing"
Arrived ==
  /\ NotifiesFrom(1)
  /\ model.state = 2 /\ model.temp = 0
  /\ model.toDelete \cup deleted \subseteq {1}
  /\ scene.current = "lobby" => scene.shown = 2

Together == together /\ model.initialized => Arriving \/ Arrived

EventsInv == Fits(GameEvents) /\ Phases /\ Listeners /\ Inputs /\ ProgramNames
ModelInv  == Typed /\ Pointers /\ Asking /\ Beginning /\ Once /\ Carried /\ Together

FrameInv == EventsInv /\ ModelInv

-----------------------------------------------------------------------------
(* Counting events *)

\* The events of the program have a type.
LEMMA GameEventsAreEvents == ProgramNames => Events(GameEvents)
BY DEF ProgramNames, Events, GameEvents, Types, StateTypes

\* Finitely many events are of a type; later on there are no more of them.
LEMMA AtIsFinite ==
  ASSUME NEW S, NEW q \in Seq(S), NEW m \in Nat \ {0}, NEW n \in Nat, m <= n, NEW t
  PROVE  /\ IsFiniteSet(At(q, m, t)) /\ Cardinality(At(q, m, t)) \in Nat
         /\ At(q, n, t) \subseteq At(q, m, t)
         /\ Cardinality(At(q, n, t)) \in Nat /\ Cardinality(At(q, n, t)) <= Cardinality(At(q, m, t))
<1>1. Len(q) \in Nat
  BY LenProperties
<1>2. At(q, m, t) \in SUBSET (1..Len(q)) /\ At(q, n, t) \in SUBSET At(q, m, t)
  BY <1>1 DEF At
<1>3. IsFiniteSet(1..Len(q))
  BY <1>1, FS_Interval
<1>4. IsFiniteSet(At(q, m, t))
  BY <1>2, <1>3, FS_Subset
<1>5. IsFiniteSet(At(q, n, t)) /\ Cardinality(At(q, n, t)) <= Cardinality(At(q, m, t))
  BY <1>2, <1>4, FS_Subset
<1> QED  BY <1>2, <1>4, <1>5, FS_CardinalityType

\* The event at m is one of its type.
LEMMA AtCountsOne ==
  ASSUME NEW S, NEW q \in Seq(S), NEW m \in 1..Len(q), NEW t
  PROVE  /\ q[m].type = t  => Cardinality(At(q, m, t)) = Cardinality(At(q, m + 1, t)) + 1
         /\ q[m].type # t => At(q, m, t) = At(q, m + 1, t)
<1>1. Len(q) \in Nat /\ m \in Nat \ {0} /\ m + 1 \in Nat \ {0} /\ m + 1 <= m + 1
  BY LenProperties
<1>2. q[m].type = t => At(q, m, t) = At(q, m + 1, t) \cup {m} /\ m \notin At(q, m + 1, t)
  BY <1>1 DEF At
<1>3. q[m].type # t => At(q, m, t) = At(q, m + 1, t)
  BY <1>1 DEF At
<1>4. IsFiniteSet(At(q, m + 1, t))
  BY <1>1, AtIsFinite
<1> QED  BY <1>2, <1>3, <1>4, FS_AddElement

\* n events were published.
Grown(n) ==
  /\ nextQueue' \in Seq(GameEvents) /\ published' \in Nat
  /\ Len(nextQueue') = Len(nextQueue) + n
  /\ \A i \in 1..Len(nextQueue) : nextQueue'[i] = nextQueue[i]

\* The events published, from the next number on.
NewEvents == {nextQueue'[i] : i \in (Len(nextQueue) + 1)..Len(nextQueue')}

\* Those of a type are counted when they are published.
LEMMA GrownCounts ==
  ASSUME nextQueue \in Seq(GameEvents), NEW n \in Nat, Grown(n), NEW t
  PROVE  /\ (\A e \in NewEvents : e.type # t) =>
              Cardinality(At(nextQueue', 1, t)) = Cardinality(At(nextQueue, 1, t))
         /\ n = 1 =>
              Cardinality(At(nextQueue', 1, t)) <= Cardinality(At(nextQueue, 1, t)) + 1
<1> DEFINE q == nextQueue
           r == nextQueue'
           k == Len(nextQueue)
<1>1. k \in Nat /\ Len(q) = k /\ Len(r) = k + n /\ r \in Seq(GameEvents) /\ \A i \in 1..k : r[i] = q[i]
  BY LenProperties DEF Grown
<1>2. ASSUME \A e \in NewEvents : e.type # t
      PROVE  At(r, 1, t) = At(q, 1, t)
  <2>1. \A i \in (k + 1)..(k + n) : r[i].type # t
    BY <1>1, <1>2 DEF NewEvents
  <2> HIDE DEF q, r, k, NewEvents
  <2>2. \A i \in 1..(k + n) : r[i].type = t => i \in 1..k
    BY <1>1, <2>1
  <2>3. \A i : i \in 1..(k + n) /\ r[i].type = t <=> i \in 1..k /\ q[i].type = t
    BY <1>1, <2>2
  <2> QED  BY <1>1, <2>3 DEF At
<1>3. n = 1 => At(r, 1, t) \subseteq At(q, 1, t) \cup {k + 1}
  BY <1>1 DEF At
<1>4. IsFiniteSet(At(q, 1, t)) /\ IsFiniteSet(At(r, 1, t)) /\ Cardinality(At(q, 1, t)) \in Nat
      /\ Cardinality(At(r, 1, t)) \in Nat
  BY <1>1, AtIsFinite
<1>5. ASSUME n = 1
      PROVE  Cardinality(At(r, 1, t)) <= Cardinality(At(q, 1, t)) + 1
  <2>1. /\ IsFiniteSet(At(q, 1, t) \cup {k + 1})
        /\ Cardinality(At(q, 1, t) \cup {k + 1}) \in {Cardinality(At(q, 1, t)), Cardinality(At(q, 1, t)) + 1}
    BY <1>4, FS_AddElement
  <2>2. Cardinality(At(r, 1, t)) <= Cardinality(At(q, 1, t) \cup {k + 1})
    BY <1>3, <1>5, <2>1, FS_Subset
  <2> QED  BY <1>4, <2>1, <2>2
<1> QED  BY <1>2, <1>5

\* What is to be handled is counted.
LEMMA ToHandleIsNat ==
  ASSUME Fits(GameEvents), Events(GameEvents), NEW t
  PROVE  /\ ToHandle(t) \in Nat /\ firstToHandle \in Nat \ {0}
         /\ Cardinality(At(queue, firstToHandle, t)) \in Nat
         /\ Cardinality(At(nextQueue, 1, t)) \in Nat
<1>1. cursor.item \in Nat \ {0} /\ cursor.handler \in Nat
  BY FitsReads
<1>2. firstToHandle \in Nat \ {0}
  BY <1>1 DEF firstToHandle
<1>3. Cardinality(At(queue, firstToHandle, t)) \in Nat /\ Cardinality(At(nextQueue, 1, t)) \in Nat
  <2>1. queue \in Seq(GameEvents) /\ nextQueue \in Seq(GameEvents)
    BY DEF Fits
  <2> QED  BY <1>2, <2>1, AtIsFinite
<1> QED  BY <1>2, <1>3 DEF ToHandle

\* And after a step.
LEMMA ToHandleIsNatAfter ==
  ASSUME Fits(GameEvents)', NEW t
  PROVE  ToHandle(t)' \in Nat
<1>1. /\ queue' \in Seq(GameEvents) /\ nextQueue' \in Seq(GameEvents)
      /\ cursor'.item \in Nat \ {0} /\ cursor'.handler \in Nat
  BY DEF Fits, Cursor
<1>2. firstToHandle' \in Nat \ {0}
  BY <1>1 DEF firstToHandle
<1>3. Cardinality(At(queue', firstToHandle', t)) \in Nat /\ Cardinality(At(nextQueue', 1, t)) \in Nat
  BY <1>1, <1>2, AtIsFinite
<1> QED  BY <1>3 DEF ToHandle

-----------------------------------------------------------------------------
(* The steps of dispatch in the frame *)

\* An event that is passed carries its state no longer.
LEMMA StatesOfLess ==
  ASSUME NEW q, Len(q) \in Nat, NEW m \in Nat, NEW n \in Nat, m <= n
  PROVE  StatesOf(q, n) \subseteq StatesOf(q, m)
BY DEF StatesOf

(***************************************************************************)
(* dispatch itself makes no event and none is counted twice: what it       *)
(* passes is handled, and what was published is handled after it.          *)
(***************************************************************************)
LEMMA DispatchingKeeps ==
  ASSUME Fits(GameEvents), Events(GameEvents), Dispatching
  PROVE  /\ Fits(GameEvents)'
         /\ \A t : ToHandle(t)' <= ToHandle(t)
         /\ cursor'.processed + Undone' <= cursor.processed + Undone
         /\ cursor'.state = "outside" => nextQueue' = << >>
         /\ CarriedStates' \subseteq CarriedStates
         /\ \A x \in EventType : Len(handlers'[x]) <= Len(handlers[x])
         /\ alive' = alive
<1>1. /\ Len(queue) \in Nat /\ Len(nextQueue) \in Nat /\ cursor.item \in Nat \ {0}
      /\ cursor.handler \in Nat /\ cursor.last \in Nat /\ cursor.processed \in Nat
      /\ queue \in Seq(GameEvents) /\ nextQueue \in Seq(GameEvents)
      /\ handlers \in [EventType -> Seq(Object)]
  BY FitsReads DEF Fits
<1>2. \A x \in EventType : Len(handlers[x]) \in Nat
  BY <1>1, LenProperties
<1>3. CASE BeginItem
  <2>1. /\ Fits(GameEvents)'
        /\ CursorAt(cursor', "inside", cursor.item, 1, Len(subscribers), cursor.processed)
    BY <1>3, BeginItemFits
  <2>2. UNCHANGED <<queue, nextQueue, handlers, alive>> /\ cursor.handler = 0
    BY <1>3 DEF BeginItem
  <2>3. firstToHandle' = firstToHandle /\ cursor'.item = cursor.item /\ cursor'.state = "inside"
        /\ cursor'.processed = cursor.processed
    BY <2>1, <2>2 DEF firstToHandle, CursorAt
  <2>4. ASSUME NEW t  PROVE ToHandle(t)' <= ToHandle(t)
    <3>1. ToHandle(t)' = ToHandle(t)
      BY <2>2, <2>3 DEF ToHandle
    <3> QED  BY <3>1, ToHandleIsNat
  <2>5. Undone' = Undone /\ Undone \in Int /\ CarriedStates' = CarriedStates
    BY <1>1, <2>2, <2>3 DEF Undone, CarriedStates
  <2> QED  BY <1>1, <1>2, <2>1, <2>2, <2>3, <2>4, <2>5
<1>4. CASE SkipDead
  <2>1. /\ Fits(GameEvents)'
        /\ CursorAt(cursor', "inside", cursor.item, cursor.handler + 1, cursor.last, cursor.processed)
        /\ cursor.handler \in 1..cursor.last
    BY <1>4, SkipDeadFits
  <2>2. UNCHANGED <<queue, nextQueue, handlers, alive>>
    BY <1>4 DEF SkipDead
  <2>3. /\ firstToHandle' = cursor.item + 1 /\ firstToHandle <= cursor.item + 1
        /\ firstToHandle \in Nat \ {0}
        /\ cursor'.item = cursor.item /\ cursor'.state = "inside"
        /\ cursor'.processed = cursor.processed
    BY <1>1, <2>1 DEF firstToHandle, CursorAt
  <2>4. ASSUME NEW t  PROVE ToHandle(t)' <= ToHandle(t)
    <3>1. Cardinality(At(queue, cursor.item + 1, t)) <= Cardinality(At(queue, firstToHandle, t))
          /\ Cardinality(At(queue, cursor.item + 1, t)) \in Nat
      BY <1>1, <2>3, AtIsFinite
    <3>2. ToHandle(t)' = Cardinality(At(queue, cursor.item + 1, t)) + Cardinality(At(nextQueue, 1, t))
      BY <2>2, <2>3 DEF ToHandle
    <3> QED  BY <3>1, <3>2, ToHandleIsNat DEF ToHandle
  <2>5. Undone' = Undone /\ Undone \in Int /\ CarriedStates' = CarriedStates
    BY <1>1, <2>2, <2>3 DEF Undone, CarriedStates
  <2> QED  BY <1>1, <1>2, <2>1, <2>2, <2>3, <2>4, <2>5
<1>5. CASE EndItem
  <2>1. /\ Fits(GameEvents)'
        /\ cursor.item \in 1..Len(queue)
        /\ handlers'[current.type] = survivors(subscribers, alive)
        /\ \A x \in EventType \ {current.type} : handlers'[x] = handlers[x]
        /\ IF cursor.processed = MaxEventsPerFrame
           THEN CursorAt(cursor', "thrown", cursor.item, cursor.handler, cursor.last, cursor.processed)
           ELSE CursorAt(cursor', "inside", cursor.item + 1, 0, cursor.last, cursor.processed + 1)
    BY <1>5, EndItemFits
  <2>2. UNCHANGED <<queue, nextQueue, alive>>
    BY <1>5 DEF EndItem
  <2>3. /\ firstToHandle \in Nat \ {0} /\ firstToHandle <= firstToHandle'
        /\ firstToHandle' \in Nat
        /\ cursor'.item \in {cursor.item, cursor.item + 1} /\ cursor'.state # "outside"
        /\ cursor'.processed - cursor'.item = cursor.processed - cursor.item
        /\ cursor'.processed \in Nat
    <3>1. CASE cursor.processed = MaxEventsPerFrame
      BY <1>1, <2>1, <3>1 DEF firstToHandle, CursorAt
    <3>2. CASE cursor.processed # MaxEventsPerFrame
      <4>1. /\ cursor'.handler = 0 /\ cursor'.item = cursor.item + 1 /\ cursor'.state = "inside"
            /\ cursor'.processed = cursor.processed + 1
        BY <2>1, <3>2 DEF CursorAt
      <4>2. firstToHandle' = cursor.item + 1
        BY <4>1 DEF firstToHandle
      <4>3. firstToHandle \in {cursor.item, cursor.item + 1}
        BY DEF firstToHandle
      <4>4. cursor'.processed - cursor'.item = cursor.processed - cursor.item
        <5>1. \A p, i \in Int : (p + 1) - (i + 1) = p - i
          OBVIOUS
        <5>2. cursor.processed \in Int /\ cursor.item \in Int
          BY <1>1
        <5> QED  BY <4>1, <5>1, <5>2
      <4> QED  BY <1>1, <4>1, <4>2, <4>3, <4>4
    <3> QED  BY <3>1, <3>2
  <2>4. ASSUME NEW t  PROVE ToHandle(t)' <= ToHandle(t)
    <3>1. Cardinality(At(queue, firstToHandle', t)) <= Cardinality(At(queue, firstToHandle, t))
          /\ Cardinality(At(queue, firstToHandle', t)) \in Nat
      BY <1>1, <2>3, AtIsFinite
    <3>2. ToHandle(t)' = Cardinality(At(queue, firstToHandle', t)) + Cardinality(At(nextQueue, 1, t))
      BY <2>2 DEF ToHandle
    <3> QED  BY <3>1, <3>2, ToHandleIsNat DEF ToHandle
  <2>5. cursor'.processed + Undone' <= cursor.processed + Undone
    <3> DEFINE a == cursor'.processed
               b == cursor'.item
               c == cursor.processed
               d == cursor.item
               m == Len(queue)
               n == Len(nextQueue)
    <3>1. Undone' = m - b + 1 + n /\ Undone = m - d + 1 + n
      BY <2>2 DEF Undone
    <3>2. a \in Int /\ b \in Int /\ c \in Int /\ d \in Int /\ m \in Int /\ n \in Int
      BY <1>1, <2>3
    <3>3. a - b = c - d
      BY <2>3
    <3> HIDE DEF a, b, c, d, m, n
    <3>4. a + (m - b + 1 + n) = c + (m - d + 1 + n) /\ c + (m - d + 1 + n) \in Int
      BY <3>2, <3>3
    <3>5. a + Undone' <= c + Undone
      BY <3>1, <3>4
    <3> QED  BY <3>5 DEF a, c
  <2>6. CarriedStates' \subseteq CarriedStates
    <3>1. StatesOf(queue, cursor'.item) \subseteq StatesOf(queue, cursor.item)
      BY <1>1, <2>3, StatesOfLess
    <3> QED  BY <2>2, <3>1 DEF CarriedStates
  <2>7. ASSUME NEW x \in EventType  PROVE Len(handlers'[x]) <= Len(handlers[x])
    <3>1. CASE x = current.type
      <4>1. subscribers \in Seq(Object) /\ subscribers = handlers[x] /\ Len(subscribers) \in Nat
        BY <1>1, <3>1, LenProperties DEF subscribers
      <4>2. Len(survivors(subscribers, alive)) \in 0..Len(subscribers)
        BY <4>1, SurvivorsAre
      <4> QED  BY <2>1, <3>1, <4>1, <4>2
    <3>2. CASE x # current.type
      BY <1>2, <2>1, <3>2
    <3> QED  BY <3>1, <3>2
  <2> QED  BY <2>1, <2>2, <2>3, <2>4, <2>5, <2>6, <2>7
<1>6. CASE EndRound
  <2>1. /\ Fits(GameEvents)'
        /\ cursor.item = Len(queue) + 1 /\ cursor.handler = 0
        /\ nextQueue = << >> => cursor' = outside
        /\ nextQueue # << >> => CursorAt(cursor', "inside", 1, 0, cursor.last, cursor.processed)
    BY <1>6, EndRoundFits
  <2>2. queue' = nextQueue /\ nextQueue' = << >> /\ UNCHANGED <<handlers, alive>>
    BY <1>6 DEF EndRound
  <2>3. /\ cursor'.item = 1 /\ cursor'.handler = 0 /\ cursor'.processed \in Nat
        /\ cursor'.processed <= cursor.processed
    BY <1>1, <2>1 DEF CursorAt, outside
  <2>4. firstToHandle' = 1 /\ firstToHandle = Len(queue) + 1
    BY <2>1, <2>3 DEF firstToHandle
  <2>5. Len(<< >>) = 0 /\ \A t : At(<< >>, 1, t) = {} /\ StatesOf(<< >>, 1) = {}
    BY DEF At, StatesOf
  <2>6. ASSUME NEW t  PROVE ToHandle(t)' <= ToHandle(t)
    <3>1. At(queue, firstToHandle, t) = {}
      BY <1>1, <2>4 DEF At
    <3>2. ToHandle(t)' = Cardinality(At(nextQueue, 1, t)) + Cardinality({})
      BY <2>2, <2>4, <2>5 DEF ToHandle
    <3>3. ToHandle(t) = Cardinality({}) + Cardinality(At(nextQueue, 1, t))
      BY <3>1 DEF ToHandle
    <3> QED  BY <3>2, <3>3, ToHandleIsNat, FS_EmptySet
  <2>7. cursor'.processed + Undone' <= cursor.processed + Undone
    BY <1>1, <2>1, <2>2, <2>3, <2>5 DEF Undone
  <2>8. CarriedStates' \subseteq CarriedStates
    BY <2>2, <2>3, <2>5 DEF CarriedStates
  <2> QED  BY <1>2, <2>1, <2>2, <2>6, <2>7, <2>8
<1> QED  BY <1>3, <1>4, <1>5, <1>6 DEF Dispatching

-----------------------------------------------------------------------------
(* What is published in the frame *)

\* Nothing, either way of saying so.
LEMMA NothingGrows ==
  ASSUME Fits(GameEvents), nothingPublished \/ publish(<< >>)
  PROVE  Grown(0) /\ NewEvents = {} /\ nextQueue' = nextQueue
<1>1. nextQueue \in Seq(GameEvents) /\ published \in Nat /\ Len(nextQueue) \in Nat
  BY LenProperties DEF Fits
<1>2. nextQueue' = nextQueue /\ published' = published
  <2>1. CASE nothingPublished
    BY <2>1 DEF nothingPublished
  <2>2. CASE publish(<< >>)
    <3>1. Len(<< >>) = 0 /\ DOMAIN << >> = {} /\ Len(<< >>) \in Nat
      OBVIOUS
    <3>2. numbered(<< >>, published) = << >>
      BY <3>1 DEF numbered
    <3>3. nextQueue' = nextQueue \o << >> /\ published' = published + 0
      BY <2>2, <3>1, <3>2 DEF publish
    <3> QED  BY <1>1, <3>3, ConcatEmptySeq
  <2> QED  BY <2>1, <2>2
<1> QED  BY <1>1, <1>2 DEF Grown, NewEvents

\* One event.
LEMMA OneGrows ==
  ASSUME Fits(GameEvents), NEW e, withId(e, published + 1) \in GameEvents, publish(<< e >>)
  PROVE  Grown(1) /\ NewEvents = {withId(e, published + 1)}
<1>1. nextQueue \in Seq(GameEvents) /\ published \in Nat
  BY DEF Fits
<1>2. /\ nextQueue' \in Seq(GameEvents) /\ Len(nextQueue') = Len(nextQueue) + 1
      /\ published' = published + 1 /\ Len(nextQueue) \in Nat
      /\ \A i \in 1..Len(nextQueue) : nextQueue'[i] = nextQueue[i]
      /\ nextQueue'[Len(nextQueue) + 1] = withId(e, published + 1)
  BY <1>1, PublishOne
<1>3. Grown(1)
  BY <1>1, <1>2 DEF Grown
<1>4. NewEvents = {nextQueue'[Len(nextQueue) + 1]}
  BY <1>2 DEF NewEvents
<1> QED  BY <1>2, <1>3, <1>4

\* An event without a state, and one with it.
LEMMA NumberedEvents ==
  ASSUME NEW n \in Nat
  PROVE  /\ \A t \in Types \ StateTypes :
              /\ withId([type |-> t], n) \in GameEvents
              /\ withId([type |-> t], n).type = t
         /\ \A t \in StateTypes, s \in Nat \ {0} :
              /\ withId([type |-> t, state |-> s], n) \in GameEvents
              /\ withId([type |-> t, state |-> s], n).type = t
              /\ withId([type |-> t, state |-> s], n).state = s
<1>1. ASSUME NEW t \in Types \ StateTypes
      PROVE  withId([type |-> t], n) \in GameEvents /\ withId([type |-> t], n).type = t
  <2>1. withId([type |-> t], n) = [type |-> t, id |-> n]
    BY DEF withId
  <2> QED  BY <2>1 DEF GameEvents
<1>2. ASSUME NEW t \in StateTypes, NEW s \in Nat \ {0}
      PROVE  /\ withId([type |-> t, state |-> s], n) \in GameEvents
             /\ withId([type |-> t, state |-> s], n).type = t
             /\ withId([type |-> t, state |-> s], n).state = s
  <2>1. withId([type |-> t, state |-> s], n) = [type |-> t, state |-> s, id |-> n]
    BY DEF withId
  <2> QED  BY <2>1 DEF GameEvents
<1> QED  BY <1>1, <1>2

\* Changes of the lobby, one or several.
LEMMA ChangesGrow ==
  ASSUME Fits(GameEvents), NEW n \in Nat, publish([i \in 1..n |-> [type |-> "LobbyChanged"]])
  PROVE  Grown(n) /\ \A e \in NewEvents : e.type = "LobbyChanged"
<1> DEFINE events == [i \in 1..n |-> [type |-> "LobbyChanged"]]
<1>1. nextQueue \in Seq(GameEvents) /\ published \in Nat
  BY DEF Fits
<1>2. DOMAIN events = 1..n /\ events \in [1..n -> {[type |-> "LobbyChanged"]}]
  OBVIOUS
<1>3. \A i \in 1..n : events[i] = [type |-> "LobbyChanged"]
  OBVIOUS
<1>4. publish(events)
  OBVIOUS
<1> HIDE DEF events
<1>5. Len(events) = n /\ DOMAIN events = 1..Len(events)
  <2> DEFINE T == {[type |-> "LobbyChanged"]}
  <2>1. events \in [1..n -> T]
    BY <1>2
  <2> HIDE DEF T
  <2>2. events \in Seq(T)
    BY <2>1, SeqDef
  <2> QED  BY <1>2, <2>2, LenProperties
<1>6. "LobbyChanged" \in Types \ StateTypes
  BY DEF Types, StateTypes
<1>7. \A i \in 1..Len(events) :
        /\ withId(events[i], published + i) \in GameEvents
        /\ withId(events[i], published + i).type = "LobbyChanged"
  <2> TAKE i \in 1..Len(events)
  <2>1. published + i \in Nat /\ events[i] = [type |-> "LobbyChanged"]
    BY <1>1, <1>3, <1>5
  <2> QED  BY <1>6, <2>1, NumberedEvents
<1>8. Len(events) \in Nat /\ \A i \in 1..Len(events) : withId(events[i], published + i) \in GameEvents
  BY <1>5, <1>7
<1>9. nextQueue' \in Seq(GameEvents) /\ Len(nextQueue') = Len(nextQueue) + Len(events)
  BY <1>1, <1>4, <1>5, <1>8, PublishAppends
<1>10. published' \in Nat /\ Len(nextQueue) \in Nat
  BY <1>1, <1>4, <1>5, <1>8, PublishAppends
<1>11. \A i \in 1..Len(nextQueue) : nextQueue'[i] = nextQueue[i]
  BY <1>1, <1>4, <1>5, <1>8, PublishAppends
<1>12. \A i \in 1..Len(events) :
         nextQueue'[Len(nextQueue) + i] = withId(events[i], published + i)
  BY <1>1, <1>4, <1>5, <1>8, PublishAppends
<1>13. Grown(n)
  BY <1>5, <1>9, <1>10, <1>11 DEF Grown
<1>14. ASSUME NEW j \in (Len(nextQueue) + 1)..Len(nextQueue')
       PROVE  nextQueue'[j].type = "LobbyChanged"
  <2> DEFINE i == j - Len(nextQueue)
  <2>1. i \in 1..Len(events) /\ Len(nextQueue) + i = j
    BY <1>5, <1>9, <1>10
  <2> HIDE DEF i
  <2> QED  BY <1>7, <1>12, <2>1
<1> QED  BY <1>13, <1>14 DEF NewEvents

\* The states that the new events carry.
LEMMA GrownCarries ==
  ASSUME nextQueue \in Seq(GameEvents), NEW n \in Nat, Grown(n)
  PROVE  StatesOf(nextQueue', 1)
           \subseteq StatesOf(nextQueue, 1) \cup {e.state : e \in {x \in NewEvents : x.type \in StateTypes}}
<1>1. Len(nextQueue) \in Nat /\ Len(nextQueue') = Len(nextQueue) + n
      /\ \A i \in 1..Len(nextQueue) : nextQueue'[i] = nextQueue[i]
  BY LenProperties DEF Grown
<1>2. ASSUME NEW i \in 1..Len(nextQueue'), nextQueue'[i].type \in StateTypes
      PROVE  nextQueue'[i].state
               \in StatesOf(nextQueue, 1) \cup {e.state : e \in {x \in NewEvents : x.type \in StateTypes}}
  <2>1. CASE i \in 1..Len(nextQueue)
    BY <1>1, <1>2, <2>1 DEF StatesOf
  <2>2. CASE i \notin 1..Len(nextQueue)
    <3>1. nextQueue'[i] \in NewEvents
      BY <1>1, <2>2 DEF NewEvents
    <3> QED  BY <1>2, <3>1
  <2> QED  BY <2>1, <2>2
<1> QED  BY <1>2 DEF StatesOf

(***************************************************************************)
(* Between dispatches: what is published waits, and is counted.            *)
(***************************************************************************)
LEMMA PublishedKeeps ==
  ASSUME Fits(GameEvents), Events(GameEvents), NEW n \in Nat, Grown(n),
         UNCHANGED <<queue, handlers, alive, cursor>>
  PROVE  /\ Fits(GameEvents)'
         /\ Undone' = Undone + n /\ Undone \in Int
         /\ \A t : (\A e \in NewEvents : e.type # t) => ToHandle(t)' = ToHandle(t)
         /\ n = 1 => \A t : ToHandle(t)' <= ToHandle(t) + 1
         /\ CarriedStates'
              \subseteq CarriedStates \cup {e.state : e \in {x \in NewEvents : x.type \in StateTypes}}
<1>1. /\ Len(queue) \in Nat /\ Len(nextQueue) \in Nat /\ cursor.item \in Nat \ {0}
      /\ nextQueue \in Seq(GameEvents)
  BY FitsReads DEF Fits
<1>2. Fits(GameEvents)'
  BY DEF Fits, Grown, Fitting
<1>3. Undone' = Undone + n /\ Undone \in Int
  BY <1>1 DEF Undone, Grown
<1>4. firstToHandle' = firstToHandle
  BY DEF firstToHandle
<1>5. ASSUME NEW t, \A e \in NewEvents : e.type # t
      PROVE  ToHandle(t)' = ToHandle(t)
  BY <1>1, <1>4, <1>5, GrownCounts DEF ToHandle
<1>6. ASSUME n = 1, NEW t
      PROVE  ToHandle(t)' <= ToHandle(t) + 1
  <2>1. Cardinality(At(nextQueue', 1, t)) <= Cardinality(At(nextQueue, 1, t)) + 1
    BY <1>1, <1>6, GrownCounts
  <2>2. Cardinality(At(nextQueue', 1, t)) \in Nat
    BY AtIsFinite DEF Grown
  <2>3. ToHandle(t)' = Cardinality(At(queue, firstToHandle, t)) + Cardinality(At(nextQueue', 1, t))
    BY <1>4 DEF ToHandle
  <2> QED  BY <2>1, <2>2, <2>3, ToHandleIsNat DEF ToHandle
<1>7. CarriedStates'
        \subseteq CarriedStates \cup {e.state : e \in {x \in NewEvents : x.type \in StateTypes}}
  BY <1>1, GrownCarries DEF CarriedStates
<1> QED  BY <1>2, <1>3, <1>5, <1>6, <1>7

(***************************************************************************)
(* A handler is called for the first time: its event is handled now, and   *)
(* only what the handler published has been added.                         *)
(***************************************************************************)
LEMMA HandlerKeeps ==
  ASSUME Fits(GameEvents), Events(GameEvents), NEW object, NEW x, atHandlerOf(object, x),
         NEW n \in Nat, Grown(n),
         handlers' \in [EventType -> Seq(Object)], alive' \subseteq Object,
         Len(handlers[x]) <= Len(handlers'[x])
  PROVE  /\ Fits(GameEvents)'
         /\ phase = "dispatch" /\ phase' = phase /\ cursor.state = "inside" /\ cursor'.state = "inside"
         /\ cursor'.processed = cursor.processed
         /\ Undone' = Undone + n /\ Undone \in Int
         /\ x \in EventType /\ cursor.handler \in 1..Len(handlers[x])
         /\ \A t : (\A e \in NewEvents : e.type # t) => ToHandle(t)' <= ToHandle(t)
         /\ (\A e \in NewEvents : e.type # x) /\ cursor.handler = 1 => ToHandle(x)' = ToHandle(x) - 1
         /\ (\A e \in NewEvents : e.type \notin StateTypes) => CarriedStates' \subseteq CarriedStates
         /\ x \in StateTypes => \E s \in CarriedStates : s # 0
<1>1. /\ phase = "dispatch" /\ phase' = phase /\ atHandler /\ current.type = x /\ called \in alive
      /\ cursor' = nextHandler /\ queue' = queue
  BY DEF atHandlerOf, In
<1>2. cursor.item <= Len(queue)
  BY <1>1 DEF atHandler, atItem
<1>3. /\ Len(queue) \in Nat /\ Len(nextQueue) \in Nat /\ cursor.item \in Nat \ {0}
      /\ current \in GameEvents /\ x \in EventType /\ subscribers = handlers[x]
      /\ Len(subscribers) \in Nat /\ cursor.last \in Nat
  BY <1>1, <1>2, FitsReads DEF subscribers
<1>4. nextQueue \in Seq(GameEvents) /\ queue \in Seq(GameEvents)
  BY DEF Fits
<1>5. nextQueue' \in Seq(GameEvents) /\ published' \in Nat /\ Len(subscribers) <= Len(handlers'[current.type])
  BY <1>1, <1>3 DEF Grown
<1>6. /\ Fits(GameEvents)'
      /\ CursorAt(cursor', "inside", cursor.item, cursor.handler + 1, cursor.last, cursor.processed)
      /\ cursor.handler \in 1..cursor.last /\ cursor.last <= Len(subscribers)
  BY <1>1, <1>5, NextHandlerFits
<1>7. cursor'.item = cursor.item /\ cursor'.handler = cursor.handler + 1
      /\ cursor'.state = "inside" /\ cursor'.processed = cursor.processed
  BY <1>6 DEF CursorAt
<1>8. cursor.handler \in 1..Len(handlers[x]) /\ cursor.state = "inside"
  BY <1>1, <1>3, <1>6 DEF atHandler, atItem
<1>9. Undone' = Undone + n /\ Undone \in Int
  <2>1. Len(nextQueue') = Len(nextQueue) + n
    BY DEF Grown
  <2>2. Undone' = Len(queue) - cursor.item + 1 + (Len(nextQueue) + n)
    BY <1>1, <1>7, <2>1 DEF Undone
  <2> QED  BY <1>3, <2>2 DEF Undone
<1>10. /\ firstToHandle' = cursor.item + 1 /\ firstToHandle \in {cursor.item, cursor.item + 1}
       /\ cursor.handler = 1 => firstToHandle = cursor.item
  BY <1>3, <1>7, <1>8 DEF firstToHandle
<1>11. ASSUME NEW t
       PROVE  /\ Cardinality(At(queue, cursor.item + 1, t)) <= Cardinality(At(queue, firstToHandle, t))
              /\ Cardinality(At(queue, cursor.item + 1, t)) \in Nat
  <2>1. firstToHandle \in Nat \ {0} /\ firstToHandle <= cursor.item + 1 /\ cursor.item + 1 \in Nat
    BY <1>3, <1>10
  <2> QED  BY <1>4, <2>1, AtIsFinite
<1>12. ASSUME NEW t
       PROVE  ToHandle(t)' = Cardinality(At(queue, cursor.item + 1, t))
                               + Cardinality(At(nextQueue', 1, t))
  BY <1>1, <1>10 DEF ToHandle
<1>13. ASSUME NEW t, \A e \in NewEvents : e.type # t
       PROVE  ToHandle(t)' <= ToHandle(t)
  <2>1. Cardinality(At(nextQueue', 1, t)) = Cardinality(At(nextQueue, 1, t))
    BY <1>4, <1>13, GrownCounts
  <2> QED  BY <1>11, <1>12, <2>1, ToHandleIsNat DEF ToHandle
<1>14. ASSUME \A e \in NewEvents : e.type # x, cursor.handler = 1
       PROVE  ToHandle(x)' = ToHandle(x) - 1
  <2>1. Cardinality(At(nextQueue', 1, x)) = Cardinality(At(nextQueue, 1, x))
    BY <1>4, <1>14, GrownCounts
  <2>2. Cardinality(At(queue, cursor.item, x)) = Cardinality(At(queue, cursor.item + 1, x)) + 1
    <3>1. cursor.item \in 1..Len(queue) /\ queue[cursor.item].type = x
      BY <1>1, <1>2, <1>3 DEF current
    <3> QED  BY <1>4, <3>1, AtCountsOne
  <2>3. ToHandle(x) = Cardinality(At(queue, cursor.item, x)) + Cardinality(At(nextQueue, 1, x))
    BY <1>10, <1>14 DEF ToHandle
  <2>4. Cardinality(At(nextQueue, 1, x)) \in Nat /\ Cardinality(At(queue, cursor.item + 1, x)) \in Nat
    BY <1>11, ToHandleIsNat
  <2> QED  BY <1>12, <2>1, <2>2, <2>3, <2>4
<1>15. ASSUME \A e \in NewEvents : e.type \notin StateTypes
       PROVE  CarriedStates' \subseteq CarriedStates
  <2>1. {e.state : e \in {y \in NewEvents : y.type \in StateTypes}} = {}
    BY <1>15
  <2>2. StatesOf(nextQueue', 1) \subseteq StatesOf(nextQueue, 1)
    BY <1>4, <2>1, GrownCarries
  <2> QED  BY <1>1, <1>7, <2>2 DEF CarriedStates
<1>16. ASSUME x \in StateTypes
       PROVE  \E s \in CarriedStates : s # 0
  <2>1. current.state # 0
    BY <1>1, <1>3, <1>16 DEF GameEvents
  <2>2. cursor.item \in {j \in cursor.item..Len(queue) : queue[j].type \in StateTypes}
    BY <1>1, <1>2, <1>3, <1>16 DEF current
  <2>3. current.state \in CarriedStates
    BY <2>2 DEF CarriedStates, StatesOf, current
  <2> QED  BY <2>1, <2>3
<1> QED  BY <1>1, <1>3, <1>6, <1>7, <1>8, <1>9, <1>13, <1>14, <1>15, <1>16

-----------------------------------------------------------------------------
(* What the actions do to the model *)

\* A model that was welcomed, and its fields.
ModelAt(m, syncState, state, temp, toDelete, made) ==
  /\ m \in Model /\ m.exists /\ m.initialized
  /\ m.syncState = syncState /\ m.state = state /\ m.temp = temp
  /\ m.toDelete = toDelete /\ m.made = made

\* The packets, one after the other.
LEMMA ModelSteps ==
  ASSUME NEW m \in Model, NEW s \in Nat, NEW y \in {"Unsynced", "Syncing", "Synced"}, m.exists
  PROVE  /\ ModelAt([m EXCEPT !.initialized = TRUE, !.state = s, !.made = s],
                    m.syncState, s, m.temp, m.toDelete, s)
         /\ m.initialized =>
              /\ ModelAt([m EXCEPT !.syncState = "Syncing", !.temp = s, !.made = s],
                         "Syncing", m.state, s, m.toDelete, s)
              /\ ModelAt([m EXCEPT !.syncState = y], y, m.state, m.temp, m.toDelete, m.made)
              /\ ModelAt([m EXCEPT !.syncState = "Synced", !.state = s, !.temp = noState,
                                   !.toDelete = @ \cup {m.state}],
                         "Synced", s, noState, m.toDelete \cup {m.state}, m.made)
<1> USE DEF Model
<1>1. ModelAt([m EXCEPT !.initialized = TRUE, !.state = s, !.made = s],
              m.syncState, s, m.temp, m.toDelete, s)
  <2> DEFINE d == [m EXCEPT !.initialized = TRUE]
             e == [d EXCEPT !.state = s]
             f == [e EXCEPT !.made = s]
  <2>1. d \in Model /\ d.exists /\ d.initialized /\ d.syncState = m.syncState /\ d.temp = m.temp
        /\ d.toDelete = m.toDelete
    OBVIOUS
  <2>2. [m EXCEPT !.initialized = TRUE, !.state = s, !.made = s] = f
    OBVIOUS
  <2> HIDE DEF d
  <2>3. e \in Model /\ e.exists /\ e.initialized /\ e.syncState = m.syncState /\ e.temp = m.temp
        /\ e.toDelete = m.toDelete /\ e.state = s
    BY <2>1
  <2> HIDE DEF e
  <2>4. f \in Model /\ f.exists /\ f.initialized /\ f.syncState = m.syncState /\ f.temp = m.temp
        /\ f.toDelete = m.toDelete /\ f.state = s /\ f.made = s
    BY <2>3
  <2> HIDE DEF f
  <2> QED  BY <2>2, <2>4 DEF ModelAt
<1>2. ASSUME m.initialized
      PROVE  ModelAt([m EXCEPT !.syncState = "Syncing", !.temp = s, !.made = s],
                     "Syncing", m.state, s, m.toDelete, s)
  <2> DEFINE d == [m EXCEPT !.syncState = "Syncing"]
             e == [d EXCEPT !.temp = s]
             f == [e EXCEPT !.made = s]
  <2>1. d \in Model /\ d.exists /\ d.initialized /\ d.syncState = "Syncing" /\ d.state = m.state
        /\ d.toDelete = m.toDelete
    BY <1>2
  <2>2. [m EXCEPT !.syncState = "Syncing", !.temp = s, !.made = s] = f
    OBVIOUS
  <2> HIDE DEF d
  <2>3. e \in Model /\ e.exists /\ e.initialized /\ e.syncState = "Syncing" /\ e.state = m.state
        /\ e.toDelete = m.toDelete /\ e.temp = s
    BY <2>1
  <2> HIDE DEF e
  <2>4. f \in Model /\ f.exists /\ f.initialized /\ f.syncState = "Syncing" /\ f.state = m.state
        /\ f.toDelete = m.toDelete /\ f.temp = s /\ f.made = s
    BY <2>3
  <2> HIDE DEF f
  <2> QED  BY <2>2, <2>4 DEF ModelAt
<1>3. ASSUME m.initialized
      PROVE  ModelAt([m EXCEPT !.syncState = y], y, m.state, m.temp, m.toDelete, m.made)
  <2> DEFINE d == [m EXCEPT !.syncState = y]
  <2>1. d \in Model /\ d.exists /\ d.initialized /\ d.syncState = y /\ d.state = m.state
        /\ d.toDelete = m.toDelete /\ d.temp = m.temp /\ d.made = m.made
    BY <1>3
  <2> HIDE DEF d
  <2> QED  BY <2>1 DEF ModelAt, d
<1>4. ASSUME m.initialized
      PROVE  ModelAt([m EXCEPT !.syncState = "Synced", !.state = s, !.temp = noState,
                               !.toDelete = @ \cup {m.state}],
                     "Synced", s, noState, m.toDelete \cup {m.state}, m.made)
  <2> DEFINE D == m.toDelete \cup {m.state}
             c == [m EXCEPT !.syncState = "Synced"]
             d == [c EXCEPT !.state = s]
             e == [d EXCEPT !.temp = noState]
             f == [e EXCEPT !.toDelete = D]
  <2>1. c \in Model /\ c.exists /\ c.initialized /\ c.syncState = "Synced" /\ c.made = m.made
    BY <1>4
  <2>2. [m EXCEPT !.syncState = "Synced", !.state = s, !.temp = noState,
                  !.toDelete = @ \cup {m.state}] = f
    OBVIOUS
  <2>3. D \in SUBSET Nat /\ noState \in Nat
    BY DEF noState
  <2> HIDE DEF c, D
  <2>4. d \in Model /\ d.exists /\ d.initialized /\ d.syncState = "Synced" /\ d.made = m.made
        /\ d.state = s
    BY <2>1
  <2> HIDE DEF d
  <2>5. e \in Model /\ e.exists /\ e.initialized /\ e.syncState = "Synced" /\ e.made = m.made
        /\ e.state = s /\ e.temp = noState
    BY <2>3, <2>4
  <2> HIDE DEF e
  <2>6. f \in Model /\ f.exists /\ f.initialized /\ f.syncState = "Synced" /\ f.made = m.made
        /\ f.state = s /\ f.temp = noState /\ f.toDelete = D
    BY <2>3, <2>5
  <2> HIDE DEF f
  <2> QED  BY <2>2, <2>6 DEF ModelAt, D
<1> QED  BY <1>1, <1>2, <1>3, <1>4

\* A new model, and the end of a frame.
LEMMA ModelMadeAndCleaned ==
  /\ LET m == [noModel EXCEPT !.exists = TRUE]
     IN  /\ m \in Model /\ m.exists /\ ~m.initialized /\ m.syncState = "Unsynced"
         /\ m.state = 0 /\ m.temp = 0 /\ m.toDelete = {} /\ m.made = 0
  /\ \A m \in Model :
       LET c == [m EXCEPT !.toDelete = {}]
       IN  /\ c \in Model /\ c.exists = m.exists /\ c.initialized = m.initialized
           /\ c.syncState = m.syncState /\ c.state = m.state /\ c.temp = m.temp
           /\ c.toDelete = {} /\ c.made = m.made
<1>1. noModel \in Model /\ ~noModel.initialized /\ noModel.syncState = "Unsynced"
      /\ noModel.state = 0 /\ noModel.temp = 0 /\ noModel.toDelete = {} /\ noModel.made = 0
  BY DEF noModel, noState, Model
<1>2. ASSUME NEW n \in Model, ~n.initialized, n.syncState = "Unsynced", n.state = 0, n.temp = 0,
             n.toDelete = {}, n.made = 0
      PROVE  LET m == [n EXCEPT !.exists = TRUE]
             IN  /\ m \in Model /\ m.exists /\ ~m.initialized /\ m.syncState = "Unsynced"
                 /\ m.state = 0 /\ m.temp = 0 /\ m.toDelete = {} /\ m.made = 0
  BY <1>2 DEF Model
<1>3. ASSUME NEW m \in Model
      PROVE  LET c == [m EXCEPT !.toDelete = {}]
             IN  /\ c \in Model /\ c.exists = m.exists /\ c.initialized = m.initialized
                 /\ c.syncState = m.syncState /\ c.state = m.state /\ c.temp = m.temp
                 /\ c.toDelete = {} /\ c.made = m.made
  BY DEF Model
<1> QED  BY <1>1, <1>2, <1>3

-----------------------------------------------------------------------------
(* What the steps leave alone *)

\* Where the events stay as they are.
LEMMA EventsStay ==
  ASSUME Fits(GameEvents), UNCHANGED <<queue, nextQueue, handlers, cursor, published>>,
         alive' \subseteq Object
  PROVE  /\ Fits(GameEvents)' /\ Undone' = Undone /\ CarriedStates' = CarriedStates
         /\ \A t : ToHandle(t)' = ToHandle(t)
<1>1. Fits(GameEvents)'
  BY DEF Fits, Fitting
<1>2. firstToHandle' = firstToHandle
  BY DEF firstToHandle
<1> QED  BY <1>1, <1>2 DEF Undone, CarriedStates, ToHandle

\* The client asks for something else than to be let in, or for nothing.
AskedStays == asked' \in Seq(Requests) /\ Hellos(asked') = Hellos(asked)

\* So it does when requests are appended.
LEMMA AskedGrows ==
  ASSUME asked \in Seq(Requests), NEW more \in Seq(Requests), Hellos(more) = {},
         asked' = asked \o more
  PROVE  AskedStays
<1>1. /\ asked' \in Seq(Requests) /\ Len(asked') = Len(asked) + Len(more)
      /\ Len(asked) \in Nat /\ Len(more) \in Nat
      /\ \A i \in 1..Len(asked') : asked'[i] = IF i <= Len(asked) THEN asked[i] ELSE more[i - Len(asked)]
  BY ConcatProperties, LenProperties
<1>2. ASSUME NEW i \in Hellos(asked')  PROVE i \in Hellos(asked)
  <2>1. i \in 1..Len(asked') /\ asked'[i] = "Hello"
    BY <1>2 DEF Hellos
  <2>2. CASE i <= Len(asked)
    BY <1>1, <2>1, <2>2 DEF Hellos
  <2>3. CASE ~(i <= Len(asked))
    <3> DEFINE j == i - Len(asked)
    <3>1. j \in 1..Len(more) /\ more[j] = "Hello"
      BY <1>1, <2>1, <2>3
    <3> HIDE DEF j
    <3> QED  BY <3>1 DEF Hellos
  <2> QED  BY <2>2, <2>3
<1>3. ASSUME NEW i \in Hellos(asked)  PROVE i \in Hellos(asked')
  BY <1>1, <1>3 DEF Hellos
<1> QED  BY <1>1, <1>2, <1>3 DEF AskedStays

\* When the client's first packet is handled there are no more hellos than before, and
\* none after the hello.
LEMMA AskedShrinks ==
  ASSUME Asking, asked # << >>, asked' = Tail(asked)
  PROVE  /\ asked' \in Seq(Requests)
         /\ \A i, j \in Hellos(asked') : i = j
         /\ Hellos(asked') # {} => Hellos(asked) # {} /\ Head(asked) # "Hello"
<1>1. asked \in Seq(Requests) /\ \A i, j \in Hellos(asked) : i = j
  BY DEF Asking
<1>2. /\ asked' \in Seq(Requests) /\ Len(asked') = Len(asked) - 1 /\ Len(asked) \in Nat
      /\ Head(asked) = asked[1] /\ \A i \in 1..Len(asked') : asked'[i] = asked[i + 1]
  BY <1>1, HeadTailProperties, LenProperties
<1>3. ASSUME NEW i \in Hellos(asked')
      PROVE  i \in Nat /\ i >= 1 /\ i + 1 \in Hellos(asked)
  BY <1>2, <1>3 DEF Hellos
<1>4. ASSUME NEW i \in Hellos(asked'), NEW j \in Hellos(asked')  PROVE i = j
  <2>1. i + 1 = j + 1 /\ i \in Nat /\ j \in Nat
    BY <1>1, <1>3
  <2> QED  BY <2>1
<1>5. ASSUME NEW i \in Hellos(asked')  PROVE Head(asked) # "Hello"
  <2>1. i + 1 \in Hellos(asked) /\ i + 1 # 1
    BY <1>3
  <2>2. Len(asked) >= 1
    BY <1>2, <2>1 DEF Hellos
  <2>3. 1 \notin Hellos(asked)
    BY <1>1, <2>1
  <2> QED  BY <1>2, <2>2, <2>3 DEF Hellos
<1> QED  BY <1>2, <1>3, <1>4, <1>5

(***************************************************************************)
(* A step that leaves the model, the scene and the network alone, and      *)
(* brings no welcome and no lobby state.                                   *)
(***************************************************************************)
LEMMA ModelStays ==
  ASSUME ModelInv, UNCHANGED <<model, deleted, scene, wire, together>>,
         asked' = asked \/ AskedStays,
         outcome' \in {"running", "assertNoGame", "assertNoSceneToDelete", "deletedState"},
         closed' \subseteq Dialogs,
         CarriedStates' \subseteq CarriedStates,
         ToHandle("Welcome") \in Nat, ToHandle("Welcome")' \in Nat,
         ToHandle("Welcome")' <= ToHandle("Welcome"),
         (together /\ model.initialized /\ Arriving) => phase' = phase
  PROVE  ModelInv'
<1>1. Typed'
  BY DEF ModelInv, Typed
<1>2. Pointers'
  BY DEF ModelInv, Pointers
<1>3. Beginning'
  BY DEF ModelInv, Beginning, Welcoming, Refusing
<1>4. Once'
  BY DEF ModelInv, Once
<1>5. Carried'
  BY DEF ModelInv, Carried
<1>6. Together'
  BY DEF ModelInv, Together, Arriving, Arrived, NotifiesFrom
<1>7. Asking'
  BY DEF ModelInv, Asking, AskedStays
<1> QED  BY <1>1, <1>2, <1>3, <1>4, <1>5, <1>6, <1>7 DEF ModelInv

-----------------------------------------------------------------------------
(* The beginning of the program, and its server *)

\* The game and the menu listen, nothing was published.
LEMMA InitFrameInv == ProgramNames /\ Init => FrameInv
<1> SUFFICES ASSUME ProgramNames, Init  PROVE FrameInv
  OBVIOUS
<1>1. /\ queue = << >> /\ nextQueue = << >> /\ cursor = outside /\ published = 0
      /\ wire = << >> /\ asked = << >> /\ deleted = {} /\ model = noModel
      /\ scene = [current |-> "menu", toDelete |-> "none", shown |-> 0]
      /\ phase = "receive" /\ inputs = 0 /\ closed = {} /\ outcome = "running"
      /\ together \in BOOLEAN /\ alive = {"game", "menu"}
  BY DEF Init, EventSystemInit, noState
<1>2. << >> \in Seq(GameEvents) /\ << >> \in Seq(Object) /\ << >> \in Seq(Packets) /\ Len(<< >>) = 0
  BY EmptySeq
<1>3. /\ noHandlers \in [EventType -> Seq(Object)] /\ "game" \in Object /\ "menu" \in Object
      /\ "Welcome" \in EventType /\ "LobbyRequest" \in EventType
      /\ \A t \in EventType : noHandlers[t] = << >>
  BY <1>2 DEF noHandlers, ProgramNames, Types, Objects
<1> DEFINE h == subscribe(noHandlers, gameListensTo, "game")
<1>4. /\ h \in [EventType -> Seq(Object)]
      /\ h["Welcome"] = Append(noHandlers["Welcome"], "game")
      /\ h["LobbyRequest"] = noHandlers["LobbyRequest"]
  <2>1. "Welcome" \in gameListensTo /\ "LobbyRequest" \notin gameListensTo
    BY DEF gameListensTo
  <2> QED  BY <1>3, <2>1, SubscribeAppends
<1>5. handlers = subscribe(h, menuListensTo, "menu")
  BY DEF Init
<1> HIDE DEF h
<1>6. /\ handlers \in [EventType -> Seq(Object)]
      /\ handlers["Welcome"] = h["Welcome"] /\ handlers["LobbyRequest"] = h["LobbyRequest"]
  <2>1. "Welcome" \notin menuListensTo /\ "LobbyRequest" \notin menuListensTo
    BY DEF menuListensTo
  <2> QED  BY <1>3, <1>4, <1>5, <2>1, SubscribeAppends
<1>7. Len(handlers["Welcome"]) = 1 /\ Len(handlers["LobbyRequest"]) = 0
  <2>1. noHandlers["Welcome"] = << >> /\ noHandlers["LobbyRequest"] = << >>
    BY <1>3
  <2>2. Len(Append(<< >>, "game")) = 1
    BY <1>2, <1>3, AppendProperties
  <2> QED  BY <1>2, <1>4, <1>6, <2>1, <2>2
<1>8. /\ model \in Model /\ ~model.initialized /\ ~model.exists /\ model.syncState = "Unsynced"
      /\ model.state = 0 /\ model.temp = 0 /\ model.toDelete = {} /\ model.made = 0
  BY <1>1 DEF noModel, noState, Model
<1>9. Fits(GameEvents)
  BY <1>1, <1>2, <1>3, <1>6, OutsideIsCursor DEF Fits
<1>10. \A t : At(queue, firstToHandle, t) = {} /\ At(nextQueue, 1, t) = {}
  BY <1>1, <1>2 DEF At, firstToHandle, outside
<1>11. /\ \A t : ToHandle(t) = 0
       /\ Undone = 0 /\ cursor.processed = 0 /\ cursor.state = "outside"
       /\ CarriedStates = {}
  <2>1. \A t : ToHandle(t) = Cardinality({}) + Cardinality({})
    BY <1>10 DEF ToHandle
  <2>2. cursor.item = 1 /\ cursor.processed = 0 /\ cursor.state = "outside"
    BY <1>1 DEF outside
  <2>3. StatesOf(<< >>, 1) = {}
    BY <1>2 DEF StatesOf
  <2>4. Undone = 0 /\ CarriedStates = {}
    BY <1>1, <1>2, <2>2, <2>3 DEF Undone, CarriedStates
  <2>5. Cardinality({}) = 0
    BY FS_EmptySet
  <2> QED  BY <2>1, <2>2, <2>4, <2>5
<1>12. EventsInv
  BY <1>1, <1>7, <1>8, <1>9, <1>11 DEF EventsInv, Phases, Listeners, Inputs
<1>13. Typed
  BY <1>1, <1>2, <1>8 DEF Typed, Scene
<1>14. Pointers /\ Beginning /\ Once /\ Together
  BY <1>1, <1>8, <1>11 DEF Pointers, Beginning, Once, Together, noState
<1>15. Carried
  BY <1>11 DEF Carried
<1>16. Asking
  BY <1>1, <1>2, EmptySeq DEF Asking, Hellos
<1> QED  BY <1>12, <1>13, <1>14, <1>15, <1>16 DEF FrameInv, ModelInv

\* What is appended to the wire is behind what is on it.
LEMMA WireGrows ==
  ASSUME wire \in Seq(Packets), NEW more \in Seq(Packets), wire' = wire \o more
  PROVE  /\ wire' \in Seq(Packets) /\ Len(wire') = Len(wire) + Len(more)
         /\ Len(wire) \in Nat /\ Len(more) \in Nat
         /\ \A i \in 1..Len(wire) : wire'[i] = wire[i]
         /\ \A i \in 1..Len(more) : wire'[Len(wire) + i] = more[i]
BY ConcatProperties, LenProperties

\* What the server's steps leave alone.
Outside ==
  /\ UNCHANGED <<queue, nextQueue, handlers, alive, cursor, published, phase, inputs, together>>
  /\ UNCHANGED <<model, deleted, scene, closed, outcome>>

\* What the server sends to a client that was welcomed.
LEMMA ServerSendsMore ==
  ASSUME EventsInv, ModelInv, Outside, NEW more \in Seq(Packets), wire' = wire \o more,
         model.initialized, Asking',
         \A i \in 1..Len(more) : more[i] # "Welcome",
         together => \A i \in 1..Len(more) : more[i] = "Notify"
  PROVE  FrameInv'
<1>1. UNCHANGED <<queue, nextQueue, handlers, alive, cursor, published, phase, inputs, together>>
      /\ UNCHANGED <<model, deleted, scene, closed, outcome>>
  BY DEF Outside
<1>2. /\ Fits(GameEvents)' /\ Undone' = Undone /\ CarriedStates' = CarriedStates
      /\ \A t : ToHandle(t)' = ToHandle(t)
  BY <1>1, EventsStay DEF EventsInv, Fits
<1>3. EventsInv'
  BY <1>1, <1>2 DEF EventsInv, Phases, Listeners, Inputs, ProgramNames
<1>4. /\ wire \in Seq(Packets) /\ model \in Model
  BY DEF ModelInv, Typed
<1>5. /\ wire' \in Seq(Packets) /\ Len(wire') = Len(wire) + Len(more)
      /\ Len(wire) \in Nat /\ Len(more) \in Nat
      /\ \A i \in 1..Len(wire) : wire'[i] = wire[i]
      /\ \A i \in 1..Len(more) : wire'[Len(wire) + i] = more[i]
  BY <1>4, WireGrows
<1>6. ASSUME NEW i \in (Len(wire) + 1)..Len(wire')
      PROVE  wire'[i] # "Welcome" /\ (together => wire'[i] = "Notify")
  <2> DEFINE j == i - Len(wire)
  <2>1. j \in 1..Len(more) /\ Len(wire) + j = i
    BY <1>5
  <2> HIDE DEF j
  <2> QED  BY <1>5, <2>1
<1>7. Typed'
  BY <1>1, <1>5 DEF ModelInv, Typed
<1>8. Pointers'
  BY <1>1 DEF ModelInv, Pointers
<1>9. Beginning'
  BY <1>1 DEF ModelInv, Beginning
<1>10. Once'
  <2>1. \A i \in 1..Len(wire') : wire'[i] # "Welcome"
    <3> TAKE i \in 1..Len(wire')
    <3>1. CASE i \in 1..Len(wire)
      BY <1>5, <3>1 DEF ModelInv, Once
    <3>2. CASE i \notin 1..Len(wire)
      BY <1>5, <1>6, <3>2
    <3> QED  BY <3>1, <3>2
  <2> QED  BY <1>1, <1>2, <2>1 DEF ModelInv, Once
<1>11. Carried'
  BY <1>1, <1>2 DEF ModelInv, Carried
<1>12. Together'
  <2>1. ASSUME together, NEW n \in 1..3, NotifiesFrom(n)
        PROVE  NotifiesFrom(n)'
    <3> SUFFICES ASSUME NEW i \in n..Len(wire')  PROVE wire'[i] = "Notify"
      BY DEF NotifiesFrom
    <3>1. CASE i <= Len(wire)
      BY <1>5, <2>1, <3>1 DEF NotifiesFrom
    <3>2. CASE ~(i <= Len(wire))
      BY <1>5, <1>6, <2>1, <3>2
    <3> QED  BY <3>1, <3>2
  <2>2. Len(wire) <= Len(wire')
    BY <1>5
  <2> SUFFICES ASSUME together  PROVE (Arriving \/ Arrived)'
    BY <1>1 DEF Together
  <2>3. CASE Arriving
    BY <1>1, <1>5, <2>1, <2>2, <2>3 DEF Arriving
  <2>4. CASE Arrived
    BY <1>1, <2>1, <2>4 DEF Arrived
  <2> QED  BY <2>3, <2>4 DEF ModelInv, Together
<1> QED  BY <1>3, <1>7, <1>8, <1>9, <1>10, <1>11, <1>12 DEF FrameInv, ModelInv

\* What the server answers to a hello.
LEMMA HelloAnswered ==
  ASSUME EventsInv, ModelInv, Outside, wire = << >>, ~model.initialized, model.exists, Asking',
         onHelloPacket
  PROVE  FrameInv'
<1>1. UNCHANGED <<queue, nextQueue, handlers, alive, cursor, published, phase, inputs, together>>
      /\ UNCHANGED <<model, deleted, scene, closed, outcome>>
  BY DEF Outside
<1>2. /\ Fits(GameEvents)' /\ Undone' = Undone /\ CarriedStates' = CarriedStates
      /\ \A t : ToHandle(t)' = ToHandle(t)
  BY <1>1, EventsStay DEF EventsInv, Fits
<1>3. EventsInv'
  BY <1>1, <1>2 DEF EventsInv, Phases, Listeners, Inputs, ProgramNames
<1>4. /\ wire \in Seq(Packets) /\ model \in Model
  BY DEF ModelInv, Typed
<1>5. wire = << >> /\ ~model.initialized /\ model.exists /\ Asking'
  OBVIOUS
<1>6. CASE wire' = wire \o (<<"Welcome">> \o snapshot)
  <2> DEFINE hello == <<"Welcome">>
  <2>2. /\ hello \in Seq(Packets) /\ Len(hello) = 1 /\ hello[1] = "Welcome"
        /\ snapshot \in Seq(Packets) /\ Len(snapshot) = 2
        /\ snapshot[1] = "SnapshotBegin" /\ snapshot[2] = "SnapshotEnd"
    BY DEF snapshot, Packets
  <2> DEFINE three == hello \o snapshot
  <2>3. wire' = three
    <3>1. three \in Seq(Packets) /\ wire' = << >> \o three
      BY <1>5, <1>6, <2>2, ConcatProperties
    <3> HIDE DEF three
    <3> QED  BY <3>1, ConcatEmptySeq
  <2>4. Welcoming' /\ wire' \in Seq(Packets)
    <3> HIDE DEF hello
    <3>1. /\ three \in Seq(Packets) /\ Len(three) = 1 + 2
          /\ \A i \in 1..3 : three[i] = IF i <= 1 THEN hello[i] ELSE snapshot[i - 1]
      BY <2>2, ConcatProperties
    <3> HIDE DEF three
    <3>2. Len(three) = 3 /\ three[1] = "Welcome" /\ three[2] = "SnapshotBegin"
          /\ three[3] = "SnapshotEnd"
      BY <2>2, <3>1
    <3> QED  BY <2>3, <3>1, <3>2 DEF Welcoming
  <2>5. Typed'
    BY <1>1, <2>4 DEF ModelInv, Typed
  <2>6. Pointers'
    BY <1>1 DEF ModelInv, Pointers
  <2>7. Beginning'
    BY <1>1, <1>2, <1>5, <1>6, <2>4 DEF ModelInv, Beginning
  <2>8. Once' /\ Together'
    BY <1>1, <1>5 DEF Once, Together
  <2>9. Carried'
    BY <1>1, <1>2 DEF ModelInv, Carried
  <2> QED  BY <1>3, <1>5, <2>5, <2>6, <2>7, <2>8, <2>9 DEF FrameInv, ModelInv
<1>7. CASE wire' = wire \o <<"ServerDisconnect">>
  <2> DEFINE one == <<"ServerDisconnect">>
  <2>1. one \in Seq(Packets) /\ Len(one) = 1 /\ one[1] = "ServerDisconnect"
    BY DEF Packets
  <2>2. wire' = one
    <3> HIDE DEF one
    <3>1. wire' = << >> \o one
      BY <1>5, <1>7 DEF one
    <3> QED  BY <2>1, <3>1, ConcatEmptySeq
  <2>3. Refusing' /\ wire' \in Seq(Packets)
    <3> HIDE DEF one
    <3> QED  BY <2>1, <2>2 DEF Refusing
  <2>4. Typed'
    BY <1>1, <2>3 DEF ModelInv, Typed
  <2>5. Pointers'
    BY <1>1 DEF ModelInv, Pointers
  <2>6. Beginning'
    BY <1>1, <1>2, <1>5, <2>3 DEF ModelInv, Beginning
  <2>7. Once' /\ Together'
    BY <1>1, <1>5 DEF Once, Together
  <2>8. Carried'
    BY <1>1, <1>2 DEF ModelInv, Carried
  <2> QED  BY <1>3, <1>5, <2>4, <2>5, <2>6, <2>7, <2>8 DEF FrameInv, ModelInv
<1>8. wire \o <<"Welcome">> \o snapshot = wire \o (<<"Welcome">> \o snapshot)
  <2>1. <<"Welcome">> \in Seq(Packets) /\ snapshot \in Seq(Packets)
    BY DEF snapshot, Packets
  <2> QED  BY <1>4, <2>1, ConcatAssociative
<1>9. wire \o (<<"Welcome">> \o snapshot) = wire' \/ wire \o <<"ServerDisconnect">> = wire'
  <2>1. (<<"Welcome">> \o snapshot) \in Seq(Packets)
    BY DEF snapshot, Packets
  <2> QED  BY DEF onHelloPacket, sends
<1> QED  BY <1>6, <1>7, <1>9

\* The server handles a packet.
LEMMA ServerAnswersInv == FrameInv /\ ServerAnswers => FrameInv'
<1> SUFFICES ASSUME EventsInv, ModelInv, ServerAnswers  PROVE FrameInv'
  BY DEF FrameInv
<1>1. Outside /\ asked # << >> /\ asked' = Tail(asked)
  BY DEF ServerAnswers, Outside, esVars, gameVars
<1>2. /\ wire \in Seq(Packets) /\ Asking
      /\ asked' \in Seq(Requests) /\ \A i, j \in Hellos(asked') : i = j
      /\ Hellos(asked') # {} => Hellos(asked) # {} /\ Head(asked) # "Hello"
  BY <1>1, AskedShrinks DEF ModelInv, Typed
<1>3. CASE Head(asked) = "Hello" /\ onHelloPacket
  <2>1. Hellos(asked) # {}
    <3>1. asked \in Seq(Requests)
      BY <1>2 DEF Asking
    <3>2. Head(asked) = asked[1] /\ Len(asked) \in Nat /\ Len(asked) >= 1
      BY <1>1, <3>1, EmptySeq, LenProperties
    <3> QED  BY <1>3, <3>2 DEF Hellos
  <2>2. wire = << >> /\ ~model.initialized /\ model.exists
    BY <1>2, <2>1 DEF Asking
  <2>3. Asking'
    BY <1>2, <1>3 DEF Asking
  <2> QED  BY <1>1, <1>3, <2>2, <2>3, HelloAnswered
<1>4. CASE wire' = wire \o << >>
  <2>1. wire' = wire
    BY <1>2, <1>4, ConcatEmptySeq
  <2>2. /\ UNCHANGED <<queue, nextQueue, handlers, alive, cursor, published, phase, inputs, together>>
        /\ UNCHANGED <<model, deleted, scene, closed, outcome>>
    BY <1>1 DEF Outside
  <2>3. Asking'
    BY <1>2, <2>1, <2>2 DEF Asking
  <2>4. /\ Fits(GameEvents)' /\ Undone' = Undone /\ CarriedStates' = CarriedStates
        /\ \A t : ToHandle(t)' = ToHandle(t)
    BY <2>2, EventsStay DEF EventsInv, Fits
  <2>5. EventsInv'
    BY <2>2, <2>4 DEF EventsInv, Phases, Listeners, Inputs, ProgramNames
  <2>6. Typed' /\ Pointers'
    BY <2>1, <2>2 DEF ModelInv, Typed, Pointers
  <2>7. Beginning' /\ Once' /\ Carried'
    BY <2>1, <2>2, <2>4 DEF ModelInv, Beginning, Welcoming, Refusing, Once, Carried
  <2>8. Together'
    BY <2>1, <2>2 DEF ModelInv, Together, Arriving, Arrived, NotifiesFrom
  <2> QED  BY <2>3, <2>5, <2>6, <2>7, <2>8 DEF FrameInv, ModelInv
<1>5. CASE model.initialized /\ ~together /\ wire' = wire \o snapshot
  <2>1. snapshot \in Seq(Packets) /\ \A i \in 1..Len(snapshot) : snapshot[i] # "Welcome"
    BY DEF snapshot, Packets
  <2>2. Asking'
    BY <1>2, <1>5 DEF Asking
  <2> QED  BY <1>1, <1>5, <2>1, <2>2, ServerSendsMore
<1> QED  BY <1>3, <1>4, <1>5 DEF ServerAnswers, onLobbyRequestPacket, sends

\* The server tells of the others.
LEMMA ServerNotifiesInv == FrameInv /\ ServerNotifies => FrameInv'
<1> SUFFICES ASSUME EventsInv, ModelInv, ServerNotifies  PROVE FrameInv'
  BY DEF FrameInv
<1>1. Outside /\ asked' = asked /\ model.initialized /\ wire' = wire \o <<"Notify">>
  BY DEF ServerNotifies, Outside, esVars, gameVars, sends
<1>2. <<"Notify">> \in Seq(Packets) /\ \A i \in 1..Len(<<"Notify">>) : <<"Notify">>[i] = "Notify"
  BY DEF Packets
<1>3. Asking'
  BY <1>1 DEF ModelInv, Asking, Outside
<1> QED  BY <1>1, <1>2, <1>3, ServerSendsMore

-----------------------------------------------------------------------------
(* The packets *)

\* An input publishes at most one event, which waits for dispatch.
LEMMA InputCounted ==
  ASSUME EventsInv, NEW n \in 0..1, Grown(n), phase \in {"receive", "events"},
         UNCHANGED <<queue, handlers, alive, cursor, phase>>, inputs' = inputs + 1,
         model'.exists <=> model.exists
  PROVE  /\ EventsInv'
         /\ \A t : ToHandle(t) \in Nat /\ ToHandle(t)' \in Nat /\ ToHandle(t)' <= ToHandle(t) + n
         /\ \A t : (\A e \in NewEvents : e.type # t) => ToHandle(t)' = ToHandle(t)
         /\ CarriedStates'
              \subseteq CarriedStates \cup {e.state : e \in {x \in NewEvents : x.type \in StateTypes}}
<1>1. /\ Fits(GameEvents) /\ Events(GameEvents) /\ n \in Nat
  BY GameEventsAreEvents DEF EventsInv
<1>2. /\ Fits(GameEvents)'
      /\ Undone' = Undone + n /\ Undone \in Int
      /\ \A t : (\A e \in NewEvents : e.type # t) => ToHandle(t)' = ToHandle(t)
      /\ n = 1 => \A t : ToHandle(t)' <= ToHandle(t) + 1
      /\ CarriedStates'
           \subseteq CarriedStates \cup {e.state : e \in {x \in NewEvents : x.type \in StateTypes}}
  BY <1>1, PublishedKeeps
<1>3. \A t : ToHandle(t) \in Nat
  BY <1>1, ToHandleIsNat
<1>4. \A t : ToHandle(t)' \in Nat
  BY <1>2, ToHandleIsNatAfter
<1>5. n = 0 => NewEvents = {}
  <2>1. n = 0 => Len(nextQueue') = Len(nextQueue) /\ Len(nextQueue) \in Nat
    BY <1>1, FitsReads DEF Grown
  <2> QED  BY <2>1 DEF NewEvents
<1>6. \A t : ToHandle(t)' <= ToHandle(t) + n
  <2> TAKE t
  <2>1. CASE n = 0
    BY <1>2, <1>3, <1>5, <2>1
  <2>2. CASE n = 1
    BY <1>2, <2>2
  <2> QED  BY <2>1, <2>2
<1>7. Inputs'
  <2>1. cursor.processed \in Int /\ cursor'.processed = cursor.processed
    BY <1>1, FitsReads
  <2>2. /\ inputs \in Nat
        /\ cursor.processed + Undone + 3 * ToHandle("LobbyRequest") <= 4 * inputs
    BY DEF EventsInv, Inputs
  <2>3. /\ ToHandle("LobbyRequest") \in Nat /\ ToHandle("LobbyRequest")' \in Nat
        /\ ToHandle("LobbyRequest")' <= ToHandle("LobbyRequest") + n
    BY <1>3, <1>4, <1>6
  <2> DEFINE a == cursor.processed
             b == Undone
             c == ToHandle("LobbyRequest")
             d == ToHandle("LobbyRequest")'
  <2>4. inputs' = inputs + 1
    OBVIOUS
  <2>5. a \in Int /\ b \in Int /\ c \in Nat /\ d \in Nat /\ d <= c + n /\ inputs \in Nat
        /\ a + b + 3 * c <= 4 * inputs
    BY <1>2, <2>1, <2>2, <2>3
  <2> HIDE DEF a, b, c, d
  <2>6. a + (b + n) + 3 * d <= 4 * (inputs + 1) /\ inputs + 1 \in Nat
    BY <2>5
  <2> QED  BY <1>2, <2>1, <2>4, <2>6 DEF Inputs, a, b, d
<1>8. Phases' /\ Listeners' /\ ProgramNames'
  BY DEF EventsInv, Phases, Listeners, ProgramNames
<1> QED  BY <1>2, <1>3, <1>4, <1>6, <1>7, <1>8 DEF EventsInv

\* A packet is taken from the wire.
Receives ==
  /\ phase = "receive" /\ model.exists
  /\ Len(wire) \in Nat /\ Len(wire) >= 1
  /\ wire' \in Seq(Packets) /\ Len(wire') = Len(wire) - 1
  /\ \A i \in 1..Len(wire') : wire'[i] = wire[i + 1]
  /\ inputs' = inputs + 1
  /\ UNCHANGED <<queue, handlers, alive, cursor, phase, scene, closed, outcome, together>>

\* The first one, and the others move up.
LEMMA ReceivesIs == ModelInv /\ processReceivingPackets => Receives /\ handlePacket(wire[1])
<1> SUFFICES ASSUME ModelInv, processReceivingPackets  PROVE Receives /\ handlePacket(wire[1])
  OBVIOUS
<1>1. /\ phase = "receive" /\ model.exists /\ wire # << >>
      /\ handlePacket(Head(wire)) /\ wire' = Tail(wire) /\ inputs' = inputs + 1
      /\ UNCHANGED <<queue, handlers, alive, cursor, phase, scene, closed, outcome, together>>
  BY DEF processReceivingPackets, In
<1>2. wire \in Seq(Packets)
  BY DEF ModelInv, Typed
<1>3. Len(wire) \in Nat /\ Len(wire) >= 1
  BY <1>1, <1>2, EmptySeq, LenProperties
<1>4. Head(wire) = wire[1] /\ Tail(wire) \in Seq(Packets) /\ Len(Tail(wire)) = Len(wire) - 1
      /\ \A i \in 1..Len(Tail(wire)) : Tail(wire)[i] = wire[i + 1]
  BY <1>1, <1>2, HeadTailProperties
<1> QED  BY <1>1, <1>3, <1>4 DEF Receives

\* While the answer to the hello is on its way, and later, no hello is asked.
LEMMA ReceivesAsking ==
  ASSUME ModelInv, Receives, asked' = asked \/ AskedStays
  PROVE  Asking'
<1>1. wire # << >>
  BY EmptySeq DEF Receives
<1> QED  BY <1>1 DEF ModelInv, Asking, AskedStays

\* The lobby states that events carry have a number, the one of no state is none.
LEMMA CarriedStatesArePositive ==
  ASSUME Fits(GameEvents), Events(GameEvents)
  PROVE  CarriedStates \subseteq Nat \ {0}
<1>1. /\ queue \in Seq(GameEvents) /\ nextQueue \in Seq(GameEvents) /\ cursor.item \in Nat \ {0}
  BY FitsReads DEF Fits
<1>2. ASSUME NEW q \in Seq(GameEvents), NEW m \in Nat \ {0}
      PROVE  StatesOf(q, m) \subseteq Nat \ {0}
  <2>1. Len(q) \in Nat
    BY LenProperties
  <2>2. ASSUME NEW i \in m..Len(q), q[i].type \in StateTypes
        PROVE  q[i].state \in Nat \ {0}
    <3>1. i \in 1..Len(q)
      BY <2>1
    <3>2. q[i] \in GameEvents
      BY <3>1, ElementOfSeq
    <3> QED  BY <2>2, <3>2 DEF GameEvents
  <2> QED  BY <2>2 DEF StatesOf
<1> QED  BY <1>1, <1>2 DEF CarriedStates

\* What is left of the wire has no welcome, and the notifications move up.
LEMMA WireShortens ==
  ASSUME Receives
  PROVE  /\ (\A i \in 1..Len(wire) : wire[i] # "Welcome") => \A i \in 1..Len(wire') : wire'[i] # "Welcome"
         /\ \A n \in 2..3 : NotifiesFrom(n) => \A i \in (n - 1)..Len(wire') : wire'[i] = "Notify"
         /\ NotifiesFrom(1) => \A i \in 1..Len(wire') : wire'[i] = "Notify"
BY DEF Receives, NotifiesFrom

\* The welcome: the first lobby state, and the event that says so.
LEMMA WelcomePacketInv ==
  ASSUME EventsInv, ModelInv, Receives, ~model.initialized, wire[1] = "Welcome", onWelcomePacket
  PROVE  FrameInv'
<1>1. /\ Fits(GameEvents) /\ Events(GameEvents) /\ published + 1 \in Nat
  BY GameEventsAreEvents DEF EventsInv, Fits
<1>2. /\ model.made = 0 /\ model.temp = 0 /\ model.toDelete = {} /\ deleted = {}
      /\ scene.current = "menu" /\ ToHandle("Welcome") = 0
      /\ Welcoming /\ model.state = 0
      /\ model \in Model /\ model.exists
  <2>1. wire # << >>
    BY EmptySeq DEF Receives
  <2>2. /\ model.made = 0 /\ model.temp = 0 /\ model \in Model /\ model.exists
        /\ scene.current = "menu" /\ ToHandle("Welcome") = 0
        /\ Welcoming
    BY <2>1 DEF ModelInv, Beginning, Typed, Receives, Refusing
  <2>3. model.state = 0 /\ model.toDelete \cup deleted \subseteq 1..0
    BY <2>2 DEF ModelInv, Pointers, Model
  <2> QED  BY <2>2, <2>3
<1>3. /\ publish(<< [type |-> "Welcome", state |-> 1] >>) /\ deleted' = {} /\ asked' = asked
      /\ model' = [model EXCEPT !.initialized = TRUE, !.state = 1, !.made = 1]
  BY <1>2 DEF onWelcomePacket, newState, noState
<1>4. ModelAt(model', model.syncState, 1, 0, {}, 1)
  BY <1>2, <1>3, ModelSteps
<1>5. Grown(1) /\ \A e \in NewEvents : e.type = "Welcome" /\ e.state = 1
  <2>1. "Welcome" \in StateTypes
    BY DEF StateTypes
  <2> QED  BY <1>1, <1>3, <2>1, NumberedEvents, OneGrows
<1>6. /\ EventsInv' /\ ToHandle("Welcome")' \in Nat /\ ToHandle("Welcome")' <= 1
      /\ CarriedStates'
           \subseteq CarriedStates \cup {e.state : e \in {x \in NewEvents : x.type \in StateTypes}}
  <2>1. model'.exists /\ model.exists
    BY <1>2, <1>4 DEF ModelAt
  <2> QED  BY <1>2, <1>5, <2>1, InputCounted DEF Receives
<1>7. CarriedStates' \subseteq {1}
  <2>1. CarriedStates = {}
    BY <1>1, <1>2, CarriedStatesArePositive DEF ModelInv, Carried
  <2> QED  BY <1>5, <1>6, <2>1
<1>8. /\ Len(wire') = 2 /\ wire'[1] = "SnapshotBegin" /\ wire'[2] = "SnapshotEnd"
  BY <1>2 DEF Receives, Welcoming
<1>9. scene' = scene /\ phase' = "receive" /\ scene \in Scene
      /\ scene.current # "lobby"
  BY <1>2 DEF Receives, ModelInv, Typed
<1>10. Typed'
  BY <1>4 DEF ModelInv, Typed, Receives, ModelAt
<1>11. Pointers'
  BY <1>3, <1>4, <1>9 DEF Pointers, ModelAt, noState
<1>12. Beginning'
  BY <1>4 DEF Beginning, ModelAt, noState
<1>13. Once'
  BY <1>2, <1>3, <1>6, <1>8, <1>9 DEF Once
<1>14. Carried'
  BY <1>4, <1>7 DEF Carried, ModelAt
<1>15. Together'
  <2>1. NotifiesFrom(3)'
    BY <1>8 DEF NotifiesFrom
  <2>2. Arriving'
    BY <1>2, <1>4, <1>8, <1>9, <2>1 DEF Arriving, ModelAt
  <2> QED  BY <2>2 DEF Together
<1>16. Asking'
  BY <1>3, ReceivesAsking
<1> QED  BY <1>6, <1>10, <1>11, <1>12, <1>13, <1>14, <1>15, <1>16 DEF FrameInv, ModelInv

\* The refusal: an event that says so, and nothing else.
LEMMA RefusalPacketInv ==
  ASSUME EventsInv, ModelInv, Receives, ~model.initialized, wire[1] = "ServerDisconnect",
         onServerDisconnectPacket
  PROVE  FrameInv'
<1>1. /\ Fits(GameEvents) /\ published + 1 \in Nat
      /\ publish(<< [type |-> "ServerDisconnect"] >>) /\ UNCHANGED <<model, deleted, asked, scene>>
  BY DEF EventsInv, Fits, onServerDisconnectPacket, Receives
<1>2. wire' = << >>
  <2>1. wire # << >>
    BY EmptySeq DEF Receives
  <2>2. Refusing
    BY <2>1 DEF ModelInv, Beginning, Welcoming
  <2>3. wire' \in Seq(Packets) /\ Len(wire') = 0
    BY <2>2 DEF Receives, Refusing
  <2> QED  BY <2>3, EmptySeq
<1>3. Grown(1) /\ \A e \in NewEvents : e.type = "ServerDisconnect"
  <2>1. "ServerDisconnect" \in Types \ StateTypes
    BY DEF Types, StateTypes
  <2> QED  BY <1>1, <2>1, NumberedEvents, OneGrows
<1>4. /\ EventsInv' /\ ToHandle("Welcome")' = ToHandle("Welcome")
      /\ CarriedStates' \subseteq CarriedStates
  <2>1. \A e \in NewEvents : e.type # "Welcome" /\ e.type \notin StateTypes
    BY <1>3 DEF StateTypes
  <2>2. {e.state : e \in {x \in NewEvents : x.type \in StateTypes}} = {}
    BY <2>1
  <2> QED  BY <1>1, <1>3, <2>1, <2>2, InputCounted DEF Receives
<1>5. Typed'
  BY <1>1, <1>2 DEF ModelInv, Typed, Receives
<1>6. Pointers'
  BY <1>1 DEF ModelInv, Pointers
<1>7. Beginning'
  BY <1>1, <1>2, <1>4 DEF ModelInv, Beginning
<1>8. Once' /\ Together'
  BY <1>1 DEF Once, Together
<1>9. Carried'
  BY <1>1, <1>4 DEF ModelInv, Carried
<1>10. Asking'
  BY <1>1, ReceivesAsking
<1> QED  BY <1>4, <1>5, <1>6, <1>7, <1>8, <1>9, <1>10 DEF FrameInv, ModelInv

\* A snapshot begins: a lobby state that nobody sees yet, for one that was abandoned.
LEMMA SnapshotBeginInv ==
  ASSUME EventsInv, ModelInv, Receives, model.initialized, wire[1] = "SnapshotBegin",
         onSnapshotBeginPacket
  PROVE  FrameInv'
<1>1. Fits(GameEvents) /\ model \in Model /\ newState \in Nat /\ newState = model.made + 1
      /\ model.made \in Nat /\ model.state \in Nat /\ model.temp \in Nat /\ model.exists
  BY DEF EventsInv, ModelInv, Typed, Model, newState, Beginning
<1>2. /\ nothingPublished /\ asked' = asked /\ deleted' = deleted \cup ({model.temp} \ {noState})
      /\ ModelAt(model', "Syncing", model.state, newState, model.toDelete, newState)
  BY <1>1, ModelSteps DEF onSnapshotBeginPacket
<1>3. Grown(0) /\ NewEvents = {}
  BY <1>1, <1>2, NothingGrows
<1>4. /\ EventsInv' /\ ToHandle("Welcome")' = ToHandle("Welcome") /\ CarriedStates' \subseteq CarriedStates
  <2>1. model'.exists /\ model.exists
    BY <1>1, <1>2 DEF ModelAt
  <2> QED  BY <1>3, <2>1, InputCounted DEF Receives
<1>5. scene' = scene /\ phase' = phase
  BY DEF Receives
<1>6. Typed'
  BY <1>2 DEF ModelInv, Typed, Receives, ModelAt
<1>7. Pointers'
  BY <1>1, <1>2, <1>5 DEF ModelInv, Pointers, ModelAt, noState
<1>8. Beginning'
  BY <1>2 DEF ModelInv, Beginning, ModelAt
<1>9. Once'
  <2>1. \A i \in 1..Len(wire') : wire'[i] # "Welcome"
    BY WireShortens DEF ModelInv, Once
  <2> QED  BY <1>2, <1>4, <1>5, <2>1 DEF ModelInv, Once
<1>10. Carried'
  BY <1>2, <1>4 DEF ModelInv, Carried, ModelAt
<1>11. Together'
  <2> SUFFICES ASSUME together  PROVE Arriving'
    BY DEF Together, Receives
  <2>1. /\ phase = "receive" /\ scene.current = "menu" /\ model.state = 1
        /\ Len(wire) >= 2 /\ wire[2] = "SnapshotEnd" /\ NotifiesFrom(3)
        /\ model.temp = 0 /\ model.made = 1
    BY DEF ModelInv, Together, Arriving, Arrived, NotifiesFrom, Receives
  <2>2. Len(wire') >= 1 /\ wire'[1] = "SnapshotEnd"
    BY <2>1 DEF Receives
  <2>3. NotifiesFrom(2)'
    BY <2>1, WireShortens DEF NotifiesFrom
  <2> QED  BY <1>1, <1>2, <1>5, <2>1, <2>2, <2>3 DEF Arriving, ModelAt
<1>12. Asking'
  BY <1>2, ReceivesAsking
<1> QED  BY <1>4, <1>6, <1>7, <1>8, <1>9, <1>10, <1>11, <1>12 DEF FrameInv, ModelInv

(***************************************************************************)
(* A snapshot ends: the lobby state it made takes the place of the old     *)
(* one, which lives on until the frame cleans up, and the event says so.   *)
(***************************************************************************)
LEMMA SnapshotEndInv ==
  ASSUME EventsInv, ModelInv, Receives, model.initialized, model.syncState = "Syncing",
         wire[1] = "SnapshotEnd", onSnapshotEndPacket
  PROVE  FrameInv'
<1>1. /\ Fits(GameEvents) /\ Events(GameEvents) /\ published + 1 \in Nat
      /\ model \in Model /\ model.exists /\ model.state \in Nat \ {0} /\ model.temp \in Nat
      /\ model.made \in Nat /\ model.toDelete \subseteq Nat
  BY GameEventsAreEvents DEF EventsInv, Fits, ModelInv, Typed, Model, Beginning, noState
<1>2. deleted' = deleted /\ asked' = asked /\ scene' = scene /\ phase' = phase
  BY DEF onSnapshotEndPacket, Receives
<1>3. Asking' /\ \A i \in 1..Len(wire') : wire'[i] # "Welcome"
  BY <1>2, WireShortens, ReceivesAsking DEF ModelInv, Once
<1>4. CASE model.temp = noState
  <2>1. nothingPublished /\ ModelAt(model', "Synced", model.state, model.temp, model.toDelete, model.made)
    BY <1>1, <1>4, ModelSteps DEF onSnapshotEndPacket
  <2>2. Grown(0) /\ NewEvents = {}
    BY <1>1, <2>1, NothingGrows
  <2>3. /\ EventsInv' /\ ToHandle("Welcome")' = ToHandle("Welcome")
        /\ CarriedStates' \subseteq CarriedStates
    <3>1. model'.exists /\ model.exists
      BY <1>1, <2>1 DEF ModelAt
    <3> QED  BY <2>2, <3>1, InputCounted DEF Receives
  <2>4. Typed'
    BY <2>1 DEF ModelInv, Typed, Receives, ModelAt
  <2>5. Pointers'
    BY <1>2, <2>1 DEF ModelInv, Pointers, ModelAt
  <2>6. Beginning'
    BY <2>1 DEF ModelInv, Beginning, ModelAt
  <2>7. Once'
    BY <1>2, <1>3, <2>1, <2>3 DEF ModelInv, Once
  <2>8. Carried'
    BY <2>1, <2>3 DEF ModelInv, Carried, ModelAt
  <2>9. Together'
    <3> SUFFICES ASSUME together  PROVE FALSE
      BY DEF Together, Receives
    <3> QED  BY <1>4 DEF ModelInv, Together, Arriving, Arrived, NotifiesFrom, Receives, noState
  <2> QED  BY <1>3, <2>3, <2>4, <2>5, <2>6, <2>7, <2>8, <2>9 DEF FrameInv, ModelInv
<1>5. CASE model.temp # noState
  <2>1. /\ publish(<< [type |-> "SnapshotApplied", state |-> model.temp] >>)
        /\ ModelAt(model', "Synced", model.temp, noState, model.toDelete \cup {model.state}, model.made)
        /\ model.temp \in Nat \ {0}
    BY <1>1, <1>5, ModelSteps DEF onSnapshotEndPacket, noState
  <2>2. Grown(1) /\ \A e \in NewEvents : e.type = "SnapshotApplied" /\ e.state = model.temp
    <3>1. "SnapshotApplied" \in StateTypes
      BY DEF StateTypes
    <3> QED  BY <1>1, <2>1, <3>1, NumberedEvents, OneGrows
  <2>3. /\ EventsInv' /\ ToHandle("Welcome")' = ToHandle("Welcome")
        /\ CarriedStates'
             \subseteq CarriedStates \cup {e.state : e \in {x \in NewEvents : x.type \in StateTypes}}
    <3>1. model'.exists /\ model.exists
      BY <1>1, <2>1 DEF ModelAt
    <3>2. \A e \in NewEvents : e.type # "Welcome"
      BY <2>2
    <3> QED  BY <2>2, <3>1, <3>2, InputCounted DEF Receives
  <2>4. Typed'
    BY <2>1 DEF ModelInv, Typed, Receives, ModelAt
  <2>5. Pointers'
    BY <1>1, <1>2, <1>5, <2>1 DEF ModelInv, Pointers, ModelAt, noState
  <2>6. Beginning'
    BY <2>1 DEF ModelInv, Beginning, ModelAt, noState
  <2>7. Once'
    BY <1>2, <1>3, <2>1, <2>3 DEF ModelInv, Once
  <2>8. Carried'
    <3>1. CarriedStates' \subseteq CarriedStates \cup {model.temp}
      BY <2>2, <2>3
    <3> QED  BY <2>1, <3>1 DEF ModelInv, Carried, ModelAt
  <2>9. Together'
    <3> SUFFICES ASSUME together  PROVE Arrived'
      BY DEF Together, Receives
    <3>1. /\ scene.current = "menu" /\ model.state = 1 /\ model.temp = 2 /\ model.made = 2
          /\ NotifiesFrom(2)
      BY DEF ModelInv, Together, Arriving, Arrived, NotifiesFrom, Receives
    <3>2. model.toDelete \cup deleted \subseteq {1, 2} /\ 1 \notin model.toDelete \cup deleted
          /\ 2 \notin model.toDelete \cup deleted
      <4>1. 1..2 = {1, 2}
        OBVIOUS
      <4> QED  BY <3>1, <4>1 DEF ModelInv, Pointers, noState
    <3>3. NotifiesFrom(1)'
      BY <3>1, WireShortens DEF NotifiesFrom
    <3>4. scene'.current # "lobby"
      BY <1>2, <3>1
    <3> QED  BY <1>2, <2>1, <3>1, <3>2, <3>3, <3>4 DEF Arrived, ModelAt, noState
  <2> QED  BY <1>3, <2>3, <2>4, <2>5, <2>6, <2>7, <2>8, <2>9 DEF FrameInv, ModelInv
<1> QED  BY <1>4, <1>5

\* A packet that leaves the lobby states alone: a notification, one that is ignored, or
\* a refusal, which would have its handler here too.
LEMMA OtherPacketInv ==
  ASSUME EventsInv, ModelInv, Receives, model.initialized, deleted' = deleted,
         asked' = asked \/ AskedStays,
         NEW y, ModelAt(model', y, model.state, model.temp, model.toDelete, model.made),
         NEW n \in 0..1, Grown(n),
         \A e \in NewEvents : e.type \in {"LobbyChanged", "ServerDisconnect"},
         together => wire[1] # "SnapshotBegin" /\ ~(wire[1] = "SnapshotEnd" /\ model.syncState = "Syncing")
  PROVE  FrameInv'
<1>1. /\ EventsInv' /\ ToHandle("Welcome")' = ToHandle("Welcome")
      /\ CarriedStates' \subseteq CarriedStates
  <2>1. model'.exists /\ model.exists
    BY DEF Receives, ModelAt
  <2>2. \A e \in NewEvents : e.type # "Welcome" /\ e.type \notin StateTypes
    BY DEF StateTypes
  <2>3. {e.state : e \in {x \in NewEvents : x.type \in StateTypes}} = {}
    BY <2>2
  <2> QED  BY <2>1, <2>2, <2>3, InputCounted DEF Receives
<1>2. scene' = scene /\ phase' = phase
  BY DEF Receives
<1>3. Typed'
  BY DEF ModelInv, Typed, Receives, ModelAt
<1>4. Pointers'
  BY <1>2 DEF ModelInv, Pointers, ModelAt
<1>5. Beginning'
  BY DEF ModelInv, Beginning, ModelAt
<1>6. Once'
  <2>1. \A i \in 1..Len(wire') : wire'[i] # "Welcome"
    BY WireShortens DEF ModelInv, Once
  <2> QED  BY <1>1, <1>2, <2>1 DEF ModelInv, Once
<1>7. Carried'
  BY <1>1 DEF ModelInv, Carried, ModelAt
<1>8. Together'
  <2> SUFFICES ASSUME together  PROVE Arrived'
    BY DEF Together, Receives
  <2>1. Arrived
    BY DEF ModelInv, Together, Arriving
  <2>2. NotifiesFrom(1)'
    BY <2>1, WireShortens DEF Arrived, NotifiesFrom
  <2> QED  BY <1>2, <2>1, <2>2 DEF Arrived, ModelAt
<1>9. Asking'
  BY ReceivesAsking
<1> QED  BY <1>1, <1>3, <1>4, <1>5, <1>6, <1>7, <1>8, <1>9 DEF FrameInv, ModelInv

\* Whatever packet it is.
LEMMA ReceivePacketInv == FrameInv /\ processReceivingPackets => FrameInv'
<1> SUFFICES ASSUME EventsInv, ModelInv, processReceivingPackets  PROVE FrameInv'
  BY DEF FrameInv
<1>1. Receives /\ handlePacket(wire[1])
  BY ReceivesIs
<1>2. CASE ~model.initialized
  <2>1. wire[1] \in {"Welcome", "ServerDisconnect"}
    BY <1>1, <1>2, EmptySeq DEF Receives, ModelInv, Beginning, Welcoming, Refusing
  <2>2. CASE wire[1] = "Welcome"
    <3>1. onWelcomePacket
      BY <1>1, <1>2, <2>2 DEF handlePacket
    <3> QED  BY <1>1, <1>2, <2>2, <3>1, WelcomePacketInv
  <2>3. CASE wire[1] = "ServerDisconnect"
    <3>1. onServerDisconnectPacket
      BY <1>1, <1>2, <2>3 DEF handlePacket
    <3> QED  BY <1>1, <1>2, <2>3, <3>1, RefusalPacketInv
  <2> QED  BY <2>1, <2>2, <2>3
<1>3. CASE model.initialized
  <2>1. wire[1] # "Welcome" /\ model \in Model /\ model.exists
    BY <1>1, <1>3 DEF Receives, ModelInv, Once, Typed
  <2>2. CASE wire[1] = "SnapshotBegin"
    <3>1. onSnapshotBeginPacket
      BY <1>1, <1>3, <2>2 DEF handlePacket
    <3> QED  BY <1>1, <1>3, <2>2, <3>1, SnapshotBeginInv
  <2>3. CASE wire[1] = "SnapshotEnd" /\ model.syncState = "Syncing"
    <3>1. onSnapshotEndPacket
      BY <1>1, <1>3, <2>3 DEF handlePacket
    <3> QED  BY <1>1, <1>3, <2>3, <3>1, SnapshotEndInv
  <2>4. ASSUME onNotification, wire[1] = "Notify"
        PROVE  FrameInv'
    <3>1. PICK applied \in BOOLEAN, refused \in BOOLEAN :
            /\ publish(IF applied THEN << [type |-> "LobbyChanged"] >> ELSE << >>)
            /\ IF refused
               THEN /\ model' = [model EXCEPT !.syncState = "Syncing"]
                    /\ asked' = Append(asked, "UpdateRequest")
               ELSE UNCHANGED <<model, asked>>
      BY <2>4 DEF onNotification
    <3>2. deleted' = deleted
      BY <2>4 DEF onNotification
    <3>3. \E y : ModelAt(model', y, model.state, model.temp, model.toDelete, model.made)
      <4>1. CASE refused
        BY <1>3, <2>1, <3>1, <4>1, ModelSteps DEF noState, Model
      <4>2. CASE ~refused
        BY <1>3, <2>1, <3>1, <4>2 DEF ModelAt
      <4> QED  BY <4>1, <4>2
    <3>4. asked' = asked \/ AskedStays
      <4> DEFINE one == <<"UpdateRequest">>
      <4>1. one \in Seq(Requests) /\ Hellos(one) = {} /\ asked \in Seq(Requests)
        BY DEF Requests, Hellos, ModelInv, Asking
      <4>2. asked' = asked \/ asked' = asked \o one
        BY <3>1, <4>1, AppendIsConcat DEF Requests
      <4> HIDE DEF one
      <4> QED  BY <4>1, <4>2, AskedGrows
    <3>5. \E n \in 0..1 : Grown(n) /\ \A e \in NewEvents : e.type = "LobbyChanged"
      <4>1. Fits(GameEvents) /\ published + 1 \in Nat
        BY DEF EventsInv, Fits
      <4>2. CASE applied
        <5>1. publish(<< [type |-> "LobbyChanged"] >>)
          BY <3>1, <4>2
        <5>2. "LobbyChanged" \in Types \ StateTypes
          BY DEF Types, StateTypes
        <5>3. Grown(1) /\ \A e \in NewEvents : e.type = "LobbyChanged"
          BY <4>1, <5>1, <5>2, NumberedEvents, OneGrows
        <5> QED  BY <5>3
      <4>3. CASE ~applied
        <5>1. publish(<< >>)
          BY <3>1, <4>3
        <5>2. Grown(0) /\ NewEvents = {}
          BY <4>1, <5>1, NothingGrows
        <5> QED  BY <5>2
      <4> QED  BY <4>2, <4>3
    <3> QED  BY <1>1, <1>3, <2>4, <3>2, <3>3, <3>4, <3>5, OtherPacketInv
  <2>5. ASSUME ignored, wire[1] # "SnapshotBegin",
               ~(wire[1] = "SnapshotEnd" /\ model.syncState = "Syncing")
        PROVE  FrameInv'
    <3>1. UNCHANGED <<model, deleted, asked>> /\ nothingPublished /\ Fits(GameEvents)
      BY <2>5 DEF ignored, EventsInv
    <3>2. ModelAt(model', model.syncState, model.state, model.temp, model.toDelete, model.made)
      BY <1>3, <2>1, <3>1 DEF ModelAt
    <3>3. Grown(0) /\ NewEvents = {}
      BY <3>1, NothingGrows
    <3> QED  BY <1>1, <1>3, <2>5, <3>1, <3>2, <3>3, OtherPacketInv
  <2>8. CASE wire[1] = "ServerDisconnect"
    <3>1. /\ publish(<< [type |-> "ServerDisconnect"] >>) /\ UNCHANGED <<model, deleted, asked>>
          /\ Fits(GameEvents) /\ published + 1 \in Nat
      BY <1>1, <1>3, <2>8 DEF handlePacket, onServerDisconnectPacket, EventsInv, Fits
    <3>2. ModelAt(model', model.syncState, model.state, model.temp, model.toDelete, model.made)
      BY <1>3, <2>1, <3>1 DEF ModelAt
    <3>3. Grown(1) /\ \A e \in NewEvents : e.type = "ServerDisconnect"
      <4>1. "ServerDisconnect" \in Types \ StateTypes
        BY DEF Types, StateTypes
      <4> QED  BY <3>1, <4>1, NumberedEvents, OneGrows
    <3> QED  BY <1>1, <1>3, <2>8, <3>1, <3>2, <3>3, OtherPacketInv
  <2>6. CASE wire[1] = "Notify" /\ model.syncState = "Synced"
    <3>1. onNotification
      BY <1>1, <1>3, <2>6 DEF handlePacket
    <3> QED  BY <2>4, <2>6, <3>1
  <2>7. ASSUME wire[1] # "SnapshotBegin", ~(wire[1] = "SnapshotEnd" /\ model.syncState = "Syncing"),
               ~(wire[1] = "Notify" /\ model.syncState = "Synced"), wire[1] # "ServerDisconnect"
        PROVE  FrameInv'
    <3>1. ignored
      BY <1>1, <1>3, <2>1, <2>7 DEF handlePacket
    <3> QED  BY <2>5, <2>7, <3>1
  <2> QED  BY <2>2, <2>3, <2>6, <2>7, <2>8
<1> QED  BY <1>2, <1>3

-----------------------------------------------------------------------------
(* The user, and the frame around dispatch *)

\* The events the menu publishes are requests.
LEMMA MenuEventsAre ==
  ASSUME NEW visible, NEW answered \in SUBSET Dialogs
  PROVE  /\ menuEvents(visible, answered) \subseteq Types \ StateTypes
         /\ topOf(visible) \in Dialogs
BY DEF menuEvents, topOf, Dialogs, asks, answer, Types, StateTypes

\* One event at most, and none that carries a lobby state.
LEMMA HandleEventsInv == FrameInv /\ handleEvents => FrameInv'
<1> SUFFICES ASSUME EventsInv, ModelInv, handleEvents  PROVE FrameInv'
  BY DEF FrameInv
<1>1. /\ phase = "events" /\ inputs' = inputs + 1
      /\ UNCHANGED <<queue, handlers, alive, cursor, phase, model, deleted, scene, wire, asked, together>>
  BY DEF handleEvents, In
<1>2. Fits(GameEvents) /\ published + 1 \in Nat /\ closed \subseteq Dialogs
      /\ outcome \in {"running", "assertNoGame", "assertNoSceneToDelete", "deletedState"}
  BY DEF EventsInv, ModelInv, Fits, Typed
<1>3. ASSUME NEW n \in 0..1, Grown(n), \A e \in NewEvents : e.type \notin StateTypes,
             outcome' \in {outcome, "deletedState"}, closed' \subseteq Dialogs
      PROVE  FrameInv'
  <2>1. /\ EventsInv' /\ ToHandle("Welcome")' = ToHandle("Welcome") /\ ToHandle("Welcome") \in Nat
        /\ CarriedStates' \subseteq CarriedStates
    <3>1. \A e \in NewEvents : e.type # "Welcome"
      BY <1>3 DEF StateTypes
    <3>2. {e.state : e \in {x \in NewEvents : x.type \in StateTypes}} = {}
      BY <1>3
    <3> QED  BY <1>1, <1>3, <3>1, <3>2, InputCounted
  <2>2. ModelInv'
    BY <1>1, <1>2, <1>3, <2>1, ModelStays
  <2> QED  BY <2>1, <2>2 DEF FrameInv
<1>4. ASSUME NEW t \in Types \ StateTypes, publish(<< [type |-> t] >>)
      PROVE  Grown(1) /\ \A e \in NewEvents : e.type \notin StateTypes
  BY <1>2, <1>4, NumberedEvents, OneGrows
<1>5. CASE /\ \E t \in menuEvents(dialogs, closed) : publish(<< [type |-> t] >>)
           /\ UNCHANGED <<outcome, closed>>
  BY <1>2, <1>3, <1>4, <1>5, MenuEventsAre
<1>6. CASE /\ closed' = closed \cup {topOf(dialogs)} /\ nothingPublished /\ outcome' = outcome
  <2>1. Grown(0) /\ NewEvents = {}
    BY <1>2, <1>6, NothingGrows
  <2>2. closed' \subseteq Dialogs
    BY <1>2, <1>6, MenuEventsAre
  <2> QED  BY <1>3, <1>6, <2>1, <2>2
<1>7. CASE /\ \E t \in {"ExitRequest", "LobbyRequest"} : publish(<< [type |-> t] >>)
           /\ outcome' = (IF showsDeleted THEN "deletedState" ELSE outcome)
           /\ closed' = closed
  <2>1. {"ExitRequest", "LobbyRequest"} \subseteq Types \ StateTypes
    BY DEF Types, StateTypes
  <2>2. Grown(1) /\ \A e \in NewEvents : e.type \notin StateTypes
    BY <1>4, <1>7, <2>1
  <2> QED  BY <1>2, <1>3, <1>7, <2>2
<1> QED  BY <1>5, <1>6, <1>7 DEF handleEvents

\* The window closes, or the frame has received what there is.
LEMMA QuietInv == FrameInv /\ (close \/ received) => FrameInv'
<1> SUFFICES ASSUME EventsInv, ModelInv, close \/ received  PROVE FrameInv'
  BY DEF FrameInv
<1>1. /\ UNCHANGED <<queue, nextQueue, handlers, alive, cursor, published>>
      /\ UNCHANGED <<model, deleted, scene, closed, outcome, wire, asked, inputs, together>>
      /\ \/ phase = "events" /\ phase' = phase
         \/ phase = "receive" /\ phase' = "events" /\ ((together /\ model.exists) => wire = << >>)
  BY DEF close, received, In, esVars, gameVars, outsideVars
<1>2. /\ Fits(GameEvents)' /\ Undone' = Undone /\ CarriedStates' = CarriedStates
      /\ \A t : ToHandle(t)' = ToHandle(t)
  BY <1>1, EventsStay DEF EventsInv, Fits
<1>3. EventsInv'
  BY <1>1, <1>2 DEF EventsInv, Phases, Listeners, Inputs, ProgramNames
<1>4. ToHandle("Welcome") \in Nat
  BY GameEventsAreEvents, ToHandleIsNat DEF EventsInv
<1>5. (together /\ model.initialized /\ Arriving) => phase' = phase
  BY <1>1, EmptySeq DEF Arriving, ModelInv, Beginning
<1>6. ModelInv'
  <2>1. closed' \subseteq Dialogs
        /\ outcome' \in {"running", "assertNoGame", "assertNoSceneToDelete", "deletedState"}
    BY <1>1 DEF ModelInv, Typed
  <2> QED  BY <1>1, <1>2, <1>4, <1>5, <2>1, ModelStays
<1> QED  BY <1>3, <1>6 DEF FrameInv

\* Dispatch begins.
LEMMA BeginsDispatchInv == FrameInv /\ beginsDispatch => FrameInv'
<1> SUFFICES ASSUME EventsInv, ModelInv, beginsDispatch  PROVE FrameInv'
  BY DEF FrameInv
<1>1. /\ BeginDispatch /\ cursor.state = "outside" /\ phase = "events" /\ phase' = "dispatch"
      /\ UNCHANGED <<queue, nextQueue, handlers, alive, published>>
      /\ UNCHANGED <<model, deleted, scene, closed, outcome, wire, asked, inputs, together>>
  BY DEF beginsDispatch, In, BeginDispatch, gameVars, outsideVars
<1>2. Fits(GameEvents) /\ Events(GameEvents) /\ cursor = outside
  BY <1>1, GameEventsAreEvents DEF EventsInv, Fits, Fitting
<1>3. /\ Fits(GameEvents)' /\ cursor'.state = "inside" /\ cursor'.item = cursor.item
      /\ cursor'.handler = cursor.handler /\ cursor'.processed = cursor.processed
  <2>1. Fits(GameEvents)' /\ CursorAt(cursor', "inside", 1, 0, 0, 0)
    BY <1>1, <1>2, BeginDispatchFits
  <2> QED  BY <1>2, <2>1 DEF CursorAt, outside
<1>4. firstToHandle' = firstToHandle
  BY <1>3 DEF firstToHandle
<1>5. Undone' = Undone /\ CarriedStates' = CarriedStates /\ \A t : ToHandle(t)' = ToHandle(t)
  BY <1>1, <1>3, <1>4 DEF Undone, CarriedStates, ToHandle
<1>6. EventsInv'
  BY <1>1, <1>3, <1>5 DEF EventsInv, Phases, Listeners, Inputs, ProgramNames
<1>7. ModelInv'
  <2>1. closed' \subseteq Dialogs
        /\ outcome' \in {"running", "assertNoGame", "assertNoSceneToDelete", "deletedState"}
    BY <1>1 DEF ModelInv, Typed
  <2>2. ToHandle("Welcome") \in Nat
    BY <1>2, ToHandleIsNat
  <2> QED  BY <1>1, <1>5, <2>1, <2>2, ModelStays DEF Arriving
<1> QED  BY <1>6, <1>7 DEF FrameInv

\* The loops of dispatch.
LEMMA FrameDispatchInv == FrameInv /\ dispatch => FrameInv'
<1> SUFFICES ASSUME EventsInv, ModelInv, dispatch  PROVE FrameInv'
  BY DEF FrameInv
<1>1. /\ Dispatching /\ phase = "dispatch"
      /\ phase' = IF cursor'.state = "outside" THEN "cleanUp" ELSE phase
      /\ UNCHANGED <<model, deleted, scene, closed, outcome, wire, asked, inputs, together>>
  BY DEF dispatch, In, gameVars, outsideVars
<1>2. Fits(GameEvents) /\ Events(GameEvents)
  BY GameEventsAreEvents DEF EventsInv
<1>3. /\ Fits(GameEvents)'
      /\ \A t : ToHandle(t)' <= ToHandle(t)
      /\ cursor'.processed + Undone' <= cursor.processed + Undone
      /\ cursor'.state = "outside" => nextQueue' = << >>
      /\ CarriedStates' \subseteq CarriedStates
      /\ \A x \in EventType : Len(handlers'[x]) <= Len(handlers[x])
  BY <1>1, <1>2, DispatchingKeeps
<1>4. /\ \A t : ToHandle(t) \in Nat
      /\ cursor.processed \in Int /\ Undone \in Int
  BY <1>2, ToHandleIsNat, FitsReads DEF Undone
<1>5. /\ \A t : ToHandle(t)' \in Nat
      /\ cursor'.processed \in Int /\ Undone' \in Int
  <2>1. /\ queue' \in Seq(GameEvents) /\ nextQueue' \in Seq(GameEvents) /\ cursor' \in Cursor
        /\ MaxEventsPerFrame \in Nat
    BY <1>3, MaxEventsAssumption DEF Fits
  <2>2. cursor'.processed \in Int /\ cursor'.item \in Nat
    BY <2>1 DEF Cursor
  <2>3. Len(queue') \in Nat /\ Len(nextQueue') \in Nat
    BY <2>1, LenProperties
  <2> QED  BY <1>3, <2>2, <2>3, ToHandleIsNatAfter DEF Undone
<1>6. Inputs'
  <2> DEFINE a == cursor.processed + Undone
             b == cursor'.processed + Undone'
             c == ToHandle("LobbyRequest")
             d == ToHandle("LobbyRequest")'
  <2>1. a \in Int /\ b \in Int /\ c \in Nat /\ d \in Nat /\ b <= a /\ d <= c
    BY <1>3, <1>4, <1>5
  <2>2. a + 3 * c <= 4 * inputs /\ inputs \in Nat /\ inputs' = inputs
    BY <1>1 DEF EventsInv, Inputs
  <2> HIDE DEF a, b, c, d
  <2>3. b + 3 * d <= 4 * inputs
    BY <2>1, <2>2
  <2> QED  BY <2>2, <2>3 DEF Inputs, b, d
<1>7. Phases'
  BY <1>1, <1>3 DEF EventsInv, Phases
<1>8. Listeners'
  <2>1. {"Welcome", "LobbyRequest"} \subseteq EventType
    BY DEF EventsInv, ProgramNames, Types
  <2>2. \A x \in EventType : Len(handlers[x]) \in Nat /\ Len(handlers'[x]) \in Nat
    BY <1>2, <1>3, LenProperties DEF Fits
  <2> QED  BY <1>1, <1>3, <2>1, <2>2 DEF EventsInv, Listeners
<1>9. EventsInv'
  BY <1>3, <1>6, <1>7, <1>8 DEF EventsInv, ProgramNames
<1>10. ModelInv'
  <2>1. closed' \subseteq Dialogs
        /\ outcome' \in {"running", "assertNoGame", "assertNoSceneToDelete", "deletedState"}
    BY <1>1 DEF ModelInv, Typed
  <2> QED  BY <1>1, <1>3, <1>4, <1>5, <2>1, ModelStays DEF Arriving
<1> QED  BY <1>9, <1>10 DEF FrameInv

(***************************************************************************)
(* The frame cleans up when no event waits: the lobby states that were     *)
(* replaced are deleted, and no event carries them any more.               *)
(***************************************************************************)
LEMMA CleanUpInv == FrameInv /\ cleanUp => FrameInv'
<1> SUFFICES ASSUME EventsInv, ModelInv, cleanUp  PROVE FrameInv'
  BY DEF FrameInv
<1>1. /\ phase = "cleanUp" /\ phase' \in {"receive", "over"} /\ inputs' = 0
      /\ deleted' = deleted \cup (model.toDelete \ {noState})
      /\ model' = [model EXCEPT !.toDelete = {}] /\ scene' = [scene EXCEPT !.toDelete = "none"]
      /\ alive' \subseteq alive /\ closed' \in {{}, closed}
      /\ UNCHANGED <<queue, nextQueue, handlers, cursor, published, outcome, wire, asked, together>>
  BY DEF cleanUp, In
<1>2. /\ model \in Model /\ scene \in Scene /\ model' \in Model /\ scene' \in Scene
      /\ scene'.current = scene.current /\ scene'.toDelete = "none" /\ scene'.shown = scene.shown
  BY <1>1, ModelMadeAndCleaned DEF ModelInv, Typed, Scene
<1>3. /\ model'.exists = model.exists /\ model'.initialized = model.initialized
      /\ model'.syncState = model.syncState /\ model'.state = model.state /\ model'.temp = model.temp
      /\ model'.toDelete = {} /\ model'.made = model.made
  BY <1>1, <1>2, ModelMadeAndCleaned
<1>4. /\ Fits(GameEvents)' /\ Undone' = Undone /\ CarriedStates' = CarriedStates
      /\ \A t : ToHandle(t)' = ToHandle(t)
  BY <1>1, EventsStay DEF EventsInv, Fits
<1>5. queue = << >> /\ nextQueue = << >> /\ cursor = outside
  BY <1>1 DEF EventsInv, Fits, Fitting, Phases
<1>6. /\ \A t : At(queue, firstToHandle, t) = {} /\ At(nextQueue, 1, t) = {}
      /\ Len(queue) = 0 /\ Len(nextQueue) = 0
  BY <1>5, EmptySeq DEF At, firstToHandle, outside
<1>7. /\ \A t : ToHandle(t) = 0
      /\ Undone = 0 /\ cursor.processed = 0 /\ CarriedStates = {}
  <2>1. \A t : ToHandle(t) = Cardinality({}) + Cardinality({})
    BY <1>6 DEF ToHandle
  <2>2. cursor.item = 1 /\ cursor.processed = 0
    BY <1>5 DEF outside
  <2>3. Undone = 0 /\ CarriedStates = {}
    BY <1>6, <2>2 DEF Undone, CarriedStates, StatesOf
  <2>4. Cardinality({}) = 0
    BY FS_EmptySet
  <2> QED  BY <2>1, <2>2, <2>3, <2>4
<1>8. EventsInv'
  BY <1>1, <1>3, <1>4, <1>5, <1>7 DEF EventsInv, Phases, Listeners, Inputs, ProgramNames
<1>9. Typed'
  BY <1>1, <1>2 DEF ModelInv, Typed
<1>10. Pointers'
  BY <1>1, <1>2, <1>3 DEF ModelInv, Pointers, Model
<1>11. Beginning' /\ Once' /\ Asking'
  BY <1>1, <1>2, <1>3, <1>4 DEF ModelInv, Beginning, Once, Welcoming, Refusing, Asking
<1>12. Carried'
  BY <1>4, <1>7 DEF Carried
<1>13. Together'
  <2> SUFFICES ASSUME together, model.initialized  PROVE Arrived'
    BY <1>1, <1>3 DEF Together
  <2>1. Arrived
    BY <1>1 DEF ModelInv, Together, Arriving
  <2> QED  BY <1>1, <1>2, <1>3, <2>1 DEF Arrived, NotifiesFrom
<1> QED  BY <1>8, <1>9, <1>10, <1>11, <1>12, <1>13 DEF FrameInv, ModelInv

-----------------------------------------------------------------------------
(* The handlers *)

\* Where only the listeners' number and the bound of the events are left to show.
LEMMA HandlerCounted ==
  ASSUME EventsInv, ModelInv, NEW object, NEW x, atHandlerOf(object, x), NEW n \in Nat, Grown(n),
         n = 0 \/ (x = "LobbyRequest" /\ n <= 3),
         \A e \in NewEvents : e.type \notin StateTypes /\ e.type # "LobbyRequest",
         handlers' \in [EventType -> Seq(Object)], alive' \subseteq Object,
         Len(handlers[x]) <= Len(handlers'[x]), Listeners'
  PROVE  /\ EventsInv' /\ phase = "dispatch" /\ phase' = phase
         /\ ToHandle("Welcome") \in Nat /\ ToHandle("Welcome")' \in Nat
         /\ ToHandle("Welcome")' <= ToHandle("Welcome")
         /\ x = "Welcome" => ToHandle("Welcome")' = ToHandle("Welcome") - 1
         /\ CarriedStates' \subseteq CarriedStates
         /\ x \in StateTypes => \E s \in CarriedStates : s # 0
<1>1. Fits(GameEvents) /\ Events(GameEvents) /\ "Welcome" \in StateTypes
  BY GameEventsAreEvents DEF EventsInv, StateTypes
<1>2. /\ Fits(GameEvents)'
      /\ phase = "dispatch" /\ phase' = phase /\ cursor.state = "inside" /\ cursor'.state = "inside"
      /\ cursor'.processed = cursor.processed
      /\ Undone' = Undone + n /\ Undone \in Int
      /\ cursor.handler \in 1..Len(handlers[x])
      /\ \A t : (\A e \in NewEvents : e.type # t) => ToHandle(t)' <= ToHandle(t)
      /\ (\A e \in NewEvents : e.type # x) /\ cursor.handler = 1 => ToHandle(x)' = ToHandle(x) - 1
      /\ CarriedStates' \subseteq CarriedStates
      /\ x \in StateTypes => \E s \in CarriedStates : s # 0
  BY <1>1, HandlerKeeps
<1>3. \A t : ToHandle(t) \in Nat
  BY <1>1, ToHandleIsNat
<1>4. \A t : ToHandle(t)' \in Nat
  BY <1>2, ToHandleIsNatAfter
<1>5. x \in {"Welcome", "LobbyRequest"} => ToHandle(x)' = ToHandle(x) - 1
  <2> SUFFICES ASSUME x \in {"Welcome", "LobbyRequest"}  PROVE cursor.handler = 1
    BY <1>1, <1>2
  <2>1. Len(handlers[x]) \in Nat /\ Len(handlers[x]) <= 1
    <3>1. {"Welcome", "LobbyRequest"} \subseteq EventType
      BY DEF EventsInv, ProgramNames, Types
    <3>2. Len(handlers[x]) \in Nat
      BY <1>1, <3>1, LenProperties DEF Fits
    <3> QED  BY <3>2 DEF EventsInv, Listeners
  <2> QED  BY <1>2, <2>1
<1>6. Inputs'
  <2> DEFINE a == cursor.processed
             b == Undone
             c == ToHandle("LobbyRequest")
             d == ToHandle("LobbyRequest")'
  <2>1. a \in Int /\ b \in Int /\ c \in Nat /\ d \in Nat
    BY <1>1, <1>2, <1>3, <1>4, FitsReads
  <2>2. a + b + 3 * c <= 4 * inputs /\ inputs \in Nat /\ inputs' = inputs
    BY DEF EventsInv, Inputs, atHandlerOf
  <2>3. (n = 0 /\ d <= c) \/ (n <= 3 /\ d = c - 1)
    <3>1. \A e \in NewEvents : e.type # "LobbyRequest"
      OBVIOUS
    <3>2. ToHandle("LobbyRequest")' <= ToHandle("LobbyRequest")
      BY <1>2, <3>1
    <3> QED  BY <1>5, <3>2
  <2>4. cursor'.processed = a /\ Undone' = b + n
    BY <1>2
  <2> HIDE DEF a, b, c, d
  <2>5. a + (b + n) + 3 * d <= 4 * inputs
    BY <2>1, <2>2, <2>3
  <2> QED  BY <2>2, <2>4, <2>5 DEF Inputs, d
<1>7. Phases' /\ ProgramNames'
  BY <1>2 DEF EventsInv, Phases, ProgramNames
<1>8. EventsInv'
  BY <1>2, <1>6, <1>7 DEF EventsInv
<1>9. ToHandle("Welcome")' <= ToHandle("Welcome")
  BY <1>1, <1>2
<1> QED  BY <1>2, <1>3, <1>4, <1>5, <1>8, <1>9

\* A handler that leaves the model and the scene alone.
LEMMA QuietHandlerInv ==
  ASSUME EventsInv, ModelInv, NEW object, NEW x, atHandlerOf(object, x), NEW n \in Nat, Grown(n),
         n = 0 \/ (x = "LobbyRequest" /\ n <= 3),
         \A e \in NewEvents : e.type \notin StateTypes /\ e.type # "LobbyRequest",
         UNCHANGED <<handlers, alive, model, deleted, scene>>, asked' = asked \/ AskedStays,
         outcome' \in {"running", "assertNoGame", "assertNoSceneToDelete", "deletedState"},
         closed' \subseteq Dialogs
  PROVE  FrameInv'
<1>1. /\ handlers' \in [EventType -> Seq(Object)] /\ alive' \subseteq Object
      /\ Listeners'
  BY DEF EventsInv, Fits, Listeners
<1>2. Len(handlers[x]) <= Len(handlers'[x])
  <2>1. x \in EventType
    <3>1. Fits(GameEvents) /\ Events(GameEvents) /\ cursor.item <= Len(queue) /\ current.type = x
      BY GameEventsAreEvents DEF EventsInv, atHandlerOf, atHandler, atItem
    <3> QED  BY <3>1, FitsReads
  <2>2. Len(handlers[x]) \in Nat
    BY <2>1, LenProperties DEF EventsInv, Fits
  <2> QED  BY <2>2
<1>3. /\ EventsInv' /\ phase' = phase
      /\ ToHandle("Welcome") \in Nat /\ ToHandle("Welcome")' \in Nat
      /\ ToHandle("Welcome")' <= ToHandle("Welcome")
      /\ CarriedStates' \subseteq CarriedStates
  BY <1>1, <1>2, HandlerCounted
<1>4. UNCHANGED <<wire, together>>
  BY DEF atHandlerOf
<1>5. ModelInv'
  BY <1>3, <1>4, ModelStays
<1> QED  BY <1>3, <1>5 DEF FrameInv

\* The handlers of the game that make a model: both asserts, or a new model, that listens.
LEMMA MakesModelInv ==
  ASSUME EventsInv, ModelInv, NEW x \in {"CreateGameRequest", "JoinGameRequest"},
         atHandlerOf("game", x), NEW withServer, makesModel(withServer)
  PROVE  FrameInv'
<1>1. nothingPublished /\ UNCHANGED <<deleted, scene, closed>> /\ Fits(GameEvents)
      /\ UNCHANGED <<phase, wire, together>>
  BY DEF makesModel, EventsInv, atHandlerOf
<1>2. Grown(0) /\ NewEvents = {}
  BY <1>1, NothingGrows
<1>3. closed' \subseteq Dialogs
      /\ outcome \in {"running", "assertNoGame", "assertNoSceneToDelete", "deletedState"}
  BY <1>1 DEF ModelInv, Typed
<1>4. CASE server \/ model.exists
  <2>1. UNCHANGED <<handlers, alive, model, asked>> /\ outcome' = "assertNoGame"
    BY <1>4 DEF makesModel
  <2> QED  BY <1>1, <1>2, <1>3, <2>1, QuietHandlerInv
<1>5. CASE ~(server \/ model.exists)
  <2>1. /\ model' = [noModel EXCEPT !.exists = TRUE]
        /\ handlers' = subscribe(handlers, {"LobbyRequest"}, "model")
        /\ alive' = alive \cup {"model"}
        /\ asked' \in {asked, Append(asked, "Hello")}
        /\ outcome' = outcome
    BY <1>5 DEF makesModel
  <2>2. /\ model' \in Model /\ model'.exists /\ ~model'.initialized /\ model'.syncState = "Unsynced"
        /\ model'.state = 0 /\ model'.temp = 0 /\ model'.toDelete = {} /\ model'.made = 0
    BY <2>1, ModelMadeAndCleaned
  <2>3. /\ ~model.initialized /\ Hellos(asked) = {} /\ wire = << >>
        /\ model.made = 0 /\ scene.current = "menu" /\ ToHandle("Welcome") = 0
    BY <1>5 DEF ModelInv, Beginning, Asking
  <2>4. model.state = 0 /\ model.toDelete = {} /\ deleted = {}
    <3>1. model.state <= 0 /\ model.state \in Nat
      BY <2>3 DEF ModelInv, Pointers, Typed, Model
    <3>2. model.toDelete \cup deleted \subseteq 1..0
      BY <2>3 DEF ModelInv, Pointers
    <3> QED  BY <3>1, <3>2
  <2>5. /\ handlers' \in [EventType -> Seq(Object)] /\ alive' \subseteq Object
        /\ handlers'["Welcome"] = handlers["Welcome"]
        /\ handlers'["LobbyRequest"] = Append(handlers["LobbyRequest"], "model")
        /\ handlers["LobbyRequest"] \in Seq(Object)
        /\ handlers'[x] = handlers[x] /\ Len(handlers[x]) \in Nat
    <3>1. /\ {"Welcome", "LobbyRequest", "CreateGameRequest", "JoinGameRequest"} \subseteq EventType
          /\ "model" \in Object
      BY DEF EventsInv, ProgramNames, Types, Objects
    <3>2. handlers \in [EventType -> Seq(Object)] /\ alive \subseteq Object
      BY <1>1 DEF Fits
    <3>3. handlers["LobbyRequest"] \in Seq(Object) /\ Len(handlers[x]) \in Nat
      BY <3>1, <3>2, LenProperties
    <3> DEFINE types == {"LobbyRequest"}
               h == subscribe(handlers, types, "model")
    <3>4. "LobbyRequest" \in types /\ "Welcome" \notin types /\ x \notin types /\ handlers' = h
      BY <2>1
    <3> HIDE DEF types
    <3>5. /\ h \in [EventType -> Seq(Object)]
          /\ \A t \in EventType : t \in types => h[t] = Append(handlers[t], "model")
          /\ \A t \in EventType : t \notin types => h[t] = handlers[t]
      <4>1. "model" \in Object
        BY <3>1
      <4>2. handlers \in [EventType -> Seq(Object)]
        BY <3>2
      <4> QED  BY <4>1, <4>2, SubscribeAppends
    <3> HIDE DEF h
    <3> QED  BY <2>1, <3>1, <3>2, <3>3, <3>4, <3>5
  <2>6. Listeners'
    <3>1. Len(handlers["LobbyRequest"]) = 0 /\ Len(handlers["Welcome"]) <= 1
      <4>1. Len(handlers["LobbyRequest"]) <= 0
        BY <1>5 DEF EventsInv, Listeners
      <4> QED  BY <2>5, <4>1, LenProperties DEF EventsInv, Listeners
    <3>2. Len(handlers'["LobbyRequest"]) = 1
      <4>1. "model" \in Object
        BY DEF EventsInv, ProgramNames, Objects
      <4> QED  BY <2>5, <3>1, <4>1, AppendProperties
    <3> QED  BY <2>2, <2>5, <3>1, <3>2 DEF Listeners
  <2>7. /\ EventsInv' /\ ToHandle("Welcome")' = 0 /\ CarriedStates' \subseteq CarriedStates
    <3>1. Len(handlers[x]) <= Len(handlers'[x])
      BY <2>5
    <3>2. /\ EventsInv' /\ ToHandle("Welcome")' \in Nat /\ ToHandle("Welcome")' <= ToHandle("Welcome")
          /\ CarriedStates' \subseteq CarriedStates
      BY <1>2, <2>5, <2>6, <3>1, HandlerCounted
    <3> QED  BY <2>3, <3>2
  <2>8. Typed'
    BY <1>1, <1>3, <2>1, <2>2 DEF ModelInv, Typed
  <2>9. Pointers'
    BY <1>1, <2>2, <2>3, <2>4 DEF Pointers, noState
  <2>10. Beginning' /\ Once' /\ Together'
    BY <1>1, <2>1, <2>2, <2>3, <2>7 DEF Beginning, Once, Together
  <2>11. Carried'
    BY <2>2, <2>4, <2>7 DEF ModelInv, Carried
  <2>12. Asking'
    <3>1. asked \in Seq(Requests) /\ "Hello" \in Requests /\ Len(asked) \in Nat
      BY LenProperties DEF ModelInv, Asking, Requests
    <3> DEFINE more == Append(asked, "Hello")
    <3>2. /\ more \in Seq(Requests) /\ Len(more) = Len(asked) + 1
          /\ \A i \in 1..Len(asked) : more[i] = asked[i]
      BY <3>1, AppendProperties
    <3>3. ASSUME NEW i \in Hellos(more)  PROVE i = Len(asked) + 1
      <4> HIDE DEF more
      <4> QED  BY <2>3, <3>1, <3>2, <3>3 DEF Hellos
    <3>4. \A i, j \in Hellos(more) : i = j
      BY <3>3
    <3>5. asked' \in {asked, more}
      BY <2>1
    <3> HIDE DEF more
    <3> QED  BY <1>1, <2>2, <2>3, <3>1, <3>2, <3>4, <3>5 DEF Asking
  <2> QED  BY <2>7, <2>8, <2>9, <2>10, <2>11, <2>12 DEF FrameInv, ModelInv
<1> QED  BY <1>4, <1>5

(***************************************************************************)
(* The welcome is handled: it comes once, so that no scene waits for its   *)
(* deletion, and the scene of the lobby shows the state there is now.      *)
(***************************************************************************)
LEMMA WelcomeEventInv == FrameInv /\ onWelcomeEvent => FrameInv'
<1> SUFFICES ASSUME EventsInv, ModelInv, onWelcomeEvent  PROVE FrameInv'
  BY DEF FrameInv
<1>1. /\ atHandlerOf("game", "Welcome") /\ setScene(model.state) /\ nothingPublished
      /\ UNCHANGED <<model, deleted, closed, asked, phase, wire, together>>
      /\ Fits(GameEvents)
  BY DEF onWelcomeEvent, EventsInv, atHandlerOf
<1>2. Grown(0) /\ NewEvents = {}
  BY <1>1, NothingGrows
<1> DEFINE types == {"LobbyChanged"}
           h == subscribe(handlers, types, "layer")
<1>3. handlers' \in {handlers, h} /\ alive' \in {alive, alive \cup {"layer"}}
      /\ "Welcome" \notin types /\ "LobbyRequest" \notin types
  BY <1>1 DEF setScene
<1>4. /\ handlers' \in [EventType -> Seq(Object)] /\ alive' \subseteq Object
      /\ handlers'["Welcome"] = handlers["Welcome"]
      /\ handlers'["LobbyRequest"] = handlers["LobbyRequest"]
      /\ Len(handlers["Welcome"]) \in Nat
  <2>1. {"Welcome", "LobbyRequest"} \subseteq EventType /\ "layer" \in Object
    BY DEF EventsInv, ProgramNames, Types, Objects
  <2>2. handlers \in [EventType -> Seq(Object)] /\ alive \subseteq Object
    BY <1>1 DEF Fits
  <2>3. Len(handlers["Welcome"]) \in Nat
    BY <2>1, <2>2, LenProperties
  <2> HIDE DEF types
  <2>4. /\ h \in [EventType -> Seq(Object)]
        /\ \A t \in EventType : t \notin types => h[t] = handlers[t]
    BY <2>1, <2>2, SubscribeAppends
  <2> HIDE DEF h
  <2>5. h["Welcome"] = handlers["Welcome"] /\ h["LobbyRequest"] = handlers["LobbyRequest"]
    BY <1>3, <2>1, <2>4
  <2> QED  BY <1>3, <2>1, <2>2, <2>3, <2>4, <2>5
<1>5. Listeners' /\ Len(handlers["Welcome"]) <= Len(handlers'["Welcome"])
  BY <1>1, <1>4 DEF EventsInv, Listeners
<1>6. /\ EventsInv' /\ phase = "dispatch" /\ phase' = phase
      /\ ToHandle("Welcome") \in Nat /\ ToHandle("Welcome")' \in Nat
      /\ ToHandle("Welcome")' = ToHandle("Welcome") - 1
      /\ CarriedStates' \subseteq CarriedStates
      /\ \E s \in CarriedStates : s # 0
  BY <1>1, <1>2, <1>4, <1>5, HandlerCounted DEF StateTypes
<1>7. model.initialized /\ model.state # noState /\ model \in Model
  <2> SUFFICES ASSUME ~model.initialized  PROVE FALSE
    BY DEF ModelInv, Beginning, Typed
  <2>1. model.made = 0
    BY DEF ModelInv, Beginning
  <2>2. model.state <= 0 /\ model.state \in Nat /\ model.toDelete \subseteq 1..0
    BY <2>1 DEF ModelInv, Pointers, Typed, Model
  <2>3. CarriedStates \subseteq {0}
    BY <2>2 DEF ModelInv, Carried
  <2> QED  BY <1>6, <2>3
<1>8. scene.current = "menu" /\ scene.toDelete = "none" /\ ToHandle("Welcome") = 1
  <2>1. scene.current \in {"menu", "lobby"}
    BY DEF ModelInv, Typed, Scene
  <2>2. ToHandle("Welcome") + (IF scene.current = "lobby" THEN 1 ELSE 0) <= 1
    BY <1>7 DEF ModelInv, Once
  <2>3. scene.current # "lobby" /\ ToHandle("Welcome") = 1
    <3>1. ToHandle("Welcome") >= 1
      BY <1>6
    <3> QED  BY <1>6, <2>2, <3>1
  <2> QED  BY <2>1, <2>3 DEF ModelInv, Typed
<1>9. /\ scene' = [current |-> "lobby", toDelete |-> "menu", shown |-> model.state]
      /\ outcome' = outcome
  BY <1>1, <1>8 DEF setScene
<1>10. /\ scene'.current = "lobby" /\ scene'.toDelete = "menu" /\ scene'.shown = model.state
       /\ scene' \in Scene
  BY <1>7, <1>9 DEF Scene, Model
<1>11. Typed'
  BY <1>1, <1>9, <1>10 DEF ModelInv, Typed
<1>12. Pointers'
  <2>1. model.state \in 1..model.made
    BY <1>7 DEF ModelInv, Pointers, Model, noState
  <2> QED  BY <1>1, <1>10, <2>1 DEF ModelInv, Pointers
<1>13. Beginning'
  BY <1>1, <1>7 DEF ModelInv, Beginning
<1>14. Once'
  BY <1>1, <1>6, <1>7, <1>8, <1>10 DEF ModelInv, Once
<1>15. Carried'
  BY <1>1, <1>6 DEF ModelInv, Carried
<1>16. Together'
  <2> SUFFICES ASSUME together  PROVE Arrived'
    BY <1>1 DEF Together
  <2>1. Arrived
    BY <1>6, <1>7 DEF ModelInv, Together, Arriving
  <2> QED  BY <1>1, <1>10, <2>1 DEF Arrived, NotifiesFrom
<1>17. Asking'
  BY <1>1 DEF ModelInv, Asking
<1> QED  BY <1>6, <1>11, <1>12, <1>13, <1>14, <1>15, <1>16, <1>17 DEF FrameInv, ModelInv

\* Whatever handler is called.
LEMMA HandleInv == FrameInv /\ Handle => FrameInv'
<1> SUFFICES ASSUME EventsInv, ModelInv, Handle  PROVE FrameInv'
  BY DEF FrameInv
<1>1. /\ Fits(GameEvents) /\ published + 1 \in Nat /\ closed \subseteq Dialogs /\ {} \subseteq Dialogs
      /\ outcome \in {"running", "assertNoGame", "assertNoSceneToDelete", "deletedState"}
      /\ "LobbyChanged" \in Types \ StateTypes /\ "LobbyStateSync" \in Types \ StateTypes
  BY DEF EventsInv, Fits, ModelInv, Typed, Types, StateTypes
<1>2. CASE onExitEvent
  <2>1. /\ atHandlerOf("game", "Exit") /\ nothingPublished
        /\ UNCHANGED <<handlers, alive, model, deleted, scene, closed, asked, outcome>>
    BY <1>2 DEF onExitEvent
  <2>2. Grown(0) /\ NewEvents = {}
    BY <1>1, <2>1, NothingGrows
  <2> QED  BY <1>1, <2>1, <2>2, QuietHandlerInv
<1>3. CASE onCreateGameRequestEvent
  BY <1>3, MakesModelInv DEF onCreateGameRequestEvent
<1>4. CASE onJoinGameRequestEvent
  BY <1>4, MakesModelInv DEF onJoinGameRequestEvent
<1>5. CASE onWelcomeEvent
  BY <1>5, WelcomeEventInv DEF FrameInv
<1>6. CASE onDialogRequestEvent
  <2>1. PICK d \in Dialogs : atHandlerOf("menu", asks[d])
    BY <1>6 DEF onDialogRequestEvent
  <2>2. nothingPublished /\ closed' = {}
        /\ UNCHANGED <<handlers, alive, model, deleted, scene, asked, outcome>>
    BY <1>6 DEF onDialogRequestEvent
  <2>3. Grown(0) /\ NewEvents = {}
    BY <1>1, <2>2, NothingGrows
  <2> QED  BY <1>1, <2>1, <2>2, <2>3, QuietHandlerInv
<1>7. CASE onLobbyRequestEvent
  <2>1. /\ atHandlerOf("model", "LobbyRequest")
        /\ UNCHANGED <<handlers, alive, model, deleted, scene, closed, outcome>>
        /\ \/ publish(<< [type |-> "LobbyStateSync"] >>) /\ asked' = asked
           \/ \E n \in {1, 3} : /\ publish([i \in 1..n |-> [type |-> "LobbyChanged"]])
                                /\ asked' = asked \o [i \in 1..n |-> "LobbyRequest"]
    BY <1>7 DEF onLobbyRequestEvent, gameVars
  <2>2. ASSUME NEW n \in {1, 3}, Grown(n), asked' = asked \/ AskedStays,
               \A e \in NewEvents : e.type \in {"LobbyChanged", "LobbyStateSync"}
        PROVE  FrameInv'
    <3>1. \A e \in NewEvents : e.type \notin StateTypes /\ e.type # "LobbyRequest"
      BY <2>2 DEF StateTypes
    <3> QED  BY <1>1, <2>1, <2>2, <3>1, QuietHandlerInv
  <2>3. CASE publish(<< [type |-> "LobbyStateSync"] >>) /\ asked' = asked
    <3>1. Grown(1) /\ \A e \in NewEvents : e.type = "LobbyStateSync"
      BY <1>1, <2>3, NumberedEvents, OneGrows
    <3>2. 1 \in {1, 3}
      OBVIOUS
    <3>3. \A e \in NewEvents : e.type \in {"LobbyChanged", "LobbyStateSync"}
      BY <3>1
    <3> QED  BY <2>2, <2>3, <3>1, <3>2, <3>3
  <2>4. ASSUME NEW n \in {1, 3}, publish([i \in 1..n |-> [type |-> "LobbyChanged"]]),
               asked' = asked \o [i \in 1..n |-> "LobbyRequest"]
        PROVE  FrameInv'
    <3>1. Grown(n) /\ \A e \in NewEvents : e.type = "LobbyChanged"
      BY <1>1, <2>4, ChangesGrow
    <3> DEFINE more == [i \in 1..n |-> "LobbyRequest"]
    <3>2. more \in Seq(Requests) /\ Hellos(more) = {}
      BY DEF Requests, Hellos
    <3>3. asked \in Seq(Requests) /\ asked' = asked \o more
      BY <2>4 DEF ModelInv, Asking
    <3> HIDE DEF more
    <3>4. AskedStays
      BY <3>2, <3>3, AskedGrows
    <3> QED  BY <2>2, <3>1, <3>4
  <2> QED  BY <2>1, <2>3, <2>4
<1>8. CASE onLobbyChangedEvent
  <2>1. /\ atHandlerOf("layer", "LobbyChanged") /\ nothingPublished
        /\ UNCHANGED <<handlers, alive, model, deleted, scene, closed, asked>>
        /\ outcome' \in {outcome, "deletedState"}
    BY <1>8 DEF onLobbyChangedEvent
  <2>2. Grown(0) /\ NewEvents = {}
    BY <1>1, <2>1, NothingGrows
  <2> QED  BY <1>1, <2>1, <2>2, QuietHandlerInv
<1> QED  BY <1>2, <1>3, <1>4, <1>5, <1>6, <1>7, <1>8 DEF Handle

-----------------------------------------------------------------------------
(* The frames *)

\* The invariant of the program's frames.
LEMMA AlwaysFrameInv ==
  ASSUME ProgramNames
  PROVE  Spec => []FrameInv
<1>1. Init => FrameInv
  BY InitFrameInv
<1>2. FrameInv /\ [Next]_vars => FrameInv'
  <2> SUFFICES ASSUME FrameInv, [Next]_vars  PROVE FrameInv'
    OBVIOUS
  <2>1. CASE UNCHANGED vars
    <3>1. /\ UNCHANGED <<queue, nextQueue, handlers, alive, cursor, published, phase, inputs>>
          /\ UNCHANGED <<model, deleted, scene, wire, asked, together, closed, outcome>>
      BY <2>1 DEF vars, esVars, gameVars, outsideVars
    <3>2. /\ Fits(GameEvents)' /\ Undone' = Undone /\ CarriedStates' = CarriedStates
          /\ \A t : ToHandle(t)' = ToHandle(t)
      BY <3>1, EventsStay DEF FrameInv, EventsInv, Fits
    <3>3. EventsInv'
      BY <3>1, <3>2 DEF FrameInv, EventsInv, Phases, Listeners, Inputs, ProgramNames
    <3>4. ToHandle("Welcome") \in Nat
      BY GameEventsAreEvents, ToHandleIsNat DEF FrameInv, EventsInv
    <3>5. closed' \subseteq Dialogs
          /\ outcome' \in {"running", "assertNoGame", "assertNoSceneToDelete", "deletedState"}
      BY <3>1 DEF FrameInv, ModelInv, Typed
    <3>6. ModelInv'
      BY <3>1, <3>2, <3>4, <3>5, ModelStays DEF FrameInv
    <3> QED  BY <3>3, <3>6 DEF FrameInv
  <2>2. CASE Next
    BY <2>2, ReceivePacketInv, QuietInv, BeginsDispatchInv, FrameDispatchInv, HandleInv, CleanUpInv,
       HandleEventsInv, ServerAnswersInv, ServerNotifiesInv DEF Next, Frame, User
  <2> QED  BY <2>1, <2>2
<1> QED  BY <1>1, <1>2, PTL DEF Spec

(***************************************************************************)
(* However packets, requests and dispatches interleave, an event never     *)
(* carries a lobby state that was deleted; and the lobby the user sees     *)
(* lives, when the first snapshot comes in the frame of the welcome and no *)
(* other follows.                                                          *)
(***************************************************************************)
THEOREM StatesStayConsistent ==
  ASSUME ProgramNames
  PROVE  Spec => []StatesConsistent
<1>1. FrameInv => StatesConsistent
  <2> SUFFICES ASSUME EventsInv, ModelInv  PROVE StatesConsistent
    BY DEF FrameInv
  <2>1. TypeOK
    BY DEF TypeOK, EventsInv, ModelInv, Phases, Typed, Pointers, Model, Scene
  <2>2. EventsReferToLiveStates
    <3>1. Fits(GameEvents) /\ Events(GameEvents) /\ nextQueue \in Seq(GameEvents)
      BY GameEventsAreEvents DEF EventsInv, Fits
    <3>2. PICK rest \in Seq(GameEvents) :
            /\ waiting = rest \o nextQueue
            /\ cursor.state = "outside" => rest = << >>
            /\ cursor.state # "outside" =>
                 /\ Len(rest) = Len(queue) - cursor.item + 1
                 /\ \A i \in 1..Len(rest) : rest[i] = queue[cursor.item - 1 + i]
      BY <3>1, WaitingIs
    <3>3. /\ DOMAIN waiting = 1..Len(waiting) /\ Len(waiting) = Len(rest) + Len(nextQueue)
          /\ Len(rest) \in Nat /\ Len(nextQueue) \in Nat /\ Len(queue) \in Nat /\ cursor.item \in Nat \ {0}
          /\ \A i \in 1..Len(rest) : waiting[i] = rest[i]
          /\ \A i \in 1..Len(nextQueue) : waiting[Len(rest) + i] = nextQueue[i]
      <4>1. waiting \in Seq(GameEvents) /\ Len(waiting) = Len(rest) + Len(nextQueue)
        BY <3>1, <3>2, ConcatProperties
      <4>2. /\ \A i \in 1..Len(rest) : waiting[i] = rest[i]
            /\ \A i \in 1..Len(nextQueue) : waiting[Len(rest) + i] = nextQueue[i]
        BY <3>1, <3>2, ConcatProperties, LenProperties
      <4> QED  BY <3>1, <4>1, <4>2, FitsReads, LenProperties
    <3>4. ASSUME NEW i \in DOMAIN waiting, waiting[i].type \in StateTypes
          PROVE  waiting[i].state \in CarriedStates
      <4>1. CASE i \in 1..Len(rest)
        <5> DEFINE j == cursor.item - 1 + i
        <5>1. cursor.state # "outside"
          BY <3>2, <4>1, EmptySeq
        <5>2. waiting[i] = queue[j] /\ j \in cursor.item..Len(queue)
          BY <3>2, <3>3, <4>1, <5>1
        <5> HIDE DEF j
        <5>3. queue[j].state \in StatesOf(queue, cursor.item)
          BY <3>4, <5>2 DEF StatesOf
        <5> QED  BY <5>2, <5>3 DEF CarriedStates
      <4>2. CASE i \notin 1..Len(rest)
        <5> DEFINE j == i - Len(rest)
        <5>1. j \in 1..Len(nextQueue) /\ Len(rest) + j = i
          BY <3>3, <4>2
        <5> HIDE DEF j
        <5>2. waiting[i] = nextQueue[j]
          BY <3>3, <5>1
        <5>3. nextQueue[j].state \in StatesOf(nextQueue, 1)
          BY <3>4, <5>1, <5>2 DEF StatesOf
        <5> QED  BY <5>2, <5>3 DEF CarriedStates
      <4> QED  BY <4>1, <4>2
    <3>5. CarriedStates \cap deleted = {}
      BY DEF ModelInv, Carried, Pointers
    <3> QED  BY <3>4, <3>5 DEF EventsReferToLiveStates, StateTypes
  <2>3. ShownStateLives
    <3> SUFFICES ASSUME together, scene.current = "lobby"  PROVE scene.shown \notin deleted
      BY DEF ShownStateLives, showsDeleted
    <3>1. model.initialized
      BY DEF ModelInv, Beginning
    <3>2. Arrived
      BY <3>1 DEF ModelInv, Together, Arriving
    <3> QED  BY <3>2 DEF Arrived
  <2> QED  BY <2>1, <2>2, <2>3 DEF StatesConsistent
<1> QED  BY <1>1, AlwaysFrameInv, PTL

(***************************************************************************)
(* A frame handles at most four events for every packet and user action:   *)
(* what was published, what waits and what is still to be answered are     *)
(* counted together.                                                       *)
(***************************************************************************)
THEOREM FramesStayShort ==
  ASSUME ProgramNames
  PROVE  Spec => []FewEventsPerInput
<1>1. FrameInv => FewEventsPerInput
  <2> SUFFICES ASSUME EventsInv  PROVE FewEventsPerInput
    BY DEF FrameInv
  <2>1. Fits(GameEvents) /\ Events(GameEvents)
    BY GameEventsAreEvents DEF EventsInv
  <2> DEFINE a == cursor.processed
             b == Undone
             c == ToHandle("LobbyRequest")
  <2>2. a \in Int /\ b \in Nat /\ c \in Nat
    <3>1. cursor.item <= Len(queue) + 1 /\ Len(queue) \in Nat /\ Len(nextQueue) \in Nat
          /\ cursor.item \in Nat /\ cursor.processed \in Int
      BY <2>1, FitsReads DEF Fits, Fitting
    <3>2. Undone \in Nat
      BY <3>1 DEF Undone
    <3> QED  BY <2>1, <3>1, <3>2, ToHandleIsNat
  <2>3. a + b + 3 * c <= 4 * inputs /\ inputs \in Nat
    BY DEF EventsInv, Inputs
  <2> HIDE DEF a, b, c
  <2>4. a <= 4 * inputs
    BY <2>2, <2>3
  <2> QED  BY <2>4 DEF FewEventsPerInput, a
<1> QED  BY <1>1, AlwaysFrameInv, PTL

(***************************************************************************)
(* Nothing that handles events is destroyed while they are dispatched: the *)
(* scene that onWelcomeEvent replaces goes when the frame cleans up.       *)
(***************************************************************************)
THEOREM NobodyDiesInAFrame == Spec => NobodyDiesInDispatch
<1>1. [Next]_vars => [alive \subseteq alive' \/ phase = "cleanUp"]_vars
  <2> SUFFICES ASSUME Next  PROVE alive \subseteq alive' \/ phase = "cleanUp"
    OBVIOUS
  <2>1. CASE Handle
    <3>1. CASE onCreateGameRequestEvent \/ onJoinGameRequestEvent
      BY <3>1 DEF onCreateGameRequestEvent, onJoinGameRequestEvent, makesModel
    <3>2. CASE onWelcomeEvent
      BY <3>2 DEF onWelcomeEvent, setScene
    <3>3. CASE onExitEvent \/ onDialogRequestEvent \/ onLobbyRequestEvent \/ onLobbyChangedEvent
      BY <3>3 DEF onExitEvent, onDialogRequestEvent, onLobbyRequestEvent, onLobbyChangedEvent
    <3> QED  BY <2>1, <3>1, <3>2, <3>3 DEF Handle
  <2>2. CASE dispatch
    BY <2>2 DEF dispatch, Dispatching, BeginItem, SkipDead, EndItem, EndRound
  <2>3. CASE cleanUp
    BY <2>3 DEF cleanUp, In
  <2>4. CASE processReceivingPackets \/ received \/ beginsDispatch
    BY <2>4 DEF processReceivingPackets, received, beginsDispatch, BeginDispatch, esVars
  <2>5. CASE User \/ ServerAnswers \/ ServerNotifies
    BY <2>5 DEF User, handleEvents, close, ServerAnswers, ServerNotifies, esVars
  <2> QED  BY <2>1, <2>2, <2>3, <2>4, <2>5 DEF Next, Frame
<1> QED  BY <1>1, PTL DEF Spec, NobodyDiesInDispatch

=============================================================================
