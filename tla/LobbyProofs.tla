------------------------------ MODULE LobbyProofs ------------------------------
(***************************************************************************)
(* Theorems about the two machines of the lobby that need no network: the  *)
(* lobby as the server keeps it (LobbyServer), for every set of players    *)
(* and every size of the lobby, from what LobbyStateProofs says of each    *)
(* operation; and the panel of the lobby's settings (LobbySettings), for   *)
(* any choice of dropdowns and wherever the mouse goes.                    *)
(***************************************************************************)
EXTENDS LobbyServer, LobbySettings, LobbyStateProofs

-----------------------------------------------------------------------------
(* What holds whatever requests arrive *)

Inv == WellFormed(lobby)

\* The lobby of a server that has just started.
LEMMA InitWellFormed == Init => Inv
BY InitialWellFormed DEF Init, Inv

\* Every handler leaves the lobby well formed.
LEMMA StepWellFormed == Inv /\ [Next]_lobby => Inv'
<1> SUFFICES ASSUME WellFormed(lobby), [Next]_lobby
             PROVE  WellFormed(lobby')
  BY DEF Inv
<1>1. ASSUME NEW p \in Player, PlayerConnect(p)
      PROVE  WellFormed(lobby')
  BY <1>1, PlayerConnectedWellFormed DEF PlayerConnect
<1>2. ASSUME NEW p \in Player, PlayerDisconnected(p)
      PROVE  WellFormed(lobby')
  BY <1>2, DeletePlayerCorrect DEF PlayerDisconnected
<1>3. ASSUME NEW i \in lobby.profiles, NEW p \in Player, NEW s \in Seat, SeatPositionsChange(i, p, s)
      PROVE  WellFormed(lobby')
  BY <1>3, ChangeWellFormed DEF SeatPositionsChange, SeatChangeAccepted
<1>4. ASSUME NEW i \in lobby.profiles, NEW p \in Player, NEW q \in Player, SeatPositionsSwap(i, p, q)
      PROVE  WellFormed(lobby')
  <2>1. /\ p \in lobby.profiles /\ q \in lobby.profiles
        /\ getSeatPositionById(lobby, p) # Nowhere /\ getSeatPositionById(lobby, q) # Nowhere
        /\ lobby' = swapPlayersSeatPositions(lobby, p, q)
    BY <1>4 DEF SeatPositionsSwap, SwapAccepted
  <2> QED  BY <2>1, SwapWellFormed
<1>5. ASSUME NEW i \in lobby.profiles, NEW v \in MinPlayersPerGame..MaxPlayersPerGame,
             PlayersPerGameChange(i, v)
      PROVE  WellFormed(lobby')
  BY <1>5, PlayersPerGameWellFormed DEF PlayersPerGameChange
<1>6. ASSUME NEW i \in lobby.profiles, NEW b \in BOOLEAN, LobbyOpenStateChange(i, b)
      PROVE  WellFormed(lobby')
  BY <1>6, LobbyOpenWellFormed DEF LobbyOpenStateChange
<1>7. CASE UNCHANGED lobby
  BY <1>7
<1> QED  BY <1>1, <1>2, <1>3, <1>4, <1>5, <1>6, <1>7 DEF Next, RequestOf

\* The lobby is well formed whatever requests arrive.
THEOREM AlwaysWellFormed == Spec => []Inv
BY InitWellFormed, StepWellFormed, PTL DEF Spec

\* Type correctness of the server's lobby.
THEOREM TypeCorrect == Spec => []TypeOK
<1>1. Inv => TypeOK
  BY DEF Inv, WellFormed, TypeOK
<1> QED  BY <1>1, AlwaysWellFormed, PTL

(***************************************************************************)
(* No sequence of joins, leaves and requests, however stale the requests,  *)
(* makes the two maps of SeatPositionsState disagree.                      *)
(***************************************************************************)
THEOREM SeatMapsStayInverse == Spec => []SeatMapsInverse
<1>1. Inv => SeatMapsInverse
  BY DEF Inv, WellFormed, SeatMapsInverse
<1> QED  BY <1>1, AlwaysWellFormed, PTL

(***************************************************************************)
(* Seats and queue hold nobody but players of the lobby, so deletePlayer   *)
(* forgets no copy of the id of a player who left.                         *)
(***************************************************************************)
THEOREM OccupantsStayInLobby == Spec => []OccupantsInLobby
<1>1. Inv => OccupantsInLobby
  BY DEF Inv, WellFormed, OccupantsInLobby
<1> QED  BY <1>1, AlwaysWellFormed, PTL

\* All three together: what the run of the server checks of the lobby's data.
THEOREM LobbyStaysConsistent == Spec => []LobbyConsistent
<1>1. TypeOK /\ SeatMapsInverse /\ OccupantsInLobby => LobbyConsistent
  BY DEF LobbyConsistent
<1> QED  BY <1>1, TypeCorrect, SeatMapsStayInverse, OccupantsStayInLobby, PTL

-----------------------------------------------------------------------------
(* Who a request moves *)

(***************************************************************************)
(* A player who is not the host moves nobody but itself and changes        *)
(* nothing else, for every request the server accepts from it.             *)
(***************************************************************************)
THEOREM RegularMovesNobodyElse == Spec => RegularMovesOnlyItself
<1>1. ASSUME Inv, NEW i \in lobby.profiles, RequestOf(i), ~isHost(i)
      PROVE  /\ \A x \in Player \ {i} :
                  getSeatPositionById(lobby', x) = getSeatPositionById(lobby, x)
             /\ lobby'.ppg = lobby.ppg /\ lobby'.open = lobby.open
  <2>1. ASSUME NEW p \in Player, NEW s \in Seat, SeatPositionsChange(i, p, s)
        PROVE  /\ \A x \in Player \ {i} :
                    getSeatPositionById(lobby', x) = getSeatPositionById(lobby, x)
               /\ lobby'.ppg = lobby.ppg /\ lobby'.open = lobby.open
    <3>1. p = i /\ WellFormed(lobby)
      BY <1>1, <2>1 DEF SeatPositionsChange, SeatChangeAccepted, Inv
    <3>2. ~isSeatPositionOccupied(lobby, s) /\ lobby' = changePlayerSeatPosition(lobby, i, s)
      BY <2>1, <3>1 DEF SeatPositionsChange, SeatChangeAccepted
    <3>3. s # QueueSeat => \A x \in Player : lobby.seats.seatOf[x] # s
      BY <3>1, <3>2, FreeSeat
    <3>4. \A x \in Player \ {i} : /\ lobby'.seats.seatOf[x] = lobby.seats.seatOf[x]
                                  /\ x \in Ids(lobby'.queue) <=> x \in Ids(lobby.queue)
      BY <3>1, <3>2, <3>3, ChangeMoves
    <3>5. Settings(lobby') = Settings(lobby)
      BY <3>1, <3>2, ChangeWellFormed
    <3> QED  BY <3>4, <3>5 DEF getSeatPositionById, Settings
  <2>2. ASSUME NEW p \in Player, NEW q \in Player, SeatPositionsSwap(i, p, q)
        PROVE  FALSE
    BY <1>1, <2>2 DEF SeatPositionsSwap, SwapAccepted
  <2>3. ASSUME NEW v \in MinPlayersPerGame..MaxPlayersPerGame, PlayersPerGameChange(i, v)
        PROVE  FALSE
    BY <1>1, <2>3 DEF PlayersPerGameChange, PlayersPerGameAccepted
  <2>4. ASSUME NEW b \in BOOLEAN, LobbyOpenStateChange(i, b)
        PROVE  FALSE
    <3>1. i = lobby.hostId /\ WellFormed(lobby)
      BY <1>1, <2>4 DEF LobbyOpenStateChange, LobbyOpenAccepted, Inv
    <3>2. i \in Player /\ lobby.hostId \in {HostProfile, Nobody}
      BY <3>1, Fields
    <3> QED  BY <1>1, <3>1, <3>2, Reserved DEF isHost
  <2> QED  BY <1>1, <2>1, <2>2, <2>3, <2>4 DEF RequestOf
<1>2. Inv => [regularRequest]_lobby
  BY <1>1 DEF regularRequest, movesOnlyItself, position
<1> QED  BY <1>2, AlwaysWellFormed, PTL DEF RegularMovesOnlyItself

-----------------------------------------------------------------------------
(* What fresh requests keep *)

\* The empty lobby of a new server.
LEMMA InitPlaced == Init => Placed(lobby)
<1>1. /\ initialLobby.seats.seatOf = [x \in Player |-> Nowhere]
      /\ initialLobby.queue = << >> /\ initialLobby.profiles = {}
  BY DEF initialLobby, emptySeats
<1>2. IsInjective(<< >>)
  BY DEF IsInjective
<1> QED  BY <1>1, <1>2 DEF Init, Placed, TablePlaces

\* Every handler, given a request made on the lobby as it is.
LEMMA StepPlaced == OnlyFresh /\ Inv /\ Placed(lobby) /\ [Next]_lobby => Placed(lobby')
<1> SUFFICES ASSUME OnlyFresh, WellFormed(lobby), Placed(lobby), [Next]_lobby
             PROVE  Placed(lobby')
  BY DEF Inv
<1>1. ASSUME NEW p \in Player, PlayerConnect(p)
      PROVE  Placed(lobby')
  BY <1>1, PlayerConnectedPlaced DEF PlayerConnect
<1>2. ASSUME NEW p \in Player, PlayerDisconnected(p)
      PROVE  Placed(lobby')
  BY <1>2, DeletePlayerPlaced DEF PlayerDisconnected
<1>3. ASSUME NEW i \in lobby.profiles, NEW p \in Player, NEW s \in Seat, SeatPositionsChange(i, p, s)
      PROVE  Placed(lobby')
  <2>1. /\ s < lobby.ppg /\ isSeatPositionCorrect(lobby, s)
        /\ ~isSeatPositionOccupied(lobby, s) /\ p \in lobby.profiles
        /\ lobby' = changePlayerSeatPosition(lobby, p, s)
    BY <1>3 DEF SeatPositionsChange, SeatChangeAccepted
  <2>2. s \in {QueueSeat} \cup 0..(lobby.ppg - 1)
    BY <2>1, Fields DEF isSeatPositionCorrect, Seat, QueueSeat, MinPlayersPerGame, MaxPlayersPerGame
  <2> QED  BY <2>1, <2>2, FreeSeat, ChangePlaced
<1>4. ASSUME NEW i \in lobby.profiles, NEW p \in Player, NEW q \in Player, SeatPositionsSwap(i, p, q)
      PROVE  Placed(lobby')
  <2>1. /\ p \in lobby.profiles /\ q \in lobby.profiles
        /\ getSeatPositionById(lobby, p) # getSeatPositionById(lobby, q)
        /\ getSeatPositionById(lobby, q) # QueueSeat
        /\ lobby' = swapPlayersSeatPositions(lobby, p, q)
    BY <1>4 DEF SeatPositionsSwap, SwapAccepted
  <2> QED  BY <2>1, SwapPlaced
<1>5. ASSUME NEW i \in lobby.profiles, NEW v \in MinPlayersPerGame..MaxPlayersPerGame,
             PlayersPerGameChange(i, v)
      PROVE  Placed(lobby')
  BY <1>5, PlayersPerGamePlaced DEF PlayersPerGameChange
<1>6. ASSUME NEW i \in lobby.profiles, NEW b \in BOOLEAN, LobbyOpenStateChange(i, b)
      PROVE  Placed(lobby')
  BY <1>6, LobbyOpenPlaced DEF LobbyOpenStateChange
<1>7. CASE UNCHANGED lobby
  BY <1>7
<1> QED  BY <1>1, <1>2, <1>3, <1>4, <1>5, <1>6, <1>7 DEF Next, RequestOf

\* With fresh requests every reachable lobby is placed.
THEOREM AlwaysPlaced ==
  ASSUME OnlyFresh
  PROVE  Spec => [](Inv /\ Placed(lobby))
<1> DEFINE FreshInv == Inv /\ Placed(lobby)
<1>1. Init => FreshInv
  BY InitWellFormed, InitPlaced
<1>2. FreshInv /\ [Next]_lobby => FreshInv'
  BY StepWellFormed, StepPlaced
<1> QED  BY <1>1, <1>2, PTL DEF Spec

(***************************************************************************)
(* Every player of the lobby keeps exactly one place, its seat or its      *)
(* position in the queue, through any sequence of fresh requests.          *)
(***************************************************************************)
THEOREM EveryoneHasOnePlace ==
  ASSUME OnlyFresh
  PROVE  Spec => []OnePlace
<1>1. Inv /\ Placed(lobby) => OnePlace
  BY DEF Placed, TablePlaces, OnePlace, seated, queued
<1> QED  BY <1>1, AlwaysPlaced, PTL

\* Nobody keeps a seat that the table has lost.
THEOREM SeatsStayInRange ==
  ASSUME OnlyFresh
  PROVE  Spec => []SeatsInRange
<1>1. Inv /\ Placed(lobby) => SeatsInRange
  BY DEF Placed, TablePlaces, SeatsInRange, seated
<1> QED  BY <1>1, AlwaysPlaced, PTL

\* A fresh swap gives each of the two players the position of the other.
THEOREM SwapsExchange ==
  ASSUME OnlyFresh
  PROVE  Spec => SwapExchanges
<1>1. ASSUME Inv, Placed(lobby), NEW i \in lobby.profiles, NEW p \in Player, NEW q \in Player,
             SeatPositionsSwap(i, p, q)
      PROVE  /\ getSeatPositionById(lobby', p) = getSeatPositionById(lobby, q)
             /\ getSeatPositionById(lobby', q) = getSeatPositionById(lobby, p)
  <2>1. /\ p \in lobby.profiles /\ q \in lobby.profiles /\ WellFormed(lobby)
        /\ getSeatPositionById(lobby, p) # getSeatPositionById(lobby, q)
        /\ getSeatPositionById(lobby, q) # QueueSeat
        /\ lobby' = swapPlayersSeatPositions(lobby, p, q)
    BY <1>1 DEF SeatPositionsSwap, SwapAccepted, Inv
  <2> QED  BY <1>1, <2>1, SwapPlaced
<1>2. Inv /\ Placed(lobby) => [swapExchange]_lobby
  BY <1>1 DEF swapExchange, position
<1> QED  BY <1>2, AlwaysPlaced, PTL DEF SwapExchanges

-----------------------------------------------------------------------------
(* The queue never overflows *)

\* Only canJoin lets a player in, and only players who connect are let in.
LEMMA StepBounded == Inv /\ Bounded(lobby) /\ [Next]_lobby => Bounded(lobby')
<1> SUFFICES ASSUME WellFormed(lobby), Bounded(lobby), [Next]_lobby
             PROVE  Bounded(lobby')
  BY DEF Inv
<1>1. ASSUME NEW p \in Player, PlayerConnect(p)
      PROVE  Bounded(lobby')
  <2>1. lobby'.profiles = lobby.profiles \cup {p}
    BY <1>1, PlayerConnectedProfiles DEF PlayerConnect
  <2>2. IsFiniteSet(lobby.profiles) /\ Cardinality(lobby.profiles) < MaxPlayersInLobby
    BY <1>1 DEF PlayerConnect, canJoin, Bounded
  <2>3. p \notin lobby.profiles
    BY <1>1 DEF PlayerConnect
  <2> QED  BY <2>1, <2>2, <2>3, FS_AddElement, FS_CardinalityType, MaxPlayersInLobbyAssumption DEF Bounded
<1>2. ASSUME NEW p \in Player, PlayerDisconnected(p)
      PROVE  Bounded(lobby')
  <2>1. lobby'.profiles = lobby.profiles \ {p}
    BY <1>2, DeletePlayerCorrect DEF PlayerDisconnected
  <2>2. IsFiniteSet(lobby.profiles) /\ Cardinality(lobby.profiles) \in Nat
    BY FS_CardinalityType DEF Bounded
  <2>3. /\ IsFiniteSet(lobby.profiles \ {p})
        /\ Cardinality(lobby.profiles \ {p})
             \in {Cardinality(lobby.profiles), Cardinality(lobby.profiles) - 1}
    BY <2>2, FS_RemoveElement
  <2> QED  BY <2>1, <2>2, <2>3, MaxPlayersInLobbyAssumption DEF Bounded
<1>3. ASSUME NEW i \in lobby.profiles, RequestOf(i)
      PROVE  lobby'.profiles = lobby.profiles
  <2>1. ASSUME NEW p \in Player, NEW s \in Seat, SeatPositionsChange(i, p, s)
        PROVE  Settings(lobby') = Settings(lobby)
    BY <2>1, ChangeWellFormed DEF SeatPositionsChange, SeatChangeAccepted
  <2>2. ASSUME NEW p \in Player, NEW q \in Player, SeatPositionsSwap(i, p, q)
        PROVE  Settings(lobby') = Settings(lobby)
    <3>1. /\ p \in lobby.profiles /\ q \in lobby.profiles
          /\ getSeatPositionById(lobby, p) # Nowhere /\ getSeatPositionById(lobby, q) # Nowhere
          /\ lobby' = swapPlayersSeatPositions(lobby, p, q)
      BY <2>2 DEF SeatPositionsSwap, SwapAccepted
    <3> QED  BY <3>1, SwapWellFormed
  <2>3. ASSUME NEW v \in MinPlayersPerGame..MaxPlayersPerGame, PlayersPerGameChange(i, v)
        PROVE  lobby'.profiles = lobby.profiles
    <3> DEFINE M == clearDroppedSeats(lobby, v)
    <3>1. WellFormed(M) /\ Settings(M) = Settings(lobby)
      BY ClearDroppedSeatsWellFormed
    <3>2. lobby' = [M EXCEPT !.ppg = v]
      BY <2>3 DEF PlayersPerGameChange, playersPerGameChanged
    <3> HIDE DEF M
    <3> QED  BY <3>1, <3>2 DEF WellFormed, LobbyType, Settings
  <2>4. ASSUME NEW b \in BOOLEAN, LobbyOpenStateChange(i, b)
        PROVE  lobby'.profiles = lobby.profiles
    BY <2>4 DEF LobbyOpenStateChange, lobbyOpenChanged, WellFormed, LobbyType
  <2> QED  BY <1>3, <2>1, <2>2, <2>3, <2>4 DEF RequestOf, Settings
<1>4. CASE UNCHANGED lobby
  BY <1>4
<1> QED  BY <1>1, <1>2, <1>3, <1>4 DEF Next, Bounded

(***************************************************************************)
(* The assert of changePlayerSeatPosition never fails when a shrinking     *)
(* table sends its players back to the queue.                              *)
(***************************************************************************)
THEOREM QueueAlwaysHasRoom ==
  ASSUME OnlyFresh
  PROVE  Spec => []QueueHasRoom
<1> DEFINE All == Inv /\ Placed(lobby) /\ Bounded(lobby)
<1>1. Init => All
  <2>1. Init => lobby.profiles = {}
    BY DEF Init, initialLobby
  <2> QED  BY <2>1, InitWellFormed, InitPlaced, FS_EmptySet, MaxPlayersInLobbyAssumption DEF Bounded
<1>2. All /\ [Next]_lobby => All'
  BY StepWellFormed, StepPlaced, StepBounded
<1>3. All => QueueHasRoom
  <2> SUFFICES ASSUME WellFormed(lobby), Placed(lobby), Bounded(lobby)
               PROVE  QueueHasRoom
    BY DEF Inv
  <2>1. ASSUME NEW p \in Player, seated(p)
        PROVE  ~isSeatPositionOccupied(lobby, QueueSeat)
    <3>1. Len(lobby.queue) < MaxPlayersInLobby
      BY <2>1, QueueIsShort DEF seated
    <3>2. Len(lobby.queue) \in Nat
      BY Fields, LenProperties
    <3> QED  BY <3>1, <3>2, MaxPlayersInLobbyAssumption DEF isSeatPositionOccupied
  <2> QED  BY <2>1 DEF QueueHasRoom, Bounded
<1> QED  BY <1>1, <1>2, <1>3, PTL DEF Spec

-----------------------------------------------------------------------------
(***************************************************************************)
(* The panel of the settings                                               *)
(*                                                                         *)
(* The capture of the input decides which list is open and which button    *)
(* can be down.  Captured alone is not inductive: that a release really    *)
(* lifts a button needs Sound (a button whose press is blocked is up), and *)
(* that only the host chooses needs the blocked buttons of the others.     *)
(***************************************************************************)

Mains == {mainOf(d) : d \in Dropdowns}

\* The buttons that are down.
Down(C) == {b \in Button : C[b].pressed}

Sound(C) ==
  /\ C \in [Button -> Control]
  /\ \A b \in Button : C[b].press > 0 \/ C[b].disabled => ~C[b].pressed
  /\ role = "Regular" => \A b \in Mains : C[b].press > 0

Mouse == [row : Rows \cup {Elsewhere}, down : BOOLEAN, under : Button \cup {Nothing}]

Typed ==
  /\ chosen \in [Dropdowns -> UNION {ToSet(options[d]) : d \in Dropdowns}]
  /\ \A d \in Dropdowns : chosen[d] \in ToSet(options[d])
  /\ listed = [d \in Dropdowns |-> ToSet(options[d]) \ {chosen[d]}]
  /\ isListed = [d \in Dropdowns |-> captured = mainOf(d)]
  /\ mouse \in Mouse

Captured ==
  /\ captured \in Mains \cup {Nothing}
  /\ role \in {"Host", "Regular"}
  /\ role = "Regular" => captured = Nothing
  /\ Mains \cap Down(control) \subseteq IF mouse.down THEN {captured} ELSE {}

PanelInv == Typed /\ Sound(control) /\ Captured

-----------------------------------------------------------------------------
(* Names *)

\* The first text of a button is one of its options, and none is "main".
LEMMA Texts ==
  ASSUME NEW d \in Dropdowns
  PROVE  initial[d] \in ToSet(options[d]) /\ {"main", "nothing"} \cap ToSet(options[d]) = {}
<1>. d \in {"mode", "speed", "deck"}
  BY SMT, SettingsAssumption DEF options
<1>1. CASE d = "mode"
  <2>1. options[d] = << "Classic", "Passing", "Teams" >> BY SMTT(20), <1>1 DEF options
  <2>2. initial[d] = "Classic" BY SMT, <1>1 DEF initial
  <2>3. DOMAIN options[d] = 1..3 BY SMT, <2>1
  <2>4. options[d][1] = "Classic" /\ options[d][2] = "Passing" /\ options[d][3] = "Teams" BY SMT, <2>1
  <2>5. ToSet(options[d]) = {"Classic", "Passing", "Teams"} BY SMT, <2>3, <2>4 DEF ToSet
  <2> QED BY SMT, <2>2, <2>5
<1>2. CASE d = "speed"
  <2>1. options[d] = << "NoTimer", "Slow", "Standard", "Fast" >> BY SMTT(20), <1>2 DEF options
  <2>2. initial[d] = "NoTimer" BY SMT, <1>2 DEF initial
  <2>3. DOMAIN options[d] = 1..4 BY SMT, <2>1
  <2>4. options[d][1] = "NoTimer" /\ options[d][2] = "Slow" /\ options[d][3] = "Standard" /\ options[d][4] = "Fast" BY SMT, <2>1
  <2>5. ToSet(options[d]) = {"NoTimer", "Slow", "Standard", "Fast"} BY SMT, <2>3, <2>4 DEF ToSet
  <2> QED BY SMT, <2>2, <2>5
<1>3. CASE d = "deck"
  <2>1. options[d] = << "36", "52" >> BY SMTT(20), <1>3 DEF options
  <2>2. initial[d] = "52" BY SMT, <1>3 DEF initial
  <2>3. DOMAIN options[d] = 1..2 BY SMT, <2>1
  <2>4. options[d][1] = "36" /\ options[d][2] = "52" BY SMT, <2>1
  <2>5. ToSet(options[d]) = {"36", "52"} BY SMT, <2>3, <2>4 DEF ToSet
  <2> QED BY SMT, <2>2, <2>5
<1> QED BY SMT, <1>1, <1>2, <1>3

\* A main element is told from the others, from options and from nothing.
LEMMA MainNames ==
  ASSUME NEW d \in Dropdowns
  PROVE  /\ mainOf(d) \in Button /\ mainOf(d) \in Mains /\ mainOf(d) # Nothing
         /\ mainOf(d)[1] = d /\ mainOf(d)[2] = "main"
         /\ \A e \in Dropdowns : mainOf(e) = mainOf(d) => e = d
  BY SMT DEF mainOf, Mains, Nothing, Button

\* An option is a button, and no main element.
LEMMA OptionNames ==
  ASSUME NEW d \in Dropdowns, NEW o \in ToSet(options[d])
  PROVE  /\ option(d, o) \in Button /\ option(d, o) \notin Mains /\ option(d, o) # Nothing
         /\ option(d, o)[2] = o
  BY SMT, Texts DEF option, mainOf, Mains, Nothing, Button

-----------------------------------------------------------------------------
(* One control *)

\* The pointer touches no lock and no press (UIInteractive::setHovered).
LEMMA HoveredKeeps ==
  ASSUME NEW c \in Control, NEW value \in BOOLEAN
  PROVE  /\ setHovered(c, value) \in Control
         /\ setHovered(c, value).pressed = c.pressed
         /\ setHovered(c, value).press = c.press
         /\ setHovered(c, value).disabled = c.disabled
  BY SMT DEF setHovered, Control

\* A press reaches only a control that takes presses (UIInteractive::setPressed).
LEMMA PressedKeeps ==
  ASSUME NEW c \in Control, NEW value \in BOOLEAN
  PROVE  /\ setPressed(c, value) \in Control
         /\ setPressed(c, value).press = c.press
         /\ setPressed(c, value).disabled = c.disabled
         /\ c.press > 0 \/ c.disabled => setPressed(c, value).pressed = c.pressed
         /\ ~(c.press > 0 \/ c.disabled) => setPressed(c, value).pressed = value
  BY SMT DEF setPressed, Control

\* A control that is let go of stays as pressed as it is.
LEMMA DraggedKeeps ==
  ASSUME NEW c \in Control, NEW value \in BOOLEAN
  PROVE  /\ setDragged(c, value) \in Control
         /\ setDragged(c, value).pressed = c.pressed
         /\ setDragged(c, value).press = c.press
         /\ setDragged(c, value).disabled = c.disabled
  BY SMT DEF setDragged, Control

\* The end of a capture lifts the control (UIInteractive::onCaptureEnd).
LEMMA CaptureEndedKeeps ==
  ASSUME NEW c \in Control
  PROVE  /\ captureEnded(c) \in Control
         /\ captureEnded(c).press = c.press
         /\ captureEnded(c).disabled = c.disabled
         /\ c.press > 0 \/ c.disabled => captureEnded(c).pressed = c.pressed
         /\ ~(c.press > 0 \/ c.disabled) => captureEnded(c).pressed = FALSE
<1>. DEFINE e == setPressed(c, FALSE)
<1>1. /\ e \in Control /\ e.press = c.press /\ e.disabled = c.disabled
      /\ c.press > 0 \/ c.disabled => e.pressed = c.pressed
      /\ ~(c.press > 0 \/ c.disabled) => e.pressed = FALSE
  BY PressedKeeps
<1>2. /\ setDragged(e, FALSE) \in Control
      /\ setDragged(e, FALSE).press = e.press /\ setDragged(e, FALSE).disabled = e.disabled
      /\ setDragged(e, FALSE).pressed = e.pressed
  BY <1>1, DraggedKeeps
<1>3. captureEnded(c) = setDragged(e, FALSE) BY DEF captureEnded
<1>. HIDE DEF e
<1> QED BY <1>1, <1>2, <1>3

-----------------------------------------------------------------------------
(* All controls *)

\* One control changes, its locks do not: what that does to those that are down.
LEMMA ChangeKeeps ==
  ASSUME NEW C, Sound(C), NEW b \in Button, NEW v \in Control,
         v.press = C[b].press, v.disabled = C[b].disabled,
         C[b].press > 0 \/ C[b].disabled => v.pressed = C[b].pressed
  PROVE  /\ Sound([C EXCEPT ![b] = v])
         /\ Down([C EXCEPT ![b] = v]) \subseteq Down(C) \cup {b}
         /\ ~v.pressed => Down([C EXCEPT ![b] = v]) = Down(C) \ {b}
         /\ v.pressed = C[b].pressed => Down([C EXCEPT ![b] = v]) = Down(C)
<1>. DEFINE D == [C EXCEPT ![b] = v]
<1>1. C \in [Button -> Control] BY DEF Sound
<1>2. D \in [Button -> Control] BY SMT, <1>1
<1>3. D[b] = v /\ \A x \in Button \ {b} : D[x] = C[x] BY SMT, <1>1
<1>. HIDE DEF D
<1>4. \A x \in Button : D[x].press > 0 \/ D[x].disabled => ~D[x].pressed
  <2>1. \A x \in Button : C[x].press > 0 \/ C[x].disabled => ~C[x].pressed BY DEF Sound
  <2> QED BY <1>3, <2>1
<1>5. role = "Regular" => \A x \in Mains : D[x].press > 0
  <2>1. role = "Regular" => \A x \in Mains : C[x].press > 0 BY DEF Sound
  <2>2. Mains \subseteq Button BY MainNames DEF Mains
  <2> QED BY <1>3, <2>1, <2>2
<1>6. Sound(D) BY <1>2, <1>4, <1>5 DEF Sound
<1>7. Down(D) \subseteq Down(C) \cup {b} BY <1>3 DEF Down
<1>8. ~v.pressed => Down(D) = Down(C) \ {b} BY <1>3 DEF Down
<1>9. v.pressed = C[b].pressed => Down(D) = Down(C) BY <1>3 DEF Down
<1> QED BY <1>6, <1>7, <1>8, <1>9 DEF D

\* Pointing at a button keeps the controls sound and lifts nothing.
LEMMA HoveringKeeps ==
  ASSUME NEW C, Sound(C), NEW b \in Button \cup {Nothing}, NEW value \in BOOLEAN
  PROVE  Sound(hovering(C, b, value)) /\ Down(hovering(C, b, value)) = Down(C)
<1>1. CASE b = Nothing
  BY <1>1 DEF hovering
<1>2. CASE b # Nothing
  <2>. b \in Button BY <1>2
  <2>. DEFINE v == setHovered(C[b], value)
  <2>1. hovering(C, b, value) = [C EXCEPT ![b] = v] BY <1>2 DEF hovering
  <2>2. C[b] \in Control BY DEF Sound
  <2>3. /\ v \in Control /\ v.press = C[b].press /\ v.disabled = C[b].disabled
        /\ v.pressed = C[b].pressed
    BY <2>2, HoveredKeeps
  <2>4. Sound([C EXCEPT ![b] = v]) /\ Down([C EXCEPT ![b] = v]) = Down(C)
    <3>. HIDE DEF v
    <3> QED BY <2>3, ChangeKeeps
  <2> QED BY <2>1, <2>4
<1> QED BY <1>1, <1>2

\* A press of a button brings down no other one.
LEMMA PressKeeps ==
  ASSUME NEW C, Sound(C), NEW b \in Button
  PROVE  /\ Sound([C EXCEPT ![b] = setPressed(C[b], TRUE)])
         /\ Down([C EXCEPT ![b] = setPressed(C[b], TRUE)]) \subseteq Down(C) \cup {b}
<1>1. C[b] \in Control BY DEF Sound
<1> QED BY <1>1, PressedKeeps, ChangeKeeps

\* A change that lifts a button lifts just that one.
LEMMA LiftKeeps ==
  ASSUME NEW C, Sound(C), NEW b \in Button, NEW v \in Control,
         v.press = C[b].press, v.disabled = C[b].disabled,
         C[b].press > 0 \/ C[b].disabled => v.pressed = C[b].pressed,
         ~(C[b].press > 0 \/ C[b].disabled) => v.pressed = FALSE
  PROVE  /\ Sound([C EXCEPT ![b] = v])
         /\ Down([C EXCEPT ![b] = v]) = Down(C) \ {b}
<1>1. C[b].press > 0 \/ C[b].disabled => ~C[b].pressed BY DEF Sound
<1>2. ~v.pressed BY <1>1
<1> QED BY <1>2, ChangeKeeps

\* A release of a button lifts it.
LEMMA UpKeeps ==
  ASSUME NEW C, Sound(C), NEW b \in Button
  PROVE  /\ Sound([C EXCEPT ![b] = setPressed(C[b], FALSE)])
         /\ Down([C EXCEPT ![b] = setPressed(C[b], FALSE)]) = Down(C) \ {b}
<1>. DEFINE v == setPressed(C[b], FALSE)
<1>1. C[b] \in Control BY DEF Sound
<1>2. /\ v \in Control /\ v.press = C[b].press /\ v.disabled = C[b].disabled
      /\ C[b].press > 0 \/ C[b].disabled => v.pressed = C[b].pressed
      /\ ~(C[b].press > 0 \/ C[b].disabled) => v.pressed = FALSE
  BY <1>1, PressedKeeps
<1>3. Sound([C EXCEPT ![b] = v]) /\ Down([C EXCEPT ![b] = v]) = Down(C) \ {b}
  <2>. HIDE DEF v
  <2> QED BY <1>2, LiftKeeps
<1> QED BY <1>3

\* The end of its capture lifts it.
LEMMA EndKeeps ==
  ASSUME NEW C, Sound(C), NEW b \in Button
  PROVE  /\ Sound([C EXCEPT ![b] = captureEnded(C[b])])
         /\ Down([C EXCEPT ![b] = captureEnded(C[b])]) = Down(C) \ {b}
<1>1. C[b] \in Control BY DEF Sound
<1> QED BY <1>1, CaptureEndedKeeps, LiftKeeps

-----------------------------------------------------------------------------
(* Where the mouse is *)

\* What is hit in a list is an option that an open list offers.
LEMMA HitIsOffered ==
  ASSUME Typed, NEW d \in Dropdowns, NEW row, listHit(d, row) # Nothing
  PROVE  /\ captured = mainOf(d) /\ isListed[d]
         /\ listHit(d, row) \in Button \ Mains
         /\ listHit(d, row)[2] \in listed[d]
<1>. DEFINE hit == {o \in listed[d] : isListed[d] /\ rowOfOption(d, o) = row}
            o == CHOOSE x \in hit : TRUE
<1>1. hit # {} /\ listHit(d, row) = option(d, o) BY DEF listHit
<1>2. o \in hit BY <1>1
<1>. HIDE DEF o
<1>3. o \in listed[d] /\ isListed[d] BY <1>2
<1>4. o \in ToSet(options[d]) BY <1>3 DEF Typed
<1>5. captured = mainOf(d) BY <1>3 DEF Typed
<1> QED BY <1>1, <1>3, <1>4, <1>5, OptionNames

\* The element under the mouse is a button or nothing.
LEMMA ElementIsButton ==
  ASSUME Typed, NEW row
  PROVE  elementAt(row) \in Button \cup {Nothing}
<1>. DEFINE inLists == {listHit(d, row) : d \in Dropdowns} \ {Nothing}
            mains == {mainOf(d) : d \in {x \in Dropdowns : mainHit(x, row)}}
<1>1. inLists \subseteq Button BY HitIsOffered
<1>2. mains \subseteq Button BY MainNames
<1>3. elementAt(row) = CASE inLists # {} -> CHOOSE b \in inLists : TRUE
                         [] mains # {}   -> CHOOSE b \in mains : TRUE
                         [] OTHER        -> Nothing
  BY DEF elementAt
<1>. HIDE DEF inLists, mains
<1>4. CASE inLists # {}
  <2>1. (CHOOSE b \in inLists : TRUE) \in inLists BY <1>4
  <2>2. CASE mains = {} BY <1>1, <1>3, <1>4, <2>1, <2>2
  <2>3. CASE mains # {} BY <1>1, <1>2, <1>3, <1>4, <2>1, <2>3
  <2> QED BY <2>2, <2>3
<1>5. CASE inLists = {} /\ mains # {}
  <2>1. (CHOOSE b \in mains : TRUE) \in mains BY <1>5
  <2> QED BY <1>2, <1>3, <1>5, <2>1
<1>6. CASE inLists = {} /\ mains = {} BY <1>3, <1>6
<1> QED BY <1>4, <1>5, <1>6

\* A moving mouse only points (the dropdown's setOnInputUpdate).
LEMMA InputUpdateKeeps ==
  ASSUME Sound(control), NEW d \in Dropdowns, NEW row
  PROVE  Sound(inputUpdate(d, row)) /\ Down(inputUpdate(d, row)) = Down(control)
<1>. DEFINE D == inputUpdate(d, row)
<1>1. \A b \in Button : D[b] \in {control[b], setHovered(control[b], TRUE), setHovered(control[b], FALSE)}
  BY DEF inputUpdate
<1>2. DOMAIN D = Button /\ D = [b \in Button |-> D[b]] BY DEF inputUpdate
<1>. HIDE DEF D
<1>3. \A b \in Button : /\ D[b] \in Control /\ D[b].pressed = control[b].pressed
                        /\ D[b].press = control[b].press /\ D[b].disabled = control[b].disabled
  <2>. SUFFICES ASSUME NEW b \in Button
                PROVE  /\ D[b] \in Control /\ D[b].pressed = control[b].pressed
                       /\ D[b].press = control[b].press /\ D[b].disabled = control[b].disabled
    OBVIOUS
  <2>1. control[b] \in Control BY DEF Sound
  <2> QED BY <1>1, <2>1, HoveredKeeps
<1>4. D \in [Button -> Control] BY <1>2, <1>3
<1>5. \A b \in Button : D[b].press > 0 \/ D[b].disabled => ~D[b].pressed
  <2>1. \A b \in Button : control[b].press > 0 \/ control[b].disabled => ~control[b].pressed BY DEF Sound
  <2> QED BY <1>3, <2>1
<1>6. role = "Regular" => \A b \in Mains : D[b].press > 0
  <2>1. role = "Regular" => \A b \in Mains : control[b].press > 0 BY DEF Sound
  <2>2. Mains \subseteq Button BY MainNames DEF Mains
  <2> QED BY <1>3, <2>1, <2>2
<1>7. Sound(D) BY <1>4, <1>5, <1>6 DEF Sound
<1>8. Down(D) = Down(control) BY <1>3 DEF Down
<1> QED BY <1>7, <1>8 DEF D

-----------------------------------------------------------------------------
(* The steps *)

\* A blocked button takes no press (UIInteractive::blockInteraction).
LEMMA BlockedIsBlocked ==
  ASSUME NEW c \in Control, ~c.pressed
  PROVE  /\ blockInteraction(c) \in Control
         /\ ~blockInteraction(c).pressed /\ blockInteraction(c).press > 0
<1>. DEFINE h == blockHover(c)
            p == blockPress(h)
            k == blockClick(p)
            g == blockDrag(k)
<1>1. h \in Control /\ h.pressed = c.pressed
  <2>1. \A e \in Control : [e EXCEPT !.hover = @ + 1] \in Control
                           /\ [e EXCEPT !.hover = @ + 1].pressed = e.pressed
    BY SMT DEF Control
  <2> QED BY <2>1, HoveredKeeps DEF blockHover
<1>. HIDE DEF h
<1>2. p \in Control /\ ~p.pressed /\ p.press > 0
  <2>1. \A e \in Control : [e EXCEPT !.press = @ + 1] \in Control
                           /\ [e EXCEPT !.press = @ + 1].pressed = e.pressed
                           /\ [e EXCEPT !.press = @ + 1].press > 0
    BY SMT DEF Control
  <2>2. setPressed(h, FALSE) \in Control /\ ~setPressed(h, FALSE).pressed BY <1>1, PressedKeeps
  <2> QED BY <2>1, <2>2 DEF blockPress
<1>. HIDE DEF p
<1>3. k \in Control /\ ~k.pressed /\ k.press > 0
  <2>1. \A e \in Control : [e EXCEPT !.click = @ + 1] \in Control
                           /\ [e EXCEPT !.click = @ + 1].pressed = e.pressed
                           /\ [e EXCEPT !.click = @ + 1].press = e.press
    BY SMT DEF Control
  <2> QED BY <1>2, <2>1 DEF blockClick
<1>. HIDE DEF k
<1>4. g \in Control /\ ~g.pressed /\ g.press > 0
  <2>1. \A e \in Control : [e EXCEPT !.drag = @ + 1] \in Control
                           /\ [e EXCEPT !.drag = @ + 1].pressed = e.pressed
                           /\ [e EXCEPT !.drag = @ + 1].press = e.press
    BY SMT DEF Control
  <2>2. /\ setDragged(k, FALSE) \in Control
        /\ setDragged(k, FALSE).pressed = k.pressed /\ setDragged(k, FALSE).press = k.press
    BY <1>3, DraggedKeeps
  <2> QED BY <1>3, <2>1, <2>2 DEF blockDrag
<1>5. blockInteraction(c) = [g EXCEPT !.disabled = TRUE] BY DEF blockInteraction, g, k, p, h
<1>. HIDE DEF g
<1>6. \A v \in BOOLEAN : /\ [g EXCEPT !.disabled = v] \in Control
                         /\ [g EXCEPT !.disabled = v].pressed = g.pressed
                         /\ [g EXCEPT !.disabled = v].press = g.press
  BY SMT, <1>4 DEF Control
<1> QED BY <1>4, <1>5, <1>6

\* Nothing is captured and nothing is down at first.
LEMMA InitInv == SettingsInit => PanelInv
<1>. SUFFICES ASSUME SettingsInit PROVE PanelInv OBVIOUS
<1>1. fresh \in Control /\ ~fresh.pressed BY SMT DEF fresh, newControl, Control
<1>2. /\ blockInteraction(fresh) \in Control /\ ~blockInteraction(fresh).pressed
      /\ blockInteraction(fresh).press > 0
  BY <1>1, BlockedIsBlocked
<1>3. \A b \in Button : /\ control[b] \in Control /\ ~control[b].pressed
                        /\ role = "Regular" /\ b[2] = "main" => control[b].press > 0
  BY <1>1, <1>2 DEF SettingsInit
<1>4. control \in [Button -> Control] BY <1>3 DEF SettingsInit
<1>5. \A b \in Mains : b \in Button /\ b[2] = "main" BY MainNames DEF Mains
<1>6. Sound(control) BY <1>3, <1>4, <1>5 DEF Sound
<1>7. Down(control) = {} BY <1>3 DEF Down
<1>8. Typed
  <2>1. \A d \in Dropdowns : mainOf(d) # Nothing BY MainNames
  <2>2. \A d \in Dropdowns : chosen[d] = initial[d] /\ initial[d] \in ToSet(options[d])
    BY Texts DEF SettingsInit
  <2>3. chosen \in [Dropdowns -> UNION {ToSet(options[d]) : d \in Dropdowns}]
    BY <2>2 DEF SettingsInit
  <2>4. listed = [d \in Dropdowns |-> ToSet(options[d]) \ {chosen[d]}] BY <2>2 DEF SettingsInit
  <2>5. isListed = [d \in Dropdowns |-> captured = mainOf(d)] BY <2>1 DEF SettingsInit
  <2>6. mouse \in Mouse BY DEF SettingsInit, Mouse
  <2> QED BY <2>2, <2>3, <2>4, <2>5, <2>6 DEF Typed
<1>9. Captured BY <1>7, SettingsAssumption DEF SettingsInit, Captured
<1> QED BY <1>6, <1>8, <1>9 DEF PanelInv

\* A record whose row and element change keeps its button.
LEMMA TwoFieldsChange ==
  ASSUME NEW R, NEW B, NEW m \in [row : R, down : BOOLEAN, under : B], NEW row \in R, NEW b \in B
  PROVE  /\ [m EXCEPT !.row = row, !.under = b] \in [row : R, down : BOOLEAN, under : B]
         /\ [m EXCEPT !.row = row, !.under = b].down = m.down
<1>1. [m EXCEPT !.row = row, !.under = b] \in [row : R, down : BOOLEAN, under : B]
  <2>. DEFINE n == [m EXCEPT !.row = row]
  <2>1. n \in [row : R, down : BOOLEAN, under : B] BY SMT
  <2>2. [m EXCEPT !.row = row, !.under = b] = [n EXCEPT !.under = b] BY SMT
  <2>. HIDE DEF n
  <2>3. [n EXCEPT !.under = b] \in [row : R, down : BOOLEAN, under : B] BY SMT, <2>1
  <2> QED BY <2>2, <2>3
<1>2. [m EXCEPT !.row = row, !.under = b].down = m.down BY SMT
<1> QED BY <1>1, <1>2

\* The mouse moves to a row and an element.
LEMMA MouseMoves ==
  ASSUME NEW m \in Mouse, NEW row \in Rows, NEW b \in Button \cup {Nothing}
  PROVE  /\ [m EXCEPT !.row = row, !.under = b] \in Mouse
         /\ [m EXCEPT !.row = row, !.under = b].down = m.down
  BY TwoFieldsChange DEF Mouse

\* The mouse moves.
LEMMA MouseInputUpdateInv ==
  ASSUME PanelInv, MouseInputUpdate
  PROVE  PanelInv'
<1>. USE DEF PanelInv
<1>1. PICK row \in Rows :
        CASE captured # Nothing ->
               control' = inputUpdate(captured[1], row) /\ mouse' = [mouse EXCEPT !.row = row]
          [] captured = Nothing /\ mouse.under # Nothing /\ control[mouse.under].pressed ->
               UNCHANGED control /\ mouse' = [mouse EXCEPT !.row = row]
          [] OTHER ->
               LET b == elementAt(row)
               IN  /\ mouse' = [mouse EXCEPT !.row = row, !.under = b]
                   /\ control' = IF b = mouse.under THEN hovering(control, b, TRUE)
                                 ELSE hovering(hovering(control, mouse.under, FALSE), b, TRUE)
  BY DEF MouseInputUpdate
<1>2. mouse \in Mouse /\ mouse.under \in Button \cup {Nothing} BY DEF Typed, Mouse
<1>3. /\ mouse' \in Mouse /\ mouse'.down = mouse.down
      /\ Sound(control') /\ Down(control') = Down(control)
  <2>1. CASE captured # Nothing
    <3>1. PICK d \in Dropdowns : captured = mainOf(d) BY <2>1 DEF Captured, Mains
    <3>2. captured[1] = d BY <3>1, MainNames
    <3>3. control' = inputUpdate(d, row) /\ mouse' = [mouse EXCEPT !.row = row] BY <1>1, <2>1, <3>2
    <3>4. mouse' \in Mouse /\ mouse'.down = mouse.down BY SMT, <1>2, <3>3 DEF Mouse
    <3> QED BY <3>3, <3>4, InputUpdateKeeps
  <2>2. CASE captured = Nothing /\ mouse.under # Nothing /\ control[mouse.under].pressed
    <3>1. UNCHANGED control /\ mouse' = [mouse EXCEPT !.row = row] BY <1>1, <2>2
    <3>2. mouse' \in Mouse /\ mouse'.down = mouse.down BY SMT, <1>2, <3>1 DEF Mouse
    <3> QED BY <3>1, <3>2
  <2>3. CASE captured = Nothing /\ ~(mouse.under # Nothing /\ control[mouse.under].pressed)
    <3>. DEFINE b == elementAt(row)
    <3>1. /\ mouse' = [mouse EXCEPT !.row = row, !.under = b]
          /\ control' = IF b = mouse.under THEN hovering(control, b, TRUE)
                        ELSE hovering(hovering(control, mouse.under, FALSE), b, TRUE)
      BY <1>1, <2>3
    <3>2. b \in Button \cup {Nothing} BY ElementIsButton
    <3>. HIDE DEF b
    <3>3. mouse' \in Mouse /\ mouse'.down = mouse.down BY <1>2, <3>1, <3>2, MouseMoves
    <3>4. Sound(hovering(control, b, TRUE)) /\ Down(hovering(control, b, TRUE)) = Down(control)
      BY <3>2, HoveringKeeps
    <3>. DEFINE C == hovering(control, mouse.under, FALSE)
    <3>5. Sound(C) /\ Down(C) = Down(control) BY <1>2, HoveringKeeps
    <3>6. Sound(hovering(C, b, TRUE)) /\ Down(hovering(C, b, TRUE)) = Down(C)
      <4>. HIDE DEF C
      <4> QED BY <3>2, <3>5, HoveringKeeps
    <3> QED BY <3>1, <3>3, <3>4, <3>5, <3>6
  <2> QED BY <2>1, <2>2, <2>3
<1>4. UNCHANGED <<role, chosen, listed, isListed, captured>> BY DEF MouseInputUpdate
<1>5. Sound(control)' BY <1>3, <1>4 DEF Sound
<1>6. Typed' BY <1>3, <1>4 DEF Typed
<1>7. Captured' BY <1>3, <1>4 DEF Captured, Down
<1> QED BY <1>5, <1>6, <1>7

\* Pressing and releasing the mouse moves nothing but its button.
LEMMA MouseButton ==
  ASSUME mouse \in Mouse, NEW v \in BOOLEAN
  PROVE  [mouse EXCEPT !.down = v] \in Mouse /\ [mouse EXCEPT !.down = v].down = v
<1>1. [mouse EXCEPT !.down = v] \in Mouse BY SMT DEF Mouse
<1>2. [mouse EXCEPT !.down = v].down = v BY SMT DEF Mouse
<1> QED BY <1>1, <1>2

(***************************************************************************)
(* However a capture ends (InputCapture::release), the list is closed and  *)
(* no main element is down.                                                *)
(***************************************************************************)
LEMMA ReleaseCloses ==
  ASSUME Typed, UNCHANGED role, NEW d \in Dropdowns, captured = mainOf(d),
         NEW C, Sound(C), Mains \cap Down(C) \subseteq {captured}, releaseInput(d, C)
  PROVE  /\ Sound(control)' /\ captured' = Nothing /\ Mains \cap Down(control') = {}
         /\ isListed' = [e \in Dropdowns |-> captured' = mainOf(e)]
<1>. DEFINE D == [C EXCEPT ![mainOf(d)] = captureEnded(C[mainOf(d)])]
<1>1. control' = D /\ captured' = Nothing /\ isListed' = [isListed EXCEPT ![d] = FALSE]
  BY DEF releaseInput
<1>2. Sound(D) /\ Down(D) = Down(C) \ {mainOf(d)} BY MainNames, EndKeeps
<1>. HIDE DEF D
<1>3. Sound(control)' BY <1>1, <1>2 DEF Sound
<1>4. Mains \cap Down(control') = {} BY <1>1, <1>2
<1>5. \A e \in Dropdowns : mainOf(e) # Nothing /\ (captured = mainOf(e) => e = d) BY MainNames
<1>6. isListed = [e \in Dropdowns |-> captured = mainOf(e)] BY DEF Typed
<1>7. isListed' = [e \in Dropdowns |-> FALSE] BY <1>1, <1>5, <1>6
<1>8. isListed' = [e \in Dropdowns |-> captured' = mainOf(e)] BY <1>1, <1>5, <1>7
<1> QED BY <1>1, <1>3, <1>4, <1>8

\* The mouse is pressed: a capture ends, begins, or stays.
LEMMA MousePressedInv ==
  ASSUME PanelInv, MousePressed
  PROVE  PanelInv'
<1>. USE DEF PanelInv
<1>1. UNCHANGED <<role, chosen, listed>> /\ mouse' = [mouse EXCEPT !.down = TRUE] /\ ~mouse.down
  BY DEF MousePressed
<1>2. mouse' \in Mouse /\ mouse'.down = TRUE BY <1>1, MouseButton DEF Typed
<1>3. Mains \cap Down(control) = {} BY <1>1 DEF Captured
<1>4. /\ Sound(control)' /\ captured' \in Mains \cup {Nothing}
      /\ role = "Regular" => captured' = Nothing
      /\ Mains \cap Down(control') \subseteq {captured'}
      /\ isListed' = [e \in Dropdowns |-> captured' = mainOf(e)]
  <2>1. CASE captured # Nothing
    <3>1. PICK d \in Dropdowns : captured = mainOf(d) BY <2>1 DEF Captured, Mains
    <3>2. role # "Regular" BY <2>1 DEF Captured
    <3>3. pressedCaptured(d) BY <2>1, <3>1, MainNames DEF MousePressed
    <3>. DEFINE hit == listHit(d, mouse.row)
    <3>4. CASE hit # Nothing
      <4>1. control' = down(hit) /\ UNCHANGED <<isListed, captured>> BY <3>3, <3>4 DEF pressedCaptured
      <4>2. hit \in Button \ Mains BY <3>4, HitIsOffered
      <4>. HIDE DEF hit
      <4>3. Sound(control') /\ Down(control') \subseteq Down(control) \cup {hit}
        BY <4>1, <4>2, PressKeeps DEF down
      <4>4. Sound(control)' BY <1>1, <4>3 DEF Sound
      <4> QED BY <1>3, <4>1, <4>2, <4>3, <4>4 DEF Typed, Captured
    <3>5. CASE hit = Nothing /\ mainHit(d, mouse.row)
      <4>1. releaseInput(d, down(mainOf(d))) BY <3>3, <3>5 DEF pressedCaptured
      <4>. DEFINE C == down(mainOf(d))
      <4>2. Sound(C) /\ Down(C) \subseteq Down(control) \cup {mainOf(d)}
        BY MainNames, PressKeeps DEF down
      <4>. HIDE DEF C
      <4>3. Mains \cap Down(C) \subseteq {captured} BY <1>3, <3>1, <4>2
      <4>4. releaseInput(d, C) BY <4>1 DEF C
      <4> QED BY <1>1, <3>1, <4>2, <4>3, <4>4, ReleaseCloses
    <3>6. CASE hit = Nothing /\ ~mainHit(d, mouse.row)
      <4>1. releaseInput(d, control) BY <3>3, <3>6 DEF pressedCaptured
      <4> QED BY <1>1, <1>3, <3>1, <4>1, ReleaseCloses
    <3> QED BY <3>4, <3>5, <3>6
  <2>2. CASE captured = Nothing /\ usable(mouse.under)
    <3>. DEFINE b == mouse.under
    <3>1. pressedFree(b) BY <2>2 DEF MousePressed
    <3>2. b \in Button BY <2>2 DEF usable, Typed, Mouse
    <3>3. control[b].press = 0 BY <2>2 DEF usable, canBePressed
    <3>. HIDE DEF b
    <3>4. control' = down(b) BY <3>1 DEF pressedFree
    <3>5. Sound(control') /\ Down(control') \subseteq Down(control) \cup {b}
      BY <3>2, <3>4, PressKeeps DEF down
    <3>6. Sound(control)' BY <1>1, <3>5 DEF Sound
    <3>7. CASE b[2] = "main"
      <4>1. captured' = b /\ isListed' = [isListed EXCEPT ![b[1]] = TRUE]
        BY <3>1, <3>7 DEF pressedFree
      <4>2. \A d \in Dropdowns : \A o \in ToSet(options[d]) : option(d, o)[2] # "main"
        BY OptionNames, Texts
      <4>3. PICK d \in Dropdowns : b = mainOf(d) BY <3>2, <3>7, <4>2 DEF Button
      <4>4. b \in Mains /\ b[1] = d BY <4>3, MainNames
      <4>5. role # "Regular" BY SMT, <3>3, <4>4 DEF Sound
      <4>6. \A e \in Dropdowns : (captured = mainOf(e)) = FALSE /\ (b = mainOf(e)) = (e = d)
        BY <2>2, <4>3, MainNames
      <4>7. isListed = [e \in Dropdowns |-> FALSE] BY <4>6 DEF Typed
      <4>8. isListed' = [e \in Dropdowns |-> e = d] BY <4>1, <4>4, <4>7
      <4>9. isListed' = [e \in Dropdowns |-> captured' = mainOf(e)] BY <4>1, <4>6, <4>8
      <4> QED BY <1>3, <3>5, <3>6, <4>1, <4>4, <4>5, <4>9
    <3>8. CASE b[2] # "main"
      <4>1. UNCHANGED <<captured, isListed>> BY <3>1, <3>8 DEF pressedFree
      <4>2. b \notin Mains BY <3>8, MainNames DEF Mains
      <4> QED BY <1>3, <3>5, <3>6, <4>1, <4>2 DEF Typed, Captured
    <3> QED BY <3>7, <3>8
  <2>3. CASE captured = Nothing /\ ~usable(mouse.under)
    <3>1. UNCHANGED <<control, isListed, captured>> BY <2>3 DEF MousePressed
    <3>2. Sound(control)' BY <1>1, <3>1 DEF Sound
    <3> QED BY <1>3, <3>1, <3>2 DEF Typed, Captured
  <2> QED BY <2>1, <2>2, <2>3
<1>5. Typed' BY <1>1, <1>2, <1>4 DEF Typed
<1>6. Captured' BY <1>1, <1>2, <1>4 DEF Captured, Down
<1> QED BY <1>4, <1>5, <1>6

(***************************************************************************)
(* A release while a list is open (setOnHandleEvents of the dropdown):     *)
(* the option under the mouse is chosen, or the button is lifted.          *)
(***************************************************************************)
LEMMA ReleaseChooses ==
  ASSUME PanelInv, UNCHANGED role, NEW d \in Dropdowns, captured = mainOf(d), releasedCaptured(d)
  PROVE  /\ Sound(control)' /\ captured' \in {captured, Nothing} /\ Mains \cap Down(control') = {}
         /\ isListed' = [e \in Dropdowns |-> captured' = mainOf(e)]
         /\ \/ UNCHANGED <<chosen, listed>>
            \/ \E o \in listed[d] : isListed[d] /\ captured' = Nothing /\ chooses(d, o)
<1>. USE DEF PanelInv
<1>. DEFINE hit == listHit(d, mouse.row)
<1>1. Mains \cap Down(control) \subseteq {captured} BY DEF Captured
<1>2. CASE hit = Nothing
  <2>1. control' = up(mainOf(d)) /\ UNCHANGED <<chosen, listed, isListed, captured>>
    BY <1>2 DEF releasedCaptured
  <2>2. Sound(control') /\ Down(control') = Down(control) \ {mainOf(d)}
    BY <2>1, MainNames, UpKeeps DEF up
  <2>3. Sound(control)' BY <2>2 DEF Sound
  <2> QED BY <1>1, <2>1, <2>2, <2>3 DEF Typed
<1>3. CASE hit # Nothing
  <2>1. chooses(d, hit[2]) /\ releaseInput(d, up(hit)) BY <1>3 DEF releasedCaptured
  <2>2. hit \in Button \ Mains /\ hit[2] \in listed[d] /\ isListed[d] BY <1>3, HitIsOffered
  <2>. HIDE DEF hit
  <2>. DEFINE C == up(hit)
  <2>3. Sound(C) /\ Down(C) = Down(control) \ {hit} BY <2>2, UpKeeps DEF up
  <2>4. releaseInput(d, C) BY <2>1
  <2>. HIDE DEF C
  <2>5. Mains \cap Down(C) \subseteq {captured} BY <1>1, <2>3
  <2>6. /\ Sound(control)' /\ captured' = Nothing /\ Mains \cap Down(control') = {}
        /\ isListed' = [e \in Dropdowns |-> captured' = mainOf(e)]
    BY <2>3, <2>4, <2>5, ReleaseCloses
  <2> QED BY <2>1, <2>2, <2>6
<1> QED BY <1>2, <1>3

\* A choice keeps the list complementary (setOnListBoxChildAction).
LEMMA ChoosesTyped ==
  ASSUME Typed, NEW d \in Dropdowns, NEW o \in listed[d], chooses(d, o)
  PROVE  /\ chosen' \in [Dropdowns -> UNION {ToSet(options[e]) : e \in Dropdowns}]
         /\ \A e \in Dropdowns : chosen'[e] \in ToSet(options[e])
         /\ listed' = [e \in Dropdowns |-> ToSet(options[e]) \ {chosen'[e]}]
         /\ \A e \in Dropdowns : e # d => chosen'[e] = chosen[e]
         /\ chosen'[d] = o
<1>1. o \in ToSet(options[d]) BY DEF Typed
<1>2. chosen' = [chosen EXCEPT ![d] = o] /\ listed' = [listed EXCEPT ![d] = ToSet(options[d]) \ {o}]
  BY DEF chooses
<1>3. chosen' \in [Dropdowns -> UNION {ToSet(options[e]) : e \in Dropdowns}] BY <1>1, <1>2 DEF Typed
<1>4. chosen'[d] = o /\ \A e \in Dropdowns : e # d => chosen'[e] = chosen[e] BY <1>2 DEF Typed
<1>5. \A e \in Dropdowns : chosen'[e] \in ToSet(options[e]) BY <1>1, <1>4 DEF Typed
<1>6. \A e \in Dropdowns : listed'[e] = ToSet(options[e]) \ {chosen'[e]} BY <1>2, <1>4 DEF Typed
<1>7. listed' = [e \in Dropdowns |-> listed'[e]] BY <1>2 DEF Typed
<1>8. listed' = [e \in Dropdowns |-> ToSet(options[e]) \ {chosen'[e]}] BY <1>6, <1>7
<1> QED BY <1>3, <1>4, <1>5, <1>8

\* The mouse is released: an option is chosen, or a button lifted.
LEMMA MouseReleasedInv ==
  ASSUME PanelInv, MouseReleased
  PROVE  PanelInv'
<1>. USE DEF PanelInv
<1>1. UNCHANGED role /\ mouse' = [mouse EXCEPT !.down = FALSE] BY DEF MouseReleased
<1>2. mouse' \in Mouse /\ mouse'.down = FALSE BY <1>1, MouseButton DEF Typed
<1>3. CASE captured # Nothing
  <2>1. PICK d \in Dropdowns : captured = mainOf(d) BY <1>3 DEF Captured, Mains
  <2>2. releasedCaptured(d) BY <1>3, <2>1, MainNames DEF MouseReleased
  <2>3. /\ Sound(control)' /\ captured' \in {captured, Nothing} /\ Mains \cap Down(control') = {}
        /\ isListed' = [e \in Dropdowns |-> captured' = mainOf(e)]
        /\ \/ UNCHANGED <<chosen, listed>>
           \/ \E o \in listed[d] : isListed[d] /\ captured' = Nothing /\ chooses(d, o)
    BY <1>1, <2>1, <2>2, ReleaseChooses
  <2>4. /\ chosen' \in [Dropdowns -> UNION {ToSet(options[e]) : e \in Dropdowns}]
        /\ \A e \in Dropdowns : chosen'[e] \in ToSet(options[e])
        /\ listed' = [e \in Dropdowns |-> ToSet(options[e]) \ {chosen'[e]}]
    <3>1. CASE UNCHANGED <<chosen, listed>> BY <3>1 DEF Typed
    <3>2. CASE \E o \in listed[d] : chooses(d, o) BY <3>2, ChoosesTyped
    <3> QED BY <2>3, <3>1, <3>2
  <2>5. Typed' BY <1>2, <2>3, <2>4 DEF Typed
  <2>6. Captured' BY <1>1, <1>2, <2>3 DEF Captured, Down
  <2> QED BY <2>3, <2>5, <2>6
<1>4. CASE captured = Nothing
  <2>1. Mains \cap Down(control) = {} BY <1>4, MainNames DEF Captured, Mains
  <2>2. /\ UNCHANGED <<chosen, listed, isListed, captured>>
        /\ Sound(control') /\ Down(control') \subseteq Down(control)
    <3>1. CASE usable(mouse.under)
      <4>1. releasedFree(mouse.under) BY <1>4, <3>1 DEF MouseReleased
      <4>2. mouse.under \in Button BY <3>1 DEF usable, Typed, Mouse
      <4> QED BY <4>1, <4>2, UpKeeps DEF releasedFree, up
    <3>2. CASE ~usable(mouse.under)
      BY <1>4, <3>2 DEF MouseReleased, panelVars
    <3> QED BY <3>1, <3>2
  <2>3. Sound(control)' BY <1>1, <2>2 DEF Sound
  <2>4. Typed' BY <1>2, <2>2 DEF Typed
  <2>5. Captured' BY <1>1, <1>2, <2>1, <2>2 DEF Captured, Down
  <2> QED BY <2>3, <2>4, <2>5
<1> QED BY <1>3, <1>4

\* The invariant is inductive: one action per case.
LEMMA NextInv == PanelInv /\ [SettingsNext]_vars => PanelInv'
<1>. SUFFICES ASSUME PanelInv, [SettingsNext]_vars PROVE PanelInv' OBVIOUS
<1>1. CASE MouseInputUpdate BY <1>1, MouseInputUpdateInv
<1>2. CASE MousePressed BY <1>2, MousePressedInv
<1>3. CASE MouseReleased BY <1>3, MouseReleasedInv
<1>4. CASE EndOfInput \/ UNCHANGED vars
  <2>1. UNCHANGED <<role, chosen, listed, isListed, control, captured, mouse>>
    BY <1>4 DEF EndOfInput, vars, panelVars
  <2> QED BY <2>1 DEF PanelInv, Typed, Sound, Captured, Down
<1> QED BY <1>1, <1>2, <1>3, <1>4 DEF SettingsNext

\* The invariant holds in every behaviour.
LEMMA InvAlways == SettingsSpec => []PanelInv
  BY InitInv, NextInv, PTL DEF SettingsSpec

-----------------------------------------------------------------------------
(* The theorems *)

\* The controls, the capture and the texts have their type, whatever the mouse does.
THEOREM PanelTypeCorrect == SettingsSpec => []PanelTypeOK
<1>1. PanelInv => PanelTypeOK
  <2>. SUFFICES ASSUME PanelInv PROVE PanelTypeOK OBVIOUS
  <2>1. Mains \subseteq Button BY MainNames DEF Mains
  <2>2. \A d \in Dropdowns : listed[d] \subseteq ToSet(options[d]) BY DEF PanelInv, Typed
  <2> QED BY <2>1, <2>2 DEF PanelInv, Typed, Sound, Captured, Mouse, PanelTypeOK
<1> QED BY <1>1, InvAlways, PTL

\* A list is open just while its button has the capture (Dropdown's setOnMouseDown
\* and setOnCaptureEnd), however the capture began and ended.
THEOREM ListsFollowCapture == SettingsSpec => []OpenIsCaptured
<1>1. PanelInv => OpenIsCaptured BY DEF PanelInv, Typed, OpenIsCaptured
<1> QED BY <1>1, InvAlways, PTL

\* A list offers what its button does not show (setOnListBoxChildAction).
THEOREM ListsOfferTheRest == SettingsSpec => []ListOffersTheRest
<1>1. PanelInv => ListOffersTheRest BY DEF PanelInv, Typed, ListOffersTheRest
<1> QED BY <1>1, InvAlways, PTL

\* No main element stays down after the mouse or the capture is gone
\* (UIInteractive::onCaptureEnd, IScene::handleEvents).
THEOREM NoMainStaysDown == SettingsSpec => []MainIsHeld
<1>1. PanelInv => MainIsHeld
  <2>. SUFFICES ASSUME PanelInv, NEW d \in Dropdowns, control[mainOf(d)].pressed
                PROVE  mouse.down /\ captured = mainOf(d)
    BY DEF MainIsHeld
  <2>1. mainOf(d) \in Mains \cap Down(control) BY MainNames DEF Down
  <2> QED BY <2>1 DEF PanelInv, Captured
<1> QED BY <1>1, InvAlways, PTL

\* The four of them together: what the mouse and the captures never bring out of step
\* (Dropdown::init, UIInteractive::onCaptureEnd).
THEOREM PanelStaysConsistent == SettingsSpec => []PanelConsistent
<1>1. PanelTypeOK /\ OpenIsCaptured /\ ListOffersTheRest /\ MainIsHeld => PanelConsistent
  BY DEF PanelConsistent
<1> QED BY <1>1, PanelTypeCorrect, ListsFollowCapture, ListsOfferTheRest, NoMainStaysDown, PTL

\* Only the host chooses, and only what an open list offers, which then closes.
THEOREM HostChoosesFromOpenList == SettingsSpec => ChoiceFromOpenList
<1>. DEFINE A == \A d \in Dropdowns : chosen'[d] # chosen[d] =>
                   role = "Host" /\ isListed[d] /\ chosen'[d] \in listed[d] /\ ~isListed'[d]
<1>1. PanelInv /\ [SettingsNext]_vars => [A]_vars
  <2>. SUFFICES ASSUME PanelInv, SettingsNext, NEW e \in Dropdowns, chosen'[e] # chosen[e]
                PROVE  role = "Host" /\ isListed[e] /\ chosen'[e] \in listed[e] /\ ~isListed'[e]
    OBVIOUS
  <2>1. MouseReleased
    BY DEF SettingsNext, MouseInputUpdate, MousePressed, EndOfInput, panelVars
  <2>2. captured # Nothing
    BY <2>1 DEF MouseReleased, releasedFree, panelVars
  <2>3. PICK d \in Dropdowns : captured = mainOf(d) BY <2>2 DEF PanelInv, Captured, Mains
  <2>4. releasedCaptured(d) BY <2>1, <2>2, <2>3, MainNames DEF MouseReleased
  <2>5. UNCHANGED role BY <2>1 DEF MouseReleased
  <2>6. PICK o \in listed[d] : isListed[d] /\ captured' = Nothing /\ chooses(d, o)
    BY <2>3, <2>4, <2>5, ReleaseChooses
  <2>7. e = d /\ chosen'[e] = o BY <2>6, ChoosesTyped DEF PanelInv
  <2>8. isListed' = [x \in Dropdowns |-> captured' = mainOf(x)]
    BY <2>3, <2>4, <2>5, ReleaseChooses
  <2>9. ~isListed'[e] BY <2>6, <2>8, MainNames
  <2>10. role = "Host" BY <2>2 DEF PanelInv, Captured
  <2> QED BY <2>6, <2>7, <2>9, <2>10
<1> QED BY <1>1, InvAlways, PTL DEF SettingsSpec, ChoiceFromOpenList

=============================================================================
