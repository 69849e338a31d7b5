# Durak: a TLA+ model of the program

Durak is a card game for two to four players over TCP, written in C++23 with
SFML. At this commit the program has a menu and a lobby: players connect, take
seats, wait in a queue, and the host sets the size of the table and opens or
closes the door. The rules of the game are written, but nobody calls them yet.
This directory holds TLA+ modules of all of it, TLC configurations for small
instances and TLAPS proofs for all instances. `PROJECT.json` lists the runs,
the source lines behind every definition, the mutants, the findings and the
hazards.

Run a check with `tlc -workers 2 -config MCLobbyServer.cfg MCLobbyServer.tla`,
a proof with `tlapm LobbyProofs.tla`.

## The system

Paths are relative to `src/source/`.

Every process runs one thread: the loop of `Source.cpp:44-68` receives
packets, handles mouse and window events, dispatches the queued internal
events, updates, cleans up and sends. No handler is interrupted, so a handler
is one step of a model. The process of the host holds both the `Server` and a
`ClientModel`; the others hold a `ClientModel`. Processes talk over TCP only:
nothing is shared.

| Component | State | Operations | What makes it correct |
|---|---|---|---|
| Seat map (`states/SeatPositionsState`) | seat -> player and player -> seat | assign, swap, erase | the two maps are inverse |
| Server lobby (`states/server/LobbyState`, `game/LobbyLogic`) | seat map, queue of ids, profiles, door, table size, host | connect, disconnect, move, swap, table size, door | every player is in one place; nobody sits beyond the table; only the host moves others; the queue has room |
| Server sessions (`network/Server`, `ClientSession`) | sessions, tokens, profiles, marks and timers, sending queues | accept, hello, refuse, mark, erase, broadcast | one session stays per player; who returns is let in; every hello is answered; marked sessions go; clients that refuse nothing know the members |
| Client lobby (`states/client/ClientLobbyState`, `game/ClientLobbyLogic`) | a copy of the lobby | apply a notification, apply the user's own request | asserts hold; the copy follows the server |
| Client model (`network/ClientModel`) | the copy, the snapshot being built, replaced copies, its own `syncState` | welcome, snapshot parts, notifications, the user's requests | a Synced client has the server's lobby; what is shown is alive |
| Sockets, framing, packets (`network/Client`, `ClientSession`, `PacketFactory`, `Packet`) | receive buffers, sending queue with an offset, `ConnectionState` | partial send and receive, making and reading fields | packets arrive whole, once and in order; a reader gets what was written |
| Event system (`core/EventSystem.h`) | two event queues, handlers by type, weak owners | subscribe, publish, dispatch | every event is handled once, in order, in its frame; a frame ends |
| Frame loop, game frame (`Source.cpp`, `core/Game`, `ui/UIController`) | window, server, client model, scenes, pointers to lobby states | frame phases, create and join, welcome, change of scene | nothing is used after it was deleted; a hello leads to the lobby or to the news of the refusal |
| Lobby screen (`ui/layers/LobbyLayer`, `ui/panels/lobby`, `scenes`) | views, their animations, counted locks, the captured element | drag and drop, lock, arrows, five changes of the lobby | locks balance; a view at rest is where its player is; nobody asks for what it may not |
| Lobby settings (`ui/panels/lobby/LobbySettingsPanel`, `ui/widgets/Dropdown`) | three dropdowns, lists, captures | open, choose, close | a list is open while its button has the capture; no button stays down |
| Menu (`ui/scenes/TestMenuScene`, its panels and layers, `utility/NetworkUtils`) | panel, dialogs, address box, mouse | click, type, paste, keys | nothing below a dialog is answered; a request to join carries an address |
| Game rules (`game/ClassicRules`, `GameLogic`, `states/server/GameState`) | deck, hands, table, roles, flags, timers | toss, beat, pass, deal, clear, refill, award | no card is twice or lost; roles are still in the game; phases end |
| Resources, easing curves, string formatting | fonts, textures, cursors | loading and drawing | no protocol |

How they interact: a user action raises a request event; `ClientModel` checks
it with `ClientLobbyLogic`, applies it to its own copy at once and sends it.
The server's handler checks it with `LobbyLogic`. If accepted, the server
broadcasts it to the *other* sessions of the lobby as a notification; if not,
it sends the requester a full snapshot, unless an earlier snapshot is still
unacknowledged. A client that cannot apply a notification asks for a snapshot
with `UpdateRequest`, which the server has no handler for, and ignores
notifications until a snapshot comes for another reason. A client's copy tells the screen of each change with an event, which is dispatched later
in the frame, when the copy may have changed again. A connection begins with a
hello that carries a token; the server recognises a token it knows, marks the
older sessions, and answers with a welcome and a snapshot, or with its refusal.

What is hard about it: requests that cross on the way (optimistic updates
checked against a stale copy on one side and a newer lobby on the other);
snapshots that cross with requests and with each other; programs that end
without notice and come back; packets cut and joined by the sockets; objects
that are replaced while events, scenes and layers point to them; counted locks
that animations, drags and packets take and give back; dialogs that appear in
the middle of a click; flags of the rules that one phase computes and a later
one reads. `PROJECT.json` lists each hazard at its line.

## The modules

| Module | Models | How |
|---|---|---|
| `IdQueue` | the `std::vector` of ids in the queue | `eraseId` is `std::erase_if`, `replaceId` the loop of the swap |
| `SeatPositions` | `SeatPositionsState` | a record of two total functions, with `Nobody` and `Nowhere` for absent keys |
| `LobbyState`, `LobbyLogic` | the server's `LobbyState` and `LobbyLogic` | operations from lobby to lobby; for each request `...Accepted` (its early returns negated) and the lobby it leaves |
| `LobbyServer` | the handlers of `Server.cpp` that change the lobby | one variable, `lobby`; one action per handler |
| `ClientLobby` | `ClientLobbyState`, `ClientLobbyLogic`, what the panels allow | operators on a copy; a notification returns an outcome (applied, refused, or the assert that fails) and a copy |
| `LobbySync` | `ClientModel` and `Server` with the channels between them | one action per packet handler and user action; composes `ClientLobby` with the server's lobby; `AnyServer` and `FreshServer` are instances of `LobbyServer` |
| `ServerSessions` | `Server` and `ClientSession` from accept to erasure, with programs that start, crash, leave and return | one action per handler and per step of the server's frame |
| `Packet`, `PacketFactory` | bytes of numbers and frames; every maker and its fields | sequences of bytes, `% 2^32` |
| `PacketExchange` | each packet made, then read by its handler | what is read against what was written |
| `Connection`, `PacketFifo` | `Client` and `ClientSession` at the two ends of a socket; what they promise | one step per socket call; the promise is that what was received is at all times a prefix of what was sent |
| `EventSystem`, `EventUsers` | `EventSystem.h`; users of it that do anything | the iteration of dispatch as a cursor; what a handler does is left to the module that extends it |
| `GameFrame` | the loop, `Game`, `UIController`, and the life of lobby states | composes `EventSystem` and `Menu` with the packets of a server |
| `Menu`, `MenuPromise`, `MenuScene`, `NetworkUtils` | which events the menu may publish; `TestMenuScene` with its panels, dialogs and address box; `isValidIP` | `MenuScene` implements `MenuPromise`; `GameFrame` uses the same operators of `Menu` |
| `UIInteractive` | the interaction state of a control: counted locks, hover, press, drag | a record, shared by the three screens |
| `LobbyLayer`, `LobbyScreen` | the views of the lobby; the frames in which mouse, packets, events and animations move them | composes `UIInteractive` and `ClientLobby` |
| `LobbySettings` | `LobbySettingsPanel`, `Dropdown`, `ListBox` | rows a mouse can be in |
| `GameState`, `ClassicRules` | `GameState` with `GameLogic`; the phases of `ClassicRules` | one action per branch of an update, one per move |
| `MC...` | | the instances for TLC and the properties that are only checked |
| `...Proofs` | | theorems and proofs |

### How they correspond to the code

`LobbyServer!SeatPositionsChange(i, p, s)` is
`onSeatPositionsChangeRequestPacket` for a session whose profile is `i`; its
guard is `applySeatPositionsChangeRequest` returning true and its effect the
call of `changePlayerSeatPosition` in it. `LobbySync!AcceptRequest` and
`RejectRequest` are the two branches of the four request handlers;
`AskSeatChange` and its siblings are `ClientModel`'s handlers of the request
events. The parts of a snapshot are queued by one handler and arrive in a row,
so `LobbySync` sends two packets, `SnapshotBegin` and `SnapshotEnd`, of which
the second carries the contents, and `ServerSessions` one, the welcome. Every
part of the C++ lobby has its field in `lobby`, except nicknames and the type
of the rules, which no decision reads. A profile's role is a function of its
id: the id 0 becomes the host whenever it joins, nobody else.

Peculiarities kept on purpose: seat `-1` stands for the queue, but nothing
stops `assignSeat` from taking it as a key of the map, so `Seat` includes it;
`isSeatPositionCorrect` is the code's `&&`, which refuses no seat beyond the
table; `clientsToDisconnectByToken` marks whoever has a profile; the loop of
`moveTableCardsToBoneyard` has its shrinking bound; flags that nobody
initialises take any value (`Garbage` of `LobbyScreen`).

`OnlyFresh` (a constant of `LobbyServer`) says which requests reach the
server: only those that the client's own checks allow on the lobby the server
has (TRUE), or any request that the server accepts (FALSE). The properties
that need TRUE are what the code promises when requests do not cross. That
this is the right dividing line is checked: `ServerIsLobbyServer` shows that
in `LobbySync` every step of the server is a step of `LobbyServer` with
`FALSE`, and, as long as requests do not overlap, with `TRUE`. `overlap` is a
history variable: it becomes true when a request is made on a copy that is
behind, or while another one is on its way.

`ClassicRules` takes from outside what the source leaves empty or commented
out: the filled deck (`Deck`) and the entry into the first phase. The handlers
of the three moves stand at the end of `ClassicRules.cpp` in a comment and are
modelled as written there. Time is what it has reached when a frame comes
(`Elapsed`: less than the short delay, at least it, at least the long one).

`ServerSessions` keeps of the lobby who its members are, not where they sit. A
client refuses the notification of a newcomer it knows, and one whose place is
occupied in its copy: a seat by somebody, the queue as soon as one player waits
in it. The model leaves open who is in the way, so a client that knows anybody
may refuse any newcomer; it then asks for a snapshot and stays Syncing.
`ClientsKnowMembers` says nothing of a client that refused or may refuse what is
on its way, because nothing is true of it: that it never learns of the newcomer
is the finding of `stuck`. The snapshots that rejected requests bring such a
client are in `LobbySync`.

In `GameFrame` and `LobbyScreen` a lobby that the server changes is a packet
at the beginning of a frame. `GameFrame`'s server handles the client's packets
in their order (`asked`): a hello is answered with a welcome and a snapshot or
with `ServerDisconnect` (the lobby is full or closed), a request of the lobby
with nothing or with a snapshot, an `UpdateRequest` not at all. What decides
between the answers is in `ServerSessions` and `LobbyServer`; the branch of the
hello for an incorrect token is never taken, since `isTokenCorrect` compares an
unsigned number with 0. `LobbyScreen` assumes that the copy lives
(`GameFrame` says when) and that the packets come from a server that agrees
with the copy (`LobbySync` says when). `GameFrame` takes from the menu what
`MenuPromise` allows, and `MenuScene` is shown to keep to it.

## The runs

All runs pass, except `stuck`.

| Run | Instance | What it shows |
|---|---|---|
| `server` | 4 players, room for 3, fresh requests | `LobbyConsistent` (types; the seat maps are inverse; no trace of a player who left), `OnePlace`, `SeatsInRange`, `QueueHasRoom` (the assert behind the shrinking table), `SwapExchanges`, `RegularMovesOnlyItself` |
| `sync` | 2 players, 3 requests that overlap in every way | `SyncConsistent` (types; a Syncing session has exactly one snapshot or acknowledgement on its way; the copies' seat maps are inverse), the refinement `ServerIsLobbyServer`, `SnapshotsAcknowledged`; unless requests overlapped, the copies agree, no assert fails and nothing is rejected |
| `stuck` | 3 players, 1 request | violates `ClientsLeaveSyncing`: the one finding, see `PROJECT.json` |
| `rules` | 3 players, two decks of 7 cards, hands of 2, a table of 2, 3 bouts | `GameConsistent` (types; no card twice; the roles are still in the game), `CardsKeptWhileInRow`, `OthersNeverOverload`, `PhasesEnd` (the game starts; every refill ends) |
| `sessions` | 3 players, room for 2: two programs from an empty server on, one more from a full lobby on | `SessionsConsistent` (types; one session per player is to stay; it belongs to a member), `ClientsKnowMembers`, `ReturnIsAccepted`, `HelloIsAnswered`, `MarkedIsErased` |
| `connection` | 2 packets a side, a network of 5 bytes, chunks of 4, a buffer cut above 4 | `EndsConsistent` (types; the buffer is bounded; a client is ready only after the session is), the refinement `CarriesPackets` of `PacketFifo` in both directions, `SentArrives` |
| `fields` | every packet, with numbers at the limits of their widths and signs | `FieldsAgree`: the handler reads what the maker wrote, and all of it |
| `events` | 2 types, 2 objects, handlers that publish, create and destroy | `QueueConsistent` (types; events wait in order; a frame is bounded), `EveryoneIsCalled`, `DispatchEnds` |
| `frame` | 3 inputs of the user, 1 notification | `StatesConsistent` (types; events carry living states; the state shown lives), `FewEventsPerInput`, `NobodyDiesInDispatch`, `GameBegins` (a hello that was sent leads to the lobby or to the event of the refusal; a welcome on its way leads to the lobby) |
| `screen` | 2 players, the host's screen and a guest's, 1 packet, 2 presses | `ScreenConsistent` (types; locks balance; the dragged view is the captured one and nothing animates it), `RestingViewsAtHome`, `RequestsMakeSense` (a guest moves only itself; the buttons ask for news) |
| `menu` | 2 user inputs in a frame, addresses of 2 numbers | `DialogsConsistent` (types; nothing below a dialog is held; the button to connect follows the text; a join carries an address), `AcceptsAddresses`, the refinement `PromiseKept` of `MenuPromise` |
| `settings` | 2 dropdowns, host and guest | `PanelConsistent` (types; open means captured; a list offers the rest; no button stays down), `ChoiceFromOpenList` |

Every property of a passing run has a mutant in `PROJECT.json`, a plausible bug
of the mapped code that breaks it; the mutated forms stand next to the
definitions they change.

### Bounds

- `server`, `sync`: the code has room for 8 players; here 2 to 4 and a lobby
  of 2 or 3, so that the lobby and the queue can be full and a player can be
  refused. Seats and table sizes are the code's own (0 to 3, 2 to 4). Three
  requests: two for every pair to cross, the third from the state they leave.
- `sessions`: two programs are enough for a player to return while its first
  session stays; the third one, beside two connected players, is needed for a
  third party to hear of a return. `TwoPrograms` and `OneMore` bound the starts,
  and how often a client says that it leaves (no client does at this commit,
  the server's handler is there). The door is a flag and the seats are left
  out. `connect` of a program succeeds. Frames of the server are cut into
  their steps, one session or packet at a time: more interleavings than the
  code has, none fewer.
- `connection`: `Capacity`, `ChunkSize` and `EraseAbove` stand for the
  operating system's buffers, the 1024 bytes of `tempBuffer` and the offset at
  which the buffer is cut. They are smaller than a packet, so that packets are
  cut everywhere, and larger than its header, so that two are joined.
- `events`: two events a frame instead of a thousand, so that the bound is
  reached; four events in all. The handlers are free, but do not subscribe to
  the type that is being dispatched: none of the program does.
- `frame`: `MaxEventsPerFrame` 20 is above what the inputs make
  (`FewEventsPerInput`: four for each), as 1000 is above it in the code.
- `screen`: `Places` are the spots at which something different happens; an
  animation takes two frames, so that another one, a press or a packet can
  come in the middle. Which view lies on top of another is left open. `Garbage`
  is `{FALSE}`: the flags `hovered`, `pressed` and `dragged` start as if the
  memory had been cleared, as they do not otherwise.
- `menu`: `Places` are the largest sets of buttons that overlap in a window of
  960 by 540, by the sizes the layers compute, and a place without any; the
  theorems hold for any places. An address has two numbers
  (`Parts`) instead of four, each read by the same loop.
- `rules`: in the first deck nobody is dealt a trump before the extra cards,
  the second one allows several beaten positions and winners in different
  bouts. `PassAnyTime` says whether a player may pass in any phase, as the
  handler in the comment allows, or only while players move. The run has
  FALSE; with two players and TRUE everything holds as well.

### Fairness

The frame loop is the only scheduler, and it calls every step of a frame in
every frame. So what can be done in a frame is done in some frame: weak
fairness of handling packets (`LobbySync`, `ServerSessions`), of the calls of
the sockets (`Connection`, where also the network goes on taking and giving
bytes: TCP), of `update` once the long delay has passed (`ClassicRules`), of
the frame's next step (`GameFrame`, `LobbyScreen`) and of the dispatch that has
begun (`EventUsers`). `GameFrame` also asks for strong fairness of receiving:
it is possible only in one phase of a frame, again and again; and of its server
that it goes on handling what it is asked (`ServerAnswers`). No fairness is
assumed of users, of crashes, of new connections or of the host's door.

`CHECK_DEADLOCK FALSE` in all configurations but `settings`: the system may
really stop. Users may do nothing for ever, programs and connections end, and
the bounds end a behaviour. In `LobbyServer` the host can close the lobby and
everybody can leave, after which nobody can open it again. In `settings` the
mouse can always move on.

## The proofs

`LobbyStateProofs` collects what the operations of the server's lobby do, for
every lobby. Its first part is about the seat map: what `erase`, `assignSeat`
and `swapPlayers` do to the seat of every player, and that they keep the maps
inverse. The second is about queues of any length: `eraseId` returns a queue
with exactly the given id removed and `replaceId` one of the same length with
one id exchanged, neither adding a repetition (`EraseIdCorrect`,
`ReplaceIdCorrect`). `eraseId` is defined without recursion for this reason;
`MCLobbyServer` compares it with the community modules' `Remove` on all short
queues. The third is about `LobbyState`'s operations, which the proofs about
the server alone and about the server with its clients share.

The first half of `LobbyProofs` uses them, for every set `Player` of natural numbers and
every positive `MaxPlayersInLobby` (the assumptions are named in
`SeatPositions`, `LobbyState` and `LobbyServer`, and TLC evaluates them):

1. `WellFormed`: type, inverse maps, and every seated or queued id belongs to
   a player of the lobby. It is inductive under *all* requests: each operation
   of `LobbyState` has a lemma, each action of `Next` a step of
   `StepWellFormed`. From it `LobbyStaysConsistent`, the property of the run.
   The third part is needed by the first two: a player who is thrown out of
   its seat by the shrinking table is put into the queue, which must stay a
   sequence of players of the lobby.
2. `RegularMovesNobodyElse` follows from `WellFormed` and `ChangeMoves`: the
   seat taken is free, so nobody is displaced.
3. `Placed`: seats are within the table, the queue has no repetition, and a
   player of the lobby has no seat exactly when it is in the queue. It is
   inductive only with `OnlyFresh`. A handler takes a player out of its place
   and puts it into another; in between `PlacedBut` holds, so each operation
   has the lemmas `TakenOutPlaced` and `PlacePlaced`, and `PlayersPerGamePlaced`
   composes them for the two seats a table can drop. From it
   `EveryoneHasOnePlace`, `SeatsStayInRange`, `SwapsExchange`.
4. `QueueAlwaysHasRoom` adds `Bounded` (at most `MaxPlayersInLobby` profiles)
   and counts: the queue is an injection into the profiles without the seated
   player, so it is shorter than the limit.

`LobbySyncProofs` proves what the run `sync` checks without the proviso that
requests do not overlap, for any players, any number of requests and channels
of any length. Its invariant `Inv` has four parts:

- `TypeInv`: types; and every copy, the server's lobby, and every lobby in a
  snapshot on the way is `WellFormed`. `SyncConsistent` says it only of the
  copies: a copy may be replaced by a snapshot at any time.
- `Strangers`: a connection that has not said hello has nothing on its way and
  no profile.
- `HostFirst`: the host is in the lobby if anybody is. Without it the first
  connection could be accepted without becoming the host.
- `Handshake`: a session is Syncing exactly while one snapshot end or one
  acknowledgement is on its way, never two. It counts packets (`Number`);
  `NumberAppend`, `NumberTail` and `NumberConcat` say how a send, a receipt and
  the burst of a shrinking table change the count.

From it `SyncStaysConsistent` and `ServerAcceptsAnyRequests`: every step of
`LobbySync` is a step of `LobbyServer` with `OnlyFresh` FALSE or leaves `lobby`
unchanged.

Its second part proves what holds as long as requests do not overlap. That the copies agree with the server is said by the code only of
channels that are empty; to be inductive it needs a statement for all times.
`Agreed` is it: a `Run` of lobbies leads from the server's, request by request,
to the copy of the only client that has requests on the way, each request
having been allowed by that client's checks on the lobby before it; and a
`Trace` leads from every copy, packet by packet of those on the way to it, to
the server's lobby. Both are existential statements about a sequence of
lobbies, so nothing is computed by induction: `RunTail`, `RunConcat`,
`TraceTail` and `TraceAppend` shift or extend the witness. A shrinking table is
the hard case: the client sends the moves and the new size one after another
(`RunOfShrinking`). From `AlwaysAgreed` follow `CopiesAgree`, `NoAbort`,
`NoReject`, and `ServerImplementsLobbyServer` with both its parts, so the
theorems about `LobbyServer` with fresh requests hold of the server of
`LobbySync` until the first overlap.

`ServerSessionsProofs` proves the safety of the run `sessions` for any players,
any size of the lobby and any number of programs. Its invariant `IInv` has the
two parts of `SessionsConsistent` besides the types (`OneLivingSession`,
`LivingInLobby`) and two for every connection:

- `Link`: what can be on the way of a connection that has a session pending,
  one without profile, one with, or that is not used: at most one hello, at
  most one welcome, nothing behind a refusal.
- `Knows`: the members that a client which is not Syncing will know, when it
  has applied what is on its way (what was sent and what is still in its
  session's queue), are the server's members and the client's own player.
  Nothing is claimed once it has refused a notification. `ClientsKnowMembers`
  says the first of it of sessions whose player is a member, when nothing on
  the way may be refused. It is not inductive: a
  session that was put out (its player having returned or left) still gets
  notifications, and its player may join again. That its own player is always
  among those it knows makes up the difference.

From it `SessionsStayConsistent`, `ClientsStayInformed` and
`ReturningPlayersAreAccepted`.

`ClassicRulesProofs` proves the safety of the run `rules` for any number of
players, any ranks and suits, any decks without repetition that outlast the
first hands (`DeckAssumption`), and tables of any size. Its invariant `IInv` is

- `GoodGame`: types, at most two cards at a position, and no two places hold
  the same card (`HandsApart`, `DeckApart`, `TableApart`, `Apart`). Every
  operation of `GameState` has a lemma that keeps it and says which cards are
  in the game afterwards. `PlacesAre` turns it into the count of places that
  `NoCardTwice` is about.
- `Changes` and `Roles`: which phase is prepared when, and that attacker and
  defender are seats whose players still play whenever the roles count.
- `Winners`: who has won is in the list of winners, and while there is no loser
  the list is shorter than all but one of the players. The list may name a
  player twice (see the deviation of `LoserIsLast`), so `FewWinners` counts the
  players in it and not its length: two of them still play, and `NextRoles`
  finds both.
- `Dealing`: before the trump is shown the cards have been dealt in rounds, so
  the number of cards left is known and the deck has a last card to name the
  trump.

From it `GameStaysConsistent`; `NoCardIsLost`, for which every step has to keep
the cards of the game (a toss only where the positions in use are in a row);
and `DefenderIsNotOverloaded`, which counts the open positions before and after
a card is played (`PlayedCount`). The loop over the candidates is the recursive
function `awardsAfter`; that each of its turns keeps the standing is shown by
the smallest turn that would not (`AwardsStanding`).

`ConnectionProofs` begins with the bytes: for every number of 32 bits and data
of any length, what is written is read back (`Int32RoundTrip`,
`UInt32RoundTrip`, `FrameRoundTrip`). The runs `fields` and `connection` use a
few numbers and short data. It then proves the safety of the run `connection`,
for any data whose length with the type's byte is an `int32`
(`ConnectionAssumption`: the length field is one), any number of packets, any
capacity of the network, size of a chunk and threshold of the cut. The packets
an end has sent are one sequence of bytes, the `Stream` of its direction, with
the position at which each ends. The invariant `IInv` says of each direction
(`Flow`)

- `Queued`: the packets that wait are the last ones sent, only the first of
  them in part;
- `Carried`: the bytes in the receiver's buffer that are not used, followed by
  those on their way, are those of the stream after the packets that were
  taken, and they reach up to the byte the socket took last. Once the
  connection has ended some may be missing at the end (`losses`), never in
  between;
- `Taken`: the packets taken are the first ones sent, and what the buffer keeps
  is less than the next.

With it, types, the two bounds, and that a client which is ready, like a
Welcome that was sent, needs a session that is past its hello. Each call has a
lemma about `Flow` (`FlowSend`, `FlowPut`, `FlowReceive`, `FlowCut`,
`FlowBreak`). The inner loop of `receivePackets` is the recursive function
`ends`; that it stops at the ends of packets is shown by the smallest turn that
would not (`EndsAre`, `Unpacked`). From `AlwaysIInv` follow `EndsStayConsistent`
and `ConnectionCarriesPackets`, the refinement of `PacketFifo` in both
directions.

Its last part is about what is in the packets: `FieldsAlwaysAgree` proves
`FieldsAgree`, the property of the run `fields`, for all values that fit their
fields (`ExchangeAssumption`: identifiers are unsigned and seats signed numbers
of 32 bits, enumerations are bytes, and a list has its length in a byte, so at
most 255 entries; the code checks none of this, `uint8_t` would truncate the
length of a longer one). The reads of a handler are positions in the data
(`ReadAt`), and a field is bytes that are read as its value whatever follows
them (`OneField`, with a lemma for each kind). `FieldAdded` puts one behind
another, `PartsFlattened` finds the parts of a list where their number says
they are, and `MadeAgree` takes the makers one by one: the data are read as the
values by every handler that the packet's type has (`Agreed`, the invariant;
`HandlerKinds` says it is the one handler).

`MenuSceneProofs` proves `DialogsConsistent` and the refinement of
`MenuPromise`, for every layout of the buttons, whatever is typed or pasted,
and for addresses of any number of parts (`MenuAssumption`: a place of the
mouse is a set of buttons, the box takes digits and dots, the clipboard holds a
text). `DialogsConsistent` is not inductive. Its invariant `IInv` adds

- `Held`: nothing is hovered or down but what is under the mouse. A dialog that
  appears resets that one button only.
- `below`: what is under the mouse is not below a dialog, where below are the
  buttons of *both* panels, since a click of PLAY or back would change the
  panel under the dialog.
- `Locked`: the locks of every button. CONNECT counts its locks in four
  numbers, and the four calls of `blockInteraction` and `unblockInteraction`
  must find them in step (`BlockKeeps`, `UnblockKeeps`).

`MenuKeepsPromise` then maps each action: a click is `Publish` or `Close`
because of `below` (`ClickedMaps`), the mouse only ever forgets dialogs that
were closed (`MouseInputUpdateMaps`), and the queue of the types follows the
queue of the events (`TypesAppend`, `TypesTail`). What `isValidIP` accepts is
not looked at: it is a fold over the text, and `AcceptsAddresses`, which
compares it with the definition of an address, is left to TLC.

The second half of `LobbyProofs` proves both properties of the run `settings`,
for every set of dropdowns and rows. Its invariant `PanelInv` is `Typed` (a list offers the
rest, and is visible just when its button has the capture), `Sound` and
`Captured`. `Sound` says that a button whose press is blocked, or that is
disabled, is not down: without it a release could meet a button that is down
and blocked, whose `onMouseUp` does nothing, and it would stay down. That the
guest's buttons are blocked belongs to it, because that is what keeps a guest
from capturing.

`EventSystemProofs` is about the dispatch of events, for any types of events,
objects and bound of a frame. `survivors` (the `remove_if` after the handlers
of an event) is written as the sequence of the objects at the positions that
count, so that the proofs can use it; `MCEventSystem` compares it with
`SelectSeq`. The first part proves the safety of the run `events`, where
handlers do anything. Its invariant `UsersInv` is

- `Fits`: the cursor lies in the queue, and in the handlers of the event it is
  at: these may have grown since their loop began, but they have not shrunk;
- `InOrder`: the events that wait carry the last numbers given out, in order,
  across both queues;
- `Counted`: the events done are those the cursor has counted, within the
  bound unless dispatch threw;
- `Calling`: whoever was to be called and still lives has been called, or is
  at the cursor or behind it. It is what `EveryoneIsCalled` needs: each turn of
  the loop moves one object from the second kind to the first.

The second part proves the safety of the run `frame`, for any number of inputs
and notifications and for the events and objects of the program (`ProgramNames`,
which `MCGameFrame` has TLC evaluate). `FrameInv` is not about the two
properties alone:

- `Phases`: dispatch is where the phase of the frame says, and when it has
  ended nothing waits.
- `Listeners`: at most one object listens to the welcome and at most one to the
  requests of the lobby, so each of these events is handled once at most.
- `Inputs`: the events done and those to come, with the most each can still
  give rise to, are at most four for each input. `FewEventsPerInput` follows.
  Events are counted by type (`ToHandle`), since a request of the lobby makes
  three more and a change makes none; `DispatchingKeeps`, `PublishedKeeps` and
  `HandlerKeeps` say how each kind of step changes the count.
- `Carried`: an event that waits carries the current lobby state or one that
  is marked for deletion. The clean-up deletes the marked ones when no event
  waits, so `EventsReferToLiveStates` follows.
- `Asking`: at most one hello waits for its answer, and while it does nothing is
  on its way to the client. `Once` rests on it.
- `Once`: the welcome comes once. Without it a scene could be waiting for its
  deletion when the next one is shown, and the assert of `setScene` would fail.
- `Pointers`: what the model points at was made and not deleted, and its
  pointers do not point at the same state.
- `Together`: if the first snapshot comes with the welcome, either it is still
  arriving in that frame, with the menu shown and the welcome's event behind
  it, or it has been applied, and the lobby, once shown, shows its state.

The last part of `LobbySyncProofs` is about `LobbyScreen`, for any players,
places of the mouse, lengths of animations and numbers of packets and presses.
Its invariant `ScreenInv` is

- `CopyFits`: the copy is `WellFormed`, by the lemmas of the first half about
  the operations of `ClientLobby`.
- `Stands`: every view has one lock for each of its animations and one if it
  is foreign (`ViewFits`), and what is dragged is captured and not animated
  (`DragFits`). Each operator of `LobbyLayer` has a lemma that keeps it. The
  loops over players and over animations are recursive functions
  (`MoveInTurnSteps`, `AnimationSteps`), and that no turn of them breaks it is
  shown by the smallest one that would (`MoveInTurnFits`, `AnimationsFit`).
- `EventsFit`: what waits is an event of the lobby, and a guest's request is
  for itself. A request to open does not wait when packets are read, since
  then the copy could change under it.
- `MouseFits`: there is an element under the mouse, and no arrows unless the
  player is the host.
- `LockShows`: the sprite of the host's lock button is that of the copy, or of
  the opposite under the mouse, unless the event of the change still waits in
  this frame. Without it `AsksForNews` is not inductive: a click asks for what
  the sprite shows.
- `AsksNothingOld`: `AsksForNews` itself.

From it `LocksStayBalanced` and `RegularsMoveThemselves`, whatever the flags
hold that `ControlState` does not initialise; and `ScreenStaysConsistent` and
`RequestsStaySensible` when none of these flags is true (`TRUE \notin
Garbage`), which the code does not ensure: see the deviations. The programs
that an assert ends are part of `LobbyScreen`, so the theorems hold up to
there.

Only model-checked: which addresses are valid (`AcceptsAddresses`, a fold over
the text), and where the views of the lobby come to rest (`RestingViewsAtHome`,
about frames in which nothing else happened). Liveness
(`SnapshotsAcknowledged`, `HelloIsAnswered`, `MarkedIsErased`, `SentArrives`,
`DispatchEnds`, `GameBegins`, `PhasesEnd`) is beyond the prover, and so is
induction over data (what a fold over a sequence of any length computes). Where
a proof needs induction over natural numbers, it takes a smallest
counterexample (`SmallestOf`).

## Known deviations

Properties one would expect and the code does not have. They are no runs of
their own; each is a definition, and TLC shows the counterexample when it takes
the place of the properties of the named configuration, with the given
changes (and `SPECIFICATION Spec`, or `ScreenSpec` for `MCLobbyScreen`, except
where `FairSpec` is named).

| Property | Configuration, changes | What happens |
|---|---|---|
| `SwapExchanges`, `OnePlace`, `SeatsInRange`, `QueueHasRoom` | `MCLobbyServer`, `OnlyFresh = FALSE` | a stale swap seats a player at `-1` and leaves another in two places (`LobbyState.cpp:167`); a stale move seats one beyond the table (`LobbyState.cpp:180`) |
| `NoInvalidSeatAbort` | `MCLobbySync` | a move to a seat the table has dropped meanwhile is accepted, and the notified client's assert fails (`ClientLobbyState.cpp:178`) |
| `NoSameSeatAbort` | `MCLobbySync` | host and player send the same player to the queue at once; the assert of `ClientLobbyState.cpp:182` fails |
| `NoSwapSameSeatAbort` | `MCLobbySync` | a swap is notified to a client that has both players in the queue (`ClientLobbyState.cpp:207`) |
| `SyncedCopiesAgree` | `MCLobbySync` | a snapshot overwrites a change whose request is then accepted; the client is Synced with another lobby than the server's |
| `OnlyOwnSessionsMarked` | `MCServerSessions` | the hello of a returning player marks the sessions of everybody (`Server.cpp:125`) |
| `ReturnKeepsOthersSynced` | `MCServerSessions` | the others are told that a player they know has connected, refuse it and become Syncing (`Server.cpp:325`); how a newcomer does the same to them is the finding of `stuck` |
| `UnreadHasItsType` | `MCPacketExchange` | the packet of a new defender, which nobody reads yet, has the type of the one of a new main attacker (`PacketFactory.cpp:310`) |
| `NewBoutClean` | `MCClassicRules` | the loop that clears the table stops half way (`GameLogic.cpp:118`) |
| `HandsRefilled` | `MCClassicRules` | that dealing is done is still true from the start of the game, so the first refill deals nothing (`ClassicRules.cpp:287`) |
| `BoutNeedsAttack` | `MCClassicRules` | flags of the last bout end the next one before anybody has played (`ClassicRules.cpp:197`) |
| `LoserIsLast` | `MCClassicRules` | a player who empties the hand twice while a bout ends is a candidate twice and counts as two winners, so another one is the loser too early (`ClassicRules.cpp:532`) |
| `PassedBoutGoesOn` | `MCClassicRules`, `FairSpec`, `MaxBouts = 1` | all have passed, but the flag that says so is computed only when a card is played: everybody waits (`ClassicRules.cpp:252`) |
| `NotMovedWhileDragged` | `MCLobbyScreen` | a packet moves the view the user is dragging; the assert of `LobbyLayer.h:99` fails |
| `DroppedPlayerIsThere` | `MCLobbyScreen` | a player leaves and its view, which stays, is dropped (`LobbyLayer.cpp:353`) |
| `SeatsAreShown`, `EventsFitTheCopy` | `MCLobbyScreen`, `MaxPackets = 2`, `MaxPresses = 1` | an event is handled with a copy that a later packet of the frame has changed (`LobbySeatsPanel.h:85`, `resyncLayer` in `LobbyLayer.cpp`) |
| `RequestedSeatExists` | `MCLobbyScreen`, `StartSizes = {3}`, `Places <- overThird`, `MaxPresses = 1` | the user drops a view on a seat that the copy lost in the same frame |
| `DraggedIsCaptured`, `AsksForNews` | `MCLobbyScreen`, `Garbage = {TRUE, FALSE}` | nobody initialises `hovered`, `pressed` and `dragged` (`ControlState.h:10`): a view can be dragged from the start, a lock button show the wrong sprite |
| `SomethingUnderMouse` | `MCLobbyScreen`, `Places <- overThird` | nothing is under the mouse outside of the layers, and a null pointer is used |

Besides, `ShownStateLives` holds only of the first snapshot: a later one
deletes the lobby state the scene goes on using. And an exit dialog that was
closed with Escape while the mouse held its YES still closes the window;
`MenuPromise` says so (`closed`). And a player whom the server refused stays in
the menu: nobody subscribes to `ServerDisconnectEvent`, the client model of the
attempt stays (`onServerDisconnectPacket` in `GameFrame`), and the next attempt
meets an assert (`makesModel`, `Game.cpp:169`).

## Not modelled

- Nicknames and the type of the rules: carried as fields of packets
  (`PacketExchange`), but no decision reads them.
- The settings' third dropdown (it is another of the same kind) and the use of
  the choices: their events are comments in the source.
- The game's phase of the server, whose cases are empty; `isPlayerPresent`,
  `getClientSessionById`, `setMoveToAnotherSeat`, `setRulesType`,
  `erase(seat)` and the lobby's exit have no caller.
- Drawing, sizes, alignment, text, easing curves, textures, fonts, cursors,
  string formatting: input and output without a protocol.

## Plan

1. `RestingViewsAtHome` of the lobby's screen as a theorem: it needs an invariant
   about where every animation leads while events of a change wait.
2. An abstract `Seating` (each player in one place, moves atomic) that
   `LobbyServer` with fresh requests implements, with the refinement proved.
3. `ServerSessions` composed with `LobbySync`, so that clients leave and come
   back while requests and snapshots are on their way.
