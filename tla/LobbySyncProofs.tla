---------------------------- MODULE LobbySyncProofs ----------------------------
(***************************************************************************)
(* Theorems about LobbySync, for every set of players, every size of the   *)
(* lobby and any number of requests; and, in the second half, about        *)
(* LobbyScreen, the screen of one of its clients.                          *)
(***************************************************************************)
EXTENDS LobbySync, LobbyStateProofs, LobbyScreen

-----------------------------------------------------------------------------
(* Packets *)

\* What a packet carries, by its type.
LEMMA PacketFields ==
  ASSUME NEW m \in Packet
  PROVE  /\ m.type = "SeatPositionsChange" => m.id \in Player /\ m.seat \in Seat
         /\ m.type = "SeatPositionsSwap" => m.first \in Player /\ m.second \in Player
         /\ m.type = "PlayersPerGameChange" => m.value \in MinPlayersPerGame..MaxPlayersPerGame
         /\ m.type = "LobbyOpenStateChange" => m.isOpen \in BOOLEAN
         /\ m.type = "PlayerConnected" => m.id \in Player /\ m.seat \in Seat
         /\ m.type = "SnapshotEnd" => m.lobby \in LobbyType
BY DEF Packet, Welcome, SnapshotBegin, SnapshotAck, UpdateRequest

\* The packets are packets, and each has the type it is named for.
LEMMA PacketsAre ==
  /\ \A p \in Player, s \in Seat : /\ SeatChangePacket(p, s) \in Packet
                                   /\ SeatChangePacket(p, s).type = "SeatPositionsChange"
                                   /\ ConnectedPacket(p, s) \in Packet
                                   /\ ConnectedPacket(p, s).type = "PlayerConnected"
  /\ \A p, q \in Player : /\ SwapPacket(p, q) \in Packet
                          /\ SwapPacket(p, q).type = "SeatPositionsSwap"
  /\ \A v \in MinPlayersPerGame..MaxPlayersPerGame :
       PpgPacket(v) \in Packet /\ PpgPacket(v).type = "PlayersPerGameChange"
  /\ \A b \in BOOLEAN : OpenPacket(b) \in Packet /\ OpenPacket(b).type = "LobbyOpenStateChange"
  /\ \A L \in LobbyType : SnapshotEnd(L) \in Packet /\ SnapshotEnd(L).type = "SnapshotEnd"
  /\ Welcome \in Packet /\ Welcome.type = "Welcome"
  /\ SnapshotBegin \in Packet /\ SnapshotBegin.type = "SnapshotBegin"
  /\ SnapshotAck \in Packet /\ SnapshotAck.type = "SnapshotAck"
  /\ UpdateRequest \in Packet /\ UpdateRequest.type = "UpdateRequest"
BY DEF Packet, Welcome, SnapshotBegin, SnapshotAck, UpdateRequest, SnapshotEnd, OpenPacket,
       PpgPacket, SwapPacket, SeatChangePacket, ConnectedPacket

\* The acknowledgement is the only packet of its type.
LEMMA AckByType ==
  ASSUME NEW m \in Packet
  PROVE  m = SnapshotAck <=> m.type = "SnapshotAck"
BY DEF Packet, Welcome, SnapshotBegin, SnapshotAck, UpdateRequest

-----------------------------------------------------------------------------
(* How many packets of a type are on their way *)

Positions(q, t) == {k \in DOMAIN q : q[k].type = t}
Number(q, t)    == Cardinality(Positions(q, t))

\* There are finitely many, and none in an empty channel.
LEMMA NumberType ==
  ASSUME NEW q \in Seq(Packet), NEW t
  PROVE  /\ IsFiniteSet(Positions(q, t)) /\ Number(q, t) \in Nat
         /\ Number(<< >>, t) = 0
         /\ (\A k \in DOMAIN q : q[k].type # t) => Number(q, t) = 0
<1>1. IsFiniteSet(Positions(q, t))
  <2>1. Len(q) \in Nat /\ Positions(q, t) \in SUBSET (1..Len(q))
    BY LenProperties DEF Positions
  <2>2. IsFiniteSet(1..Len(q))
    BY <2>1, FS_Interval
  <2> QED  BY <2>1, <2>2, FS_Subset
<1>2. Positions(<< >>, t) = {}
  BY DEF Positions
<1>3. (\A k \in DOMAIN q : q[k].type # t) => Positions(q, t) = {}
  BY DEF Positions
<1> QED  BY <1>1, <1>2, <1>3, FS_CardinalityType, FS_EmptySet DEF Number

\* One packet more at the end.
LEMMA NumberAppend ==
  ASSUME NEW q \in Seq(Packet), NEW m \in Packet, NEW t
  PROVE  /\ m.type # t => Number(Append(q, m), t) = Number(q, t)
         /\ m.type = t => Number(Append(q, m), t) = Number(q, t) + 1
<1> DEFINE r == Append(q, m)
<1>1. /\ Len(q) \in Nat /\ DOMAIN q = 1..Len(q) /\ DOMAIN r = 1..(Len(q) + 1)
      /\ r[Len(q) + 1] = m /\ \A k \in 1..Len(q) : r[k] = q[k]
  BY LenProperties, AppendProperties
<1> HIDE DEF r
<1>2. CASE m.type # t
  <2>1. Positions(r, t) = Positions(q, t)
    BY <1>1, <1>2 DEF Positions
  <2> QED  BY <1>2, <2>1 DEF Number, r
<1>3. CASE m.type = t
  <2>1. Positions(r, t) = Positions(q, t) \cup {Len(q) + 1} /\ Len(q) + 1 \notin Positions(q, t)
    BY <1>1, <1>3 DEF Positions
  <2>2. IsFiniteSet(Positions(q, t))
    BY NumberType
  <2>3. Cardinality(Positions(q, t) \cup {Len(q) + 1}) = Cardinality(Positions(q, t)) + 1
    BY <2>1, <2>2, FS_AddElement
  <2> QED  BY <1>3, <2>1, <2>3 DEF Number, r
<1> QED  BY <1>2, <1>3

\* The first packet is taken: the others move one position to the front.
LEMMA NumberTail ==
  ASSUME NEW q \in Seq(Packet), q # << >>, NEW t
  PROVE  /\ Head(q).type # t => Number(Tail(q), t) = Number(q, t)
         /\ Head(q).type = t => Number(Tail(q), t) = Number(q, t) - 1
<1> DEFINE r == Tail(q)
           Later == Positions(q, t) \ {1}
           f == [k \in Positions(r, t) |-> k + 1]
<1>1. /\ Len(q) \in Nat \ {0} /\ DOMAIN q = 1..Len(q)
      /\ r \in Seq(Packet) /\ DOMAIN r = 1..(Len(q) - 1)
      /\ Head(q) = q[1] /\ \A k \in 1..(Len(q) - 1) : r[k] = q[k + 1]
  BY LenProperties, HeadTailProperties, EmptySeq
<1> HIDE DEF r
<1>2. /\ \A k \in Positions(r, t) : k + 1 \in Later
      /\ \A k \in Later : k - 1 \in Positions(r, t)
  BY <1>1 DEF Positions
<1>3. Positions(r, t) \subseteq Nat /\ Later \subseteq Nat
  BY <1>1 DEF Positions
<1>4. f \in Bijection(Positions(r, t), Later)
  <2>1. f \in [Positions(r, t) -> Later]
    BY <1>2
  <2>2. \A a, b \in Positions(r, t) : f[a] = f[b] => a = b
    BY <1>3
  <2>3. \A k \in Later : k - 1 \in Positions(r, t) /\ f[k - 1] = k
    BY <1>2, <1>3
  <2> HIDE DEF f, Later
  <2> QED  BY <2>1, <2>2, <2>3 DEF Bijection, Injection, Surjection, IsInjective
<1>5. Cardinality(Positions(r, t)) = Cardinality(Later)
  <2> HIDE DEF f, Later
  <2>1. ExistsBijection(Positions(r, t), Later)
    BY <1>4 DEF ExistsBijection
  <2> QED  BY <1>1, <2>1, NumberType, FS_Bijection
<1>6. 1 \in Positions(q, t) <=> Head(q).type = t
  BY <1>1 DEF Positions
<1> QED  BY <1>5, <1>6, NumberType, FS_RemoveElement DEF Number, r

\* Packets of other types are added at the end.
LEMMA NumberConcat ==
  ASSUME NEW q \in Seq(Packet), NEW r \in Seq(Packet), NEW t,
         \A k \in DOMAIN r : r[k].type # t
  PROVE  Number(q \o r, t) = Number(q, t)
<1>1. /\ Len(q) \in Nat /\ Len(r) \in Nat /\ DOMAIN q = 1..Len(q) /\ DOMAIN r = 1..Len(r)
      /\ DOMAIN (q \o r) = 1..(Len(q) + Len(r))
      /\ \A k \in 1..(Len(q) + Len(r)) :
           (q \o r)[k] = IF k <= Len(q) THEN q[k] ELSE r[k - Len(q)]
  BY LenProperties, ConcatProperties
<1>2. \A k \in 1..(Len(q) + Len(r)) : k > Len(q) => k - Len(q) \in 1..Len(r)
  BY <1>1
<1>3. \A k \in 1..(Len(q) + Len(r)) : k > Len(q) => (q \o r)[k].type # t
  BY <1>1, <1>2
<1>4. \A k \in 1..Len(q) : (q \o r)[k] = q[k]
  BY <1>1
<1>5. Positions(q \o r, t) = Positions(q, t)
  BY <1>1, <1>3, <1>4 DEF Positions
<1> QED  BY <1>5 DEF Number

-----------------------------------------------------------------------------
(***************************************************************************)
(* What a request, a notification and a snapshot do to a well-formed       *)
(* lobby: it stays well formed, whatever the packet says.                  *)
(***************************************************************************)
SoundLobby == {L \in LobbyType : WellFormed(L)}

\* The lobbies that well-formedness is about.
LEMMA SoundLobbies ==
  /\ \A L : WellFormed(L) <=> L \in SoundLobby
  /\ initialLobby \in SoundLobby
BY InitialWellFormed DEF SoundLobby, WellFormed

\* A request the server accepts moves players and changes settings, not who is in.
LEMMA AppliedCorrect ==
  ASSUME NEW L, WellFormed(L), NEW m \in Packet, isRequest(m), NEW i \in Player, Accepted(L, m, i)
  PROVE  /\ WellFormed(applied(L, m))
         /\ applied(L, m).profiles = L.profiles /\ applied(L, m).hostId = L.hostId
<1>1. CASE m.type = "SeatPositionsChange"
  <2>1. m.id \in L.profiles /\ m.seat \in Seat
    BY <1>1, PacketFields DEF Accepted, SeatChangeAccepted
  <2>2. applied(L, m) = changePlayerSeatPosition(L, m.id, m.seat)
    BY <1>1 DEF applied
  <2> QED  BY <2>1, <2>2, ChangeWellFormed DEF Settings
<1>2. CASE m.type = "SeatPositionsSwap"
  <2>1. /\ m.first \in L.profiles /\ m.second \in L.profiles
        /\ getSeatPositionById(L, m.first) # Nowhere /\ getSeatPositionById(L, m.second) # Nowhere
    BY <1>2 DEF Accepted, SwapAccepted
  <2>2. applied(L, m) = swapPlayersSeatPositions(L, m.first, m.second)
    BY <1>2 DEF applied
  <2> QED  BY <2>1, <2>2, SwapWellFormed DEF Settings
<1>3. CASE m.type = "PlayersPerGameChange"
  <2>1. m.value \in MinPlayersPerGame..MaxPlayersPerGame
    BY <1>3, PacketFields
  <2>2. applied(L, m) = playersPerGameChanged(L, m.value)
    BY <1>3 DEF applied
  <2> QED  BY <2>1, <2>2, PlayersPerGameSettings
<1>4. CASE m.type = "LobbyOpenStateChange"
  <2>1. m.isOpen \in BOOLEAN
    BY <1>4, PacketFields
  <2>2. applied(L, m) = [L EXCEPT !.open = m.isOpen]
    BY <1>4 DEF applied, lobbyOpenChanged
  <2>3. applied(L, m) = lobbyOpenChanged(L, m.isOpen)
    BY <1>4 DEF applied
  <2>4. WellFormed(applied(L, m))
    BY <2>1, <2>3, LobbyOpenWellFormed
  <2> QED  BY <2>2, <2>4 DEF WellFormed, LobbyType
<1> QED  BY <1>1, <1>2, <1>3, <1>4 DEF isRequest, RequestTypes

\* swapPlayersInView, also in the case in which it loses the second player.
LEMMA SwapInViewWellFormed ==
  ASSUME NEW V, WellFormed(V), NEW p \in Player, NEW q \in Player,
         getPlayerSeatIndex(V, p) # Nowhere, getPlayerSeatIndex(V, q) # Nowhere
  PROVE  WellFormed(swapPlayersInView(V, p, q))
<1> DEFINE sp == getPlayerSeatIndex(V, p)
           sq == getPlayerSeatIndex(V, q)
<1>1. /\ p \in V.profiles /\ q \in V.profiles
      /\ sp = getSeatPositionById(V, p) /\ sq = getSeatPositionById(V, q)
  BY DEF getPlayerSeatIndex
<1>2. sp \in Seat
  BY <1>1, PositionOf
<1> HIDE DEF sp, sq
<1>3. CASE sp # QueueSeat /\ sq = QueueSeat
  <2>1. swapPlayersInView(V, p, q) = replacedAndAssigned(V, p, q, p, sp)
    BY <1>3 DEF swapPlayersInView, replacedAndAssigned, sp, sq
  <2>2. WellFormed(replacedAndAssigned(V, p, q, p, sp))
    BY <1>1, <1>2, ReplacedAndAssigned
  <2> QED  BY <2>1, <2>2
<1>4. CASE ~(sp # QueueSeat /\ sq = QueueSeat)
  <2>1. swapPlayersInView(V, p, q) = swapPlayersSeatPositions(V, p, q)
    BY <1>4 DEF swapPlayersInView, sp, sq
  <2>2. WellFormed(swapPlayersSeatPositions(V, p, q))
    BY <1>1, SwapWellFormed DEF sp, sq
  <2> QED  BY <2>1, <2>2
<1> QED  BY <1>3, <1>4

Outcomes == {"applied", "refused"} \cup AssertNames

\* The name of the assert that fails, or that none does.
LEMMA MoveOutcomes ==
  ASSUME NEW V, NEW p, NEW s
  PROVE  /\ moveOutcome(V, p, s) \in {"applied"} \cup AssertNames
         /\ moveOutcome(V, p, s) = "applied" =>
              /\ isValidSeatPosition(V, s)
              /\ getPlayerSeatIndex(V, p) # Nowhere /\ getPlayerSeatIndex(V, p) # s
BY DEF moveOutcome, AssertNames

\* What a client makes of a notification, in sync with the server or not.
LEMMA NotifiedCorrect ==
  ASSUME NEW V, WellFormed(V), NEW m \in Packet, m.type \in NotifyTypes
  PROVE  WellFormed(notified(V, m).view) /\ notified(V, m).outcome \in Outcomes
<1> DEFINE r == notified(V, m)
<1>1. CASE m.type = "PlayerConnected"
  <2>1. m.id \in Player /\ m.seat \in Seat /\ r = applyPlayerConnected(V, m.id, m.seat)
    BY <1>1, PacketFields DEF notified
  <2>2. WellFormed(addPlayer(V, m.id, m.seat))
    BY <2>1, AddPlayerWellFormed
  <2> QED  BY <2>1, <2>2 DEF applyPlayerConnected, Outcomes
<1>2. CASE m.type = "SeatPositionsChange"
  <2> DEFINE o == moveOutcome(V, m.id, m.seat)
  <2>1. m.id \in Player /\ m.seat \in Seat /\ r = applySeatPositionsChanged(V, m.id, m.seat)
    BY <1>2, PacketFields DEF notified
  <2>2. o \in Outcomes /\ (m.id \in V.profiles => WellFormed(movePlayerToSeatPosition(V, m.id, m.seat)))
    BY <2>1, MoveOutcomes, ChangeWellFormed DEF movePlayerToSeatPosition, Outcomes
  <2> QED  BY <2>1, <2>2 DEF applySeatPositionsChanged, Outcomes
<1>3. CASE m.type = "SeatPositionsSwap"
  <2>1. m.first \in Player /\ m.second \in Player
        /\ r = applySeatPositionsSwapped(V, m.first, m.second)
    BY <1>3, PacketFields DEF notified
  <2>2. getPlayerSeatIndex(V, m.first) # Nowhere /\ getPlayerSeatIndex(V, m.second) # Nowhere
          => WellFormed(swapPlayersInView(V, m.first, m.second))
    BY <2>1, SwapInViewWellFormed
  <2> QED  BY <2>1, <2>2 DEF applySeatPositionsSwapped, Outcomes, AssertNames
<1>4. CASE m.type = "PlayersPerGameChange"
  <2>1. /\ m.value \in MinPlayersPerGame..MaxPlayersPerGame
        /\ r = applyPlayersPerGameChange(V, m.value)
    BY <1>4, PacketFields DEF notified
  <2>2. WellFormed(playersPerGameChanged(V, m.value))
    BY <2>1, PlayersPerGameWellFormed
  <2> QED  BY <2>1, <2>2 DEF applyPlayersPerGameChange, Outcomes
<1>5. CASE m.type = "LobbyOpenStateChange"
  <2>1. m.isOpen \in BOOLEAN /\ r = applyLobbyOpenState(V, m.isOpen)
    BY <1>5, PacketFields DEF notified
  <2>2. WellFormed(lobbyOpenChanged(V, m.isOpen))
    BY <2>1, LobbyOpenWellFormed
  <2> QED  BY <2>1, <2>2 DEF applyLobbyOpenState, Outcomes
<1> QED  BY <1>1, <1>2, <1>3, <1>4, <1>5 DEF NotifyTypes, RequestTypes

(***************************************************************************)
(* A copy built from a snapshot, also when the seat map of the server has  *)
(* the key -1 and the copy moves that player to the queue.                 *)
(***************************************************************************)
LEMMA SnapshotViewWellFormed ==
  ASSUME NEW L, WellFormed(L)
  PROVE  /\ WellFormed(snapshotView(L))
         /\ snapshotOutcome(L) \in {"applied", "invalidSeat"}
<1> DEFINE stray == L.seats.playerAt[QueueSeat]
           V     == [L EXCEPT !.hostId = IF HostProfile \in L.profiles THEN HostProfile ELSE Nobody]
           sp    == erase(L.seats, stray)
           qq    == << stray >> \o L.queue
           M     == [V EXCEPT !.seats = sp]
<1>1. /\ WellFormed(V) /\ V.seats = L.seats /\ V.queue = L.queue /\ V.profiles = L.profiles
      /\ V \in LobbyType
  BY DEF WellFormed, LobbyType
<1>2. CASE stray = Nobody
  <2>1. snapshotView(L) = V
    BY <1>2 DEF snapshotView
  <2> QED  BY <1>1, <2>1 DEF snapshotOutcome
<1>3. CASE stray # Nobody
  <2>1. /\ L.seats \in SeatPositionsType /\ MapsInverse(L.seats)
        /\ L.queue \in Seq(Player) /\ Ids(L.queue) \subseteq L.profiles
    BY Fields DEF WellFormed
  <2>2. stray \in Player /\ L.seats.seatOf[stray] = QueueSeat
    BY <1>3, <2>1, Reserved DEF SeatPositionsType, MapsInverse
  <2>3. stray \in L.profiles
    BY <2>2, Reserved DEF WellFormed
  <2>4. snapshotView(L) = [V EXCEPT !.seats = sp, !.queue = qq]
    BY <1>1, <1>3 DEF snapshotView
  <2>5. sp \in SeatPositionsType /\ MapsInverse(sp) /\ sp.seatOf = [L.seats.seatOf EXCEPT ![stray] = Nowhere]
    BY <2>1, <2>2, EraseCorrect
  <2>6. qq \in Seq(Player) /\ Ids(qq) \subseteq L.profiles
    <3>1. << stray >> \in Seq(Player) /\ Len(<< stray >>) = 1 /\ << stray >>[1] = stray
      BY <2>2
    <3>2. /\ qq \in Seq(Player) /\ Len(qq) = 1 + Len(L.queue)
          /\ \A i \in 1..(1 + Len(L.queue)) :
               qq[i] = IF i <= 1 THEN << stray >>[i] ELSE L.queue[i - 1]
      BY <2>1, <3>1, ConcatProperties
    <3> HIDE DEF qq, stray
    <3>3. Len(L.queue) \in Nat /\ DOMAIN L.queue = 1..Len(L.queue) /\ DOMAIN qq = 1..Len(qq)
      BY <2>1, <3>2, LenProperties
    <3>4. ASSUME NEW i \in 1..(1 + Len(L.queue))  PROVE qq[i] \in L.profiles
      <4>1. CASE i = 1
        BY <2>3, <3>1, <3>2, <4>1
      <4>2. CASE i # 1
        <5>1. i - 1 \in DOMAIN L.queue /\ qq[i] = L.queue[i - 1]
          BY <3>2, <3>3, <4>2
        <5> QED  BY <2>1, <5>1 DEF Ids
      <4> QED  BY <4>1, <4>2
    <3> QED  BY <3>2, <3>3, <3>4 DEF Ids
  <2> HIDE DEF V, sp, qq, stray
  <2>7. \A x \in Player : sp.seatOf[x] # Nowhere => x \in V.profiles
    BY <1>1, <2>1, <2>5 DEF WellFormed, SeatPositionsType
  <2>8. WellFormed(M) /\ M.profiles = V.profiles
    BY <1>1, <2>5, <2>7, NewSeats DEF Settings
  <2>9. WellFormed([M EXCEPT !.queue = qq])
    BY <1>1, <2>6, <2>8, NewQueue
  <2>10. snapshotView(L) = [M EXCEPT !.queue = qq]
    BY <1>1, <2>4 DEF LobbyType
  <2> QED  BY <2>9, <2>10 DEF snapshotOutcome
<1> QED  BY <1>2, <1>3

\* The ids a smaller table sends to the queue.
LEMMA MovedType ==
  ASSUME NEW V, WellFormed(V), NEW v \in MinPlayersPerGame..MaxPlayersPerGame
  PROVE  movedByShrinking(V, v) \in Seq(Player)
<1> DEFINE sitter(s) == IF s \in v..(V.ppg - 1) /\ V.seats.playerAt[s] # Nobody
                        THEN << V.seats.playerAt[s] >> ELSE << >>
<1>1. V.seats.playerAt \in [Seat -> Player \cup {Nobody}]
  BY Fields DEF SeatPositionsType
<1>2. ASSUME NEW s \in Seat  PROVE sitter(s) \in Seq(Player)
  <2>1. V.seats.playerAt[s] # Nobody => V.seats.playerAt[s] \in Player
    BY <1>1
  <2> QED  BY <2>1
<1>3. sitter(2) \in Seq(Player) /\ sitter(3) \in Seq(Player)
  BY <1>2, DroppedSeats
<1>4. movedByShrinking(V, v) = sitter(2) \o sitter(3)
  BY DEF movedByShrinking
<1> HIDE DEF sitter
<1> QED  BY <1>3, <1>4, ConcatProperties

-----------------------------------------------------------------------------
(* What the steps send *)

\* On its way to a client: the lobbies of snapshots are well formed.
SoundPacket   == {m \in Packet : m.type = "SnapshotEnd" => m.lobby \in SoundLobby}
RequestPacket == {m \in Packet : isRequest(m)}

\* A sound packet is a packet, and so is a request; only a snapshot has a lobby.
LEMMA SoundPackets ==
  /\ SoundPacket \subseteq Packet /\ RequestPacket \subseteq Packet
  /\ \A m \in Packet : m.type # "SnapshotEnd" => m \in SoundPacket
  /\ \A L \in SoundLobby : SnapshotEnd(L) \in SoundPacket
  /\ RequestPacket \subseteq SoundPacket
BY PacketsAre DEF SoundPacket, RequestPacket, SoundLobby, SnapshotEnd, isRequest, RequestTypes

\* A snapshot is two packets, one of which ends it.
LEMMA SnapshotSent ==
  ASSUME NEW q \in Seq(SoundPacket), NEW L \in SoundLobby
  PROVE  /\ q \o Snapshot(L) \in Seq(SoundPacket)
         /\ Number(q \o Snapshot(L), "SnapshotEnd") = Number(q, "SnapshotEnd") + 1
<1> DEFINE r == Append(q, SnapshotBegin)
           m == SnapshotEnd(L)
           t == Append(r, m)
           u == q \o Snapshot(L)
<1>1. /\ SnapshotBegin \in SoundPacket /\ m \in SoundPacket
      /\ SnapshotBegin.type = "SnapshotBegin" /\ m.type = "SnapshotEnd"
  BY SoundPackets, PacketsAre DEF SoundLobby
<1>2. Snapshot(L) = << SnapshotBegin, m >>
  BY DEF Snapshot
<1> HIDE DEF m
<1>3. /\ Snapshot(L) \in Seq(SoundPacket) /\ Len(Snapshot(L)) = 2
      /\ Snapshot(L)[1] = SnapshotBegin /\ Snapshot(L)[2] = m
  BY <1>1, <1>2
<1>4. /\ r \in Seq(SoundPacket) /\ Len(r) = Len(q) + 1 /\ r[Len(q) + 1] = SnapshotBegin
      /\ \A i \in 1..Len(q) : r[i] = q[i]
  BY <1>1, AppendProperties
<1> HIDE DEF r
<1>5. /\ t \in Seq(SoundPacket) /\ Len(t) = Len(r) + 1 /\ t[Len(r) + 1] = m
      /\ \A i \in 1..Len(r) : t[i] = r[i]
  BY <1>1, <1>4, AppendProperties
<1>6. /\ u \in Seq(SoundPacket) /\ Len(u) = Len(q) + 2
      /\ \A i \in 1..Len(q) : u[i] = q[i]
      /\ u[Len(q) + 1] = SnapshotBegin /\ u[Len(q) + 2] = m
  <2>1. Len(q) \in Nat
    BY LenProperties
  <2>2. /\ u \in Seq(SoundPacket) /\ Len(u) = Len(q) + Len(Snapshot(L))
        /\ \A i \in 1..(Len(q) + Len(Snapshot(L))) :
             u[i] = IF i <= Len(q) THEN q[i] ELSE Snapshot(L)[i - Len(q)]
    BY <1>3, ConcatProperties
  <2> HIDE DEF t, u
  <2> QED  BY <1>3, <2>1, <2>2
<1> HIDE DEF t, u
<1>7. u = t
  <2>1. Len(q) \in Nat
    BY LenProperties
  <2>2. \A i \in 1..(Len(q) + 2) : i <= Len(q) \/ i = Len(q) + 1 \/ i = Len(q) + 2
    BY <2>1
  <2>3. \A i \in 1..(Len(q) + 2) : u[i] = t[i]
    BY <1>4, <1>5, <1>6, <2>1, <2>2
  <2>4. Len(u) = Len(t)
    BY <1>4, <1>5, <1>6, <2>1
  <2> QED  BY <1>5, <1>6, <2>3, <2>4, SeqEqual
<1>8. q \in Seq(Packet) /\ r \in Seq(Packet)
  BY <1>4, SoundPackets, SeqMonotonic
<1>9. Number(r, "SnapshotEnd") = Number(q, "SnapshotEnd")
  BY <1>1, <1>8, SoundPackets, NumberAppend DEF r
<1>10. Number(t, "SnapshotEnd") = Number(r, "SnapshotEnd") + 1
  BY <1>1, <1>8, SoundPackets, NumberAppend DEF t
<1> QED  BY <1>6, <1>7, <1>9, <1>10 DEF u

\* The greeting of a new client.
LEMMA WelcomeSent ==
  ASSUME NEW L \in SoundLobby
  PROVE  /\ << Welcome >> \o Snapshot(L) \in Seq(SoundPacket)
         /\ Number(<< Welcome >> \o Snapshot(L), "SnapshotEnd") = 1
<1>1. Welcome \in SoundPacket /\ Welcome.type # "SnapshotEnd"
  BY SoundPackets, PacketsAre
<1>2. << Welcome >> \in Seq(SoundPacket) /\ << Welcome >> \in Seq(Packet)
  BY <1>1, SoundPackets
<1>3. Number(<< Welcome >>, "SnapshotEnd") = 0
  BY <1>1, <1>2, NumberType
<1>4. Number(<< Welcome >> \o Snapshot(L), "SnapshotEnd") = Number(<< Welcome >>, "SnapshotEnd") + 1
  BY <1>2, SnapshotSent
<1>5. << Welcome >> \o Snapshot(L) \in Seq(SoundPacket)
  BY <1>2, SnapshotSent
<1> QED  BY <1>3, <1>4, <1>5

\* broadcast adds the packet for the players of the lobby other than c.
LEMMA BroadcastCorrect ==
  ASSUME NEW chan \in [Player -> Seq(SoundPacket)], NEW m \in Packet,
         m.type # "SnapshotEnd", NEW c \in Player
  PROVE  /\ broadcast(chan, m, c) \in [Player -> Seq(SoundPacket)]
         /\ \A d \in Player :
              Number(broadcast(chan, m, c)[d], "SnapshotEnd") = Number(chan[d], "SnapshotEnd")
         /\ \A d \in Player \ (lobby.profiles \ {c}) : broadcast(chan, m, c)[d] = chan[d]
         /\ \A d \in (Player \cap lobby.profiles) \ {c} : broadcast(chan, m, c)[d] = Append(chan[d], m)
<1>1. m \in SoundPacket
  BY SoundPackets
<1>2. \A d \in Player : /\ Append(chan[d], m) \in Seq(SoundPacket)
                        /\ Number(Append(chan[d], m), "SnapshotEnd") = Number(chan[d], "SnapshotEnd")
  <2> SUFFICES ASSUME NEW d \in Player
               PROVE  /\ Append(chan[d], m) \in Seq(SoundPacket)
                      /\ Number(Append(chan[d], m), "SnapshotEnd") = Number(chan[d], "SnapshotEnd")
    OBVIOUS
  <2>1. chan[d] \in Seq(SoundPacket) /\ chan[d] \in Seq(Packet)
    BY SoundPackets, SeqMonotonic
  <2> QED  BY <1>1, <2>1, AppendProperties, NumberAppend
<1> QED  BY <1>2 DEF broadcast

(***************************************************************************)
(* Whatever the user asks for: the copy stays well formed, and what is     *)
(* sent are requests.                                                      *)
(***************************************************************************)
LEMMA UserAsks ==
  ASSUME NEW c \in Player, view[c] \in SoundLobby, UserStep(c)
  PROVE  \E V \in SoundLobby, packets \in Seq(RequestPacket) : Ask(c, V, packets)
<1> DEFINE V == view[c]
           Goal == \E W \in SoundLobby, packets \in Seq(RequestPacket) : Ask(c, W, packets)
<1>0. WellFormed(V)
  BY DEF SoundLobby
<1>1. ASSUME NEW p \in Player, NEW s \in Seat, AskSeatChange(c, p, s)
      PROVE  Goal
  <2>1. p \in V.profiles
    BY <1>1 DEF AskSeatChange, MayChangeSeat
  <2>2. movePlayerToSeatPosition(V, p, s) \in SoundLobby
    BY <1>0, <2>1, ChangeWellFormed, SoundLobbies DEF movePlayerToSeatPosition
  <2>3. << SeatChangePacket(p, s) >> \in Seq(RequestPacket)
    BY PacketsAre DEF RequestPacket, isRequest, RequestTypes
  <2> QED  BY <1>1, <2>2, <2>3 DEF AskSeatChange
<1>2. ASSUME NEW p \in Player, NEW q \in Player, AskSwap(c, p, q)
      PROVE  Goal
  <2>1. /\ getPlayerSeatIndex(V, p) # Nowhere /\ q \in V.profiles
        /\ getPlayerSeatIndex(V, q) \in 0..(V.ppg - 1)
    BY <1>2 DEF AskSwap, MaySwap
  <2>2. getPlayerSeatIndex(V, q) # Nowhere
    BY <1>0, <2>1, TableSeats
  <2>3. swapPlayersInView(V, p, q) \in SoundLobby
    BY <1>0, <2>1, <2>2, SwapInViewWellFormed, SoundLobbies
  <2>4. << SwapPacket(p, q) >> \in Seq(RequestPacket)
    BY PacketsAre DEF RequestPacket, isRequest, RequestTypes
  <2> QED  BY <1>2, <2>3, <2>4 DEF AskSwap
<1>3. ASSUME NEW v \in MinPlayersPerGame..MaxPlayersPerGame, AskPlayersPerGame(c, v)
      PROVE  Goal
  <2> DEFINE out == movedByShrinking(V, v)
             moves == [k \in DOMAIN out |-> SeatChangePacket(out[k], QueueSeat)]
             last == << PpgPacket(v) >>
  <2>1. out \in Seq(Player)
    BY <1>0, MovedType
  <2>2. Ask(c, playersPerGameChanged(V, v), moves \o last)
    BY <1>3 DEF AskPlayersPerGame
  <2> HIDE DEF out
  <2>3. moves \in Seq(RequestPacket)
    <3>1. Len(out) \in Nat /\ DOMAIN out = 1..Len(out)
      BY <2>1, LenProperties
    <3>2. \A k \in 1..Len(out) : SeatChangePacket(out[k], QueueSeat) \in RequestPacket
      BY <2>1, <3>1, Reserved, ElementOfSeq, PacketsAre DEF RequestPacket, isRequest, RequestTypes
    <3> QED  BY <3>1, <3>2
  <2>4. last \in Seq(RequestPacket)
    BY PacketsAre DEF RequestPacket, isRequest, RequestTypes
  <2> HIDE DEF moves, last
  <2>5. moves \o last \in Seq(RequestPacket)
    BY <2>3, <2>4, ConcatProperties
  <2>6. playersPerGameChanged(V, v) \in SoundLobby
    BY <1>0, PlayersPerGameWellFormed, SoundLobbies
  <2> QED  BY <2>2, <2>5, <2>6
<1>4. ASSUME NEW b \in BOOLEAN, AskLobbyOpen(c, b)
      PROVE  Goal
  <2>1. lobbyOpenChanged(V, b) \in SoundLobby
    BY <1>0, LobbyOpenWellFormed, SoundLobbies
  <2>2. << OpenPacket(b) >> \in Seq(RequestPacket)
    BY PacketsAre DEF RequestPacket, isRequest, RequestTypes
  <2> QED  BY <1>4, <2>1, <2>2 DEF AskLobbyOpen
<1> QED  BY <1>1, <1>2, <1>3, <1>4 DEF UserStep

-----------------------------------------------------------------------------
(***************************************************************************)
(* The inductive invariant.  TypeInv is TypeOK with well-formed lobbies    *)
(* everywhere, in the packets too; Strangers, that nothing was ever sent   *)
(* to or by a client that is not in the lobby; HostFirst, that the first   *)
(* profile made is the host's, which never leaves here.                    *)
(***************************************************************************)
SyncStates == {"Unsynced", "Syncing", "Synced"}

TypeInv ==
  /\ lobby \in SoundLobby
  /\ session \in [Player -> SyncStates]
  /\ view \in [Player -> SoundLobby]
  /\ sync \in [Player -> SyncStates]
  /\ welcomed \in [Player -> BOOLEAN]
  /\ down \in [Player -> {"up"} \cup AssertNames]
  /\ toClient \in [Player -> Seq(SoundPacket)]
  /\ toServer \in [Player -> Seq(Packet)]
  /\ hellos \in Nat
  /\ requests \in 0..MaxRequests
  /\ overlap \in BOOLEAN

Strangers ==
  \A c \in Player : c \notin lobby.profiles =>
    /\ toClient[c] = << >> /\ toServer[c] = << >>
    /\ session[c] = "Unsynced" /\ sync[c] = "Unsynced" /\ ~welcomed[c]

HostFirst ==
  /\ \A c \in lobby.profiles : c < hellos
  /\ hellos = 0 => lobby = initialLobby
  /\ hellos # 0 => HostProfile \in lobby.profiles /\ lobby.hostId = HostProfile

\* SnapshotHandshake, in numbers of packets.
Handshake ==
  \A c \in Player : down[c] = "up" =>
    Number(toClient[c], "SnapshotEnd") + Number(toServer[c], "SnapshotAck")
      = IF session[c] = "Syncing" THEN 1 ELSE 0

Inv == TypeInv /\ Strangers /\ HostFirst /\ Handshake

\* The numbers of the invariant are numbers.
LEMMA NumbersAre ==
  ASSUME TypeInv, NEW c \in Player
  PROVE  /\ toClient[c] \in Seq(SoundPacket) /\ toClient[c] \in Seq(Packet)
         /\ toServer[c] \in Seq(Packet)
         /\ Number(toClient[c], "SnapshotEnd") \in Nat
         /\ Number(toServer[c], "SnapshotAck") \in Nat
<1>1. toClient[c] \in Seq(SoundPacket) /\ toServer[c] \in Seq(Packet)
  BY DEF TypeInv
<1>2. toClient[c] \in Seq(Packet)
  BY <1>1, SoundPackets, SeqMonotonic
<1> QED  BY <1>1, <1>2, NumberType

\* Profiles are ids, and ids are numbers.
LEMMA ProfilesAre ==
  ASSUME TypeInv
  PROVE  lobby.profiles \subseteq Player /\ lobby.profiles \subseteq Nat
<1>1. WellFormed(lobby)
  BY SoundLobbies DEF TypeInv
<1> QED  BY <1>1, Fields, PlayerAssumption

\* Nobody has connected yet.
LEMMA InitInv == Init => Inv
<1> SUFFICES ASSUME Init  PROVE Inv
  OBVIOUS
<1>1. TypeInv
  <2>1. /\ lobby \in SoundLobby /\ view \in [Player -> SoundLobby]
        /\ toClient \in [Player -> Seq(SoundPacket)] /\ toServer \in [Player -> Seq(Packet)]
    BY SoundLobbies, EmptySeq DEF Init
  <2>2. session \in [Player -> SyncStates] /\ sync \in [Player -> SyncStates]
    BY DEF Init, SyncStates
  <2>3. welcomed \in [Player -> BOOLEAN] /\ overlap \in BOOLEAN
    BY DEF Init
  <2>4. down \in [Player -> {"up"} \cup AssertNames]
    BY DEF Init
  <2>5. hellos \in Nat /\ requests \in 0..MaxRequests
    BY MaxRequestsAssumption DEF Init
  <2> QED  BY <2>1, <2>2, <2>3, <2>4, <2>5 DEF TypeInv
<1>2. Strangers
  BY DEF Init, Strangers
<1>3. HostFirst
  BY DEF Init, HostFirst, initialLobby
<1>4. Number(<< >>, "SnapshotEnd") = 0 /\ Number(<< >>, "SnapshotAck") = 0
  BY EmptySeq, NumberType
<1>5. Handshake
  BY <1>4 DEF Init, Handshake
<1> QED  BY <1>1, <1>2, <1>3, <1>5 DEF Inv

\* canJoin of the lobby that no one has entered.
LEMMA FirstCanJoin == canJoin(initialLobby)
BY FS_EmptySet, MaxPlayersInLobbyAssumption DEF canJoin, initialLobby

(***************************************************************************)
(* A new client: what it is sent is the first packet of its channel, and   *)
(* it is the only one that is told of a snapshot.                          *)
(***************************************************************************)
LEMMA HelloInv ==
  ASSUME Inv, NEW c \in Player, Hello(c)
  PROVE  Inv'
<1> USE DEF Inv
<1>1. c \notin lobby.profiles /\ hellos \in Nat /\ c = hellos
  BY DEF Hello, HostFirst, TypeInv
<1>2. CASE ~canJoin(lobby)
  <2>1. UNCHANGED << lobby, session, clientVars, netVars, requests, overlap >> /\ hellos' = hellos + 1
    BY <1>2 DEF Hello, netVars
  <2>2. hellos # 0
    BY <1>2, FirstCanJoin DEF HostFirst
  <2>3. TypeInv'
    BY <1>1, <2>1 DEF TypeInv, clientVars, netVars
  <2>4. Strangers' /\ Handshake'
    BY <2>1 DEF Strangers, Handshake, clientVars, netVars
  <2>5. HostFirst'
    <3>1. lobby.profiles \subseteq Nat
      BY ProfilesAre
    <3> QED  BY <1>1, <2>1, <2>2, <3>1 DEF HostFirst
  <2> QED  BY <2>3, <2>4, <2>5
<1>3. CASE canJoin(lobby)
  <2> DEFINE L == playerConnected(lobby, c)
             m == ConnectedPacket(c, getSeatPositionById(L, c))
             greeting == << Welcome >> \o Snapshot(L)
             told == broadcast(toClient, m, c)
  <2>1. /\ lobby' = L /\ hellos' = hellos + 1
        /\ session' = [session EXCEPT ![c] = "Syncing"]
        /\ toClient' = [told EXCEPT ![c] = greeting]
        /\ overlap' = (overlap \/ anyRequest)
        /\ UNCHANGED << view, sync, welcomed, down, toServer, requests >>
    BY <1>3 DEF Hello, clientVars
  <2>2. WellFormed(lobby)
    BY SoundLobbies DEF TypeInv
  <2>3. /\ L \in SoundLobby /\ L.profiles = lobby.profiles \cup {c}
        /\ getSeatPositionById(L, c) \in Seat
        /\ L.hostId = IF isHost(c) THEN c ELSE lobby.hostId
    BY <2>2, PlayerConnectedWellFormed, PlayerConnectedProfiles, PlayerConnectedPosition, SoundLobbies
  <2>4. m \in Packet /\ m.type # "SnapshotEnd"
    BY <2>3, PacketsAre
  <2>5. /\ greeting \in Seq(SoundPacket) /\ Number(greeting, "SnapshotEnd") = 1
    BY <2>3, WelcomeSent
  <2>6. toClient \in [Player -> Seq(SoundPacket)]
    BY DEF TypeInv
  <2>7. /\ told \in [Player -> Seq(SoundPacket)]
        /\ \A d \in Player : Number(told[d], "SnapshotEnd") = Number(toClient[d], "SnapshotEnd")
        /\ \A d \in Player \ (lobby.profiles \ {c}) : told[d] = toClient[d]
    BY <2>4, <2>6, BroadcastCorrect
  <2> HIDE DEF L, m, greeting, told
  <2>8. TypeInv'
    <3>1. overlap' \in BOOLEAN
      BY <2>1 DEF TypeInv, anyRequest
    <3>2. session' \in [Player -> SyncStates]
      BY <2>1 DEF TypeInv, SyncStates
    <3> QED  BY <2>1, <2>3, <2>5, <2>7, <3>1, <3>2 DEF TypeInv
  <2>9. Strangers'
    BY <2>1, <2>3, <2>7 DEF Strangers, TypeInv
  <2>10. HostFirst'
    <3>1. \A d \in L.profiles : d < hellos + 1
      <4>1. lobby.profiles \subseteq Nat
        BY ProfilesAre
      <4> QED  BY <1>1, <2>3, <4>1 DEF HostFirst
    <3>2. HostProfile \in L.profiles /\ L.hostId = HostProfile
      BY <1>1, <2>3 DEF HostFirst, isHost, HostProfile
    <3> QED  BY <1>1, <2>1, <3>1, <3>2 DEF HostFirst
  <2>11. Handshake'
    <3>1. toServer[c] = << >>
      BY <1>1 DEF Strangers
    <3>2. Number(toServer[c], "SnapshotAck") = 0
      BY <3>1, EmptySeq, NumberType
    <3>3. \A d \in Player \ {c} : toClient'[d] = told[d] /\ session'[d] = session[d]
      BY <2>1, <2>7 DEF TypeInv
    <3>4. toClient'[c] = greeting /\ session'[c] = "Syncing"
      BY <2>1, <2>7 DEF TypeInv
    <3> QED  BY <2>1, <2>5, <2>7, <3>2, <3>3, <3>4 DEF Handshake
  <2> QED  BY <2>8, <2>9, <2>10, <2>11
<1> QED  BY <1>2, <1>3

(***************************************************************************)
(* The server takes a packet of c: c is a player of the lobby, and an      *)
(* acknowledgement is taken only if it is the one that was waited for.     *)
(***************************************************************************)
LEMMA ArrivedFacts ==
  ASSUME TypeInv, Strangers, NEW c \in Player, Arrived(c)
  PROVE  /\ c \in lobby.profiles
         /\ Head(toServer[c]) \in Packet
         /\ toServer' = [toServer EXCEPT ![c] = Tail(toServer[c])]
         /\ toServer' \in [Player -> Seq(Packet)]
         /\ \A d \in Player \ {c} : toServer'[d] = toServer[d]
         /\ Number(toServer'[c], "SnapshotAck") \in Nat
         /\ Head(toServer[c]).type # "SnapshotAck"
              => Number(toServer'[c], "SnapshotAck") = Number(toServer[c], "SnapshotAck")
         /\ Head(toServer[c]).type = "SnapshotAck"
              => Number(toServer'[c], "SnapshotAck") = Number(toServer[c], "SnapshotAck") - 1
         /\ UNCHANGED << hellos, view, sync, welcomed, down, requests, overlap >>
<1> DEFINE q == toServer[c]
<1>1. /\ q # << >> /\ toServer' = [toServer EXCEPT ![c] = Tail(q)]
      /\ UNCHANGED << hellos, view, sync, welcomed, down, requests, overlap >>
  BY DEF Arrived, clientVars
<1>2. q \in Seq(Packet) /\ toServer \in [Player -> Seq(Packet)]
  BY DEF TypeInv
<1>3. Head(q) \in Packet /\ Tail(q) \in Seq(Packet)
  BY <1>1, <1>2, HeadTailProperties
<1>4. c \in lobby.profiles
  BY <1>1 DEF Strangers
<1>5. /\ Head(q).type # "SnapshotAck" => Number(Tail(q), "SnapshotAck") = Number(q, "SnapshotAck")
      /\ Head(q).type = "SnapshotAck" => Number(Tail(q), "SnapshotAck") = Number(q, "SnapshotAck") - 1
  BY <1>1, <1>2, NumberTail
<1>6. Number(Tail(q), "SnapshotAck") \in Nat
  BY <1>3, NumberType
<1>7. toServer'[c] = Tail(q)
  BY <1>1, <1>2
<1> HIDE DEF q
<1>8. /\ toServer' \in [Player -> Seq(Packet)]
      /\ \A d \in Player \ {c} : toServer'[d] = toServer[d]
  BY <1>1, <1>2, <1>3
<1> QED  BY <1>1, <1>3, <1>4, <1>5, <1>6, <1>7, <1>8 DEF q

\* A request is no acknowledgement and no snapshot.
LEMMA RequestsAreNot ==
  ASSUME NEW m, isRequest(m)
  PROVE  m.type # "SnapshotAck" /\ m.type # "SnapshotEnd"
BY DEF isRequest, RequestTypes

\* An accepted request: the other players are told.
LEMMA AcceptInv ==
  ASSUME Inv, NEW c \in Player, AcceptRequest(c)
  PROVE  Inv'
<1> USE DEF Inv
<1> DEFINE m == Head(toServer[c])
<1>1. /\ Arrived(c) /\ isRequest(m) /\ Accepted(lobby, m, c)
      /\ lobby' = applied(lobby, m)
      /\ toClient' = broadcast(toClient, m, c)
      /\ session' = session
  BY DEF AcceptRequest
<1>2. /\ m \in Packet /\ m.type # "SnapshotEnd"
      /\ toServer' \in [Player -> Seq(Packet)]
      /\ \A d \in Player \ {c} : toServer'[d] = toServer[d]
      /\ Number(toServer'[c], "SnapshotAck") = Number(toServer[c], "SnapshotAck")
      /\ UNCHANGED << hellos, view, sync, welcomed, down, requests, overlap >>
      /\ c \in lobby.profiles
  BY <1>1, ArrivedFacts, RequestsAreNot
<1> HIDE DEF m
<1>3. WellFormed(lobby) /\ toClient \in [Player -> Seq(SoundPacket)]
  BY SoundLobbies DEF TypeInv
<1>4. lobby' \in SoundLobby /\ lobby'.profiles = lobby.profiles /\ lobby'.hostId = lobby.hostId
  BY <1>1, <1>2, <1>3, AppliedCorrect, SoundLobbies
<1>5. /\ toClient' \in [Player -> Seq(SoundPacket)]
      /\ \A d \in Player : Number(toClient'[d], "SnapshotEnd") = Number(toClient[d], "SnapshotEnd")
      /\ \A d \in Player \ (lobby.profiles \ {c}) : toClient'[d] = toClient[d]
  <2> DEFINE told == broadcast(toClient, m, c)
  <2>1. /\ told \in [Player -> Seq(SoundPacket)]
        /\ \A d \in Player : Number(told[d], "SnapshotEnd") = Number(toClient[d], "SnapshotEnd")
        /\ \A d \in Player \ (lobby.profiles \ {c}) : told[d] = toClient[d]
    BY <1>2, <1>3, BroadcastCorrect
  <2>2. toClient' = told
    BY <1>1
  <2> QED  BY <2>1, <2>2
<1>6. TypeInv'
  BY <1>1, <1>2, <1>4, <1>5 DEF TypeInv
<1>7. Strangers'
  BY <1>1, <1>2, <1>4, <1>5 DEF Strangers
<1>8. HostFirst'
  <2>1. hellos # 0
    BY <1>2 DEF HostFirst, initialLobby
  <2> QED  BY <1>2, <1>4, <2>1 DEF HostFirst
<1>9. Handshake'
  BY <1>1, <1>2, <1>5 DEF Handshake
<1> QED  BY <1>6, <1>7, <1>8, <1>9

\* A rejected request: a snapshot, unless one is under way.
LEMMA RejectInv ==
  ASSUME Inv, NEW c \in Player, RejectRequest(c)
  PROVE  Inv'
<1> USE DEF Inv
<1> DEFINE m == Head(toServer[c])
           q == toClient[c] \o Snapshot(lobby)
<1>1. Arrived(c) /\ isRequest(m) /\ lobby' = lobby
  BY DEF RejectRequest
<1>2. /\ toServer' \in [Player -> Seq(Packet)]
      /\ \A d \in Player \ {c} : toServer'[d] = toServer[d]
      /\ Number(toServer'[c], "SnapshotAck") = Number(toServer[c], "SnapshotAck")
      /\ UNCHANGED << hellos, view, sync, welcomed, down, requests, overlap >>
      /\ c \in lobby.profiles
  BY <1>1, ArrivedFacts, RequestsAreNot
<1> HIDE DEF m
<1>3. HostFirst'
  BY <1>1, <1>2 DEF HostFirst
<1>4. CASE session[c] = "Syncing"
  <2>1. session' = session /\ toClient' = toClient
    BY <1>4 DEF RejectRequest
  <2>2. TypeInv' /\ Strangers' /\ Handshake'
    BY <1>1, <1>2, <2>1 DEF TypeInv, Strangers, Handshake
  <2> QED  BY <1>3, <2>2
<1>5. CASE session[c] # "Syncing"
  <2>1. /\ session' = [session EXCEPT ![c] = "Syncing"]
        /\ toClient' = [toClient EXCEPT ![c] = q]
    BY <1>5 DEF RejectRequest
  <2>2. /\ q \in Seq(SoundPacket)
        /\ Number(q, "SnapshotEnd") = Number(toClient[c], "SnapshotEnd") + 1
    BY NumbersAre, SnapshotSent DEF TypeInv
  <2>3. /\ Number(toClient[c], "SnapshotEnd") \in Nat
        /\ Number(toServer[c], "SnapshotAck") \in Nat
    BY NumbersAre
  <2> HIDE DEF q
  <2>4. /\ toClient'[c] = q /\ session'[c] = "Syncing"
        /\ \A d \in Player \ {c} : toClient'[d] = toClient[d] /\ session'[d] = session[d]
    BY <2>1 DEF TypeInv
  <2>5. TypeInv'
    <3>1. session' \in [Player -> SyncStates]
      BY <2>1 DEF TypeInv, SyncStates
    <3> QED  BY <1>1, <1>2, <2>1, <2>2, <3>1 DEF TypeInv
  <2>6. Strangers'
    BY <1>1, <1>2, <2>4 DEF Strangers
  <2>7. Handshake'
    <3>1. down[c] = "up" => Number(q, "SnapshotEnd") + Number(toServer'[c], "SnapshotAck") = 1
      BY <1>2, <1>5, <2>2, <2>3 DEF Handshake
    <3> QED  BY <1>2, <2>4, <3>1 DEF Handshake
  <2> QED  BY <1>3, <2>5, <2>6, <2>7
<1> QED  BY <1>4, <1>5

\* The acknowledgement ends the handshake.
LEMMA AckInv ==
  ASSUME Inv, NEW c \in Player, onSnapshotAck(c)
  PROVE  Inv'
<1> USE DEF Inv
<1>1. /\ Arrived(c) /\ Head(toServer[c]).type = "SnapshotAck"
      /\ session' = [session EXCEPT ![c] = "Synced"]
      /\ UNCHANGED << lobby, toClient >>
  BY PacketsAre DEF onSnapshotAck
<1>2. /\ toServer' \in [Player -> Seq(Packet)]
      /\ \A d \in Player \ {c} : toServer'[d] = toServer[d]
      /\ Number(toServer'[c], "SnapshotAck") = Number(toServer[c], "SnapshotAck") - 1
      /\ Number(toServer'[c], "SnapshotAck") \in Nat
      /\ UNCHANGED << hellos, view, sync, welcomed, down, requests, overlap >>
      /\ c \in lobby.profiles
  BY <1>1, ArrivedFacts
<1>3. /\ session'[c] = "Synced" /\ \A d \in Player \ {c} : session'[d] = session[d]
      /\ session' \in [Player -> SyncStates]
  BY <1>1 DEF TypeInv, SyncStates
<1>4. TypeInv' /\ Strangers' /\ HostFirst'
  BY <1>1, <1>2, <1>3 DEF TypeInv, Strangers, HostFirst
<1>5. Handshake'
  <2>1. /\ Number(toClient[c], "SnapshotEnd") \in Nat
        /\ Number(toServer[c], "SnapshotAck") \in Nat
    BY NumbersAre
  <2>2. down[c] = "up" =>
          Number(toClient[c], "SnapshotEnd") + Number(toServer'[c], "SnapshotAck") = 0
    BY <1>2, <2>1 DEF Handshake
  <2> QED  BY <1>1, <1>2, <1>3, <2>2 DEF Handshake
<1> QED  BY <1>4, <1>5

\* A packet nobody handles.
LEMMA DropUpdateInv ==
  ASSUME Inv, NEW c \in Player, DropUpdateRequest(c)
  PROVE  Inv'
<1> USE DEF Inv
<1>1. /\ Arrived(c) /\ Head(toServer[c]).type = "UpdateRequest"
      /\ UNCHANGED << lobby, session, toClient >>
  BY PacketsAre DEF DropUpdateRequest
<1>2. /\ toServer' \in [Player -> Seq(Packet)]
      /\ \A d \in Player \ {c} : toServer'[d] = toServer[d]
      /\ Number(toServer'[c], "SnapshotAck") = Number(toServer[c], "SnapshotAck")
      /\ UNCHANGED << hellos, view, sync, welcomed, down, requests, overlap >>
      /\ c \in lobby.profiles
  BY <1>1, ArrivedFacts
<1> QED  BY <1>1, <1>2 DEF TypeInv, Strangers, HostFirst, Handshake

(***************************************************************************)
(* A client takes a packet: only the end of a snapshot moves the handshake *)
(* on, from the packet to its acknowledgement.                             *)
(***************************************************************************)
LEMMA ReceivedFacts ==
  ASSUME TypeInv, NEW c \in Player, Received(c)
  PROVE  /\ down[c] = "up" /\ toClient[c] # << >>
         /\ Head(toClient[c]) \in SoundPacket /\ Head(toClient[c]) \in Packet
         /\ toClient' = [toClient EXCEPT ![c] = Tail(toClient[c])]
         /\ toClient' \in [Player -> Seq(SoundPacket)]
         /\ \A d \in Player \ {c} : toClient'[d] = toClient[d]
         /\ Number(toClient'[c], "SnapshotEnd") \in Nat
         /\ Head(toClient[c]).type # "SnapshotEnd"
              => Number(toClient'[c], "SnapshotEnd") = Number(toClient[c], "SnapshotEnd")
         /\ Head(toClient[c]).type = "SnapshotEnd"
              => Number(toClient'[c], "SnapshotEnd") = Number(toClient[c], "SnapshotEnd") - 1
         /\ UNCHANGED << lobby, session, hellos, requests, overlap >>
<1> DEFINE q == toClient[c]
<1>1. /\ q # << >> /\ toClient' = [toClient EXCEPT ![c] = Tail(q)] /\ down[c] = "up"
      /\ UNCHANGED << lobby, session, hellos, requests, overlap >>
  BY DEF Received, serverVars
<1>2. q \in Seq(SoundPacket) /\ q \in Seq(Packet) /\ toClient \in [Player -> Seq(SoundPacket)]
  BY NumbersAre DEF TypeInv
<1>3. Head(q) \in SoundPacket /\ Tail(q) \in Seq(SoundPacket)
  BY <1>1, <1>2, HeadTailProperties
<1>4. Head(q) \in Packet /\ Tail(q) \in Seq(Packet)
  BY <1>1, <1>2, HeadTailProperties
<1>5. /\ Head(q).type # "SnapshotEnd" => Number(Tail(q), "SnapshotEnd") = Number(q, "SnapshotEnd")
      /\ Head(q).type = "SnapshotEnd" => Number(Tail(q), "SnapshotEnd") = Number(q, "SnapshotEnd") - 1
  BY <1>1, <1>2, NumberTail
<1>6. Number(Tail(q), "SnapshotEnd") \in Nat
  BY <1>4, NumberType
<1>7. toClient'[c] = Tail(q)
  BY <1>1, <1>2
<1> HIDE DEF q
<1>8. /\ toClient' \in [Player -> Seq(SoundPacket)]
      /\ \A d \in Player \ {c} : toClient'[d] = toClient[d]
  BY <1>1, <1>2, <1>3
<1> QED  BY <1>1, <1>3, <1>4, <1>5, <1>6, <1>7, <1>8 DEF q

(***************************************************************************)
(* The steps of a client share this: what is left of the invariant once    *)
(* the types of what the client changes are known.                         *)
(***************************************************************************)
LEMMA ReceivedInv ==
  ASSUME Inv, NEW c \in Player, Received(c),
         view' \in [Player -> SoundLobby], sync' \in [Player -> SyncStates],
         welcomed' \in [Player -> BOOLEAN], down' \in [Player -> {"up"} \cup AssertNames],
         toServer' \in [Player -> Seq(Packet)],
         \A d \in Player \ {c} : /\ down'[d] = down[d] /\ welcomed'[d] = welcomed[d]
                                 /\ toServer'[d] = toServer[d] /\ sync'[d] = sync[d],
         down'[c] = "up" =>
           IF Head(toClient[c]).type = "SnapshotEnd"
           THEN Number(toServer'[c], "SnapshotAck") = Number(toServer[c], "SnapshotAck") + 1
           ELSE Number(toServer'[c], "SnapshotAck") = Number(toServer[c], "SnapshotAck")
  PROVE  Inv'
<1> USE DEF Inv
<1>1. /\ down[c] = "up" /\ toClient[c] # << >>
      /\ toClient' \in [Player -> Seq(SoundPacket)]
      /\ \A d \in Player \ {c} : toClient'[d] = toClient[d]
      /\ Number(toClient'[c], "SnapshotEnd") \in Nat
      /\ Head(toClient[c]).type # "SnapshotEnd"
           => Number(toClient'[c], "SnapshotEnd") = Number(toClient[c], "SnapshotEnd")
      /\ Head(toClient[c]).type = "SnapshotEnd"
           => Number(toClient'[c], "SnapshotEnd") = Number(toClient[c], "SnapshotEnd") - 1
      /\ UNCHANGED << lobby, session, hellos, requests, overlap >>
  BY ReceivedFacts
<1>2. /\ Number(toClient[c], "SnapshotEnd") \in Nat
      /\ Number(toServer[c], "SnapshotAck") \in Nat
  BY NumbersAre
<1>3. TypeInv'
  BY <1>1 DEF TypeInv
<1>4. Strangers' /\ HostFirst'
  BY <1>1 DEF Strangers, HostFirst
<1>5. down'[c] = "up" =>
        Number(toClient'[c], "SnapshotEnd") + Number(toServer'[c], "SnapshotAck")
          = Number(toClient[c], "SnapshotEnd") + Number(toServer[c], "SnapshotAck")
  BY <1>1, <1>2
<1>6. Handshake'
  BY <1>1, <1>5 DEF Handshake
<1> QED  BY <1>3, <1>4, <1>6

\* The greeting and the beginning of a snapshot.
LEMMA WelcomeInv ==
  ASSUME Inv, NEW c \in Player, onWelcome(c) \/ onSnapshotBegin(c) \/ DropNotify(c)
  PROVE  Inv'
<1>1. /\ Received(c) /\ Head(toClient[c]).type # "SnapshotEnd"
      /\ down' = down /\ toServer' = toServer
  BY PacketsAre DEF onWelcome, onSnapshotBegin, DropNotify, NotifyTypes, RequestTypes, clientVars
<1>2. view' \in [Player -> SoundLobby]
  BY SoundLobbies DEF Inv, TypeInv, onWelcome, onSnapshotBegin, DropNotify, clientVars
<1>3. /\ sync' \in [Player -> SyncStates]
      /\ \A d \in Player \ {c} : sync'[d] = sync[d]
  BY DEF Inv, TypeInv, onWelcome, onSnapshotBegin, DropNotify, SyncStates, clientVars
<1>4. /\ welcomed' \in [Player -> BOOLEAN]
      /\ \A d \in Player \ {c} : welcomed'[d] = welcomed[d]
  <2>1. welcomed \in [Player -> BOOLEAN]
    BY DEF Inv, TypeInv
  <2>2. welcomed' = welcomed \/ welcomed' = [welcomed EXCEPT ![c] = TRUE]
    BY DEF onWelcome, onSnapshotBegin, DropNotify, clientVars
  <2> QED  BY <2>1, <2>2
<1>5. /\ down' \in [Player -> {"up"} \cup AssertNames] /\ toServer' \in [Player -> Seq(Packet)]
      /\ \A d \in Player : down'[d] = down[d] /\ toServer'[d] = toServer[d]
  BY <1>1 DEF Inv, TypeInv
<1> QED  BY <1>1, <1>2, <1>3, <1>4, <1>5, ReceivedInv

\* The end of a snapshot is acknowledged, or the client dies of it.
LEMMA SnapshotEndInv ==
  ASSUME Inv, NEW c \in Player, onSnapshotEnd(c)
  PROVE  Inv'
<1> DEFINE L == Head(toClient[c]).lobby
<1>1. Received(c) /\ Head(toClient[c]).type = "SnapshotEnd" /\ welcomed' = welcomed
  BY DEF onSnapshotEnd
<1>2. L \in SoundLobby
  BY <1>1, ReceivedFacts DEF Inv, SoundPacket
<1>3. snapshotView(L) \in SoundLobby /\ snapshotOutcome(L) \in {"applied", "invalidSeat"}
  BY <1>2, SnapshotViewWellFormed, SoundLobbies
<1> HIDE DEF L
<1>4. /\ view \in [Player -> SoundLobby] /\ sync \in [Player -> SyncStates]
      /\ welcomed \in [Player -> BOOLEAN] /\ down \in [Player -> {"up"} \cup AssertNames]
      /\ toServer \in [Player -> Seq(Packet)]
  BY DEF Inv, TypeInv
<1>5. CASE snapshotOutcome(L) = "applied"
  <2>1. /\ view' = [view EXCEPT ![c] = snapshotView(L)]
        /\ sync' = [sync EXCEPT ![c] = "Synced"]
        /\ toServer' = [toServer EXCEPT ![c] = Append(toServer[c], SnapshotAck)]
        /\ down' = down
    BY <1>5 DEF onSnapshotEnd, L
  <2>2. /\ Append(toServer[c], SnapshotAck) \in Seq(Packet)
        /\ Number(Append(toServer[c], SnapshotAck), "SnapshotAck")
             = Number(toServer[c], "SnapshotAck") + 1
    BY <1>4, PacketsAre, AppendProperties, NumberAppend
  <2>3. /\ toServer'[c] = Append(toServer[c], SnapshotAck)
        /\ \A d \in Player \ {c} : toServer'[d] = toServer[d]
        /\ toServer' \in [Player -> Seq(Packet)]
    BY <1>4, <2>1, <2>2
  <2>4. /\ view' \in [Player -> SoundLobby] /\ sync' \in [Player -> SyncStates]
        /\ \A d \in Player \ {c} : sync'[d] = sync[d]
    BY <1>3, <1>4, <2>1 DEF SyncStates
  <2> QED  BY <1>1, <1>4, <2>1, <2>2, <2>3, <2>4, ReceivedInv
<1>6. CASE snapshotOutcome(L) # "applied"
  <2>1. /\ view' = view /\ sync' = sync /\ toServer' = toServer
        /\ down' = [down EXCEPT ![c] = "invalidSeat"]
    BY <1>3, <1>6 DEF onSnapshotEnd, L
  <2>2. /\ down' \in [Player -> {"up"} \cup AssertNames]
        /\ down'[c] # "up" /\ \A d \in Player \ {c} : down'[d] = down[d]
    BY <1>4, <2>1 DEF AssertNames
  <2> QED  BY <1>1, <1>4, <2>1, <2>2, ReceivedInv
<1> QED  BY <1>5, <1>6

\* A notification is applied, refused, or fails an assert.
LEMMA NotifyInv ==
  ASSUME Inv, NEW c \in Player, onNotify(c)
  PROVE  Inv'
<1> DEFINE m == Head(toClient[c])
           r == notified(view[c], m)
<1>1. /\ Received(c) /\ m.type \in NotifyTypes /\ welcomed' = welcomed
      /\ view' = [view EXCEPT ![c] = r.view]
      /\ down' = IF r.outcome \in AssertNames
                 THEN [down EXCEPT ![c] = r.outcome] ELSE down
      /\ IF r.outcome = "refused"
         THEN /\ sync'     = [sync EXCEPT ![c] = "Syncing"]
              /\ toServer' = [toServer EXCEPT ![c] = Append(toServer[c], UpdateRequest)]
         ELSE UNCHANGED << sync, toServer >>
  BY DEF onNotify
<1>2. /\ view \in [Player -> SoundLobby] /\ sync \in [Player -> SyncStates]
      /\ welcomed \in [Player -> BOOLEAN] /\ down \in [Player -> {"up"} \cup AssertNames]
      /\ toServer \in [Player -> Seq(Packet)]
  BY DEF Inv, TypeInv
<1>3. m \in Packet /\ m.type # "SnapshotEnd"
  BY <1>1, ReceivedFacts DEF Inv, NotifyTypes, RequestTypes
<1> HIDE DEF m
<1>4. r.view \in SoundLobby /\ r.outcome \in Outcomes
  BY <1>1, <1>2, <1>3, NotifiedCorrect, SoundLobbies
<1> HIDE DEF r
<1>5. /\ view' \in [Player -> SoundLobby]
      /\ down' \in [Player -> {"up"} \cup AssertNames]
      /\ \A d \in Player \ {c} : down'[d] = down[d]
  BY <1>1, <1>2, <1>4
<1>6. sync' \in [Player -> SyncStates] /\ \A d \in Player \ {c} : sync'[d] = sync[d]
  BY <1>1, <1>2 DEF SyncStates
<1>7. /\ toServer' \in [Player -> Seq(Packet)]
      /\ \A d \in Player \ {c} : toServer'[d] = toServer[d]
      /\ Number(toServer'[c], "SnapshotAck") = Number(toServer[c], "SnapshotAck")
  <2>1. /\ Append(toServer[c], UpdateRequest) \in Seq(Packet)
        /\ Number(Append(toServer[c], UpdateRequest), "SnapshotAck")
             = Number(toServer[c], "SnapshotAck")
    BY <1>2, PacketsAre, AppendProperties, NumberAppend
  <2> QED  BY <1>1, <1>2, <2>1
<1> QED  BY <1>1, <1>2, <1>3, <1>5, <1>6, <1>7, ReceivedInv DEF m

\* A user's request: the copy of a client that has been welcomed, and so is in the lobby.
LEMMA AskInv ==
  ASSUME Inv, NEW c \in Player, UserStep(c)
  PROVE  Inv'
<1> USE DEF Inv
<1>1. PICK V \in SoundLobby, packets \in Seq(RequestPacket) : Ask(c, V, packets)
  BY UserAsks DEF TypeInv
<1>2. /\ welcomed[c] /\ requests < MaxRequests /\ requests' = requests + 1
      /\ view' = [view EXCEPT ![c] = V]
      /\ toServer' = [toServer EXCEPT ![c] = toServer[c] \o packets]
      /\ overlap' = (overlap \/ ~UpToDate(c))
      /\ UNCHANGED << lobby, session, hellos, sync, welcomed, down, toClient >>
  BY <1>1 DEF Ask, serverVars
<1>3. c \in lobby.profiles
  BY <1>2 DEF Strangers
<1>4. packets \in Seq(Packet) /\ \A k \in DOMAIN packets : packets[k].type # "SnapshotAck"
  <2>1. packets \in Seq(Packet)
    BY SoundPackets, SeqMonotonic
  <2>2. \A k \in DOMAIN packets : packets[k] \in RequestPacket
    BY LenProperties, ElementOfSeq
  <2> QED  BY <2>1, <2>2, RequestsAreNot DEF RequestPacket
<1>5. /\ toServer[c] \o packets \in Seq(Packet)
      /\ Number(toServer[c] \o packets, "SnapshotAck") = Number(toServer[c], "SnapshotAck")
  <2>1. toServer[c] \in Seq(Packet)
    BY DEF TypeInv
  <2> QED  BY <1>4, <2>1, ConcatProperties, NumberConcat
<1>6. /\ toServer' \in [Player -> Seq(Packet)]
      /\ \A d \in Player \ {c} : toServer'[d] = toServer[d]
      /\ Number(toServer'[c], "SnapshotAck") = Number(toServer[c], "SnapshotAck")
  BY <1>2, <1>5 DEF TypeInv
<1>7. TypeInv'
  <2>1. view' \in [Player -> SoundLobby]
    BY <1>2 DEF TypeInv
  <2>2. requests' \in 0..MaxRequests
    BY <1>2, MaxRequestsAssumption DEF TypeInv
  <2>3. overlap' \in BOOLEAN
    BY <1>2 DEF TypeInv, UpToDate
  <2> QED  BY <1>2, <1>6, <2>1, <2>2, <2>3 DEF TypeInv
<1>8. Strangers' /\ HostFirst' /\ Handshake'
  BY <1>2, <1>3, <1>6 DEF Strangers, HostFirst, Handshake
<1> QED  BY <1>7, <1>8

\* Every step keeps the invariant.
LEMMA StepInv == Inv /\ [Next]_vars => Inv'
<1>1. ASSUME Inv, NEW c \in Player, ServerStep(c)  PROVE Inv'
  BY <1>1, HelloInv, AcceptInv, RejectInv, AckInv, DropUpdateInv DEF ServerStep
<1>2. ASSUME Inv, NEW c \in Player, ClientStep(c)  PROVE Inv'
  BY <1>2, WelcomeInv, SnapshotEndInv, NotifyInv DEF ClientStep
<1>3. ASSUME Inv, UNCHANGED vars  PROVE Inv'
  BY <1>3 DEF Inv, TypeInv, Strangers, HostFirst, Handshake, vars, serverVars, clientVars, netVars
<1> QED  BY <1>1, <1>2, <1>3, AskInv DEF Next

\* The invariant holds of every reachable state.
THEOREM AlwaysInv == Spec => []Inv
BY InitInv, StepInv, PTL DEF Spec

(***************************************************************************)
(* However requests overlap and snapshots cross them, the handshake stays  *)
(* in step: a syncing session has one snapshot or one acknowledgement      *)
(* under way, and every copy's seat maps stay inverse to each other.       *)
(***************************************************************************)
THEOREM SyncStaysConsistent == Spec => []SyncConsistent
<1>1. ASSUME Inv  PROVE TypeOK
  <2>1. toClient \in [Player -> Seq(Packet)]
    <3>1. \A c \in Player : toClient[c] \in Seq(Packet)
      BY <1>1, NumbersAre DEF Inv
    <3> QED  BY <1>1, <3>1 DEF Inv, TypeInv
  <2>2. lobby \in LobbyType /\ view \in [Player -> LobbyType]
    BY <1>1 DEF Inv, TypeInv, SoundLobby
  <2> QED  BY <1>1, <2>1, <2>2 DEF Inv, TypeInv, TypeOK, SyncStates
<1>2. ASSUME Inv  PROVE SnapshotHandshake
  <2>1. ASSUME NEW c \in Player
        PROVE  pending(c) = Number(toClient[c], "SnapshotEnd") + Number(toServer[c], "SnapshotAck")
    <3>1. toServer[c] \in Seq(Packet)
      BY <1>2 DEF Inv, TypeInv
    <3>2. \A k \in DOMAIN toServer[c] : toServer[c][k] \in Packet
      BY <3>1, LenProperties, ElementOfSeq
    <3>3. \A k \in DOMAIN toServer[c] :
            toServer[c][k] = SnapshotAck <=> toServer[c][k].type = "SnapshotAck"
      BY <3>2, AckByType
    <3>4. {k \in DOMAIN toServer[c] : toServer[c][k] = SnapshotAck}
            = Positions(toServer[c], "SnapshotAck")
      BY <3>3 DEF Positions
    <3> QED  BY <3>4 DEF pending, Number, Positions
  <2> QED  BY <1>2, <2>1 DEF Inv, Handshake, SnapshotHandshake
<1>3. ASSUME Inv  PROVE ViewSeatsInverse
  <2>1. \A c \in Player : WellFormed(view[c])
    BY <1>3, SoundLobbies DEF Inv, TypeInv
  <2> QED  BY <2>1 DEF ViewSeatsInverse, WellFormed
<1>4. Inv => SyncConsistent
  BY <1>1, <1>2, <1>3 DEF SyncConsistent
<1> QED  BY <1>4, AlwaysInv, PTL

-----------------------------------------------------------------------------
(***************************************************************************)
(* The server of LobbySync is LobbyServer.  The instances define every     *)
(* operation of LobbyLogic again; they are the same operations.            *)
(***************************************************************************)
LEMMA AnyServerNumbers ==
  /\ Nobody = AnyServer!Nobody /\ Nowhere = AnyServer!Nowhere /\ QueueSeat = AnyServer!QueueSeat
  /\ HostProfile = AnyServer!HostProfile /\ Seat = AnyServer!Seat
  /\ MinPlayersPerGame = AnyServer!MinPlayersPerGame
  /\ MaxPlayersPerGame = AnyServer!MaxPlayersPerGame
BY DEF Nobody, Nowhere, QueueSeat, HostProfile, Seat, MinPlayersPerGame, MaxPlayersPerGame,
       AnyServer!Nobody, AnyServer!Nowhere, AnyServer!QueueSeat, AnyServer!HostProfile,
       AnyServer!Seat, AnyServer!MinPlayersPerGame, AnyServer!MaxPlayersPerGame

\* How many elements a finite set has.
LEMMA AnyServerCardinality == \A S : Cardinality(S) = AnyServer!Cardinality(S)
BY DEF Cardinality, AnyServer!Cardinality

\* The operations of the seat maps.
LEMMA AnyServerSeats ==
  /\ \A sp, p : erase(sp, p) = AnyServer!erase(sp, p)
  /\ \A sp, p, s : assignSeat(sp, p, s) = AnyServer!assignSeat(sp, p, s)
  /\ \A sp, p, q : swapPlayers(sp, p, q) = AnyServer!swapPlayers(sp, p, q)
<1>1. \A sp, p : erase(sp, p) = AnyServer!erase(sp, p)
  BY DEF erase, eraseFromMaps, AnyServer!erase, AnyServer!eraseFromMaps,
         Nobody, Nowhere, AnyServer!Nobody, AnyServer!Nowhere
<1>2. \A sp, p, s : assignSeat(sp, p, s) = AnyServer!assignSeat(sp, p, s)
  BY <1>1, AnyServerNumbers DEF assignSeat, AnyServer!assignSeat
<1>3. \A sp, p, q : swapPlayers(sp, p, q) = AnyServer!swapPlayers(sp, p, q)
  BY DEF swapPlayers, AnyServer!swapPlayers
<1> QED  BY <1>1, <1>2, <1>3

\* The operations of the queue.
LEMMA AnyServerQueue ==
  /\ \A q : Ids(q) = AnyServer!Ids(q)
  /\ \A q, p : eraseId(q, p) = AnyServer!eraseId(q, p)
  /\ \A q, old, new : replaceId(q, old, new) = AnyServer!replaceId(q, old, new)
<1>1. \A q : Ids(q) = AnyServer!Ids(q)
  BY DEF Ids, AnyServer!Ids
<1>2. \A q, p : eraseId(q, p) = AnyServer!eraseId(q, p)
  <2>1. \A q, p, i : Occurrences(q, p, i) = AnyServer!Occurrences(q, p, i)
    BY AnyServerCardinality DEF Occurrences, AnyServer!Occurrences
  <2>2. \A q, p, k : KeptAt(q, p, k) = AnyServer!KeptAt(q, p, k)
    BY <2>1 DEF KeptAt, AnyServer!KeptAt
  <2> QED  BY <2>1, <2>2 DEF eraseId, AnyServer!eraseId
<1>3. \A q, old, new : replaceId(q, old, new) = AnyServer!replaceId(q, old, new)
  BY DEF replaceId, AnyServer!replaceId
<1> QED  BY <1>1, <1>2, <1>3

\* The operations of the lobby.
LEMMA AnyServerOperations ==
  /\ initialLobby = AnyServer!initialLobby
  /\ \A L : canJoin(L) <=> AnyServer!canJoin(L)
  /\ \A L, p : getSeatPositionById(L, p) = AnyServer!getSeatPositionById(L, p)
  /\ \A L, s : isSeatPositionOccupied(L, s) <=> AnyServer!isSeatPositionOccupied(L, s)
  /\ \A L, p, s : place(L, p, s) = AnyServer!place(L, p, s)
  /\ \A L, p : playerConnected(L, p) = AnyServer!playerConnected(L, p)
  /\ \A L, p, s : changePlayerSeatPosition(L, p, s) = AnyServer!changePlayerSeatPosition(L, p, s)
  /\ \A L, p, q : swapPlayersSeatPositions(L, p, q) = AnyServer!swapPlayersSeatPositions(L, p, q)
  /\ \A L, v : playersPerGameChanged(L, v) = AnyServer!playersPerGameChanged(L, v)
  /\ \A L, b : lobbyOpenChanged(L, b) = AnyServer!lobbyOpenChanged(L, b)
<1>1. initialLobby = AnyServer!initialLobby
  BY DEF initialLobby, emptySeats, Seat, MaxPlayersPerGame, MinPlayersPerGame, Nobody,
         Nowhere, QueueSeat, AnyServer!initialLobby, AnyServer!emptySeats, AnyServer!Seat,
         AnyServer!MaxPlayersPerGame, AnyServer!MinPlayersPerGame, AnyServer!Nobody,
         AnyServer!Nowhere, AnyServer!QueueSeat
<1>2. \A L : canJoin(L) <=> AnyServer!canJoin(L)
  BY AnyServerCardinality DEF canJoin, AnyServer!canJoin
<1>3. \A L, p : getSeatPositionById(L, p) = AnyServer!getSeatPositionById(L, p)
  BY AnyServerNumbers, AnyServerQueue DEF getSeatPositionById, AnyServer!getSeatPositionById
<1>4. \A L, s : isSeatPositionOccupied(L, s) <=> AnyServer!isSeatPositionOccupied(L, s)
  BY AnyServerNumbers DEF isSeatPositionOccupied, AnyServer!isSeatPositionOccupied
<1>5. \A L, p, s : place(L, p, s) = AnyServer!place(L, p, s)
  BY AnyServerNumbers, AnyServerSeats DEF place, AnyServer!place
<1>6. \A L, p : playerConnected(L, p) = AnyServer!playerConnected(L, p)
  BY <1>4, <1>5, AnyServerNumbers
     DEF playerConnected, AnyServer!playerConnected, isHost, AnyServer!isHost, addPlayer, AnyServer!addPlayer
<1>7. \A L, p, s : changePlayerSeatPosition(L, p, s) = AnyServer!changePlayerSeatPosition(L, p, s)
  BY <1>3, <1>5, AnyServerNumbers, AnyServerQueue, AnyServerSeats
     DEF changePlayerSeatPosition, AnyServer!changePlayerSeatPosition
<1>8. \A L, p, q : swapPlayersSeatPositions(L, p, q) = AnyServer!swapPlayersSeatPositions(L, p, q)
  <2> SUFFICES ASSUME NEW L, NEW p, NEW q
               PROVE  swapPlayersSeatPositions(L, p, q) = AnyServer!swapPlayersSeatPositions(L, p, q)
    OBVIOUS
  <2> DEFINE sp == getSeatPositionById(L, p)
             sq == getSeatPositionById(L, q)
             one == replaceId(L.queue, p, q)
             other == replaceId(L.queue, q, p)
             there == assignSeat(L.seats, p, sq)
             same == assignSeat(L.seats, q, sq)
             swapped == swapPlayers(L.seats, p, q)
  <2>1. swapPlayersSeatPositions(L, p, q)
          = IF sp = QueueSeat THEN [L EXCEPT !.queue = one, !.seats = there]
            ELSE IF sq = QueueSeat THEN [L EXCEPT !.queue = other, !.seats = same]
            ELSE [L EXCEPT !.seats = swapped]
    BY DEF swapPlayersSeatPositions
  <2>2. /\ sp = AnyServer!getSeatPositionById(L, p) /\ sq = AnyServer!getSeatPositionById(L, q)
        /\ one = AnyServer!replaceId(L.queue, p, q) /\ other = AnyServer!replaceId(L.queue, q, p)
        /\ swapped = AnyServer!swapPlayers(L.seats, p, q) /\ QueueSeat = AnyServer!QueueSeat
    BY <1>3, AnyServerNumbers, AnyServerQueue, AnyServerSeats
  <2>3. there = AnyServer!assignSeat(L.seats, p, sq) /\ same = AnyServer!assignSeat(L.seats, q, sq)
    BY AnyServerSeats
  <2> HIDE DEF sp, sq, one, other, there, same, swapped
  <2>4. AnyServer!swapPlayersSeatPositions(L, p, q)
          = IF sp = QueueSeat THEN [L EXCEPT !.queue = one, !.seats = there]
            ELSE IF sq = QueueSeat THEN [L EXCEPT !.queue = other, !.seats = same]
            ELSE [L EXCEPT !.seats = swapped]
    BY <2>2, <2>3 DEF AnyServer!swapPlayersSeatPositions
  <2> QED  BY <2>1, <2>4
<1>9. \A L, v : playersPerGameChanged(L, v) = AnyServer!playersPerGameChanged(L, v)
  <2>1. \A L, s : clearSeat(L, s) = AnyServer!clearSeat(L, s)
    BY <1>7, AnyServerNumbers DEF clearSeat, AnyServer!clearSeat
  <2>2. \A L, v : clearDroppedSeats(L, v) = AnyServer!clearDroppedSeats(L, v)
    BY <2>1 DEF clearDroppedSeats, AnyServer!clearDroppedSeats
  <2> QED  BY <2>2 DEF playersPerGameChanged, AnyServer!playersPerGameChanged
<1>10. \A L, b : lobbyOpenChanged(L, b) = AnyServer!lobbyOpenChanged(L, b)
  BY DEF lobbyOpenChanged, AnyServer!lobbyOpenChanged
<1> QED  BY <1>1, <1>2, <1>3, <1>4, <1>5, <1>6, <1>7, <1>8, <1>9, <1>10

\* What LobbyLogic accepts.
LEMMA AnyServerChecks ==
  /\ \A p : isHost(p) <=> AnyServer!isHost(p)
  /\ \A L, p, s, i : SeatChangeAccepted(L, p, s, i) <=> AnyServer!SeatChangeAccepted(L, p, s, i)
  /\ \A L, p, q, i : SwapAccepted(L, p, q, i) <=> AnyServer!SwapAccepted(L, p, q, i)
  /\ \A L, v, i : PlayersPerGameAccepted(L, v, i) <=> AnyServer!PlayersPerGameAccepted(L, v, i)
  /\ \A L, b, i : LobbyOpenAccepted(L, b, i) <=> AnyServer!LobbyOpenAccepted(L, b, i)
<1>1. \A p : isHost(p) <=> AnyServer!isHost(p)
  BY AnyServerNumbers DEF isHost, AnyServer!isHost
<1>2. \A L, p, s, i : SeatChangeAccepted(L, p, s, i) <=> AnyServer!SeatChangeAccepted(L, p, s, i)
  BY <1>1, AnyServerNumbers, AnyServerOperations
     DEF SeatChangeAccepted, AnyServer!SeatChangeAccepted, isSeatPositionCorrect,
         AnyServer!isSeatPositionCorrect
<1>3. \A L, p, q, i : SwapAccepted(L, p, q, i) <=> AnyServer!SwapAccepted(L, p, q, i)
  BY <1>1, AnyServerNumbers, AnyServerOperations DEF SwapAccepted, AnyServer!SwapAccepted
<1>4. \A L, v, i : PlayersPerGameAccepted(L, v, i) <=> AnyServer!PlayersPerGameAccepted(L, v, i)
  BY <1>1, AnyServerNumbers DEF PlayersPerGameAccepted, AnyServer!PlayersPerGameAccepted
<1>5. \A L, b, i : LobbyOpenAccepted(L, b, i) <=> AnyServer!LobbyOpenAccepted(L, b, i)
  BY DEF LobbyOpenAccepted, AnyServer!LobbyOpenAccepted
<1> QED  BY <1>1, <1>2, <1>3, <1>4, <1>5

(***************************************************************************)
(* The abstract step behind each step: a new profile is a PlayerConnect,   *)
(* an accepted packet the request it carries, and nothing else touches the *)
(* lobby.                                                                  *)
(***************************************************************************)
LEMMA StepIsServerStep == Inv /\ [Next]_vars => [AnyServer!Next]_lobby
<1>1. ASSUME Inv, NEW c \in Player, Hello(c)
      PROVE  lobby' = lobby \/ AnyServer!Next
  <2>1. CASE ~canJoin(lobby)
    BY <1>1, <2>1 DEF Hello
  <2>2. CASE canJoin(lobby)
    <3>1. lobby' = playerConnected(lobby, c) /\ c = hellos
      BY <1>1, <2>2 DEF Hello
    <3>2. c \notin lobby.profiles
      BY <1>1, <3>1 DEF Inv, HostFirst, TypeInv
    <3>3. isHost(c) \/ lobby.hostId # Nobody
      BY <1>1, <3>1 DEF Inv, HostFirst, isHost, HostProfile, Nobody
    <3>4. AnyServer!PlayerConnect(c)
      BY <2>2, <3>1, <3>2, <3>3, AnyServerChecks, AnyServerNumbers, AnyServerOperations
         DEF AnyServer!PlayerConnect
    <3> QED  BY <3>4 DEF AnyServer!Next
  <2> QED  BY <2>1, <2>2
<1>2. ASSUME Inv, NEW c \in Player, AcceptRequest(c)
      PROVE  AnyServer!Next
  <2> DEFINE m == Head(toServer[c])
  <2>1. /\ Arrived(c) /\ isRequest(m) /\ Accepted(lobby, m, c) /\ lobby' = applied(lobby, m)
    BY <1>2 DEF AcceptRequest
  <2>2. m \in Packet /\ c \in lobby.profiles
    BY <1>2, <2>1, ArrivedFacts DEF Inv
  <2> HIDE DEF m
  <2>3. CASE m.type = "SeatPositionsChange"
    <3>1. m.id \in Player /\ m.seat \in AnyServer!Seat
      BY <2>2, <2>3, PacketFields, AnyServerNumbers
    <3>2. AnyServer!SeatPositionsChange(c, m.id, m.seat)
      BY <2>1, <2>3, AnyServerChecks, AnyServerOperations
         DEF AnyServer!SeatPositionsChange, Accepted, applied
    <3> QED  BY <2>2, <3>1, <3>2 DEF AnyServer!Next, AnyServer!RequestOf
  <2>4. CASE m.type = "SeatPositionsSwap"
    <3>1. m.first \in Player /\ m.second \in Player
      BY <2>2, <2>4, PacketFields
    <3>2. AnyServer!SeatPositionsSwap(c, m.first, m.second)
      BY <2>1, <2>4, AnyServerChecks, AnyServerOperations
         DEF AnyServer!SeatPositionsSwap, Accepted, applied
    <3> QED  BY <2>2, <3>1, <3>2 DEF AnyServer!Next, AnyServer!RequestOf
  <2>5. CASE m.type = "PlayersPerGameChange"
    <3>1. m.value \in AnyServer!MinPlayersPerGame..AnyServer!MaxPlayersPerGame
      BY <2>2, <2>5, PacketFields, AnyServerNumbers
    <3>2. AnyServer!PlayersPerGameChange(c, m.value)
      BY <2>1, <2>5, AnyServerChecks, AnyServerOperations
         DEF AnyServer!PlayersPerGameChange, Accepted, applied
    <3> QED  BY <2>2, <3>1, <3>2 DEF AnyServer!Next, AnyServer!RequestOf
  <2>6. CASE m.type = "LobbyOpenStateChange"
    <3>1. m.isOpen \in BOOLEAN
      BY <2>2, <2>6, PacketFields
    <3>2. AnyServer!LobbyOpenStateChange(c, m.isOpen)
      BY <2>1, <2>6, AnyServerChecks, AnyServerOperations
         DEF AnyServer!LobbyOpenStateChange, Accepted, applied
    <3> QED  BY <2>2, <3>1, <3>2 DEF AnyServer!Next, AnyServer!RequestOf
  <2> QED  BY <2>1, <2>3, <2>4, <2>5, <2>6 DEF isRequest, RequestTypes
<1>3. ASSUME NEW c \in Player,
             RejectRequest(c) \/ onSnapshotAck(c) \/ DropUpdateRequest(c) \/ ClientStep(c)
      PROVE  lobby' = lobby
  BY <1>3 DEF RejectRequest, onSnapshotAck, DropUpdateRequest, ClientStep, onWelcome,
              onSnapshotBegin, onSnapshotEnd, onNotify, DropNotify, Received, serverVars
<1>4. ASSUME Inv, NEW c \in Player, UserStep(c)
      PROVE  lobby' = lobby
  <2>1. \E V \in SoundLobby, packets \in Seq(RequestPacket) : Ask(c, V, packets)
    BY <1>4, UserAsks DEF Inv, TypeInv
  <2> QED  BY <2>1 DEF Ask, serverVars
<1>5. ASSUME UNCHANGED vars  PROVE lobby' = lobby
  BY <1>5 DEF vars, serverVars
<1> QED  BY <1>1, <1>2, <1>3, <1>4, <1>5 DEF Next, ServerStep

(***************************************************************************)
(* Every behaviour of the server and its clients is, seen at the lobby,    *)
(* one of LobbyServer with any requests: what is proved of that            *)
(* specification whatever arrives holds here.                              *)
(***************************************************************************)
THEOREM ServerAcceptsAnyRequests == Spec => AnyServer!Spec
<1>1. Init => AnyServer!Init
  BY AnyServerOperations DEF Init, AnyServer!Init
<1> QED  BY <1>1, AlwaysInv, StepIsServerStep, PTL DEF Spec, AnyServer!Spec

-----------------------------------------------------------------------------
(***************************************************************************)
(* As long as requests do not overlap, the copies agree with the server,   *)
(* no assert of a client fails, no request is refused, and the server is   *)
(* LobbyServer with fresh requests.                                        *)
(*                                                                         *)
(* The argument follows the packets.  What one client has asked for and    *)
(* the server has not handled yet leads, request by request, from the      *)
(* server's lobby to that client's copy (Run); what the server has sent    *)
(* and a client has not handled yet leads from that client's copy to the   *)
(* server's lobby (Trace).  Neither is computed: both say that a sequence  *)
(* of lobbies between the two exists.                                      *)
(***************************************************************************)

(* Requests made on a lobby *)

\* A lobby in which everyone has one place, and the host is there if anyone is.
Good(L) ==
  /\ WellFormed(L) /\ Placed(L) /\ Bounded(L)
  /\ L.profiles # {} => HostProfile \in L.profiles /\ L.hostId = HostProfile

\* What the client's checks let the user c ask for, given the lobby L.
MadeOn(L, m, c) ==
  \/ m.type = "SeatPositionsChange" /\ MayChangeSeat(L, c, m.id, m.seat)
  \/ m.type = "SeatPositionsSwap" /\ MaySwap(L, c, m.first, m.second)
  \/ /\ m.type = "PlayersPerGameChange" /\ MayChangePlayersPerGame(L, c, m.value)
     /\ movedByShrinking(L, m.value) = << >>
  \/ m.type = "LobbyOpenStateChange" /\ MayChangeLobbyOpen(L, c, m.isOpen)

\* Only the settings count for Good besides the places.
LEMMA GoodSettings ==
  ASSUME NEW L, Good(L), NEW M, WellFormed(M), Placed(M),
         M.profiles = L.profiles, M.hostId = L.hostId
  PROVE  Good(M)
BY DEF Good, Bounded

\* The empty lobby of a server that has just started.
LEMMA InitialGood == Good(initialLobby)
<1>1. /\ initialLobby.seats.seatOf = [x \in Player |-> Nowhere]
      /\ initialLobby.queue = << >> /\ initialLobby.profiles = {}
  BY DEF initialLobby, emptySeats
<1>2. IsInjective(<< >>)
  BY DEF IsInjective
<1>3. Placed(initialLobby)
  BY <1>1, <1>2 DEF Placed, TablePlaces
<1>4. Bounded(initialLobby)
  BY <1>1, FS_EmptySet, MaxPlayersInLobbyAssumption DEF Bounded
<1> QED  BY <1>1, <1>3, <1>4, InitialWellFormed DEF Good

\* The places of the client's terms, for a player of the lobby.
LEMMA SeatIndex ==
  ASSUME NEW L, NEW p \in L.profiles
  PROVE  getPlayerSeatIndex(L, p) = getSeatPositionById(L, p)
BY DEF getPlayerSeatIndex

(***************************************************************************)
(* The server accepts a seat change that was made on the lobby it has, and *)
(* a client that has that lobby makes of the notification what the server  *)
(* made of the request.                                                    *)
(***************************************************************************)
LEMMA SeatChangeMadeOn ==
  ASSUME NEW L, Good(L), NEW c \in L.profiles, NEW p \in Player, NEW s \in Seat,
         MayChangeSeat(L, c, p, s)
  PROVE  /\ SeatChangeAccepted(L, p, s, c) /\ s < L.ppg
         /\ Good(changePlayerSeatPosition(L, p, s))
         /\ changePlayerSeatPosition(L, p, s).profiles = L.profiles
         /\ applySeatPositionsChanged(L, p, s)
              = [outcome |-> "applied", view |-> changePlayerSeatPosition(L, p, s)]
<1>1. /\ WellFormed(L) /\ Placed(L) /\ Bounded(L) /\ L.hostId = HostProfile
      /\ L.seats.playerAt \in [Seat -> Player \cup {Nobody}]
      /\ L.ppg \in MinPlayersPerGame..MaxPlayersPerGame
  BY Fields DEF Good, SeatPositionsType
<1>2. /\ p \in L.profiles /\ (c # p => isHost(c)) /\ (L.canMove \/ isHost(c))
      /\ isValidSeatPosition(L, s)
      /\ getSeatPositionById(L, p) \notin {Nowhere, s}
      /\ getPlayerIdBySeatIndex(L, s) = Nobody
  BY SeatIndex DEF MayChangeSeat
<1>3. s \in {QueueSeat} \cup 0..(L.ppg - 1)
  BY <1>2 DEF isValidSeatPosition
<1>4. s < L.ppg /\ isSeatPositionCorrect(L, s)
  BY <1>1, <1>3 DEF isSeatPositionCorrect, QueueSeat, MinPlayersPerGame, MaxPlayersPerGame
<1>5. ~isSeatPositionOccupied(L, s)
  <2>1. CASE s = QueueSeat
    <3>1. L.seats.seatOf[p] # Nowhere
      BY <1>1, <1>2, <2>1, PlacedPosition
    <3>2. Len(L.queue) < MaxPlayersInLobby
      BY <1>1, <1>2, <3>1, QueueIsShort
    <3>3. Len(L.queue) \in Nat
      BY <1>1, Fields, LenProperties
    <3> QED  BY <2>1, <3>2, <3>3, MaxPlayersInLobbyAssumption DEF isSeatPositionOccupied
  <2>2. CASE s # QueueSeat
    BY <1>2, <1>3, <2>2 DEF getPlayerIdBySeatIndex, isSeatPositionOccupied
  <2> QED  BY <2>1, <2>2
<1>6. s # QueueSeat => \A x \in Player : L.seats.seatOf[x] # s
  BY <1>1, <1>5, FreeSeat
<1>7. SeatChangeAccepted(L, p, s, c)
  BY <1>1, <1>2, <1>4, <1>5 DEF SeatChangeAccepted, isHost
<1> DEFINE R == changePlayerSeatPosition(L, p, s)
<1>8. WellFormed(R) /\ Settings(R) = Settings(L) /\ Placed(R)
  BY <1>1, <1>2, <1>3, <1>6, ChangeWellFormed, ChangePlaced
<1>9. moveOutcome(L, p, s) = "applied"
  <2>1. getPlayerSeatIndex(L, p) \notin {Nowhere, s}
    BY <1>2, SeatIndex
  <2> QED  BY <1>2, <2>1 DEF moveOutcome
<1>10. applySeatPositionsChanged(L, p, s) = [outcome |-> "applied", view |-> R]
  BY <1>2, <1>9 DEF applySeatPositionsChanged, movePlayerToSeatPosition
<1> HIDE DEF R
<1>11. R.profiles = L.profiles /\ R.hostId = L.hostId
  BY <1>8 DEF Settings
<1>12. Good(R)
  BY <1>8, <1>11, GoodSettings
<1> QED  BY <1>4, <1>7, <1>10, <1>11, <1>12 DEF R

\* The same of a swap; the copy is swapped as the server's lobby is.
LEMMA SwapMadeOn ==
  ASSUME NEW L, Good(L), NEW c \in L.profiles, NEW p \in Player, NEW q \in Player,
         MaySwap(L, c, p, q)
  PROVE  /\ SwapAccepted(L, p, q, c) /\ getSeatPositionById(L, q) # QueueSeat
         /\ Good(swapPlayersSeatPositions(L, p, q))
         /\ swapPlayersSeatPositions(L, p, q).profiles = L.profiles
         /\ swapPlayersInView(L, p, q) = swapPlayersSeatPositions(L, p, q)
         /\ applySeatPositionsSwapped(L, p, q)
              = [outcome |-> "applied", view |-> swapPlayersSeatPositions(L, p, q)]
<1> DEFINE R == swapPlayersSeatPositions(L, p, q)
<1>1. WellFormed(L) /\ Placed(L)
  BY DEF Good
<1>2. /\ p \in L.profiles /\ q \in L.profiles /\ isHost(c)
      /\ getPlayerSeatIndex(L, p) = getSeatPositionById(L, p)
      /\ getPlayerSeatIndex(L, q) = getSeatPositionById(L, q)
      /\ getSeatPositionById(L, p) # Nowhere
      /\ getSeatPositionById(L, q) \in 0..(L.ppg - 1)
      /\ getSeatPositionById(L, p) # getSeatPositionById(L, q)
  BY SeatIndex DEF MaySwap
<1>3. getSeatPositionById(L, q) # Nowhere /\ getSeatPositionById(L, q) # QueueSeat
  BY <1>1, <1>2, TableSeats
<1>4. SwapAccepted(L, p, q, c)
  BY <1>2, <1>3 DEF SwapAccepted
<1>5. WellFormed(R) /\ Settings(R) = Settings(L) /\ Placed(R)
  BY <1>1, <1>2, <1>3, SwapWellFormed, SwapPlaced
<1>6. swapPlayersInView(L, p, q) = R
  BY <1>2, <1>3 DEF swapPlayersInView
<1>7. applySeatPositionsSwapped(L, p, q) = [outcome |-> "applied", view |-> swapPlayersInView(L, p, q)]
  <2>1. Nowhere \notin {getPlayerSeatIndex(L, p), getPlayerSeatIndex(L, q)}
    BY <1>2, <1>3
  <2>2. getPlayerSeatIndex(L, p) # getPlayerSeatIndex(L, q)
    BY <1>2
  <2> QED  BY <2>1, <2>2 DEF applySeatPositionsSwapped
<1> HIDE DEF R
<1>8. R.profiles = L.profiles /\ R.hostId = L.hostId
  BY <1>5 DEF Settings
<1>9. Good(R)
  BY <1>5, <1>8, GoodSettings
<1> QED  BY <1>3, <1>4, <1>6, <1>7, <1>8, <1>9 DEF R

\* The same of the table's size, once nobody sits at a dropped seat.
LEMMA PlayersPerGameMadeOn ==
  ASSUME NEW L, Good(L), NEW c \in L.profiles,
         NEW v \in MinPlayersPerGame..MaxPlayersPerGame, MayChangePlayersPerGame(L, c, v)
  PROVE  /\ PlayersPerGameAccepted(L, v, c)
         /\ Good(playersPerGameChanged(L, v))
         /\ playersPerGameChanged(L, v).profiles = L.profiles
         /\ movedByShrinking(L, v) = << >> =>
              applyPlayersPerGameChange(L, v)
                = [outcome |-> "applied", view |-> playersPerGameChanged(L, v)]
<1>1. PlayersPerGameAccepted(L, v, c)
  BY DEF MayChangePlayersPerGame, PlayersPerGameAccepted
<1>2. WellFormed(L) /\ Placed(L)
  BY DEF Good
<1>3. /\ WellFormed(playersPerGameChanged(L, v)) /\ Placed(playersPerGameChanged(L, v))
      /\ playersPerGameChanged(L, v).profiles = L.profiles
      /\ playersPerGameChanged(L, v).hostId = L.hostId
  BY <1>2, PlayersPerGameSettings, PlayersPerGamePlaced
<1>4. Good(playersPerGameChanged(L, v))
  BY <1>3, GoodSettings
<1>5. movedByShrinking(L, v) = << >> =>
        applyPlayersPerGameChange(L, v)
          = [outcome |-> "applied", view |-> playersPerGameChanged(L, v)]
  BY DEF applyPlayersPerGameChange
<1> QED  BY <1>1, <1>3, <1>4, <1>5

\* The same of the lobby's door.
LEMMA LobbyOpenMadeOn ==
  ASSUME NEW L, Good(L), NEW c \in L.profiles, NEW b \in BOOLEAN, MayChangeLobbyOpen(L, c, b)
  PROVE  /\ LobbyOpenAccepted(L, b, c)
         /\ Good(lobbyOpenChanged(L, b))
         /\ lobbyOpenChanged(L, b).profiles = L.profiles
         /\ applyLobbyOpenState(L, b) = [outcome |-> "applied", view |-> lobbyOpenChanged(L, b)]
<1>1. WellFormed(L) /\ Placed(L) /\ L.hostId = HostProfile
  BY DEF Good
<1>2. isHost(c) /\ b # L.open
  BY DEF MayChangeLobbyOpen
<1>3. LobbyOpenAccepted(L, b, c)
  BY <1>1, <1>2 DEF LobbyOpenAccepted, isHost
<1>4. /\ WellFormed(lobbyOpenChanged(L, b)) /\ Placed(lobbyOpenChanged(L, b))
      /\ lobbyOpenChanged(L, b).profiles = L.profiles /\ lobbyOpenChanged(L, b).hostId = L.hostId
  <2>1. WellFormed(lobbyOpenChanged(L, b)) /\ Placed(lobbyOpenChanged(L, b))
    BY <1>1, LobbyOpenWellFormed, LobbyOpenPlaced
  <2>2. lobbyOpenChanged(L, b) = [L EXCEPT !.open = b]
    BY DEF lobbyOpenChanged
  <2> QED  BY <1>1, <2>1, <2>2 DEF WellFormed, LobbyType
<1>5. Good(lobbyOpenChanged(L, b))
  BY <1>4, GoodSettings
<1>6. applyLobbyOpenState(L, b) = [outcome |-> "applied", view |-> lobbyOpenChanged(L, b)]
  BY <1>2 DEF applyLobbyOpenState
<1> QED  BY <1>3, <1>4, <1>5, <1>6

(***************************************************************************)
(* All four: the request is accepted, leaves a good lobby with the same    *)
(* players, and takes a copy of the lobby to a copy of the new one.        *)
(***************************************************************************)
LEMMA RequestMadeOn ==
  ASSUME NEW L, Good(L), NEW c \in L.profiles, NEW m \in Packet, MadeOn(L, m, c)
  PROVE  /\ isRequest(m) /\ Accepted(L, m, c)
         /\ Good(applied(L, m)) /\ applied(L, m).profiles = L.profiles
         /\ notified(L, m) = [outcome |-> "applied", view |-> applied(L, m)]
<1>1. CASE m.type = "SeatPositionsChange" /\ MayChangeSeat(L, c, m.id, m.seat)
  <2>1. m.id \in Player /\ m.seat \in Seat
    BY <1>1, PacketFields
  <2>2. /\ SeatChangeAccepted(L, m.id, m.seat, c)
        /\ Good(changePlayerSeatPosition(L, m.id, m.seat))
        /\ changePlayerSeatPosition(L, m.id, m.seat).profiles = L.profiles
        /\ applySeatPositionsChanged(L, m.id, m.seat)
             = [outcome |-> "applied", view |-> changePlayerSeatPosition(L, m.id, m.seat)]
    BY <1>1, <2>1, SeatChangeMadeOn
  <2> QED  BY <1>1, <2>2 DEF isRequest, RequestTypes, Accepted, applied, notified
<1>2. CASE m.type = "SeatPositionsSwap" /\ MaySwap(L, c, m.first, m.second)
  <2>1. m.first \in Player /\ m.second \in Player
    BY <1>2, PacketFields
  <2>2. /\ SwapAccepted(L, m.first, m.second, c)
        /\ Good(swapPlayersSeatPositions(L, m.first, m.second))
        /\ swapPlayersSeatPositions(L, m.first, m.second).profiles = L.profiles
        /\ applySeatPositionsSwapped(L, m.first, m.second)
             = [outcome |-> "applied", view |-> swapPlayersSeatPositions(L, m.first, m.second)]
    BY <1>2, <2>1, SwapMadeOn
  <2> QED  BY <1>2, <2>2 DEF isRequest, RequestTypes, Accepted, applied, notified
<1>3. CASE /\ m.type = "PlayersPerGameChange" /\ MayChangePlayersPerGame(L, c, m.value)
           /\ movedByShrinking(L, m.value) = << >>
  <2>1. m.value \in MinPlayersPerGame..MaxPlayersPerGame
    BY <1>3, PacketFields
  <2>2. /\ PlayersPerGameAccepted(L, m.value, c)
        /\ Good(playersPerGameChanged(L, m.value))
        /\ playersPerGameChanged(L, m.value).profiles = L.profiles
        /\ applyPlayersPerGameChange(L, m.value)
             = [outcome |-> "applied", view |-> playersPerGameChanged(L, m.value)]
    BY <1>3, <2>1, PlayersPerGameMadeOn
  <2> QED  BY <1>3, <2>2 DEF isRequest, RequestTypes, Accepted, applied, notified
<1>4. CASE m.type = "LobbyOpenStateChange" /\ MayChangeLobbyOpen(L, c, m.isOpen)
  <2>1. m.isOpen \in BOOLEAN
    BY <1>4, PacketFields
  <2>2. /\ LobbyOpenAccepted(L, m.isOpen, c)
        /\ Good(lobbyOpenChanged(L, m.isOpen))
        /\ lobbyOpenChanged(L, m.isOpen).profiles = L.profiles
        /\ applyLobbyOpenState(L, m.isOpen)
             = [outcome |-> "applied", view |-> lobbyOpenChanged(L, m.isOpen)]
    BY <1>4, <2>1, LobbyOpenMadeOn
  <2> QED  BY <1>4, <2>2 DEF isRequest, RequestTypes, Accepted, applied, notified
<1> QED  BY <1>1, <1>2, <1>3, <1>4 DEF MadeOn

-----------------------------------------------------------------------------
(***************************************************************************)
(* Run(L, q, c, V): the requests in q, made by c one after the other, lead *)
(* from the lobby L to the lobby V, each of them made on the lobby that    *)
(* the ones before it have left; other packets change nothing.             *)
(***************************************************************************)
Requested(q) == \E k \in DOMAIN q : isRequest(q[k])

IsRun(st, L, q, c, V) ==
  /\ st[1] = L /\ st[Len(q) + 1] = V
  /\ \A k \in 1..(Len(q) + 1) : Good(st[k]) /\ c \in st[k].profiles
  /\ \A k \in 1..Len(q) : \/ MadeOn(st[k], q[k], c) /\ st[k + 1] = applied(st[k], q[k])
                          \/ ~isRequest(q[k]) /\ st[k + 1] = st[k]
  /\ \A k \in 1..(Len(q) + 1) : (\A j \in k..Len(q) : ~isRequest(q[j])) => st[k] = V

Run(L, q, c, V) == \E st \in [1..(Len(q) + 1) -> SoundLobby] : IsRun(st, L, q, c, V)

\* Good lobbies are well formed, and so elements of a type.
LEMMA GoodIsSound == \A L : Good(L) => L \in SoundLobby
BY SoundLobbies DEF Good

\* Nothing is asked: the lobby stays.
LEMMA RunOfNothing ==
  ASSUME NEW L, Good(L), NEW c \in L.profiles, NEW q \in Seq(Packet), ~Requested(q)
  PROVE  Run(L, q, c, L)
<1> DEFINE st == [k \in 1..(Len(q) + 1) |-> L]
<1>1. Len(q) \in Nat /\ DOMAIN q = 1..Len(q)
  BY LenProperties
<1>2. L \in SoundLobby
  BY GoodIsSound
<1>3. st \in [1..(Len(q) + 1) -> SoundLobby]
  BY <1>2
<1>4. \A k \in 1..Len(q) : ~isRequest(q[k])
  BY <1>1 DEF Requested
<1>5. \A k \in 1..(Len(q) + 1) : st[k] = L
  OBVIOUS
<1>6. \A k \in 1..Len(q) : st[k] = L /\ st[k + 1] = L
  BY <1>1, <1>5
<1> HIDE DEF st
<1>7. IsRun(st, L, q, c, L)
  BY <1>1, <1>4, <1>5, <1>6 DEF IsRun
<1> QED  BY <1>3, <1>7 DEF Run

\* One request.
LEMMA RunOfOne ==
  ASSUME NEW L, Good(L), NEW c \in L.profiles, NEW m \in Packet, MadeOn(L, m, c)
  PROVE  Run(L, << m >>, c, applied(L, m))
<1> DEFINE A  == applied(L, m)
           q  == << m >>
           st == [k \in 1..2 |-> IF k = 1 THEN L ELSE A]
<1>1. isRequest(m) /\ Good(A) /\ c \in A.profiles
  BY RequestMadeOn
<1> HIDE DEF A
<1>2. L \in SoundLobby /\ A \in SoundLobby
  BY <1>1, GoodIsSound
<1>3. st \in [1..2 -> SoundLobby] /\ st[1] = L /\ st[2] = A
  BY <1>2
<1>4. Len(q) = 1 /\ q[1] = m
  OBVIOUS
<1> HIDE DEF st, q
<1>5. \A k \in 1..2 : Good(st[k]) /\ c \in st[k].profiles
  <2> SUFFICES ASSUME NEW k \in 1..2  PROVE Good(st[k]) /\ c \in st[k].profiles
    OBVIOUS
  <2>1. k = 1 \/ k = 2
    OBVIOUS
  <2> QED  BY <1>1, <1>3, <2>1
<1>6. \A k \in 1..1 : MadeOn(st[k], q[k], c) /\ st[k + 1] = applied(st[k], q[k])
  <2> SUFFICES ASSUME NEW k \in 1..1  PROVE MadeOn(st[k], q[k], c) /\ st[k + 1] = applied(st[k], q[k])
    OBVIOUS
  <2>1. k = 1 /\ k + 1 = 2
    OBVIOUS
  <2> QED  BY <1>3, <1>4, <2>1 DEF A
<1>7. \A k \in 1..2 : (\A j \in k..1 : ~isRequest(q[j])) => st[k] = A
  <2> SUFFICES ASSUME NEW k \in 1..2, \A j \in k..1 : ~isRequest(q[j])  PROVE st[k] = A
    OBVIOUS
  <2>1. k # 1
    BY <1>1, <1>4
  <2>2. k = 2
    BY <2>1
  <2> QED  BY <1>3, <2>2
<1>8. Len(q) + 1 = 2
  BY <1>4
<1>9. IsRun(st, L, q, c, A)
  BY <1>3, <1>4, <1>5, <1>6, <1>7, <1>8 DEF IsRun
<1> QED  BY <1>3, <1>8, <1>9 DEF Run, q, A

\* Two runs in a row.
LEMMA RunConcat ==
  ASSUME NEW L, NEW V, NEW W, NEW c, NEW q \in Seq(Packet), NEW r \in Seq(Packet),
         Run(L, q, c, V), Run(V, r, c, W)
  PROVE  Run(L, q \o r, c, W)
<1> DEFINE n  == Len(q)
           nn == Len(r)
           u  == q \o r
<1>1. /\ n \in Nat /\ nn \in Nat /\ Len(u) = n + nn
      /\ \A k \in 1..(n + nn) : u[k] = IF k <= n THEN q[k] ELSE r[k - n]
  BY LenProperties, ConcatProperties
<1>2. PICK a \in [1..(n + 1) -> SoundLobby] : IsRun(a, L, q, c, V)
  BY DEF Run
<1>3. PICK b \in [1..(nn + 1) -> SoundLobby] : IsRun(b, V, r, c, W)
  BY DEF Run
<1> DEFINE st == [k \in 1..(n + nn + 1) |-> IF k <= n THEN a[k] ELSE b[k - n]]
<1> HIDE DEF n, nn, u
<1>4. \A k \in 1..(n + nn + 1) :
        /\ k <= n => k \in 1..n /\ k \in 1..(n + 1)
        /\ k > n => k - n \in 1..(nn + 1)
  BY <1>1
<1>5. st \in [1..(n + nn + 1) -> SoundLobby]
  <2>1. ASSUME NEW k \in 1..(n + nn + 1)
        PROVE  (IF k <= n THEN a[k] ELSE b[k - n]) \in SoundLobby
    <3>1. CASE k <= n
      <4>1. a[k] \in SoundLobby
        BY <1>4, <3>1
      <4> QED  BY <3>1, <4>1
    <3>2. CASE ~(k <= n)
      <4>1. k > n
        BY <1>1, <3>2
      <4>2. b[k - n] \in SoundLobby
        BY <1>4, <4>1
      <4> QED  BY <3>2, <4>2
    <3> QED  BY <3>1, <3>2
  <2> QED  BY <2>1
<1>6. /\ \A k \in 1..n : st[k] = a[k]
      /\ \A k \in 1..(nn + 1) : st[n + k] = b[k]
  <2>1. ASSUME NEW k \in 1..n  PROVE st[k] = a[k]
    <3>1. k \in 1..(n + nn + 1) /\ k <= n
      BY <1>1
    <3> QED  BY <3>1
  <2>2. ASSUME NEW k \in 1..(nn + 1)  PROVE st[n + k] = b[k]
    <3>1. n + k \in 1..(n + nn + 1) /\ ~(n + k <= n) /\ n + k - n = k
      BY <1>1
    <3>2. \A i \in 1..(n + nn + 1) : ~(i <= n) => st[i] = b[i - n]
      OBVIOUS
    <3> HIDE DEF st
    <3>3. PICK i \in 1..(n + nn + 1) : i = n + k
      BY <3>1
    <3>4. ~(i <= n) /\ i - n = k
      BY <1>1, <3>3
    <3>5. st[i] = b[k]
      BY <3>2, <3>4
    <3> QED  BY <3>3, <3>5
  <2> QED  BY <2>1, <2>2
<1> HIDE DEF st
<1>7. /\ a[1] = L /\ a[n + 1] = V
      /\ \A k \in 1..(n + 1) : Good(a[k]) /\ c \in a[k].profiles
      /\ \A k \in 1..n : \/ MadeOn(a[k], q[k], c) /\ a[k + 1] = applied(a[k], q[k])
                         \/ ~isRequest(q[k]) /\ a[k + 1] = a[k]
      /\ \A k \in 1..(n + 1) : (\A j \in k..n : ~isRequest(q[j])) => a[k] = V
  BY <1>2 DEF IsRun, n
<1>8. /\ b[1] = V /\ b[nn + 1] = W
      /\ \A k \in 1..(nn + 1) : Good(b[k]) /\ c \in b[k].profiles
      /\ \A k \in 1..nn : \/ MadeOn(b[k], r[k], c) /\ b[k + 1] = applied(b[k], r[k])
                          \/ ~isRequest(r[k]) /\ b[k + 1] = b[k]
      /\ \A k \in 1..(nn + 1) : (\A j \in k..nn : ~isRequest(r[j])) => b[k] = W
  BY <1>3 DEF IsRun, nn
<1>9. st[n + 1] = V /\ \A k \in 1..(n + 1) : st[k] = a[k]
  BY <1>1, <1>6, <1>7, <1>8
<1>10. st[1] = L /\ st[n + nn + 1] = W
  BY <1>1, <1>6, <1>7, <1>8, <1>9
<1>11. \A k \in 1..(n + nn + 1) : Good(st[k]) /\ c \in st[k].profiles
  <2> SUFFICES ASSUME NEW k \in 1..(n + nn + 1)  PROVE Good(st[k]) /\ c \in st[k].profiles
    OBVIOUS
  <2>1. CASE k <= n
    BY <1>4, <1>6, <1>7, <2>1
  <2>2. CASE k > n
    <3>1. k - n \in 1..(nn + 1) /\ k = n + (k - n)
      BY <1>1, <1>4, <2>2
    <3>2. st[k] = b[k - n]
      BY <1>6, <3>1
    <3> QED  BY <1>8, <3>1, <3>2
  <2> QED  BY <1>1, <2>1, <2>2
<1>12. \A k \in 1..(n + nn) : \/ MadeOn(st[k], u[k], c) /\ st[k + 1] = applied(st[k], u[k])
                              \/ ~isRequest(u[k]) /\ st[k + 1] = st[k]
  <2> SUFFICES ASSUME NEW k \in 1..(n + nn)
               PROVE  \/ MadeOn(st[k], u[k], c) /\ st[k + 1] = applied(st[k], u[k])
                      \/ ~isRequest(u[k]) /\ st[k + 1] = st[k]
    OBVIOUS
  <2>1. CASE k <= n
    <3>1. k \in 1..n /\ k \in 1..(n + 1) /\ k + 1 \in 1..(n + 1)
      BY <1>1, <2>1
    <3>2. u[k] = q[k] /\ st[k] = a[k] /\ st[k + 1] = a[k + 1]
      BY <1>1, <1>9, <2>1, <3>1
    <3> QED  BY <1>7, <3>1, <3>2
  <2>2. CASE k > n
    <3>1. k - n \in 1..nn /\ k - n \in 1..(nn + 1) /\ k - n + 1 \in 1..(nn + 1)
      BY <1>1, <2>2
    <3>2. n + (k - n) = k /\ n + (k - n + 1) = k + 1
      BY <1>1
    <3>3. u[k] = r[k - n] /\ st[k] = b[k - n] /\ st[k + 1] = b[k - n + 1]
      <4>1. st[n + (k - n)] = b[k - n] /\ st[n + (k - n + 1)] = b[k - n + 1]
        BY <1>6, <3>1
      <4>2. u[k] = r[k - n]
        BY <1>1, <2>2
      <4> QED  BY <3>2, <4>1, <4>2
    <3> QED  BY <1>8, <3>1, <3>3
  <2> QED  BY <1>1, <2>1, <2>2
<1>13. \A k \in 1..(n + nn + 1) : (\A j \in k..(n + nn) : ~isRequest(u[j])) => st[k] = W
  <2> SUFFICES ASSUME NEW k \in 1..(n + nn + 1), \A j \in k..(n + nn) : ~isRequest(u[j])
               PROVE  st[k] = W
    OBVIOUS
  <2>1. ASSUME NEW i \in 1..(nn + 1), k <= n + i  PROVE \A j \in i..nn : ~isRequest(r[j])
    <3> SUFFICES ASSUME NEW j \in i..nn  PROVE ~isRequest(r[j])
      OBVIOUS
    <3>1. n + j \in k..(n + nn) /\ n + j \in 1..(n + nn) /\ ~(n + j <= n) /\ n + j - n = j
      BY <1>1, <2>1
    <3>2. u[n + j] = r[j]
      BY <1>1, <3>1
    <3> QED  BY <3>1, <3>2
  <2>2. CASE k <= n
    <3>1. 1 \in 1..(nn + 1) /\ k <= n + 1
      BY <1>1, <2>2
    <3>2. V = W
      BY <1>8, <2>1, <3>1
    <3>3. \A j \in k..n : ~isRequest(q[j])
      <4> SUFFICES ASSUME NEW j \in k..n  PROVE ~isRequest(q[j])
        OBVIOUS
      <4>1. j \in k..(n + nn) /\ j \in 1..(n + nn) /\ j <= n
        BY <1>1, <2>2
      <4>2. u[j] = q[j]
        BY <1>1, <4>1
      <4> QED  BY <4>1, <4>2
    <3>4. k \in 1..(n + 1)
      BY <1>1, <2>2
    <3> QED  BY <1>7, <1>9, <3>2, <3>3, <3>4
  <2>3. CASE k > n
    <3>1. k - n \in 1..(nn + 1) /\ n + (k - n) = k /\ k <= n + (k - n)
      BY <1>1, <2>3
    <3>2. \A j \in (k - n)..nn : ~isRequest(r[j])
      BY <2>1, <3>1
    <3>3. st[k] = b[k - n]
      BY <1>6, <3>1
    <3> QED  BY <1>8, <3>1, <3>2, <3>3
  <2> QED  BY <1>1, <2>2, <2>3
<1>14. IsRun(st, L, u, c, W)
  BY <1>1, <1>10, <1>11, <1>12, <1>13 DEF IsRun
<1> QED  BY <1>1, <1>5, <1>14 DEF Run, u

(***************************************************************************)
(* The first packet is handled: a request is accepted, and the run goes on *)
(* from the lobby it leaves.  When no request is left, the run has ended.  *)
(***************************************************************************)
LEMMA RunTail ==
  ASSUME NEW L, NEW V, NEW c, NEW q \in Seq(Packet), Run(L, q, c, V), q # << >>
  PROVE  /\ Good(L) /\ c \in L.profiles
         /\ \/ MadeOn(L, Head(q), c) /\ Run(applied(L, Head(q)), Tail(q), c, V)
            \/ ~isRequest(Head(q)) /\ Run(L, Tail(q), c, V)
<1> DEFINE n == Len(q)
           t == Tail(q)
<1>1. PICK a \in [1..(n + 1) -> SoundLobby] : IsRun(a, L, q, c, V)
  BY DEF Run
<1>2. /\ n \in Nat \ {0} /\ t \in Seq(Packet) /\ Len(t) = n - 1
      /\ \A k \in 1..(n - 1) : t[k] = q[k + 1]
      /\ Head(q) = q[1]
  BY LenProperties, HeadTailProperties, EmptySeq
<1>3. /\ a[1] = L /\ a[n + 1] = V
      /\ \A k \in 1..(n + 1) : Good(a[k]) /\ c \in a[k].profiles
      /\ \A k \in 1..n : \/ MadeOn(a[k], q[k], c) /\ a[k + 1] = applied(a[k], q[k])
                         \/ ~isRequest(q[k]) /\ a[k + 1] = a[k]
      /\ \A k \in 1..(n + 1) : (\A j \in k..n : ~isRequest(q[j])) => a[k] = V
  BY <1>1 DEF IsRun
<1> DEFINE b == [k \in 1..n |-> a[k + 1]]
<1> HIDE DEF n, t
<1>4. b \in [1..n -> SoundLobby]
  BY <1>2
<1>5. \A k \in 1..n : b[k] = a[k + 1] /\ k + 1 \in 1..(n + 1)
  BY <1>2
<1> HIDE DEF b
<1>6. IsRun(b, a[2], t, c, V)
  <2>1. b[1] = a[2] /\ b[n] = V /\ n - 1 + 1 = n
    BY <1>2, <1>3, <1>5
  <2>2. \A k \in 1..n : Good(b[k]) /\ c \in b[k].profiles
    BY <1>3, <1>5
  <2>3. \A k \in 1..(n - 1) : \/ MadeOn(b[k], t[k], c) /\ b[k + 1] = applied(b[k], t[k])
                              \/ ~isRequest(t[k]) /\ b[k + 1] = b[k]
    <3> SUFFICES ASSUME NEW k \in 1..(n - 1)
                 PROVE  \/ MadeOn(b[k], t[k], c) /\ b[k + 1] = applied(b[k], t[k])
                        \/ ~isRequest(t[k]) /\ b[k + 1] = b[k]
      OBVIOUS
    <3>1. k + 1 \in 1..n /\ k \in 1..n
      BY <1>2
    <3>2. t[k] = q[k + 1] /\ b[k] = a[k + 1] /\ b[k + 1] = a[k + 1 + 1]
      BY <1>2, <1>5, <3>1
    <3> QED  BY <1>3, <3>1, <3>2
  <2>4. \A k \in 1..n : (\A j \in k..(n - 1) : ~isRequest(t[j])) => b[k] = V
    <3> SUFFICES ASSUME NEW k \in 1..n, \A j \in k..(n - 1) : ~isRequest(t[j])  PROVE b[k] = V
      OBVIOUS
    <3>1. \A j \in (k + 1)..n : ~isRequest(q[j])
      <4> SUFFICES ASSUME NEW j \in (k + 1)..n  PROVE ~isRequest(q[j])
        OBVIOUS
      <4>1. j - 1 \in k..(n - 1) /\ j - 1 \in 1..(n - 1) /\ j - 1 + 1 = j
        BY <1>2
      <4> QED  BY <1>2, <4>1
    <3> QED  BY <1>3, <1>5, <3>1
  <2> QED  BY <1>2, <2>1, <2>2, <2>3, <2>4 DEF IsRun
<1>7. Run(a[2], t, c, V)
  <2>1. Len(t) + 1 = n
    BY <1>2
  <2> QED  BY <1>4, <1>6, <2>1 DEF Run
<1>8. 1 \in 1..n /\ 1 \in 1..(n + 1) /\ 1 + 1 = 2
  BY <1>2
<1>9. \/ MadeOn(L, q[1], c) /\ a[2] = applied(L, q[1])
      \/ ~isRequest(q[1]) /\ a[2] = L
  BY <1>3, <1>8
<1> QED  BY <1>2, <1>3, <1>7, <1>8, <1>9 DEF t

\* Nothing is left to ask.
LEMMA RunEnds ==
  ASSUME NEW L, NEW V, NEW c, NEW q \in Seq(Packet), Run(L, q, c, V), ~Requested(q)
  PROVE  L = V
<1>1. PICK a \in [1..(Len(q) + 1) -> SoundLobby] : IsRun(a, L, q, c, V)
  BY DEF Run
<1>2. Len(q) \in Nat /\ DOMAIN q = 1..Len(q)
  BY LenProperties
<1>3. 1 \in 1..(Len(q) + 1) /\ \A j \in 1..Len(q) : ~isRequest(q[j])
  BY <1>2 DEF Requested
<1> QED  BY <1>1, <1>3 DEF IsRun

\* A run leads from a good lobby to a good lobby, both with the one who asks in it.
LEMMA RunIsGood ==
  ASSUME NEW L, NEW V, NEW c, NEW q \in Seq(Packet), Run(L, q, c, V)
  PROVE  Good(L) /\ Good(V) /\ c \in L.profiles /\ c \in V.profiles
<1>1. PICK a \in [1..(Len(q) + 1) -> SoundLobby] : IsRun(a, L, q, c, V)
  BY DEF Run
<1>2. Len(q) \in Nat
  BY LenProperties
<1>3. 1 \in 1..(Len(q) + 1) /\ Len(q) + 1 \in 1..(Len(q) + 1)
  BY <1>2
<1> QED  BY <1>1, <1>3 DEF IsRun

-----------------------------------------------------------------------------
(***************************************************************************)
(* Trace(S, q, L): whatever copy in S a client has (none, if S is empty,   *)
(* as long as it is not in sync), handling the packets in q leaves it with *)
(* the lobby L, or out of sync, and no assert fails on the way.            *)
(***************************************************************************)
Follows(S, m, T) ==
  /\ m.type \in NotifyTypes =>
       \A V \in S : \/ notified(V, m).outcome = "refused"
                    \/ notified(V, m).outcome = "applied" /\ notified(V, m).view \in T
  /\ m.type = "SnapshotEnd" => snapshotOutcome(m.lobby) = "applied" /\ snapshotView(m.lobby) \in T
  /\ m.type = "Welcome" => S = {}

IsTrace(e, S, q, L) ==
  /\ S \subseteq e[1] /\ e[Len(q) + 1] \subseteq {L}
  /\ \A k \in 1..Len(q) : Follows(e[k], q[k], e[k + 1])

Trace(S, q, L) == \E e \in [1..(Len(q) + 1) -> SUBSET SoundLobby] : IsTrace(e, S, q, L)

\* What follows a set of copies follows a part of it.
LEMMA FollowsFewer ==
  ASSUME NEW m, NEW S, NEW T, NEW U, Follows(S, m, T), U \subseteq S
  PROVE  Follows(U, m, T)
BY DEF Follows

\* What a notification does to a copy is all there is to say about it.
LEMMA FollowsNotified ==
  ASSUME NEW m, m.type \in NotifyTypes, NEW L, NEW M,
         \/ notified(L, m).outcome = "refused"
         \/ notified(L, m).outcome = "applied" /\ notified(L, m).view = M
  PROVE  Follows({L}, m, {M})
<1> DEFINE S == {L}
           T == {M}
<1>1. m.type # "SnapshotEnd" /\ m.type # "Welcome"
  BY DEF NotifyTypes, RequestTypes
<1>2. M \in T /\ \A V \in S : V = L
  OBVIOUS
<1> HIDE DEF S, T
<1>3. ASSUME NEW V \in S
      PROVE  \/ notified(V, m).outcome = "refused"
             \/ notified(V, m).outcome = "applied" /\ notified(V, m).view \in T
  <2>1. V = L
    BY <1>2
  <2> QED  BY <1>2, <2>1
<1>4. Follows(S, m, T)
  BY <1>1, <1>3 DEF Follows
<1> QED  BY <1>4 DEF S, T

\* Nothing is on its way: the copy, if there is one, is the lobby.
LEMMA TraceOfNothing ==
  ASSUME NEW S, NEW L \in SoundLobby
  PROVE  Trace(S, << >>, L) <=> S \subseteq {L}
<1>1. Len(<< >>) = 0
  OBVIOUS
<1>2. ASSUME S \subseteq {L}  PROVE Trace(S, << >>, L)
  <2> DEFINE e == [k \in 1..1 |-> {L}]
  <2>1. e \in [1..1 -> SUBSET SoundLobby] /\ e[1] = {L}
    OBVIOUS
  <2> HIDE DEF e
  <2>2. 0 + 1 = 1 /\ \A k \in 1..0 : FALSE
    OBVIOUS
  <2>3. IsTrace(e, S, << >>, L)
    BY <1>1, <1>2, <2>1, <2>2 DEF IsTrace
  <2> QED  BY <1>1, <2>1, <2>2, <2>3 DEF Trace
<1>3. ASSUME Trace(S, << >>, L)  PROVE S \subseteq {L}
  BY <1>1, <1>3 DEF Trace, IsTrace
<1> QED  BY <1>2, <1>3

\* The first packet is handled.
LEMMA TraceTail ==
  ASSUME NEW S, NEW L, NEW q \in Seq(Packet), q # << >>, Trace(S, q, L)
  PROVE  \E T \in SUBSET SoundLobby :
           Follows(S, Head(q), T) /\ \A U \in SUBSET T : Trace(U, Tail(q), L)
<1> DEFINE n == Len(q)
           t == Tail(q)
<1>1. PICK e \in [1..(n + 1) -> SUBSET SoundLobby] : IsTrace(e, S, q, L)
  BY DEF Trace
<1>2. /\ n \in Nat \ {0} /\ t \in Seq(Packet) /\ Len(t) = n - 1
      /\ \A k \in 1..(n - 1) : t[k] = q[k + 1]
      /\ Head(q) = q[1]
  BY LenProperties, HeadTailProperties, EmptySeq
<1>3. /\ S \subseteq e[1] /\ e[n + 1] \subseteq {L}
      /\ \A k \in 1..n : Follows(e[k], q[k], e[k + 1])
  BY <1>1 DEF IsTrace
<1> DEFINE b == [k \in 1..n |-> e[k + 1]]
<1> HIDE DEF n, t
<1>4. b \in [1..n -> SUBSET SoundLobby]
  BY <1>2
<1>5. \A k \in 1..n : b[k] = e[k + 1] /\ k + 1 \in 1..(n + 1)
  BY <1>2
<1> HIDE DEF b
<1>6. b[1] = e[2] /\ b[n] = e[n + 1] /\ n - 1 + 1 = n /\ 1 \in 1..n /\ 2 \in 1..(n + 1) /\ 1 + 1 = 2
  BY <1>2, <1>5
<1>7. \A k \in 1..(n - 1) : Follows(b[k], t[k], b[k + 1])
  <2> SUFFICES ASSUME NEW k \in 1..(n - 1)  PROVE Follows(b[k], t[k], b[k + 1])
    OBVIOUS
  <2>1. k + 1 \in 1..n /\ k \in 1..n
    BY <1>2
  <2>2. t[k] = q[k + 1] /\ b[k] = e[k + 1] /\ b[k + 1] = e[k + 1 + 1]
    BY <1>2, <1>5, <2>1
  <2> QED  BY <1>3, <2>1, <2>2
<1>8. e[2] \in SUBSET SoundLobby
  BY <1>6
<1>9. \A U \in SUBSET e[2] : Trace(U, t, L)
  <2> SUFFICES ASSUME NEW U \in SUBSET e[2]  PROVE Trace(U, t, L)
    OBVIOUS
  <2>1. IsTrace(b, U, t, L)
    BY <1>2, <1>3, <1>6, <1>7 DEF IsTrace
  <2>2. Len(t) + 1 = n
    BY <1>2
  <2> QED  BY <1>4, <2>1, <2>2 DEF Trace
<1>10. Follows(S, q[1], e[2])
  <2>1. Follows(e[1], q[1], e[2])
    BY <1>3, <1>6
  <2> QED  BY <1>3, <2>1, FollowsFewer
<1> QED  BY <1>2, <1>8, <1>9, <1>10 DEF t

\* One more packet is sent, which takes a copy of the lobby to a copy of the next.
LEMMA TraceAppend ==
  ASSUME NEW S, NEW L, NEW M \in SoundLobby, NEW q \in Seq(Packet), NEW m \in Packet,
         Trace(S, q, L), Follows({L}, m, {M})
  PROVE  Trace(S, Append(q, m), M)
<1> DEFINE n == Len(q)
           u == Append(q, m)
<1>1. PICK e \in [1..(n + 1) -> SUBSET SoundLobby] : IsTrace(e, S, q, L)
  BY DEF Trace
<1>2. /\ n \in Nat /\ Len(u) = n + 1 /\ u[n + 1] = m
      /\ \A k \in 1..n : u[k] = q[k]
  BY LenProperties, AppendProperties
<1>3. /\ S \subseteq e[1] /\ e[n + 1] \subseteq {L}
      /\ \A k \in 1..n : Follows(e[k], q[k], e[k + 1])
  BY <1>1 DEF IsTrace
<1> DEFINE b == [k \in 1..(n + 2) |-> IF k = n + 2 THEN {M} ELSE e[k]]
<1> HIDE DEF n, u
<1>4. b \in [1..(n + 2) -> SUBSET SoundLobby]
  <2>1. ASSUME NEW k \in 1..(n + 2)
        PROVE  (IF k = n + 2 THEN {M} ELSE e[k]) \in SUBSET SoundLobby
    <3>1. CASE k = n + 2
      BY <3>1
    <3>2. CASE k # n + 2
      <4>1. k \in 1..(n + 1)
        BY <1>2, <3>2
      <4>2. e[k] \in SUBSET SoundLobby
        BY <4>1
      <4> QED  BY <3>2, <4>2
    <3> QED  BY <3>1, <3>2
  <2> QED  BY <2>1
<1>5. b[n + 2] = {M} /\ \A k \in 1..(n + 1) : b[k] = e[k]
  <2>1. n + 2 \in 1..(n + 2) /\ \A k \in 1..(n + 1) : k \in 1..(n + 2) /\ k # n + 2
    BY <1>2
  <2> QED  BY <2>1
<1> HIDE DEF b
<1>6. n + 1 + 1 = n + 2 /\ 1 \in 1..(n + 1) /\ n + 1 \in 1..(n + 1)
  BY <1>2
<1>7. Follows(b[n + 1], u[n + 1], b[n + 2])
  <2>1. Follows(e[n + 1], m, {M})
    BY <1>3, FollowsFewer
  <2> QED  BY <1>2, <1>5, <1>6, <2>1
<1>8. \A k \in 1..(n + 1) : Follows(b[k], u[k], b[k + 1])
  <2> SUFFICES ASSUME NEW k \in 1..(n + 1)  PROVE Follows(b[k], u[k], b[k + 1])
    OBVIOUS
  <2>1. CASE k = n + 1
    BY <1>6, <1>7, <2>1
  <2>2. CASE k # n + 1
    <3>1. k \in 1..n /\ k + 1 \in 1..(n + 1)
      BY <1>2, <2>2
    <3> QED  BY <1>2, <1>3, <1>5, <3>1
  <2> QED  BY <2>1, <2>2
<1>9. IsTrace(b, S, u, M)
  BY <1>2, <1>3, <1>5, <1>6, <1>8 DEF IsTrace
<1> QED  BY <1>2, <1>4, <1>6, <1>9 DEF Trace, u

-----------------------------------------------------------------------------
(* A client that connects *)

\* The view that a snapshot builds is the lobby the snapshot was taken of.
LEMMA SnapshotOfGood ==
  ASSUME NEW L, Good(L), L.profiles # {}
  PROVE  snapshotOutcome(L) = "applied" /\ snapshotView(L) = L
<1>1. /\ WellFormed(L) /\ Placed(L) /\ HostProfile \in L.profiles /\ L.hostId = HostProfile
      /\ L \in LobbyType /\ L.seats.playerAt \in [Seat -> Player \cup {Nobody}]
  BY DEF Good, WellFormed, LobbyType, SeatPositionsType
<1>2. \A s \in Seat : L.seats.playerAt[s] # Nobody => s \in 0..(L.ppg - 1)
  <2> SUFFICES ASSUME NEW s \in Seat, L.seats.playerAt[s] # Nobody  PROVE s \in 0..(L.ppg - 1)
    OBVIOUS
  <2> DEFINE x == L.seats.playerAt[s]
  <2>1. x \in Player
    BY <1>1
  <2>2. L.seats.seatOf[x] = s
    BY <1>1, <2>1 DEF WellFormed, MapsInverse
  <2>3. L.seats.seatOf[x] \in 0..(L.ppg - 1) \cup {Nowhere}
    BY <1>1, <2>1 DEF Placed, TablePlaces
  <2> QED  BY <2>2, <2>3, Reserved
<1>3. snapshotOutcome(L) = "applied"
  BY <1>2 DEF snapshotOutcome, isValidSeatPosition
<1>4. L.seats.playerAt[QueueSeat] = Nobody
  BY <1>2, Reserved DEF QueueSeat
<1>5. [L EXCEPT !.hostId = HostProfile] = L
  BY <1>1 DEF LobbyType
<1>6. snapshotView(L) = [L EXCEPT !.hostId = HostProfile]
  BY <1>1, <1>4 DEF snapshotView
<1> QED  BY <1>3, <1>5, <1>6

\* What a new client is sent makes its copy the lobby.
LEMMA TraceOfWelcome ==
  ASSUME NEW L, Good(L), L.profiles # {}
  PROVE  Trace({}, << Welcome >> \o Snapshot(L), L)
<1> DEFINE q == << Welcome >> \o Snapshot(L)
           m == SnapshotEnd(L)
           e == [k \in 1..4 |-> IF k = 4 THEN {L} ELSE {}]
<1>1. L \in SoundLobby /\ L \in LobbyType
  BY GoodIsSound DEF SoundLobby
<1>2. snapshotOutcome(L) = "applied" /\ snapshotView(L) = L
  BY SnapshotOfGood
<1>3. /\ Len(q) = 3 /\ q[1] = Welcome /\ q[2] = SnapshotBegin /\ q[3] = m
  BY DEF Snapshot
<1>4. /\ Welcome.type = "Welcome" /\ SnapshotBegin.type = "SnapshotBegin"
      /\ m.type = "SnapshotEnd" /\ m.lobby = L
  BY DEF Welcome, SnapshotBegin, SnapshotEnd
<1> HIDE DEF q, m
<1>5. e \in [1..4 -> SUBSET SoundLobby] /\ e[1] = {} /\ e[2] = {} /\ e[3] = {} /\ e[4] = {L}
  BY <1>1
<1> HIDE DEF e
<1>6. Follows({}, Welcome, {}) /\ Follows({}, SnapshotBegin, {})
  BY <1>4 DEF Follows
<1>7. Follows({}, m, {L})
  BY <1>2, <1>4 DEF Follows
<1>8. \A k \in 1..3 : Follows(e[k], q[k], e[k + 1])
  <2> SUFFICES ASSUME NEW k \in 1..3  PROVE Follows(e[k], q[k], e[k + 1])
    OBVIOUS
  <2>1. CASE k = 1
    BY <1>3, <1>5, <1>6, <2>1
  <2>2. CASE k = 2
    BY <1>3, <1>5, <1>6, <2>2
  <2>3. CASE k = 3
    BY <1>3, <1>5, <1>7, <2>3
  <2> QED  BY <2>1, <2>2, <2>3
<1>9. IsTrace(e, {}, q, L)
  BY <1>3, <1>5, <1>8 DEF IsTrace
<1>10. Len(q) + 1 = 4
  BY <1>3
<1> QED  BY <1>5, <1>9, <1>10 DEF Trace, q

\* A player joins: the lobby stays good, and has room for it.
LEMMA ConnectedGood ==
  ASSUME NEW L, Good(L), NEW c \in Player, c \notin L.profiles, canJoin(L),
         isHost(c) \/ L.profiles # {}
  PROVE  /\ Good(playerConnected(L, c))
         /\ playerConnected(L, c).profiles = L.profiles \cup {c}
<1> DEFINE R == playerConnected(L, c)
<1>1. WellFormed(L) /\ Placed(L) /\ Bounded(L)
  BY DEF Good
<1>2. /\ WellFormed(R) /\ Placed(R) /\ R.profiles = L.profiles \cup {c}
      /\ R.hostId = IF isHost(c) THEN c ELSE L.hostId
  BY <1>1, PlayerConnectedWellFormed, PlayerConnectedPlaced, PlayerConnectedProfiles,
     PlayerConnectedPosition
<1>3. Cardinality(L.profiles) < MaxPlayersInLobby
  BY DEF canJoin
<1>4. /\ IsFiniteSet(L.profiles \cup {c})
      /\ Cardinality(L.profiles \cup {c}) = Cardinality(L.profiles) + 1
      /\ Cardinality(L.profiles) \in Nat
  BY <1>1, FS_AddElement, FS_CardinalityType DEF Bounded
<1> HIDE DEF R
<1>5. Bounded(R)
  BY <1>2, <1>3, <1>4, MaxPlayersInLobbyAssumption DEF Bounded
<1>6. HostProfile \in R.profiles /\ R.hostId = HostProfile
  BY <1>2 DEF Good, isHost, HostProfile
<1> QED  BY <1>2, <1>5, <1>6 DEF Good, R

\* A copy that is told of the new player adds it, or refuses to if anybody waits.
LEMMA ConnectedFollows ==
  ASSUME NEW L, WellFormed(L), NEW c \in Player, c \notin L.profiles, ~isHost(c)
  PROVE  Follows({L}, ConnectedPacket(c, getSeatPositionById(playerConnected(L, c), c)),
                 {playerConnected(L, c)})
<1> DEFINE R == playerConnected(L, c)
           s == getSeatPositionById(R, c)
           m == ConnectedPacket(c, s)
<1>1. R = addPlayer(L, c, QueueSeat)
  BY DEF playerConnected
<1>2. s = QueueSeat
  <2> DEFINE J == joined(L, c)
  <2>1. /\ R = place(J, c, QueueSeat)
        /\ WellFormed(J) /\ J.profiles = L.profiles \cup {c} /\ J.seats = L.seats
    BY <1>1, AddPlayerWellFormed, Reserved
  <2>2. R.seats = L.seats /\ R.queue = Append(J.queue, c)
    BY <2>1, PlaceCorrect, Reserved
  <2>3. Ids(Append(J.queue, c)) = Ids(J.queue) \cup {c}
    BY <2>1, Fields, AppendCorrect
  <2>4. R.seats.seatOf[c] = Nowhere
    BY <2>2 DEF WellFormed
  <2> HIDE DEF R, J
  <2> QED  BY <2>2, <2>3, <2>4 DEF getSeatPositionById
<1>3. m.type = "PlayerConnected" /\ m.id = c /\ m.seat = s
  BY DEF ConnectedPacket
<1> HIDE DEF m, R, s
<1>4. notified(L, m) = applyPlayerConnected(L, c, QueueSeat)
  BY <1>2, <1>3 DEF notified
<1>5. \/ applyPlayerConnected(L, c, QueueSeat).outcome = "refused"
      \/ /\ applyPlayerConnected(L, c, QueueSeat).outcome = "applied"
         /\ applyPlayerConnected(L, c, QueueSeat).view = R
  BY <1>1 DEF applyPlayerConnected
<1>6. Follows({L}, m, {R})
  <2>1. m.type \in NotifyTypes
    BY <1>3 DEF NotifyTypes
  <2>2. \/ notified(L, m).outcome = "refused"
        \/ notified(L, m).outcome = "applied" /\ notified(L, m).view = R
    BY <1>4, <1>5
  <2> QED  BY <2>1, <2>2, FollowsNotified
<1> QED  BY <1>6 DEF m, R, s

-----------------------------------------------------------------------------
(* Whether a channel holds a request *)

\* None in an empty channel.
LEMMA NothingRequested == ~Requested(<< >>)
BY DEF Requested

\* The first packet or a later one.
LEMMA RequestedTail ==
  ASSUME NEW q \in Seq(Packet), q # << >>
  PROVE  Requested(q) <=> isRequest(Head(q)) \/ Requested(Tail(q))
<1> DEFINE n == Len(q)
           t == Tail(q)
<1>1. /\ n \in Nat \ {0} /\ DOMAIN q = 1..n /\ DOMAIN t = 1..(n - 1)
      /\ \A k \in 1..(n - 1) : t[k] = q[k + 1]
      /\ Head(q) = q[1]
  BY LenProperties, HeadTailProperties, EmptySeq
<1> HIDE DEF n, t
<1>2. ASSUME NEW k \in 1..n, isRequest(q[k]), k # 1
      PROVE  \E j \in 1..(n - 1) : isRequest(t[j])
  <2>1. k - 1 \in 1..(n - 1) /\ k - 1 + 1 = k
    BY <1>1, <1>2
  <2>2. t[k - 1] = q[k]
    BY <1>1, <2>1
  <2> QED  BY <1>2, <2>1, <2>2
<1>3. ASSUME NEW j \in 1..(n - 1), isRequest(t[j])
      PROVE  \E k \in 1..n : isRequest(q[k])
  <2>1. j + 1 \in 1..n /\ t[j] = q[j + 1]
    BY <1>1
  <2> QED  BY <1>3, <2>1
<1>4. 1 \in 1..n
  BY <1>1
<1> QED  BY <1>1, <1>2, <1>3, <1>4 DEF Requested, t

\* A packet that is no request is sent.
LEMMA RequestedAppend ==
  ASSUME NEW q \in Seq(Packet), NEW m \in Packet, ~isRequest(m), ~Requested(q)
  PROVE  ~Requested(Append(q, m))
<1> DEFINE n == Len(q)
           r == Append(q, m)
<1>1. /\ n \in Nat /\ DOMAIN q = 1..n /\ DOMAIN r = 1..(n + 1)
      /\ r[n + 1] = m /\ \A k \in 1..n : r[k] = q[k]
  BY LenProperties, AppendProperties
<1> HIDE DEF n, r
<1>2. \A k \in 1..(n + 1) : k \in 1..n \/ k = n + 1
  BY <1>1
<1> QED  BY <1>1, <1>2 DEF Requested, r

\* Requests are sent.
LEMMA RequestedConcat ==
  ASSUME NEW q \in Seq(Packet), NEW r \in Seq(Packet), Requested(r)
  PROVE  Requested(q \o r)
<1> DEFINE n == Len(q)
           nn == Len(r)
           u == q \o r
<1>1. /\ n \in Nat /\ nn \in Nat /\ DOMAIN r = 1..nn /\ DOMAIN u = 1..(n + nn)
      /\ \A k \in 1..(n + nn) : u[k] = IF k <= n THEN q[k] ELSE r[k - n]
  BY LenProperties, ConcatProperties
<1> HIDE DEF n, nn, u
<1>2. PICK j \in 1..nn : isRequest(r[j])
  BY <1>1 DEF Requested
<1>3. PICK k \in 1..(n + nn) : k = n + j
  BY <1>1
<1>4. ~(k <= n) /\ k - n = j
  BY <1>1, <1>3
<1>5. u[k] = r[j]
  BY <1>1, <1>4
<1> QED  BY <1>1, <1>2, <1>5 DEF Requested, u

-----------------------------------------------------------------------------
(* What users ask for is a run *)

\* A player is moved to a free seat or to the queue.
LEMMA RunOfSeatChange ==
  ASSUME NEW V, Good(V), NEW c \in V.profiles, NEW p \in Player, NEW s \in Seat,
         MayChangeSeat(V, c, p, s)
  PROVE  Run(V, << SeatChangePacket(p, s) >>, c, changePlayerSeatPosition(V, p, s))
<1> DEFINE m == SeatChangePacket(p, s)
<1>1. m \in Packet /\ m.type = "SeatPositionsChange"
  BY PacketsAre
<1>2. m.id = p /\ m.seat = s
  BY DEF SeatChangePacket
<1> HIDE DEF m
<1>3. MadeOn(V, m, c)
  BY <1>1, <1>2 DEF MadeOn
<1>4. applied(V, m) = changePlayerSeatPosition(V, p, s)
  BY <1>1, <1>2 DEF applied
<1>5. Run(V, << m >>, c, applied(V, m))
  BY <1>1, <1>3, RunOfOne
<1> QED  BY <1>4, <1>5 DEF m

\* Two players are swapped.
LEMMA RunOfSwap ==
  ASSUME NEW V, Good(V), NEW c \in V.profiles, NEW p \in Player, NEW q \in Player,
         MaySwap(V, c, p, q)
  PROVE  Run(V, << SwapPacket(p, q) >>, c, swapPlayersInView(V, p, q))
<1> DEFINE m == SwapPacket(p, q)
<1>1. m \in Packet /\ m.type = "SeatPositionsSwap"
  BY PacketsAre
<1>2. m.first = p /\ m.second = q
  BY DEF SwapPacket
<1> HIDE DEF m
<1>3. MadeOn(V, m, c)
  BY <1>1, <1>2 DEF MadeOn
<1>4. applied(V, m) = swapPlayersSeatPositions(V, p, q)
  BY <1>1, <1>2 DEF applied
<1>5. swapPlayersInView(V, p, q) = swapPlayersSeatPositions(V, p, q)
  BY SwapMadeOn
<1>6. Run(V, << m >>, c, applied(V, m))
  BY <1>1, <1>3, RunOfOne
<1> QED  BY <1>4, <1>5, <1>6 DEF m

\* The lobby is opened or closed.
LEMMA RunOfLobbyOpen ==
  ASSUME NEW V, Good(V), NEW c \in V.profiles, NEW b \in BOOLEAN, MayChangeLobbyOpen(V, c, b)
  PROVE  Run(V, << OpenPacket(b) >>, c, lobbyOpenChanged(V, b))
<1> DEFINE m == OpenPacket(b)
<1>1. m \in Packet /\ m.type = "LobbyOpenStateChange"
  BY PacketsAre
<1>2. m.isOpen = b
  BY DEF OpenPacket
<1> HIDE DEF m
<1>3. MadeOn(V, m, c)
  BY <1>1, <1>2 DEF MadeOn
<1>4. applied(V, m) = lobbyOpenChanged(V, b)
  BY <1>1, <1>2 DEF applied
<1>5. Run(V, << m >>, c, applied(V, m))
  BY <1>1, <1>3, RunOfOne
<1> QED  BY <1>4, <1>5 DEF m

\* The table shrinks or grows, and nobody sits at a seat that it drops.
LEMMA RunOfPlayersPerGame ==
  ASSUME NEW V, Good(V), NEW c \in V.profiles,
         NEW v \in MinPlayersPerGame..MaxPlayersPerGame,
         MayChangePlayersPerGame(V, c, v), movedByShrinking(V, v) = << >>
  PROVE  Run(V, << PpgPacket(v) >>, c, playersPerGameChanged(V, v))
<1> DEFINE m == PpgPacket(v)
<1>1. m \in Packet /\ m.type = "PlayersPerGameChange"
  BY PacketsAre
<1>2. m.value = v
  BY DEF PpgPacket
<1> HIDE DEF m
<1>3. MadeOn(V, m, c)
  BY <1>1, <1>2 DEF MadeOn
<1>4. applied(V, m) = playersPerGameChanged(V, v)
  BY <1>1, <1>2 DEF applied
<1>5. Run(V, << m >>, c, applied(V, m))
  BY <1>1, <1>3, RunOfOne
<1> QED  BY <1>4, <1>5 DEF m

\* What sends the player of the seat s, if there is one, to the queue.
sentAway(V, s) ==
  IF V.seats.playerAt[s] = Nobody THEN << >>
  ELSE << SeatChangePacket(V.seats.playerAt[s], QueueSeat) >>

(***************************************************************************)
(* The host sends the player of a dropped seat, if there is one, to the    *)
(* queue: a seat change like any other.  Nobody else moves.                *)
(***************************************************************************)
LEMMA RunOfClearing ==
  ASSUME NEW V, Good(V), NEW c \in V.profiles, isHost(c), NEW s \in Seat, s # QueueSeat
  PROVE  /\ sentAway(V, s) \in Seq(Packet)
         /\ Run(V, sentAway(V, s), c, clearSeat(V, s))
         /\ Settings(clearSeat(V, s)) = Settings(V)
         /\ \A t \in Seat \ {QueueSeat} : clearSeat(V, s).seats.playerAt[t]
                              = IF t = s THEN Nobody ELSE V.seats.playerAt[t]
<1> DEFINE R == clearSeat(V, s)
           p == V.seats.playerAt[s]
<1>1. /\ WellFormed(V) /\ Placed(V)
      /\ V.seats.playerAt \in [Seat -> Player \cup {Nobody}] /\ p \in Player \cup {Nobody}
  BY Fields DEF Good, SeatPositionsType
<1>2. /\ WellFormed(R) /\ Settings(R) = Settings(V)
      /\ \A x \in Player : R.seats.seatOf[x]
                             = IF V.seats.seatOf[x] = s THEN Nowhere ELSE V.seats.seatOf[x]
  BY <1>1, ClearSeatWellFormed, ClearSeatPlaced
<1>3. \A t \in Seat \ {QueueSeat} : R.seats.playerAt[t]
                              = IF t = s THEN Nobody ELSE V.seats.playerAt[t]
  <2> HIDE DEF R
  <2>1. R.seats.playerAt \in [Seat -> Player \cup {Nobody}]
    BY <1>2, Fields DEF SeatPositionsType
  <2> SUFFICES ASSUME NEW t \in Seat \ {QueueSeat}
               PROVE  R.seats.playerAt[t] = IF t = s THEN Nobody ELSE V.seats.playerAt[t]
    OBVIOUS
  <2>2. \A x \in Player : R.seats.playerAt[t] = x <=> V.seats.playerAt[t] = x /\ t # s
    <3>1. \A x \in Player : R.seats.seatOf[x] = t <=> R.seats.playerAt[t] = x
      BY <1>2 DEF WellFormed, MapsInverse
    <3>2. \A x \in Player : V.seats.seatOf[x] = t <=> V.seats.playerAt[t] = x
      BY <1>1 DEF WellFormed, MapsInverse
    <3> QED  BY <1>2, <3>1, <3>2, Reserved
  <2>3. R.seats.playerAt[t] \in Player \cup {Nobody} /\ V.seats.playerAt[t] \in Player \cup {Nobody}
    BY <1>1, <2>1
  <2> QED  BY <2>2, <2>3, Reserved
<1>4. CASE p = Nobody
  <2>1. sentAway(V, s) = << >> /\ R = V
    BY <1>4 DEF sentAway, clearSeat
  <2>2. Run(V, << >>, c, V)
    BY NothingRequested, RunOfNothing, EmptySeq
  <2> QED  BY <1>2, <1>3, <2>1, <2>2, EmptySeq
<1>5. CASE p # Nobody
  <2>1. p \in Player /\ V.seats.seatOf[p] = s
    BY <1>1, <1>5 DEF WellFormed, MapsInverse
  <2>2. sentAway(V, s) = << SeatChangePacket(p, QueueSeat) >>
    BY <1>5 DEF sentAway
  <2>3. R = changePlayerSeatPosition(V, p, QueueSeat)
    BY <1>5 DEF clearSeat
  <2>4. p \in V.profiles /\ c \in V.profiles
    BY <1>1, <2>1, Reserved DEF WellFormed
  <2>5. getPlayerSeatIndex(V, p) = s
    BY <2>1, <2>4, Reserved DEF getPlayerSeatIndex, getSeatPositionById
  <2>6. getPlayerIdBySeatIndex(V, QueueSeat) = Nobody
    BY <1>1, TableSeats DEF getPlayerIdBySeatIndex
  <2>7. s \notin {Nowhere, QueueSeat}
    BY Reserved
  <2>8. MayChangeSeat(V, c, p, QueueSeat)
    BY <2>4, <2>5, <2>6, <2>7 DEF MayChangeSeat, isValidSeatPosition
  <2>9. Run(V, << SeatChangePacket(p, QueueSeat) >>, c, R)
    BY <2>1, <2>3, <2>8, RunOfSeatChange, Reserved
  <2>10. SeatChangePacket(p, QueueSeat) \in Packet
    BY <2>1, PacketsAre, Reserved
  <2> HIDE DEF R, p
  <2> QED  BY <1>2, <1>3, <2>2, <2>9, <2>10 DEF R
<1> QED  BY <1>1, <1>4, <1>5

\* The packets that send players to the queue, one after the other.
away(out) == [k \in DOMAIN out |-> SeatChangePacket(out[k], QueueSeat)]

\* They are sent in the order of the players.
LEMMA AwayConcat ==
  ASSUME NEW a \in Seq(Player), NEW b \in Seq(Player)
  PROVE  away(a \o b) = away(a) \o away(b)
<1> DEFINE n  == Len(a)
           nn == Len(b)
           u  == a \o b
           F(p) == SeatChangePacket(p, QueueSeat)
<1>1. /\ n \in Nat /\ nn \in Nat /\ DOMAIN a = 1..n /\ DOMAIN b = 1..nn /\ DOMAIN u = 1..(n + nn)
      /\ \A k \in 1..(n + nn) : u[k] = IF k <= n THEN a[k] ELSE b[k - n]
      /\ \A k \in 1..n : a[k] \in Player
      /\ \A k \in 1..nn : b[k] \in Player
  BY LenProperties, ConcatProperties, ElementOfSeq
<1>2. \A p \in Player : F(p) \in Packet
  BY PacketsAre, Reserved
<1> HIDE DEF n, nn, u, F
<1> DEFINE A == [k \in 1..n |-> F(a[k])]
           B == [k \in 1..nn |-> F(b[k])]
           U == [k \in 1..(n + nn) |-> F(u[k])]
<1>3. A \in Seq(Packet) /\ Len(A) = n /\ B \in Seq(Packet) /\ Len(B) = nn
  <2>1. A \in [1..n -> Packet] /\ B \in [1..nn -> Packet]
    BY <1>1, <1>2
  <2> HIDE DEF A, B
  <2>2. n \in Nat /\ nn \in Nat
    BY <1>1
  <2>3. A \in Seq(Packet) /\ Len(A) = n
    BY <2>1, <2>2
  <2>4. B \in Seq(Packet) /\ Len(B) = nn
    BY <2>1, <2>2
  <2> QED  BY <2>3, <2>4
<1>4. /\ DOMAIN (A \o B) = 1..(n + nn)
      /\ \A k \in 1..(n + nn) : (A \o B)[k] = IF k <= n THEN A[k] ELSE B[k - n]
      /\ A \o B = [k \in DOMAIN (A \o B) |-> (A \o B)[k]]
  <2> HIDE DEF A, B
  <2>1. /\ A \o B \in Seq(Packet) /\ Len(A \o B) = n + nn
        /\ \A k \in 1..(n + nn) : (A \o B)[k] = IF k <= n THEN A[k] ELSE B[k - n]
    BY <1>1, <1>3, ConcatProperties
  <2> QED  BY <1>1, <2>1, LenProperties
<1>5. ASSUME NEW k \in 1..(n + nn)  PROVE U[k] = (A \o B)[k]
  <2>1. CASE k <= n
    <3>1. k \in 1..n
      BY <1>1, <2>1
    <3>2. A[k] = F(a[k]) /\ U[k] = F(u[k]) /\ u[k] = a[k]
      BY <1>1, <2>1, <3>1
    <3> HIDE DEF A, B, U
    <3> QED  BY <1>4, <2>1, <3>2
  <2>2. CASE ~(k <= n)
    <3>1. k - n \in 1..nn
      BY <1>1, <2>2
    <3>2. B[k - n] = F(b[k - n]) /\ U[k] = F(u[k]) /\ u[k] = b[k - n]
      BY <1>1, <2>2, <3>1
    <3> HIDE DEF A, B, U
    <3> QED  BY <1>4, <2>2, <3>2
  <2> QED  BY <2>1, <2>2
<1>6. U = A \o B
  <2>1. U = [k \in 1..(n + nn) |-> U[k]]
    OBVIOUS
  <2> HIDE DEF U, A, B
  <2>2. [k \in 1..(n + nn) |-> U[k]] = [k \in 1..(n + nn) |-> (A \o B)[k]]
    BY <1>5
  <2> QED  BY <1>4, <2>1, <2>2
<1>7. away(u) = U /\ away(a) = A /\ away(b) = B
  BY <1>1 DEF away, F
<1> HIDE DEF U, A, B
<1> QED  BY <1>6, <1>7 DEF u

(***************************************************************************)
(* The host changes the table's size: the players of the dropped seats are *)
(* sent away first, each by a request of its own, and the copy becomes     *)
(* what the server makes of all of them.                                   *)
(***************************************************************************)
LEMMA RunOfShrinking ==
  ASSUME NEW V, Good(V), NEW c \in V.profiles,
         NEW v \in MinPlayersPerGame..MaxPlayersPerGame, MayChangePlayersPerGame(V, c, v)
  PROVE  Run(V, away(movedByShrinking(V, v)) \o << PpgPacket(v) >>, c, playersPerGameChanged(V, v))
<1> DEFINE sitter(s) == IF s \in v..(V.ppg - 1) /\ V.seats.playerAt[s] # Nobody
                        THEN << V.seats.playerAt[s] >> ELSE << >>
           two   == IF 2 \in v..(V.ppg - 1) THEN clearSeat(V, 2) ELSE V
           three == IF 3 \in v..(V.ppg - 1) THEN clearSeat(two, 3) ELSE two
<1>1. /\ isHost(c) /\ v # V.ppg
      /\ V.seats.playerAt \in [Seat -> Player \cup {Nobody}]
      /\ V.ppg \in MinPlayersPerGame..MaxPlayersPerGame
  BY Fields DEF MayChangePlayersPerGame, Good, SeatPositionsType
<1>2. /\ 2 \in Seat \ {QueueSeat} /\ 3 \in Seat \ {QueueSeat}
      /\ V.seats.playerAt[2] \in Player \cup {Nobody} /\ V.seats.playerAt[3] \in Player \cup {Nobody}
  BY <1>1, DroppedSeats DEF QueueSeat
<1>3. sitter(2) \in Seq(Player) /\ sitter(3) \in Seq(Player)
  <2>1. \A s \in {2, 3} : V.seats.playerAt[s] # Nobody => << V.seats.playerAt[s] >> \in Seq(Player)
    BY <1>2
  <2> QED  BY <2>1, EmptySeq
<1>4. movedByShrinking(V, v) = sitter(2) \o sitter(3)
  BY DEF movedByShrinking
<1>5. ASSUME NEW s \in {2, 3}
      PROVE  away(sitter(s)) = IF s \in v..(V.ppg - 1) THEN sentAway(V, s) ELSE << >>
  <2>1. away(<< >>) = << >>
    BY DEF away
  <2>2. ASSUME NEW p  PROVE away(<< p >>) = << SeatChangePacket(p, QueueSeat) >>
    BY DEF away
  <2> QED  BY <2>1, <2>2 DEF sentAway
<1> HIDE DEF sitter
<1>6. /\ away(sitter(2)) \in Seq(Packet) /\ Run(V, away(sitter(2)), c, two)
      /\ Settings(two) = Settings(V)
      /\ \A t \in Seat \ {QueueSeat} : two.seats.playerAt[t]
              = IF t = 2 /\ 2 \in v..(V.ppg - 1) THEN Nobody ELSE V.seats.playerAt[t]
  <2>1. CASE 2 \in v..(V.ppg - 1)
    <3>1. away(sitter(2)) = sentAway(V, 2) /\ two = clearSeat(V, 2)
      BY <1>5, <2>1
    <3> HIDE DEF two
    <3> QED  BY <1>1, <1>2, <2>1, <3>1, RunOfClearing
  <2>2. CASE 2 \notin v..(V.ppg - 1)
    <3>1. away(sitter(2)) = << >> /\ two = V
      BY <1>5, <2>2
    <3>2. Run(V, << >>, c, V)
      BY NothingRequested, RunOfNothing, EmptySeq
    <3> HIDE DEF two
    <3> QED  BY <2>2, <3>1, <3>2, EmptySeq
  <2> QED  BY <2>1, <2>2
<1>7. two = (IF 2 \in v..(V.ppg - 1) THEN clearSeat(V, 2) ELSE V)
  OBVIOUS
<1>8. three = (IF 3 \in v..(V.ppg - 1) THEN clearSeat(two, 3) ELSE two)
  OBVIOUS
<1> HIDE DEF two, three
<1>9. Good(two) /\ c \in two.profiles
  BY <1>6, RunIsGood
<1>10. /\ two.seats.playerAt[3] = V.seats.playerAt[3] /\ sentAway(two, 3) = sentAway(V, 3)
       /\ two.ppg = V.ppg
  BY <1>2, <1>6 DEF sentAway, Settings
<1>11. /\ away(sitter(3)) \in Seq(Packet) /\ Run(two, away(sitter(3)), c, three)
       /\ Settings(three) = Settings(two)
       /\ \A t \in Seat \ {QueueSeat} : three.seats.playerAt[t]
               = IF t = 3 /\ 3 \in v..(V.ppg - 1) THEN Nobody ELSE two.seats.playerAt[t]
  <2>1. CASE 3 \in v..(V.ppg - 1)
    <3>1. away(sitter(3)) = sentAway(two, 3) /\ three = clearSeat(two, 3)
      BY <1>5, <1>8, <1>10, <2>1
    <3> QED  BY <1>1, <1>2, <1>9, <2>1, <3>1, RunOfClearing
  <2>2. CASE 3 \notin v..(V.ppg - 1)
    <3>1. away(sitter(3)) = << >> /\ three = two
      BY <1>5, <1>8, <2>2
    <3>2. Run(two, << >>, c, two)
      BY <1>9, NothingRequested, RunOfNothing, EmptySeq
    <3> QED  BY <2>2, <3>1, <3>2, EmptySeq
  <2> QED  BY <2>1, <2>2
<1>12. Run(V, away(sitter(2)) \o away(sitter(3)), c, three)
  BY <1>6, <1>11, RunConcat
<1>13. Good(three) /\ c \in three.profiles
  BY <1>11, RunIsGood
<1>14. three.ppg = V.ppg
  BY <1>10, <1>11 DEF Settings
<1>15. /\ 2 \in v..(V.ppg - 1) => three.seats.playerAt[2] = Nobody
       /\ 3 \in v..(V.ppg - 1) => three.seats.playerAt[3] = Nobody
  BY <1>2, <1>6, <1>11
<1>16. movedByShrinking(three, v) = << >>
  <2>1. << >> \o << >> = << >>
    OBVIOUS
  <2> QED  BY <1>14, <1>15, <2>1 DEF movedByShrinking
<1>17. MayChangePlayersPerGame(three, c, v)
  BY <1>1, <1>14 DEF MayChangePlayersPerGame
<1>18. Run(three, << PpgPacket(v) >>, c, playersPerGameChanged(three, v))
  BY <1>13, <1>16, <1>17, RunOfPlayersPerGame
<1>19. playersPerGameChanged(three, v) = playersPerGameChanged(V, v)
  <2>1. clearDroppedSeats(V, v) = three
    BY <1>7, <1>8 DEF clearDroppedSeats
  <2>2. clearDroppedSeats(three, v) = three
    BY <1>14, <1>15 DEF clearDroppedSeats, clearSeat
  <2> QED  BY <2>1, <2>2 DEF playersPerGameChanged
<1>20. << PpgPacket(v) >> \in Seq(Packet)
  BY PacketsAre
<1>21. away(sitter(2)) \o away(sitter(3)) \in Seq(Packet)
  BY <1>6, <1>11, ConcatProperties
<1>22. Run(V, (away(sitter(2)) \o away(sitter(3))) \o << PpgPacket(v) >>, c, playersPerGameChanged(V, v))
  BY <1>12, <1>18, <1>19, <1>20, <1>21, RunConcat
<1>23. away(movedByShrinking(V, v)) = away(sitter(2)) \o away(sitter(3))
  BY <1>3, <1>4, AwayConcat
<1> QED  BY <1>22, <1>23

-----------------------------------------------------------------------------
(***************************************************************************)
(* The invariant as long as requests do not overlap.  At most one client   *)
(* has requests under way.  Nothing is on its way to that one, and its     *)
(* requests lead from the server's lobby to its copy.  Of every other one, *)
(* what is on its way leads from its copy to the server's lobby.           *)
(***************************************************************************)
Known(c) == IF sync[c] = "Synced" THEN {view[c]} ELSE {}

InStep(c) ==
  /\ Requested(toServer[c]) => toClient[c] = << >> /\ Run(lobby, toServer[c], c, view[c])
  /\ ~Requested(toServer[c]) => Trace(Known(c), toClient[c], lobby)

Agreed ==
  /\ Good(lobby)
  /\ \A c \in Player : down[c] = "up"
  /\ \A c, d \in Player : Requested(toServer[c]) /\ Requested(toServer[d]) => c = d
  /\ \A c \in Player : InStep(c)

AgreedInv == ~overlap => Agreed

\* The copies are well formed, so they are elements of a type.
LEMMA KnownSound ==
  ASSUME TypeInv, NEW c \in Player
  PROVE  Known(c) \in SUBSET SoundLobby /\ lobby \in SoundLobby
BY DEF TypeInv, Known

\* Nobody has connected yet.
LEMMA InitAgreed == Init => AgreedInv
<1> SUFFICES ASSUME Init  PROVE Agreed
  BY DEF AgreedInv
<1>1. /\ lobby = initialLobby /\ \A c \in Player : down[c] = "up"
      /\ \A c \in Player : toServer[c] = << >> /\ toClient[c] = << >> /\ sync[c] = "Unsynced"
  BY DEF Init
<1>2. \A c \in Player : ~Requested(toServer[c])
  BY <1>1, NothingRequested
<1>3. ASSUME NEW c \in Player  PROVE InStep(c)
  <2>1. Known(c) = {}
    BY <1>1 DEF Known
  <2>2. Trace({}, << >>, initialLobby)
    BY SoundLobbies, TraceOfNothing
  <2> QED  BY <1>1, <1>2, <2>1, <2>2 DEF InStep
<1> QED  BY <1>1, <1>2, <1>3, InitialGood DEF Agreed

\* Whoever is not in the lobby has been sent nothing and knows nothing.
LEMMA StrangersInStep ==
  ASSUME TypeInv, Strangers, NEW c \in Player, c \notin lobby.profiles
  PROVE  /\ ~Requested(toServer[c]) /\ Known(c) = {} /\ toClient[c] = << >>
         /\ \A L \in SoundLobby : Trace({}, << >>, L)
<1>1. ~Requested(toServer[c]) /\ toClient[c] = << >> /\ sync[c] = "Unsynced"
  BY NothingRequested DEF Strangers
<1> QED  BY <1>1, TraceOfNothing DEF Known

\* A new client.
LEMMA HelloAgreed ==
  ASSUME Inv, Agreed, NEW c \in Player, Hello(c), ~overlap'
  PROVE  Agreed'
<1> USE DEF Inv
<1>1. c \notin lobby.profiles /\ c = hellos
  BY DEF Hello, HostFirst, TypeInv
<1>2. CASE ~canJoin(lobby)
  <2>1. UNCHANGED << lobby, view, sync, down, toClient, toServer >>
    BY <1>2 DEF Hello, clientVars
  <2> QED  BY <2>1 DEF Agreed, InStep, Known
<1>3. CASE canJoin(lobby)
  <2> DEFINE L == playerConnected(lobby, c)
             m == ConnectedPacket(c, getSeatPositionById(L, c))
             greeting == << Welcome >> \o Snapshot(L)
             told == broadcast(toClient, m, c)
  <2>1. /\ lobby' = L /\ toClient' = [told EXCEPT ![c] = greeting]
        /\ overlap' = (overlap \/ anyRequest)
        /\ UNCHANGED << view, sync, down, toServer >>
    BY <1>3 DEF Hello, clientVars
  <2>2. \A d \in Player : ~Requested(toServer[d])
    BY <2>1 DEF anyRequest, hasRequest, Requested
  <2>3. Good(lobby) /\ WellFormed(lobby)
    BY DEF Agreed, Good
  <2>4. ~isHost(c) => HostProfile \in lobby.profiles
    BY <1>1 DEF HostFirst, isHost, HostProfile
  <2>5. Good(L) /\ L.profiles = lobby.profiles \cup {c} /\ L \in SoundLobby
    BY <1>1, <1>3, <2>3, <2>4, ConnectedGood, GoodIsSound
  <2>6. getSeatPositionById(L, c) \in Seat
    BY <2>3, PlayerConnectedPosition
  <2>7. m \in Packet /\ m.type # "SnapshotEnd"
    BY <2>6, PacketsAre
  <2>8. toClient \in [Player -> Seq(SoundPacket)]
    BY DEF TypeInv
  <2>9. /\ told \in [Player -> Seq(SoundPacket)]
        /\ \A d \in Player \ (lobby.profiles \ {c}) : told[d] = toClient[d]
        /\ \A d \in (Player \cap lobby.profiles) \ {c} : told[d] = Append(toClient[d], m)
    BY <2>7, <2>8, BroadcastCorrect
  <2>10. (\E d \in Player : d \in lobby.profiles) => Follows({lobby}, m, {L})
    <3>1. ASSUME NEW d \in Player, d \in lobby.profiles  PROVE ~isHost(c)
      BY <1>1, <3>1 DEF HostFirst, isHost, HostProfile, initialLobby
    <3>2. ~isHost(c) => Follows({lobby}, m, {L})
      BY <1>1, <2>3, ConnectedFollows
    <3> QED  BY <3>1, <3>2
  <2> HIDE DEF L, m, greeting, told
  <2>11. toClient'[c] = greeting /\ \A d \in Player \ {c} : toClient'[d] = told[d]
    BY <2>1, <2>9
  <2>12. ASSUME NEW d \in Player  PROVE InStep(d)'
    <3>1. Known(d)' = Known(d)
      BY <2>1 DEF Known
    <3>2. CASE d = c
      <4>1. Known(c) = {}
        BY <1>1, StrangersInStep
      <4>2. Trace({}, greeting, L)
        BY <2>5, TraceOfWelcome DEF greeting
      <4> QED  BY <2>1, <2>2, <2>11, <3>1, <3>2, <4>1, <4>2 DEF InStep
    <3>3. CASE d # c /\ d \notin lobby.profiles
      <4>1. toClient'[d] = << >> /\ Known(d) = {} /\ Trace({}, << >>, L)
        BY <2>5, <2>9, <2>11, <3>3, StrangersInStep
      <4> QED  BY <2>1, <2>2, <3>1, <4>1 DEF InStep
    <3>4. CASE d # c /\ d \in lobby.profiles
      <4>1. toClient'[d] = Append(toClient[d], m) /\ Follows({lobby}, m, {L})
        BY <2>9, <2>10, <2>11, <3>4
      <4>2. Trace(Known(d), toClient[d], lobby) /\ toClient[d] \in Seq(Packet)
        BY <2>2, NumbersAre DEF Agreed, InStep
      <4>3. Trace(Known(d), Append(toClient[d], m), L)
        BY <2>5, <2>7, <4>1, <4>2, TraceAppend
      <4> QED  BY <2>1, <2>2, <3>1, <4>1, <4>3 DEF InStep
    <3> QED  BY <3>2, <3>3, <3>4
  <2> QED  BY <2>1, <2>2, <2>5, <2>12 DEF Agreed
<1> QED  BY <1>2, <1>3

\* The server takes a packet of the client that has requests under way.
LEMMA ArrivedInStep ==
  ASSUME TypeInv, Agreed, NEW c \in Player, Arrived(c)
  PROVE  /\ toServer[c] \in Seq(Packet) /\ toServer[c] # << >> /\ toServer'[c] = Tail(toServer[c])
         /\ Tail(toServer[c]) \in Seq(Packet)
         /\ Requested(toServer[c]) <=> isRequest(Head(toServer[c])) \/ Requested(toServer'[c])
         /\ isRequest(Head(toServer[c])) =>
              /\ MadeOn(lobby, Head(toServer[c]), c) /\ c \in lobby.profiles
              /\ Run(applied(lobby, Head(toServer[c])), toServer'[c], c, view[c])
         /\ ~isRequest(Head(toServer[c])) /\ Requested(toServer'[c]) =>
              Run(lobby, toServer'[c], c, view[c])
<1>1. /\ toServer[c] \in Seq(Packet) /\ toServer[c] # << >> /\ toServer'[c] = Tail(toServer[c])
  BY DEF Arrived, TypeInv
<1>2. Head(toServer[c]) \in Packet /\ Tail(toServer[c]) \in Seq(Packet)
  BY <1>1, HeadTailProperties
<1>3. Requested(toServer[c]) <=> isRequest(Head(toServer[c])) \/ Requested(Tail(toServer[c]))
  BY <1>1, RequestedTail
<1>4. ASSUME Requested(toServer[c])
      PROVE  /\ Good(lobby) /\ c \in lobby.profiles
             /\ \/ /\ MadeOn(lobby, Head(toServer[c]), c)
                   /\ Run(applied(lobby, Head(toServer[c])), Tail(toServer[c]), c, view[c])
                \/ ~isRequest(Head(toServer[c])) /\ Run(lobby, Tail(toServer[c]), c, view[c])
  <2>1. Run(lobby, toServer[c], c, view[c])
    BY <1>4 DEF Agreed, InStep
  <2> QED  BY <1>1, <2>1, RunTail
<1>5. Requested(toServer[c]) /\ MadeOn(lobby, Head(toServer[c]), c) => isRequest(Head(toServer[c]))
  BY <1>2, <1>4, RequestMadeOn
<1> QED  BY <1>1, <1>2, <1>3, <1>4, <1>5

\* A request is accepted.
LEMMA AcceptAgreed ==
  ASSUME Inv, Agreed, NEW c \in Player, AcceptRequest(c), ~overlap'
  PROVE  Agreed'
<1> USE DEF Inv
<1> DEFINE m == Head(toServer[c])
           L == applied(lobby, m)
<1>1. /\ Arrived(c) /\ isRequest(m) /\ lobby' = L /\ toClient' = broadcast(toClient, m, c)
  BY DEF AcceptRequest
<1>2. /\ m \in Packet /\ UNCHANGED << view, sync, down >>
      /\ \A d \in Player \ {c} : toServer'[d] = toServer[d]
  BY <1>1, ArrivedFacts
<1>3. /\ Requested(toServer[c]) /\ MadeOn(lobby, m, c) /\ c \in lobby.profiles
      /\ Run(L, toServer'[c], c, view[c]) /\ toServer'[c] \in Seq(Packet)
  BY <1>1, ArrivedInStep
<1>4. /\ Good(lobby) /\ Good(L) /\ L.profiles = lobby.profiles
      /\ notified(lobby, m) = [outcome |-> "applied", view |-> L]
  BY <1>2, <1>3, RequestMadeOn DEF Agreed
<1>5. toClient \in [Player -> Seq(SoundPacket)] /\ m.type # "SnapshotEnd" /\ m.type \in NotifyTypes
  BY <1>1 DEF TypeInv, isRequest, RequestTypes, NotifyTypes
<1>6. /\ \A d \in Player \ (lobby.profiles \ {c}) : toClient'[d] = toClient[d]
      /\ \A d \in (Player \cap lobby.profiles) \ {c} : toClient'[d] = Append(toClient[d], m)
  BY <1>1, <1>2, <1>5, BroadcastCorrect
<1>7. L \in SoundLobby
  BY <1>4, GoodIsSound
<1> HIDE DEF L, m
<1>8. Follows({lobby}, m, {L})
  <2>1. notified(lobby, m).outcome = "applied" /\ notified(lobby, m).view = L
    BY <1>4
  <2> QED  BY <1>5, <2>1, FollowsNotified
<1>9. \A d \in Player \ {c} : ~Requested(toServer[d]) /\ ~Requested(toServer'[d])
  BY <1>2, <1>3 DEF Agreed
<1>10. ASSUME NEW d \in Player  PROVE InStep(d)'
  <2>1. Known(d)' = Known(d)
    BY <1>2 DEF Known
  <2>2. CASE d = c
    <3>1. toClient'[c] = << >>
      BY <1>3, <1>6 DEF Agreed, InStep
    <3>2. ~Requested(toServer'[c]) => L = view[c]
      BY <1>3, RunEnds
    <3>3. L = view[c] => Trace(Known(c), << >>, L)
      BY <1>7, TraceOfNothing DEF Known
    <3> QED  BY <1>1, <1>2, <1>3, <2>1, <2>2, <3>1, <3>2, <3>3 DEF InStep
  <2>3. CASE d # c /\ d \notin lobby.profiles
    <3>1. toClient'[d] = << >> /\ Known(d) = {} /\ Trace({}, << >>, L)
      BY <1>6, <1>7, <2>3, StrangersInStep
    <3> QED  BY <1>1, <1>9, <2>1, <2>3, <3>1 DEF InStep
  <2>4. CASE d # c /\ d \in lobby.profiles
    <3>1. toClient'[d] = Append(toClient[d], m)
      BY <1>6, <2>4
    <3>2. Trace(Known(d), toClient[d], lobby) /\ toClient[d] \in Seq(Packet)
      BY <1>9, <2>4, NumbersAre DEF Agreed, InStep
    <3>3. Trace(Known(d), Append(toClient[d], m), L)
      BY <1>2, <1>7, <1>8, <3>2, TraceAppend
    <3> QED  BY <1>1, <1>9, <2>1, <2>4, <3>1, <3>3 DEF InStep
  <2> QED  BY <2>2, <2>3, <2>4
<1>11. \A d \in Player : down'[d] = "up"
  BY <1>2 DEF Agreed
<1>12. \A d, e \in Player : Requested(toServer'[d]) /\ Requested(toServer'[e]) => d = e
  BY <1>9
<1> QED  BY <1>1, <1>4, <1>10, <1>11, <1>12 DEF Agreed

\* No request is refused.
LEMMA NothingRejected ==
  ASSUME Inv, Agreed, NEW c \in Player
  PROVE  ~RejectRequest(c)
<1> SUFFICES ASSUME RejectRequest(c)  PROVE FALSE
  OBVIOUS
<1>1. Arrived(c) /\ isRequest(Head(toServer[c])) /\ ~Accepted(lobby, Head(toServer[c]), c)
  BY DEF RejectRequest
<1>2. MadeOn(lobby, Head(toServer[c]), c) /\ c \in lobby.profiles
  BY <1>1, ArrivedInStep DEF Inv
<1>3. Head(toServer[c]) \in Packet
  BY <1>1, ArrivedFacts DEF Inv
<1> QED  BY <1>1, <1>2, <1>3, RequestMadeOn DEF Agreed

\* The server takes something else than a request.
LEMMA OtherArrivedAgreed ==
  ASSUME Inv, Agreed, NEW c \in Player, onSnapshotAck(c) \/ DropUpdateRequest(c), ~overlap'
  PROVE  Agreed'
<1> USE DEF Inv
<1>1. /\ Arrived(c) /\ UNCHANGED << lobby, toClient >> /\ ~isRequest(Head(toServer[c]))
  BY DEF onSnapshotAck, DropUpdateRequest, SnapshotAck, UpdateRequest, isRequest, RequestTypes
<1>2. /\ UNCHANGED << view, sync, down >>
      /\ \A d \in Player \ {c} : toServer'[d] = toServer[d]
  BY <1>1, ArrivedFacts
<1>3. /\ Requested(toServer[c]) <=> Requested(toServer'[c])
      /\ Requested(toServer'[c]) => Run(lobby, toServer'[c], c, view[c])
  BY <1>1, ArrivedInStep
<1>4. \A d \in Player : Requested(toServer[d]) <=> Requested(toServer'[d])
  BY <1>2, <1>3
<1>5. ASSUME NEW d \in Player  PROVE InStep(d)'
  <2>1. Known(d)' = Known(d)
    BY <1>2 DEF Known
  <2>2. InStep(d)
    BY DEF Agreed
  <2> QED  BY <1>1, <1>2, <1>3, <1>4, <2>1, <2>2 DEF InStep
<1> QED  BY <1>1, <1>2, <1>4, <1>5 DEF Agreed

\* A client that receives something has no request under way.
LEMMA ReceivedInStep ==
  ASSUME TypeInv, Agreed, NEW c \in Player, Received(c)
  PROVE  /\ ~Requested(toServer[c])
         /\ \E T \in SUBSET SoundLobby :
              /\ Follows(Known(c), Head(toClient[c]), T)
              /\ \A U \in SUBSET T : Trace(U, toClient'[c], lobby)
<1>1. /\ toClient[c] # << >> /\ toClient[c] \in Seq(Packet) /\ toClient'[c] = Tail(toClient[c])
  <2>1. toClient[c] # << >> /\ toClient' = [toClient EXCEPT ![c] = Tail(toClient[c])]
    BY ReceivedFacts
  <2>2. toClient \in [Player -> Seq(SoundPacket)]
    BY DEF TypeInv
  <2> QED  BY <2>1, <2>2, NumbersAre
<1>2. ~Requested(toServer[c]) /\ Trace(Known(c), toClient[c], lobby)
  BY <1>1 DEF Agreed, InStep
<1> QED  BY <1>1, <1>2, TraceTail

(***************************************************************************)
(* The steps of a client share this: its copy goes on as what was on its   *)
(* way says, no assert fails, and it sends no request.                     *)
(***************************************************************************)
LEMMA ReceivedAgreed ==
  ASSUME TypeInv, Agreed, NEW c \in Player, Received(c),
         NEW T, \A U \in SUBSET T : Trace(U, toClient'[c], lobby),
         Known(c)' \subseteq T, ~Requested(toServer'[c]), down' = down,
         \A d \in Player \ {c} : /\ view'[d] = view[d] /\ sync'[d] = sync[d]
                                 /\ toServer'[d] = toServer[d]
  PROVE  Agreed'
<1>1. lobby' = lobby /\ \A d \in Player \ {c} : toClient'[d] = toClient[d]
  BY ReceivedFacts
<1>2. ~Requested(toServer[c])
  BY ReceivedInStep
<1>3. \A d \in Player : Requested(toServer'[d]) <=> Requested(toServer[d])
  BY <1>2
<1>4. ASSUME NEW d \in Player  PROVE InStep(d)'
  <2>1. CASE d = c
    <3>1. Trace(Known(c)', toClient'[c], lobby)
      OBVIOUS
    <3> QED  BY <1>1, <1>3, <2>1, <3>1 DEF InStep
  <2>2. CASE d # c
    <3>1. Known(d)' = Known(d) /\ InStep(d)
      BY <2>2 DEF Known, Agreed
    <3> QED  BY <1>1, <1>3, <2>2, <3>1 DEF InStep
  <2> QED  BY <2>1, <2>2
<1> QED  BY <1>1, <1>3, <1>4 DEF Agreed

\* The greeting, the beginning of a snapshot, and a notification that is dropped.
LEMMA UnsyncedAgreed ==
  ASSUME Inv, Agreed, NEW c \in Player, onWelcome(c) \/ onSnapshotBegin(c) \/ DropNotify(c)
  PROVE  Agreed'
<1> USE DEF Inv
<1>1. /\ Received(c) /\ down' = down /\ toServer' = toServer
      /\ \A d \in Player \ {c} : view'[d] = view[d] /\ sync'[d] = sync[d]
  BY DEF onWelcome, onSnapshotBegin, DropNotify, clientVars, TypeInv
<1>2. PICK T \in SUBSET SoundLobby :
        /\ Follows(Known(c), Head(toClient[c]), T)
        /\ \A U \in SUBSET T : Trace(U, toClient'[c], lobby)
  BY <1>1, ReceivedInStep
<1>3. ~Requested(toServer'[c])
  BY <1>1, ReceivedInStep
<1>4. Known(c)' = {}
  <2>1. CASE onWelcome(c)
    <3>1. Head(toClient[c]).type = "Welcome" /\ sync' = sync
      BY <2>1, PacketsAre DEF onWelcome
    <3>2. Known(c) = {}
      BY <1>2, <3>1 DEF Follows
    <3> QED  BY <3>1, <3>2 DEF Known
  <2>2. CASE onSnapshotBegin(c)
    <3>1. sync'[c] = "Syncing"
      BY <2>2 DEF onSnapshotBegin, TypeInv
    <3> QED  BY <3>1 DEF Known
  <2>3. CASE DropNotify(c)
    <3>1. sync[c] # "Synced" /\ sync' = sync
      BY <2>3 DEF DropNotify, clientVars
    <3> QED  BY <3>1 DEF Known
  <2> QED  BY <2>1, <2>2, <2>3
<1>5. Known(c)' \subseteq T
  BY <1>4
<1> QED  BY <1>1, <1>2, <1>3, <1>5, ReceivedAgreed

\* A snapshot becomes the copy.
LEMMA SnapshotEndAgreed ==
  ASSUME Inv, Agreed, NEW c \in Player, onSnapshotEnd(c)
  PROVE  Agreed'
<1> USE DEF Inv
<1> DEFINE m == Head(toClient[c])
<1>1. Received(c) /\ m.type = "SnapshotEnd"
  BY DEF onSnapshotEnd
<1>2. PICK T \in SUBSET SoundLobby :
        /\ Follows(Known(c), m, T)
        /\ \A U \in SUBSET T : Trace(U, toClient'[c], lobby)
  BY <1>1, ReceivedInStep
<1>3. snapshotOutcome(m.lobby) = "applied" /\ snapshotView(m.lobby) \in T
  BY <1>1, <1>2 DEF Follows
<1>4. /\ view'     = [view EXCEPT ![c] = snapshotView(m.lobby)]
      /\ sync'     = [sync EXCEPT ![c] = "Synced"]
      /\ toServer' = [toServer EXCEPT ![c] = Append(toServer[c], SnapshotAck)]
      /\ down' = down
  BY <1>3 DEF onSnapshotEnd
<1>5. /\ view'[c] = snapshotView(m.lobby) /\ toServer'[c] = Append(toServer[c], SnapshotAck)
      /\ \A d \in Player \ {c} : /\ view'[d] = view[d] /\ sync'[d] = sync[d]
                                 /\ toServer'[d] = toServer[d]
  BY <1>4 DEF TypeInv
<1> HIDE DEF m
<1>6. ~Requested(toServer'[c])
  <2>1. ~Requested(toServer[c])
    BY <1>1, ReceivedInStep
  <2>2. toServer[c] \in Seq(Packet) /\ SnapshotAck \in Packet
    BY PacketsAre DEF TypeInv, Packet
  <2>3. ~isRequest(SnapshotAck)
    BY DEF SnapshotAck, isRequest, RequestTypes
  <2> QED  BY <1>5, <2>1, <2>2, <2>3, RequestedAppend
<1>7. Known(c)' \subseteq T
  BY <1>3, <1>5 DEF Known
<1> QED  BY <1>1, <1>2, <1>4, <1>5, <1>6, <1>7, ReceivedAgreed

\* A notification is applied, or refused, and then the copy is out of sync.
LEMMA NotifyAgreed ==
  ASSUME Inv, Agreed, NEW c \in Player, onNotify(c)
  PROVE  Agreed'
<1> USE DEF Inv
<1> DEFINE m == Head(toClient[c])
           r == notified(view[c], m)
<1>1. /\ Received(c) /\ m.type \in NotifyTypes /\ sync[c] = "Synced"
      /\ view' = [view EXCEPT ![c] = r.view]
      /\ down' = IF r.outcome \in AssertNames
                 THEN [down EXCEPT ![c] = r.outcome] ELSE down
      /\ IF r.outcome = "refused"
         THEN /\ sync'     = [sync EXCEPT ![c] = "Syncing"]
              /\ toServer' = [toServer EXCEPT ![c] = Append(toServer[c], UpdateRequest)]
         ELSE UNCHANGED << sync, toServer >>
  BY DEF onNotify
<1>2. PICK T \in SUBSET SoundLobby :
        /\ Follows(Known(c), m, T)
        /\ \A U \in SUBSET T : Trace(U, toClient'[c], lobby)
  BY <1>1, ReceivedInStep
<1>3. r.outcome = "refused" \/ (r.outcome = "applied" /\ r.view \in T)
  <2>1. view[c] \in Known(c)
    BY <1>1 DEF Known
  <2>2. \A V \in Known(c) : \/ notified(V, m).outcome = "refused"
                            \/ notified(V, m).outcome = "applied" /\ notified(V, m).view \in T
    BY <1>1, <1>2 DEF Follows
  <2> QED  BY <2>1, <2>2
<1> HIDE DEF r, m
<1>4. down' = down
  BY <1>1, <1>3 DEF AssertNames
<1>5. /\ view'[c] = r.view
      /\ \A d \in Player \ {c} : /\ view'[d] = view[d] /\ sync'[d] = sync[d]
                                 /\ toServer'[d] = toServer[d]
  BY <1>1 DEF TypeInv
<1>6. ~Requested(toServer[c])
  BY <1>1, ReceivedInStep
<1>7. ~Requested(toServer'[c]) /\ Known(c)' \subseteq T
  <2>1. CASE r.outcome = "refused"
    <3>1. sync'[c] = "Syncing" /\ toServer'[c] = Append(toServer[c], UpdateRequest)
      BY <1>1, <2>1 DEF TypeInv
    <3>2. toServer[c] \in Seq(Packet) /\ UpdateRequest \in Packet
      BY DEF TypeInv, Packet
    <3>3. ~isRequest(UpdateRequest)
      BY DEF UpdateRequest, isRequest, RequestTypes
    <3>4. ~Requested(toServer'[c])
      BY <1>6, <3>1, <3>2, <3>3, RequestedAppend
    <3>5. Known(c)' = {}
      BY <3>1 DEF Known
    <3> QED  BY <3>4, <3>5
  <2>2. CASE r.outcome # "refused"
    <3>1. toServer' = toServer /\ r.view \in T
      BY <1>1, <1>3, <2>2
    <3> QED  BY <1>5, <1>6, <3>1 DEF Known
  <2> QED  BY <2>1, <2>2
<1> QED  BY <1>1, <1>2, <1>4, <1>5, <1>7, ReceivedAgreed

\* A packet after others, itself a request.
LEMMA RequestedLast ==
  ASSUME NEW q \in Seq(Packet), NEW m \in Packet, isRequest(m)
  PROVE  /\ << m >> \in Seq(Packet) /\ Requested(<< m >>)
         /\ q \o << m >> \in Seq(Packet) /\ Requested(q \o << m >>)
<1>1. << m >> \in Seq(Packet) /\ DOMAIN << m >> = {1} /\ << m >>[1] = m
  OBVIOUS
<1>2. Requested(<< m >>)
  BY <1>1 DEF Requested
<1> QED  BY <1>1, <1>2, ConcatProperties, RequestedConcat

\* What a user asks for, and the packets that say so.
LEMMA UserRuns ==
  ASSUME NEW c \in Player, Good(view[c]), c \in view[c].profiles, UserStep(c)
  PROVE  \E packets \in Seq(Packet) : \E V :
           Ask(c, V, packets) /\ Requested(packets) /\ Run(view[c], packets, c, V)
<1> DEFINE V == view[c]
           Goal == \E packets \in Seq(Packet) : \E W :
                     Ask(c, W, packets) /\ Requested(packets) /\ Run(V, packets, c, W)
<1> HIDE DEF Goal
<1>1. ASSUME NEW p \in Player, NEW s \in Seat, AskSeatChange(c, p, s)  PROVE Goal
  <2> DEFINE m == SeatChangePacket(p, s)
             W == changePlayerSeatPosition(V, p, s)
  <2>1. MayChangeSeat(V, c, p, s) /\ Ask(c, W, << m >>)
    BY <1>1 DEF AskSeatChange, movePlayerToSeatPosition
  <2>2. Run(V, << m >>, c, W)
    BY <2>1, RunOfSeatChange
  <2>3. m \in Packet /\ isRequest(m)
    BY PacketsAre DEF isRequest, RequestTypes
  <2> HIDE DEF m, W, V
  <2>4. << m >> \in Seq(Packet) /\ Requested(<< m >>)
    BY <2>3, EmptySeq, RequestedLast
  <2> QED  BY <2>1, <2>2, <2>4 DEF Goal
<1>2. ASSUME NEW p \in Player, NEW q \in Player, AskSwap(c, p, q)  PROVE Goal
  <2> DEFINE m == SwapPacket(p, q)
             W == swapPlayersInView(V, p, q)
  <2>1. MaySwap(V, c, p, q) /\ Ask(c, W, << m >>)
    BY <1>2 DEF AskSwap
  <2>2. Run(V, << m >>, c, W)
    BY <2>1, RunOfSwap
  <2>3. m \in Packet /\ isRequest(m)
    BY PacketsAre DEF isRequest, RequestTypes
  <2> HIDE DEF m, W, V
  <2>4. << m >> \in Seq(Packet) /\ Requested(<< m >>)
    BY <2>3, EmptySeq, RequestedLast
  <2> QED  BY <2>1, <2>2, <2>4 DEF Goal
<1>3. ASSUME NEW v \in MinPlayersPerGame..MaxPlayersPerGame, AskPlayersPerGame(c, v)  PROVE Goal
  <2> DEFINE m == PpgPacket(v)
             q == away(movedByShrinking(V, v))
             W == playersPerGameChanged(V, v)
  <2>1. MayChangePlayersPerGame(V, c, v) /\ Ask(c, W, q \o << m >>)
    BY <1>3 DEF AskPlayersPerGame, away
  <2>2. Run(V, q \o << m >>, c, W)
    BY <2>1, RunOfShrinking
  <2>3. m \in Packet /\ isRequest(m)
    BY PacketsAre DEF isRequest, RequestTypes
  <2>4. q \in Seq(Packet)
    <3> DEFINE out == movedByShrinking(V, v)
    <3>1. out \in Seq(Player)
      BY MovedType DEF Good
    <3> HIDE DEF out
    <3>2. \A k \in DOMAIN out : SeatChangePacket(out[k], QueueSeat) \in Packet
      BY <3>1, ElementOfSeq, LenProperties, PacketsAre, Reserved
    <3>3. DOMAIN out = 1..Len(out) /\ Len(out) \in Nat
      BY <3>1, LenProperties
    <3>4. away(out) \in [1..Len(out) -> Packet]
      BY <3>2, <3>3 DEF away
    <3>5. away(out) \in Seq(Packet)
      BY <3>3, <3>4
    <3> QED  BY <3>5 DEF out
  <2> HIDE DEF m, W, q, V
  <2>5. q \o << m >> \in Seq(Packet) /\ Requested(q \o << m >>)
    BY <2>3, <2>4, RequestedLast
  <2> QED  BY <2>1, <2>2, <2>5 DEF Goal
<1>4. ASSUME NEW b \in BOOLEAN, AskLobbyOpen(c, b)  PROVE Goal
  <2> DEFINE m == OpenPacket(b)
             W == lobbyOpenChanged(V, b)
  <2>1. MayChangeLobbyOpen(V, c, b) /\ Ask(c, W, << m >>)
    BY <1>4 DEF AskLobbyOpen
  <2>2. Run(V, << m >>, c, W)
    BY <2>1, RunOfLobbyOpen
  <2>3. m \in Packet /\ isRequest(m)
    BY PacketsAre DEF isRequest, RequestTypes
  <2> HIDE DEF m, W, V
  <2>4. << m >> \in Seq(Packet) /\ Requested(<< m >>)
    BY <2>3, EmptySeq, RequestedLast
  <2> QED  BY <2>1, <2>2, <2>4 DEF Goal
<1>5. Goal
  BY <1>1, <1>2, <1>3, <1>4 DEF UserStep
<1> QED  BY <1>5 DEF Goal

(***************************************************************************)
(* A user acts: either the run of its earlier requests goes on, or its     *)
(* copy is the server's lobby and a run begins.                            *)
(***************************************************************************)
LEMMA AskAgreed ==
  ASSUME Inv, Agreed, NEW c \in Player, UserStep(c), ~overlap'
  PROVE  Agreed'
<1> USE DEF Inv
<1>1. /\ UpToDate(c) /\ welcomed[c]
  BY DEF UserStep, AskSeatChange, AskSwap, AskPlayersPerGame, AskLobbyOpen, Ask
<1>2. /\ \A d \in Player \ {c} : ~Requested(toServer[d])
      /\ toClient[c] = << >>
      /\ ~Requested(toServer[c]) => view[c] = lobby
  BY <1>1 DEF UpToDate, hasRequest, Requested
<1>3. c \in lobby.profiles /\ toServer[c] \in Seq(Packet)
  BY <1>1 DEF Strangers, TypeInv
<1>4. Run(lobby, toServer[c], c, view[c])
  BY <1>2, <1>3, RunOfNothing DEF Agreed, InStep
<1>5. Good(view[c]) /\ c \in view[c].profiles
  BY <1>3, <1>4, RunIsGood
<1>6. PICK packets \in Seq(Packet) : \E V :
        Ask(c, V, packets) /\ Requested(packets) /\ Run(view[c], packets, c, V)
  BY <1>5, UserRuns
<1>7. PICK V : Ask(c, V, packets) /\ Requested(packets) /\ Run(view[c], packets, c, V)
  BY <1>6
<1>8. /\ view' = [view EXCEPT ![c] = V]
      /\ toServer' = [toServer EXCEPT ![c] = toServer[c] \o packets]
      /\ UNCHANGED << lobby, sync, down, toClient >>
  BY <1>7 DEF Ask, serverVars
<1>9. /\ view'[c] = V /\ toServer'[c] = toServer[c] \o packets
      /\ \A d \in Player \ {c} : view'[d] = view[d] /\ toServer'[d] = toServer[d]
  BY <1>8 DEF TypeInv
<1>10. Run(lobby, toServer'[c], c, V)
  BY <1>3, <1>4, <1>7, <1>9, RunConcat
<1>11. Requested(toServer'[c])
  BY <1>3, <1>7, <1>9, RequestedConcat
<1>12. ASSUME NEW d \in Player  PROVE InStep(d)'
  <2>1. CASE d = c
    BY <1>2, <1>8, <1>9, <1>10, <1>11, <2>1 DEF InStep
  <2>2. CASE d # c
    <3>1. Known(d)' = Known(d) /\ InStep(d)
      BY <1>8, <1>9, <2>2 DEF Known, Agreed
    <3> QED  BY <1>8, <1>9, <2>2, <3>1 DEF InStep
  <2> QED  BY <2>1, <2>2
<1>13. \A d, e \in Player : Requested(toServer'[d]) /\ Requested(toServer'[e]) => d = e
  BY <1>2, <1>9
<1> QED  BY <1>8, <1>12, <1>13 DEF Agreed

\* Once requests have overlapped, they have.
LEMMA OverlapStays ==
  ASSUME TypeInv, [Next]_vars, overlap
  PROVE  overlap'
<1>1. ASSUME NEW c \in Player, ServerStep(c)  PROVE overlap'
  BY <1>1 DEF ServerStep, Hello, AcceptRequest, RejectRequest, onSnapshotAck, DropUpdateRequest, Arrived
<1>2. ASSUME NEW c \in Player, ClientStep(c)  PROVE overlap'
  BY <1>2 DEF ClientStep, onWelcome, onSnapshotBegin, onSnapshotEnd, onNotify, DropNotify, Received
<1>3. ASSUME NEW c \in Player, UserStep(c)  PROVE overlap'
  BY <1>3 DEF UserStep, AskSeatChange, AskSwap, AskPlayersPerGame, AskLobbyOpen, Ask
<1>4. ASSUME UNCHANGED vars  PROVE overlap'
  BY <1>4 DEF vars
<1> QED  BY <1>1, <1>2, <1>3, <1>4 DEF Next

\* Every step keeps the copies agreed.
LEMMA StepAgreed == Inv /\ AgreedInv /\ [Next]_vars => AgreedInv'
<1> SUFFICES ASSUME Inv, AgreedInv, [Next]_vars, ~overlap'  PROVE Agreed'
  BY DEF AgreedInv
<1>1. Agreed
  BY OverlapStays DEF AgreedInv, Inv
<1>2. ASSUME NEW c \in Player, ServerStep(c)  PROVE Agreed'
  BY <1>1, <1>2, HelloAgreed, AcceptAgreed, NothingRejected, OtherArrivedAgreed DEF ServerStep
<1>3. ASSUME NEW c \in Player, ClientStep(c)  PROVE Agreed'
  BY <1>1, <1>3, UnsyncedAgreed, SnapshotEndAgreed, NotifyAgreed DEF ClientStep
<1>4. ASSUME NEW c \in Player, UserStep(c)  PROVE Agreed'
  BY <1>1, <1>4, AskAgreed
<1>5. ASSUME UNCHANGED vars  PROVE Agreed'
  BY <1>1, <1>5 DEF Agreed, InStep, Known, vars, serverVars, clientVars, netVars
<1> QED  BY <1>2, <1>3, <1>4, <1>5 DEF Next

\* The invariant holds of every reachable state.
THEOREM AlwaysAgreed == Spec => [](Inv /\ AgreedInv)
<1>1. Init => Inv /\ AgreedInv
  BY InitInv, InitAgreed
<1>2. (Inv /\ AgreedInv) /\ [Next]_vars => (Inv /\ AgreedInv)'
  BY StepInv, StepAgreed
<1> QED  BY <1>1, <1>2, PTL DEF Spec

(***************************************************************************)
(* As long as no two requests overlapped: when no request is under way and *)
(* everything sent to a synced client has been handled, its copy is the    *)
(* server's lobby, the order of the queue included.                        *)
(***************************************************************************)
THEOREM CopiesAgree == Spec => []CopiesAgreeUnlessOverlap
<1>1. Inv /\ AgreedInv => CopiesAgreeUnlessOverlap
  <2> SUFFICES ASSUME Inv, AgreedInv, ~overlap, NEW c \in Player,
                      sync[c] = "Synced", toClient[c] = << >>, ~anyRequest
               PROVE  view[c] = lobby
    BY DEF CopiesAgreeUnlessOverlap, AgreesWithServer
  <2>1. ~Requested(toServer[c])
    BY DEF anyRequest, hasRequest, Requested
  <2>2. Trace({view[c]}, << >>, lobby)
    BY <2>1 DEF AgreedInv, Agreed, InStep, Known
  <2>3. lobby \in SoundLobby
    BY DEF Inv, TypeInv
  <2>4. {view[c]} \subseteq {lobby}
    BY <2>2, <2>3, TraceOfNothing
  <2> QED  BY <2>4
<1> QED  BY <1>1, AlwaysAgreed, PTL

(***************************************************************************)
(* As long as no two requests overlapped, no assert of a client fails,     *)
(* whatever it is notified of and whatever snapshot it is sent.            *)
(***************************************************************************)
THEOREM NoAbort == Spec => []NoAbortUnlessOverlap
<1>1. AgreedInv => NoAbortUnlessOverlap
  BY DEF AgreedInv, Agreed, NoAbortUnlessOverlap
<1> QED  BY <1>1, AlwaysAgreed, PTL

(***************************************************************************)
(* As long as no two requests overlapped, the server refuses none: what a  *)
(* client's checks let through, the server's checks let through.           *)
(***************************************************************************)
THEOREM NoReject == Spec => NoRejectUnlessOverlap
<1>1. Inv /\ AgreedInv /\ [Next]_vars => [~overlap => \A c \in Player : ~RejectRequest(c)]_vars
  BY NothingRejected DEF AgreedInv
<1> QED  BY <1>1, AlwaysAgreed, PTL DEF Spec, NoRejectUnlessOverlap

-----------------------------------------------------------------------------
(***************************************************************************)
(* The server is LobbyServer with fresh requests as long as none overlap.  *)
(* The instance with OnlyFresh = TRUE has operations of its own too, and   *)
(* they are the same again.                                                *)
(***************************************************************************)
LEMMA FreshServerNumbers ==
  /\ Nobody = FreshServer!Nobody /\ Nowhere = FreshServer!Nowhere /\ QueueSeat = FreshServer!QueueSeat
  /\ HostProfile = FreshServer!HostProfile /\ Seat = FreshServer!Seat
  /\ MinPlayersPerGame = FreshServer!MinPlayersPerGame
  /\ MaxPlayersPerGame = FreshServer!MaxPlayersPerGame
BY DEF Nobody, Nowhere, QueueSeat, HostProfile, Seat, MinPlayersPerGame, MaxPlayersPerGame,
       FreshServer!Nobody, FreshServer!Nowhere, FreshServer!QueueSeat, FreshServer!HostProfile,
       FreshServer!Seat, FreshServer!MinPlayersPerGame, FreshServer!MaxPlayersPerGame

\* How many elements a finite set has.
LEMMA FreshServerCardinality == \A S : Cardinality(S) = FreshServer!Cardinality(S)
BY DEF Cardinality, FreshServer!Cardinality

\* The operations of the seat maps.
LEMMA FreshServerSeats ==
  /\ \A sp, p : erase(sp, p) = FreshServer!erase(sp, p)
  /\ \A sp, p, s : assignSeat(sp, p, s) = FreshServer!assignSeat(sp, p, s)
  /\ \A sp, p, q : swapPlayers(sp, p, q) = FreshServer!swapPlayers(sp, p, q)
<1>1. \A sp, p : erase(sp, p) = FreshServer!erase(sp, p)
  BY DEF erase, eraseFromMaps, FreshServer!erase, FreshServer!eraseFromMaps,
         Nobody, Nowhere, FreshServer!Nobody, FreshServer!Nowhere
<1>2. \A sp, p, s : assignSeat(sp, p, s) = FreshServer!assignSeat(sp, p, s)
  BY <1>1, FreshServerNumbers DEF assignSeat, FreshServer!assignSeat
<1>3. \A sp, p, q : swapPlayers(sp, p, q) = FreshServer!swapPlayers(sp, p, q)
  BY DEF swapPlayers, FreshServer!swapPlayers
<1> QED  BY <1>1, <1>2, <1>3

\* The operations of the queue.
LEMMA FreshServerQueue ==
  /\ \A q : Ids(q) = FreshServer!Ids(q)
  /\ \A q, p : eraseId(q, p) = FreshServer!eraseId(q, p)
  /\ \A q, old, new : replaceId(q, old, new) = FreshServer!replaceId(q, old, new)
<1>1. \A q : Ids(q) = FreshServer!Ids(q)
  BY DEF Ids, FreshServer!Ids
<1>2. \A q, p : eraseId(q, p) = FreshServer!eraseId(q, p)
  <2>1. \A q, p, i : Occurrences(q, p, i) = FreshServer!Occurrences(q, p, i)
    BY FreshServerCardinality DEF Occurrences, FreshServer!Occurrences
  <2>2. \A q, p, k : KeptAt(q, p, k) = FreshServer!KeptAt(q, p, k)
    BY <2>1 DEF KeptAt, FreshServer!KeptAt
  <2> QED  BY <2>1, <2>2 DEF eraseId, FreshServer!eraseId
<1>3. \A q, old, new : replaceId(q, old, new) = FreshServer!replaceId(q, old, new)
  BY DEF replaceId, FreshServer!replaceId
<1> QED  BY <1>1, <1>2, <1>3

\* The operations of the lobby.
LEMMA FreshServerOperations ==
  /\ initialLobby = FreshServer!initialLobby
  /\ \A L : canJoin(L) <=> FreshServer!canJoin(L)
  /\ \A L, p : getSeatPositionById(L, p) = FreshServer!getSeatPositionById(L, p)
  /\ \A L, s : isSeatPositionOccupied(L, s) <=> FreshServer!isSeatPositionOccupied(L, s)
  /\ \A L, p, s : place(L, p, s) = FreshServer!place(L, p, s)
  /\ \A L, p : playerConnected(L, p) = FreshServer!playerConnected(L, p)
  /\ \A L, p, s : changePlayerSeatPosition(L, p, s) = FreshServer!changePlayerSeatPosition(L, p, s)
  /\ \A L, p, q : swapPlayersSeatPositions(L, p, q) = FreshServer!swapPlayersSeatPositions(L, p, q)
  /\ \A L, v : playersPerGameChanged(L, v) = FreshServer!playersPerGameChanged(L, v)
  /\ \A L, b : lobbyOpenChanged(L, b) = FreshServer!lobbyOpenChanged(L, b)
<1>1. initialLobby = FreshServer!initialLobby
  BY DEF initialLobby, emptySeats, Seat, MaxPlayersPerGame, MinPlayersPerGame, Nobody,
         Nowhere, QueueSeat, FreshServer!initialLobby, FreshServer!emptySeats, FreshServer!Seat,
         FreshServer!MaxPlayersPerGame, FreshServer!MinPlayersPerGame, FreshServer!Nobody,
         FreshServer!Nowhere, FreshServer!QueueSeat
<1>2. \A L : canJoin(L) <=> FreshServer!canJoin(L)
  BY FreshServerCardinality DEF canJoin, FreshServer!canJoin
<1>3. \A L, p : getSeatPositionById(L, p) = FreshServer!getSeatPositionById(L, p)
  BY FreshServerNumbers, FreshServerQueue DEF getSeatPositionById, FreshServer!getSeatPositionById
<1>4. \A L, s : isSeatPositionOccupied(L, s) <=> FreshServer!isSeatPositionOccupied(L, s)
  BY FreshServerNumbers DEF isSeatPositionOccupied, FreshServer!isSeatPositionOccupied
<1>5. \A L, p, s : place(L, p, s) = FreshServer!place(L, p, s)
  BY FreshServerNumbers, FreshServerSeats DEF place, FreshServer!place
<1>6. \A L, p : playerConnected(L, p) = FreshServer!playerConnected(L, p)
  BY <1>4, <1>5, FreshServerNumbers
     DEF playerConnected, FreshServer!playerConnected, isHost, FreshServer!isHost, addPlayer, FreshServer!addPlayer
<1>7. \A L, p, s : changePlayerSeatPosition(L, p, s) = FreshServer!changePlayerSeatPosition(L, p, s)
  BY <1>3, <1>5, FreshServerNumbers, FreshServerQueue, FreshServerSeats
     DEF changePlayerSeatPosition, FreshServer!changePlayerSeatPosition
<1>8. \A L, p, q : swapPlayersSeatPositions(L, p, q) = FreshServer!swapPlayersSeatPositions(L, p, q)
  <2> SUFFICES ASSUME NEW L, NEW p, NEW q
               PROVE  swapPlayersSeatPositions(L, p, q) = FreshServer!swapPlayersSeatPositions(L, p, q)
    OBVIOUS
  <2> DEFINE sp == getSeatPositionById(L, p)
             sq == getSeatPositionById(L, q)
             one == replaceId(L.queue, p, q)
             other == replaceId(L.queue, q, p)
             there == assignSeat(L.seats, p, sq)
             same == assignSeat(L.seats, q, sq)
             swapped == swapPlayers(L.seats, p, q)
  <2>1. swapPlayersSeatPositions(L, p, q)
          = IF sp = QueueSeat THEN [L EXCEPT !.queue = one, !.seats = there]
            ELSE IF sq = QueueSeat THEN [L EXCEPT !.queue = other, !.seats = same]
            ELSE [L EXCEPT !.seats = swapped]
    BY DEF swapPlayersSeatPositions
  <2>2. /\ sp = FreshServer!getSeatPositionById(L, p) /\ sq = FreshServer!getSeatPositionById(L, q)
        /\ one = FreshServer!replaceId(L.queue, p, q) /\ other = FreshServer!replaceId(L.queue, q, p)
        /\ swapped = FreshServer!swapPlayers(L.seats, p, q) /\ QueueSeat = FreshServer!QueueSeat
    BY <1>3, FreshServerNumbers, FreshServerQueue, FreshServerSeats
  <2>3. there = FreshServer!assignSeat(L.seats, p, sq) /\ same = FreshServer!assignSeat(L.seats, q, sq)
    BY FreshServerSeats
  <2> HIDE DEF sp, sq, one, other, there, same, swapped
  <2>4. FreshServer!swapPlayersSeatPositions(L, p, q)
          = IF sp = QueueSeat THEN [L EXCEPT !.queue = one, !.seats = there]
            ELSE IF sq = QueueSeat THEN [L EXCEPT !.queue = other, !.seats = same]
            ELSE [L EXCEPT !.seats = swapped]
    BY <2>2, <2>3 DEF FreshServer!swapPlayersSeatPositions
  <2> QED  BY <2>1, <2>4
<1>9. \A L, v : playersPerGameChanged(L, v) = FreshServer!playersPerGameChanged(L, v)
  <2>1. \A L, s : clearSeat(L, s) = FreshServer!clearSeat(L, s)
    BY <1>7, FreshServerNumbers DEF clearSeat, FreshServer!clearSeat
  <2>2. \A L, v : clearDroppedSeats(L, v) = FreshServer!clearDroppedSeats(L, v)
    BY <2>1 DEF clearDroppedSeats, FreshServer!clearDroppedSeats
  <2> QED  BY <2>2 DEF playersPerGameChanged, FreshServer!playersPerGameChanged
<1>10. \A L, b : lobbyOpenChanged(L, b) = FreshServer!lobbyOpenChanged(L, b)
  BY DEF lobbyOpenChanged, FreshServer!lobbyOpenChanged
<1> QED  BY <1>1, <1>2, <1>3, <1>4, <1>5, <1>6, <1>7, <1>8, <1>9, <1>10

\* What LobbyLogic accepts.
LEMMA FreshServerChecks ==
  /\ \A p : isHost(p) <=> FreshServer!isHost(p)
  /\ \A L, p, s, i : SeatChangeAccepted(L, p, s, i) <=> FreshServer!SeatChangeAccepted(L, p, s, i)
  /\ \A L, p, q, i : SwapAccepted(L, p, q, i) <=> FreshServer!SwapAccepted(L, p, q, i)
  /\ \A L, v, i : PlayersPerGameAccepted(L, v, i) <=> FreshServer!PlayersPerGameAccepted(L, v, i)
  /\ \A L, b, i : LobbyOpenAccepted(L, b, i) <=> FreshServer!LobbyOpenAccepted(L, b, i)
<1>1. \A p : isHost(p) <=> FreshServer!isHost(p)
  BY FreshServerNumbers DEF isHost, FreshServer!isHost
<1>2. \A L, p, s, i : SeatChangeAccepted(L, p, s, i) <=> FreshServer!SeatChangeAccepted(L, p, s, i)
  BY <1>1, FreshServerNumbers, FreshServerOperations
     DEF SeatChangeAccepted, FreshServer!SeatChangeAccepted, isSeatPositionCorrect,
         FreshServer!isSeatPositionCorrect
<1>3. \A L, p, q, i : SwapAccepted(L, p, q, i) <=> FreshServer!SwapAccepted(L, p, q, i)
  BY <1>1, FreshServerNumbers, FreshServerOperations DEF SwapAccepted, FreshServer!SwapAccepted
<1>4. \A L, v, i : PlayersPerGameAccepted(L, v, i) <=> FreshServer!PlayersPerGameAccepted(L, v, i)
  BY <1>1, FreshServerNumbers DEF PlayersPerGameAccepted, FreshServer!PlayersPerGameAccepted
<1>5. \A L, b, i : LobbyOpenAccepted(L, b, i) <=> FreshServer!LobbyOpenAccepted(L, b, i)
  BY DEF LobbyOpenAccepted, FreshServer!LobbyOpenAccepted
<1> QED  BY <1>1, <1>2, <1>3, <1>4, <1>5

(***************************************************************************)
(* A request is handled while nothing overlapped: it was made on the lobby *)
(* the server has, so it is one that LobbyServer calls fresh.              *)
(***************************************************************************)
LEMMA StepIsFresh == Inv /\ AgreedInv /\ [Next]_vars => [overlap' \/ FreshServer!Next]_lobby
<1> SUFFICES ASSUME Inv, AgreedInv, [Next]_vars, ~overlap'
             PROVE  lobby' = lobby \/ FreshServer!Next
  OBVIOUS
<1>1. Agreed
  BY OverlapStays DEF AgreedInv, Inv
<1>2. ASSUME NEW c \in Player, Hello(c)
      PROVE  lobby' = lobby \/ FreshServer!Next
  <2>1. CASE ~canJoin(lobby)
    BY <1>2, <2>1 DEF Hello
  <2>2. CASE canJoin(lobby)
    <3>1. lobby' = playerConnected(lobby, c) /\ c = hellos
      BY <1>2, <2>2 DEF Hello
    <3>2. c \notin lobby.profiles
      BY <3>1 DEF Inv, HostFirst, TypeInv
    <3>3. isHost(c) \/ lobby.hostId # Nobody
      BY <3>1 DEF Inv, HostFirst, isHost, HostProfile, Nobody
    <3>4. FreshServer!PlayerConnect(c)
      BY <2>2, <3>1, <3>2, <3>3, FreshServerChecks, FreshServerNumbers, FreshServerOperations
         DEF FreshServer!PlayerConnect
    <3> QED  BY <3>4 DEF FreshServer!Next
  <2> QED  BY <2>1, <2>2
<1>3. ASSUME NEW c \in Player, AcceptRequest(c)
      PROVE  FreshServer!Next
  <2> DEFINE m == Head(toServer[c])
  <2>1. /\ Arrived(c) /\ isRequest(m) /\ Accepted(lobby, m, c) /\ lobby' = applied(lobby, m)
    BY <1>3 DEF AcceptRequest
  <2>2. m \in Packet /\ c \in lobby.profiles /\ MadeOn(lobby, m, c)
    BY <1>1, <2>1, ArrivedFacts, ArrivedInStep DEF Inv
  <2>3. Good(lobby)
    BY <1>1 DEF Agreed
  <2> HIDE DEF m
  <2>4. CASE m.type = "SeatPositionsChange"
    <3>1. m.id \in Player /\ m.seat \in Seat
      BY <2>2, <2>4, PacketFields
    <3>2. m.seat < lobby.ppg
      BY <2>2, <2>3, <2>4, <3>1, SeatChangeMadeOn DEF MadeOn
    <3>3. SeatChangeAccepted(lobby, m.id, m.seat, c)
      BY <2>1, <2>4 DEF Accepted
    <3>4. lobby' = changePlayerSeatPosition(lobby, m.id, m.seat)
      BY <2>1, <2>4 DEF applied
    <3>5. FreshServer!SeatPositionsChange(c, m.id, m.seat)
      BY <3>2, <3>3, <3>4, FreshServerChecks, FreshServerOperations
         DEF FreshServer!SeatPositionsChange
    <3>6. m.seat \in FreshServer!Seat
      BY <3>1, FreshServerNumbers
    <3> QED  BY <2>2, <3>1, <3>5, <3>6 DEF FreshServer!Next, FreshServer!RequestOf
  <2>5. CASE m.type = "SeatPositionsSwap"
    <3>1. m.first \in Player /\ m.second \in Player
      BY <2>2, <2>5, PacketFields
    <3>2. getSeatPositionById(lobby, m.second) # QueueSeat
      BY <2>2, <2>3, <2>5, <3>1, SwapMadeOn DEF MadeOn
    <3>3. SwapAccepted(lobby, m.first, m.second, c)
      BY <2>1, <2>5 DEF Accepted
    <3>4. lobby' = swapPlayersSeatPositions(lobby, m.first, m.second)
      BY <2>1, <2>5 DEF applied
    <3>5. FreshServer!SeatPositionsSwap(c, m.first, m.second)
      BY <3>2, <3>3, <3>4, FreshServerChecks, FreshServerNumbers, FreshServerOperations
         DEF FreshServer!SeatPositionsSwap
    <3> QED  BY <2>2, <3>1, <3>5 DEF FreshServer!Next, FreshServer!RequestOf
  <2>6. CASE m.type = "PlayersPerGameChange"
    <3>1. m.value \in FreshServer!MinPlayersPerGame..FreshServer!MaxPlayersPerGame
      BY <2>2, <2>6, PacketFields, FreshServerNumbers
    <3>2. FreshServer!PlayersPerGameChange(c, m.value)
      BY <2>1, <2>6, FreshServerChecks, FreshServerOperations
         DEF FreshServer!PlayersPerGameChange, Accepted, applied
    <3> QED  BY <2>2, <3>1, <3>2 DEF FreshServer!Next, FreshServer!RequestOf
  <2>7. CASE m.type = "LobbyOpenStateChange"
    <3>1. m.isOpen \in BOOLEAN
      BY <2>2, <2>7, PacketFields
    <3>2. FreshServer!LobbyOpenStateChange(c, m.isOpen)
      BY <2>1, <2>7, FreshServerChecks, FreshServerOperations
         DEF FreshServer!LobbyOpenStateChange, Accepted, applied
    <3> QED  BY <2>2, <3>1, <3>2 DEF FreshServer!Next, FreshServer!RequestOf
  <2> QED  BY <2>1, <2>4, <2>5, <2>6, <2>7 DEF isRequest, RequestTypes
<1>4. ASSUME NEW c \in Player,
             RejectRequest(c) \/ onSnapshotAck(c) \/ DropUpdateRequest(c) \/ ClientStep(c)
      PROVE  lobby' = lobby
  BY <1>4 DEF RejectRequest, onSnapshotAck, DropUpdateRequest, ClientStep, onWelcome,
              onSnapshotBegin, onSnapshotEnd, onNotify, DropNotify, Received, serverVars
<1>5. ASSUME NEW c \in Player, UserStep(c)
      PROVE  lobby' = lobby
  BY <1>5 DEF UserStep, AskSeatChange, AskSwap, AskPlayersPerGame, AskLobbyOpen, Ask, serverVars
<1>6. ASSUME UNCHANGED vars  PROVE lobby' = lobby
  BY <1>6 DEF vars, serverVars
<1> QED  BY <1>2, <1>3, <1>4, <1>5, <1>6 DEF Next, ServerStep

(***************************************************************************)
(* The server of LobbySync is LobbyServer with any requests, and as long   *)
(* as none overlapped it is LobbyServer with fresh ones: one place per     *)
(* player, nobody beyond the table, a queue that has room.                 *)
(***************************************************************************)
THEOREM ServerImplementsLobbyServer == Spec => ServerIsLobbyServer
<1>1. Spec => [][overlap' \/ FreshServer!Next]_lobby
  BY AlwaysAgreed, StepIsFresh, PTL DEF Spec
<1> QED  BY <1>1, ServerAcceptsAnyRequests, PTL DEF ServerIsLobbyServer

-----------------------------------------------------------------------------
(***************************************************************************)
(* The screen.  First the operators of LobbyLayer on a layer that fits,    *)
(* for any copy of the lobby; then the invariant of LobbyScreen, kept by   *)
(* each action of a frame.                                                 *)
(***************************************************************************)

(***************************************************************************)
(* One control under n locks.                                              *)
(***************************************************************************)
ControlFits(c, n) ==
  /\ c \in Control
  /\ c.hover = n /\ c.press = n /\ c.drag = n /\ c.click = n + 1
  /\ c.disabled => n > 0

\* What setHovered, setPressed and setDragged change: one field at most.
LEMMA ControlSet ==
  ASSUME NEW c \in Control, NEW v \in BOOLEAN
  PROVE  /\ setHovered(c, v) \in Control
         /\ setHovered(c, v) = [c EXCEPT !.hovered = setHovered(c, v).hovered]
         /\ setPressed(c, v) \in Control
         /\ setPressed(c, v) = [c EXCEPT !.pressed = setPressed(c, v).pressed]
         /\ setDragged(c, v) \in Control
         /\ setDragged(c, v) = [c EXCEPT !.dragged = setDragged(c, v).dragged]
BY DEF Control, setHovered, setPressed, setDragged

\* What shows and moves a control leaves its locks, and whether it is dragged.
LEMMA ControlShown ==
  ASSUME NEW c \in Control, NEW v \in BOOLEAN, NEW n \in Nat, ControlFits(c, n)
  PROVE  /\ ControlFits(setHovered(c, v), n) /\ setHovered(c, v).dragged = c.dragged
         /\ ControlFits(setPressed(c, v), n) /\ setPressed(c, v).dragged = c.dragged
         /\ ControlFits(setDragged(c, v), n)
         /\ n = 0 => setDragged(c, v).dragged = v
BY DEF Control, setHovered, setPressed, setDragged, ControlFits

\* One lock more, and it is dragged no more than it was.
LEMMA ControlBlocked ==
  ASSUME NEW c, NEW n \in Nat, ControlFits(c, n)
  PROVE  /\ ControlFits(blockInteraction(c), n + 1)
         /\ ~c.dragged => ~blockInteraction(c).dragged
<1>1. PICK h : h = blockHover(c)
  OBVIOUS
<1>2. /\ h \in Control /\ h.hover = n + 1 /\ h.press = n /\ h.drag = n /\ h.click = n + 1
      /\ h.disabled = c.disabled /\ h.dragged = c.dragged
  BY <1>1 DEF Control, ControlFits, blockHover, setHovered
<1>3. PICK q : q = blockPress(h)
  OBVIOUS
<1>4. /\ q \in Control /\ q.hover = n + 1 /\ q.press = n + 1 /\ q.drag = n /\ q.click = n + 1
      /\ q.disabled = c.disabled /\ q.dragged = c.dragged
  BY <1>2, <1>3 DEF Control, blockPress, setPressed
<1>5. PICK k : k = blockClick(q)
  OBVIOUS
<1>6. /\ k \in Control /\ k.hover = n + 1 /\ k.press = n + 1 /\ k.drag = n /\ k.click = n + 2
      /\ k.disabled = c.disabled /\ k.dragged = c.dragged
  BY <1>4, <1>5 DEF Control, blockClick
<1>7. PICK d : d = blockDrag(k)
  OBVIOUS
<1>8. /\ d \in Control /\ d.hover = n + 1 /\ d.press = n + 1 /\ d.drag = n + 1 /\ d.click = n + 2
      /\ ~c.dragged => ~d.dragged
  BY <1>6, <1>7 DEF Control, blockDrag, setDragged
<1>9. blockInteraction(c) = [d EXCEPT !.disabled = TRUE]
  BY <1>1, <1>3, <1>5, <1>7 DEF blockInteraction
<1>10. [d EXCEPT !.disabled = TRUE] \in Control
  BY <1>8 DEF Control
<1>11. /\ [d EXCEPT !.disabled = TRUE].hover = n + 1 /\ [d EXCEPT !.disabled = TRUE].press = n + 1
       /\ [d EXCEPT !.disabled = TRUE].drag = n + 1 /\ [d EXCEPT !.disabled = TRUE].click = n + 2
       /\ [d EXCEPT !.disabled = TRUE].dragged = d.dragged
  BY <1>8 DEF Control
<1> QED
  BY <1>8, <1>9, <1>10, <1>11 DEF ControlFits

\* One lock less; the others stay.
LEMMA ControlUnblocked ==
  ASSUME NEW c, NEW n \in Nat, n > 0, ControlFits(c, n)
  PROVE  /\ ControlFits(unblockInteraction(c), n - 1)
         /\ unblockInteraction(c).dragged = c.dragged
<1> DEFINE u == unblockInteraction(c)
<1>1. c \in Control /\ c.hover = n /\ c.press = n /\ c.drag = n /\ c.click = n + 1
  BY DEF ControlFits
<1>2. /\ unlocked(n) = n - 1 /\ unlocked(n + 1) = n /\ n - 1 \in Nat
  BY DEF unlocked
<1>3. u = [c EXCEPT !.hover = n - 1, !.press = n - 1, !.click = n, !.drag = n - 1, !.disabled = FALSE]
  BY <1>1, <1>2 DEF unblockInteraction
<1>4. u \in Control /\ u.hover = n - 1 /\ u.press = n - 1 /\ u.drag = n - 1 /\ u.click = n
      /\ ~u.disabled /\ u.dragged = c.dragged
  BY <1>1, <1>2, <1>3 DEF Control
<1> QED
  BY <1>4 DEF ControlFits

-----------------------------------------------------------------------------
\* A sequence, whatever its elements are: nobody says what an animation carries.
IsSequence(s) == \E S : s \in Seq(S)

\* A record with the fields of a layer.
isLayer(L) ==
  L = [views |-> L.views, control |-> L.control, shown |-> L.shown, showsOpen |-> L.showsOpen,
       captured |-> L.captured, outcome |-> L.outcome]

\* The view of a player.
isShown(w) == w = [pos |-> w.pos, animations |-> w.animations] /\ IsSequence(w.animations)

\* The lock of the views of others.
foreign(p) == IF isForeign(p) THEN 1 ELSE 0

\* The view of one player, with its control.
ViewFits(L, p) ==
  /\ isShown(L.views[p])
  /\ ControlFits(L.control[p], Len(L.views[p].animations) + foreign(p))

\* Types, and every view with as many locks as it has reasons to be locked.
LayerFits(L) ==
  /\ isLayer(L)
  /\ viewed(L) \subseteq Player
  /\ L.control \in [viewed(L) \cup {LockButton, Arrows} -> Control]
  /\ \A p \in viewed(L) : ViewFits(L, p)
  /\ L.shown \in MinPlayersPerGame..MaxPlayersPerGame
  /\ L.captured \in viewed(L) \cup {Nothing}

\* Flags that nobody initialises are false.
CleanMemory == TRUE \notin Garbage

\* What is dragged is captured and not animated.  A flag that was true from the start says otherwise.
DragFits(L) ==
  \A p \in viewed(L) : /\ L.control[p].dragged <=> L.captured = p
                       /\ L.control[p].dragged => L.views[p].animations = << >>

Fits(L) == LayerFits(L) /\ (CleanMemory => DragFits(L))

\* Nothing of L but the views of players and their controls differs in M.
OnlyViews(L, M) ==
  /\ viewed(M) = viewed(L) /\ M.shown = L.shown /\ M.showsOpen = L.showsOpen
  /\ M.captured = L.captured
  /\ M.control[LockButton] = L.control[LockButton] /\ M.control[Arrows] = L.control[Arrows]

\* What is under the mouse is a player, a control, or neither.
LEMMA Elements ==
  /\ LockButton \notin Player /\ Arrows \notin Player /\ Floor \notin Player /\ Nothing \notin Player
  /\ LockButton # Arrows /\ Floor \notin {LockButton, Arrows} /\ Nothing \notin {LockButton, Arrows, Floor}
BY PlayerAssumption DEF LockButton, Arrows, Floor, Nothing

\* One more element of a sequence, whatever its elements are.
LEMMA AppendSequence ==
  ASSUME NEW s, IsSequence(s), NEW x
  PROVE  /\ Len(s) \in Nat /\ IsSequence(Append(s, x)) /\ Len(Append(s, x)) = Len(s) + 1
         /\ s = << >> <=> Len(s) = 0
         /\ DOMAIN s = 1..Len(s)
<1>1. PICK S : s \in Seq(S)
  BY DEF IsSequence
<1>2. s \in Seq(S \cup {x})
  BY <1>1
<1>3. Append(s, x) \in Seq(S \cup {x}) /\ Len(Append(s, x)) = Len(s) + 1 /\ Len(s) \in Nat
  BY <1>2
<1>4. s = << >> <=> Len(s) = 0
  BY <1>1
<1> QED
  BY <1>1, <1>3, <1>4 DEF IsSequence

\* One view changes, with its control.
LEMMA ViewChanged ==
  ASSUME NEW L, Fits(L), NEW p \in viewed(L), NEW c \in Control, NEW w, isShown(w),
         ControlFits(c, Len(w.animations) + foreign(p)),
         CleanMemory => (c.dragged <=> L.captured = p) /\ (c.dragged => w.animations = << >>)
  PROVE  LET M == [L EXCEPT !.control[p] = c, !.views[p] = w]
         IN  Fits(M) /\ OnlyViews(L, M)
<1> DEFINE M == [L EXCEPT !.control[p] = c, !.views[p] = w]
<1>1. PICK v, k, s, o, d, e : L = [views |-> v, control |-> k, shown |-> s, showsOpen |-> o,
                                    captured |-> d, outcome |-> e]
  BY DEF Fits, LayerFits, isLayer
<1>2. /\ L.views = v /\ L.control = k /\ L.shown = s /\ L.showsOpen = o /\ L.captured = d /\ L.outcome = e
  BY <1>1
<1>a. M = [views |-> [v EXCEPT ![p] = w], control |-> [k EXCEPT ![p] = c], shown |-> s,
           showsOpen |-> o, captured |-> d, outcome |-> e]
  <2> DEFINE K == [L EXCEPT !.control = [L.control EXCEPT ![p] = c]]
  <2>1. M = [K EXCEPT !.views = [L.views EXCEPT ![p] = w]]
    OBVIOUS
  <2>2. K = [views |-> v, control |-> [k EXCEPT ![p] = c], shown |-> s,
             showsOpen |-> o, captured |-> d, outcome |-> e]
    BY <1>1, <1>2
  <2> HIDE DEF K, M
  <2> QED
    BY <1>2, <2>1, <2>2
<1> HIDE DEF M
<1>b. /\ M.views = [L.views EXCEPT ![p] = w] /\ M.control = [L.control EXCEPT ![p] = c]
      /\ M.shown = L.shown /\ M.showsOpen = L.showsOpen /\ M.captured = L.captured
      /\ M.outcome = L.outcome
  BY <1>2, <1>a
<1>c. isLayer(M)
  BY <1>a DEF isLayer
<1>3. /\ p \in Player /\ p \notin {LockButton, Arrows}
      /\ L.control \in [viewed(L) \cup {LockButton, Arrows} -> Control]
  BY Elements DEF Fits, LayerFits
<1>4. /\ viewed(M) = viewed(L)
      /\ M.control \in [viewed(M) \cup {LockButton, Arrows} -> Control]
      /\ M.control[LockButton] = L.control[LockButton] /\ M.control[Arrows] = L.control[Arrows]
      /\ M.views[p] = w /\ M.control[p] = c
      /\ \A q \in viewed(L) \ {p} : M.views[q] = L.views[q] /\ M.control[q] = L.control[q]
  BY <1>b, <1>3 DEF viewed
<1>5. OnlyViews(L, M)
  BY <1>b, <1>4 DEF OnlyViews
<1>6. \A q \in viewed(M) : ViewFits(M, q)
  BY <1>4 DEF Fits, LayerFits, ViewFits
<1>7. LayerFits(M)
  BY <1>b, <1>c, <1>4, <1>6 DEF Fits, LayerFits
<1>8. ASSUME CleanMemory  PROVE DragFits(M)
  BY <1>b, <1>4, <1>8 DEF Fits, DragFits
<1> QED
  BY <1>5, <1>7, <1>8 DEF Fits, M

\* A program that ends leaves the layer as it was.
LEMMA AbortFits ==
  ASSUME NEW L, Fits(L), NEW why
  PROVE  Fits(abort(L, why)) /\ OnlyViews(L, abort(L, why))
<1> DEFINE M == abort(L, why)
<1>1. /\ M.views = L.views /\ M.control = L.control /\ M.shown = L.shown /\ M.showsOpen = L.showsOpen
      /\ M.captured = L.captured /\ isLayer(M)
  BY DEF Fits, LayerFits, isLayer, abort
<1> HIDE DEF M
<1>2. viewed(M) = viewed(L) /\ \A p : ViewFits(L, p) <=> ViewFits(M, p)
  BY <1>1 DEF viewed, ViewFits
<1> QED
  BY <1>1, <1>2 DEF M, Fits, LayerFits, DragFits, OnlyViews

\* applyMoveAnimationToPlayer adds an animation and a lock for it.
LEMMA StartMoveFits ==
  ASSUME NEW L, Fits(L), NEW p \in viewed(L), NEW spot
  PROVE  Fits(startMove(L, p, spot)) /\ OnlyViews(L, startMove(L, p, spot))
<1>1. CASE ~running(L)
  <2>1. startMove(L, p, spot) = L
    BY <1>1 DEF startMove
  <2> QED  BY <2>1 DEF OnlyViews
<1>2. CASE running(L) /\ L.control[p].dragged
  BY <1>2, AbortFits DEF startMove
<1>3. CASE running(L) /\ ~L.control[p].dragged
  <2> DEFINE c == L.control[p]
             w == L.views[p]
             a == [from |-> L.views[p].pos, to |-> spot, age |-> 0]
             b == blockInteraction(c)
             x == [w EXCEPT !.animations = Append(@, a)]
             n == Len(w.animations) + foreign(p)
  <2>1. isShown(w) /\ ControlFits(c, n) /\ c \in Control
    BY DEF Fits, LayerFits, ViewFits, ControlFits
  <2>2. Len(w.animations) \in Nat /\ IsSequence(Append(w.animations, a))
        /\ Len(Append(w.animations, a)) = Len(w.animations) + 1
    BY <2>1, AppendSequence DEF isShown
  <2>3. x.animations = Append(w.animations, a) /\ isShown(x)
    <3>1. PICK v, m : w = [pos |-> v, animations |-> m]
      BY <2>1 DEF isShown
    <3>2. w.pos = v /\ w.animations = m
      BY <3>1
    <3>3. x = [pos |-> v, animations |-> Append(m, a)]
      <4> HIDE DEF w, a
      <4> QED  BY <3>1, <3>2
    <3>4. x.pos = v /\ x.animations = Append(m, a)
      BY <3>3
    <3> HIDE DEF x, w, a
    <3> QED  BY <2>2, <3>2, <3>3, <3>4 DEF isShown
  <2>4. n \in Nat /\ n + 1 = Len(x.animations) + foreign(p)
    <3>1. foreign(p) \in Nat
      BY DEF foreign
    <3> HIDE DEF x, w, a
    <3> QED  BY <2>2, <2>3, <3>1
  <2>5. ControlFits(b, Len(x.animations) + foreign(p)) /\ ~b.dragged
    <3> HIDE DEF n
    <3> QED  BY <1>3, <2>1, <2>4, ControlBlocked
  <2>6. b \in Control
    BY <2>5 DEF ControlFits
  <2>7. CleanMemory => (b.dragged <=> L.captured = p) /\ (b.dragged => x.animations = << >>)
    BY <1>3, <2>5 DEF Fits, DragFits
  <2>8. startMove(L, p, spot) = [L EXCEPT !.control[p] = b, !.views[p] = x]
    <3>1. startMove(L, p, spot) = [L EXCEPT !.control[p] = blockInteraction(@),
                                           !.views[p].animations = Append(@, a)]
      BY <1>3 DEF startMove
    <3> QED  BY <3>1
  <2> HIDE DEF b, x, a, n, c, w
  <2> DEFINE M == [L EXCEPT !.control[p] = b, !.views[p] = x]
  <2>9. Fits(M) /\ OnlyViews(L, M)
    BY <2>3, <2>5, <2>6, <2>7, ViewChanged
  <2> QED
    BY <2>8, <2>9
<1> QED
  BY <1>1, <1>2, <1>3

\* A view sent home.
LEMMA MoveHomeFits ==
  ASSUME NEW L, Fits(L), NEW p \in viewed(L), NEW V
  PROVE  Fits(moveHome(L, V, p)) /\ OnlyViews(L, moveHome(L, V, p))
BY AbortFits, StartMoveFits DEF moveHome

\* One view of a loop over them.
LEMMA MoveViewFits ==
  ASSUME NEW L, Fits(L), NEW p, NEW V, NEW toSlots
  PROVE  Fits(moveView(L, V, p, toSlots)) /\ OnlyViews(L, moveView(L, V, p, toSlots))
<1>1. OnlyViews(L, L)
  BY DEF OnlyViews
<1>2. CASE ~running(L)
  BY <1>1, <1>2 DEF moveView
<1>3. CASE running(L) /\ p \notin viewed(L)
  BY <1>3, AbortFits DEF moveView
<1>4. CASE running(L) /\ p \in viewed(L) /\ toSlots
  BY <1>1, <1>4, StartMoveFits DEF moveView, moveToSlot
<1>5. CASE running(L) /\ p \in viewed(L) /\ ~toSlots
  BY <1>5, MoveHomeFits DEF moveView
<1> QED
  BY <1>2, <1>3, <1>4, <1>5

\* The loop over the views, one at a time.
LEMMA MoveInTurnSteps ==
  ASSUME NEW L, NEW V, NEW players, Len(players) \in Nat, NEW toSlots
  PROVE  \E f : /\ f[0] = L /\ moveInTurn(L, V, players, toSlots) = f[Len(players)]
                /\ \A i \in 1..Len(players) : f[i] = moveView(f[i - 1], V, players[i], toSlots)
<1> DEFINE n == Len(players)
           next(x, i) == moveView(x, V, players[i], toSlots)
           is(m, g) == g = [i \in 0..m |-> IF i = 0 THEN L ELSE next(g[i - 1], i)]
           e == CHOOSE g : is(n, g)
           bad == {m \in Nat : ~\E g : is(m, g)}
<1>1. moveInTurn(L, V, players, toSlots) = e[n]
  BY DEF moveInTurn
<1>2. n \in Nat
  OBVIOUS
<1>3. \A i \in 1..n : \A x : next(x, i) = moveView(x, V, players[i], toSlots)
  OBVIOUS
<1> HIDE DEF next, n
<1>4. bad = {}
  <2> SUFFICES ASSUME bad # {}
               PROVE  FALSE
    OBVIOUS
  <2>1. PICK k \in bad : \A j \in bad : k <= j
    <3>1. bad \in SUBSET Nat
      OBVIOUS
    <3> HIDE DEF bad
    <3> QED  BY <3>1, SmallestOf
  <2>2. k # 0
    <3>1. is(0, [i \in 0..0 |-> L])
      OBVIOUS
    <3> QED  BY <2>1, <3>1
  <2>3. k - 1 \in Nat /\ k - 1 \notin bad
    <3>1. k \in Nat
      BY <2>1
    <3> HIDE DEF bad
    <3> QED  BY <2>1, <2>2, <3>1
  <2>4. PICK g : is(k - 1, g)
    BY <2>3
  <2> DEFINE h == [i \in 0..k |-> IF i = k THEN next(g[k - 1], k) ELSE g[i]]
  <2>5. \A i \in 0..k : h[i] = IF i = 0 THEN L ELSE next(h[i - 1], i)
    <3> TAKE i \in 0..k
    <3>1. k \in Nat /\ k # 0
      BY <2>1, <2>2
    <3>2. CASE i = k
      BY <3>1, <3>2
    <3>3. CASE i # k
      <4>1. i \in 0..(k - 1) /\ h[i] = g[i] /\ i # 0 => h[i - 1] = g[i - 1]
        BY <3>1, <3>3
      <4> QED  BY <2>4, <3>1, <3>3, <4>1
    <3> QED  BY <3>2, <3>3
  <2>6. is(k, h)
    BY <2>5
  <2> QED  BY <2>1, <2>6
<1>5. is(n, e)
  BY <1>2, <1>4
<1> HIDE DEF e
<1>6. e[0] = L /\ \A i \in 1..n : e[i] = next(e[i - 1], i)
  BY <1>2, <1>5
<1> QED
  BY <1>1, <1>3, <1>6 DEF n

\* The whole loop, whichever players it is over.
LEMMA MoveInTurnFits ==
  ASSUME NEW L, Fits(L), NEW V, NEW players, Len(players) \in Nat, NEW toSlots
  PROVE  Fits(moveInTurn(L, V, players, toSlots)) /\ OnlyViews(L, moveInTurn(L, V, players, toSlots))
<1>1. PICK f : /\ f[0] = L /\ moveInTurn(L, V, players, toSlots) = f[Len(players)]
               /\ \A i \in 1..Len(players) : f[i] = moveView(f[i - 1], V, players[i], toSlots)
  BY MoveInTurnSteps
<1> DEFINE bad == {i \in 0..Len(players) : ~(Fits(f[i]) /\ OnlyViews(L, f[i]))}
<1>2. bad = {}
  <2> SUFFICES ASSUME bad # {}
               PROVE  FALSE
    OBVIOUS
  <2>1. PICK k \in bad : \A j \in bad : k <= j
    <3>1. bad \in SUBSET Nat
      OBVIOUS
    <3> HIDE DEF bad
    <3> QED  BY <3>1, SmallestOf
  <2>2. k # 0
    BY <1>1, <2>1 DEF OnlyViews
  <2>3. k \in 1..Len(players) /\ k - 1 \in 0..Len(players) /\ ~(k <= k - 1)
    BY <2>1, <2>2
  <2>4. Fits(f[k - 1]) /\ OnlyViews(L, f[k - 1])
    BY <2>1, <2>3
  <2>5. Fits(f[k]) /\ OnlyViews(f[k - 1], f[k])
    BY <1>1, <2>3, <2>4, MoveViewFits
  <2>6. OnlyViews(L, f[k])
    BY <2>4, <2>5 DEF OnlyViews
  <2> QED  BY <2>1, <2>5, <2>6
<1> QED
  BY <1>1, <1>2

-----------------------------------------------------------------------------
(* One field of a layer *)

\* The fields of a layer.
Has(M, v, c, s, o, d) ==
  /\ M.views = v /\ M.control = c /\ M.shown = s /\ M.showsOpen = o /\ M.captured = d
  /\ isLayer(M)

\* One or two fields of a layer are replaced, the others are kept.
LEMMA Replaced ==
  ASSUME NEW L, isLayer(L), NEW k, NEW x
  PROVE  /\ Has([L EXCEPT !.control = k, !.showsOpen = x], L.views, k, L.shown, x, L.captured)
         /\ Has([L EXCEPT !.control = k, !.captured = x], L.views, k, L.shown, L.showsOpen, x)
         /\ Has([L EXCEPT !.captured = x, !.control = k], L.views, k, L.shown, L.showsOpen, x)
         /\ Has([L EXCEPT !.views = x, !.control = k], x, k, L.shown, L.showsOpen, L.captured)
         /\ Has([L EXCEPT !.shown = x], L.views, L.control, x, L.showsOpen, L.captured)
         /\ Has([L EXCEPT !.showsOpen = x], L.views, L.control, L.shown, x, L.captured)
<1>1. PICK v, c, s, o, d, e : L = [views |-> v, control |-> c, shown |-> s, showsOpen |-> o,
                                    captured |-> d, outcome |-> e]
  BY DEF isLayer
<1>2. /\ L.views = v /\ L.control = c /\ L.shown = s /\ L.showsOpen = o /\ L.captured = d /\ L.outcome = e
  BY <1>1
<1>3. ASSUME NEW v2, NEW c2, NEW s2, NEW o2, NEW d2, NEW e2, NEW M,
             M = [views |-> v2, control |-> c2, shown |-> s2, showsOpen |-> o2,
                  captured |-> d2, outcome |-> e2]
      PROVE  Has(M, v2, c2, s2, o2, d2)
  <2>1. M.views = v2 /\ M.control = c2 /\ M.shown = s2 /\ M.showsOpen = o2 /\ M.captured = d2
        /\ M.outcome = e2
    BY <1>3
  <2> QED  BY <1>3, <2>1 DEF isLayer, Has
<1>4. ASSUME NEW R
      PROVE  /\ [[L EXCEPT !.control = k] EXCEPT !.showsOpen = x] = R
                  => [L EXCEPT !.control = k, !.showsOpen = x] = R
             /\ [[L EXCEPT !.control = k] EXCEPT !.captured = x] = R
                  => [L EXCEPT !.control = k, !.captured = x] = R
             /\ [[L EXCEPT !.captured = x] EXCEPT !.control = k] = R
                  => [L EXCEPT !.captured = x, !.control = k] = R
             /\ [[L EXCEPT !.views = x] EXCEPT !.control = k] = R
                  => [L EXCEPT !.views = x, !.control = k] = R
  OBVIOUS
<1> DEFINE K == [views |-> v, control |-> k, shown |-> s, showsOpen |-> o, captured |-> d, outcome |-> e]
           W == [views |-> x, control |-> c, shown |-> s, showsOpen |-> o, captured |-> d, outcome |-> e]
           D == [views |-> v, control |-> c, shown |-> s, showsOpen |-> o, captured |-> x, outcome |-> e]
<1>5. [L EXCEPT !.control = k] = K /\ [L EXCEPT !.views = x] = W /\ [L EXCEPT !.captured = x] = D
  BY <1>1
<1>6. /\ [K EXCEPT !.showsOpen = x]
           = [views |-> v, control |-> k, shown |-> s, showsOpen |-> x, captured |-> d, outcome |-> e]
      /\ [K EXCEPT !.captured = x]
           = [views |-> v, control |-> k, shown |-> s, showsOpen |-> o, captured |-> x, outcome |-> e]
      /\ [D EXCEPT !.control = k]
           = [views |-> v, control |-> k, shown |-> s, showsOpen |-> o, captured |-> x, outcome |-> e]
      /\ [W EXCEPT !.control = k]
           = [views |-> x, control |-> k, shown |-> s, showsOpen |-> o, captured |-> d, outcome |-> e]
  OBVIOUS
<1>7. [L EXCEPT !.shown = x]
        = [views |-> v, control |-> c, shown |-> x, showsOpen |-> o, captured |-> d, outcome |-> e]
  BY <1>1
<1>8. [L EXCEPT !.showsOpen = x]
        = [views |-> v, control |-> c, shown |-> s, showsOpen |-> x, captured |-> d, outcome |-> e]
  BY <1>1
<1> HIDE DEF K, W, D
<1>9. /\ [L EXCEPT !.control = k, !.showsOpen = x]
           = [views |-> v, control |-> k, shown |-> s, showsOpen |-> x, captured |-> d, outcome |-> e]
      /\ [L EXCEPT !.control = k, !.captured = x]
           = [views |-> v, control |-> k, shown |-> s, showsOpen |-> o, captured |-> x, outcome |-> e]
      /\ [L EXCEPT !.captured = x, !.control = k]
           = [views |-> v, control |-> k, shown |-> s, showsOpen |-> o, captured |-> x, outcome |-> e]
      /\ [L EXCEPT !.views = x, !.control = k]
           = [views |-> x, control |-> k, shown |-> s, showsOpen |-> o, captured |-> d, outcome |-> e]
  BY <1>4, <1>5, <1>6
<1> QED
  BY <1>2, <1>3, <1>7, <1>8, <1>9

\* c and d differ in whether the mouse is over them or presses them.
SameBut(c, d) ==
  /\ d \in Control /\ d.hover = c.hover /\ d.press = c.press /\ d.drag = c.drag /\ d.click = c.click
  /\ d.disabled = c.disabled /\ d.dragged = c.dragged

ElementsOf(L) == viewed(L) \cup {LockButton, Arrows}

\* Hovering and pressing a control change how it shows, and no lock.
LEMMA SameButShown ==
  ASSUME NEW c \in Control, NEW v \in BOOLEAN
  PROVE  SameBut(c, setHovered(c, v)) /\ SameBut(c, setPressed(c, v)) /\ SameBut(c, c)
BY DEF SameBut, setHovered, setPressed, Control

\* A layer with one control shown another way still fits.
LEMMA SameFits ==
  ASSUME NEW L, Fits(L), NEW M, isLayer(M), M.views = L.views, M.shown = L.shown,
         M.captured = L.captured, NEW e \in ElementsOf(L), NEW d, SameBut(L.control[e], d),
         M.control = [L.control EXCEPT ![e] = d]
  PROVE  Fits(M) /\ viewed(M) = viewed(L)
<1>1. viewed(M) = viewed(L)
  BY DEF viewed
<1>2. L.control \in [ElementsOf(L) -> Control]
  BY DEF Fits, LayerFits, ElementsOf
<1>3. M.control \in [ElementsOf(M) -> Control]
  BY <1>1, <1>2 DEF ElementsOf, SameBut
<1>4. \A f \in ElementsOf(L) : SameBut(L.control[f], M.control[f])
  BY <1>2 DEF SameBut
<1>5. \A p \in viewed(L) : ViewFits(M, p)
  <2> TAKE p \in viewed(L)
  <2>1. ViewFits(L, p) /\ SameBut(L.control[p], M.control[p]) /\ M.views[p] = L.views[p]
    BY <1>4 DEF Fits, LayerFits, ElementsOf
  <2> QED  BY <2>1 DEF ViewFits, ControlFits, SameBut
<1>6. LayerFits(M)
  BY <1>1, <1>3, <1>5 DEF Fits, LayerFits, ElementsOf
<1>7. ASSUME CleanMemory  PROVE DragFits(M)
  BY <1>1, <1>4, <1>7 DEF Fits, DragFits, ElementsOf, SameBut
<1> QED
  BY <1>1, <1>6, <1>7 DEF Fits

\* M is L after the mouse went over e, or away from it.
Hovered(L, V, e, v, M) ==
  /\ Fits(M) /\ viewed(M) = viewed(L) /\ M.captured = L.captured
  /\ M.control = [L.control EXCEPT ![e] = setHovered(L.control[e], v)]
  /\ M.showsOpen = IF e # LockButton \/ setHovered(L.control[e], v).hovered = L.control[e].hovered
                   THEN L.showsOpen
                   ELSE IF setHovered(L.control[e], v).hovered THEN ~V.open ELSE V.open

\* The mouse goes over an element, or away from it.
LEMMA HoverFits ==
  ASSUME NEW L, Fits(L), NEW V, NEW e \in ElementsOf(L), NEW v \in BOOLEAN
  PROVE  Hovered(L, V, e, v, hover(L, V, e, v))
<1> DEFINE M == hover(L, V, e, v)
<1> DEFINE c == setHovered(L.control[e], v)
           x == IF e # LockButton \/ c.hovered = L.control[e].hovered THEN L.showsOpen
                ELSE IF c.hovered THEN ~V.open ELSE V.open
           k == [L.control EXCEPT ![e] = c]
<1>1. isLayer(L) /\ L.control[e] \in Control
  BY DEF Fits, LayerFits, ElementsOf
<1>2. M = [L EXCEPT !.control = k, !.showsOpen = x]
  BY DEF hover
<1> HIDE DEF M
<1>3. SameBut(L.control[e], c)
  BY <1>1, SameButShown
<1> HIDE DEF k, x
<1>4. /\ M.views = L.views /\ M.control = k /\ M.shown = L.shown /\ M.showsOpen = x
      /\ M.captured = L.captured /\ isLayer(M)
  <2>1. Has([L EXCEPT !.control = k, !.showsOpen = x], L.views, k, L.shown, x, L.captured)
    BY <1>1, Replaced
  <2> QED  BY <1>2, <2>1 DEF Has
<1>5. Fits(M) /\ viewed(M) = viewed(L)
  BY <1>3, <1>4, SameFits DEF k
<1> QED
  BY <1>4, <1>5 DEF k, x, M, Hovered

\* A control as it is made, with what its memory held.
LEMMA NewControl ==
  ASSUME NEW g \in flags
  PROVE  /\ ControlFits(unblockDrag(blockClick(newControl(g))), 0)
         /\ newControl(g) \in Control
         /\ newControl(g).hover = 0 /\ newControl(g).press = 0 /\ ~newControl(g).disabled
         /\ newControl(g).hovered = g.hovered /\ newControl(g).dragged = g.dragged
         /\ CleanMemory => ~g.hovered /\ ~g.dragged
         /\ unblockDrag(blockClick(newControl(g))).dragged = g.dragged
<1>1. g.hovered \in Garbage /\ g.pressed \in Garbage /\ g.dragged \in Garbage /\ Garbage \subseteq BOOLEAN
  BY LayerAssumption DEF flags
<1>2. CleanMemory => ~g.hovered /\ ~g.dragged
  BY <1>1 DEF CleanMemory
<1>3. newControl(g) = [hovered |-> g.hovered, pressed |-> g.pressed, dragged |-> g.dragged,
                       disabled |-> FALSE, hover |-> 0, press |-> 0, click |-> 0, drag |-> 1]
  BY DEF newControl
<1>4. newControl(g) \in Control
  BY <1>1, <1>3 DEF Control
<1>5. PICK d : d = blockClick(newControl(g))
  OBVIOUS
<1>6. /\ d \in Control /\ d.hover = 0 /\ d.press = 0 /\ d.click = 1 /\ d.drag = 1
      /\ ~d.disabled /\ d.dragged = g.dragged
  <2> DEFINE c == newControl(g)
  <2>1. /\ c \in Control /\ c.hover = 0 /\ c.press = 0 /\ c.click = 0 /\ c.drag = 1
        /\ ~c.disabled /\ c.dragged = g.dragged
    BY <1>3, <1>4
  <2> HIDE DEF c
  <2> QED  BY <1>5, <2>1 DEF blockClick, Control, c
<1>7. PICK u : u = unblockDrag(d)
  OBVIOUS
<1>8. /\ u \in Control /\ u.hover = 0 /\ u.press = 0 /\ u.click = 1 /\ u.drag = 0
      /\ ~u.disabled /\ u.dragged = g.dragged
  BY <1>6, <1>7 DEF unblockDrag, unlocked, Control
<1>9. ControlFits(u, 0)
  BY <1>8 DEF ControlFits
<1> QED
  BY <1>2, <1>3, <1>4, <1>5, <1>7, <1>8, <1>9

\* The control of a view as it is made: locked once if the player is another one.
LEMMA PlayerControl ==
  ASSUME NEW g \in flags, NEW p
  PROVE  /\ ControlFits(playerControl(p, g), foreign(p))
         /\ CleanMemory => ~playerControl(p, g).dragged
BY NewControl, ControlBlocked, 0 + 1 = 1 DEF playerControl, foreign

\* The sequence of no animations.
LEMMA EmptySequence == IsSequence(<< >>) /\ Len(<< >>) = 0
<1>1. << >> \in Seq({}) /\ Len(<< >>) = 0
  OBVIOUS
<1> QED  BY <1>1 DEF IsSequence

\* addPlayer: a view more, with no animation.
LEMMA AddViewFits ==
  ASSUME NEW L, Fits(L), NEW p \in Player, p \notin viewed(L), NEW spot, NEW g \in flags
  PROVE  LET M == addView(L, p, spot, g)
         IN  /\ Fits(M) /\ viewed(M) = viewed(L) \cup {p}
             /\ M.showsOpen = L.showsOpen /\ M.captured = L.captured
             /\ M.control[LockButton] = L.control[LockButton] /\ M.control[Arrows] = L.control[Arrows]
<1> DEFINE M == addView(L, p, spot, g)
           x == [q \in {p} \cup DOMAIN L.views |->
                   IF q = p THEN [pos |-> spot, animations |-> << >>] ELSE L.views[q]]
           k == [e \in {p} \cup DOMAIN L.control |-> IF e = p THEN playerControl(p, g) ELSE L.control[e]]
<1>1. M = [L EXCEPT !.views = x, !.control = k]
  BY DEF addView
<1>2. isLayer(L) /\ L.control \in [ElementsOf(L) -> Control]
  BY DEF Fits, LayerFits, ElementsOf
<1>3. Has(M, x, k, L.shown, L.showsOpen, L.captured)
  <2> HIDE DEF x, k, M
  <2>1. Has([L EXCEPT !.views = x, !.control = k], x, k, L.shown, L.showsOpen, L.captured)
    BY <1>2, Replaced
  <2> QED  BY <1>1, <2>1
<1>4. viewed(M) = viewed(L) \cup {p}
  BY <1>3 DEF Has, viewed
<1>5. /\ \A q \in viewed(L) : M.views[q] = L.views[q]
      /\ \A e \in ElementsOf(L) : M.control[e] = L.control[e]
      /\ M.views[p] = [pos |-> spot, animations |-> << >>] /\ M.control[p] = playerControl(p, g)
      /\ M.control = [e \in ElementsOf(M) |-> IF e = p THEN playerControl(p, g) ELSE L.control[e]]
  <2>1. p \notin ElementsOf(L)
    BY Elements DEF ElementsOf
  <2>2. ElementsOf(M) = {p} \cup DOMAIN L.control
    BY <1>2, <1>4 DEF ElementsOf
  <2>3. M.views = x /\ M.control = k
    BY <1>3 DEF Has
  <2>4. \A q \in viewed(L) : x[q] = L.views[q]
    BY DEF viewed
  <2>5. \A e \in ElementsOf(L) : k[e] = L.control[e]
    BY <1>2, <2>1
  <2>6. x[p] = [pos |-> spot, animations |-> << >>] /\ k[p] = playerControl(p, g)
    OBVIOUS
  <2>7. k = [e \in ElementsOf(M) |-> IF e = p THEN playerControl(p, g) ELSE L.control[e]]
    BY <2>2
  <2> HIDE DEF x, k, M
  <2> QED  BY <2>3, <2>4, <2>5, <2>6, <2>7
<1> HIDE DEF M
<1>6. playerControl(p, g) \in Control
  BY PlayerControl DEF ControlFits
<1>7. M.control \in [ElementsOf(M) -> Control]
  BY <1>2, <1>4, <1>5, <1>6 DEF ElementsOf
<1>8. ViewFits(M, p)
  <2>1. foreign(p) \in Nat
    BY DEF foreign
  <2> DEFINE w == M.views[p]
  <2>2. w.animations = << >> /\ w = [pos |-> w.pos, animations |-> w.animations]
    BY <1>5
  <2>3. Len(w.animations) + foreign(p) = foreign(p)
    BY <2>1, <2>2, EmptySequence
  <2>4. isShown(w)
    BY <2>2, EmptySequence DEF isShown
  <2> QED
    BY <1>5, <2>3, <2>4, PlayerControl DEF ViewFits
<1>9. \A q \in viewed(M) : ViewFits(M, q)
  BY <1>4, <1>5, <1>8 DEF ViewFits, Fits, LayerFits, ElementsOf
<1>10. LayerFits(M)
  BY <1>3, <1>4, <1>7, <1>9 DEF Fits, LayerFits, ElementsOf, Has
<1>11. ASSUME CleanMemory  PROVE DragFits(M)
  <2>1. L.captured # p
    BY Elements DEF Fits, LayerFits
  <2>2. M.captured = L.captured
    BY <1>3 DEF Has
  <2> QED
    BY <1>4, <1>5, <1>11, <2>1, <2>2, PlayerControl DEF Fits, DragFits, ElementsOf
<1> QED
  BY <1>3, <1>4, <1>5, <1>10, <1>11 DEF Fits, Has, ElementsOf, M

\* The table is shown with another size.
LEMMA ShownFits ==
  ASSUME NEW L, Fits(L), NEW v \in MinPlayersPerGame..MaxPlayersPerGame
  PROVE  LET M == [L EXCEPT !.shown = v]
         IN  /\ Fits(M) /\ viewed(M) = viewed(L) /\ M.captured = L.captured
             /\ M.showsOpen = L.showsOpen /\ M.control = L.control
<1> DEFINE M == [L EXCEPT !.shown = v]
<1>1. isLayer(L)
  BY DEF Fits, LayerFits
<1>2. Has(M, L.views, L.control, v, L.showsOpen, L.captured)
  BY <1>1, Replaced
<1> HIDE DEF M
<1>3. viewed(M) = viewed(L) /\ \A p : ViewFits(L, p) <=> ViewFits(M, p)
  BY <1>2 DEF viewed, ViewFits, Has
<1> QED
  BY <1>2, <1>3 DEF M, Fits, LayerFits, DragFits, Has

-----------------------------------------------------------------------------
(* The handlers of the layer *)

\* What an event leaves alone: the buttons, and what is captured.
Handled(L, M) ==
  /\ Fits(M) /\ viewed(L) \subseteq viewed(M)
  /\ M.captured = L.captured /\ M.showsOpen = L.showsOpen
  /\ M.control[LockButton] = L.control[LockButton] /\ M.control[Arrows] = L.control[Arrows]

\* A handler that moves views leaves the rest alone.
LEMMA OnlyViewsHandled ==
  ASSUME NEW L, NEW M, Fits(M), OnlyViews(L, M)
  PROVE  Handled(L, M)
BY DEF Handled, OnlyViews

\* Two changes of views are one.
LEMMA OnlyViewsTwice ==
  ASSUME NEW L, NEW M, NEW N, OnlyViews(L, M), OnlyViews(M, N)
  PROVE  OnlyViews(L, N)
BY DEF OnlyViews

\* LobbyLayer::onPlayerConnectedEvent.
LEMMA ConnectedHandled ==
  ASSUME NEW L, Fits(L), NEW V, NEW e, e.id \in Player, NEW g \in flags
  PROVE  Handled(L, onPlayerConnectedEvent(L, V, e, g))
<1> DEFINE o == seatOutcome(L, V, e.id, e.seat)
           M == onPlayerConnectedEvent(L, V, e, g)
<1>1. CASE e.id \in viewed(L)
  <2>1. M = abort(L, "connectedTwice")
    BY <1>1 DEF onPlayerConnectedEvent
  <2> QED  BY <2>1, AbortFits, OnlyViewsHandled
<1>2. CASE e.id \notin viewed(L) /\ o # "running"
  <2>1. M = abort(L, o)
    BY <1>2 DEF onPlayerConnectedEvent
  <2> QED  BY <2>1, AbortFits, OnlyViewsHandled
<1>3. CASE e.id \notin viewed(L) /\ o = "running"
  <2>1. M = addView(L, e.id, seatPlace(L, V, e.id, e.seat), g)
    BY <1>3 DEF onPlayerConnectedEvent
  <2> QED  BY <1>3, <2>1, AddViewFits DEF Handled
<1> QED
  BY <1>1, <1>2, <1>3

\* LobbyLayer::onSeatPositionsChangedEvent, with the queue closing up.
LEMMA SeatsChangedHandled ==
  ASSUME NEW L, Fits(L), NEW V, V.queue \in Seq(Player), NEW e
  PROVE  Handled(L, onSeatPositionsChangedEvent(L, V, e))
<1> DEFINE o    == IF e.id \notin viewed(L) THEN "resync" ELSE seatOutcome(L, V, e.id, e.seat)
           spot == seatPlace(L, V, e.id, e.seat)
           M    == onSeatPositionsChangedEvent(L, V, e)
           N    == startMove(L, e.id, spot)
<1>1. M = IF o # "running" THEN abort(L, o) ELSE IF L.views[e.id].pos = spot THEN L
          ELSE moveInTurn(N, V, V.queue, TRUE)
  BY DEF onSeatPositionsChangedEvent, updatePlayersSeatsInQueue
<1>2. CASE o # "running"
  BY <1>1, <1>2, AbortFits, OnlyViewsHandled
<1>3. CASE o = "running" /\ L.views[e.id].pos = spot
  <2>1. M = L
    BY <1>1, <1>3
  <2> QED  BY <2>1 DEF Handled
<1>4. CASE o = "running" /\ L.views[e.id].pos # spot
  <2>1. M = moveInTurn(N, V, V.queue, TRUE)
    BY <1>1, <1>4
  <2>2. e.id \in viewed(L)
    BY <1>4
  <2>3. Fits(N) /\ OnlyViews(L, N)
    BY <2>2, StartMoveFits
  <2>4. Len(V.queue) \in Nat
    OBVIOUS
  <2>5. Fits(M) /\ OnlyViews(N, M)
    BY <2>1, <2>3, <2>4, MoveInTurnFits
  <2> QED  BY <2>3, <2>5, OnlyViewsTwice, OnlyViewsHandled
<1> QED
  BY <1>2, <1>3, <1>4

\* LobbyLayer::onSeatPositionsSwappedEvent.
LEMMA SwappedHandled ==
  ASSUME NEW L, Fits(L), NEW V, NEW e
  PROVE  Handled(L, onSeatPositionsSwappedEvent(L, V, e))
<1> DEFINE both  == {e.first, e.second}
           seats == {getPlayerSeatIndex(V, p) : p \in both}
           move(A, p) == IF L.views[p].pos = home(L, V, p) THEN A ELSE startMove(A, p, home(L, V, p))
           M == onSeatPositionsSwappedEvent(L, V, e)
           N == move(L, e.first)
<1>1. M = IF ~(both \subseteq viewed(L)) \/ Nowhere \in seats \/ Cardinality(seats) = 1
          THEN abort(L, "resync")
          ELSE IF \E p \in both : homeOutcome(L, V, p) # "running" THEN abort(L, "noSuchSeat")
          ELSE move(N, e.second)
  BY DEF onSeatPositionsSwappedEvent
<1>2. CASE M = abort(L, "resync") \/ M = abort(L, "noSuchSeat")
  BY <1>2, AbortFits, OnlyViewsHandled
<1>3. CASE both \subseteq viewed(L) /\ M = move(N, e.second)
  <2>1. ASSUME NEW A, Fits(A), OnlyViews(L, A), NEW p \in both
        PROVE  Fits(move(A, p)) /\ OnlyViews(L, move(A, p))
    <3>1. p \in viewed(A)
      BY <1>3, <2>1 DEF OnlyViews
    <3>2. Fits(startMove(A, p, home(L, V, p))) /\ OnlyViews(A, startMove(A, p, home(L, V, p)))
      BY <2>1, <3>1, StartMoveFits
    <3> QED  BY <2>1, <3>2, OnlyViewsTwice
  <2>2. OnlyViews(L, L)
    BY DEF OnlyViews
  <2> HIDE DEF move
  <2>3. Fits(N) /\ OnlyViews(L, N)
    BY <2>1, <2>2
  <2> HIDE DEF N
  <2>4. Fits(M) /\ OnlyViews(L, M)
    BY <1>3, <2>1, <2>3
  <2> QED  BY <2>4, OnlyViewsHandled
<1> HIDE DEF move, seats, N, M
<1> QED
  BY <1>1, <1>2, <1>3

\* Every set of players has its elements in some order.
LEMMA SequenceOfPlayers ==
  ASSUME NEW T \in SUBSET Player
  PROVE  Len(SetToSeq(T)) \in Nat
<1>1. IsFiniteSet(T) /\ Cardinality(T) \in Nat
  BY ScreenAssumption, FS_Subset, FS_CardinalityType
<1>2. PICK n \in Nat : ExistsBijection(1..n, T)
  BY <1>1, FS_NatBijection
<1>3. Cardinality(T) = n
  BY <1>1, <1>2, FS_CountingElements
<1>4. \E f \in [1..n -> T] : IsInjective(f)
  BY <1>2 DEF ExistsBijection, Bijection, Injection
<1>5. SetToSeq(T) \in [1..n -> T]
  BY <1>3, <1>4 DEF SetToSeq
<1> QED
  BY <1>5

\* LobbyLayer::onPlayersPerGameChangedEvent.
LEMMA PlayersPerGameHandled ==
  ASSUME NEW L, Fits(L), NEW V, NEW e, e.value \in MinPlayersPerGame..MaxPlayersPerGame
  PROVE  Handled(L, onPlayersPerGameChangedEvent(L, V, e))
<1> DEFINE N == [L EXCEPT !.shown = e.value]
           players == SetToSeq({p \in Player : V.seats.seatOf[p] # Nowhere})
           M == onPlayersPerGameChangedEvent(L, V, e)
<1>1. M = moveInTurn(N, V, players, FALSE)
  BY DEF onPlayersPerGameChangedEvent, updatePlayersTablePositions
<1>2. Fits(N) /\ Handled(L, N)
  BY ShownFits DEF Handled
<1>3. Len(players) \in Nat
  BY SequenceOfPlayers
<1> HIDE DEF N, players
<1>4. Fits(M) /\ OnlyViews(N, M)
  BY <1>1, <1>2, <1>3, MoveInTurnFits
<1> QED
  BY <1>2, <1>4 DEF Handled, OnlyViews

\* The sprite of the lock that fits what the lobby V is, and where the mouse is.
Shows(L, V) == L.showsOpen = IF L.control[LockButton].hovered THEN ~V.open ELSE V.open

\* On the host's screen the lock can be hovered, on the others' it cannot be pressed.
LockFits(c) == IF isHost(local) THEN c.hover = 0 /\ ~c.disabled ELSE c.press > 0

\* m_onUpdateLockButton: afterwards the host's lock button shows what the lobby V is.
LEMMA LockUpdated ==
  ASSUME NEW L, Fits(L), NEW V
  PROVE  LET M == updateLockButton(L, V)
         IN  /\ Fits(M) /\ viewed(M) = viewed(L) /\ M.captured = L.captured
             /\ SameBut(L.control[LockButton], M.control[LockButton])
             /\ V.open \in BOOLEAN => M.showsOpen \in BOOLEAN
             /\ isHost(local) /\ LockFits(L.control[LockButton]) =>
                  Shows(M, V) /\ (M.control[LockButton].hovered <=> L.control[LockButton].hovered)
<1>h. PICK H : H = hover(L, V, LockButton, FALSE)
  OBVIOUS
<1>o. PICK off : off = [H EXCEPT !.showsOpen = V.open]
  OBVIOUS
<1>n. PICK N : N = hover(off, V, LockButton, TRUE)
  OBVIOUS
<1>c. PICK c : c = L.control[LockButton]
  OBVIOUS
<1> DEFINE M == updateLockButton(L, V)
<1>1. M = IF c.hovered THEN N ELSE off
  BY <1>h, <1>o, <1>n, <1>c DEF updateLockButton
<1> HIDE DEF M
<1>2. LockButton \in ElementsOf(L) /\ L.control \in [ElementsOf(L) -> Control] /\ c \in Control
  BY <1>c DEF ElementsOf, Fits, LayerFits
<1>3. /\ Fits(H) /\ viewed(H) = viewed(L) /\ H.captured = L.captured
      /\ H.control[LockButton] = setHovered(c, FALSE)
  <2>1. Hovered(L, V, LockButton, FALSE, H)
    BY <1>2, <1>h, HoverFits
  <2> QED  BY <1>c, <1>2, <2>1 DEF Hovered
<1>4. isLayer(H)
  BY <1>3 DEF Fits, LayerFits
<1>5. Has(off, H.views, H.control, H.shown, V.open, H.captured)
  BY <1>4, <1>o, Replaced
<1>6. /\ off.views = H.views /\ off.control = H.control /\ off.shown = H.shown
      /\ off.captured = H.captured /\ off.showsOpen = V.open /\ isLayer(off)
  BY <1>5 DEF Has
<1>7. Fits(off) /\ viewed(off) = viewed(L)
  <2>1. /\ LockButton \in ElementsOf(H) /\ H.control \in [ElementsOf(H) -> Control]
    BY <1>3 DEF ElementsOf, Fits, LayerFits
  <2>2. /\ SameBut(H.control[LockButton], H.control[LockButton])
        /\ off.control = [H.control EXCEPT ![LockButton] = H.control[LockButton]]
    BY <1>6, <2>1, SameButShown
  <2> QED  BY <1>3, <1>6, <2>1, <2>2, SameFits
<1>8. off.control[LockButton] = setHovered(c, FALSE) /\ LockButton \in ElementsOf(off)
      /\ off.control \in [ElementsOf(off) -> Control]
  BY <1>3, <1>6, <1>7 DEF ElementsOf, Fits, LayerFits
<1>9. /\ Fits(N) /\ viewed(N) = viewed(off) /\ N.captured = off.captured
      /\ N.control = [off.control EXCEPT ![LockButton] = setHovered(off.control[LockButton], TRUE)]
      /\ N.showsOpen = IF setHovered(off.control[LockButton], TRUE).hovered = off.control[LockButton].hovered
                       THEN off.showsOpen
                       ELSE IF setHovered(off.control[LockButton], TRUE).hovered THEN ~V.open ELSE V.open
  <2>1. Hovered(off, V, LockButton, TRUE, N)
    BY <1>n, <1>7, <1>8, HoverFits
  <2> QED  BY <2>1 DEF Hovered
<1>10. N.control[LockButton] = setHovered(setHovered(c, FALSE), TRUE)
  BY <1>8, <1>9
<1>11. /\ setHovered(c, FALSE) \in Control /\ SameBut(c, setHovered(c, FALSE))
       /\ SameBut(c, setHovered(setHovered(c, FALSE), TRUE))
  <2>1. setHovered(c, FALSE) \in Control /\ SameBut(c, setHovered(c, FALSE))
    BY <1>2, SameButShown DEF SameBut
  <2>2. SameBut(setHovered(c, FALSE), setHovered(setHovered(c, FALSE), TRUE))
    BY <2>1, SameButShown
  <2> QED  BY <2>1, <2>2 DEF SameBut
<1>12. ASSUME isHost(local), LockFits(c)
       PROVE  /\ ~setHovered(c, FALSE).hovered
              /\ setHovered(setHovered(c, FALSE), TRUE).hovered
  BY <1>2, <1>12 DEF LockFits, setHovered, Control
<1>13. ASSUME isHost(local), LockFits(c)
       PROVE  Shows(M, V) /\ (M.control[LockButton].hovered <=> c.hovered)
  <2>1. CASE c.hovered
    BY <1>1, <1>8, <1>9, <1>10, <1>12, <1>13, <2>1 DEF Shows
  <2>2. CASE ~c.hovered
    BY <1>1, <1>6, <1>8, <1>12, <1>13, <2>2 DEF Shows
  <2> QED  BY <2>1, <2>2
<1>14. Fits(M) /\ viewed(M) = viewed(L) /\ M.captured = L.captured
  BY <1>1, <1>3, <1>6, <1>7, <1>9
<1>15. SameBut(c, M.control[LockButton])
  BY <1>1, <1>8, <1>10, <1>11
<1>16. V.open \in BOOLEAN => M.showsOpen \in BOOLEAN
  BY <1>1, <1>6, <1>9
<1> QED
  BY <1>c, <1>13, <1>14, <1>15, <1>16 DEF M

\* The loop over the animations of a view, one at a time.
LEMMA AnimationSteps ==
  ASSUME NEW w, NEW c, Len(w.animations) \in Nat
  PROVE  \E f : /\ f[0] = [pos |-> w.pos, animations |-> << >>, control |-> c]
                /\ updateAnimations(w, c) = f[Len(w.animations)]
                /\ \A i \in 1..Len(w.animations) : f[i] = onUpdate(f[i - 1], stepped(w.animations[i]))
<1> DEFINE n == Len(w.animations)
           r == [pos |-> w.pos, animations |-> << >>, control |-> c]
           next(x, i) == onUpdate(x, stepped(w.animations[i]))
           is(m, g) == g = [i \in 0..m |-> IF i = 0 THEN r ELSE next(g[i - 1], i)]
           e == CHOOSE g : is(n, g)
           bad == {m \in Nat : ~\E g : is(m, g)}
<1>1. updateAnimations(w, c) = e[n]
  BY DEF updateAnimations
<1>2. n \in Nat
  OBVIOUS
<1>3. \A i \in 1..n : \A x : next(x, i) = onUpdate(x, stepped(w.animations[i]))
  OBVIOUS
<1> HIDE DEF next, n, r
<1>4. bad = {}
  <2> SUFFICES ASSUME bad # {}
               PROVE  FALSE
    OBVIOUS
  <2>1. PICK k \in bad : \A j \in bad : k <= j
    <3>1. bad \in SUBSET Nat
      OBVIOUS
    <3> HIDE DEF bad
    <3> QED  BY <3>1, SmallestOf
  <2>2. k # 0
    <3>1. is(0, [i \in 0..0 |-> r])
      OBVIOUS
    <3> QED  BY <2>1, <3>1
  <2>3. k - 1 \in Nat /\ k - 1 \notin bad
    <3>1. k \in Nat
      BY <2>1
    <3> HIDE DEF bad
    <3> QED  BY <2>1, <2>2, <3>1
  <2>4. PICK g : is(k - 1, g)
    BY <2>3
  <2> DEFINE h == [i \in 0..k |-> IF i = k THEN next(g[k - 1], k) ELSE g[i]]
  <2>5. \A i \in 0..k : h[i] = IF i = 0 THEN r ELSE next(h[i - 1], i)
    <3> TAKE i \in 0..k
    <3>1. k \in Nat /\ k # 0
      BY <2>1, <2>2
    <3>2. CASE i = k
      BY <3>1, <3>2
    <3>3. CASE i # k
      <4>1. i \in 0..(k - 1) /\ h[i] = g[i] /\ i # 0 => h[i - 1] = g[i - 1]
        BY <3>1, <3>3
      <4> QED  BY <2>4, <3>1, <3>3, <4>1
    <3> QED  BY <3>2, <3>3
  <2>6. is(k, h)
    BY <2>5
  <2> QED  BY <2>1, <2>6
<1>5. is(n, e)
  BY <1>2, <1>4
<1> HIDE DEF e
<1>6. e[0] = r /\ \A i \in 1..n : e[i] = next(e[i - 1], i)
  BY <1>2, <1>5
<1> QED
  BY <1>1, <1>3, <1>6 DEF n, r

\* One animation: what is over is taken out and takes a lock with it.
LEMMA OneAnimation ==
  ASSUME NEW r, IsSequence(r.animations), NEW n \in Nat, NEW a,
         ControlFits(r.control, Len(r.animations) + n + 1)
  PROVE  LET t == onUpdate(r, a)
         IN  /\ IsSequence(t.animations) /\ ControlFits(t.control, Len(t.animations) + n)
             /\ t.control.dragged = r.control.dragged
<1> DEFINE t == onUpdate(r, a)
<1>1. /\ t.animations = IF isOver(a) THEN r.animations ELSE Append(r.animations, a)
      /\ t.control = IF isOver(a) THEN unblockInteraction(r.control) ELSE r.control
  BY DEF onUpdate
<1>2. Len(r.animations) \in Nat /\ IsSequence(Append(r.animations, a))
      /\ Len(Append(r.animations, a)) = Len(r.animations) + 1
  BY AppendSequence
<1> HIDE DEF t
<1>3. CASE isOver(a)
  <2> DEFINE m == Len(r.animations) + n + 1
  <2>1. m \in Nat /\ m > 0 /\ m - 1 = Len(r.animations) + n
    BY <1>2
  <2> HIDE DEF m
  <2>2. ControlFits(unblockInteraction(r.control), m - 1)
        /\ unblockInteraction(r.control).dragged = r.control.dragged
    BY <2>1, ControlUnblocked DEF m
  <2> QED  BY <1>1, <1>3, <2>1, <2>2 DEF t
<1>4. CASE ~isOver(a)
  <2>1. Len(t.animations) + n = Len(r.animations) + n + 1
    BY <1>1, <1>2, <1>4
  <2> QED  BY <1>1, <1>2, <1>4, <2>1 DEF t
<1> QED
  BY <1>3, <1>4

\* UIElement::updateAnimations: every animation that is over takes one lock with it.
LEMMA AnimationsFit ==
  ASSUME NEW w, isShown(w), NEW c, NEW k \in Nat, ControlFits(c, Len(w.animations) + k)
  PROVE  LET t == updateAnimations(w, c)
         IN  /\ IsSequence(t.animations) /\ ControlFits(t.control, Len(t.animations) + k)
             /\ t.control.dragged = c.dragged
             /\ w.animations = << >> => t.animations = << >>
<1>1. Len(w.animations) \in Nat /\ (w.animations = << >> <=> Len(w.animations) = 0)
  BY AppendSequence DEF isShown
<1> DEFINE n == Len(w.animations)
<1>2. PICK f : /\ f[0] = [pos |-> w.pos, animations |-> << >>, control |-> c]
               /\ updateAnimations(w, c) = f[n]
               /\ \A i \in 1..n : f[i] = onUpdate(f[i - 1], stepped(w.animations[i]))
  BY <1>1, AnimationSteps
<1> DEFINE ok(i) == /\ IsSequence(f[i].animations)
                    /\ ControlFits(f[i].control, Len(f[i].animations) + ((n - i) + k))
                    /\ f[i].control.dragged = c.dragged
           bad == {i \in 0..n : ~ok(i)}
<1>3. ok(0)
  <2>1. f[0].animations = << >> /\ f[0].control = c
    BY <1>2
  <2>2. Len(<< >>) + ((n - 0) + k) = n + k
    BY <1>1
  <2> QED  BY <2>1, <2>2, EmptySequence
<1>4. ASSUME NEW i \in 1..n, ok(i - 1)
      PROVE  ok(i)
  <2> DEFINE m == (n - i) + k
  <2>1. m \in Nat
    BY <1>1
  <2>2. Len(f[i - 1].animations) \in Nat
    BY <1>4, AppendSequence
  <2>3. Len(f[i - 1].animations) + ((n - (i - 1)) + k) = Len(f[i - 1].animations) + m + 1
    <3>1. PICK x \in Nat : x = Len(f[i - 1].animations)
      BY <2>2
    <3>2. PICK y \in Nat : y = n
      BY <1>1
    <3>3. x + ((y - (i - 1)) + k) = x + ((y - i) + k) + 1
      BY <3>2
    <3> QED  BY <3>1, <3>2, <3>3
  <2>4. IsSequence(f[i - 1].animations) /\ ControlFits(f[i - 1].control, Len(f[i - 1].animations) + m + 1)
    BY <1>4, <2>3
  <2>5. f[i] = onUpdate(f[i - 1], stepped(w.animations[i])) /\ f[i - 1].control.dragged = c.dragged
    BY <1>2, <1>4
  <2> DEFINE r == f[i - 1]
             a == stepped(w.animations[i])
  <2> HIDE DEF m, r, a
  <2>6. /\ IsSequence(onUpdate(r, a).animations)
        /\ ControlFits(onUpdate(r, a).control, Len(onUpdate(r, a).animations) + m)
        /\ onUpdate(r, a).control.dragged = r.control.dragged
    BY <2>1, <2>4, OneAnimation DEF r
  <2> QED
    BY <2>5, <2>6 DEF m, r, a
<1> HIDE DEF ok
<1>5. bad = {}
  <2> SUFFICES ASSUME bad # {}
               PROVE  FALSE
    OBVIOUS
  <2>1. PICK j \in bad : \A i \in bad : j <= i
    <3>1. bad \in SUBSET Nat
      BY <1>1
    <3> HIDE DEF bad
    <3> QED  BY <3>1, SmallestOf
  <2>2. j \in 1..n /\ j - 1 \in 0..n /\ ~(j <= j - 1)
    BY <1>1, <1>3, <2>1
  <2>3. ok(j - 1)
    BY <2>1, <2>2
  <2> QED  BY <1>4, <2>1, <2>2, <2>3
<1>6. ok(n) /\ n \in 0..n /\ (n - n) + k = k
  BY <1>1, <1>5
<1>7. w.animations = << >> => f[n].animations = << >>
  BY <1>1, <1>2
<1> QED
  BY <1>2, <1>6, <1>7 DEF ok

-----------------------------------------------------------------------------
(* A layer under the mouse *)

\* A layer that fits, with a lock button that only the host can use.
Stands(L) == Fits(L) /\ L.showsOpen \in BOOLEAN /\ LockFits(L.control[LockButton])

\* M stands, has the views of L, and its lock button looks like that of L.
Steady(L, M) ==
  /\ Stands(M) /\ viewed(L) \subseteq viewed(M) /\ M.showsOpen = L.showsOpen
  /\ M.control[LockButton].hovered <=> L.control[LockButton].hovered

\* A handler keeps how the lock button looks.
LEMMA HandledSteady ==
  ASSUME NEW L, Stands(L), NEW M, Handled(L, M)
  PROVE  Steady(L, M)
BY DEF Handled, Steady, Stands

\* How a lock button shows has nothing to do with its locks.
LEMMA SameLock ==
  ASSUME NEW c, NEW d, SameBut(c, d), LockFits(c)
  PROVE  LockFits(d)
BY DEF SameBut, LockFits

\* The views and the controls are the layer's elements.
LEMMA ControlOf ==
  ASSUME NEW L, Fits(L)
  PROVE  /\ isLayer(L) /\ L.control \in [ElementsOf(L) -> Control]
         /\ LockButton \in ElementsOf(L) /\ Arrows \in ElementsOf(L)
         /\ viewed(L) \subseteq ElementsOf(L) /\ LockButton \notin viewed(L)
BY Elements DEF Fits, LayerFits, ElementsOf

\* The host's lock button shows in M what it has to, when it did in L.
HoverKeeps(L, V, e, v, M) ==
  /\ Stands(M) /\ viewed(M) = viewed(L)
  /\ isHost(local) /\ Shows(L, V) => Shows(M, V)
  /\ isHost(local) /\ e = LockButton => (M.control[LockButton].hovered <=> v)

\* The mouse on or off the lock button switches its sprite with it.
LEMMA HoverStands ==
  ASSUME NEW L, Stands(L), NEW V, WellFormed(V), NEW e \in ElementsOf(L), NEW v \in BOOLEAN
  PROVE  HoverKeeps(L, V, e, v, hover(L, V, e, v))
<1> DEFINE M == hover(L, V, e, v)
           c == L.control[LockButton]
<1>1. Fits(L)
  BY DEF Stands
<1>2. Hovered(L, V, e, v, M)
  BY <1>1, HoverFits
<1> HIDE DEF M
<1>3. /\ Fits(M) /\ viewed(M) = viewed(L)
      /\ M.control = [L.control EXCEPT ![e] = setHovered(L.control[e], v)]
  BY <1>2 DEF Hovered
<1>4. c \in Control /\ LockFits(c) /\ L.control \in [ElementsOf(L) -> Control] /\ LockButton \in ElementsOf(L)
  BY <1>1, ControlOf DEF Stands
<1>5. CASE e # LockButton
  <2>1. M.control[LockButton] = c /\ M.showsOpen = L.showsOpen
    BY <1>2, <1>3, <1>4, <1>5 DEF Hovered
  <2> QED  BY <1>3, <1>5, <2>1 DEF M, Stands, Shows, HoverKeeps
<1>6. CASE e = LockButton
  <2> DEFINE d == setHovered(c, v)
  <2>1. M.control[LockButton] = d
    BY <1>3, <1>4, <1>6
  <2>2. M.showsOpen = IF d.hovered = c.hovered THEN L.showsOpen ELSE IF d.hovered THEN ~V.open ELSE V.open
    BY <1>2, <1>6 DEF Hovered
  <2>3. SameBut(c, d) /\ LockFits(d)
    BY <1>4, SameButShown, SameLock
  <2>4. isHost(local) => d.hovered = v
    BY <1>4 DEF LockFits, setHovered, Control
  <2>5. d.hovered \in BOOLEAN /\ c.hovered \in BOOLEAN
    BY <1>4, <2>3 DEF SameBut, Control
  <2> HIDE DEF d, c
  <2>6. M.showsOpen \in BOOLEAN
    BY <2>2 DEF Stands, WellFormed, LobbyType
  <2>7. Shows(L, V) => Shows(M, V)
    BY <2>1, <2>2, <2>5 DEF Shows, c
  <2> QED  BY <1>3, <2>1, <2>3, <2>4, <2>6, <2>7 DEF M, Stands, HoverKeeps
<1> QED
  BY <1>5, <1>6

\* A control shows that it is pressed, or not any more.
LEMMA PressSteady ==
  ASSUME NEW L, Stands(L), NEW e \in ElementsOf(L), NEW v \in BOOLEAN
  PROVE  Steady(L, [L EXCEPT !.control[e] = setPressed(L.control[e], v)])
<1> DEFINE c == setPressed(L.control[e], v)
           k == [L.control EXCEPT ![e] = c]
           M == [L EXCEPT !.control[e] = c]
<1>1. Fits(L) /\ isLayer(L) /\ L.control \in [ElementsOf(L) -> Control] /\ LockButton \in ElementsOf(L)
  BY ControlOf DEF Stands
<1>2. SameBut(L.control[e], c) /\ c.hovered = L.control[e].hovered
  BY <1>1, SameButShown DEF setPressed, Control
<1> HIDE DEF c
<1>3. Has(M, L.views, k, L.shown, L.showsOpen, L.captured)
  <2>1. PICK v1, c1, s1, o1, d1, e1 :
            L = [views |-> v1, control |-> c1, shown |-> s1, showsOpen |-> o1, captured |-> d1, outcome |-> e1]
    BY <1>1 DEF isLayer
  <2>2. /\ L.views = v1 /\ L.control = c1 /\ L.shown = s1 /\ L.showsOpen = o1 /\ L.captured = d1
    BY <2>1
  <2>3. M = [L EXCEPT !.control = k]
    OBVIOUS
  <2> HIDE DEF M, k
  <2>4. M = [views |-> v1, control |-> k, shown |-> s1, showsOpen |-> o1, captured |-> d1, outcome |-> e1]
    BY <2>1, <2>3
  <2>5. /\ M.views = v1 /\ M.control = k /\ M.shown = s1 /\ M.showsOpen = o1 /\ M.captured = d1 /\ M.outcome = e1
    BY <2>4
  <2> QED  BY <2>2, <2>4, <2>5 DEF Has, isLayer
<1> HIDE DEF M
<1>4. Fits(M) /\ viewed(M) = viewed(L)
  BY <1>1, <1>2, <1>3, SameFits DEF Has, k
<1>5. /\ SameBut(L.control[LockButton], M.control[LockButton])
      /\ M.control[LockButton].hovered = L.control[LockButton].hovered
  <2>1. M.control = k
    BY <1>3 DEF Has
  <2>2. CASE e = LockButton
    BY <1>1, <1>2, <2>1, <2>2
  <2>3. CASE e # LockButton
    BY <1>1, <2>1, <2>3, SameButShown
  <2> QED  BY <2>2, <2>3
<1>6. LockFits(M.control[LockButton])
  BY <1>5, SameLock DEF Stands
<1> QED
  BY <1>3, <1>4, <1>5, <1>6 DEF M, c, Steady, Stands, Has

\* A view that is not locked is captured and dragged.
LEMMA CaptureSteady ==
  ASSUME NEW L, Stands(L), NEW p \in viewed(L), canBePressed(L.control[p]), L.captured = Nothing
  PROVE  Steady(L, [L EXCEPT !.control[p] = setDragged(setPressed(L.control[p], TRUE), TRUE),
                             !.captured = p])
<1> DEFINE c == setDragged(setPressed(L.control[p], TRUE), TRUE)
           k == [L.control EXCEPT ![p] = c]
           M == [L EXCEPT !.control[p] = c, !.captured = p]
<1>1. Fits(L) /\ isLayer(L) /\ L.control \in [ElementsOf(L) -> Control] /\ p \in ElementsOf(L)
      /\ p # LockButton /\ p # Arrows /\ LockButton \in ElementsOf(L)
  BY ControlOf, Elements DEF Stands, Fits, LayerFits
<1>2. /\ isShown(L.views[p]) /\ Len(L.views[p].animations) \in Nat /\ foreign(p) \in Nat
      /\ ControlFits(L.control[p], Len(L.views[p].animations) + foreign(p))
      /\ L.views[p].animations = << >> <=> Len(L.views[p].animations) = 0
  <2>1. ViewFits(L, p)
    BY <1>1 DEF Fits, LayerFits
  <2>2. isShown(L.views[p]) /\ ControlFits(L.control[p], Len(L.views[p].animations) + foreign(p))
    BY <2>1 DEF ViewFits
  <2> QED  BY <2>2, AppendSequence DEF isShown, foreign
<1>3. Len(L.views[p].animations) = 0 /\ foreign(p) = 0 /\ L.views[p].animations = << >>
  BY <1>2 DEF canBePressed, ControlFits
<1>4. ControlFits(L.control[p], 0)
  BY <1>2, <1>3
<1>5. ControlFits(c, 0) /\ c.dragged /\ c \in Control
  <2>1. ControlFits(setPressed(L.control[p], TRUE), 0)
    BY <1>1, <1>4, ControlShown
  <2>2. setPressed(L.control[p], TRUE) \in Control
    BY <2>1 DEF ControlFits
  <2>3. ControlFits(c, 0) /\ c.dragged
    BY <2>1, <2>2, ControlShown
  <2> QED  BY <2>3 DEF ControlFits
<1> HIDE DEF c
<1>6. Has(M, L.views, k, L.shown, L.showsOpen, p)
  <2>1. M = [L EXCEPT !.control = k, !.captured = p]
    OBVIOUS
  <2> HIDE DEF k
  <2> QED  BY <1>1, <2>1, Replaced
<1> HIDE DEF M
<1>7. /\ viewed(M) = viewed(L) /\ M.views = L.views /\ M.shown = L.shown
      /\ M.captured = p /\ M.showsOpen = L.showsOpen /\ isLayer(M)
      /\ M.control = k
  BY <1>6 DEF Has, viewed
<1>8. /\ M.control \in [ElementsOf(M) -> Control] /\ M.control[p] = c
      /\ \A e \in ElementsOf(L) \ {p} : M.control[e] = L.control[e]
  BY <1>1, <1>5, <1>7 DEF ElementsOf
<1>9. \A q \in viewed(M) : ViewFits(M, q)
  <2> TAKE q \in viewed(M)
  <2>1. CASE q = p
    <3>1. M.views[p] = L.views[p]
      BY <1>7
    <3>2. ControlFits(M.control[p], Len(M.views[p].animations) + foreign(p))
      BY <1>3, <1>5, <1>8, <3>1
    <3> QED  BY <1>2, <2>1, <3>1, <3>2 DEF ViewFits
  <2>2. CASE q # p
    BY <1>1, <1>7, <1>8, <2>2 DEF ViewFits, Fits, LayerFits, ElementsOf
  <2> QED  BY <2>1, <2>2
<1>10. LayerFits(M)
  BY <1>1, <1>7, <1>8, <1>9 DEF Fits, LayerFits, ElementsOf
<1>11. ASSUME CleanMemory  PROVE DragFits(M)
  <2>1. \A q \in viewed(L) : ~L.control[q].dragged
    <3> TAKE q \in viewed(L)
    <3>1. q # Nothing
      BY <1>1, Elements DEF Fits, LayerFits
    <3> QED  BY <1>1, <1>11, <3>1 DEF Fits, DragFits
  <2>2. M.views[p].animations = << >>
    BY <1>3, <1>7
  <2> QED
    BY <1>5, <1>7, <1>8, <2>1, <2>2 DEF DragFits, ElementsOf
<1>12. M.control[LockButton] = L.control[LockButton]
  BY <1>1, <1>8
<1> QED
  BY <1>7, <1>10, <1>11, <1>12 DEF M, c, Steady, Stands, Fits

\* A captured view that is not locked is let go.
LEMMA ReleaseSteady ==
  ASSUME NEW L, Stands(L), NEW p \in viewed(L), canBePressed(L.control[p]), L.captured = p
  PROVE  /\ Steady(L, [L EXCEPT !.captured = Nothing, !.control[p] = captureEnded(setPressed(@, FALSE))])
         /\ foreign(p) = 0
<1> DEFINE c == captureEnded(setPressed(L.control[p], FALSE))
           k == [L.control EXCEPT ![p] = c]
           M == [L EXCEPT !.captured = Nothing, !.control[p] = captureEnded(setPressed(@, FALSE))]
<1>1. Fits(L) /\ isLayer(L) /\ L.control \in [ElementsOf(L) -> Control] /\ p \in ElementsOf(L)
      /\ p # LockButton /\ p # Arrows /\ LockButton \in ElementsOf(L)
  BY ControlOf, Elements DEF Stands, Fits, LayerFits
<1>2. /\ isShown(L.views[p]) /\ Len(L.views[p].animations) \in Nat /\ foreign(p) \in Nat
      /\ ControlFits(L.control[p], Len(L.views[p].animations) + foreign(p))
  <2>1. ViewFits(L, p)
    BY <1>1 DEF Fits, LayerFits
  <2>2. isShown(L.views[p]) /\ ControlFits(L.control[p], Len(L.views[p].animations) + foreign(p))
    BY <2>1 DEF ViewFits
  <2> QED  BY <2>2, AppendSequence DEF isShown, foreign
<1>3. Len(L.views[p].animations) = 0 /\ foreign(p) = 0
  BY <1>2 DEF canBePressed, ControlFits
<1>4. ControlFits(L.control[p], 0)
  BY <1>2, <1>3
<1>5. ControlFits(c, 0) /\ ~c.dragged /\ c \in Control
  <2> DEFINE d == setPressed(setPressed(L.control[p], FALSE), FALSE)
  <2>1. ControlFits(setPressed(L.control[p], FALSE), 0)
    BY <1>1, <1>4, ControlShown
  <2>2. ControlFits(d, 0)
    <3> DEFINE b == setPressed(L.control[p], FALSE)
    <3>1. b \in Control /\ ControlFits(b, 0)
      BY <2>1 DEF ControlFits
    <3> HIDE DEF b
    <3>2. ControlFits(setPressed(b, FALSE), 0)
      BY <3>1, ControlShown
    <3> QED  BY <3>2 DEF b
  <2>3. d \in Control /\ c = setDragged(d, FALSE)
    BY <2>2 DEF ControlFits, captureEnded
  <2> HIDE DEF d, c
  <2>4. ControlFits(c, 0) /\ ~c.dragged
    BY <2>2, <2>3, ControlShown
  <2> QED  BY <2>4 DEF ControlFits
<1>6. M = [L EXCEPT !.captured = Nothing, !.control = k]
  <2>1. M = [L EXCEPT !.captured = Nothing, !.control[p] = c]
    OBVIOUS
  <2> HIDE DEF c, M
  <2> QED  BY <2>1
<1> HIDE DEF c
<1>7. Has(M, L.views, k, L.shown, L.showsOpen, Nothing)
  <2> HIDE DEF k, M
  <2> QED  BY <1>1, <1>6, Replaced
<1> HIDE DEF M
<1>8. /\ viewed(M) = viewed(L) /\ M.views = L.views /\ M.shown = L.shown
      /\ M.captured = Nothing /\ M.showsOpen = L.showsOpen /\ isLayer(M)
      /\ M.control = k
  BY <1>7 DEF Has, viewed
<1>9. /\ M.control \in [ElementsOf(M) -> Control] /\ M.control[p] = c
      /\ \A e \in ElementsOf(L) \ {p} : M.control[e] = L.control[e]
  BY <1>1, <1>5, <1>8 DEF ElementsOf
<1>10. \A q \in viewed(M) : ViewFits(M, q)
  <2> TAKE q \in viewed(M)
  <2>1. CASE q = p
    <3>1. M.views[p] = L.views[p]
      BY <1>8
    <3>2. ControlFits(M.control[p], Len(M.views[p].animations) + foreign(p))
      BY <1>3, <1>5, <1>9, <3>1
    <3> QED  BY <1>2, <2>1, <3>1, <3>2 DEF ViewFits
  <2>2. CASE q # p
    BY <1>1, <1>8, <1>9, <2>2 DEF ViewFits, Fits, LayerFits, ElementsOf
  <2> QED  BY <2>1, <2>2
<1>11. LayerFits(M)
  BY <1>1, <1>8, <1>9, <1>10 DEF Fits, LayerFits, ElementsOf
<1>12. ASSUME CleanMemory  PROVE DragFits(M)
  <2>1. \A q \in viewed(L) : q # Nothing
    BY <1>1, Elements DEF Fits, LayerFits
  <2> QED
    BY <1>1, <1>5, <1>8, <1>9, <1>12, <2>1 DEF Fits, DragFits, ElementsOf
<1>13. M.control[LockButton] = L.control[LockButton]
  BY <1>1, <1>9
<1> QED
  BY <1>3, <1>8, <1>11, <1>12, <1>13 DEF M, Steady, Stands, Fits

\* The place of a view is nobody's business.
LEMMA MovedSteady ==
  ASSUME NEW L, Stands(L), NEW p \in viewed(L), NEW spot
  PROVE  Steady(L, [L EXCEPT !.views[p].pos = spot])
<1> DEFINE w == [L.views[p] EXCEPT !.pos = spot]
           x == [L.views EXCEPT ![p] = w]
           M == [L EXCEPT !.views[p].pos = spot]
<1>1. Fits(L) /\ isLayer(L) /\ ViewFits(L, p) /\ isShown(L.views[p])
  BY ControlOf DEF Stands, Fits, LayerFits, ViewFits
<1>2. w.animations = L.views[p].animations /\ isShown(w)
  <2>1. PICK a, m : L.views[p] = [pos |-> a, animations |-> m]
    BY <1>1 DEF isShown
  <2>2. L.views[p].animations = m /\ w = [pos |-> spot, animations |-> m]
    BY <2>1
  <2>3. w.pos = spot /\ w.animations = m
    BY <2>2
  <2> HIDE DEF w
  <2> QED  BY <1>1, <2>2, <2>3 DEF isShown
<1>3. /\ M.views = x /\ M.control = L.control /\ M.shown = L.shown
      /\ M.showsOpen = L.showsOpen /\ M.captured = L.captured /\ isLayer(M)
  <2>1. PICK v1, c1, s1, o1, d1, e1 :
            L = [views |-> v1, control |-> c1, shown |-> s1, showsOpen |-> o1, captured |-> d1, outcome |-> e1]
    BY <1>1 DEF isLayer
  <2>2. /\ L.views = v1 /\ L.control = c1 /\ L.shown = s1 /\ L.showsOpen = o1 /\ L.captured = d1
    BY <2>1
  <2>3. M = [L EXCEPT !.views = x]
    OBVIOUS
  <2> HIDE DEF M, x
  <2>4. M = [views |-> x, control |-> c1, shown |-> s1, showsOpen |-> o1, captured |-> d1, outcome |-> e1]
    BY <2>1, <2>3
  <2>5. /\ M.views = x /\ M.control = c1 /\ M.shown = s1 /\ M.showsOpen = o1 /\ M.captured = d1 /\ M.outcome = e1
    BY <2>4
  <2> QED  BY <2>2, <2>4, <2>5 DEF isLayer
<1> HIDE DEF M, w
<1>4. /\ viewed(M) = viewed(L) /\ M.views[p] = w
      /\ \A q \in viewed(L) \ {p} : M.views[q] = L.views[q]
  BY <1>3 DEF viewed
<1>5. \A q \in viewed(M) : ViewFits(M, q)
  BY <1>1, <1>2, <1>3, <1>4 DEF ViewFits, Fits, LayerFits
<1>6. LayerFits(M)
  BY <1>1, <1>3, <1>4, <1>5 DEF Fits, LayerFits
<1>7. ASSUME CleanMemory  PROVE DragFits(M)
  BY <1>1, <1>2, <1>3, <1>4, <1>7 DEF Fits, DragFits
<1> QED
  BY <1>3, <1>4, <1>6, <1>7 DEF M, Steady, Stands, Fits

\* The views change, and no control of another element.
LEMMA ViewsSteady ==
  ASSUME NEW L, Stands(L), NEW x, NEW k,
         DOMAIN x = viewed(L), k \in [ElementsOf(L) -> Control],
         \A p \in viewed(L) : /\ isShown(x[p]) /\ ControlFits(k[p], Len(x[p].animations) + foreign(p))
                              /\ k[p].dragged = L.control[p].dragged
                              /\ L.views[p].animations = << >> => x[p].animations = << >>,
         k[LockButton] = L.control[LockButton]
  PROVE  Steady(L, [L EXCEPT !.views = x, !.control = k])
<1> DEFINE M == [L EXCEPT !.views = x, !.control = k]
<1>1. Fits(L) /\ isLayer(L)
  BY ControlOf DEF Stands
<1>2. Has(M, x, k, L.shown, L.showsOpen, L.captured)
  BY <1>1, Replaced
<1> HIDE DEF M
<1>3. /\ M.views = x /\ M.control = k /\ M.shown = L.shown /\ M.showsOpen = L.showsOpen
      /\ M.captured = L.captured /\ isLayer(M) /\ viewed(M) = viewed(L)
  BY <1>2 DEF Has, viewed
<1>4. LayerFits(M)
  <2>1. M.control \in [ElementsOf(M) -> Control]
    BY <1>3 DEF ElementsOf
  <2>2. \A p \in viewed(M) : ViewFits(M, p)
    BY <1>3 DEF ViewFits
  <2> QED  BY <1>1, <1>3, <2>1, <2>2 DEF Fits, LayerFits, ElementsOf
<1>5. ASSUME CleanMemory  PROVE DragFits(M)
  BY <1>1, <1>3, <1>5 DEF Fits, DragFits
<1> QED
  BY <1>3, <1>4, <1>5 DEF M, Steady, Stands, Fits

\* The animations of every view go on.
LEMMA UpdateSteady ==
  ASSUME NEW L, Stands(L)
  PROVE  LET now(p) == updateAnimations(L.views[p], L.control[p])
         IN  Steady(L, [L EXCEPT
           !.views   = [p \in viewed(L) |-> [pos |-> now(p).pos, animations |-> now(p).animations]],
           !.control = [e \in DOMAIN @ |-> IF e \in viewed(L) THEN now(e).control ELSE @[e]]])
<1> DEFINE now(p) == updateAnimations(L.views[p], L.control[p])
           x == [p \in viewed(L) |-> [pos |-> now(p).pos, animations |-> now(p).animations]]
           k == [e \in DOMAIN L.control |-> IF e \in viewed(L) THEN now(e).control ELSE L.control[e]]
           M == [L EXCEPT
                  !.views   = [p \in viewed(L) |-> [pos |-> now(p).pos, animations |-> now(p).animations]],
                  !.control = [e \in DOMAIN @ |-> IF e \in viewed(L) THEN now(e).control ELSE @[e]]]
<1>1. Fits(L) /\ L.control \in [ElementsOf(L) -> Control] /\ LockButton \in ElementsOf(L)
      /\ LockButton \notin viewed(L) /\ viewed(L) \subseteq ElementsOf(L)
  BY ControlOf DEF Stands
<1>2. M = [L EXCEPT !.views = x, !.control = k]
  OBVIOUS
<1>3. ASSUME NEW p \in viewed(L)
      PROVE  /\ IsSequence(now(p).animations)
             /\ ControlFits(now(p).control, Len(now(p).animations) + foreign(p))
             /\ now(p).control.dragged = L.control[p].dragged
             /\ L.views[p].animations = << >> => now(p).animations = << >>
  <2>1. isShown(L.views[p]) /\ ControlFits(L.control[p], Len(L.views[p].animations) + foreign(p))
    BY <1>1 DEF Fits, LayerFits, ViewFits
  <2>2. foreign(p) \in Nat
    BY DEF foreign
  <2> QED  BY <2>1, <2>2, AnimationsFit
<1> HIDE DEF now, M
<1>4. k \in [ElementsOf(L) -> Control] /\ k[LockButton] = L.control[LockButton]
  <2>1. \A p \in viewed(L) : now(p).control \in Control
    BY <1>3 DEF ControlFits
  <2>2. DOMAIN L.control = ElementsOf(L)
    BY <1>1
  <2>3. \A e \in DOMAIN L.control :
           (IF e \in viewed(L) THEN now(e).control ELSE L.control[e]) \in Control
    BY <1>1, <2>1, <2>2
  <2> QED  BY <1>1, <2>2, <2>3
<1>5. \A p \in viewed(L) : /\ x[p] = [pos |-> now(p).pos, animations |-> now(p).animations]
                           /\ k[p] = now(p).control
  BY <1>1
<1>6. DOMAIN x = viewed(L)
  OBVIOUS
<1> HIDE DEF x, k
<1>7. \A p \in viewed(L) : /\ isShown(x[p]) /\ ControlFits(k[p], Len(x[p].animations) + foreign(p))
                           /\ k[p].dragged = L.control[p].dragged
                           /\ L.views[p].animations = << >> => x[p].animations = << >>
  <2> TAKE p \in viewed(L)
  <2>1. x[p] = [pos |-> now(p).pos, animations |-> now(p).animations] /\ k[p] = now(p).control
    BY <1>5
  <2>2. x[p].pos = now(p).pos /\ x[p].animations = now(p).animations
    BY <2>1
  <2>3. isShown(x[p])
    BY <1>3, <2>1, <2>2 DEF isShown
  <2> QED  BY <1>3, <2>1, <2>2, <2>3
<1>8. Steady(L, [L EXCEPT !.views = x, !.control = k])
  BY <1>4, <1>6, <1>7, ViewsSteady
<1> QED
  BY <1>2, <1>8 DEF M, now

\* blockInteraction on any control forbids a press.
LEMMA BlockedPress ==
  ASSUME NEW c \in Control
  PROVE  blockInteraction(c) \in Control /\ blockInteraction(c).press = c.press + 1
<1>1. PICK a : a = setHovered(c, FALSE)
  OBVIOUS
<1>2. a \in Control /\ a.press = c.press
  BY <1>1 DEF Control, setHovered
<1>3. PICK h : h = blockHover(c)
  OBVIOUS
<1>4. h \in Control /\ h.press = c.press
  <2>1. h = [a EXCEPT !.hover = @ + 1]
    BY <1>1, <1>3 DEF blockHover
  <2> QED  BY <1>2, <2>1 DEF Control
<1>5. PICK b : b = setPressed(h, FALSE)
  OBVIOUS
<1>6. b \in Control /\ b.press = c.press
  BY <1>4, <1>5 DEF Control, setPressed
<1>7. PICK q : q = blockClick(blockPress(h))
  OBVIOUS
<1>8. q \in Control /\ q.press = c.press + 1
  <2>1. PICK r : r = [b EXCEPT !.press = @ + 1]
    OBVIOUS
  <2>2. r \in Control /\ r.press = c.press + 1
    BY <1>6, <2>1 DEF Control
  <2>3. q = [r EXCEPT !.click = @ + 1]
    BY <1>5, <1>7, <2>1 DEF blockPress, blockClick
  <2> QED  BY <2>2, <2>3 DEF Control
<1>9. PICK d : d = setDragged(q, FALSE)
  OBVIOUS
<1>10. d \in Control /\ d.press = c.press + 1
  BY <1>8, <1>9 DEF Control, setDragged
<1>11. PICK e : e = [d EXCEPT !.drag = @ + 1]
  OBVIOUS
<1>12. e \in Control /\ e.press = c.press + 1
  BY <1>10, <1>11 DEF Control
<1>13. blockInteraction(c) = [e EXCEPT !.disabled = TRUE]
  BY <1>3, <1>7, <1>9, <1>11 DEF blockInteraction, blockDrag
<1> QED
  BY <1>12, <1>13 DEF Control

\* The layer as LobbyLayer::init makes it of any lobby.
LEMMA InitialStands ==
  ASSUME NEW V, WellFormed(V), NEW g \in flags
  PROVE  LET L == initialLayer(V, g)
         IN  /\ Stands(L)
             /\ CleanMemory /\ isHost(local) => Shows(L, V)
<1> DEFINE L == initialLayer(V, g)
           x == [p \in V.profiles |-> [pos |-> home([shown |-> V.ppg], V, p), animations |-> << >>]]
           k == [e \in V.profiles \cup {LockButton, Arrows} |->
                   IF e \in V.profiles THEN playerControl(e, g) ELSE buttonControl(e, g)]
<1>1. V.profiles \subseteq Player /\ V.open \in BOOLEAN /\ V.ppg \in MinPlayersPerGame..MaxPlayersPerGame
  BY DEF WellFormed, LobbyType
<1>2. L = [views |-> x, control |-> k, shown |-> V.ppg, showsOpen |-> V.open,
           captured |-> Nothing, outcome |-> "running"]
  BY DEF initialLayer
<1> HIDE DEF L, x, k
<1>3. /\ L.views = x /\ L.control = k /\ L.shown = V.ppg /\ L.showsOpen = V.open
      /\ L.captured = Nothing /\ L.outcome = "running"
  BY <1>2
<1>4. isLayer(L)
  BY <1>2, <1>3 DEF isLayer
<1>5. viewed(L) = V.profiles /\ ElementsOf(L) = V.profiles \cup {LockButton, Arrows}
      /\ LockButton \notin V.profiles /\ Arrows \notin V.profiles
  BY <1>1, <1>3, Elements DEF viewed, ElementsOf, x
<1>6. /\ newControl(g) \in Control /\ newControl(g).press = 0
      /\ newControl(g).hover = 0 /\ ~newControl(g).disabled
      /\ CleanMemory => ~newControl(g).hovered
  BY NewControl
<1>7. \A e : buttonControl(e, g) \in Control
  BY <1>6, BlockedPress DEF buttonControl
<1>8. \A p : /\ playerControl(p, g) \in Control /\ ControlFits(playerControl(p, g), foreign(p))
             /\ CleanMemory => ~playerControl(p, g).dragged
  BY PlayerControl DEF ControlFits
<1>9. L.control \in [ElementsOf(L) -> Control] /\ L.control[LockButton] = buttonControl(LockButton, g)
  BY <1>3, <1>5, <1>7, <1>8 DEF k
<1>10. LockFits(L.control[LockButton])
  <2>1. isHost(local) => buttonControl(LockButton, g) = newControl(g)
    BY DEF buttonControl
  <2>2. ~isHost(local) => buttonControl(LockButton, g).press = 1
    <3>1. ~isHost(local) => buttonControl(LockButton, g) = blockInteraction(newControl(g))
      BY DEF buttonControl
    <3> QED  BY <1>6, <3>1, BlockedPress
  <2> QED  BY <1>6, <1>9, <2>1, <2>2 DEF LockFits
<1>11. \A p \in viewed(L) : L.views[p].animations = << >> /\ L.control[p] = playerControl(p, g)
                            /\ isShown(L.views[p])
  <2> TAKE p \in viewed(L)
  <2>1. L.views[p] = [pos |-> home([shown |-> V.ppg], V, p), animations |-> << >>]
        /\ L.control[p] = playerControl(p, g)
    BY <1>3, <1>5 DEF x, k
  <2>2. L.views[p].pos = home([shown |-> V.ppg], V, p) /\ L.views[p].animations = << >>
    BY <2>1
  <2> QED  BY <2>1, <2>2, EmptySequence DEF isShown
<1>12. \A p \in viewed(L) : ViewFits(L, p)
  <2> TAKE p \in viewed(L)
  <2>1. foreign(p) \in Nat
    BY DEF foreign
  <2>2. L.views[p].animations = << >>
    BY <1>11
  <2>3. Len(L.views[p].animations) + foreign(p) = foreign(p)
    BY <2>1, <2>2, EmptySequence
  <2> QED  BY <1>8, <1>11, <2>3 DEF ViewFits
<1>13. LayerFits(L)
  BY <1>1, <1>3, <1>4, <1>5, <1>9, <1>12 DEF LayerFits, ElementsOf
<1>14. ASSUME CleanMemory  PROVE DragFits(L)
  <2>1. \A p \in viewed(L) : p # Nothing
    BY <1>1, <1>5, Elements
  <2> QED  BY <1>3, <1>8, <1>11, <1>14, <2>1 DEF DragFits
<1>15. Stands(L)
  BY <1>1, <1>3, <1>10, <1>13, <1>14 DEF Stands, Fits
<1>16. ASSUME CleanMemory, isHost(local)  PROVE Shows(L, V)
  <2>1. ~L.control[LockButton].hovered
    BY <1>6, <1>9, <1>16 DEF buttonControl
  <2> QED  BY <1>3, <2>1 DEF Shows
<1> QED
  BY <1>15, <1>16 DEF L

-----------------------------------------------------------------------------
(* The copy *)

\* Whatever changes the players and their places keeps the lobby open or closed.
LEMMA OpenKept ==
  ASSUME NEW V, WellFormed(V)
  PROVE  /\ \A p \in V.profiles, s \in Seat :
              /\ WellFormed(movePlayerToSeatPosition(V, p, s))
              /\ movePlayerToSeatPosition(V, p, s).open = V.open
         /\ \A p, q \in Player : swapPlayersInView(V, p, q).open = V.open
         /\ \A p \in Player, s \in Seat : addPlayer(V, p, s).open = V.open
         /\ \A p \in Player : deletePlayer(V, p).open = V.open
         /\ \A v \in MinPlayersPerGame..MaxPlayersPerGame : playersPerGameChanged(V, v).open = V.open
<1>1. V \in LobbyType
  BY DEF WellFormed
<1>2. ASSUME NEW p \in V.profiles, NEW s \in Seat
      PROVE  /\ WellFormed(movePlayerToSeatPosition(V, p, s))
             /\ movePlayerToSeatPosition(V, p, s).open = V.open
  BY ChangeWellFormed DEF movePlayerToSeatPosition, Settings
<1>3. ASSUME NEW p \in Player, NEW q \in Player
      PROVE  swapPlayersInView(V, p, q).open = V.open
  BY <1>1 DEF swapPlayersInView, swapPlayersSeatPositions, LobbyType
<1>4. ASSUME NEW p \in Player, NEW s \in Seat
      PROVE  addPlayer(V, p, s).open = V.open
  BY <1>1 DEF addPlayer, place, LobbyType
<1>5. ASSUME NEW p \in Player
      PROVE  deletePlayer(V, p).open = V.open
  BY <1>1 DEF deletePlayer, LobbyType
<1>6. ASSUME NEW v \in MinPlayersPerGame..MaxPlayersPerGame
      PROVE  playersPerGameChanged(V, v).open = V.open
  <2>1. /\ WellFormed(clearDroppedSeats(V, v))
        /\ Settings(clearDroppedSeats(V, v)) = Settings(V)
    BY ClearDroppedSeatsWellFormed
  <2>2. clearDroppedSeats(V, v).open = V.open
    BY <2>1 DEF Settings
  <2>3. [clearDroppedSeats(V, v) EXCEPT !.ppg = v].open = clearDroppedSeats(V, v).open
    BY <2>1 DEF WellFormed, LobbyType
  <2> QED  BY <2>2, <2>3 DEF playersPerGameChanged
<1> QED
  BY <1>2, <1>3, <1>4, <1>5, <1>6

-----------------------------------------------------------------------------
(* The events that wait *)

\* The events of the lobby's screen.
ScreenEvent ==
  [type : {"Connected", "SeatChanged", "SeatRequest"}, id : Player, seat : Seat]
  \cup [type : {"Swapped", "SwapRequest"}, first : Player, second : Player]
  \cup [type : {"PlayersPerGameChanged", "PlayersPerGameRequest"},
        value : MinPlayersPerGame..MaxPlayersPerGame]
  \cup [type : {"LobbyOpenChanged", "OpenRequest"}, value : BOOLEAN]

\* What is told of the lobby, not asked of it.
isNews(e) == e.type \notin {"SeatRequest", "SwapRequest", "PlayersPerGameRequest", "OpenRequest"}

\* What one who is not the host may ask for.
Modest(e) ==
  ~isHost(local) => /\ e.type \notin {"SwapRequest", "PlayersPerGameRequest", "OpenRequest"}
                    /\ e.type = "SeatRequest" => e.id = local

\* An event of that type waits.
Holds(evs, type) == \E e \in Range(evs) : e.type = type

\* What an event carries, by its type.
LEMMA EventKinds ==
  ASSUME NEW e \in ScreenEvent
  PROVE  /\ e.type \in {"Connected", "SeatChanged", "SeatRequest"} => e.id \in Player /\ e.seat \in Seat
         /\ e.type \in {"Swapped", "SwapRequest"} => e.first \in Player /\ e.second \in Player
         /\ e.type \in {"PlayersPerGameChanged", "PlayersPerGameRequest"}
              => e.value \in MinPlayersPerGame..MaxPlayersPerGame
         /\ e.type \in {"LobbyOpenChanged", "OpenRequest"} => e.value \in BOOLEAN
BY DEF ScreenEvent

\* The events that are made are events, and each has the type it is named for.
LEMMA EventsMade ==
  /\ \A type \in {"Connected", "SeatChanged", "SeatRequest"}, p \in Player, s \in Seat :
       SeatChanged(type, p, s) \in ScreenEvent /\ SeatChanged(type, p, s).type = type
       /\ SeatChanged(type, p, s).id = p
  /\ \A type \in {"Swapped", "SwapRequest"}, p, q \in Player :
       Swapped(type, p, q) \in ScreenEvent /\ Swapped(type, p, q).type = type
  /\ \A type \in {"PlayersPerGameChanged", "PlayersPerGameRequest"},
        v \in MinPlayersPerGame..MaxPlayersPerGame :
       Value(type, v) \in ScreenEvent /\ Value(type, v).type = type
  /\ \A type \in {"LobbyOpenChanged", "OpenRequest"}, b \in BOOLEAN :
       Value(type, b) \in ScreenEvent /\ Value(type, b).type = type /\ Value(type, b).value = b
BY DEF ScreenEvent, SeatChanged, Swapped, Value

\* The elements of two sequences in a row.
LEMMA JoinedElements ==
  ASSUME NEW S, NEW s \in Seq(S), NEW t \in Seq(S)
  PROVE  s \o t \in Seq(S) /\ Range(s \o t) = Range(s) \cup Range(t)
<1>1. /\ Len(s) \in Nat /\ Len(t) \in Nat /\ DOMAIN s = 1..Len(s) /\ DOMAIN t = 1..Len(t)
      /\ s \o t \in Seq(S) /\ DOMAIN (s \o t) = 1..(Len(s) + Len(t))
      /\ \A i \in 1..(Len(s) + Len(t)) : (s \o t)[i] = IF i <= Len(s) THEN s[i] ELSE t[i - Len(s)]
  OBVIOUS
<1> DEFINE u == s \o t
<1> HIDE DEF u
<1>2. \A i \in DOMAIN u : u[i] \in Range(s) \cup Range(t)
  BY <1>1 DEF Range, u
<1>3. \A i \in DOMAIN s : i \in DOMAIN u /\ u[i] = s[i]
  BY <1>1 DEF u
<1>4. \A i \in DOMAIN t : i + Len(s) \in DOMAIN u /\ u[i + Len(s)] = t[i]
  BY <1>1 DEF u
<1>5. Range(u) \subseteq Range(s) \cup Range(t) /\ Range(s) \subseteq Range(u) /\ Range(t) \subseteq Range(u)
  BY <1>2, <1>3, <1>4 DEF Range
<1> QED
  BY <1>1, <1>5 DEF u

\* The first element of a sequence and the others.
LEMMA TailElements ==
  ASSUME NEW S, NEW s \in Seq(S), s # << >>
  PROVE  /\ Head(s) \in S /\ Tail(s) \in Seq(S)
         /\ Range(s) = {Head(s)} \cup Range(Tail(s))
<1>1. /\ Len(s) \in Nat /\ Len(s) > 0 /\ DOMAIN s = 1..Len(s) /\ Head(s) = s[1] /\ Head(s) \in S
      /\ Tail(s) \in Seq(S) /\ DOMAIN Tail(s) = 1..(Len(s) - 1)
      /\ \A i \in 1..(Len(s) - 1) : Tail(s)[i] = s[i + 1]
  OBVIOUS
<1> DEFINE u == Tail(s)
<1> HIDE DEF u
<1>2. \A i \in DOMAIN u : i + 1 \in DOMAIN s /\ u[i] = s[i + 1]
  BY <1>1 DEF u
<1>3. \A i \in DOMAIN s : i # 1 => i - 1 \in DOMAIN u /\ u[i - 1] = s[i]
  BY <1>1 DEF u
<1>4. 1 \in DOMAIN s
  BY <1>1
<1>5. Range(u) \subseteq Range(s) /\ Head(s) \in Range(s) /\ \A x \in Range(s) : x = Head(s) \/ x \in Range(u)
  BY <1>1, <1>2, <1>3, <1>4 DEF Range
<1> QED
  BY <1>1, <1>5 DEF u

\* The elements of the shortest sequences.
LEMMA SingleElement ==
  ASSUME NEW x
  PROVE  /\ Range(<< x >>) = {x} /\ Range(<< >>) = {}
         /\ \A S : << >> \in Seq(S) /\ (x \in S => << x >> \in Seq(S))
<1>1. DOMAIN << x >> = {1} /\ << x >>[1] = x /\ DOMAIN << >> = {}
  OBVIOUS
<1> QED
  BY <1>1 DEF Range

-----------------------------------------------------------------------------
(***************************************************************************)
(* The inductive invariant of LobbyScreen.                                 *)
(***************************************************************************)
EventsFit ==
  /\ events \in Seq(ScreenEvent)
  /\ \A e \in Range(events) : Modest(e)
  /\ phase = "receive" => ~Holds(events, "OpenRequest")

\* A record with the fields of the mouse.
isMouse(m) == m = [place |-> m.place, down |-> m.down, under |-> m.under]

\* What is under the mouse is an element of the layer.
MouseFits ==
  /\ isMouse(mouse)
  /\ mouse.under \in ElementsOf(layer) \cup {Nothing}
  /\ ~isHost(local) => mouse.under # Arrows

\* The lock button shows the lobby as it is, but for a change that is not handled yet.
LockShows ==
  CleanMemory /\ isHost(local) =>
    /\ mouse.under = LockButton => layer.control[LockButton].hovered
    /\ Shows(layer, copy) \/ (phase = "dispatch" /\ Holds(events, "LobbyOpenChanged"))

\* Nothing is asked for that is so already.
AsksNothingOld ==
  CleanMemory /\ phase = "input" =>
    \A e \in Range(events) : e.type = "OpenRequest" => e.value # copy.open

\* The copy is a lobby (the WellFormed of the server's).
CopyFits == local \in Player /\ WellFormed(copy)

ScreenInv ==
  /\ CopyFits /\ Stands(layer) /\ EventsFit /\ MouseFits /\ LockShows /\ AsksNothingOld
  /\ phase \in {"receive", "input", "dispatch"}

\* What the operators on a layer say of the next one is so in the next state.
LEMMA NextLayer ==
  ASSUME UNCHANGED local
  PROVE  /\ Stands(layer') => Stands(layer)'
         /\ Shows(layer', copy') => Shows(layer, copy)'
         /\ ElementsOf(layer') = ElementsOf(layer)'
         /\ \A e : Modest(e) => Modest(e)'
<1>1. Stands(layer') => Stands(layer)'
  BY DEF Stands, Fits, LayerFits, ViewFits, foreign, isForeign, DragFits, LockFits, isLayer, isShown,
         ControlFits, viewed, CleanMemory, isHost
<1> QED
  BY <1>1 DEF Shows, ElementsOf, viewed, Modest, isHost

\* Any arrangement of players that a snapshot brings is a lobby.
LEMMA ArrangementFits ==
  ASSUME NEW size \in StartSizes, NEW players \in SUBSET Player, NEW waiting \in SUBSET players,
         NEW queue \in SetToSeqs(waiting), NEW seatOf \in Injection(players \ waiting, 0..(size - 1))
  PROVE  WellFormed(initialArrangement(size, seatOf, queue))
<1> DEFINE V == initialArrangement(size, seatOf, queue)
           playerAt == [s \in Seat |-> IF s \in Range(seatOf)
                                       THEN CHOOSE p \in DOMAIN seatOf : seatOf[p] = s ELSE Nobody]
           places == [p \in Player |-> IF p \in DOMAIN seatOf THEN seatOf[p] ELSE Nowhere]
           seated == DOMAIN seatOf
<1>1. /\ size \in 2..4 /\ seatOf \in [players \ waiting -> 0..(size - 1)]
      /\ \A a, b \in players \ waiting : seatOf[a] = seatOf[b] => a = b
      /\ seated = players \ waiting /\ seated \subseteq Player
  BY ScreenAssumption DEF Injection, IsInjective, MinPlayersPerGame, MaxPlayersPerGame
<1>2. queue \in Seq(Player) /\ Ids(queue) \subseteq Player
  <2>1. waiting \subseteq Player /\ IsFiniteSet(waiting) /\ Cardinality(waiting) \in Nat
    BY ScreenAssumption, FS_Subset, FS_CardinalityType
  <2>2. queue \in [1..Cardinality(waiting) -> waiting]
    BY DEF SetToSeqs
  <2> QED  BY <2>1, <2>2 DEF Ids
<1>3. V = [seats |-> [playerAt |-> playerAt, seatOf |-> places], queue |-> queue,
           profiles |-> seated \cup Ids(queue), open |-> TRUE, canMove |-> TRUE, ppg |-> size,
           hostId |-> Nobody]
  <2>1. PICK c : c = seated \cup Ids(queue)
    OBVIOUS
  <2>2. PICK d : d = [playerAt |-> playerAt, seatOf |-> places]
    OBVIOUS
  <2>3. V = [initialLobby EXCEPT !.ppg = size, !.queue = queue, !.profiles = c, !.seats = d]
    BY <2>1, <2>2 DEF initialArrangement
  <2> HIDE DEF V, playerAt, places, seated
  <2>4. PICK W : W = [initialLobby EXCEPT !.ppg = size, !.queue = queue]
    OBVIOUS
  <2>5. V = [W EXCEPT !.profiles = c, !.seats = d]
    BY <2>3, <2>4
  <2>6. W = [seats |-> emptySeats, queue |-> queue, profiles |-> {}, open |-> TRUE,
             canMove |-> TRUE, ppg |-> size, hostId |-> Nobody]
    BY <2>4 DEF initialLobby
  <2>7. V = [seats |-> d, queue |-> queue, profiles |-> c, open |-> TRUE,
             canMove |-> TRUE, ppg |-> size, hostId |-> Nobody]
    BY <2>5, <2>6
  <2> QED  BY <2>1, <2>2, <2>7
<1>4. \A s \in Range(seatOf) : \E p \in seated : seatOf[p] = s
  BY DEF Range
<1>5. \A p \in seated : seatOf[p] \in Range(seatOf) /\ seatOf[p] \in Seat
                        /\ seatOf[p] # Nowhere
  BY <1>1 DEF Range, Seat, QueueSeat, MaxPlayersPerGame, Nowhere
<1>6. \A s \in Range(seatOf) : playerAt[s] \in seated /\ seatOf[playerAt[s]] = s
  <2> TAKE s \in Range(seatOf)
  <2>1. s \in Seat
    BY <1>4, <1>5
  <2>2. playerAt[s] = CHOOSE p \in DOMAIN seatOf : seatOf[p] = s
    BY <2>1
  <2> HIDE DEF playerAt
  <2> QED  BY <1>4, <2>2
<1>7. \A s \in Seat \ Range(seatOf) : playerAt[s] = Nobody
  OBVIOUS
<1>8. DOMAIN playerAt = Seat /\ playerAt = [s \in Seat |-> playerAt[s]]
  OBVIOUS
<1>9. places \in [Player -> Seat \cup {Nowhere}]
  BY <1>5
<1>10. \A p \in Player : places[p] = IF p \in seated THEN seatOf[p] ELSE Nowhere
  OBVIOUS
<1> HIDE DEF playerAt, places, V, seated
<1>11. playerAt \in [Seat -> Player \cup {Nobody}]
  BY <1>1, <1>6, <1>7, <1>8
<1>12. Nowhere \notin Seat /\ Nobody \notin Player
  BY PlayerAssumption DEF Nowhere, Seat, QueueSeat, MaxPlayersPerGame, Nobody
<1>13. \A p \in Player, s \in Seat : places[p] = s <=> playerAt[s] = p
  <2> TAKE p \in Player, s \in Seat
  <2>1. ASSUME places[p] = s  PROVE playerAt[s] = p
    <3>1. p \in seated /\ seatOf[p] = s
      BY <1>10, <1>12, <2>1
    <3> QED  BY <1>1, <1>5, <1>6, <3>1
  <2>2. ASSUME playerAt[s] = p  PROVE places[p] = s
    BY <1>6, <1>7, <1>10, <1>12, <2>2
  <2> QED  BY <2>1, <2>2
<1>14. /\ V.seats = [playerAt |-> playerAt, seatOf |-> places] /\ V.queue = queue
       /\ V.profiles = seated \cup Ids(queue) /\ V.ppg = size
       /\ V.seats.playerAt = playerAt /\ V.seats.seatOf = places
  BY <1>3
<1>15. V \in LobbyType
  BY <1>1, <1>2, <1>3, <1>9, <1>11 DEF LobbyType, SeatPositionsType, MinPlayersPerGame, MaxPlayersPerGame
<1>16. MapsInverse(V.seats)
  BY <1>13, <1>14 DEF MapsInverse
<1> QED
  BY <1>10, <1>14, <1>15, <1>16 DEF WellFormed, V

\* The screen begins as the invariant wants it.
LEMMA InitScreenInv ==
  ASSUME ScreenInit
  PROVE  ScreenInv
<1>1. PICK size \in StartSizes, players \in {ps \in SUBSET Player : {HostProfile, local} \subseteq ps} :
      \E waiting \in SUBSET players, g \in flags :
      \E queue \in SetToSeqs(waiting), seatOf \in Injection(players \ waiting, 0..(size - 1)) :
        /\ copy = initialArrangement(size, seatOf, queue)
        /\ layer = initialLayer(copy, g)
  BY DEF ScreenInit
<1>2. PICK waiting \in SUBSET players, g \in flags :
      \E queue \in SetToSeqs(waiting), seatOf \in Injection(players \ waiting, 0..(size - 1)) :
        /\ copy = initialArrangement(size, seatOf, queue)
        /\ layer = initialLayer(copy, g)
  BY <1>1
<1>3. WellFormed(copy) /\ layer = initialLayer(copy, g)
  BY <1>1, <1>2, ArrangementFits
<1>4. local \in Player /\ CopyFits
  BY <1>3, LayerAssumption DEF ScreenInit, CopyFits
<1>5. Stands(layer) /\ (CleanMemory /\ isHost(local) => Shows(layer, copy))
  BY <1>3, InitialStands
<1>6. /\ mouse = [place |-> at("floor"), down |-> FALSE, under |-> Nothing]
      /\ events = << >> /\ phase = "receive"
  BY DEF ScreenInit
<1>7. EventsFit
  BY <1>6, SingleElement DEF EventsFit, Holds
<1>8. mouse.under = Nothing /\ MouseFits
  BY <1>6, Elements DEF MouseFits, isMouse
<1>9. LockShows /\ AsksNothingOld
  BY <1>5, <1>6, <1>8, Elements DEF LockShows, AsksNothingOld
<1> QED
  BY <1>4, <1>5, <1>6, <1>7, <1>8, <1>9 DEF ScreenInv

\* More events wait: what is new is no news of an open lobby, or fits.
LEMMA MoreEvents ==
  ASSUME EventsFit, UNCHANGED local, NEW t \in Seq(ScreenEvent), events' = events \o t,
         \A e \in Range(t) : Modest(e),
         phase' = "receive" => phase = "receive" /\ ~Holds(t, "OpenRequest")
  PROVE  EventsFit' /\ Range(events') = Range(events) \cup Range(t)
<1>1. events' \in Seq(ScreenEvent) /\ Range(events') = Range(events) \cup Range(t)
  BY JoinedElements DEF EventsFit
<1>2. \A e \in Range(events') : Modest(e)'
  BY <1>1, NextLayer DEF EventsFit
<1>3. phase' = "receive" => ~Holds(events', "OpenRequest")
  BY <1>1 DEF EventsFit, Holds
<1>4. ~Holds(events', "OpenRequest") => ~Holds(events, "OpenRequest")'
  BY DEF Holds
<1> QED
  BY <1>1, <1>2, <1>3, <1>4 DEF EventsFit

\* The same mouse, with its button up or down, over a layer that keeps its views.
LEMMA MouseStays ==
  ASSUME MouseFits, UNCHANGED local, isMouse(mouse'), mouse'.under = mouse.under,
         viewed(layer) \subseteq viewed(layer')
  PROVE  MouseFits'
<1>1. isMouse(mouse)'
  BY DEF isMouse
<1> QED
  BY <1>1 DEF MouseFits, ElementsOf, viewed, isHost

\* The lock button looks the same, and so does the lobby.
LEMMA LockStays ==
  ASSUME ScreenInv, UNCHANGED local, Steady(layer, layer'), mouse'.under = mouse.under,
         isHost(local) => copy'.open = copy.open,
         Holds(events, "LobbyOpenChanged") => Holds(events', "LobbyOpenChanged"),
         phase = "dispatch" => phase' = "dispatch" \/ ~Holds(events, "LobbyOpenChanged")
  PROVE  Stands(layer)' /\ LockShows'
<1>1. Stands(layer)'
  BY NextLayer DEF Steady
<1>2. ASSUME CleanMemory, isHost(local)
      PROVE  /\ mouse'.under = LockButton => layer'.control[LockButton].hovered
             /\ Shows(layer', copy') \/ (phase' = "dispatch" /\ Holds(events', "LobbyOpenChanged"))
  <2>1. mouse.under = LockButton => layer.control[LockButton].hovered
    BY <1>2 DEF ScreenInv, LockShows
  <2>2. Shows(layer, copy) => Shows(layer', copy')
    BY <1>2 DEF Steady, Shows
  <2>3. Shows(layer, copy) \/ (phase = "dispatch" /\ Holds(events, "LobbyOpenChanged"))
    BY <1>2 DEF ScreenInv, LockShows
  <2> QED  BY <2>1, <2>2, <2>3 DEF Steady
<1>3. Holds(events', "LobbyOpenChanged") => Holds(events, "LobbyOpenChanged")'
  BY DEF Holds
<1>4. LockShows'
  BY <1>2, <1>3, NextLayer DEF LockShows, CleanMemory, isHost
<1> QED
  BY <1>1, <1>4

\* A layer that is left alone.
LEMMA SteadySelf ==
  ASSUME NEW L, Stands(L)
  PROVE  Steady(L, L)
BY DEF Steady

\* What a packet changes of the copy, and what it tells.
LEMMA PacketChanges ==
  ASSUME CopyFits, ReceivePacket
  PROVE  /\ WellFormed(copy') /\ (isHost(local) => copy'.open = copy.open)
         /\ \E t \in Seq(ScreenEvent) : events' = events \o t /\ \A e \in Range(t) : isNews(e)
<1>1. WellFormed(copy) /\ copy.profiles \subseteq Player /\ copy \in LobbyType /\ copy.open \in BOOLEAN
      /\ copy.ppg \in MinPlayersPerGame..MaxPlayersPerGame
  BY DEF CopyFits, WellFormed, LobbyType
<1>2. (QueueSeat..(copy.ppg - 1)) \subseteq Seat
  BY <1>1 DEF Seat, MinPlayersPerGame, MaxPlayersPerGame, QueueSeat
<1> DEFINE Told(V, t) ==
      /\ copy' = V /\ events' = events \o t /\ t \in Seq(ScreenEvent) /\ \A e \in Range(t) : isNews(e)
<1>3. ASSUME NEW V, NEW e \in ScreenEvent, isNews(e), receives(V, << e >>)
      PROVE  Told(V, << e >>)
  BY <1>3, SingleElement DEF receives
<1>4. ASSUME NEW i, NotifySeatPositionsChanged(i)  PROVE \E V, t : Told(V, t) /\ WellFormed(V) /\ V.open = copy.open
  <2>1. PICK p \in copy.profiles, s \in QueueSeat..(copy.ppg - 1) :
          receives(applySeatPositionsChanged(copy, p, s).view, << SeatChanged("SeatChanged", p, s) >>)
    BY <1>4 DEF NotifySeatPositionsChanged
  <2> DEFINE V == applySeatPositionsChanged(copy, p, s).view
  <2>2. V \in {copy, movePlayerToSeatPosition(copy, p, s)}
    BY DEF applySeatPositionsChanged
  <2>3. s \in Seat /\ WellFormed(V) /\ V.open = copy.open
    BY <1>1, <1>2, <2>2, OpenKept
  <2>4. SeatChanged("SeatChanged", p, s) \in ScreenEvent /\ isNews(SeatChanged("SeatChanged", p, s))
    BY <1>1, <2>3, EventsMade DEF isNews
  <2> HIDE DEF V, Told
  <2> QED  BY <1>3, <2>1, <2>3, <2>4 DEF V
<1>5. ASSUME NEW i, NotifySeatPositionsSwapped(i)  PROVE \E V, t : Told(V, t) /\ WellFormed(V) /\ V.open = copy.open
  <2>1. PICK p \in copy.profiles, q \in copy.profiles :
          receives(applySeatPositionsSwapped(copy, p, q).view, << Swapped("Swapped", p, q) >>)
    BY <1>5 DEF NotifySeatPositionsSwapped
  <2> DEFINE V == applySeatPositionsSwapped(copy, p, q).view
  <2>2. \/ V = copy
        \/ /\ V = swapPlayersInView(copy, p, q)
           /\ getPlayerSeatIndex(copy, p) # Nowhere /\ getPlayerSeatIndex(copy, q) # Nowhere
    BY DEF applySeatPositionsSwapped
  <2>3. WellFormed(V) /\ V.open = copy.open
    BY <1>1, <2>2, OpenKept, SwapInViewWellFormed
  <2>4. Swapped("Swapped", p, q) \in ScreenEvent /\ isNews(Swapped("Swapped", p, q))
    BY <1>1, EventsMade DEF isNews
  <2> HIDE DEF V, Told
  <2> QED  BY <1>3, <2>1, <2>3, <2>4 DEF V
<1>6. ASSUME NEW i, NotifyPlayersPerGameChanged(i)  PROVE \E V, t : Told(V, t) /\ WellFormed(V) /\ V.open = copy.open
  <2>1. PICK v \in MinPlayersPerGame..MaxPlayersPerGame :
          receives(applyPlayersPerGameChange(copy, v).view, << Value("PlayersPerGameChanged", v) >>)
    BY <1>6 DEF NotifyPlayersPerGameChanged
  <2> DEFINE V == applyPlayersPerGameChange(copy, v).view
  <2>2. V = playersPerGameChanged(copy, v)
    BY DEF applyPlayersPerGameChange
  <2>3. WellFormed(V) /\ V.open = copy.open
    BY <1>1, <2>2, OpenKept, PlayersPerGameWellFormed
  <2>4. Value("PlayersPerGameChanged", v) \in ScreenEvent /\ isNews(Value("PlayersPerGameChanged", v))
    BY EventsMade DEF isNews
  <2> HIDE DEF V, Told
  <2> QED  BY <1>3, <2>1, <2>3, <2>4 DEF V
<1>7. ASSUME NEW i \in copy.profiles \ {local}, NotifyLobbyOpenStateChanged(i)
      PROVE  \E V, t : Told(V, t) /\ WellFormed(V) /\ ~isHost(local)
  <2>1. receives(applyLobbyOpenState(copy, ~copy.open).view, << Value("LobbyOpenChanged", ~copy.open) >>)
        /\ isHost(i)
    BY <1>7 DEF NotifyLobbyOpenStateChanged
  <2> DEFINE V == applyLobbyOpenState(copy, ~copy.open).view
  <2>2. V = lobbyOpenChanged(copy, ~copy.open)
    BY DEF applyLobbyOpenState
  <2>3. WellFormed(V)
    BY <1>1, <2>2, LobbyOpenWellFormed
  <2>4. Value("LobbyOpenChanged", ~copy.open) \in ScreenEvent /\ isNews(Value("LobbyOpenChanged", ~copy.open))
    BY <1>1, EventsMade DEF isNews
  <2>5. ~isHost(local)
    BY <2>1 DEF isHost
  <2> HIDE DEF V, Told
  <2> QED  BY <1>3, <2>1, <2>3, <2>4, <2>5 DEF V
<1>8. ASSUME NotifyPlayerConnected  PROVE \E V, t : Told(V, t) /\ WellFormed(V) /\ V.open = copy.open
  <2>1. PICK p \in Player :
          /\ applyPlayerConnected(copy, p, QueueSeat).outcome = "applied"
          /\ receives(applyPlayerConnected(copy, p, QueueSeat).view, << SeatChanged("Connected", p, QueueSeat) >>)
    BY <1>8 DEF NotifyPlayerConnected
  <2> DEFINE V == applyPlayerConnected(copy, p, QueueSeat).view
  <2>2. V = addPlayer(copy, p, QueueSeat)
    BY <2>1 DEF applyPlayerConnected
  <2>3. QueueSeat \in Seat /\ WellFormed(V) /\ V.open = copy.open
    <3>1. QueueSeat \in Seat
      BY DEF QueueSeat, Seat, MaxPlayersPerGame
    <3> QED  BY <1>1, <2>2, <3>1, OpenKept, AddPlayerWellFormed
  <2>4. SeatChanged("Connected", p, QueueSeat) \in ScreenEvent /\ isNews(SeatChanged("Connected", p, QueueSeat))
    BY <2>3, EventsMade DEF isNews
  <2> HIDE DEF V, Told
  <2> QED  BY <1>3, <2>1, <2>3, <2>4 DEF V
<1>9. ASSUME NotifyPlayerDisconnected  PROVE \E V, t : Told(V, t) /\ WellFormed(V) /\ V.open = copy.open
  <2>1. PICK p \in copy.profiles : receives(deletePlayer(copy, p), << >>)
    BY <1>9 DEF NotifyPlayerDisconnected
  <2>2. WellFormed(deletePlayer(copy, p)) /\ deletePlayer(copy, p).open = copy.open
    BY <1>1, OpenKept, DeletePlayerCorrect
  <2>3. Told(deletePlayer(copy, p), << >>)
    BY <2>1, SingleElement DEF receives
  <2> HIDE DEF Told
  <2> QED  BY <2>2, <2>3
<1>10. \/ NotifyPlayerConnected \/ NotifyPlayerDisconnected
       \/ \E i \in copy.profiles \ {local} :
            \/ NotifySeatPositionsChanged(i)  \/ NotifySeatPositionsSwapped(i)
            \/ NotifyPlayersPerGameChanged(i) \/ NotifyLobbyOpenStateChanged(i)
  BY DEF ReceivePacket
<1> HIDE DEF Told
<1>11. \E V, t : Told(V, t) /\ WellFormed(V) /\ (isHost(local) => V.open = copy.open)
  BY <1>4, <1>5, <1>6, <1>7, <1>8, <1>9, <1>10
<1> QED
  BY <1>11 DEF Told

\* A packet of the others.
LEMMA ReceiveStep ==
  ASSUME ScreenInv, ReceivePacket
  PROVE  ScreenInv'
<1>1. /\ phase = "receive" /\ UNCHANGED <<local, layer, mouse, phase>>
  BY DEF ReceivePacket, In
<1>2. WellFormed(copy') /\ (isHost(local) => copy'.open = copy.open)
  BY PacketChanges DEF ScreenInv
<1>3. PICK t \in Seq(ScreenEvent) : events' = events \o t /\ \A e \in Range(t) : isNews(e)
  BY PacketChanges DEF ScreenInv
<1>4. EventsFit' /\ Range(events') = Range(events) \cup Range(t)
  <2>1. (\A e \in Range(t) : Modest(e)) /\ ~Holds(t, "OpenRequest")
    BY <1>3 DEF Modest, isNews, Holds
  <2> QED  BY <1>1, <1>3, <2>1, MoreEvents DEF ScreenInv
<1>5. CopyFits'
  <2>1. WellFormed(copy') => WellFormed(copy)'
    BY DEF WellFormed
  <2> QED  BY <1>1, <1>2, <2>1 DEF ScreenInv, CopyFits
<1>6. MouseFits'
  BY <1>1, MouseStays DEF ScreenInv, MouseFits
<1>7. Stands(layer)' /\ LockShows'
  <2>1. Holds(events, "LobbyOpenChanged") => Holds(events', "LobbyOpenChanged")
    BY <1>4 DEF Holds
  <2>2. Steady(layer, layer')
    BY <1>1, SteadySelf DEF ScreenInv
  <2> QED  BY <1>1, <1>2, <2>1, <2>2, LockStays
<1>8. AsksNothingOld' /\ phase' = "receive"
  BY <1>1 DEF AsksNothingOld
<1> QED
  BY <1>4, <1>5, <1>6, <1>7, <1>8 DEF ScreenInv

\* A layer whose program ends.
LEMMA AbortSteady ==
  ASSUME NEW L, Stands(L), NEW why
  PROVE  Steady(L, abort(L, why))
BY AbortFits, OnlyViewsHandled, HandledSteady DEF Stands

\* There are only the layer's elements under the mouse, no arrows unless the player is the host.
LEMMA ElementsUnderMouse ==
  ASSUME NEW spot
  PROVE  /\ elementsAt(layer, spot) \subseteq ElementsOf(layer) \cup {Floor, Nothing}
         /\ ~isHost(local) => Arrows \notin elementsAt(layer, spot) \/ Arrows \in viewed(layer)
<1> DEFINE there  == {p \in viewed(layer) : layer.views[p].pos = spot}
           flying == {p \in viewed(layer) : layer.views[p].pos = air}
           under  == CASE spot.at = "lock"    -> LockButton
                       [] spot.at = "arrows" /\ isHost(local) -> Arrows
                       [] spot.at = "outside" -> Nothing
                       [] OTHER                -> Floor
<1>1. elementsAt(layer, spot) = IF spot.at = "outside" THEN {Nothing}
                                ELSE flying \cup IF there # {} THEN there ELSE {under}
  BY DEF elementsAt
<1>2. there \subseteq viewed(layer) /\ flying \subseteq viewed(layer)
  OBVIOUS
<1>3. under \in {LockButton, Arrows, Floor, Nothing} /\ (~isHost(local) => under # Arrows)
  BY Elements
<1> HIDE DEF there, flying, under
<1>4. elementsAt(layer, spot) \subseteq viewed(layer) \cup {under, Nothing}
  BY <1>1, <1>2
<1> QED
  BY <1>3, <1>4, Elements DEF ElementsOf

\* Another element comes under the mouse.
LEMMA UnderMouseStands ==
  ASSUME ScreenInv, NEW e \in ElementsOf(layer) \cup {Floor, Nothing}, underMouse(e)
  PROVE  /\ Stands(layer') /\ viewed(layer') = viewed(layer)
         /\ isHost(local) /\ Shows(layer, copy) => Shows(layer', copy)
         /\ isHost(local) /\ e = LockButton => layer'.control[LockButton].hovered
<1> DEFINE off == IF mouse.under = Nothing THEN layer ELSE hover(layer, copy, mouse.under, FALSE)
<1>1. /\ Stands(layer) /\ WellFormed(copy)
      /\ mouse.under \in ElementsOf(layer) \cup {Nothing}
  BY DEF ScreenInv, CopyFits, MouseFits
<1>2. /\ Stands(off) /\ viewed(off) = viewed(layer)
      /\ isHost(local) /\ Shows(layer, copy) => Shows(off, copy)
  <2>1. ASSUME mouse.under # Nothing
        PROVE  HoverKeeps(layer, copy, mouse.under, FALSE, off)
    <3>1. off = hover(layer, copy, mouse.under, FALSE)
      BY <2>1
    <3>2. mouse.under \in ElementsOf(layer)
      BY <1>1, <2>1
    <3>3. HoverKeeps(layer, copy, mouse.under, FALSE, hover(layer, copy, mouse.under, FALSE))
      BY <1>1, <3>2, HoverStands
    <3> HIDE DEF off
    <3> QED  BY <3>1, <3>3
  <2>2. mouse.under = Nothing => off = layer
    OBVIOUS
  <2> HIDE DEF off
  <2> QED  BY <1>1, <2>1, <2>2 DEF HoverKeeps
<1>3. layer' = IF e = mouse.under THEN IF e = Nothing THEN layer ELSE hover(layer, copy, e, TRUE)
               ELSE CASE e = Nothing -> abort(off, "nullElement")
                      [] e = Floor   -> off
                      [] OTHER       -> hover(off, copy, e, TRUE)
  BY DEF underMouse
<1> HIDE DEF off
<1>4. CASE e = Nothing
  <2>1. layer' = layer \/ layer' = abort(off, "nullElement")
    <3>1. CASE e = mouse.under
      BY <1>3, <1>4, <3>1
    <3>2. CASE e # mouse.under
      BY <1>3, <1>4, <3>2, Elements
    <3> QED  BY <3>1, <3>2
  <2>2. Steady(off, abort(off, "nullElement")) /\ viewed(abort(off, "nullElement")) = viewed(off)
    BY <1>2, AbortSteady, AbortFits DEF Stands, OnlyViews
  <2>3. Shows(off, copy) => Shows(abort(off, "nullElement"), copy)
    BY <2>2 DEF Steady, Shows
  <2> QED  BY <1>1, <1>2, <1>4, <2>1, <2>2, <2>3, Elements DEF Steady
<1>5. CASE e = Floor
  <2>1. layer' = off
    BY <1>1, <1>3, <1>5, Elements DEF ElementsOf, Stands, Fits, LayerFits
  <2> QED  BY <1>2, <1>5, <2>1, Elements
<1>6. CASE e \in ElementsOf(layer)
  <2>1. e # Nothing /\ e # Floor
    BY <1>1, <1>6, Elements DEF ElementsOf, Stands, Fits, LayerFits
  <2>2. e \in ElementsOf(off)
    BY <1>2, <1>6 DEF ElementsOf
  <2>3. CASE e = mouse.under
    <3>1. layer' = hover(layer, copy, e, TRUE)
      BY <1>3, <2>1, <2>3
    <3>2. HoverKeeps(layer, copy, e, TRUE, hover(layer, copy, e, TRUE))
      BY <1>1, <1>6, HoverStands
    <3> QED  BY <3>1, <3>2 DEF HoverKeeps
  <2>4. CASE e # mouse.under
    <3>1. layer' = hover(off, copy, e, TRUE)
      BY <1>3, <2>1, <2>4
    <3>2. HoverKeeps(off, copy, e, TRUE, hover(off, copy, e, TRUE))
      BY <1>1, <1>2, <2>2, HoverStands
    <3> QED  BY <1>2, <3>1, <3>2 DEF HoverKeeps
  <2> QED  BY <2>3, <2>4
<1> QED
  BY <1>4, <1>5, <1>6

\* The beginning of the input: nothing that waits asks to open the lobby.
LEMMA InputBegins ==
  ASSUME ScreenInv, phase = "receive", phase' = "input", UNCHANGED <<local, copy, events>>
  PROVE  CopyFits' /\ EventsFit' /\ AsksNothingOld'
<1>1. ~Holds(events, "OpenRequest")
  BY DEF ScreenInv, EventsFit
<1>2. CopyFits' /\ EventsFit'
  BY NextLayer DEF ScreenInv, CopyFits, WellFormed, EventsFit
<1>3. AsksNothingOld'
  BY <1>1 DEF AsksNothingOld, Holds
<1> QED
  BY <1>2, <1>3

\* IScene::mouseInputUpdate.
LEMMA MouseMoves ==
  ASSUME ScreenInv, MouseInputUpdate
  PROVE  ScreenInv'
<1>1. /\ phase = "receive" /\ phase' = "input" /\ UNCHANGED <<local, copy, events>>
  BY DEF MouseInputUpdate, In
<1>2. CopyFits' /\ EventsFit' /\ AsksNothingOld'
  BY <1>1, InputBegins
<1>3. Stands(layer) /\ isMouse(mouse) /\ mouse.under \in ElementsOf(layer) \cup {Nothing}
  BY DEF ScreenInv, MouseFits
<1>4. PICK spot \in Places :
       IF isDragging
       THEN dragTo(spot) /\ mouse' = [mouse EXCEPT !.place = spot]
       ELSE IF mouse.under # Nothing /\ layer.control[mouse.under].pressed
       THEN UNCHANGED layer /\ mouse' = [mouse EXCEPT !.place = spot]
       ELSE \E e \in elementsAt(layer, spot) :
              /\ underMouse(e)
              /\ mouse' = [mouse EXCEPT !.place = spot, !.under = IF e = Floor THEN Nothing ELSE e]
  BY DEF MouseInputUpdate
<1>5. ASSUME mouse' = [mouse EXCEPT !.place = spot], Steady(layer, layer')
      PROVE  Stands(layer)' /\ MouseFits' /\ LockShows'
  <2>1. isMouse(mouse') /\ mouse'.under = mouse.under
    BY <1>3, <1>5 DEF isMouse
  <2>2. MouseFits'
    BY <1>1, <1>5, <2>1, MouseStays DEF ScreenInv, Steady
  <2> QED  BY <1>1, <1>5, <2>1, <2>2, LockStays
<1>6. CASE isDragging
  <2>1. layer' = layer \/ layer' = [layer EXCEPT !.views[layer.captured].pos = air]
    BY <1>4, <1>6 DEF dragTo
  <2>2. layer.captured \in viewed(layer)
    BY <1>3, <1>6 DEF isDragging, Stands, Fits, LayerFits
  <2>3. Steady(layer, layer')
    BY <1>3, <2>1, <2>2, MovedSteady, SteadySelf
  <2> QED  BY <1>1, <1>2, <1>4, <1>5, <1>6, <2>3 DEF ScreenInv
<1>7. CASE ~isDragging /\ mouse.under # Nothing /\ layer.control[mouse.under].pressed
  <2>1. Steady(layer, layer')
    BY <1>3, <1>4, <1>7, SteadySelf
  <2> QED  BY <1>1, <1>2, <1>4, <1>5, <1>7, <2>1 DEF ScreenInv
<1>8. CASE ~isDragging /\ ~(mouse.under # Nothing /\ layer.control[mouse.under].pressed)
  <2>1. PICK e \in elementsAt(layer, spot) :
          /\ underMouse(e)
          /\ mouse' = [mouse EXCEPT !.place = spot, !.under = IF e = Floor THEN Nothing ELSE e]
    BY <1>4, <1>8
  <2>2. e \in ElementsOf(layer) \cup {Floor, Nothing}
    BY ElementsUnderMouse
  <2>3. /\ Stands(layer') /\ viewed(layer') = viewed(layer)
        /\ isHost(local) /\ Shows(layer, copy) => Shows(layer', copy)
        /\ isHost(local) /\ e = LockButton => layer'.control[LockButton].hovered
    BY <2>1, <2>2, UnderMouseStands
  <2>4. isMouse(mouse') /\ mouse'.under = IF e = Floor THEN Nothing ELSE e
    <3>1. PICK w : w = IF e = Floor THEN Nothing ELSE e
      OBVIOUS
    <3>2. PICK a, b, c : mouse = [place |-> a, down |-> b, under |-> c]
      BY <1>3 DEF isMouse
    <3>3. mouse' = [place |-> spot, down |-> b, under |-> w]
      BY <2>1, <3>1, <3>2
    <3>4. mouse'.place = spot /\ mouse'.down = b /\ mouse'.under = w
      BY <3>3
    <3> QED  BY <3>1, <3>3, <3>4 DEF isMouse
  <2>5. MouseFits'
    <3>1. isMouse(mouse)'
      BY <2>4 DEF isMouse
    <3>2. ElementsOf(layer)' = ElementsOf(layer)
      BY <2>3 DEF ElementsOf, viewed
    <3>3. ~isHost(local) => e # Arrows
      BY <1>3, ElementsUnderMouse, Elements DEF Stands, Fits, LayerFits
    <3>4. Nothing # Arrows
      BY Elements
    <3> QED  BY <1>1, <2>2, <2>4, <3>1, <3>2, <3>3, <3>4 DEF MouseFits, isHost
  <2>6. Stands(layer)'
    BY <1>1, <2>3, NextLayer
  <2>7. LockShows'
    <3>1. ASSUME CleanMemory, isHost(local)
          PROVE  Shows(layer', copy') /\ (mouse'.under = LockButton => layer'.control[LockButton].hovered)
      <4>1. Shows(layer, copy)
        BY <1>1, <3>1 DEF ScreenInv, LockShows
      <4> QED  BY <1>1, <2>3, <2>4, <3>1, <4>1, Elements
    <3> QED  BY <1>1, <3>1, NextLayer DEF LockShows, CleanMemory, isHost
  <2> QED  BY <1>1, <1>2, <2>5, <2>6, <2>7 DEF ScreenInv
<1> QED
  BY <1>6, <1>7, <1>8

\* Two changes that keep the lock button are one.
LEMMA SteadyTwice ==
  ASSUME NEW L, NEW M, NEW N, Steady(L, M), Steady(M, N)
  PROVE  Steady(L, N)
BY DEF Steady

\* The mouse's own button goes up or down.
LEMMA ButtonOnly ==
  ASSUME isMouse(mouse), NEW v, mouse' = [mouse EXCEPT !.down = v]
  PROVE  isMouse(mouse') /\ mouse'.under = mouse.under
BY DEF isMouse

\* A step of the user in the phase of the input: what it asks for is modest and not old.
LEMMA InputStep ==
  ASSUME ScreenInv, phase = "input", phase' = "input", UNCHANGED <<local, copy>>,
         Steady(layer, layer'), isMouse(mouse'), mouse'.under = mouse.under,
         NEW t \in Seq(ScreenEvent), events' = events \o t, \A e \in Range(t) : Modest(e),
         CleanMemory => \A e \in Range(t) : e.type = "OpenRequest" => e.value # copy.open
  PROVE  ScreenInv'
<1>1. CopyFits'
  BY DEF ScreenInv, CopyFits, WellFormed
<1>2. EventsFit' /\ Range(events') = Range(events) \cup Range(t)
  BY MoreEvents DEF ScreenInv
<1>3. MouseFits'
  BY MouseStays DEF ScreenInv, Steady
<1>4. Stands(layer)' /\ LockShows'
  <2>1. Holds(events, "LobbyOpenChanged") => Holds(events', "LobbyOpenChanged")
    BY <1>2 DEF Holds
  <2> QED  BY <2>1, LockStays
<1>5. AsksNothingOld'
  <2>1. ASSUME CleanMemory
        PROVE  \A e \in Range(events') : e.type = "OpenRequest" => e.value # copy'.open
    BY <1>2, <2>1 DEF ScreenInv, AsksNothingOld
  <2> QED  BY <2>1 DEF AsksNothingOld, CleanMemory
<1> QED
  BY <1>1, <1>2, <1>3, <1>4, <1>5 DEF ScreenInv

\* A step that asks for nothing adds no event.
LEMMA NothingAsked ==
  ASSUME ScreenInv, UNCHANGED events
  PROVE  << >> \in Seq(ScreenEvent) /\ events' = events \o << >> /\ Range(<< >>) = {}
<1>1. events \in Seq(ScreenEvent)
  BY DEF ScreenInv, EventsFit
<1> QED
  BY <1>1, SingleElement, ConcatEmptySeq

\* The user presses the mouse.
LEMMA PressStep ==
  ASSUME ScreenInv, MousePressed
  PROVE  ScreenInv'
<1>1. /\ phase = "input" /\ UNCHANGED <<local, copy, events, phase>>
      /\ mouse' = [mouse EXCEPT !.down = TRUE]
  BY DEF MousePressed, In
<1>2. Stands(layer) /\ isMouse(mouse) /\ mouse.under \in ElementsOf(layer) \cup {Nothing}
  BY DEF ScreenInv, MouseFits
<1>3. isMouse(mouse') /\ mouse'.under = mouse.under
  BY <1>1, <1>2, ButtonOnly
<1>4. Steady(layer, layer')
  <2>1. CASE UNCHANGED layer
    BY <1>2, <2>1, SteadySelf
  <2>2. CASE ~UNCHANGED layer
    <3>1. /\ ~isDragging /\ mouse.under # Nothing /\ canBePressed(layer.control[mouse.under])
          /\ pressed(mouse.under)
      BY <2>2 DEF MousePressed
    <3>2. mouse.under \in ElementsOf(layer) /\ layer.captured = Nothing
      BY <1>2, <3>1 DEF isDragging
    <3>3. CASE mouse.under \in viewed(layer)
      <4>1. layer' = [layer EXCEPT
                        !.control[mouse.under] = setDragged(setPressed(layer.control[mouse.under], TRUE), TRUE),
                        !.captured = mouse.under]
        BY <3>1, <3>3 DEF pressed, isView
      <4> QED  BY <1>2, <3>1, <3>2, <3>3, <4>1, CaptureSteady
    <3>4. CASE mouse.under \notin viewed(layer)
      <4>1. layer' = [layer EXCEPT !.control[mouse.under] = setPressed(layer.control[mouse.under], TRUE)]
        BY <3>1, <3>4 DEF pressed, isView
      <4>2. Steady(layer, [layer EXCEPT !.control[mouse.under] = setPressed(layer.control[mouse.under], TRUE)])
        BY <1>2, <3>2, PressSteady
      <4> QED  BY <4>1, <4>2
    <3> QED  BY <3>3, <3>4
  <2> QED  BY <2>1, <2>2
<1> QED
  BY <1>1, <1>3, <1>4, NothingAsked, InputStep

\* Requests of the user's own, none of which is to open the lobby.
MayAsk(t) == t \in Seq(ScreenEvent) /\ \A e \in Range(t) : Modest(e) /\ e.type # "OpenRequest"

\* What the user asks for by dropping a view that is the user's to move.
LEMMA DropRequests ==
  ASSUME NEW L, Fits(L), NEW V, WellFormed(V), NEW p \in Player, NEW spot, foreign(p) = 0
  PROVE  MayAsk(dropRequests(L, V, p, spot))
<1> DEFINE t == dropRequests(L, V, p, spot)
           current == getPlayerSeatIndex(V, p)
           s == getSeatIndexBySeatElement(L.shown, spot)
           q == getPlayerIdBySeatIndex(V, s)
<1>1. t \in {<< Swapped("SwapRequest", p, q) >>, << SeatChanged("SeatRequest", p, s) >>,
             << SeatChanged("SeatRequest", p, QueueSeat) >>, << >>}
  BY DEF dropRequests
<1>2. t = << Swapped("SwapRequest", p, q) >> => q # Nobody /\ isHost(local) /\ isVisibleSeat(L.shown, spot)
  BY DEF dropRequests, canSwapPositions, SeatChanged, Swapped
<1>3. t = << SeatChanged("SeatRequest", p, s) >> => s = QueueSeat \/ isVisibleSeat(L.shown, spot)
  BY DEF dropRequests, SeatChanged, Swapped
<1>4. ~isHost(local) => p = local
  BY DEF foreign, isForeign
<1>5. isVisibleSeat(L.shown, spot) => s \in 0..3
  <2> SUFFICES ASSUME isVisibleSeat(L.shown, spot)
               PROVE  s \in 0..3
    OBVIOUS
  <2>1. L.shown \in 2..4
    BY DEF Fits, LayerFits, MinPlayersPerGame, MaxPlayersPerGame
  <2> DEFINE names == seatNames[L.shown]
             i == CHOOSE j \in DOMAIN names : at(names[j]) = spot
  <2>2. DOMAIN names \subseteq 1..4
    <3>1. CASE L.shown = 2
      <4>1. names = <<"down", "top">>
        BY <2>1, <3>1 DEF seatNames, MinPlayersPerGame, MaxPlayersPerGame
      <4> QED  BY <4>1
    <3>2. CASE L.shown = 3
      <4>1. names = <<"down", "left", "right">>
        BY <2>1, <3>2 DEF seatNames, MinPlayersPerGame, MaxPlayersPerGame
      <4> QED  BY <4>1
    <3>3. CASE L.shown = 4
      <4>1. names = <<"down", "left", "top", "right">>
        BY <2>1, <3>3 DEF seatNames, MinPlayersPerGame, MaxPlayersPerGame
      <4> QED  BY <4>1
    <3> QED  BY <2>1, <3>1, <3>2, <3>3
  <2>3. \E j \in DOMAIN names : at(names[j]) = spot
    BY DEF isVisibleSeat
  <2>4. i \in DOMAIN names
    BY <2>3
  <2>5. s = i - 1
    BY DEF getSeatIndexBySeatElement
  <2> HIDE DEF i, names, s
  <2> QED  BY <2>2, <2>4, <2>5
<1>6. s \in 0..3 /\ q # Nobody => q \in Player
  <2>1. V.seats.playerAt \in [Seat -> Player \cup {Nobody}]
    BY Fields DEF SeatPositionsType
  <2> HIDE DEF s
  <2> QED  BY <2>1 DEF getPlayerIdBySeatIndex, Seat, QueueSeat, MaxPlayersPerGame
<1>7. QueueSeat \in Seat /\ (s \in 0..3 => s \in Seat)
  BY DEF Seat, QueueSeat, MaxPlayersPerGame
<1> SUFFICES MayAsk(t)
  OBVIOUS
<1> HIDE DEF t, s, q
<1>8. CASE t = << >>
  BY <1>8, SingleElement DEF MayAsk
<1>9. CASE t = << Swapped("SwapRequest", p, q) >>
  <2>1. q \in Player /\ isHost(local)
    BY <1>2, <1>5, <1>6, <1>9
  <2>2. Swapped("SwapRequest", p, q) \in ScreenEvent /\ Swapped("SwapRequest", p, q).type = "SwapRequest"
    BY <2>1, EventsMade
  <2> QED  BY <1>9, <2>1, <2>2, SingleElement DEF Modest, MayAsk
<1>10. ASSUME NEW r \in Seat, t = << SeatChanged("SeatRequest", p, r) >>
       PROVE  MayAsk(t)
  <2>1. /\ SeatChanged("SeatRequest", p, r) \in ScreenEvent
        /\ SeatChanged("SeatRequest", p, r).type = "SeatRequest" /\ SeatChanged("SeatRequest", p, r).id = p
    BY EventsMade
  <2> QED  BY <1>4, <1>10, <2>1, SingleElement DEF Modest, MayAsk
<1>11. CASE t = << SeatChanged("SeatRequest", p, s) >>
  BY <1>3, <1>5, <1>7, <1>10, <1>11
<1>12. CASE t = << SeatChanged("SeatRequest", p, QueueSeat) >>
  BY <1>7, <1>10, <1>12
<1> QED
  BY <1>1, <1>8, <1>9, <1>11, <1>12

\* The user lets a view go.
LEMMA CaptureEndsStep ==
  ASSUME ScreenInv, phase = "input", phase' = "input", UNCHANGED <<local, copy>>,
         isMouse(mouse'), mouse'.under = mouse.under,
         isDragging, canBePressed(layer.control[layer.captured]), captureEnds(layer.captured)
  PROVE  ScreenInv'
<1> DEFINE p == layer.captured
           L == [layer EXCEPT !.captured = Nothing, !.control[p] = captureEnded(setPressed(@, FALSE))]
           t == IF running(layer') THEN dropRequests(L, copy, p, mouse.place) ELSE << >>
<1>1. Stands(layer) /\ WellFormed(copy)
  BY DEF ScreenInv, CopyFits
<1>2. p \in viewed(layer) /\ p \in Player
  BY <1>1 DEF isDragging, Stands, Fits, LayerFits
<1>3. Steady(layer, L) /\ foreign(p) = 0
  BY <1>1, <1>2, ReleaseSteady
<1>4. layer' = moveHome(L, copy, p) /\ events' = events \o t
  BY DEF captureEnds, drop
<1> HIDE DEF L, p
<1>5. Fits(L) /\ p \in viewed(L)
  BY <1>2, <1>3 DEF Steady, Stands
<1>6. Steady(L, layer')
  <2>1. Fits(layer') /\ OnlyViews(L, layer')
    BY <1>4, <1>5, MoveHomeFits
  <2> QED  BY <1>3, <2>1, OnlyViewsHandled, HandledSteady DEF Steady
<1>7. Steady(layer, layer')
  BY <1>3, <1>6, SteadyTwice
<1>8. MayAsk(t)
  <2>1. MayAsk(dropRequests(L, copy, p, mouse.place))
    BY <1>1, <1>2, <1>3, <1>5, DropRequests
  <2>2. MayAsk(<< >>)
    BY SingleElement DEF MayAsk
  <2> QED  BY <2>1, <2>2
<1> HIDE DEF t
<1>9. t \in Seq(ScreenEvent) /\ \A e \in Range(t) : Modest(e) /\ e.type # "OpenRequest"
  BY <1>8 DEF MayAsk
<1> QED
  BY <1>4, <1>7, <1>9, InputStep

\* What the click of a button asks for.
LEMMA ClickRequests ==
  ASSUME ScreenInv, phase = "input", NEW e \in {LockButton, Arrows}, e = mouse.under,
         canBePressed(layer.control[e]), NEW t \in clickRequests(e)
  PROVE  /\ t \in Seq(ScreenEvent) /\ \A r \in Range(t) : Modest(r)
         /\ CleanMemory => \A r \in Range(t) : r.type = "OpenRequest" => r.value # copy.open
<1>1. Stands(layer) /\ MouseFits /\ LockShows
  BY DEF ScreenInv
<1>2. CASE e = LockButton
  <2>1. t = << Value("OpenRequest", layer.showsOpen) >> /\ layer.showsOpen \in BOOLEAN
    BY <1>1, <1>2 DEF clickRequests, Stands
  <2>2. isHost(local)
    BY <1>1, <1>2 DEF Stands, LockFits, canBePressed
  <2> DEFINE r == Value("OpenRequest", layer.showsOpen)
  <2>3. r \in ScreenEvent /\ r.type = "OpenRequest" /\ r.value = layer.showsOpen
    BY <2>1, EventsMade
  <2>4. CleanMemory => layer.showsOpen = ~copy.open
    BY <1>1, <1>2, <2>2 DEF LockShows, Shows
  <2>5. copy.open \in BOOLEAN
    BY DEF ScreenInv, CopyFits, WellFormed, LobbyType
  <2> HIDE DEF r
  <2>6. t = << r >>
    BY <2>1 DEF r
  <2>7. t \in Seq(ScreenEvent) /\ Range(t) = {r}
    BY <2>3, <2>6, SingleElement
  <2> QED  BY <2>2, <2>3, <2>4, <2>5, <2>7 DEF Modest
<1>3. CASE e = Arrows
  <2>1. isHost(local)
    BY <1>1, <1>3 DEF MouseFits
  <2>2. PICK v \in MinPlayersPerGame..MaxPlayersPerGame : t = << Value("PlayersPerGameRequest", v) >>
    BY <1>3, Elements DEF clickRequests
  <2> DEFINE r == Value("PlayersPerGameRequest", v)
  <2>3. r \in ScreenEvent /\ r.type = "PlayersPerGameRequest"
    BY EventsMade
  <2> HIDE DEF r
  <2>4. t = << r >>
    BY <2>2 DEF r
  <2>5. t \in Seq(ScreenEvent) /\ Range(t) = {r}
    BY <2>3, <2>4, SingleElement
  <2> QED  BY <2>1, <2>3, <2>5 DEF Modest
<1> QED
  BY <1>2, <1>3

\* The button is released over an element that is not captured.
LEMMA ReleasedStep ==
  ASSUME ScreenInv, phase = "input", phase' = "input", UNCHANGED <<local, copy>>,
         isMouse(mouse'), mouse'.under = mouse.under, mouse.under # Nothing,
         canBePressed(layer.control[mouse.under]), released(mouse.under)
  PROVE  ScreenInv'
<1> DEFINE e == mouse.under
<1>1. Stands(layer) /\ e \in ElementsOf(layer)
  BY DEF ScreenInv, MouseFits
<1>2. layer' = [layer EXCEPT !.control[e] = setPressed(layer.control[e], FALSE)]
  BY DEF released
<1>3. Steady(layer, layer')
  <2>1. Steady(layer, [layer EXCEPT !.control[e] = setPressed(layer.control[e], FALSE)])
    BY <1>1, PressSteady
  <2> QED  BY <1>2, <2>1
<1>4. CASE UNCHANGED events
  BY <1>3, <1>4, NothingAsked, InputStep
<1>5. CASE ~UNCHANGED events
  <2>1. PICK t \in clickRequests(e) : events' = events \o t /\ e \notin viewed(layer)
    BY <1>5 DEF released, isView
  <2>2. e \in {LockButton, Arrows}
    BY <1>1, <2>1 DEF ElementsOf
  <2>3. /\ t \in Seq(ScreenEvent) /\ \A r \in Range(t) : Modest(r)
        /\ CleanMemory => \A r \in Range(t) : r.type = "OpenRequest" => r.value # copy.open
    BY <2>1, <2>2, ClickRequests
  <2> QED  BY <1>3, <2>1, <2>3, InputStep
<1> QED
  BY <1>4, <1>5

\* The user releases the mouse.
LEMMA ReleaseStep ==
  ASSUME ScreenInv, MouseReleased
  PROVE  ScreenInv'
<1>1. /\ phase = "input" /\ UNCHANGED <<local, copy, phase>>
      /\ mouse' = [mouse EXCEPT !.down = FALSE]
  BY DEF MouseReleased, In
<1>2. isMouse(mouse') /\ mouse'.under = mouse.under
  BY <1>1, ButtonOnly DEF ScreenInv, MouseFits
<1>3. \/ isDragging /\ canBePressed(layer.control[layer.captured]) /\ captureEnds(layer.captured)
      \/ ~isDragging /\ mouse.under # Nothing /\ canBePressed(layer.control[mouse.under])
         /\ released(mouse.under)
      \/ UNCHANGED <<layer, events>>
  BY DEF MouseReleased
<1>4. CASE UNCHANGED <<layer, events>>
  <2>1. Steady(layer, layer')
    BY <1>4, SteadySelf DEF ScreenInv
  <2> QED  BY <1>1, <1>2, <1>4, <2>1, NothingAsked, InputStep
<1> QED
  BY <1>1, <1>2, <1>3, <1>4, CaptureEndsStep, ReleasedStep

\* The events of the window are done.
LEMMA InputEnds ==
  ASSUME ScreenInv, EndOfInput
  PROVE  ScreenInv'
<1>1. /\ phase = "input" /\ phase' = "dispatch" /\ UNCHANGED <<local, copy, layer, mouse, events>>
  BY DEF EndOfInput, In
<1>2. CopyFits' /\ EventsFit' /\ MouseFits' /\ AsksNothingOld'
  BY <1>1, NextLayer DEF ScreenInv, CopyFits, WellFormed, EventsFit, MouseFits, isMouse, ElementsOf,
                         viewed, isHost, AsksNothingOld
<1>3. Stands(layer)' /\ LockShows'
  <2>1. Stands(layer)'
    BY <1>1, NextLayer DEF ScreenInv
  <2>2. LockShows'
    BY <1>1 DEF ScreenInv, LockShows, Shows, CleanMemory, isHost
  <2> QED  BY <2>1, <2>2
<1> QED
  BY <1>1, <1>2, <1>3 DEF ScreenInv

\* The animations go on.
LEMMA UpdateStep ==
  ASSUME ScreenInv, Update
  PROVE  ScreenInv'
<1>1. /\ phase = "dispatch" /\ phase' = "receive" /\ events = << >>
      /\ UNCHANGED <<local, copy, mouse, events>>
  BY DEF Update, In
<1>2. Steady(layer, layer')
  BY UpdateSteady DEF Update, ScreenInv, isView
<1>3. Range(events) = {}
  BY <1>1, SingleElement
<1>4. CopyFits' /\ EventsFit' /\ AsksNothingOld'
  BY <1>1, <1>3, NextLayer DEF ScreenInv, CopyFits, WellFormed, EventsFit, AsksNothingOld, Holds
<1>5. MouseFits'
  BY <1>1, <1>2, MouseStays DEF ScreenInv, Steady, MouseFits
<1>6. Stands(layer)' /\ LockShows'
  <2>1. ~Holds(events, "LobbyOpenChanged")
    BY <1>3 DEF Holds
  <2> QED  BY <1>1, <1>2, <2>1, LockStays
<1> QED
  BY <1>1, <1>4, <1>5, <1>6 DEF ScreenInv

\* The first event is handled, and others join the queue.
LEMMA EventHandled ==
  ASSUME ScreenInv, UNCHANGED local, phase = "dispatch", phase' = "dispatch", events # << >>,
         NEW t \in Seq(ScreenEvent), events' = Tail(events) \o t, \A e \in Range(t) : Modest(e)
  PROVE  /\ EventsFit' /\ AsksNothingOld'
         /\ ev \in ScreenEvent /\ Modest(ev)
         /\ Range(events) = {ev} \cup Range(Tail(events))
         /\ Range(events') = Range(Tail(events)) \cup Range(t)
<1>1. events \in Seq(ScreenEvent) /\ \A e \in Range(events) : Modest(e)
  BY DEF ScreenInv, EventsFit
<1>2. /\ ev \in ScreenEvent /\ Tail(events) \in Seq(ScreenEvent)
      /\ Range(events) = {ev} \cup Range(Tail(events))
  BY <1>1, TailElements DEF ev
<1>3. events' \in Seq(ScreenEvent) /\ Range(events') = Range(Tail(events)) \cup Range(t)
  <2>1. PICK u \in Seq(ScreenEvent) : u = Tail(events)
    BY <1>2
  <2>2. u \o t \in Seq(ScreenEvent) /\ Range(u \o t) = Range(u) \cup Range(t)
    BY JoinedElements
  <2> QED  BY <2>1, <2>2
<1>4. \A e \in Range(events') : Modest(e)'
  BY <1>1, <1>2, <1>3, NextLayer
<1> QED
  BY <1>1, <1>2, <1>3, <1>4 DEF EventsFit, AsksNothingOld

\* An event other than one of an open lobby.
LEMMA DispatchStep ==
  ASSUME ScreenInv, UNCHANGED <<local, mouse>>, phase = "dispatch", phase' = "dispatch", events # << >>,
         ev.type # "LobbyOpenChanged",
         NEW t \in Seq(ScreenEvent), events' = Tail(events) \o t, \A e \in Range(t) : Modest(e),
         WellFormed(copy'), Steady(layer, layer'),
         copy'.open = copy.open \/ Holds(t, "LobbyOpenChanged")
  PROVE  ScreenInv'
<1>1. /\ EventsFit' /\ AsksNothingOld'
      /\ Range(events) = {ev} \cup Range(Tail(events))
      /\ Range(events') = Range(Tail(events)) \cup Range(t)
  BY EventHandled
<1>2. CopyFits'
  <2>1. WellFormed(copy') => WellFormed(copy)'
    BY DEF WellFormed
  <2> QED  BY <2>1 DEF ScreenInv, CopyFits
<1>3. MouseFits'
  BY MouseStays DEF ScreenInv, Steady, MouseFits
<1>4. Stands(layer)' /\ LockShows'
  <2>1. Holds(events, "LobbyOpenChanged") => Holds(events', "LobbyOpenChanged")
    BY <1>1 DEF Holds
  <2>2. Holds(t, "LobbyOpenChanged") => Holds(events', "LobbyOpenChanged")
    BY <1>1 DEF Holds
  <2>3. CASE copy'.open = copy.open
    BY <2>1, <2>3, LockStays
  <2>4. CASE Holds(t, "LobbyOpenChanged")
    <3>1. Stands(layer)'
      BY NextLayer DEF Steady
    <3>2. Holds(events', "LobbyOpenChanged") => Holds(events, "LobbyOpenChanged")'
      BY DEF Holds
    <3>3. mouse.under = LockButton /\ CleanMemory /\ isHost(local) => layer'.control[LockButton].hovered
      BY DEF ScreenInv, LockShows, Steady
    <3> QED  BY <2>2, <2>4, <3>1, <3>2, <3>3 DEF LockShows, CleanMemory, isHost
  <2> QED  BY <2>3, <2>4
<1> QED
  BY <1>1, <1>2, <1>3, <1>4 DEF ScreenInv

\* The event that is handled is one that may be asked.
LEMMA FirstEvent ==
  ASSUME ScreenInv, events # << >>
  PROVE  /\ ev \in ScreenEvent /\ Modest(ev)
         /\ << >> \in Seq(ScreenEvent) /\ Tail(events) \o << >> = Tail(events) /\ Range(<< >>) = {}
<1>1. events \in Seq(ScreenEvent) /\ \A e \in Range(events) : Modest(e)
  BY DEF ScreenInv, EventsFit
<1>2. /\ ev \in ScreenEvent /\ Tail(events) \in Seq(ScreenEvent)
      /\ Range(events) = {ev} \cup Range(Tail(events))
  BY <1>1, TailElements DEF ev
<1> QED
  BY <1>1, <1>2, SingleElement, ConcatEmptySeq

\* The first event asks for nothing more: it leaves, and the layer may have changed.
LEMMA QuietStep ==
  ASSUME ScreenInv, UNCHANGED <<local, mouse, copy>>, phase = "dispatch", phase' = "dispatch",
         events # << >>, ev.type # "LobbyOpenChanged", events' = Tail(events), Steady(layer, layer')
  PROVE  ScreenInv'
<1>1. << >> \in Seq(ScreenEvent) /\ events' = Tail(events) \o << >> /\ Range(<< >>) = {}
  BY FirstEvent
<1>2. WellFormed(copy')
  BY DEF ScreenInv, CopyFits
<1> QED
  BY <1>1, <1>2, DispatchStep

\* ClientModel::onSeatPositionsChangeRequestEvent.
LEMMA SeatRequestStep ==
  ASSUME ScreenInv, onSeatPositionsChangeRequestEvent
  PROVE  ScreenInv'
<1>1. /\ phase = "dispatch" /\ phase' = "dispatch" /\ UNCHANGED <<local, mouse>>
      /\ events # << >> /\ ev.type = "SeatRequest"
  BY DEF onSeatPositionsChangeRequestEvent, handles, In
<1>2. ev \in ScreenEvent /\ Modest(ev) /\ ev.id \in Player /\ ev.seat \in Seat /\ Stands(layer)
      /\ WellFormed(copy)
  BY <1>1, FirstEvent, EventKinds DEF ScreenInv, CopyFits
<1>3. CASE refused
  BY <1>1, <1>2, <1>3, SteadySelf, QuietStep DEF refused
<1>4. CASE \E why : layer' = abort(layer, why) /\ events' = Tail(events) /\ UNCHANGED copy
  BY <1>1, <1>2, <1>4, AbortSteady, QuietStep
<1>5. CASE /\ ev.id \in copy.profiles
           /\ accepted(movePlayerToSeatPosition(copy, ev.id, ev.seat),
                       << SeatChanged("SeatChanged", ev.id, ev.seat) >>)
  <2> DEFINE r == SeatChanged("SeatChanged", ev.id, ev.seat)
  <2>1. r \in ScreenEvent /\ r.type = "SeatChanged"
    BY <1>2, EventsMade
  <2>2. copy' = movePlayerToSeatPosition(copy, ev.id, ev.seat)
    BY <1>5 DEF accepted
  <2>3. WellFormed(copy') /\ copy'.open = copy.open
    BY <1>2, <1>5, <2>2, OpenKept
  <2>4. events' = Tail(events) \o << r >> /\ UNCHANGED layer
    BY <1>5 DEF accepted
  <2> HIDE DEF r
  <2>5. << r >> \in Seq(ScreenEvent) /\ \A e \in Range(<< r >>) : Modest(e)
    BY <2>1, SingleElement DEF Modest
  <2> QED  BY <1>1, <1>2, <2>3, <2>4, <2>5, SteadySelf, DispatchStep
<1> QED
  BY <1>3, <1>4, <1>5 DEF onSeatPositionsChangeRequestEvent, MayMove

\* ClientModel::onSeatPositionsSwapRequestEvent.
LEMMA SwapRequestStep ==
  ASSUME ScreenInv, onSeatPositionsSwapRequestEvent
  PROVE  ScreenInv'
<1>1. /\ phase = "dispatch" /\ phase' = "dispatch" /\ UNCHANGED <<local, mouse>>
      /\ events # << >> /\ ev.type = "SwapRequest"
  BY DEF onSeatPositionsSwapRequestEvent, handles, In
<1>2. ev \in ScreenEvent /\ Modest(ev) /\ ev.first \in Player /\ ev.second \in Player /\ Stands(layer)
      /\ WellFormed(copy)
  BY <1>1, FirstEvent, EventKinds DEF ScreenInv, CopyFits
<1>3. CASE refused
  BY <1>1, <1>2, <1>3, SteadySelf, QuietStep DEF refused
<1>4. CASE /\ MaySwapNow(ev.first, ev.second)
           /\ accepted(swapPlayersInView(copy, ev.first, ev.second),
                       << Swapped("Swapped", ev.first, ev.second) >>)
  <2> DEFINE r == Swapped("Swapped", ev.first, ev.second)
  <2>1. r \in ScreenEvent /\ r.type = "Swapped"
    BY <1>2, EventsMade
  <2>2. copy' = swapPlayersInView(copy, ev.first, ev.second)
    BY <1>4 DEF accepted
  <2>3. WellFormed(copy') /\ copy'.open = copy.open
    BY <1>2, <1>4, <2>2, OpenKept, SwapInViewWellFormed DEF MaySwapNow
  <2>4. events' = Tail(events) \o << r >> /\ UNCHANGED layer
    BY <1>4 DEF accepted
  <2> HIDE DEF r
  <2>5. << r >> \in Seq(ScreenEvent) /\ \A e \in Range(<< r >>) : Modest(e)
    BY <2>1, SingleElement DEF Modest
  <2> QED  BY <1>1, <1>2, <2>3, <2>4, <2>5, SteadySelf, DispatchStep
<1> QED
  BY <1>3, <1>4 DEF onSeatPositionsSwapRequestEvent

\* ClientModel::onPlayersPerGameChangeRequestEvent: the moves to the queue come before the size.
LEMMA SizeRequestStep ==
  ASSUME ScreenInv, onPlayersPerGameChangeRequestEvent
  PROVE  ScreenInv'
<1>1. /\ phase = "dispatch" /\ phase' = "dispatch" /\ UNCHANGED <<local, mouse>>
      /\ events # << >> /\ ev.type = "PlayersPerGameRequest"
  BY DEF onPlayersPerGameChangeRequestEvent, handles, In
<1>2. ev \in ScreenEvent /\ ev.value \in MinPlayersPerGame..MaxPlayersPerGame /\ Stands(layer)
      /\ WellFormed(copy)
  BY <1>1, FirstEvent, EventKinds DEF ScreenInv, CopyFits
<1> DEFINE moved == movedByShrinking(copy, ev.value)
           m == [i \in DOMAIN moved |-> SeatChanged("SeatChanged", moved[i], QueueSeat)]
           r == Value("PlayersPerGameChanged", ev.value)
<1>3. /\ copy' = applyPlayersPerGameChange(copy, ev.value).view
      /\ events' = Tail(events) \o (m \o << r >>) /\ UNCHANGED layer
  BY DEF onPlayersPerGameChangeRequestEvent, accepted
<1>4. WellFormed(copy') /\ copy'.open = copy.open
  <2>1. copy' = playersPerGameChanged(copy, ev.value)
    BY <1>3 DEF applyPlayersPerGameChange
  <2> QED  BY <1>2, <2>1, OpenKept, PlayersPerGameWellFormed
<1>5. r \in ScreenEvent /\ r.type = "PlayersPerGameChanged"
  BY <1>2, EventsMade
<1>6. << r >> \in Seq(ScreenEvent) /\ Range(<< r >>) = {r}
  BY <1>5, SingleElement
<1>7. m \in Seq(ScreenEvent) /\ \A e \in Range(m) : e.type = "SeatChanged"
  <2>1. moved \in Seq(Player)
    BY <1>2, MovedType
  <2> HIDE DEF moved
  <2>2. Len(moved) \in Nat /\ DOMAIN moved = 1..Len(moved) /\ \A i \in DOMAIN moved : moved[i] \in Player
    BY <2>1
  <2>3. QueueSeat \in Seat
    BY DEF QueueSeat, Seat, MaxPlayersPerGame
  <2>4. \A i \in DOMAIN moved : /\ SeatChanged("SeatChanged", moved[i], QueueSeat) \in ScreenEvent
                                /\ SeatChanged("SeatChanged", moved[i], QueueSeat).type = "SeatChanged"
    BY <2>2, <2>3, EventsMade
  <2>5. DOMAIN m = 1..Len(moved) /\ \A i \in DOMAIN m : m[i] \in ScreenEvent /\ m[i].type = "SeatChanged"
    BY <2>2, <2>4
  <2>6. m = [i \in 1..Len(moved) |-> m[i]]
    BY <2>5
  <2> HIDE DEF m
  <2>7. m \in Seq(ScreenEvent)
    BY <2>2, <2>5, <2>6
  <2> QED  BY <2>5, <2>7 DEF Range
<1> HIDE DEF m, r
<1>8. m \o << r >> \in Seq(ScreenEvent) /\ Range(m \o << r >>) = Range(m) \cup {r}
  <2>1. PICK w \in Seq(ScreenEvent) : w = << r >>
    BY <1>6
  <2>2. PICK u \in Seq(ScreenEvent) : u = m
    BY <1>7
  <2>3. u \o w \in Seq(ScreenEvent) /\ Range(u \o w) = Range(u) \cup Range(w)
    BY JoinedElements
  <2> QED  BY <1>6, <2>1, <2>2, <2>3
<1>9. \A e \in Range(m \o << r >>) : Modest(e)
  BY <1>5, <1>7, <1>8 DEF Modest
<1> QED
  BY <1>1, <1>2, <1>3, <1>4, <1>8, <1>9, SteadySelf, DispatchStep

\* ClientModel::onLobbyOpenStateChangeRequestEvent.
LEMMA OpenRequestStep ==
  ASSUME ScreenInv, onLobbyOpenStateChangeRequestEvent
  PROVE  ScreenInv'
<1>1. /\ phase = "dispatch" /\ phase' = "dispatch" /\ UNCHANGED <<local, mouse>>
      /\ events # << >> /\ ev.type = "OpenRequest"
  BY DEF onLobbyOpenStateChangeRequestEvent, handles, In
<1>2. ev \in ScreenEvent /\ ev.value \in BOOLEAN /\ Stands(layer) /\ WellFormed(copy)
  BY <1>1, FirstEvent, EventKinds DEF ScreenInv, CopyFits
<1>3. CASE refused
  BY <1>1, <1>2, <1>3, SteadySelf, QuietStep DEF refused
<1>4. CASE accepted(applyLobbyOpenState(copy, ev.value).view, << Value("LobbyOpenChanged", ev.value) >>)
  <2> DEFINE r == Value("LobbyOpenChanged", ev.value)
  <2>1. r \in ScreenEvent /\ r.type = "LobbyOpenChanged"
    BY <1>2, EventsMade
  <2>2. copy' = lobbyOpenChanged(copy, ev.value)
    BY <1>4 DEF accepted, applyLobbyOpenState
  <2>3. WellFormed(copy')
    BY <1>2, <2>2, LobbyOpenWellFormed
  <2>4. events' = Tail(events) \o << r >> /\ UNCHANGED layer
    BY <1>4 DEF accepted
  <2> HIDE DEF r
  <2>5. << r >> \in Seq(ScreenEvent) /\ Range(<< r >>) = {r}
    BY <2>1, SingleElement
  <2>6. (\A e \in Range(<< r >>) : Modest(e)) /\ Holds(<< r >>, "LobbyOpenChanged")
    BY <2>1, <2>5 DEF Modest, Holds
  <2> QED  BY <1>1, <1>2, <2>3, <2>4, <2>5, <2>6, SteadySelf, DispatchStep
<1> QED
  BY <1>3, <1>4 DEF onLobbyOpenStateChangeRequestEvent

\* A handler that leaves the lock button alone.
LEMMA LayerStep ==
  ASSUME ScreenInv, NEW type, type # "LobbyOpenChanged", NEW M, layerHandles(type, M),
         Handled(layer, M)
  PROVE  ScreenInv'
<1>1. /\ phase = "dispatch" /\ phase' = "dispatch" /\ UNCHANGED <<local, mouse, copy>>
      /\ events # << >> /\ ev.type # "LobbyOpenChanged" /\ events' = Tail(events) /\ layer' = M
  BY DEF layerHandles, handles, In
<1>2. Steady(layer, layer')
  BY <1>1, HandledSteady DEF ScreenInv
<1> QED
  BY <1>1, <1>2, QuietStep

\* The handler that brings the lock button up to date.
LEMMA LockStep ==
  ASSUME ScreenInv, layerHandles("LobbyOpenChanged", onLobbyOpenStateChangedEvent(layer, copy, ev))
  PROVE  ScreenInv'
<1>1. /\ phase = "dispatch" /\ phase' = "dispatch" /\ UNCHANGED <<local, mouse, copy>>
      /\ events # << >> /\ events' = Tail(events) /\ layer' = updateLockButton(layer, copy)
  BY DEF layerHandles, handles, In, onLobbyOpenStateChangedEvent
<1>2. << >> \in Seq(ScreenEvent) /\ events' = Tail(events) \o << >> /\ Range(<< >>) = {}
  BY <1>1, FirstEvent
<1>3. EventsFit' /\ AsksNothingOld'
  BY <1>1, <1>2, EventHandled
<1>4. /\ Fits(layer) /\ LockFits(layer.control[LockButton]) /\ copy.open \in BOOLEAN
  BY DEF ScreenInv, Stands, CopyFits, WellFormed, LobbyType
<1>5. /\ Fits(layer') /\ viewed(layer') = viewed(layer)
      /\ SameBut(layer.control[LockButton], layer'.control[LockButton]) /\ layer'.showsOpen \in BOOLEAN
      /\ isHost(local) => Shows(layer', copy)
                          /\ (layer'.control[LockButton].hovered <=> layer.control[LockButton].hovered)
  BY <1>1, <1>4, LockUpdated
<1>6. Stands(layer')
  BY <1>4, <1>5, SameLock DEF Stands
<1>7. CopyFits' /\ MouseFits'
  BY <1>1, <1>5, MouseStays DEF ScreenInv, CopyFits, WellFormed, MouseFits
<1>8. Stands(layer)' /\ LockShows'
  <2>1. Shows(layer', copy') => Shows(layer, copy)'
    BY <1>1, NextLayer
  <2> QED  BY <1>1, <1>5, <1>6, <2>1, NextLayer DEF ScreenInv, LockShows, Shows, CleanMemory, isHost
<1> QED
  BY <1>1, <1>3, <1>7, <1>8 DEF ScreenInv

\* The five handlers of LobbyLayer.
LEMMA LobbyChangedStep ==
  ASSUME ScreenInv, onLobbyChanged
  PROVE  ScreenInv'
<1>1. Fits(layer) /\ copy.queue \in Seq(Player)
  BY Fields DEF ScreenInv, Stands, CopyFits, WellFormed, LobbyType
<1>2. ASSUME events # << >>, ev.type \in {"Connected", "PlayersPerGameChanged"}
      PROVE  /\ ev.type = "Connected" => ev.id \in Player
             /\ ev.type = "PlayersPerGameChanged" => ev.value \in MinPlayersPerGame..MaxPlayersPerGame
  BY <1>2, FirstEvent, EventKinds
<1>3. CASE \E g \in flags : layerHandles("Connected", onPlayerConnectedEvent(layer, copy, ev, g))
  <2>1. PICK g \in flags : layerHandles("Connected", onPlayerConnectedEvent(layer, copy, ev, g))
    BY <1>3
  <2>2. ev.id \in Player
    BY <1>2, <2>1 DEF layerHandles, handles
  <2>3. Handled(layer, onPlayerConnectedEvent(layer, copy, ev, g))
    BY <1>1, <2>2, ConnectedHandled
  <2> QED  BY <2>1, <2>3, LayerStep
<1>4. CASE layerHandles("SeatChanged", onSeatPositionsChangedEvent(layer, copy, ev))
  <2>1. Handled(layer, onSeatPositionsChangedEvent(layer, copy, ev))
    BY <1>1, SeatsChangedHandled
  <2> QED  BY <1>4, <2>1, LayerStep
<1>5. CASE layerHandles("Swapped", onSeatPositionsSwappedEvent(layer, copy, ev))
  <2>1. Handled(layer, onSeatPositionsSwappedEvent(layer, copy, ev))
    BY <1>1, SwappedHandled
  <2> QED  BY <1>5, <2>1, LayerStep
<1>6. CASE layerHandles("PlayersPerGameChanged", onPlayersPerGameChangedEvent(layer, copy, ev))
  <2>1. ev.value \in MinPlayersPerGame..MaxPlayersPerGame
    BY <1>2, <1>6 DEF layerHandles, handles
  <2>2. Handled(layer, onPlayersPerGameChangedEvent(layer, copy, ev))
    BY <1>1, <2>1, PlayersPerGameHandled
  <2> QED  BY <1>6, <2>2, LayerStep
<1> QED
  BY <1>3, <1>4, <1>5, <1>6, LockStep DEF onLobbyChanged

\* Nothing happens.
LEMMA ScreenStutters ==
  ASSUME ScreenInv, UNCHANGED screenVars
  PROVE  ScreenInv'
<1>1. UNCHANGED <<local, copy, layer, mouse, events, phase>>
  BY DEF screenVars
<1>2. CopyFits' /\ EventsFit' /\ MouseFits' /\ AsksNothingOld'
  BY <1>1, NextLayer DEF ScreenInv, CopyFits, WellFormed, EventsFit, MouseFits, isMouse, ElementsOf,
                         viewed, isHost, AsksNothingOld, Holds
<1>3. Stands(layer)'
  BY <1>1, NextLayer DEF ScreenInv
<1>4. LockShows'
  BY <1>1 DEF ScreenInv, LockShows, Shows, CleanMemory, isHost, Holds
<1> QED
  BY <1>1, <1>2, <1>3, <1>4 DEF ScreenInv

\* Every step keeps the invariant.
LEMMA ScreenStep ==
  ASSUME ScreenInv, [ScreenNext]_screenVars
  PROVE  ScreenInv'
BY ReceiveStep, MouseMoves, PressStep, ReleaseStep, InputEnds, SeatRequestStep, SwapRequestStep,
   SizeRequestStep, OpenRequestStep, LobbyChangedStep, UpdateStep, ScreenStutters
   DEF ScreenNext, User, Frame, onRequest

\* The inductive invariant contains the properties of LobbyScreen.
LEMMA ScreenInvShows ==
  ASSUME ScreenInv
  PROVE  /\ ScreenTypeOK /\ LocksBalanced /\ RegularMovesOnlyItself
         /\ CleanMemory => DraggedIsCaptured /\ AsksForNews
<1>1. Fits(layer) /\ LayerFits(layer)
  BY DEF ScreenInv, Stands, Fits
<1>2. ScreenTypeOK
  BY <1>1 DEF ScreenInv, LayerFits, CopyFits, WellFormed, MouseFits, ElementsOf, ScreenTypeOK
<1>3. LocksBalanced
  <2> SUFFICES ASSUME NEW p \in viewed(layer)
               PROVE  LET locks == Len(layer.views[p].animations) + IF isForeign(p) THEN 1 ELSE 0
                          c == layer.control[p]
                      IN  c.hover = locks /\ c.press = locks /\ c.drag = locks /\ c.click = locks + 1
    BY DEF LocksBalanced
  <2>1. ViewFits(layer, p)
    BY <1>1 DEF LayerFits
  <2> QED  BY <2>1 DEF ViewFits, ControlFits, foreign
<1>4. \A i \in DOMAIN events : events[i] \in Range(events)
  BY DEF Range
<1>5. RegularMovesOnlyItself
  BY <1>4 DEF ScreenInv, EventsFit, Modest, RegularMovesOnlyItself
<1>6. ASSUME CleanMemory  PROVE DraggedIsCaptured /\ AsksForNews
  BY <1>1, <1>4, <1>6 DEF ScreenInv, Fits, DragFits, DraggedIsCaptured, AsksNothingOld, AsksForNews
<1> QED
  BY <1>2, <1>3, <1>5, <1>6

\* The invariant holds throughout.
LEMMA ScreenAlways == ScreenSpec => []ScreenInv
<1>1. ScreenInit => ScreenInv
  BY InitScreenInv
<1>2. ScreenInv /\ [ScreenNext]_screenVars => ScreenInv'
  BY ScreenStep
<1> QED
  BY <1>1, <1>2, PTL DEF ScreenSpec

\* Whatever an uninitialised flag of a control holds, the locks of every view
\* count the animations that still run: blockInteraction and
\* unblockInteraction of LobbyPlayerView come in pairs, however moves of
\* packets, of the mouse and of handlers overlap.
THEOREM LocksStayBalanced == ScreenSpec => [](ScreenTypeOK /\ LocksBalanced)
<1>1. ScreenInv => ScreenTypeOK /\ LocksBalanced
  BY ScreenInvShows
<1> QED
  BY <1>1, ScreenAlways, PTL

\* One who is not the host never asks with the mouse for what only the host
\* may do, nor for another player's seat, whatever the uninitialised flags hold.
THEOREM RegularsMoveThemselves == ScreenSpec => []RegularMovesOnlyItself
<1>1. ScreenInv => RegularMovesOnlyItself
  BY ScreenInvShows
<1> QED
  BY <1>1, ScreenAlways, PTL

\* When m_isHovered, m_isPressed and m_isDragged start as false, controls,
\* animations and the capture of the mouse fit together: a view is dragged
\* exactly while InputCapture holds it, and nothing animates it meanwhile.
THEOREM ScreenStaysConsistent ==
  ASSUME TRUE \notin Garbage
  PROVE  ScreenSpec => []ScreenConsistent
<1>1. CleanMemory
  BY DEF CleanMemory
<1>2. ScreenInv => ScreenConsistent
  BY <1>1, ScreenInvShows DEF ScreenConsistent
<1> QED
  BY <1>2, ScreenAlways, PTL

\* With the same flags, the lock button and the arrows only ask for what the
\* copy of the lobby is not yet, and nobody asks for what it may not have.
THEOREM RequestsStaySensible ==
  ASSUME TRUE \notin Garbage
  PROVE  ScreenSpec => []RequestsMakeSense
<1>1. CleanMemory
  BY DEF CleanMemory
<1>2. ScreenInv => RequestsMakeSense
  BY <1>1, ScreenInvShows DEF RequestsMakeSense
<1> QED
  BY <1>2, ScreenAlways, PTL

=============================================================================
