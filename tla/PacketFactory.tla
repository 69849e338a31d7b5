---------------------------- MODULE PacketFactory ----------------------------
(***************************************************************************)
(* What PacketFactory.cpp writes into each packet, in its order and width. *)
(* Enumerations are bytes; a map and a vector come as sequences.           *)
(***************************************************************************)
EXTENDS Packet

makeStartGame == Packet(PacketType.StartGame, <<>>)
makeEndGame == Packet(PacketType.EndGame, <<>>)

makeUpdateRequestPacket == Packet(PacketType.UpdateRequest, <<>>)
makeSnapshotAckPacket == Packet(PacketType.SnapshotAck, <<>>)

makeHelloPacket(token, nickname) ==
  Packet(PacketType.Hello, uint64(token) \o string(nickname))

makeWelcomePacket(id, nickname, role, phase) ==
  Packet(PacketType.Welcome, int32(id) \o string(nickname) \o uint8(role) \o uint8(phase))

makeNotifyPlayerConnectedPacket(id, nickname, role, seat) ==
  Packet(PacketType.NotifyPlayerConnected,
         int32(id) \o string(nickname) \o uint8(role) \o int32(seat))
makeNotifyPlayerReconnectedPacket(id) == Packet(PacketType.NotifyPlayerReconnected, int32(id))

makeServerDisconnectPacket(reason) == Packet(PacketType.ServerDisconnect, uint8(reason))
makePlayerDisconnectedPacket == Packet(PacketType.PlayerDisconnected, <<>>)
makeNotifyPlayerDisconnectedPacket(id, reason) ==
  Packet(PacketType.NotifyPlayerDisconnected, int32(id) \o uint8(reason))

makeNotifyPlayerNicknameChangedPacket(id, nickname) ==
  Packet(PacketType.NotifyPlayerNicknameChanged, int32(id) \o string(nickname))
makeNotifyConnectionWithPlayerLostPacket(id) ==
  Packet(PacketType.NotifyConnectionWithPlayerLost, int32(id))

makeSeatPositionsChangeRequestPacket(id, seat) ==
  Packet(PacketType.SeatPositionsChangeRequest, int32(id) \o int32(seat))
makeSeatPositionsSwapRequestPacket(first, second) ==
  Packet(PacketType.SeatPositionsSwapRequest, int32(first) \o int32(second))
makeNotifySeatPositionsChangedPacket(id, seat) ==
  Packet(PacketType.NotifySeatPositionsChanged, int32(id) \o int32(seat))
makeNotifySeatPositionsSwappedPacket(first, second) ==
  Packet(PacketType.NotifySeatPositionsSwapped, int32(first) \o int32(second))

makePlayersPerGameChangeRequestPacket(n) ==
  Packet(PacketType.PlayersPerGameChangeRequest, int32(n))
makeNotifyPlayersPerGameChangedPacket(n) ==
  Packet(PacketType.NotifyPlayersPerGameChanged, int32(n))
makeLobbyOpenStateChangeRequestPacket(isOpen) ==
  Packet(PacketType.LobbyOpenStateChangeRequest, bool(isOpen))
makeNotifyLobbyOpenStateChangedPacket(isOpen) ==
  Packet(PacketType.NotifyLobbyOpenStateChanged, bool(isOpen))

-----------------------------------------------------------------------------
(* The snapshot of a lobby *)

makeSnapshotBeginPacket(type) == Packet(PacketType.SnapshotBegin, uint8(type))
makeSnapshotEndPacket(type) == Packet(PacketType.SnapshotEnd, uint8(type))

settings_Swapped(id, role, isOpen, canMove, rules, n) ==   \* mutant: another order
  int32(id) \o uint8(role) \o uint8(rules) \o bool(isOpen) \o bool(canMove) \o int32(n)

settings(id, role, isOpen, canMove, rules, n) ==
  int32(id) \o uint8(role) \o bool(isOpen) \o bool(canMove) \o uint8(rules) \o int32(n)
makeSnapshotLobbySettingsPacket(id, role, isOpen, canMove, rules, n) ==
  Packet(PacketType.SnapshotLobbySettings, settings(id, role, isOpen, canMove, rules, n))
makeSnapshotLobbyPlayerInfoPacket(id, nickname, role) ==
  Packet(PacketType.SnapshotLobbyPlayerInfo, int32(id) \o string(nickname) \o uint8(role))

seatAndId(pair) == int32(pair[1]) \o int32(pair[2])
makeSnapshotLobbySeatPositionsPacket(seats) ==
  Packet(PacketType.SnapshotLobbySeatPositions,
         uint8(Len(seats)) \o FlattenSeq([i \in DOMAIN seats |-> seatAndId(seats[i])]))
makeSnapshotLobbyQueuePositionsPacket(ids) ==
  Packet(PacketType.SnapshotLobbyQueuePositions,
         uint8(Len(ids)) \o FlattenSeq([i \in DOMAIN ids |-> int32(ids[i])]))

-----------------------------------------------------------------------------
(* The game: nothing calls these yet *)

makeDealCardPacket(id, card) == Packet(PacketType.DealCard, int32(id) \o int32(card))
makeNotifyDealCardToOthersPacket(id) == Packet(PacketType.NotifyDealToOthers, int32(id))

makePlayerTossPacket(card) == Packet(PacketType.PlayerToss, int32(card))
makeNotifyPlayerTossedPacket(id, card, position) ==
  Packet(PacketType.NotifyPlayerTossed, int32(id) \o int32(card) \o int32(position))
makePlayerBeatPacket(card, position) ==
  Packet(PacketType.PlayerBeat, int32(card) \o int32(position))
makeNotifyPlayerBeatPacket(id, card, position) ==
  Packet(PacketType.NotifyPlayerBeat, int32(id) \o int32(card) \o int32(position))
makePlayerPassActionPacket(value) == Packet(PacketType.PlayerPassAction, bool(value))
makeNotifyPlayerPassActionPacket(id, value) ==
  Packet(PacketType.NotifyPassAction, int32(id) \o bool(value))

makePlayerWinnerPacket(id, value) == Packet(PacketType.PlayerWinner, int32(id) \o bool(value))
makePlayerLoserPacket(id, value) == Packet(PacketType.PlayerLoser, int32(id) \o bool(value))
makeShowCardPacket(card) == Packet(PacketType.ShowCard, int32(card))
makeNotifyIdentifiedTrumpCardPacket(card) ==
  Packet(PacketType.NotifyIdentifiedTrumpCard, int32(card))

makeNotifyNewMainAttackerPlayerPacket(id) ==
  Packet(PacketType.NotifyNewMainAttackerPlayer, int32(id))
makeNotifyNewDefenderPlayerPacket(id) ==
  Packet(PacketType.NotifyNewMainAttackerPlayer, int32(id))
makeNotifyClearTablePacket(destination, cards) ==
  Packet(PacketType.NotifyClearTable,
         int32(destination) \o uint64(<<0, Len(cards)>>)
           \o FlattenSeq([i \in DOMAIN cards |-> int32(cards[i])]))
makeNotifyNewGamePhasePacket(phase) == Packet(PacketType.NotifyNewPhase, uint8(phase))

=============================================================================
