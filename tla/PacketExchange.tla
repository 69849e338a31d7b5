---------------------------- MODULE PacketExchange ----------------------------
(***************************************************************************)
(* A packet is made, serialized, received and read: each handler reads its *)
(* fields in an order and with types of its own, in another file than the  *)
(* one that wrote them.  A read takes what is there, whatever it means.    *)
(***************************************************************************)
EXTENDS PacketFactory

CONSTANTS Id, Seat, Nickname, Token, Enum,   \* values a field may have
          SeatLists, IdLists

\* What a number of 32 bits holds.
UInt32(v) == v \in Nat /\ v \div 16777216 \in 0..255
Int32(v)  == v \in Int /\ v \div 16777216 \in -128..127

\* Every value fits its field; the lists have their length in a byte.
ASSUME ExchangeAssumption ==
  /\ \A i \in Id : UInt32(i)
  /\ \A p \in Seat : Int32(p)
  /\ \A s \in Nickname : s \in Seq(Byte) /\ UInt32(Len(s))
  /\ \A t \in Token : t = <<t[1], t[2]>> /\ UInt32(t[1]) /\ UInt32(t[2])
  /\ Enum \subseteq Byte
  /\ \A l \in IdLists : l \in Seq(Nat) /\ Len(l) \in Byte /\ \A i \in DOMAIN l : UInt32(l[i])
  /\ \A l \in SeatLists :
       /\ l \in Seq(Int \X Nat) /\ Len(l) \in Byte
       /\ \A i \in DOMAIN l : Int32(l[i][1]) /\ UInt32(l[i][2])

VARIABLES packet,   \* the packet on its way
          written,  \* what its maker was called with
          read,     \* what its handler read, and up to where; or none
          name      \* the name of a packet nothing reads, or the empty string

exchangeVars == <<packet, written, read, name>>
none == [values |-> <<>>, at |-> -1]

ExchangeInit ==
  /\ packet = makeUpdateRequestPacket /\ written = <<>>
  /\ read = none /\ name = ""

-----------------------------------------------------------------------------
(* The handlers' reads, by type *)

onHelloPacket == <<"uint64", "string">>
onSeatPositionsChangeRequestPacket == <<"uint32", "int32">>
onSeatPositionsSwapRequestPacket == <<"uint32", "uint32">>
onPlayersPerGameChangeRequestPacket == <<"uint32">>
onLobbyOpenStateChangeRequestPacket == <<"bool">>

onSnapshotBeginPacket == <<"enum">>
onSnapshotEndPacket == <<"enum">>
onSnapshotLobbySettingsPacket == <<"uint32", "enum", "bool", "bool", "enum", "uint32">>
onSnapshotLobbyPlayerInfoPacket == <<"uint32", "string", "enum">>
onSnapshotLobbySeatPositionsPacket == <<"seats">>
onSnapshotLobbyQueuePositionsPacket == <<"ids">>
onWelcomePacket == <<"uint32", "string", "enum", "enum">>
onServerDisconnectPacket == <<"enum">>

onNotifyPlayerConnectedPacket == <<"uint32", "string", "enum", "int32">>
onNotifyPlayerReconnectedPacket == <<"uint32">>
onNotifyPlayerDisconnectedPacket == <<"uint32", "enum">>
onNotifyConnectionWithPlayerLostPacket == <<"uint32">>
onNotifyPlayerNicknameChangedPacket == <<"uint32", "string">>
onNotifySeatPositionsChangedPacket == <<"uint32", "int32">>
onNotifySeatPositionsSwappedPacket == <<"uint32", "uint32">>
onNotifyPlayersPerGameChangedPacket == <<"uint32">>
onNotifyLobbyOpenStateChangedPacket == <<"bool">>

\* The packets that have a handler which reads.
Handlers ==
  { <<PacketType.Hello, onHelloPacket>>,
    <<PacketType.SeatPositionsChangeRequest, onSeatPositionsChangeRequestPacket>>,
    <<PacketType.SeatPositionsSwapRequest, onSeatPositionsSwapRequestPacket>>,
    <<PacketType.PlayersPerGameChangeRequest, onPlayersPerGameChangeRequestPacket>>,
    <<PacketType.LobbyOpenStateChangeRequest, onLobbyOpenStateChangeRequestPacket>>,
    <<PacketType.SnapshotBegin, onSnapshotBeginPacket>>,
    <<PacketType.SnapshotEnd, onSnapshotEndPacket>>,
    <<PacketType.SnapshotLobbySettings, onSnapshotLobbySettingsPacket>>,
    <<PacketType.SnapshotLobbyPlayerInfo, onSnapshotLobbyPlayerInfoPacket>>,
    <<PacketType.SnapshotLobbySeatPositions, onSnapshotLobbySeatPositionsPacket>>,
    <<PacketType.SnapshotLobbyQueuePositions, onSnapshotLobbyQueuePositionsPacket>>,
    <<PacketType.Welcome, onWelcomePacket>>,
    <<PacketType.ServerDisconnect, onServerDisconnectPacket>>,
    <<PacketType.NotifyPlayerConnected, onNotifyPlayerConnectedPacket>>,
    <<PacketType.NotifyPlayerReconnected, onNotifyPlayerReconnectedPacket>>,
    <<PacketType.NotifyPlayerDisconnected, onNotifyPlayerDisconnectedPacket>>,
    <<PacketType.NotifyConnectionWithPlayerLost, onNotifyConnectionWithPlayerLostPacket>>,
    <<PacketType.NotifyPlayerNicknameChanged, onNotifyPlayerNicknameChangedPacket>>,
    <<PacketType.NotifySeatPositionsChanged, onNotifySeatPositionsChangedPacket>>,
    <<PacketType.NotifySeatPositionsSwapped, onNotifySeatPositionsSwappedPacket>>,
    <<PacketType.NotifyPlayersPerGameChanged, onNotifyPlayersPerGameChangedPacket>>,
    <<PacketType.NotifyLobbyOpenStateChanged, onNotifyLobbyOpenStateChangedPacket>> }

\* A value of kind k at the front of the bytes d, and how many it takes.
field(k, d) ==
  LET n == d[1]
      u(i) == readUInt32(SubSeq(d, i, i + 3))
  IN CASE k = "enum" -> [value |-> d[1], size |-> 1]
       [] k = "bool" -> [value |-> readBool(d), size |-> 1]
       [] k = "uint32" -> [value |-> u(1), size |-> 4]
       [] k = "int32" -> [value |-> readInt32(d), size |-> 4]
       [] k = "uint64" -> [value |-> <<u(1), u(5)>>, size |-> 8]
       [] k = "string" -> [value |-> SubSeq(d, 5, 4 + u(1)), size |-> 4 + u(1)]
       [] k = "ids" -> [value |-> [i \in 1..n |-> u(4 * i - 2)], size |-> 1 + 4 * n]
       [] k = "seats" ->
            [ value |-> [i \in 1..n |->
                <<readInt32(SubSeq(d, 8 * i - 6, 8 * i - 3)), u(8 * i - 2)>>],
              size |-> 1 + 8 * n ]

\* The handler's reads, each at the byte where the one before it stopped.
readFields(kinds, data) ==
  LET rest(i) == SubSeq(data, i + 1, Len(data))
      at[i \in 0..Len(kinds)] ==
        IF i = 0 THEN 0 ELSE at[i - 1] + field(kinds[i], rest(at[i - 1])).size
  IN  [ values |-> [i \in 1..Len(kinds) |-> field(kinds[i], rest(at[i - 1])).value],
        at |-> at[Len(kinds)] ]

-----------------------------------------------------------------------------
(* The packets that are sent, with what their makers are called with *)

Made ==
  {<<makeHelloPacket(t, s), <<t, s>> >> : t \in Token, s \in Nickname}
  \cup {<<makeWelcomePacket(i, s, r, f), <<i, s, r, f>> >> :
          i \in Id, s \in Nickname, r \in Enum, f \in Enum}
  \cup {<<makeNotifyPlayerConnectedPacket(i, s, r, p), <<i, s, r, p>> >> :
          i \in Id, s \in Nickname, r \in Enum, p \in Seat}
  \cup {<<makeNotifyPlayerReconnectedPacket(i), <<i>> >> : i \in Id}
  \cup {<<makeServerDisconnectPacket(r), <<r>> >> : r \in Enum}
  \cup {<<makeNotifyPlayerDisconnectedPacket(i, r), <<i, r>> >> : i \in Id, r \in Enum}
  \cup {<<makeNotifyPlayerNicknameChangedPacket(i, s), <<i, s>> >> : i \in Id, s \in Nickname}
  \cup {<<makeNotifyConnectionWithPlayerLostPacket(i), <<i>> >> : i \in Id}
  \cup {<<makeSeatPositionsChangeRequestPacket(i, p), <<i, p>> >> : i \in Id, p \in Seat}
  \cup {<<makeSeatPositionsSwapRequestPacket(i, j), <<i, j>> >> : i \in Id, j \in Id}
  \cup {<<makeNotifySeatPositionsChangedPacket(i, p), <<i, p>> >> : i \in Id, p \in Seat}
  \cup {<<makeNotifySeatPositionsSwappedPacket(i, j), <<i, j>> >> : i \in Id, j \in Id}
  \cup {<<makePlayersPerGameChangeRequestPacket(i), <<i>> >> : i \in Id}
  \cup {<<makeNotifyPlayersPerGameChangedPacket(i), <<i>> >> : i \in Id}
  \cup {<<makeLobbyOpenStateChangeRequestPacket(b), <<b>> >> : b \in BOOLEAN}
  \cup {<<makeNotifyLobbyOpenStateChangedPacket(b), <<b>> >> : b \in BOOLEAN}
  \cup {<<makeSnapshotBeginPacket(r), <<r>> >> : r \in Enum}
  \cup {<<makeSnapshotEndPacket(r), <<r>> >> : r \in Enum}
  \cup {<<makeSnapshotLobbySettingsPacket(i, r, b, c, f, j), <<i, r, b, c, f, j>> >> :
          i \in Id, r \in Enum, b \in BOOLEAN, c \in BOOLEAN, f \in Enum, j \in Id}
  \cup {<<makeSnapshotLobbyPlayerInfoPacket(i, s, r), <<i, s, r>> >> :
          i \in Id, s \in Nickname, r \in Enum}
  \cup {<<makeSnapshotLobbySeatPositionsPacket(l), <<l>> >> : l \in SeatLists}
  \cup {<<makeSnapshotLobbyQueuePositionsPacket(l), <<l>> >> : l \in IdLists}

idle == packet.type \notin {h[1] : h \in Handlers} \/ read # none

MakePacket ==
  /\ idle
  /\ \E made \in Made : packet' = made[1] /\ written' = made[2]
  /\ read' = none /\ name' = ""

\* Packets without fields, and the game's, by their names; nothing reads these.
Unread(i, b) ==
  { <<makeUpdateRequestPacket, "UpdateRequest">>, <<makeSnapshotAckPacket, "SnapshotAck">>,
    <<makePlayerDisconnectedPacket, "PlayerDisconnected">>,
    <<makeStartGame, "StartGame">>, <<makeEndGame, "EndGame">>,
    <<makeDealCardPacket(i, i), "DealCard">>,
    <<makeNotifyDealCardToOthersPacket(i), "NotifyDealToOthers">>,
    <<makePlayerTossPacket(i), "PlayerToss">>,
    <<makeNotifyPlayerTossedPacket(i, i, 0), "NotifyPlayerTossed">>,
    <<makePlayerBeatPacket(i, 0), "PlayerBeat">>,
    <<makeNotifyPlayerBeatPacket(i, i, 0), "NotifyPlayerBeat">>,
    <<makePlayerPassActionPacket(b), "PlayerPassAction">>,
    <<makeNotifyPlayerPassActionPacket(i, b), "NotifyPassAction">>,
    <<makePlayerWinnerPacket(i, b), "PlayerWinner">>,
    <<makePlayerLoserPacket(i, b), "PlayerLoser">>,
    <<makeShowCardPacket(i), "ShowCard">>,
    <<makeNotifyIdentifiedTrumpCardPacket(i), "NotifyIdentifiedTrumpCard">>,
    <<makeNotifyNewMainAttackerPlayerPacket(i), "NotifyNewMainAttackerPlayer">>,
    <<makeNotifyNewDefenderPlayerPacket(i), "NotifyNewDefenderPlayer">>,
    <<makeNotifyClearTablePacket(i, <<i>>), "NotifyClearTable">>,
    <<makeNotifyNewGamePhasePacket(0), "NotifyNewPhase">> }

MakeUnread ==
  /\ idle
  /\ \E i \in Id, b \in BOOLEAN : \E made \in Unread(i, b) : packet' = made[1] /\ name' = made[2]
  /\ written' = <<>> /\ read' = none

\* The whole way: serialize, the frame's constructor, and the handler.
Deliver ==
  /\ read = none
  /\ \E h \in Handlers :
       /\ h[1] = packet.type
       /\ read' = readFields(h[2], received(serialize(packet)).data)
  /\ UNCHANGED <<packet, written, name>>

ExchangeNext == MakePacket \/ MakeUnread \/ Deliver
ExchangeSpec == ExchangeInit /\ [][ExchangeNext]_exchangeVars

-----------------------------------------------------------------------------
(***************************************************************************)
(* A handler reads the values its packet was made of, each with its sign   *)
(* and width, and no byte is left or missing.                              *)
(***************************************************************************)
FieldsAgree ==
  read # none => read.values = written /\ read.at = Len(packet.data)

(***************************************************************************)
(* A packet of the game has the type that is meant for it, so that its     *)
(* receiver can tell it from the others with the same fields.              *)
(***************************************************************************)
UnreadHasItsType == name # "" => packet.type = PacketType[name]

=============================================================================
