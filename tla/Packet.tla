------------------------------- MODULE Packet -------------------------------
(***************************************************************************)
(* A packet as bytes (Packet.h): what the write templates append, what the *)
(* read templates take, and what serialize puts on the wire.  Numbers are  *)
(* big-endian and two's complement; a 64-bit number is a pair of 32-bit    *)
(* halves, and a string a sequence of bytes.                               *)
(***************************************************************************)
EXTENDS Integers, Sequences, SequencesExt

Byte == 0..255

PacketType ==
  [ Welcome |-> 1, NotifyPlayerConnected |-> 2, NotifyPlayerReconnected |-> 3,
    NotifyPlayerDisconnected |-> 4, ServerDisconnect |-> 5,
    NotifyConnectionWithPlayerLost |-> 6, NotifyPlayerNicknameChanged |-> 7,
    NotifySeatPositionsChanged |-> 8, NotifySeatPositionsSwapped |-> 9,
    NotifyPlayersPerGameChanged |-> 10, NotifyLobbyOpenStateChanged |-> 11,
    StartGame |-> 12, DealCard |-> 13, ShowCard |-> 14, NotifyIdentifiedTrumpCard |-> 15,
    NotifyNewPhase |-> 16, NotifyNewMainAttackerPlayer |-> 17,
    NotifyNewDefenderPlayer |-> 18, NotifyDealToOthers |-> 19, NotifyPlayerTossed |-> 20,
    NotifyPlayerBeat |-> 21, NotifyPassAction |-> 22, NotifyClearTable |-> 23,
    CardPlacedOnTable |-> 24, PlayerWinner |-> 25, PlayerLoser |-> 26, EndGame |-> 27,
    SnapshotBegin |-> 80, SnapshotEnd |-> 81, SnapshotLobbySettings |-> 82,
    SnapshotLobbyPlayerInfo |-> 83, SnapshotLobbySeatPositions |-> 84,
    SnapshotLobbyQueuePositions |-> 85,
    Hello |-> 128, UpdateRequest |-> 129, SnapshotAck |-> 130, PlayerDisconnected |-> 131,
    SeatPositionsChangeRequest |-> 132, SeatPositionsSwapRequest |-> 133,
    PlayersPerGameChangeRequest |-> 134, LobbyOpenStateChangeRequest |-> 135,
    PlayerToss |-> 136, PlayerBeat |-> 137, PlayerPassAction |-> 138 ]

-----------------------------------------------------------------------------
(* write *)

uint8(v) == <<v % 256>>
bool(b) == IF b THEN <<1>> ELSE <<0>>

\* uint32_t and int: the bytes of the value modulo 2^32.
int32(v) == <<(v \div 16777216) % 256, (v \div 65536) % 256, (v \div 256) % 256, v % 256>>

uint64(v) == int32(v[1]) \o int32(v[2])
string(s) == int32(Len(s)) \o s

Packet(type, data) == [type |-> type, data |-> data]

\* bodyLen counts the type's byte.
serialize(p) == int32(1 + Len(p.data)) \o <<p.type>> \o p.data

-----------------------------------------------------------------------------
(* read, at the first of the bytes d *)

readBool(d) == d[1] # 0
readInt32(d) ==
  LET top == IF d[1] >= 128 THEN d[1] - 256 ELSE d[1]
  IN  top * 16777216 + d[2] * 65536 + d[3] * 256 + d[4]
readUInt32(d) == d[1] * 16777216 + d[2] * 65536 + d[3] * 256 + d[4]

\* The constructor: the type after the length, the rest is the data.
received(frame) == Packet(frame[5], SubSeq(frame, 6, Len(frame)))

=============================================================================
