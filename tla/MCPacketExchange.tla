--------------------------- MODULE MCPacketExchange ---------------------------
(***************************************************************************)
(* PacketExchange for TLC: numbers of one, two and four bytes, the queue's *)
(* negative seat, and lists of up to two entries.                          *)
(***************************************************************************)
EXTENDS PacketExchange

Ids == {1, 258, 2147483647}
Seats == {-1, 0, 3}
Nicknames == {<<>>, <<68>>, <<76, 117, 120>>}
Tokens == {<<0, 7>>, <<16909060, 5>>}
Lists == {<<>>, <<1>>, <<258, 1>>}
Pairs == {<<>>, << <<0, 258>> >>, << <<3, 1>>, <<0, 2>> >>}

=============================================================================
