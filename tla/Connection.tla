------------------------------ MODULE Connection ------------------------------
(***************************************************************************)
(* One connection with its two ends, Client and ClientSession: the queue   *)
(* of packets to send, of which the first may be sent in part, the bytes   *)
(* on their way, and the buffer from which whole packets are taken.        *)
(*                                                                         *)
(* A step is one call of the socket; sendPendingPackets and receivePackets *)
(* loop over such calls until the socket has nothing to give, and the      *)
(* peer and the network act in between.  The socket takes and gives any    *)
(* number of bytes it can.                                                 *)
(***************************************************************************)
EXTENDS Packet, FiniteSets, FiniteSetsExt

CONSTANTS Data,          \* data of the packets after the greeting
          MaxPackets,    \* bound: packets an end sends
          Capacity,      \* bytes the network holds in a direction
          ChunkSize,     \* the size of tempBuffer
          EraseAbove     \* the offset above which the buffer is cut

ASSUME ConnectionAssumption ==
  /\ \A d \in Data : d \in Seq(Byte) /\ 1 + Len(d) <= 2147483647   \* the length is an int32
  /\ MaxPackets \in Nat /\ EraseAbove \in Nat
  /\ Capacity \in Nat \ {0} /\ ChunkSize \in Nat \ {0}

End == {"client", "session"}
peer(e) == IF e = "client" THEN "session" ELSE "client"

VARIABLES
  state,      \* ConnectionState, per end
  outgoing,   \* PendingPackets: the bytes, and how many of them were sent
  wire,       \* bytes on their way to an end
  buffer,     \* bytes received and the offset of the first that is not used
  alive,      \* does the connection carry bytes?
  sent, got   \* history: the packets an end has sent and received

vars == <<state, outgoing, wire, buffer, alive, sent, got>>

Greeting(e) == IF e = "client" THEN PacketType.Hello ELSE PacketType.Welcome
Other == PacketType.NotifyPlayerConnected

emptyBuffer == [bytes |-> <<>>, offset |-> 0]

Init ==
  /\ state = [e \in End |-> IF e = "client" THEN "Disconnected" ELSE "Connecting"]
  /\ outgoing = [e \in End |-> <<>>]
  /\ wire = [e \in End |-> <<>>]
  /\ buffer = [e \in End |-> emptyBuffer]
  /\ alive = TRUE
  /\ sent = [e \in End |-> <<>>]
  /\ got = [e \in End |-> <<>>]

-----------------------------------------------------------------------------
sendPacket_NotWhileSending(e, p) ==      \* mutant: lost if another one is sent in part
  /\ outgoing' = IF outgoing[e] # <<>> /\ Head(outgoing[e]).sent > 0 THEN outgoing
                 ELSE [outgoing EXCEPT ![e] = Append(@, [data |-> serialize(p), sent |-> 0])]
  /\ sent' = [sent EXCEPT ![e] = Append(@, p)]

sendPacket(e, p) ==
  /\ outgoing' = [outgoing EXCEPT ![e] = Append(@, [data |-> serialize(p), sent |-> 0])]
  /\ sent' = [sent EXCEPT ![e] = Append(@, p)]

greeted(e) == \E i \in DOMAIN sent[e] : sent[e][i].type = Greeting(e)

\* The constructor of ClientModel connects and says hello.
connect ==
  /\ state.client = "Disconnected" /\ sent.client = <<>>
  /\ state' = [state EXCEPT !.client = "Connecting"]
  /\ sendPacket("client", Packet(PacketType.Hello, <<>>))
  /\ UNCHANGED <<wire, buffer, alive, got>>

\* The server welcomes a client that has said hello.
Welcome ==
  /\ state.session # "Connecting" /\ ~greeted("session")
  /\ sendPacket("session", Packet(PacketType.Welcome, <<>>))
  /\ UNCHANGED <<state, wire, buffer, alive, got>>

\* A client sends requests when it is welcomed, the server notifies any session.
SendOther(e) ==
  /\ Len(sent[e]) < MaxPackets
  /\ e = "client" => state.client = "Ready"
  /\ \E d \in Data : sendPacket(e, Packet(Other, d))
  /\ UNCHANGED <<state, wire, buffer, alive, got>>

room(e) == Capacity - Len(wire[e])
unsent(p) == Len(p.data) - p.sent

\* The first packet after the socket has taken n of its bytes: Partial or Done.
afterSend_Again(q, n) ==                 \* mutant: Done does not pop, and it starts again
  LET p == Head(q)
  IN  <<[p EXCEPT !.sent = (@ + n) % Len(p.data)]>> \o Tail(q)

afterSend(q, n) ==
  LET p == [Head(q) EXCEPT !.sent = @ + n]
  IN  IF p.sent >= Len(p.data) THEN Tail(q) ELSE <<p>> \o Tail(q)

sendPendingPackets(e) ==
  /\ alive /\ outgoing[e] # <<>>
  /\ \E n \in 1..Min({unsent(Head(outgoing[e])), room(peer(e))}) :
       LET p == Head(outgoing[e])
       IN  /\ wire' = [wire EXCEPT ![peer(e)] = @ \o SubSeq(p.data, p.sent + 1, p.sent + n)]
           /\ outgoing' = [outgoing EXCEPT ![e] = afterSend(@, n)]
  /\ UNCHANGED <<state, buffer, alive, sent, got>>

\* Neither Done, nor Partial, nor NotReady.
sendFails(e) ==
  /\ ~alive /\ outgoing[e] # <<>>
  /\ state' = [state EXCEPT ![e] = "Disconnected"]
  /\ UNCHANGED <<outgoing, wire, buffer, alive, sent, got>>

-----------------------------------------------------------------------------
bodyLen(b, o) == readInt32(SubSeq(b, o + 1, o + 4))
complete(b, o) == Len(b) - o >= 4 /\ Len(b) - o >= bodyLen(b, o) + 4
next(b, o) == o + 4 + bodyLen(b, o)

\* Where the packets in the bytes b end, the first one starting after the offset o.
ends(b, o) ==
  LET end[k \in 0..Len(b)] ==
        IF k = 0 THEN o
        ELSE LET i == end[k - 1] IN IF complete(b, i) THEN next(b, i) ELSE i
  IN  end

\* The packets in the bytes b from the offset o on, and the offset after them.
unpack(b, o) ==
  LET end == ends(b, o)
      many == CHOOSE k \in 0..Len(b) :
                ~complete(b, end[k]) /\ \A j \in 0..(k - 1) : complete(b, end[j])
  IN  [ packets |-> [k \in 1..many |-> received(SubSeq(b, end[k - 1] + 1, end[k]))],
        offset  |-> end[many] ]

cut_Never(b) == b                        \* mutant

cut(b) ==
  IF b.offset > EraseAbove
    THEN [bytes |-> SubSeq(b.bytes, b.offset + 1, Len(b.bytes)), offset |-> 0] ELSE b

\* The state of an end that takes packets: its peer's greeting makes it ready.
stateAfter(e, packets) ==
  IF state[e] = "Connecting" /\ \E i \in DOMAIN packets : packets[i].type = Greeting(peer(e))
    THEN "Ready" ELSE state[e]

receivePackets(e) ==
  /\ wire[e] # <<>>
  /\ \E n \in 1..Min({ChunkSize, Len(wire[e])}) :
       LET bytes == buffer[e].bytes \o SubSeq(wire[e], 1, n)
       IN  \E u \in {unpack(bytes, buffer[e].offset)} :
             /\ wire' = [wire EXCEPT ![e] = SubSeq(@, n + 1, Len(@))]
             /\ buffer' = [buffer EXCEPT ![e] = cut([bytes |-> bytes, offset |-> u.offset])]
             /\ got' = [got EXCEPT ![e] = @ \o u.packets]
             /\ state' = [state EXCEPT ![e] = stateAfter(e, u.packets)]
  /\ UNCHANGED <<outgoing, alive, sent>>

\* The connection ends, and what was on its way arrives up to some byte.
Break ==
  /\ alive
  /\ alive' = FALSE
  /\ \E f \in [End -> 0..Capacity] :
       wire' = [e \in End |-> SubSeq(wire[e], 1, Min({f[e], Len(wire[e])}))]
  /\ UNCHANGED <<state, outgoing, buffer, sent, got>>

-----------------------------------------------------------------------------
\* The two classes have these functions of their own, with the same bodies.
Client_sendPendingPackets == sendPendingPackets("client")
Client_sendFails == sendFails("client")
Client_receivePackets == receivePackets("client")

Next ==
  \/ connect \/ Welcome \/ Break
  \/ \E e \in End : SendOther(e)
  \/ Client_sendPendingPackets \/ Client_sendFails \/ Client_receivePackets
  \/ sendPendingPackets("session") \/ sendFails("session") \/ receivePackets("session")

Spec == Init /\ [][Next]_vars

\* Every frame calls both functions, and the network goes on taking bytes.
FairSpec ==
  /\ Spec
  /\ WF_vars(connect) /\ WF_vars(Welcome)
  /\ \A e \in End : WF_vars(sendPendingPackets(e)) /\ WF_vars(receivePackets(e))

-----------------------------------------------------------------------------
TypeOK ==
  /\ state \in [End -> {"Connecting", "Ready", "Disconnected"}]
  /\ alive \in BOOLEAN
  /\ \A e \in End :
       /\ \A i \in DOMAIN outgoing[e] :
            LET p == outgoing[e][i]
            IN  p.data \in Seq(Byte) /\ p.sent \in 0..(Len(p.data) - 1)
       /\ wire[e] \in Seq(Byte) /\ Len(wire[e]) <= Capacity
       /\ buffer[e].bytes \in Seq(Byte) /\ buffer[e].offset \in 0..Len(buffer[e].bytes)

(***************************************************************************)
(* Each direction carries whole packets once and in order, however the     *)
(* socket splits and joins their bytes, and wherever the connection ends.  *)
(***************************************************************************)
ToSession == INSTANCE PacketFifo WITH sent <- sent.client, got <- got.session
ToClient == INSTANCE PacketFifo WITH sent <- sent.session, got <- got.client
CarriesPackets == ToSession!Spec /\ ToClient!Spec

Longest(e) == Max({0} \cup {Len(serialize(sent[e][i])) : i \in DOMAIN sent[e]})

(***************************************************************************)
(* The receive buffer stays small: the bytes used are cut off in time, and *)
(* those kept are less than one packet.                                    *)
(***************************************************************************)
BufferBounded ==
  \A e \in End : Len(buffer[e].bytes) <= EraseAbove + Longest(peer(e))

(***************************************************************************)
(* A client is ready only after its session was: what it sends then is not *)
(* sent to a server that has not taken its hello.                          *)
(***************************************************************************)
ReadyAfterSession == state.client = "Ready" => state.session # "Connecting"

\* Both ends keep their types, a small buffer, and the order of their greetings.
EndsConsistent == TypeOK /\ BufferBounded /\ ReadyAfterSession

\* What is sent arrives, unless the connection ends.
SentArrives ==
  \A e \in End : \A i \in 1..MaxPackets :
    (Len(sent[e]) >= i) ~> (Len(got[peer(e)]) >= i \/ ~alive)

=============================================================================
