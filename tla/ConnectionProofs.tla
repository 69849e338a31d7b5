--------------------------- MODULE ConnectionProofs ---------------------------
(***************************************************************************)
(* What is written is what is read, for every number of 32 bits and every  *)
(* packet; the two directions of a connection carry the packets, for any   *)
(* data, however the socket splits and joins the bytes; and each handler   *)
(* reads the fields that the packet's maker wrote.                         *)
(***************************************************************************)
EXTENDS Connection, PacketExchange, SequenceTheorems, FiniteSetTheorems, WellFoundedInduction, TLAPS

IsInt32(v) == -128 * 16777216 <= v /\ v < 128 * 16777216
IsUInt32(v) == 0 <= v /\ v < 256 * 16777216

\* The bytes of a number, also of a negative one, are four bytes.
LEMMA Int32Bytes ==
  ASSUME NEW v \in Int
  PROVE  /\ int32(v) \in Seq(Byte) /\ Len(int32(v)) = 4
         /\ int32(v)[1] = (v \div 16777216) % 256
         /\ int32(v)[2] = (v \div 65536) % 256
         /\ int32(v)[3] = (v \div 256) % 256
         /\ int32(v)[4] = v % 256
<1>1. /\ (v \div 16777216) % 256 \in Byte /\ (v \div 65536) % 256 \in Byte
      /\ (v \div 256) % 256 \in Byte /\ v % 256 \in Byte
  BY SMT DEF Byte
<1> QED BY SMT, <1>1 DEF int32

(***************************************************************************)
(* An int that is written, negative ones (the queue's seat) included, is   *)
(* read as the same int (Packet::write and Packet::read).                  *)
(***************************************************************************)
THEOREM Int32RoundTrip ==
  ASSUME NEW v \in Int, IsInt32(v)
  PROVE  readInt32(int32(v)) = v
<1>. DEFINE a == (v \div 16777216) % 256
            b == (v \div 65536) % 256
            c == (v \div 256) % 256
            d == v % 256
<1>2. /\ int32(v)[1] = a /\ int32(v)[2] = b /\ int32(v)[3] = c /\ int32(v)[4] = d
  BY SMT, Int32Bytes
<1>3. readInt32(int32(v)) =
        (IF a >= 128 THEN a - 256 ELSE a) * 16777216 + b * 65536 + c * 256 + d
  BY SMT, <1>2 DEF readInt32
<1>4. v = 256 * (v \div 256) + d BY SMT
<1>5. v \div 256 = 256 * (v \div 65536) + c BY SMT
<1>6. v \div 65536 = 256 * (v \div 16777216) + b BY SMT
<1>7. v \div 16777216 = (IF a >= 128 THEN a - 256 ELSE a) BY SMT DEF IsInt32
<1> QED BY SMT, <1>3, <1>4, <1>5, <1>6, <1>7

(***************************************************************************)
(* The same for unsigned numbers of 32 bits, ids and counts.               *)
(***************************************************************************)
THEOREM UInt32RoundTrip ==
  ASSUME NEW v \in Int, IsUInt32(v)
  PROVE  readUInt32(int32(v)) = v
<1>. DEFINE a == (v \div 16777216) % 256
            b == (v \div 65536) % 256
            c == (v \div 256) % 256
            d == v % 256
<1>2. /\ int32(v)[1] = a /\ int32(v)[2] = b /\ int32(v)[3] = c /\ int32(v)[4] = d
  BY SMT, Int32Bytes
<1>3. readUInt32(int32(v)) = a * 16777216 + b * 65536 + c * 256 + d
  BY SMT, <1>2 DEF readUInt32
<1>4. v = 256 * (v \div 256) + d BY SMT
<1>5. v \div 256 = 256 * (v \div 65536) + c BY SMT
<1>6. v \div 65536 = 256 * (v \div 16777216) + b BY SMT
<1>7. v \div 16777216 = a BY SMT DEF IsUInt32
<1> QED BY SMT, <1>3, <1>4, <1>5, <1>6, <1>7

-----------------------------------------------------------------------------
PacketSet == [type : Byte, data : Seq(Byte)]

\* A joined sequence gives back its two parts.
LEMMA FirstPart ==
  ASSUME NEW s \in Seq(Byte), NEW t \in Seq(Byte), Len(s) > 0
  PROVE  SubSeq(s \o t, 1, Len(s)) = s
<1>1. 1 \in 1..Len(s) /\ Len(s) \in 1..Len(s) OBVIOUS
<1>2. SubSeq(s \o t, 1, Len(s)) = SubSeq(s, 1, Len(s)) BY <1>1, SubSeqOfConcat1
<1> QED BY <1>2, SubSeqFull

LEMMA SecondPart ==
  ASSUME NEW s \in Seq(Byte), NEW t \in Seq(Byte)
  PROVE  SubSeq(s \o t, Len(s) + 1, Len(s) + Len(t)) = t
<1>1. Len(s) \in Nat /\ Len(t) \in Nat OBVIOUS
<1>2. CASE Len(t) = 0
  <2>1. t = <<>> BY <1>2
  <2>2. SubSeq(s \o t, Len(s) + 1, Len(s) + Len(t)) = <<>>
    BY <1>1, <1>2, SubSeqEmpty
  <2> QED BY <2>1, <2>2
<1>3. CASE Len(t) > 0
  <2>1. /\ Len(s) + 1 \in (Len(s) + 1)..(Len(s) + Len(t))
        /\ Len(s) + Len(t) \in (Len(s) + 1)..(Len(s) + Len(t))
    BY <1>1, <1>3
  <2>2. SubSeq(s \o t, Len(s) + 1, Len(s) + Len(t))
          = SubSeq(t, Len(s) + 1 - Len(s), Len(s) + Len(t) - Len(s))
    BY <2>1, SubSeqOfConcat2
  <2>3. Len(s) + 1 - Len(s) = 1 /\ Len(s) + Len(t) - Len(s) = Len(t) BY <1>1
  <2> QED BY <2>2, <2>3, SubSeqFull
<1> QED BY <1>1, <1>2, <1>3

\* A length of four bytes and a type's byte in front of the data.
LEMMA FramedHead ==
  ASSUME NEW n \in Seq(Byte), Len(n) = 4, NEW t \in Byte
  PROVE  /\ n \o <<t>> \in Seq(Byte) /\ Len(n \o <<t>>) = 5
         /\ (n \o <<t>>)[5] = t /\ SubSeq(n \o <<t>>, 1, 4) = n
<1>1. <<t>> \in Seq(Byte) /\ Len(<<t>>) = 1 /\ <<t>>[1] = t OBVIOUS
<1>2. /\ n \o <<t>> \in Seq(Byte) /\ Len(n \o <<t>>) = Len(n) + Len(<<t>>)
      /\ \A i \in 1..(Len(n) + Len(<<t>>)) :
           (n \o <<t>>)[i] = IF i <= Len(n) THEN n[i] ELSE <<t>>[i - Len(n)]
  BY <1>1, ConcatProperties
<1>3. 5 \in 1..(Len(n) + Len(<<t>>)) /\ ~(5 <= Len(n)) /\ 5 - Len(n) = 1 BY <1>1
<1>4. (n \o <<t>>)[5] = <<t>>[1] BY <1>2, <1>3
<1>5. SubSeq(n \o <<t>>, 1, Len(n)) = n
  <2>1. Len(n) > 0 OBVIOUS
  <2> QED BY <1>1, <2>1, FirstPart, Zenon
<1> QED BY <1>1, <1>2, <1>4, <1>5

LEMMA FramedParts ==
  ASSUME NEW h \in Seq(Byte), Len(h) = 5, NEW d \in Seq(Byte)
  PROVE  /\ h \o d \in Seq(Byte) /\ Len(h \o d) = 5 + Len(d)
         /\ SubSeq(h \o d, 1, 4) = SubSeq(h, 1, 4)
         /\ (h \o d)[5] = h[5]
         /\ SubSeq(h \o d, 6, 5 + Len(d)) = d
<1>1. Len(d) \in Nat OBVIOUS
<1>2. /\ h \o d \in Seq(Byte) /\ Len(h \o d) = Len(h) + Len(d)
      /\ \A i \in 1..(Len(h) + Len(d)) :
           (h \o d)[i] = IF i <= Len(h) THEN h[i] ELSE d[i - Len(h)]
  BY ConcatProperties
<1>3. 5 \in 1..(Len(h) + Len(d)) /\ 5 <= Len(h) BY <1>1
<1>4. (h \o d)[5] = h[5] BY <1>2, <1>3
<1>5. 1 \in 1..Len(h) /\ 4 \in 1..Len(h) OBVIOUS
<1>6. SubSeq(h \o d, 1, 4) = SubSeq(h, 1, 4) BY <1>5, SubSeqOfConcat1
<1>7. SubSeq(h \o d, Len(h) + 1, Len(h) + Len(d)) = d BY SecondPart
<1>8. SubSeq(h \o d, 6, 5 + Len(d)) = d
  <2>1. Len(h) + 1 = 6 /\ Len(h) + Len(d) = 5 + Len(d) BY <1>1
  <2> QED BY <1>7, <2>1, Zenon
<1> QED BY <1>2, <1>4, <1>6, <1>8

\* What serialize puts where: the length, the type, the data.
LEMMA SerializeBytes ==
  ASSUME NEW p \in PacketSet
  PROVE  /\ serialize(p) \in Seq(Byte)
         /\ Len(serialize(p)) = 5 + Len(p.data)
         /\ SubSeq(serialize(p), 1, 4) = int32(1 + Len(p.data))
         /\ serialize(p)[5] = p.type
         /\ SubSeq(serialize(p), 6, Len(serialize(p))) = p.data
<1>1. p.type \in Byte /\ p.data \in Seq(Byte) /\ 1 + Len(p.data) \in Int BY DEF PacketSet
<1>. DEFINE n == int32(1 + Len(p.data))
            h == n \o <<p.type>>
<1>2. n \in Seq(Byte) /\ Len(n) = 4
  <2>1. \A v \in Int : int32(v) \in Seq(Byte) /\ Len(int32(v)) = 4 BY SMT, Int32Bytes
  <2> QED BY <1>1, <2>1
<1>3. serialize(p) = h \o p.data BY DEF serialize
<1>. HIDE DEF n
<1>4. h \in Seq(Byte) /\ Len(h) = 5 /\ h[5] = p.type /\ SubSeq(h, 1, 4) = n
  BY <1>1, <1>2, FramedHead
<1>. HIDE DEF h
<1>5. /\ h \o p.data \in Seq(Byte) /\ Len(h \o p.data) = 5 + Len(p.data)
      /\ SubSeq(h \o p.data, 1, 4) = SubSeq(h, 1, 4)
      /\ (h \o p.data)[5] = h[5]
      /\ SubSeq(h \o p.data, 6, 5 + Len(p.data)) = p.data
  BY <1>1, <1>4, FramedParts
<1>6. n = int32(1 + Len(p.data)) BY DEF n
<1> QED BY <1>3, <1>4, <1>5, <1>6

(* A number read back from the four bytes that were written for it. *)
LEMMA ReadWritten ==
  ASSUME NEW v \in Int, IsInt32(v), NEW b, b = int32(v)
  PROVE  readInt32(b) = v
<1>1. readInt32(int32(v)) = v BY SMT, Int32RoundTrip
<1> QED BY <1>1, Zenon

\* A packet is its type and its data.
LEMMA ReceivedPacket ==
  ASSUME NEW p, NEW f, p = [type |-> p.type, data |-> p.data],
         f[5] = p.type, SubSeq(f, 6, Len(f)) = p.data
  PROVE  received(f) = p
<1>1. received(f) = [type |-> f[5], data |-> SubSeq(f, 6, Len(f))]
  BY Zenon DEF received, Packet
<1>2. received(f) = [type |-> p.type, data |-> p.data] BY <1>1, Zenon
<1> QED BY <1>2, Zenon

(***************************************************************************)
(* A whole frame tells its own length and gives back its packet, whatever  *)
(* the type and the data: what the inner loop of receivePackets relies on. *)
(***************************************************************************)
THEOREM FrameRoundTrip ==
  ASSUME NEW p \in PacketSet, IsInt32(1 + Len(p.data))
  PROVE  /\ readInt32(SubSeq(serialize(p), 1, 4)) + 4 = Len(serialize(p))
         /\ received(serialize(p)) = p
<1>1. p.data \in Seq(Byte) /\ Len(p.data) \in Nat BY SMT DEF PacketSet
<1>2. 1 + Len(p.data) \in Int BY SMT, <1>1
<1>3. SubSeq(serialize(p), 1, 4) = int32(1 + Len(p.data)) BY SerializeBytes, Zenon
<1>4. readInt32(SubSeq(serialize(p), 1, 4)) = 1 + Len(p.data)
  BY <1>2, <1>3, ReadWritten, Zenon
<1>5. readInt32(SubSeq(serialize(p), 1, 4)) + 4 = Len(serialize(p))
  BY SMT, <1>1, <1>4, SerializeBytes
<1>6. p = [type |-> p.type, data |-> p.data] BY SMT DEF PacketSet
<1>7. serialize(p)[5] = p.type /\ SubSeq(serialize(p), 6, Len(serialize(p))) = p.data
  BY SerializeBytes, Zenon
<1>8. received(serialize(p)) = p BY <1>6, <1>7, ReceivedPacket, Zenon
<1> QED BY <1>5, <1>8

-----------------------------------------------------------------------------
\* A non-empty set of natural numbers has a smallest element.
LEMMA SmallestOf ==
  ASSUME NEW T \in SUBSET Nat, T # {}
  PROVE  \E x \in T : \A y \in T : x <= y
<1> DEFINE R == OpToRel(<, Nat)
<1>1. IsWellFoundedOn(R, Nat)
  BY NatLessThanWellFounded
<1>2. PICK x \in T : \A y \in T : << y, x >> \notin R
  <2> HIDE DEF R
  <2> QED  BY <1>1, WFMin
<1>3. \A y \in T : << y, x >> \in R <=> y < x
  BY DEF OpToRel
<1>4. \A y \in T : ~(y < x)
  BY <1>2, <1>3
<1> HIDE DEF R
<1> QED  BY <1>4

\* One that is bounded has a greatest element.
LEMMA GreatestOf ==
  ASSUME NEW n \in Nat, NEW T \in SUBSET (0..n), T # {}
  PROVE  \E x \in T : \A y \in T : y <= x
<1> DEFINE U == {n - x : x \in T}
<1>1. U \in SUBSET Nat /\ U # {}
  <2>1. \A x \in T : x \in 0..n /\ n - x \in Nat
    OBVIOUS
  <2>2. PICK x \in T : TRUE
    OBVIOUS
  <2>3. n - x \in U
    OBVIOUS
  <2> QED  BY <2>1, <2>3
<1> HIDE DEF U
<1>2. PICK u \in U : \A v \in U : u <= v
  BY <1>1, SmallestOf
<1>3. PICK x \in T : u = n - x
  BY <1>2 DEF U
<1>4. \A y \in T : n - x <= n - y
  BY <1>2, <1>3 DEF U
<1>5. \A y \in T : y <= x
  BY <1>4
<1> QED  BY <1>5

-----------------------------------------------------------------------------
(* The bytes of one packet, and of the packets of a direction *)

Packets == {p \in PacketSet : IsInt32(1 + Len(p.data))}

\* A packet is at least five bytes, and the first four tell how many.
LEMMA PacketBytes ==
  ASSUME NEW p \in Packets
  PROVE  /\ serialize(p) \in Seq(Byte) /\ Len(serialize(p)) \in Nat /\ Len(serialize(p)) >= 5
         /\ readInt32(SubSeq(serialize(p), 1, 4)) = Len(serialize(p)) - 4
         /\ received(serialize(p)) = p
<1>1. p \in PacketSet /\ IsInt32(1 + Len(p.data)) /\ Len(p.data) \in Nat
  BY DEF Packets, PacketSet
<1>2. serialize(p) \in Seq(Byte) /\ Len(serialize(p)) = 5 + Len(p.data)
  BY <1>1, SerializeBytes
<1>3. readInt32(SubSeq(serialize(p), 1, 4)) + 4 = Len(serialize(p)) /\ received(serialize(p)) = p
  BY <1>1, FrameRoundTrip
<1>4. readInt32(SubSeq(serialize(p), 1, 4)) = Len(serialize(p)) - 4
  <2>1. readInt32(SubSeq(serialize(p), 1, 4)) = 1 + Len(p.data)
    <3>1. SubSeq(serialize(p), 1, 4) = int32(1 + Len(p.data))
      BY <1>1, SerializeBytes
    <3>2. 1 + Len(p.data) \in Int
      BY <1>1
    <3> QED  BY <1>1, <3>1, <3>2, ReadWritten
  <2> QED  BY <1>1, <1>2, <2>1
<1> QED  BY <1>1, <1>2, <1>3, <1>4

\* Where the bytes of a packet begin it can be seen whether all are there.
LEMMA FrameAt ==
  ASSUME NEW b \in Seq(Byte), NEW i \in 0..Len(b), NEW p \in Packets,
         \A j \in 1..Len(serialize(p)) : i + j <= Len(b) => b[i + j] = serialize(p)[j]
  PROVE  /\ complete(b, i) <=> i + Len(serialize(p)) <= Len(b)
         /\ complete(b, i) => /\ next(b, i) = i + Len(serialize(p))
                              /\ received(SubSeq(b, i + 1, next(b, i))) = p
<1> DEFINE f == serialize(p)
           l == Len(f)
<1>1. f \in Seq(Byte) /\ l \in Nat /\ l >= 5 /\ readInt32(SubSeq(f, 1, 4)) = l - 4 /\ received(f) = p
  BY PacketBytes
<1>2. Len(b) \in Nat /\ i \in Nat
  OBVIOUS
<1>3. ASSUME i + 4 <= Len(b)
      PROVE  bodyLen(b, i) = l - 4
  <2> DEFINE c == SubSeq(b, i + 1, i + 4)
             d == SubSeq(f, 1, 4)
  <2>1. \A k \in 1..4 : c[k] = b[i + k]
    <3>1. \A j \in (i + 1)..(i + 4) : b[j] \in Byte
      <4> TAKE j \in (i + 1)..(i + 4)
      <4>1. j \in 1..Len(b)
        BY <1>2, <1>3
      <4> QED  BY <4>1, ElementOfSeq
    <3>2. i + 1 \in Int /\ i + 4 \in Int /\ (i + 4) - (i + 1) + 1 = 4
      BY <1>2
    <3>3. \A k \in 1..4 : c[k] = b[(i + 1) + k - 1]
      BY <3>1, <3>2, SubSeqProperties
    <3>4. \A k \in 1..4 : (i + 1) + k - 1 = i + k
      BY <1>2
    <3> HIDE DEF c
    <3> QED  BY <3>3, <3>4
  <2>2. \A k \in 1..4 : d[k] = f[k]
    <3>1. d = [k \in 1..4 |-> f[k]]
      BY <1>1, SubSeqProperties
    <3> QED  BY <3>1
  <2>3. \A k \in 1..4 : c[k] = d[k]
    BY <1>1, <1>2, <1>3, <2>1, <2>2
  <2> HIDE DEF c, d, l, f
  <2>4. c[1] = d[1] /\ c[2] = d[2] /\ c[3] = d[3] /\ c[4] = d[4]
    BY <2>3
  <2>5. readInt32(c) = readInt32(d)
    BY <2>4 DEF readInt32
  <2> QED  BY <1>1, <2>5 DEF bodyLen, c, d
<1>4. complete(b, i) <=> i + l <= Len(b)
  <2> HIDE DEF l
  <2>1. CASE i + 4 <= Len(b)
    BY <1>1, <1>2, <1>3, <2>1 DEF complete
  <2>2. CASE ~(i + 4 <= Len(b))
    BY <1>1, <1>2, <2>2 DEF complete
  <2> QED  BY <2>1, <2>2
<1>5. ASSUME i + l <= Len(b)
      PROVE  next(b, i) = i + l /\ received(SubSeq(b, i + 1, i + l)) = p
  <2>1. next(b, i) = i + l
    <3>1. i + 4 <= Len(b)
      BY <1>1, <1>2, <1>5
    <3>2. bodyLen(b, i) = l - 4
      BY <1>3, <3>1
    <3> HIDE DEF l
    <3> QED  BY <1>1, <1>2, <3>2 DEF next
  <2>2. SubSeq(b, i + 1, i + l) = f
    <3>1. SubSeq(b, i + 1, i + l) = [k \in 1..l |-> b[i + k]]
      BY <1>1, <1>2, <1>5, SubSeqProperties
    <3>2. f = [k \in 1..l |-> f[k]]
      BY <1>1, LenProperties
    <3>3. \A k \in 1..l : b[i + k] = f[k]
      BY <1>1, <1>2, <1>5
    <3> HIDE DEF f, l
    <3> QED  BY <3>1, <3>2, <3>3
  <2> QED  BY <1>1, <2>1, <2>2
<1> QED  BY <1>4, <1>5
(***************************************************************************)
(* The packets S of a direction as one sequence of bytes T, in which the   *)
(* first i packets take the first pos[i] bytes.                            *)
(***************************************************************************)
Stream(S, T, pos) ==
  /\ T \in Seq(Byte) /\ pos \in [0..Len(S) -> Nat]
  /\ pos[0] = 0 /\ pos[Len(S)] = Len(T)
  /\ \A i, j \in 0..Len(S) : i <= j => j - i <= pos[j] - pos[i]
  /\ \A i \in 1..Len(S) :
       /\ pos[i] = pos[i - 1] + Len(serialize(S[i]))
       /\ \A j \in 1..Len(serialize(S[i])) : T[pos[i - 1] + j] = serialize(S[i])[j]

\* The positions of a stream, by number.
LEMMA StreamPositions ==
  ASSUME NEW S \in Seq(Packets), NEW T, NEW pos, Stream(S, T, pos),
         NEW i \in 0..Len(S), NEW j \in 0..Len(S), i <= j
  PROVE  /\ pos[i] \in Nat /\ pos[j] \in Nat /\ Len(T) \in Nat
         /\ j - i <= pos[j] - pos[i] /\ pos[j] <= Len(T)
<1>1. Len(S) \in Nat /\ Len(S) \in 0..Len(S) /\ T \in Seq(Byte) /\ pos \in [0..Len(S) -> Nat]
  BY DEF Stream
<1>2. pos[i] \in Nat /\ pos[j] \in Nat /\ pos[Len(S)] \in Nat /\ pos[Len(S)] = Len(T)
  BY <1>1 DEF Stream
<1>3. j - i <= pos[j] - pos[i]
  BY DEF Stream
<1>4. Len(S) - j <= pos[Len(S)] - pos[j]
  BY <1>1 DEF Stream
<1> QED  BY <1>1, <1>2, <1>3, <1>4

\* No packets are no bytes.
LEMMA StreamOfNone ==
  \E T \in Seq(Byte), pos \in [0..0 -> Nat] : Stream(<<>>, T, pos)
<1> DEFINE pos == [i \in 0..0 |-> 0]
<1>1. Len(<<>>) = 0 /\ <<>> \in Seq(Byte)
  BY EmptySeq
<1>2. pos \in [0..0 -> Nat] /\ pos[0] = 0
  OBVIOUS
<1>3. Stream(<<>>, <<>>, pos)
  BY <1>1, <1>2 DEF Stream
<1> QED  BY <1>1, <1>2, <1>3

\* One more packet goes to the end of the bytes.
LEMMA StreamAppend ==
  ASSUME NEW S \in Seq(Packets), NEW T, NEW pos, Stream(S, T, pos), NEW p \in Packets
  PROVE  \E U, q :
           /\ Stream(Append(S, p), U, q)
           /\ \A i \in 0..Len(S) : q[i] = pos[i]
           /\ \A j \in 1..Len(T) : U[j] = T[j]
<1> DEFINE n == Len(S)
           f == serialize(p)
           l == Len(f)
           R == Append(S, p)
           U == T \o f
           q == [i \in 0..(n + 1) |-> IF i <= n THEN pos[i] ELSE pos[n] + l]
<1>1. n \in Nat /\ f \in Seq(Byte) /\ l \in Nat /\ l >= 5
  BY PacketBytes
<1>2. /\ T \in Seq(Byte) /\ Len(T) \in Nat /\ pos \in [0..n -> Nat] /\ pos[0] = 0 /\ pos[n] = Len(T)
      /\ \A i, j \in 0..n : i <= j => j - i <= pos[j] - pos[i]
      /\ \A i \in 1..n :
           /\ pos[i] = pos[i - 1] + Len(serialize(S[i]))
           /\ \A j \in 1..Len(serialize(S[i])) : T[pos[i - 1] + j] = serialize(S[i])[j]
  BY DEF Stream
<1>3. /\ Len(R) = n + 1 /\ R[n + 1] = p /\ \A i \in 1..n : R[i] = S[i]
  BY AppendProperties
<1>4. /\ U \in Seq(Byte) /\ Len(U) = Len(T) + l
      /\ \A j \in 1..Len(T) : U[j] = T[j]
      /\ \A j \in 1..l : U[Len(T) + j] = f[j]
  BY <1>1, <1>2, ConcatProperties
<1> HIDE DEF f, l, R, U
<1>5. /\ q \in [0..(n + 1) -> Nat] /\ \A i \in 0..n : q[i] = pos[i]
      /\ q[n + 1] = Len(T) + l
  BY <1>1, <1>2
<1>6. q[0] = 0 /\ q[Len(R)] = Len(U)
  BY <1>1, <1>2, <1>3, <1>4, <1>5
<1>10. \A i, j \in 0..n : i <= j => /\ pos[i] \in Nat /\ pos[j] \in Nat
                                   /\ j - i <= pos[j] - pos[i] /\ pos[j] <= Len(T)
  BY StreamPositions
<1> HIDE DEF q, n
<1>7. ASSUME NEW i \in 0..(n + 1), NEW j \in 0..(n + 1), i <= j
      PROVE  j - i <= q[j] - q[i]
  <2>1. CASE j <= n
    <3>1. i \in 0..n /\ j \in 0..n
      BY <1>1, <1>7, <2>1
    <3>2. j - i <= pos[j] - pos[i] /\ q[i] = pos[i] /\ q[j] = pos[j]
      BY <1>5, <1>7, <1>10, <3>1
    <3> QED  BY <3>2
  <2>2. CASE i = n + 1
    BY <1>1, <1>5, <1>7, <2>2
  <2>3. CASE j = n + 1 /\ i <= n
    <3>1. i \in 0..n /\ n \in 0..n /\ i <= n
      BY <1>1, <2>3
    <3>2. n - i <= pos[n] - pos[i] /\ pos[i] \in Nat /\ q[i] = pos[i] /\ pos[n] = Len(T)
      BY <1>2, <1>5, <1>10, <3>1
    <3>3. q[j] = pos[n] + l /\ pos[n] \in Nat
      BY <1>2, <1>5, <2>3, <3>2
    <3> QED  BY <1>1, <2>3, <3>2, <3>3
  <2> QED  BY <1>1, <1>7, <2>1, <2>2, <2>3
<1>8. ASSUME NEW i \in 1..(n + 1)
      PROVE  /\ q[i] = q[i - 1] + Len(serialize(R[i]))
             /\ \A j \in 1..Len(serialize(R[i])) : U[q[i - 1] + j] = serialize(R[i])[j]
  <2>1. CASE i <= n
    <3>1. i \in 1..n /\ i - 1 \in 0..n /\ i \in 0..n
      BY <1>1, <2>1
    <3>2. /\ q[i] = pos[i] /\ q[i - 1] = pos[i - 1] /\ R[i] = S[i]
          /\ pos[i] = pos[i - 1] + Len(serialize(S[i]))
          /\ \A j \in 1..Len(serialize(S[i])) : T[pos[i - 1] + j] = serialize(S[i])[j]
      BY <1>2, <1>3, <1>5, <3>1
    <3>3. pos[i] <= Len(T) /\ pos[i - 1] \in Nat /\ Len(serialize(S[i])) \in Nat
      <4>1. pos[i] <= Len(T) /\ pos[i] \in Nat /\ pos[i - 1] \in Nat
        <5>1. i - 1 <= i /\ i - 1 \in 0..n /\ i \in 0..n
          BY <1>1, <3>1
        <5> QED  BY <1>10, <5>1
      <4>2. S[i] \in Packets
        BY <3>1, ElementOfSeq DEF n
      <4> QED  BY <4>1, <4>2, PacketBytes
    <3>4. \A j \in 1..Len(serialize(S[i])) : pos[i - 1] + j \in 1..Len(T)
      BY <1>2, <3>2, <3>3
    <3> QED  BY <1>4, <3>2, <3>4
  <2>2. CASE i = n + 1
    <3>1. R[i] = p /\ q[i - 1] = Len(T) /\ q[i] = Len(T) + l
      <4>1. i - 1 = n /\ n \in 0..n
        BY <1>1, <2>2
      <4> QED  BY <1>2, <1>3, <1>5, <2>2, <4>1
    <3> QED  BY <1>4, <3>1 DEF f, l
  <2> QED  BY <1>1, <2>1, <2>2
<1>9. Stream(R, U, q)
  BY <1>3, <1>4, <1>5, <1>6, <1>7, <1>8 DEF Stream
<1> QED  BY <1>4, <1>5, <1>9 DEF R, n
-----------------------------------------------------------------------------
(* Taking packets from a buffer *)

\* The ends that are found are those of any function with the steps of ends.
LEMMA EndsAre ==
  ASSUME NEW b \in Seq(Byte), NEW o, NEW f \in [0..Len(b) -> Nat],
         f[0] = o,
         \A k \in 1..Len(b) :
           f[k] = IF complete(b, f[k - 1]) THEN next(b, f[k - 1]) ELSE f[k - 1]
  PROVE  \A k \in 0..Len(b) : ends(b, o)[k] = f[k]
<1> DEFINE after(i) == IF complete(b, i) THEN next(b, i) ELSE i
           is(g) == g = [k \in 0..Len(b) |-> IF k = 0 THEN o ELSE after(g[k - 1])]
           e == CHOOSE g : is(g)
           n == Len(b)
<1>1. n \in Nat
  OBVIOUS
<1>2. is(f)
  <2>1. \A k \in 0..n : f[k] = IF k = 0 THEN o ELSE after(f[k - 1])
    <3> TAKE k \in 0..n
    <3>1. k = 0 \/ k \in 1..n
      BY <1>1
    <3> QED  BY <3>1
  <2> HIDE DEF after
  <2> QED  BY <2>1
<1>3. ends(b, o) = e
  BY DEF ends
<1> HIDE DEF is
<1>4. is(e)
  BY <1>2
<1> HIDE DEF e
<1>5. e[0] = o /\ \A k \in 1..n : e[k] = after(e[k - 1])
  BY <1>1, <1>4 DEF is
<1> DEFINE bad == {k \in 0..n : e[k] # f[k]}
<1>6. bad = {}
  <2> SUFFICES ASSUME bad # {}
               PROVE  FALSE
    OBVIOUS
  <2>1. PICK k \in bad : \A j \in bad : k <= j
    <3>1. bad \in SUBSET Nat
      BY <1>1
    <3> HIDE DEF bad
    <3> QED  BY <3>1, SmallestOf
  <2>2. k \in 1..n
    BY <1>1, <1>5, <2>1
  <2>3. k - 1 \in 0..n /\ ~(k <= k - 1)
    BY <1>1, <2>2
  <2>4. e[k - 1] = f[k - 1]
    BY <2>1, <2>3
  <2>5. e[k] = f[k]
    BY <1>5, <2>2, <2>4
  <2> QED  BY <2>1, <2>5
<1> QED  BY <1>3, <1>6

\* The bytes b from the offset o on are those of T after the position a.
PartOf(b, o, T, a) ==
  /\ (Len(b) - o) + a <= Len(T)
  /\ \A j \in 1..(Len(b) - o) : b[o + j] = T[a + j]

\* u has the packets of S from the g-th on to the h-th, and less than a packet is left.
TakesUpTo(h, b, o, S, pos, g, u) ==
  /\ u.packets \in Seq(Packets) /\ Len(u.packets) = h - g
  /\ \A k \in 1..(h - g) : u.packets[k] = S[g + k]
  /\ u.offset = o + (pos[h] - pos[g]) /\ u.offset \in o..Len(b)
  /\ h < Len(S) => Len(b) - u.offset < Len(serialize(S[h + 1]))
  /\ h = Len(S) => u.offset = Len(b)

\* Of a stream that a buffer has a part of, the buffer's packets are taken whole and in order.
LEMMA Unpacked ==
  ASSUME NEW b \in Seq(Byte), NEW o \in 0..Len(b), NEW S \in Seq(Packets), NEW T, NEW pos,
         Stream(S, T, pos), NEW g \in 0..Len(S), PartOf(b, o, T, pos[g]),
         NEW u, u = unpack(b, o)
  PROVE  \E h \in g..Len(S) : TakesUpTo(h, b, o, S, pos, g, u)
<1> DEFINE n == Len(S)
           m == Len(b)
           at(i) == o + (pos[i] - pos[g])
           fits == {i \in 0..n : i >= g /\ at(i) <= m}
<1>1. /\ n \in Nat /\ m \in Nat /\ g \in 0..n /\ o \in 0..m /\ Len(T) \in Nat
      /\ pos \in [0..n -> Nat] /\ pos[n] = Len(T)
      /\ (m - o) + pos[g] <= Len(T)
  BY DEF Stream, PartOf
<1>2. \A i, j \in 0..n : i <= j => /\ pos[i] \in Nat /\ pos[j] \in Nat
                                   /\ j - i <= pos[j] - pos[i] /\ pos[j] <= Len(T)
  BY StreamPositions
<1>3. \A i \in 1..n : /\ pos[i] = pos[i - 1] + Len(serialize(S[i]))
                      /\ \A j \in 1..Len(serialize(S[i])) : T[pos[i - 1] + j] = serialize(S[i])[j]
  BY DEF Stream
<1>4. PICK h \in fits : \A i \in fits : i <= h
  <2>1. g \in fits
    BY <1>1
  <2> HIDE DEF fits
  <2>2. fits \in SUBSET (0..n)
    BY DEF fits
  <2> QED  BY <1>1, <2>1, <2>2, GreatestOf
<1>5. h \in 0..n /\ g <= h /\ at(h) <= m /\ h \in Nat /\ g \in Nat
  BY <1>1, <1>4
<1>6. ASSUME NEW i \in 0..n, g <= i, i <= h
      PROVE  /\ pos[i] \in Nat /\ pos[g] \in Nat /\ pos[h] \in Nat
             /\ at(i) \in o..m /\ i - g <= pos[i] - pos[g]
  <2>1. pos[g] \in Nat /\ pos[i] \in Nat /\ i - g <= pos[i] - pos[g]
    BY <1>1, <1>2, <1>6
  <2>2. pos[h] \in Nat /\ h - i <= pos[h] - pos[i]
    BY <1>2, <1>5, <1>6
  <2>3. pos[g] <= pos[i] /\ pos[i] <= pos[h] /\ i \in Nat /\ g \in Nat
    <3>1. i \in Nat /\ g \in Nat /\ h \in Nat /\ 0 <= i - g /\ 0 <= h - i
      BY <1>1, <1>5, <1>6
    <3>2. \A x, y \in Nat, d \in Int : 0 <= d /\ d <= y - x => x <= y
      OBVIOUS
    <3>3. i - g \in Int /\ h - i \in Int
      BY <3>1
    <3> QED  BY <2>1, <2>2, <3>1, <3>2, <3>3
  <2>4. at(i) \in o..m
    <3>1. \A x, y, z, q, k \in Nat :
            x <= y /\ y <= z /\ q + (z - x) <= k => q + (y - x) \in q..k
      OBVIOUS
    <3>2. o \in Nat /\ m \in Nat /\ o + (pos[h] - pos[g]) <= m
      BY <1>1, <1>5
    <3> QED  BY <2>1, <2>2, <2>3, <3>1, <3>2
  <2> QED  BY <2>1, <2>2, <2>4
<1> HIDE DEF fits
<1>7. ASSUME NEW i \in 0..n, g <= i, i <= h, i < n
      PROVE  /\ S[i + 1] \in Packets /\ at(i + 1) = at(i) + Len(serialize(S[i + 1]))
             /\ Len(serialize(S[i + 1])) \in Nat
             /\ complete(b, at(i)) <=> i < h
             /\ complete(b, at(i)) =>
                  next(b, at(i)) = at(i + 1) /\ received(SubSeq(b, at(i) + 1, at(i + 1))) = S[i + 1]
  <2> DEFINE p == S[i + 1]
             l == Len(serialize(p))
             a == at(i)
  <2>1. i + 1 \in 1..n /\ i + 1 \in 0..n /\ (i + 1) - 1 = i
    BY <1>1, <1>7
  <2>2. p \in Packets
    BY <2>1, ElementOfSeq
  <2>3. l \in Nat /\ l >= 5
    BY <2>2, PacketBytes
  <2>4. /\ pos[i + 1] = pos[i] + l
        /\ \A j \in 1..l : T[pos[i] + j] = serialize(p)[j]
    BY <1>3, <2>1
  <2>5. a \in o..m /\ pos[i] \in Nat /\ pos[g] \in Nat /\ 0 <= pos[i] - pos[g]
    BY <1>1, <1>6, <1>7
  <2>6. at(i + 1) = a + l
    <3> DEFINE P == pos[i]
               Q == pos[g]
    <3>1. /\ P \in Nat /\ Q \in Nat /\ o \in Nat /\ at(i + 1) = o + ((P + l) - Q)
          /\ a = o + (P - Q)
      BY <1>1, <2>4, <2>5
    <3> HIDE DEF P, Q, a, at, l
    <3> QED  BY <2>3, <3>1
  <2> HIDE DEF l, p
  <2>7. ASSUME NEW j \in 1..l, a + j <= m
        PROVE  b[a + j] = serialize(p)[j]
    <3> DEFINE x == (pos[i] - pos[g]) + j
    <3>1. x \in 1..(m - o) /\ a + j = o + x /\ pos[g] + x = pos[i] + j
      <4> DEFINE P == pos[i]
                 Q == pos[g]
      <4>1. /\ P \in Nat /\ Q \in Nat /\ 0 <= P - Q /\ x = (P - Q) + j /\ a = o + (P - Q)
            /\ o \in Nat /\ m \in Nat /\ a + j <= m
        BY <1>1, <2>5, <2>7
      <4> HIDE DEF P, Q, x, a
      <4>2. x \in 1..(m - o) /\ a + j = o + x /\ Q + x = P + j
        BY <2>3, <4>1
      <4> QED  BY <4>2 DEF P, Q
    <3> HIDE DEF x
    <3>2. b[o + x] = T[pos[g] + x]
      BY <3>1 DEF PartOf
    <3> QED  BY <2>4, <3>1, <3>2
  <2>8. a \in 0..m
    BY <1>1, <2>5
  <2> HIDE DEF a
  <2>9. /\ complete(b, a) <=> a + l <= m
        /\ complete(b, a) => next(b, a) = a + l /\ received(SubSeq(b, a + 1, next(b, a))) = p
    BY <2>2, <2>7, <2>8, FrameAt DEF l
  <2>10. a + l <= m <=> i < h
    <3>1. ASSUME i < h
          PROVE  a + l <= m
      <4>1. i + 1 <= h /\ g <= i + 1
        BY <1>1, <1>5, <1>7, <3>1
      <4>2. at(i + 1) \in o..m
        BY <1>6, <2>1, <4>1
      <4> QED  BY <1>1, <2>6, <4>2
    <3>2. ASSUME a + l <= m
          PROVE  i < h
      <4>1. i + 1 \in fits
        BY <1>1, <1>5, <1>7, <2>1, <2>6, <3>2 DEF fits
      <4>2. i + 1 <= h
        BY <1>4, <4>1
      <4> QED  BY <1>1, <1>5, <4>2
    <3> QED  BY <3>1, <3>2
  <2> QED  BY <2>2, <2>3, <2>6, <2>9, <2>10 DEF a, p, l
<1>8. h = n => at(h) = m
  <2> SUFFICES ASSUME h = n
               PROVE  at(h) = m
    OBVIOUS
  <2> DEFINE Q == pos[g]
             H == pos[h]
             t == Len(T)
  <2>1. /\ Q \in Nat /\ H \in Nat /\ H = t /\ (m - o) + Q <= t /\ o + (H - Q) <= m
        /\ at(h) = o + (H - Q) /\ m \in Nat /\ o \in Nat /\ t \in Nat
    BY <1>1, <1>5, <1>6
  <2> HIDE DEF Q, H, at, m, t
  <2>2. (m - o) + Q <= H /\ o + (H - Q) <= m
    BY <2>1
  <2>3. m <= o + (H - Q)
    BY <2>1, <2>2
  <2> QED  BY <2>1, <2>2, <2>3
<1>9. ~complete(b, at(h))
  <2>1. CASE h < n
    BY <1>5, <1>7, <2>1
  <2>2. CASE h = n
    <3>1. ~(m - m >= 4)
      BY <1>1
    <3> QED  BY <1>8, <2>2, <3>1 DEF complete
  <2> QED  BY <1>1, <1>5, <2>1, <2>2
<1> DEFINE f == [k \in 0..m |-> at(IF g + k <= h THEN g + k ELSE h)]
           end == ends(b, o)
           w == h - g
<1>10. w \in 0..m /\ g + w = h
  BY <1>1, <1>5, <1>6, SMTT(30)
<1>11. \A k \in 0..m : end[k] = f[k]
  <2>1. f \in [0..m -> Nat]
    <3> SUFFICES ASSUME NEW k \in 0..m
                 PROVE  at(IF g + k <= h THEN g + k ELSE h) \in Nat
      OBVIOUS
    <3>1. ASSUME NEW i \in 0..n, g <= i, i <= h
          PROVE  at(i) \in Nat
      BY <1>1, <1>6, <3>1
    <3>2. CASE g + k <= h
      <4>1. g + k \in 0..n /\ g <= g + k
        BY <1>1, <1>5, <3>2
      <4> HIDE DEF at
      <4> QED  BY <3>1, <3>2, <4>1
    <3>3. CASE ~(g + k <= h)
      <4>1. at(h) \in Nat
        BY <1>5, <3>1
      <4> HIDE DEF at
      <4> QED  BY <3>3, <4>1
    <3> QED  BY <3>2, <3>3
  <2>2. f[0] = o
    <3>1. f[0] = at(g)
      BY <1>1, <1>5
    <3> QED  BY <1>1, <1>5, <1>6, <3>1
  <2>3. ASSUME NEW k \in 1..m
        PROVE  f[k] = IF complete(b, f[k - 1]) THEN next(b, f[k - 1]) ELSE f[k - 1]
    <3> DEFINE i == g + (k - 1)
    <3>1. k \in 0..m /\ k - 1 \in 0..m /\ i + 1 = g + k /\ i \in Nat /\ g <= i
      BY <1>1, <1>5
    <3>2. f[k] = at(IF i + 1 <= h THEN i + 1 ELSE h) /\ f[k - 1] = at(IF i <= h THEN i ELSE h)
      BY <3>1
    <3> HIDE DEF f, i
    <3>3. CASE i < h
      <4>1. i + 1 <= h /\ i <= h /\ i \in 0..n /\ i < n
        BY <1>1, <1>5, <3>1, <3>3
      <4>2. f[k] = at(i + 1) /\ f[k - 1] = at(i)
        BY <3>2, <4>1
      <4>3. complete(b, at(i)) /\ next(b, at(i)) = at(i + 1)
        BY <1>7, <3>1, <3>3, <4>1
      <4> HIDE DEF at
      <4> QED  BY <4>2, <4>3
    <3>4. CASE ~(i < h)
      <4>1. ~(i + 1 <= h) /\ (i <= h => i = h)
        BY <1>5, <3>1, <3>4
      <4>2. f[k] = at(h) /\ f[k - 1] = at(h)
        BY <3>2, <4>1
      <4> HIDE DEF at
      <4> QED  BY <1>9, <4>2
    <3> QED  BY <3>3, <3>4
  <2> HIDE DEF f
  <2> QED  BY <2>1, <2>2, <2>3, EndsAre
<1>12. \A k \in 0..w : end[k] = at(g + k)
  <2> TAKE k \in 0..w
  <2>1. k \in 0..m /\ g + k <= h
    BY <1>1, <1>5, <1>10
  <2> QED  BY <1>11, <2>1
<1> HIDE DEF f, end
<1>13. \A k \in 0..(w - 1) : complete(b, end[k])
  <2> TAKE k \in 0..(w - 1)
  <2>1. k \in 0..w /\ g + k \in 0..n /\ g <= g + k /\ g + k < h /\ g + k <= h /\ g + k < n
    BY <1>1, <1>5, <1>10
  <2>2. complete(b, at(g + k))
    BY <1>7, <2>1
  <2> HIDE DEF at
  <2> QED  BY <1>12, <2>1, <2>2
<1>14. ~complete(b, end[w])
  <2>1. w \in 0..w
    BY <1>10
  <2> HIDE DEF at
  <2> QED  BY <1>9, <1>10, <1>12, <2>1
<1> DEFINE many == CHOOSE k \in 0..m : ~complete(b, end[k]) /\ \A j \in 0..(k - 1) : complete(b, end[j])
<1>15. many = w
  <2> DEFINE first(k) == ~complete(b, end[k]) /\ \A j \in 0..(k - 1) : complete(b, end[j])
  <2>1. first(w)
    BY <1>13, <1>14
  <2>2. ASSUME NEW k \in 0..m, first(k)
        PROVE  k = w
    <3>1. ~(k < w)
      <4> SUFFICES ASSUME k < w PROVE FALSE
        OBVIOUS
      <4>1. k \in 0..(w - 1)
        BY <1>1, <1>10
      <4> QED  BY <1>13, <2>2, <4>1
    <3>2. ~(w < k)
      <4> SUFFICES ASSUME w < k PROVE FALSE
        OBVIOUS
      <4>1. w \in 0..(k - 1)
        BY <1>1, <1>10
      <4> QED  BY <1>14, <2>2, <4>1
    <3> QED  BY <1>1, <1>10, <3>1, <3>2
  <2> HIDE DEF first, w
  <2>3. many = CHOOSE k \in 0..m : first(k)
    BY DEF first
  <2> QED  BY <1>10, <2>1, <2>2, <2>3
<1> DEFINE out == [k \in 1..many |-> received(SubSeq(b, end[k - 1] + 1, end[k]))]
<1>16. u = [packets |-> out, offset |-> end[many]]
  BY DEF unpack, end
<1> HIDE DEF many
<1>17. u.packets = [k \in 1..w |-> received(SubSeq(b, end[k - 1] + 1, end[k]))] /\ u.offset = at(h)
  <2>1. u.packets = out /\ u.offset = end[many]
    BY <1>16
  <2>2. w \in 0..w
    BY <1>10
  <2> HIDE DEF at, w
  <2> QED  BY <1>10, <1>12, <1>15, <2>1, <2>2
<1> HIDE DEF out
<1>18. ASSUME NEW k \in 1..w
       PROVE  u.packets[k] = S[g + k] /\ S[g + k] \in Packets
  <2> DEFINE i == g + (k - 1)
  <2>1. /\ k - 1 \in 0..w /\ k \in 0..w /\ i \in 0..n /\ g <= i /\ i < h /\ i <= h /\ i < n
        /\ i + 1 = g + k
    BY <1>1, <1>5, <1>10
  <2>2. u.packets[k] = received(SubSeq(b, end[k - 1] + 1, end[k]))
    BY <1>17
  <2>3. end[k - 1] = at(i) /\ end[k] = at(i + 1)
    BY <1>12, <2>1
  <2> HIDE DEF i
  <2>4. received(SubSeq(b, at(i) + 1, at(i + 1))) = S[i + 1] /\ S[i + 1] \in Packets
    BY <1>7, <2>1
  <2> HIDE DEF at
  <2> QED  BY <2>1, <2>2, <2>3, <2>4
<1>19. u.packets \in Seq(Packets) /\ Len(u.packets) = w
  <2> DEFINE r(k) == received(SubSeq(b, end[k - 1] + 1, end[k]))
  <2>1. u.packets = [k \in 1..w |-> r(k)]
    BY <1>17
  <2>2. \A k \in 1..w : r(k) \in Packets
    BY <1>18, <2>1
  <2>3. w \in Nat
    BY <1>10
  <2> HIDE DEF r, w
  <2> QED  BY <2>1, <2>2, <2>3
<1>20. h < n => m - at(h) < Len(serialize(S[h + 1]))
  <2> SUFFICES ASSUME h < n PROVE m - at(h) < Len(serialize(S[h + 1]))
    OBVIOUS
  <2> DEFINE l == Len(serialize(S[h + 1]))
  <2>1. at(h + 1) = at(h) + l /\ l \in Nat
    BY <1>5, <1>7
  <2>2. h + 1 \notin fits
    BY <1>4, <1>5
  <2>3. ~(at(h + 1) <= m)
    BY <1>1, <1>5, <2>2 DEF fits
  <2>4. at(h) \in Int
    BY <1>1, <1>5, <1>6
  <2> HIDE DEF at, l
  <2>5. m - at(h) < l
    BY <1>1, <2>1, <2>3, <2>4
  <2> QED  BY <2>5 DEF l
<1>21. at(h) \in o..m
  BY <1>5, <1>6
<1>22. h \in g..n
  BY <1>1, <1>5
<1> WITNESS h \in g..Len(S)
<1> QED  BY <1>8, <1>17, <1>18, <1>19, <1>20, <1>21 DEF TakesUpTo
-----------------------------------------------------------------------------
(***************************************************************************)
(* One direction: the packets S of the sender, those the receiver has got, *)
(* the queue of packets to send, the receiver's buffer, the bytes on their *)
(* way, and how many bytes may have been lost behind these.                *)
(***************************************************************************)

Pending == [data : Seq(Byte), sent : Nat]
Buffers == {b \in [bytes : Seq(Byte), offset : Nat] : b.offset <= Len(b.bytes)}

kept(b) == Len(b.bytes) - b.offset
left(b, w) == kept(b) + Len(w)
byteAt(b, w, j) == IF j <= kept(b) THEN b.bytes[b.offset + j] ELSE w[j - kept(b)]
sentOf(q) == IF Len(q) = 0 THEN 0 ELSE q[1].sent

\* The last packets wait, the first of these sent in part.
Queued(S, q) ==
  /\ Len(q) <= Len(S)
  /\ \A j \in 1..Len(q) : /\ q[j].data = serialize(S[Len(S) - Len(q) + j])
                          /\ q[j].sent < Len(q[j].data)
                          /\ j > 1 => q[j].sent = 0

\* The bytes that have arrived or are on their way follow the packets that were taken.
Carried(S, G, q, b, w, losses, T, pos) ==
  /\ (pos[Len(S) - Len(q)] + sentOf(q)) - (pos[Len(G)] + left(b, w)) \in losses
  /\ \A j \in 1..left(b, w) : byteAt(b, w, j) = T[pos[Len(G)] + j]

\* What was taken is what was sent first; the buffer keeps less than a packet.
Taken(S, G, q, b) ==
  /\ Len(G) <= Len(S) - Len(q) /\ \A i \in 1..Len(G) : G[i] = S[i]
  /\ Len(G) < Len(S) => kept(b) < Len(serialize(S[Len(G) + 1]))
  /\ Len(G) = Len(S) => kept(b) = 0

Flow(S, G, q, b, w, losses) ==
  /\ S \in Seq(Packets) /\ G \in Seq(Packets) /\ q \in Seq(Pending)
  /\ b \in Buffers /\ w \in Seq(Byte)
  /\ Queued(S, q) /\ Taken(S, G, q, b)
  /\ \E T, pos : Stream(S, T, pos) /\ Carried(S, G, q, b, w, losses, T, pos)

\* The sizes of a flow are numbers, and no more is sent than the stream has.
LEMMA FlowSizes ==
  ASSUME NEW S \in Seq(Packets), NEW G \in Seq(Packets), NEW q \in Seq(Pending),
         NEW b \in Buffers, NEW w \in Seq(Byte), Queued(S, q), Len(G) <= Len(S) - Len(q),
         NEW T, NEW pos, Stream(S, T, pos)
  PROVE  /\ Len(S) \in Nat /\ Len(G) \in 0..Len(S) /\ Len(q) \in 0..Len(S)
         /\ Len(S) - Len(q) \in 0..Len(S)
         /\ pos[Len(S) - Len(q)] \in Nat /\ pos[Len(G)] \in Nat /\ sentOf(q) \in Nat
         /\ kept(b) \in Nat /\ Len(w) \in Nat /\ left(b, w) \in Nat /\ Len(T) \in Nat
         /\ pos[Len(S) - Len(q)] + sentOf(q) <= Len(T)
<1> DEFINE n == Len(S)
           m == n - Len(q)
<1>1. n \in Nat /\ Len(q) \in Nat /\ Len(G) \in Nat /\ Len(q) <= n /\ Len(w) \in Nat
  BY DEF Queued
<1>2. m \in 0..n /\ Len(G) \in 0..n /\ Len(q) \in 0..n
  BY <1>1
<1>3. pos[m] \in Nat /\ pos[Len(G)] \in Nat /\ Len(T) \in Nat /\ pos[m] <= Len(T)
  BY <1>2, StreamPositions
<1>4. kept(b) \in Nat /\ left(b, w) \in Nat
  BY <1>1 DEF Buffers, kept, left
<1>5. sentOf(q) \in Nat /\ pos[m] + sentOf(q) <= Len(T)
  <2>1. CASE Len(q) = 0
    BY <1>3, <2>1 DEF sentOf
  <2>2. CASE Len(q) # 0
    <3>1. 1 \in 1..Len(q) /\ m + 1 \in 1..n /\ m + 1 \in 0..n /\ (m + 1) - 1 = m /\ m <= m + 1
      BY <1>1, <2>2
    <3>2. q[1] \in Pending /\ sentOf(q) = q[1].sent
      BY <2>2, <3>1, ElementOfSeq DEF sentOf
    <3>3. q[1].data = serialize(S[m + 1]) /\ q[1].sent < Len(q[1].data)
      BY <3>1 DEF Queued
    <3>4. pos[m + 1] = pos[m] + Len(serialize(S[m + 1]))
      BY <3>1 DEF Stream
    <3>5. pos[m + 1] \in Nat /\ pos[m + 1] <= Len(T)
      BY <3>1, <1>2, StreamPositions
    <3>6. q[1].sent \in Nat /\ Len(q[1].data) \in Nat
      BY <3>2 DEF Pending
    <3> HIDE DEF m
    <3>7. pos[m] + q[1].sent <= Len(T)
      BY <1>3, <3>3, <3>4, <3>5, <3>6, SMTT(30)
    <3> QED  BY <3>2, <3>6, <3>7
  <2> QED  BY <2>1, <2>2
<1> QED  BY <1>1, <1>2, <1>3, <1>4, <1>5

\* A new direction carries nothing.
LEMMA FlowOfNone ==
  ASSUME NEW b, b = emptyBuffer
  PROVE  Flow(<<>>, <<>>, <<>>, b, <<>>, {0})
<1>1. /\ <<>> \in Seq(Packets) /\ <<>> \in Seq(Pending) /\ <<>> \in Seq(Byte) /\ Len(<<>>) = 0
  BY EmptySeq
<1>2. b \in Buffers /\ kept(b) = 0
  BY <1>1 DEF emptyBuffer, Buffers, kept
<1>3. Queued(<<>>, <<>>) /\ Taken(<<>>, <<>>, <<>>, b)
  BY <1>1, <1>2 DEF Queued, Taken
<1>4. PICK T \in Seq(Byte), pos \in [0..0 -> Nat] : Stream(<<>>, T, pos)
  BY StreamOfNone
<1>5. pos[0] = 0
  BY <1>4 DEF Stream
<1>6. left(b, <<>>) = 0 /\ sentOf(<<>>) = 0
  BY <1>1, <1>2 DEF left, sentOf
<1>7. Carried(<<>>, <<>>, <<>>, b, <<>>, {0}, T, pos)
  BY <1>1, <1>5, <1>6 DEF Carried
<1> QED  BY <1>1, <1>2, <1>3, <1>4, <1>7 DEF Flow

\* A packet that is sent waits behind the others.
LEMMA FlowSend ==
  ASSUME NEW S, NEW G, NEW q, NEW b, NEW w, NEW losses \in SUBSET Nat,
         Flow(S, G, q, b, w, losses),
         NEW p \in Packets, NEW x, x = [data |-> serialize(p), sent |-> 0]
  PROVE  Flow(Append(S, p), G, Append(q, x), b, w, losses)
<1> DEFINE R == Append(S, p)
           r == Append(q, x)
           n == Len(S)
           l == Len(q)
           f == serialize(p)
<1>1. /\ S \in Seq(Packets) /\ G \in Seq(Packets) /\ q \in Seq(Pending)
      /\ b \in Buffers /\ w \in Seq(Byte)
      /\ Queued(S, q) /\ Taken(S, G, q, b) /\ Len(G) <= Len(S) - Len(q)
  BY DEF Flow, Taken
<1>2. PICK T, pos : Stream(S, T, pos) /\ Carried(S, G, q, b, w, losses, T, pos)
  BY DEF Flow
<1>3. /\ n \in Nat /\ Len(G) \in 0..n /\ l \in 0..n /\ n - l \in 0..n
      /\ pos[n - l] \in Nat /\ pos[Len(G)] \in Nat /\ sentOf(q) \in Nat
      /\ kept(b) \in Nat /\ left(b, w) \in Nat /\ Len(T) \in Nat
      /\ pos[n - l] + sentOf(q) <= Len(T)
  BY <1>1, <1>2, FlowSizes
<1>4. f \in Seq(Byte) /\ Len(f) \in Nat /\ Len(f) >= 5 /\ x \in Pending /\ x.data = f /\ x.sent = 0
  BY PacketBytes DEF Pending
<1>5. /\ R \in Seq(Packets) /\ Len(R) = n + 1 /\ R[n + 1] = p /\ \A i \in 1..n : R[i] = S[i]
      /\ r \in Seq(Pending) /\ Len(r) = l + 1 /\ r[l + 1] = x /\ \A i \in 1..l : r[i] = q[i]
  BY <1>1, <1>4, AppendProperties
<1>6. Len(R) - Len(r) = n - l
  BY <1>3, <1>5
<1>7. PICK U, k : /\ Stream(R, U, k)
                  /\ \A i \in 0..n : k[i] = pos[i]
                  /\ \A j \in 1..Len(T) : U[j] = T[j]
  BY <1>1, <1>2, StreamAppend
<1> HIDE DEF R, r, n, l, f
<1>8. Queued(R, r)
  <2>1. Len(r) <= Len(R)
    BY <1>3, <1>5
  <2>2. ASSUME NEW j \in 1..(l + 1)
        PROVE  /\ r[j].data = serialize(R[(n - l) + j])
               /\ r[j].sent < Len(r[j].data)
               /\ j > 1 => r[j].sent = 0
    <3>1. CASE j = l + 1
      <4>1. (n - l) + j = n + 1
        BY <1>3, <3>1
      <4> QED  BY <1>4, <1>5, <3>1, <4>1 DEF f
    <3>2. CASE j # l + 1
      <4>1. j \in 1..l /\ (n - l) + j \in 1..n
        BY <1>3, <3>2
      <4>2. r[j] = q[j] /\ R[(n - l) + j] = S[(n - l) + j]
        BY <1>5, <4>1
      <4>3. /\ q[j].data = serialize(S[(n - l) + j]) /\ q[j].sent < Len(q[j].data)
            /\ j > 1 => q[j].sent = 0
        BY <1>1, <4>1 DEF Queued, n, l
      <4> QED  BY <4>2, <4>3
    <3> QED  BY <3>1, <3>2
  <2> QED  BY <1>5, <1>6, <2>1, <2>2 DEF Queued
<1>9. Taken(R, G, r, b)
  <2>1. Len(G) <= Len(R) - Len(r) /\ Len(G) <= n /\ Len(G) # Len(R)
    BY <1>1, <1>3, <1>5, <1>6 DEF n, l
  <2>2. \A i \in 1..Len(G) : G[i] = R[i]
    <3> TAKE i \in 1..Len(G)
    <3>1. i \in 1..n
      BY <1>3
    <3>2. G[i] = S[i]
      BY <1>1 DEF Taken
    <3> QED  BY <1>5, <3>1, <3>2
  <2>3. kept(b) < Len(serialize(R[Len(G) + 1]))
    <3>1. CASE Len(G) < n
      <4>1. Len(G) + 1 \in 1..n /\ kept(b) < Len(serialize(S[Len(G) + 1]))
        BY <1>1, <1>3, <3>1, SMTT(30) DEF Taken, n
      <4> QED  BY <1>5, <4>1
    <3>2. CASE Len(G) = n
      <4>1. kept(b) = 0 /\ R[Len(G) + 1] = p
        BY <1>1, <1>5, <3>2 DEF Taken, n
      <4> QED  BY <1>4, <4>1 DEF f
    <3> QED  BY <1>3, <3>1, <3>2
  <2> QED  BY <2>1, <2>2, <2>3 DEF Taken
<1>10. sentOf(r) = sentOf(q)
  <2>1. CASE l = 0
    BY <1>4, <1>5, <2>1 DEF sentOf, l
  <2>2. CASE l # 0
    <3>1. 1 \in 1..l /\ Len(r) # 0
      BY <1>3, <1>5, <2>2
    <3> QED  BY <1>5, <2>2, <3>1 DEF sentOf, l
  <2> QED  BY <2>1, <2>2
<1>11. Carried(R, G, r, b, w, losses, U, k)
  <2>1. k[n - l] = pos[n - l] /\ k[Len(G)] = pos[Len(G)]
    BY <1>3, <1>7
  <2>2. (pos[n - l] + sentOf(q)) - (pos[Len(G)] + left(b, w)) \in losses
        /\ \A j \in 1..left(b, w) : byteAt(b, w, j) = T[pos[Len(G)] + j]
    BY <1>2 DEF Carried, n, l
  <2>3. (k[Len(R) - Len(r)] + sentOf(r)) - (k[Len(G)] + left(b, w)) \in losses
    BY <1>6, <1>10, <2>1, <2>2
  <2>4. ASSUME NEW j \in 1..left(b, w)
        PROVE  byteAt(b, w, j) = U[k[Len(G)] + j]
    <3>1. (pos[n - l] + sentOf(q)) - (pos[Len(G)] + left(b, w)) \in Nat
      BY <2>2
    <3>2. pos[Len(G)] + j \in 1..Len(T)
      <4>1. \A a, c, d, e, o \in Nat :
              (a + c) - (d + e) \in Nat /\ a + c <= o => \A i \in 1..e : d + i \in 1..o
        OBVIOUS
      <4> QED  BY <1>3, <3>1, <4>1
    <3> QED  BY <1>7, <2>1, <2>2, <3>2
  <2> QED  BY <2>3, <2>4 DEF Carried
<1> QED  BY <1>1, <1>5, <1>7, <1>8, <1>9, <1>11 DEF Flow, R, r
\* The socket takes k bytes of the first packet, and the network has them.
LEMMA FlowPut ==
  ASSUME NEW S, NEW G, NEW q, NEW b, NEW w, Flow(S, G, q, b, w, {0}),
         Len(q) # 0, NEW k \in 1..(Len(q[1].data) - q[1].sent)
  PROVE  Flow(S, G, afterSend(q, k), b,
              w \o SubSeq(q[1].data, q[1].sent + 1, q[1].sent + k), {0})
<1> DEFINE n == Len(S)
           l == Len(q)
           m == n - l
           d == q[1].data
           o == q[1].sent
           c == SubSeq(d, o + 1, o + k)
           v == w \o c
           p == [Head(q) EXCEPT !.sent = @ + k]
           r == afterSend(q, k)
           g == Len(G)
<1>1. /\ S \in Seq(Packets) /\ G \in Seq(Packets) /\ q \in Seq(Pending)
      /\ b \in Buffers /\ w \in Seq(Byte)
      /\ Queued(S, q) /\ Taken(S, G, q, b) /\ g <= m
  BY DEF Flow, Taken
<1>2. PICK T, pos : Stream(S, T, pos) /\ Carried(S, G, q, b, w, {0}, T, pos)
  BY DEF Flow
<1>3. /\ n \in Nat /\ g \in 0..n /\ l \in 0..n /\ m \in 0..n
      /\ pos[m] \in Nat /\ pos[g] \in Nat /\ sentOf(q) \in Nat
      /\ kept(b) \in Nat /\ Len(w) \in Nat /\ left(b, w) \in Nat
  BY <1>1, <1>2, FlowSizes
<1>4. /\ l \in Nat /\ l >= 1 /\ 1 \in 1..l /\ m + 1 \in 1..n /\ (m + 1) - 1 = m
      /\ m + 1 \in 0..n
  BY <1>3
<1>5. /\ q[1] \in Pending /\ d \in Seq(Byte) /\ Len(d) \in Nat /\ o \in Nat
      /\ k \in Nat /\ k >= 1 /\ o + k <= Len(d) /\ sentOf(q) = o
  <2>1. q[1] \in Pending
    BY <1>1, <1>4, ElementOfSeq
  <2>2. d \in Seq(Byte) /\ Len(d) \in Nat /\ o \in Nat
    BY <2>1 DEF Pending
  <2> HIDE DEF d, o
  <2>3. k \in Nat /\ k >= 1 /\ o + k <= Len(d)
    <3>1. k \in 1..(Len(d) - o)
      BY DEF d, o
    <3> QED  BY <2>2, <3>1
  <2> QED  BY <2>1, <2>2, <2>3 DEF sentOf, d, o
<1>6. d = serialize(S[m + 1]) /\ \A j \in 2..l : q[j].sent = 0
  BY <1>1, <1>4 DEF Queued
<1>7. /\ pos[m + 1] = pos[m] + Len(d)
      /\ \A j \in 1..Len(d) : T[pos[m] + j] = d[j]
  BY <1>2, <1>4, <1>6 DEF Stream
<1>8. pos[m] + o = pos[g] + left(b, w) /\ \A j \in 1..left(b, w) : byteAt(b, w, j) = T[pos[g] + j]
  <2>1. (pos[m] + sentOf(q)) - (pos[g] + left(b, w)) = 0
    BY <1>2 DEF Carried
  <2> DEFINE A == pos[m]
             B == pos[g]
             E == left(b, w)
  <2>2. A \in Nat /\ B \in Nat /\ E \in Nat /\ o \in Nat /\ (A + o) - (B + E) = 0
    BY <1>3, <1>5, <2>1
  <2> HIDE DEF A, B, E, o
  <2>3. A + o = B + E
    BY <2>2
  <2>4. pos[m] + o = pos[g] + left(b, w)
    BY <2>3 DEF A, B, E
  <2> QED  BY <1>2, <2>4 DEF Carried
<1> HIDE DEF d, o, n, l, g
<1>9. c \in Seq(Byte) /\ Len(c) = k /\ \A j \in 1..k : c[j] = d[o + j]
  <2>1. \A i \in (o + 1)..(o + k) : d[i] \in Byte
    BY <1>5, ElementOfSeq
  <2>2. o + 1 \in Int /\ o + k \in Int /\ (o + k) - (o + 1) + 1 = k /\ o + 1 <= o + k
    BY <1>5
  <2>3. /\ c \in Seq(Byte) /\ Len(c) = k
        /\ \A i \in 1..k : c[i] = d[(o + 1) + i - 1]
    BY <2>1, <2>2, SubSeqProperties
  <2>4. \A i \in 1..k : (o + 1) + i - 1 = o + i
    BY <1>5
  <2> QED  BY <2>3, <2>4
<1> HIDE DEF c
<1>10. /\ v \in Seq(Byte) /\ Len(v) = Len(w) + k
       /\ \A j \in 1..Len(w) : v[j] = w[j]
       /\ \A j \in 1..k : v[Len(w) + j] = d[o + j]
  <2>1. /\ v \in Seq(Byte) /\ Len(v) = Len(w) + Len(c)
        /\ \A j \in 1..(Len(w) + Len(c)) : v[j] = IF j <= Len(w) THEN w[j] ELSE c[j - Len(w)]
    BY <1>1, <1>9, ConcatProperties
  <2> HIDE DEF v
  <2>2. v \in Seq(Byte) /\ Len(v) = Len(w) + k
    BY <1>9, <2>1
  <2>3. ASSUME NEW j \in 1..Len(w)
        PROVE  v[j] = w[j]
    <3>1. j \in 1..(Len(w) + Len(c)) /\ j <= Len(w)
      BY <1>3, <1>5, <1>9
    <3> QED  BY <2>1, <3>1
  <2>4. ASSUME NEW j \in 1..k
        PROVE  v[Len(w) + j] = d[o + j]
    <3>1. /\ Len(w) + j \in 1..(Len(w) + Len(c)) /\ ~(Len(w) + j <= Len(w))
          /\ (Len(w) + j) - Len(w) = j
      BY <1>3, <1>5, <1>9
    <3>2. v[Len(w) + j] = c[j]
      BY <2>1, <3>1
    <3> QED  BY <1>9, <3>2
  <2> QED  BY <2>2, <2>3, <2>4
<1> HIDE DEF v
<1>11. left(b, v) = left(b, w) + k
  BY <1>3, <1>5, <1>10 DEF left
<1>12. ASSUME NEW j \in 1..left(b, v)
       PROVE  byteAt(b, v, j) = T[pos[g] + j]
  <2>1. CASE j <= left(b, w)
    <3>1. j \in 1..left(b, w)
      BY <1>3, <2>1
    <3>2. byteAt(b, v, j) = byteAt(b, w, j)
      <4>1. ~(j <= kept(b)) => j - kept(b) \in 1..Len(w)
        BY <1>3, <3>1 DEF left
      <4> QED  BY <1>10, <4>1 DEF byteAt
    <3> QED  BY <1>8, <3>1, <3>2
  <2>2. CASE ~(j <= left(b, w))
    <3> DEFINE x == j - left(b, w)
    <3>1. /\ x \in 1..k /\ ~(j <= kept(b)) /\ j - kept(b) = Len(w) + x
          /\ pos[g] + j = pos[m] + (o + x) /\ o + x \in 1..Len(d)
      <4>1. x \in 1..k
        BY <1>3, <1>5, <1>11, <2>2, SMTT(30)
      <4>2. ~(j <= kept(b)) /\ j - kept(b) = Len(w) + x
        BY <1>3, <2>2, SMTT(30) DEF left
      <4>3. pos[g] + j = pos[m] + (o + x)
        <5> DEFINE A == pos[m]
                   B == pos[g]
                   E == left(b, w)
        <5>1. A \in Nat /\ B \in Nat /\ E \in Nat /\ o \in Nat /\ A + o = B + E
          BY <1>3, <1>5, <1>8
        <5>2. j \in Nat /\ x = j - E
          BY <1>3, <1>5, <1>11
        <5> HIDE DEF A, B, E, x
        <5>3. B + j = A + (o + x)
          BY <5>1, <5>2
        <5> QED  BY <5>3 DEF A, B
      <4>4. o + x \in 1..Len(d)
        BY <1>5, <4>1
      <4> QED  BY <4>1, <4>2, <4>3, <4>4
    <3> HIDE DEF x
    <3>2. byteAt(b, v, j) = d[o + x]
      BY <1>10, <3>1 DEF byteAt
    <3> QED  BY <1>7, <3>1, <3>2
  <2> QED  BY <2>1, <2>2
<1>13. /\ p \in Pending /\ p.data = d /\ p.sent = o + k
       /\ r = IF o + k >= Len(d) THEN Tail(q) ELSE <<p>> \o Tail(q)
  <2>1. Head(q) = q[1]
    BY <1>1, <1>4, HeadTailProperties DEF l
  <2>2. p \in Pending /\ p.data = d /\ p.sent = o + k
    BY <1>5, <2>1 DEF Pending, d, o
  <2> QED  BY <2>2 DEF afterSend
<1>14. /\ Tail(q) \in Seq(Pending) /\ Len(Tail(q)) = l - 1
       /\ \A j \in 1..(l - 1) : Tail(q)[j] = q[j + 1]
  <2>1. q # <<>>
    BY <1>4, EmptySeq DEF l
  <2> QED  BY <1>1, <2>1, HeadTailProperties DEF l
<1> HIDE DEF p, r, m
<1>15. CASE o + k >= Len(d)
  <2>1. o + k = Len(d)
    BY <1>5, <1>15
  <2>2. r = Tail(q) /\ r \in Seq(Pending) /\ Len(r) = l - 1 /\ \A j \in 1..(l - 1) : r[j] = q[j + 1]
    BY <1>13, <1>14, <1>15
  <2>3. n - Len(r) = m + 1
    BY <1>3, <2>2, SMTT(30) DEF m
  <2>4. Queued(S, r)
    <3>1. Len(r) <= n
      BY <1>3, <2>2
    <3>2. ASSUME NEW j \in 1..(l - 1)
          PROVE  /\ r[j].data = serialize(S[(m + 1) + j])
                 /\ r[j].sent < Len(r[j].data)
                 /\ r[j].sent = 0
      <4>1. j + 1 \in 1..l /\ j + 1 \in 2..l /\ m + (j + 1) = (m + 1) + j
        BY <1>3, <1>4
      <4>2. r[j] = q[j + 1]
        BY <2>2
      <4>3. q[j + 1].data = serialize(S[m + (j + 1)]) /\ q[j + 1].sent < Len(q[j + 1].data)
        BY <1>1, <4>1 DEF Queued, m, n, l
      <4> QED  BY <1>6, <4>1, <4>2, <4>3
    <3> QED  BY <2>2, <2>3, <3>1, <3>2 DEF Queued, n
  <2>5. Taken(S, G, r, b)
    <3>1. g <= m + 1
      BY <1>1, <1>3
    <3> QED  BY <1>1, <2>3, <3>1 DEF Taken, n, g
  <2>6. sentOf(r) = 0
    <3>1. CASE Len(r) = 0
      BY <3>1 DEF sentOf
    <3>2. CASE Len(r) # 0
      <4>1. 1 \in 1..(l - 1) /\ 1 + 1 \in 2..l
        BY <1>3, <2>2, <3>2
      <4> QED  BY <1>6, <2>2, <3>2, <4>1 DEF sentOf
    <3> QED  BY <3>1, <3>2
  <2>7. Carried(S, G, r, b, v, {0}, T, pos)
    <3>1. (pos[m + 1] + sentOf(r)) - (pos[g] + left(b, v)) = 0
      <4> DEFINE A == pos[m]
                 B == pos[g]
                 E == left(b, w)
                 Z == (pos[m + 1] + sentOf(r)) - (pos[g] + left(b, v))
      <4>1. A \in Nat /\ B \in Nat /\ E \in Nat /\ o \in Nat /\ k \in Nat /\ A + o = B + E
        BY <1>3, <1>5, <1>8
      <4>2. pos[m + 1] = A + (o + k)
        BY <1>7, <2>1
      <4>3. Z = (A + (o + k) + 0) - (B + (E + k))
        BY <1>11, <2>6, <4>2
      <4> HIDE DEF A, B, E, Z
      <4>4. Z = 0
        BY <4>1, <4>3
      <4> QED  BY <4>4 DEF Z
    <3> QED  BY <1>12, <2>3, <3>1 DEF Carried, n, g
  <2> QED  BY <1>1, <1>2, <1>10, <2>2, <2>4, <2>5, <2>7 DEF Flow, v, c, r, d, o
<1>16. CASE ~(o + k >= Len(d))
  <2>1. /\ r \in Seq(Pending) /\ Len(r) = l /\ r[1] = p /\ \A j \in 2..l : r[j] = q[j]
    <3>1. r = <<p>> \o Tail(q)
      BY <1>13, <1>16
    <3>2. <<p>> \in Seq(Pending) /\ Len(<<p>>) = 1 /\ <<p>>[1] = p
      BY <1>13
    <3>3. /\ r \in Seq(Pending) /\ Len(r) = 1 + (l - 1)
          /\ \A j \in 1..(1 + (l - 1)) : r[j] = IF j <= 1 THEN <<p>>[j] ELSE Tail(q)[j - 1]
      BY <1>14, <3>1, <3>2, ConcatProperties
    <3>4. ASSUME NEW j \in 2..l
          PROVE  r[j] = q[j]
      <4>1. j \in 1..(1 + (l - 1)) /\ ~(j <= 1) /\ j - 1 \in 1..(l - 1) /\ (j - 1) + 1 = j
        BY <1>4
      <4> QED  BY <1>14, <3>3, <4>1
    <3> QED  BY <1>4, <3>2, <3>3, <3>4, SMTT(30), SMTT(30)
  <2>2. n - Len(r) = m
    BY <2>1 DEF m
  <2>3. Queued(S, r)
    <3>1. Len(r) <= n
      BY <1>3, <2>1
    <3>2. ASSUME NEW j \in 1..l
          PROVE  /\ r[j].data = serialize(S[m + j])
                 /\ r[j].sent < Len(r[j].data)
                 /\ j > 1 => r[j].sent = 0
      <4>1. CASE j = 1
        BY <1>5, <1>6, <1>13, <1>16, <2>1, <4>1
      <4>2. CASE j # 1
        <5>1. j \in 2..l
          BY <1>4, <4>2
        <5>2. q[j].data = serialize(S[m + j]) /\ q[j].sent < Len(q[j].data)
          BY <1>1 DEF Queued, m, n, l
        <5> QED  BY <1>6, <2>1, <5>1, <5>2
      <4> QED  BY <4>1, <4>2
    <3> QED  BY <2>1, <2>2, <3>1, <3>2 DEF Queued, n
  <2>4. Taken(S, G, r, b)
    <3>1. g <= n - Len(r)
      BY <1>1, <2>2
    <3> QED  BY <1>1, <3>1 DEF Taken, n, g
  <2>5. sentOf(r) = o + k
    BY <1>4, <1>13, <2>1 DEF sentOf
  <2>6. Carried(S, G, r, b, v, {0}, T, pos)
    <3>1. (pos[m] + sentOf(r)) - (pos[g] + left(b, v)) = 0
      <4> DEFINE A == pos[m]
                 B == pos[g]
                 E == left(b, w)
                 Z == (pos[m] + sentOf(r)) - (pos[g] + left(b, v))
      <4>1. A \in Nat /\ B \in Nat /\ E \in Nat /\ o \in Nat /\ k \in Nat /\ A + o = B + E
        BY <1>3, <1>5, <1>8
      <4>2. Z = (A + (o + k)) - (B + (E + k))
        BY <1>11, <2>5
      <4> HIDE DEF A, B, E, Z
      <4>3. Z = 0
        BY <4>1, <4>2
      <4> QED  BY <4>3 DEF Z
    <3> QED  BY <1>12, <2>2, <3>1 DEF Carried, n, g
  <2> QED  BY <1>1, <1>2, <1>10, <2>1, <2>3, <2>4, <2>6 DEF Flow, v, c, r, d, o
<1> QED  BY <1>15, <1>16

\* Of the bytes on their way only the first x arrive.
LEMMA FlowBreak ==
  ASSUME NEW S, NEW G, NEW q, NEW b, NEW w, NEW losses \in SUBSET Nat,
         Flow(S, G, q, b, w, losses), NEW x \in 0..Len(w)
  PROVE  Flow(S, G, q, b, SubSeq(w, 1, x), Nat)
<1> DEFINE v == SubSeq(w, 1, x)
           m == Len(S) - Len(q)
           g == Len(G)
<1>1. /\ S \in Seq(Packets) /\ G \in Seq(Packets) /\ q \in Seq(Pending)
      /\ b \in Buffers /\ w \in Seq(Byte)
      /\ Queued(S, q) /\ Taken(S, G, q, b) /\ g <= m
  BY DEF Flow, Taken
<1>2. PICK T, pos : Stream(S, T, pos) /\ Carried(S, G, q, b, w, losses, T, pos)
  BY DEF Flow
<1>3. /\ pos[m] \in Nat /\ pos[g] \in Nat /\ sentOf(q) \in Nat
      /\ kept(b) \in Nat /\ Len(w) \in Nat /\ left(b, w) \in Nat
  BY <1>1, <1>2, FlowSizes
<1>4. v \in Seq(Byte) /\ Len(v) = x /\ \A j \in 1..x : v[j] = w[j]
  <2>1. x \in Nat /\ x <= Len(w)
    BY <1>3
  <2>2. \A i \in 1..x : w[i] \in Byte
    <3> TAKE i \in 1..x
    <3>1. i \in 1..Len(w)
      BY <1>3, <2>1
    <3> QED  BY <1>1, <3>1, ElementOfSeq
  <2>3. /\ v \in Seq(Byte) /\ Len(v) = IF 1 <= x THEN x - 1 + 1 ELSE 0
        /\ \A i \in 1..(x - 1 + 1) : v[i] = w[1 + i - 1]
    BY <2>1, <2>2, SubSeqProperties
  <2> HIDE DEF v
  <2>4. Len(v) = x /\ x - 1 + 1 = x
    BY <2>1, <2>3
  <2>5. \A i \in 1..x : 1 + i - 1 = i
    BY <2>1
  <2> QED  BY <2>3, <2>4, <2>5
<1> HIDE DEF v, m, g
<1>5. x \in Nat /\ x <= Len(w) /\ left(b, v) = kept(b) + x /\ left(b, w) = kept(b) + Len(w)
  BY <1>3, <1>4 DEF left
<1>6. (pos[m] + sentOf(q)) - (pos[g] + left(b, v)) \in Nat
  <2> DEFINE A == pos[m]
             B == pos[g]
             C == sentOf(q)
             E == left(b, w)
             F == left(b, v)
  <2>1. A \in Nat /\ B \in Nat /\ C \in Nat /\ E \in Nat
    BY <1>3
  <2>2. (A + C) - (B + E) \in Nat
    BY <1>2 DEF Carried, m, g
  <2>3. F \in Nat /\ F <= E
    BY <1>3, <1>5
  <2> HIDE DEF A, B, C, E, F
  <2>4. (A + C) - (B + F) \in Nat
    BY <2>1, <2>2, <2>3
  <2> QED  BY <2>4 DEF A, B, C, F
<1>7. ASSUME NEW j \in 1..left(b, v)
      PROVE  byteAt(b, v, j) = T[pos[g] + j]
  <2>1. j \in 1..left(b, w)
    BY <1>3, <1>5
  <2>2. ~(j <= kept(b)) => j - kept(b) \in 1..x
    BY <1>3, <1>5
  <2>3. byteAt(b, v, j) = byteAt(b, w, j)
    BY <1>4, <2>2 DEF byteAt
  <2>4. byteAt(b, w, j) = T[pos[g] + j]
    BY <1>2, <2>1 DEF Carried, g
  <2> QED  BY <2>3, <2>4
<1>8. Carried(S, G, q, b, v, Nat, T, pos)
  BY <1>6, <1>7 DEF Carried, m, g
<1> QED  BY <1>1, <1>2, <1>4, <1>8 DEF Flow, v

\* The bytes that were used do not count.
LEMMA FlowCut ==
  ASSUME NEW S, NEW G, NEW q, NEW b, NEW w, NEW losses, Flow(S, G, q, b, w, losses),
         NEW c \in Buffers, kept(c) = kept(b),
         \A j \in 1..kept(b) : c.bytes[c.offset + j] = b.bytes[b.offset + j]
  PROVE  Flow(S, G, q, c, w, losses)
<1>1. Taken(S, G, q, c)
  BY DEF Flow, Taken
<1>2. left(c, w) = left(b, w)
  BY DEF left
<1>3. PICK T, pos : Stream(S, T, pos) /\ Carried(S, G, q, b, w, losses, T, pos)
  BY DEF Flow
<1>4. kept(b) \in Nat /\ left(b, w) \in Nat
  BY <1>3, FlowSizes DEF Flow, Taken
<1>5. \A j \in 1..left(b, w) : byteAt(c, w, j) = byteAt(b, w, j)
  <2> TAKE j \in 1..left(b, w)
  <2>1. j <= kept(b) => j \in 1..kept(b)
    BY <1>4
  <2> QED  BY <2>1 DEF byteAt
<1>6. Carried(S, G, q, c, w, losses, T, pos)
  BY <1>2, <1>3, <1>5 DEF Carried
<1> QED  BY <1>1, <1>3, <1>6 DEF Flow

(***************************************************************************)
(* A call of receivePackets: k bytes join those in the buffer, and every   *)
(* packet that is whole then is taken, in order.                           *)
(***************************************************************************)
LEMMA FlowReceive ==
  ASSUME NEW S, NEW G, NEW q, NEW b, NEW w, NEW losses \in SUBSET Nat,
         Flow(S, G, q, b, w, losses), NEW k \in 1..Len(w),
         NEW bytes, bytes = b.bytes \o SubSeq(w, 1, k),
         NEW u, u = unpack(bytes, b.offset),
         NEW c, c = [bytes |-> bytes, offset |-> u.offset]
  PROVE  /\ u.packets \in Seq(Packets) /\ c \in Buffers
         /\ Flow(S, G \o u.packets, q, c, SubSeq(w, k + 1, Len(w)), losses)
<1> DEFINE n == Len(S)
           l == Len(q)
           m == n - l
           g == Len(G)
           o == b.offset
           K == kept(b)
           W == Len(w)
           A == SubSeq(w, 1, k)
           v == SubSeq(w, k + 1, W)
<1>1. /\ S \in Seq(Packets) /\ G \in Seq(Packets) /\ q \in Seq(Pending)
      /\ b \in Buffers /\ w \in Seq(Byte)
      /\ Queued(S, q) /\ Taken(S, G, q, b) /\ g <= m
  BY DEF Flow, Taken
<1>2. PICK T, pos : Stream(S, T, pos) /\ Carried(S, G, q, b, w, losses, T, pos)
  BY DEF Flow
<1>3. /\ n \in Nat /\ g \in 0..n /\ l \in 0..n /\ m \in 0..n
      /\ pos[m] \in Nat /\ pos[g] \in Nat /\ sentOf(q) \in Nat
      /\ K \in Nat /\ W \in Nat /\ left(b, w) \in Nat /\ Len(T) \in Nat
      /\ pos[m] + sentOf(q) <= Len(T)
  BY <1>1, <1>2, FlowSizes
<1>4. /\ b.bytes \in Seq(Byte) /\ o \in Nat /\ Len(b.bytes) \in Nat /\ o <= Len(b.bytes)
      /\ K = Len(b.bytes) - o
  BY <1>1 DEF Buffers, kept
<1>5. k \in Nat /\ k >= 1 /\ k <= W /\ left(b, w) = K + W
  BY <1>3 DEF left
<1> HIDE DEF n, l, m, g, o, K, W
<1>6. A \in Seq(Byte) /\ Len(A) = k /\ \A j \in 1..k : A[j] = w[j]
  <2>1. \A i \in 1..k : w[i] \in Byte
    <3> TAKE i \in 1..k
    <3>1. i \in 1..Len(w)
      BY <1>3, <1>5 DEF W
    <3> QED  BY <1>1, <3>1, ElementOfSeq
  <2>2. /\ A \in Seq(Byte) /\ Len(A) = IF 1 <= k THEN k - 1 + 1 ELSE 0
        /\ \A i \in 1..(k - 1 + 1) : A[i] = w[1 + i - 1]
    BY <1>5, <2>1, SubSeqProperties
  <2> HIDE DEF A
  <2>3. Len(A) = k /\ k - 1 + 1 = k /\ \A i \in 1..k : 1 + i - 1 = i
    BY <1>5, <2>2
  <2> QED  BY <2>2, <2>3
<1>7. v \in Seq(Byte) /\ Len(v) = W - k /\ \A j \in 1..(W - k) : v[j] = w[k + j]
  <2>1. \A i \in (k + 1)..W : w[i] \in Byte
    <3> TAKE i \in (k + 1)..W
    <3>1. i \in 1..Len(w)
      BY <1>3, <1>5 DEF W
    <3> QED  BY <1>1, <3>1, ElementOfSeq
  <2>2. /\ v \in Seq(Byte) /\ Len(v) = IF k + 1 <= W THEN W - (k + 1) + 1 ELSE 0
        /\ \A i \in 1..(W - (k + 1) + 1) : v[i] = w[(k + 1) + i - 1]
    BY <1>3, <1>5, <2>1, SubSeqProperties
  <2> HIDE DEF v
  <2>3. Len(v) = W - k /\ W - (k + 1) + 1 = W - k /\ \A i \in 1..(W - k) : (k + 1) + i - 1 = k + i
    BY <1>3, <1>5, <2>2
  <2> QED  BY <2>2, <2>3
<1>8. /\ bytes \in Seq(Byte) /\ Len(bytes) = Len(b.bytes) + k
      /\ \A i \in 1..Len(b.bytes) : bytes[i] = b.bytes[i]
      /\ \A j \in 1..k : bytes[Len(b.bytes) + j] = w[j]
  <2>1. /\ bytes \in Seq(Byte) /\ Len(bytes) = Len(b.bytes) + Len(A)
        /\ \A i \in 1..(Len(b.bytes) + Len(A)) :
             bytes[i] = IF i <= Len(b.bytes) THEN b.bytes[i] ELSE A[i - Len(b.bytes)]
    BY <1>4, <1>6, ConcatProperties
  <2> HIDE DEF A
  <2>2. ASSUME NEW i \in 1..Len(b.bytes)
        PROVE  bytes[i] = b.bytes[i]
    <3>1. i \in 1..(Len(b.bytes) + Len(A)) /\ i <= Len(b.bytes)
      BY <1>4, <1>5, <1>6
    <3> QED  BY <2>1, <3>1
  <2>3. ASSUME NEW j \in 1..k
        PROVE  bytes[Len(b.bytes) + j] = w[j]
    <3>1. /\ Len(b.bytes) + j \in 1..(Len(b.bytes) + Len(A)) /\ ~(Len(b.bytes) + j <= Len(b.bytes))
          /\ (Len(b.bytes) + j) - Len(b.bytes) = j
      BY <1>4, <1>5, <1>6
    <3>2. bytes[Len(b.bytes) + j] = A[j]
      BY <2>1, <3>1
    <3> QED  BY <1>6, <3>2
  <2> QED  BY <1>6, <2>1, <2>2, <2>3
<1> HIDE DEF A, v
<1>9. /\ Len(bytes) \in Nat /\ o \in 0..Len(bytes) /\ Len(bytes) - o = K + k
  BY <1>3, <1>4, <1>5, <1>8, SMTT(30)
<1>10. ASSUME NEW j \in 1..(K + k)
       PROVE  bytes[o + j] = byteAt(b, w, j)
  <2>1. CASE j <= K
    <3>1. o + j \in 1..Len(b.bytes)
      BY <1>3, <1>4, <2>1
    <3> QED  BY <1>8, <2>1, <3>1 DEF byteAt, o, K
  <2>2. CASE ~(j <= K)
    <3>1. j - K \in 1..k /\ Len(b.bytes) + (j - K) = o + j
      BY <1>3, <1>4, <1>5, <2>2
    <3>2. bytes[o + j] = w[j - K]
      BY <1>8, <3>1
    <3> QED  BY <2>2, <3>2 DEF byteAt, K
  <2> QED  BY <2>1, <2>2
<1>11. ASSUME NEW j \in 1..(K + W)
       PROVE  byteAt(b, w, j) = T[pos[g] + j]
  BY <1>2, <1>5, <1>11 DEF Carried, g
<1>12. (pos[m] + sentOf(q)) - (pos[g] + (K + W)) \in losses /\ pos[g] + (K + W) <= pos[m] + sentOf(q)
  <2> DEFINE P == pos[m] + sentOf(q)
             Q == pos[g]
             Z == P - (Q + (K + W))
  <2>1. P \in Nat /\ Q \in Nat
    BY <1>3
  <2>2. Z \in losses
    BY <1>2, <1>5 DEF Carried, m, g, n, l
  <2> HIDE DEF P, Q, Z
  <2>3. Z \in Nat /\ Z = P - (Q + (K + W))
    BY <2>2 DEF Z
  <2>4. Q + (K + W) <= P
    BY <1>3, <2>1, <2>3
  <2> QED  BY <2>2, <2>4 DEF P, Q, Z
<1>13. o = b.offset
  BY DEF o
<1>14. PICK h \in g..n : TakesUpTo(h, bytes, o, S, pos, g, u)
  <2>1. (Len(bytes) - o) + pos[g] <= Len(T)
    <3> DEFINE P == pos[m] + sentOf(q)
               Q == pos[g]
    <3>1. P \in Nat /\ Q \in Nat /\ Len(T) \in Nat /\ P <= Len(T) /\ Q + (K + W) <= P
      BY <1>3, <1>12, SMTT(30)
    <3> HIDE DEF P, Q
    <3>2. (Len(bytes) - o) + Q <= Len(T)
      BY <1>3, <1>5, <1>9, <3>1
    <3> QED  BY <3>2 DEF Q
  <2>2. ASSUME NEW j \in 1..(Len(bytes) - o)
        PROVE  bytes[o + j] = T[pos[g] + j]
    <3>1. j \in 1..(K + k) /\ j \in 1..(K + W)
      BY <1>3, <1>5, <1>9
    <3> QED  BY <1>10, <1>11, <3>1
  <2>3. /\ S \in Seq(Packets) /\ Stream(S, T, pos) /\ g \in 0..Len(S)
        /\ bytes \in Seq(Byte) /\ o \in 0..Len(bytes) /\ u = unpack(bytes, o)
    BY <1>1, <1>2, <1>3, <1>8, <1>9, <1>13 DEF n
  <2>4. PartOf(bytes, o, T, pos[g])
    BY <2>1, <2>2 DEF PartOf
  <2>5. \E h \in g..Len(S) : TakesUpTo(h, bytes, o, S, pos, g, u)
    BY <2>3, <2>4, Unpacked
  <2> QED  BY <2>5 DEF n
<1>15. /\ h \in 0..n /\ h \in Nat /\ g \in Nat /\ g <= h /\ pos[h] \in Nat /\ pos[g] <= pos[h]
  <2>1. h \in 0..n /\ h \in Nat /\ g \in Nat /\ g <= h
    BY <1>3
  <2>2. pos[g] \in Nat /\ pos[h] \in Nat /\ h - g <= pos[h] - pos[g]
    BY <1>1, <1>2, <1>3, <2>1, StreamPositions DEF n
  <2>3. \A x, y, z, t \in Nat : x <= y /\ y - x <= t - z => z <= t
    OBVIOUS
  <2> QED  BY <2>1, <2>2, <2>3
<1>16. /\ u.packets \in Seq(Packets) /\ Len(u.packets) = h - g
       /\ \A i \in 1..(h - g) : u.packets[i] = S[g + i]
       /\ u.offset = o + (pos[h] - pos[g]) /\ u.offset \in o..Len(bytes)
       /\ h < n => Len(bytes) - u.offset < Len(serialize(S[h + 1]))
       /\ h = n => u.offset = Len(bytes)
  BY <1>14 DEF TakesUpTo, n
<1> DEFINE D == pos[h] - pos[g]
<1>17. D \in Nat /\ pos[h] = pos[g] + D
  BY <1>3, <1>15, SMTT(30)
<1>18. /\ c \in Buffers /\ c.bytes = bytes /\ c.offset = o + D
       /\ kept(c) = K + k - D /\ kept(c) \in Nat
  <2>1. u.offset = o + D /\ u.offset \in Nat /\ u.offset <= Len(bytes)
    BY <1>4, <1>9, <1>16
  <2>2. c.bytes = bytes /\ c.offset = u.offset /\ c \in [bytes : Seq(Byte), offset : Nat]
    BY <1>8, <2>1
  <2> HIDE DEF D
  <2>3. c \in Buffers
    BY <2>1, <2>2 DEF Buffers
  <2>4. kept(c) = Len(bytes) - (o + D) /\ kept(c) \in Nat
    BY <1>9, <2>1, <2>2 DEF kept
  <2>5. Len(bytes) - (o + D) = K + k - D
    BY <1>3, <1>4, <1>5, <1>9, <1>17
  <2> QED  BY <2>1, <2>2, <2>3, <2>4, <2>5
<1> HIDE DEF D
<1>19. left(c, v) = K + W - D /\ left(c, v) \in Nat /\ left(c, v) = kept(c) + (W - k)
  <2>1. left(c, v) = kept(c) + (W - k)
    BY <1>7 DEF left
  <2> QED  BY <1>3, <1>5, <1>17, <1>18, <2>1
<1>20. ASSUME NEW j \in 1..left(c, v)
       PROVE  byteAt(c, v, j) = T[pos[h] + j]
  <2>1. j \in Nat /\ j >= 1 /\ j <= K + W - D /\ D + j \in 1..(K + W)
    BY <1>3, <1>5, <1>17, <1>19
  <2>2. T[pos[g] + (D + j)] = byteAt(b, w, D + j)
    BY <1>11, <2>1
  <2>3. pos[h] + j = pos[g] + (D + j)
    <3> DEFINE P == pos[g]
    <3>1. P \in Nat /\ pos[h] = P + D
      BY <1>3, <1>17
    <3> HIDE DEF P
    <3>2. (P + D) + j = P + (D + j)
      BY <1>17, <2>1, <3>1
    <3> QED  BY <3>1, <3>2 DEF P
  <2>4. byteAt(c, v, j) = byteAt(b, w, D + j)
    <3>1. CASE j <= kept(c)
      <4>1. D + j \in 1..(K + k)
        BY <1>3, <1>5, <1>17, <1>18, <2>1, <3>1
      <4>2. (o + D) + j = o + (D + j)
        BY <1>4, <1>17, <2>1
      <4>3. byteAt(c, v, j) = bytes[o + (D + j)]
        BY <1>18, <3>1, <4>2 DEF byteAt
      <4> QED  BY <1>10, <4>1, <4>3
    <3>2. CASE ~(j <= kept(c))
      <4>1. /\ j - kept(c) \in 1..(W - k) /\ k + (j - kept(c)) = (D + j) - K
            /\ ~(D + j <= K)
        BY <1>3, <1>5, <1>17, <1>18, <1>19, <2>1, <3>2
      <4>2. byteAt(c, v, j) = w[(D + j) - K]
        BY <1>7, <3>2, <4>1 DEF byteAt
      <4> QED  BY <4>1, <4>2 DEF byteAt, K
    <3> QED  BY <3>1, <3>2
  <2> QED  BY <2>2, <2>3, <2>4
<1>21. (pos[m] + sentOf(q)) - (pos[h] + left(c, v)) \in losses
  <2> DEFINE P == pos[m] + sentOf(q)
             Q == pos[g]
             H == pos[h]
  <2>1. P \in Nat /\ Q \in Nat /\ H = Q + D
    BY <1>3, <1>17, SMTT(30)
  <2>2. P - (Q + (K + W)) \in losses
    BY <1>12
  <2> HIDE DEF P, Q, H
  <2>3. P - (H + left(c, v)) = P - (Q + (K + W))
    BY <1>3, <1>5, <1>17, <1>19, <2>1
  <2>4. P - (H + left(c, v)) \in losses
    BY <2>2, <2>3
  <2> QED  BY <2>4 DEF P, H
<1>22. h <= m
  <2> SUFFICES ASSUME ~(h <= m)
               PROVE  FALSE
    OBVIOUS
  <2>1. m + 1 \in 1..n /\ m + 1 \in 0..n /\ (m + 1) - 1 = m /\ m + 1 <= h /\ 1 \in 1..l
    BY <1>3, <1>15 DEF m
  <2>2. pos[m + 1] = pos[m] + Len(serialize(S[m + 1])) /\ pos[m + 1] \in Nat /\ pos[m + 1] <= pos[h]
    <3>1. pos[m + 1] = pos[m] + Len(serialize(S[m + 1]))
      BY <1>2, <2>1 DEF Stream, n
    <3>2. pos[m + 1] \in Nat /\ pos[h] \in Nat /\ h - (m + 1) <= pos[h] - pos[m + 1]
      BY <1>1, <1>2, <1>15, <2>1, StreamPositions DEF n
    <3>3. \A x, y, z, t \in Nat : x <= y /\ y - x <= t - z => z <= t
      OBVIOUS
    <3> QED  BY <1>15, <2>1, <3>1, <3>2, <3>3
  <2>3. sentOf(q) < Len(serialize(S[m + 1])) /\ Len(serialize(S[m + 1])) \in Nat
    <3>1. q[1].data = serialize(S[m + 1]) /\ q[1].sent < Len(q[1].data)
      BY <1>1, <2>1 DEF Queued, m, n, l
    <3>2. Len(q) # 0
      BY <1>3, <2>1 DEF l
    <3>3. S[m + 1] \in Packets
      BY <1>1, <2>1, ElementOfSeq DEF n
    <3>4. serialize(S[m + 1]) \in Seq(Byte) /\ Len(serialize(S[m + 1])) \in Nat
      BY <3>3, PacketBytes
    <3> QED  BY <3>1, <3>2, <3>4 DEF sentOf
  <2> DEFINE P == pos[m]
             Q == pos[g]
             R == Len(serialize(S[m + 1]))
             s == sentOf(q)
             H == pos[h]
  <2>4. /\ P \in Nat /\ Q \in Nat /\ R \in Nat /\ s \in Nat /\ H \in Nat /\ s < R /\ P + R <= H
        /\ H = Q + D /\ Q + (K + W) <= P + s
    BY <1>3, <1>12, <1>15, <1>17, <2>2, <2>3
  <2>5. D <= K + W
    BY <1>3, <1>5, <1>17, <1>19
  <2> HIDE DEF P, Q, R, s, H
  <2> QED  BY <1>3, <1>17, <2>4, <2>5
<1> DEFINE F == G \o u.packets
<1>23. F \in Seq(Packets) /\ Len(F) = h /\ \A i \in 1..h : F[i] = S[i]
  <2>1. /\ F \in Seq(Packets) /\ Len(F) = g + (h - g)
        /\ \A i \in 1..(g + (h - g)) : F[i] = IF i <= g THEN G[i] ELSE u.packets[i - g]
    BY <1>1, <1>16, ConcatProperties DEF g
  <2> HIDE DEF F
  <2>2. g + (h - g) = h
    BY <1>15
  <2>3. ASSUME NEW i \in 1..h
        PROVE  F[i] = S[i]
    <3>1. CASE i <= g
      <4>1. i \in 1..g
        BY <1>15, <3>1
      <4> QED  BY <1>1, <2>1, <2>2, <3>1, <4>1 DEF Taken, g
    <3>2. CASE ~(i <= g)
      <4>1. i - g \in 1..(h - g) /\ g + (i - g) = i
        BY <1>15, <3>2
      <4> QED  BY <1>16, <2>1, <2>2, <3>2, <4>1
    <3> QED  BY <3>1, <3>2
  <2> QED  BY <2>1, <2>2, <2>3
<1> HIDE DEF F
<1>24. Taken(S, F, q, c)
  <2>1. Len(F) <= Len(S) - Len(q)
    BY <1>22, <1>23 DEF m, n, l
  <2>2. kept(c) = Len(bytes) - u.offset
    BY <1>9, <1>16, <1>18 DEF kept
  <2>3. Len(F) < Len(S) => kept(c) < Len(serialize(S[Len(F) + 1]))
    BY <1>16, <1>23, <2>2 DEF n
  <2>4. Len(F) = Len(S) => kept(c) = 0
    BY <1>9, <1>16, <1>23, <2>2 DEF n
  <2> QED  BY <1>23, <2>1, <2>3, <2>4 DEF Taken
<1>25. Carried(S, F, q, c, v, losses, T, pos)
  <2>1. (pos[Len(S) - Len(q)] + sentOf(q)) - (pos[Len(F)] + left(c, v)) \in losses
    BY <1>21, <1>23 DEF m, n, l
  <2> QED  BY <1>20, <1>23, <2>1 DEF Carried
<1>26. Flow(S, F, q, c, v, losses)
  BY <1>1, <1>2, <1>7, <1>18, <1>23, <1>24, <1>25 DEF Flow
<1> QED  BY <1>16, <1>18, <1>26 DEF F, v, W
-----------------------------------------------------------------------------
(* The buffer, the losses, and the invariant. *)

\* Cutting off the bytes that were used keeps the others, and makes the offset small.
LEMMA CutBuffer ==
  ASSUME NEW b \in Buffers, NEW c, c = cut(b)
  PROVE  /\ c \in Buffers /\ c.offset <= EraseAbove /\ kept(c) = kept(b)
         /\ \A j \in 1..kept(b) : c.bytes[c.offset + j] = b.bytes[b.offset + j]
<1> DEFINE o == b.offset
           n == Len(b.bytes)
           s == SubSeq(b.bytes, o + 1, n)
<1>1. b.bytes \in Seq(Byte) /\ o \in Nat /\ n \in Nat /\ o <= n /\ kept(b) = n - o
  BY DEF Buffers, kept
<1>2. EraseAbove \in Nat
  BY ConnectionAssumption
<1>3. CASE o > EraseAbove
  <2>1. \A i \in (o + 1)..n : b.bytes[i] \in Byte
    <3> TAKE i \in (o + 1)..n
    <3>1. i \in 1..Len(b.bytes)
      BY <1>1
    <3> QED  BY <1>1, <3>1, ElementOfSeq
  <2> HIDE DEF o, n
  <2>2. /\ s \in Seq(Byte) /\ Len(s) = IF o + 1 <= n THEN n - (o + 1) + 1 ELSE 0
        /\ \A j \in 1..(n - (o + 1) + 1) : s[j] = b.bytes[(o + 1) + j - 1]
    BY <1>1, <2>1, SubSeqProperties
  <2> HIDE DEF s
  <2>3. Len(s) = n - o /\ n - (o + 1) + 1 = n - o
    BY <1>1, <2>2
  <2>4. \A j \in 1..(n - o) : s[j] = b.bytes[o + j]
    <3> TAKE j \in 1..(n - o)
    <3>1. (o + 1) + j - 1 = o + j
      BY <1>1
    <3> QED  BY <2>2, <2>3, <3>1
  <2>5. c.bytes = s /\ c.offset = 0 /\ c \in [bytes : Seq(Byte), offset : Nat]
    BY <1>3, <2>2 DEF cut, s, o, n
  <2>6. c \in Buffers /\ kept(c) = n - o
    BY <1>1, <2>3, <2>5 DEF Buffers, kept
  <2>7. \A j \in 1..(n - o) : 0 + j = j
    OBVIOUS
  <2> QED  BY <1>1, <1>2, <2>4, <2>5, <2>6, <2>7 DEF o
<1>4. CASE ~(o > EraseAbove)
  BY <1>1, <1>2, <1>4 DEF cut
<1> QED  BY <1>3, <1>4

\* Bytes are lost only where the connection has ended.
losses == IF alive THEN {0} ELSE Nat

Typed ==
  /\ state \in [End -> {"Connecting", "Ready", "Disconnected"}] /\ alive \in BOOLEAN
  /\ outgoing \in [End -> Seq(Pending)] /\ wire \in [End -> Seq(Byte)]
  /\ buffer \in [End -> Buffers]
  /\ sent \in [End -> Seq(Packets)] /\ got \in [End -> Seq(Packets)]

Bounded == \A e \in End : Len(wire[e]) <= Capacity /\ buffer[e].offset <= EraseAbove

\* What the end e sends to its peer.
Direction(e) ==
  Flow(sent[e], got[peer(e)], outgoing[e], buffer[peer(e)], wire[peer(e)], losses)

GreetedInOrder ==
  /\ state["client"] = "Ready" => state["session"] # "Connecting"
  /\ greeted("session") => state["session"] # "Connecting"

IInv == Typed /\ Bounded /\ GreetedInOrder /\ \A e \in End : Direction(e)

\* Each end is the peer of the other.
LEMMA Peers ==
  /\ "client" \in End /\ "session" \in End
  /\ \A e \in End : peer(e) \in End /\ peer(peer(e)) = e /\ peer(e) # e
  /\ \A e, f \in End : f # e => f = peer(e)
BY DEF End, peer

\* The packets that are sent, and their types.
LEMMA PacketsSent ==
  /\ PacketType.Welcome = 1 /\ PacketType.Hello = 128 /\ Other = 2
  /\ Packet(PacketType.Hello, <<>>) \in Packets /\ Packet(PacketType.Welcome, <<>>) \in Packets
  /\ \A d \in Data : Packet(Other, d) \in Packets /\ Packet(Other, d).type = 2
<1>1. PacketType.Welcome = 1 /\ PacketType.Hello = 128 /\ Other = 2
  BY DEF PacketType, Other
<1>2. <<>> \in Seq(Byte) /\ Len(<<>>) = 0
  BY EmptySeq
<1>3. \A t \in {1, 2, 128} : t \in Byte
  BY DEF Byte
<1>4. \A t \in {1, 128} : Packet(t, <<>>) \in Packets
  <2> TAKE t \in {1, 128}
  <2>1. Packet(t, <<>>) \in PacketSet /\ Packet(t, <<>>).data = <<>>
    BY <1>2, <1>3 DEF Packet, PacketSet
  <2>2. IsInt32(1 + 0)
    BY DEF IsInt32
  <2> QED  BY <1>2, <2>1, <2>2 DEF Packets
<1>5. ASSUME NEW d \in Data
      PROVE  Packet(Other, d) \in Packets /\ Packet(Other, d).type = 2
  <2>1. d \in Seq(Byte) /\ 1 + Len(d) <= 2147483647
    BY ConnectionAssumption
  <2>2. Packet(Other, d) \in PacketSet /\ Packet(Other, d).data = d /\ Packet(Other, d).type = 2
    BY <1>1, <1>3, <2>1 DEF Packet, PacketSet
  <2>3. IsInt32(1 + Len(d))
    <3>1. Len(d) \in Nat
      BY <2>1
    <3> QED  BY <2>1, <3>1 DEF IsInt32
  <2> QED  BY <2>2, <2>3 DEF Packets
<1> QED  BY <1>1, <1>4, <1>5

\* No more than some number of bytes is lost.
LEMMA LossesAreNumbers ==
  ASSUME alive \in BOOLEAN
  PROVE  losses \in SUBSET Nat /\ (alive => losses = {0}) /\ (~alive => losses = Nat)
BY DEF losses

\* Two new connections carry nothing.
LEMMA InitIInv ==
  ASSUME Init
  PROVE  IInv
<1>1. emptyBuffer \in Buffers /\ emptyBuffer.offset = 0
  BY EmptySeq DEF emptyBuffer, Buffers
<1>2. Typed
  BY <1>1, EmptySeq DEF Init, Typed
<1>3. Bounded
  <2>1. Len(<<>>) = 0 /\ 0 <= Capacity /\ 0 <= EraseAbove
    BY ConnectionAssumption, EmptySeq
  <2> QED  BY <1>1, <2>1 DEF Init, Bounded
<1>4. GreetedInOrder
  <2>1. state["client"] = "Disconnected" /\ sent["session"] = <<>>
    BY DEF Init, End
  <2> QED  BY <2>1 DEF GreetedInOrder, greeted
<1>5. ASSUME NEW e \in End
      PROVE  Direction(e)
  <2>1. /\ sent[e] = <<>> /\ got[peer(e)] = <<>> /\ outgoing[e] = <<>> /\ wire[peer(e)] = <<>>
        /\ buffer[peer(e)] = emptyBuffer /\ losses = {0}
    BY Peers DEF Init, losses
  <2> QED  BY <2>1, FlowOfNone DEF Direction
<1> QED  BY <1>2, <1>3, <1>4, <1>5 DEF IInv

-----------------------------------------------------------------------------
(* The steps *)

\* A step that leaves a direction alone keeps it.
LEMMA DirectionUnchanged ==
  ASSUME NEW e \in End, Direction(e),
         sent'[e] = sent[e], got'[peer(e)] = got[peer(e)], outgoing'[e] = outgoing[e],
         buffer'[peer(e)] = buffer[peer(e)], wire'[peer(e)] = wire[peer(e)], alive' = alive
  PROVE  Direction(e)'
<1>1. losses' = losses
  BY DEF losses
<1> QED  BY <1>1 DEF Direction

\* An end that sends a packet.
LEMMA SendKeeps ==
  ASSUME IInv, NEW e \in End, NEW p \in Packets, sendPacket(e, p),
         UNCHANGED <<wire, buffer, alive, got>>
  PROVE  /\ outgoing' \in [End -> Seq(Pending)] /\ sent' \in [End -> Seq(Packets)]
         /\ \A f \in End : f # e => sent'[f] = sent[f]
         /\ sent'[e] = Append(sent[e], p)
         /\ Bounded' /\ \A f \in End : Direction(f)'
<1> DEFINE x == [data |-> serialize(p), sent |-> 0]
<1>1. Typed /\ Bounded /\ \A f \in End : Direction(f)
  BY DEF IInv
<1>2. x \in Pending
  BY PacketBytes DEF Pending
<1>3. outgoing[e] \in Seq(Pending) /\ sent[e] \in Seq(Packets)
  BY <1>1 DEF Typed
<1>4. Append(outgoing[e], x) \in Seq(Pending) /\ Append(sent[e], p) \in Seq(Packets)
  BY <1>2, <1>3, AppendProperties
<1>5. /\ outgoing' = [outgoing EXCEPT ![e] = Append(outgoing[e], x)]
      /\ sent' = [sent EXCEPT ![e] = Append(sent[e], p)]
  BY DEF sendPacket
<1> HIDE DEF x
<1>6. /\ outgoing' \in [End -> Seq(Pending)] /\ sent' \in [End -> Seq(Packets)]
      /\ \A f \in End : f # e => sent'[f] = sent[f] /\ outgoing'[f] = outgoing[f]
      /\ sent'[e] = Append(sent[e], p) /\ outgoing'[e] = Append(outgoing[e], x)
  BY <1>1, <1>4, <1>5 DEF Typed
<1>7. ASSUME NEW f \in End
      PROVE  Direction(f)'
  <2>1. CASE f # e
    BY <1>1, <1>6, <2>1, DirectionUnchanged
  <2>2. CASE f = e
    <3>1. losses \in SUBSET Nat /\ losses' = losses
      BY <1>1, LossesAreNumbers DEF Typed, losses
    <3>2. x = [data |-> serialize(p), sent |-> 0]
      BY DEF x
    <3>3. Flow(sent[e], got[peer(e)], outgoing[e], buffer[peer(e)], wire[peer(e)], losses)
      BY <1>1 DEF Direction
    <3>4. Flow(Append(sent[e], p), got[peer(e)], Append(outgoing[e], x),
               buffer[peer(e)], wire[peer(e)], losses)
      BY <3>1, <3>2, <3>3, FlowSend
    <3> QED  BY <1>6, <2>2, <3>1, <3>4 DEF Direction
  <2> QED  BY <2>1, <2>2
<1>8. Bounded'
  BY <1>1 DEF Bounded
<1> QED  BY <1>6, <1>7, <1>8

\* The greetings stay in order when a packet that is no Welcome is sent.
LEMMA OtherIsNoGreeting ==
  ASSUME IInv, NEW S, NEW p \in Packets, p.type # PacketType.Welcome,
         S = sent["session"] \/ S = Append(sent["session"], p),
         \E i \in DOMAIN S : S[i].type = Greeting("session")
  PROVE  greeted("session")
<1> DEFINE R == sent["session"]
<1>1. R \in Seq(Packets)
  BY Peers DEF IInv, Typed
<1>2. Greeting("session") = PacketType.Welcome
  BY DEF Greeting
<1>3. CASE S = R
  BY <1>3 DEF greeted
<1>4. CASE S = Append(R, p)
  <2>1. PICK i \in DOMAIN S : S[i].type = PacketType.Welcome
    BY <1>2
  <2> HIDE DEF R
  <2>2. /\ Len(R) \in Nat /\ DOMAIN S = 1..(Len(R) + 1) /\ S[Len(R) + 1] = p
        /\ \A j \in 1..Len(R) : S[j] = R[j]
        /\ DOMAIN R = 1..Len(R)
    <3>1. /\ S \in Seq(Packets) /\ Len(S) = Len(R) + 1 /\ S[Len(R) + 1] = p
          /\ \A j \in 1..Len(R) : S[j] = R[j]
      BY <1>1, <1>4, AppendProperties
    <3>2. DOMAIN S = 1..Len(S) /\ DOMAIN R = 1..Len(R) /\ Len(R) \in Nat
      BY <1>1, <3>1, LenProperties
    <3> QED  BY <3>1, <3>2
  <2>3. i # Len(R) + 1
    BY <2>1, <2>2
  <2>4. i \in DOMAIN R /\ R[i].type = Greeting("session")
    BY <1>2, <2>1, <2>2, <2>3
  <2> QED  BY <2>4 DEF greeted, R
<1> QED  BY <1>3, <1>4

\* The constructor of the client.
LEMMA connectIInv ==
  ASSUME IInv, connect
  PROVE  IInv'
<1> DEFINE p == Packet(PacketType.Hello, <<>>)
<1>1. /\ state["client"] = "Disconnected" /\ state' = [state EXCEPT !["client"] = "Connecting"]
      /\ sendPacket("client", p) /\ UNCHANGED <<wire, buffer, alive, got>>
  BY DEF connect
<1>2. p \in Packets
  BY PacketsSent
<1> HIDE DEF p
<1>3. /\ outgoing' \in [End -> Seq(Pending)] /\ sent' \in [End -> Seq(Packets)]
      /\ sent'["session"] = sent["session"]
      /\ Bounded' /\ \A f \in End : Direction(f)'
  <2>1. "session" # "client"
    OBVIOUS
  <2> QED  BY <1>1, <1>2, <2>1, Peers, SendKeeps
<1>4. /\ state' \in [End -> {"Connecting", "Ready", "Disconnected"}]
      /\ state'["client"] = "Connecting" /\ state'["session"] = state["session"]
  BY <1>1, Peers DEF IInv, Typed
<1>5. Typed'
  BY <1>1, <1>3, <1>4 DEF IInv, Typed
<1>6. GreetedInOrder'
  BY <1>3, <1>4 DEF IInv, GreetedInOrder, greeted
<1> QED  BY <1>3, <1>5, <1>6 DEF IInv

\* The server's welcome.
LEMMA WelcomeIInv ==
  ASSUME IInv, Welcome
  PROVE  IInv'
<1> DEFINE p == Packet(PacketType.Welcome, <<>>)
<1>1. /\ state["session"] # "Connecting" /\ state' = state
      /\ sendPacket("session", p) /\ UNCHANGED <<wire, buffer, alive, got>>
  BY DEF Welcome
<1>2. p \in Packets
  BY PacketsSent
<1> HIDE DEF p
<1>3. /\ outgoing' \in [End -> Seq(Pending)] /\ sent' \in [End -> Seq(Packets)]
      /\ Bounded' /\ \A f \in End : Direction(f)'
  BY <1>1, <1>2, Peers, SendKeeps
<1>4. Typed'
  BY <1>1, <1>3 DEF IInv, Typed
<1>5. GreetedInOrder'
  BY <1>1 DEF GreetedInOrder
<1> QED  BY <1>3, <1>4, <1>5 DEF IInv

\* A request or a notification.
LEMMA SendOtherIInv ==
  ASSUME IInv, NEW e \in End, SendOther(e)
  PROVE  IInv'
<1>1. PICK d \in Data : sendPacket(e, Packet(Other, d))
  BY DEF SendOther
<1> DEFINE p == Packet(Other, d)
<1>2. /\ sendPacket(e, p) /\ state' = state /\ UNCHANGED <<wire, buffer, alive, got>>
  BY <1>1 DEF SendOther
<1>3. p \in Packets /\ p.type # PacketType.Welcome
  BY PacketsSent
<1> HIDE DEF p
<1>4. /\ outgoing' \in [End -> Seq(Pending)] /\ sent' \in [End -> Seq(Packets)]
      /\ \A f \in End : f # e => sent'[f] = sent[f]
      /\ sent'[e] = Append(sent[e], p)
      /\ Bounded' /\ \A f \in End : Direction(f)'
  BY <1>2, <1>3, SendKeeps
<1>5. Typed'
  BY <1>2, <1>4 DEF IInv, Typed
<1>6. GreetedInOrder'
  <2>1. sent'["session"] = sent["session"] \/ sent'["session"] = Append(sent["session"], p)
    BY <1>4, Peers
  <2>2. greeted("session")' => greeted("session")
    BY <1>3, <2>1, OtherIsNoGreeting DEF greeted
  <2> QED  BY <1>2, <2>2 DEF IInv, GreetedInOrder
<1> QED  BY <1>4, <1>5, <1>6 DEF IInv

\* The socket does not take any more: the end is disconnected.
LEMMA sendFailsIInv ==
  ASSUME IInv, NEW e \in End, sendFails(e)
  PROVE  IInv'
<1>1. /\ state' = [state EXCEPT ![e] = "Disconnected"]
      /\ UNCHANGED <<outgoing, wire, buffer, alive, sent, got>>
  BY DEF sendFails
<1>2. /\ state' \in [End -> {"Connecting", "Ready", "Disconnected"}]
      /\ \A f \in End : state'[f] = state[f] \/ state'[f] = "Disconnected"
  BY <1>1 DEF IInv, Typed
<1>3. Typed' /\ Bounded'
  BY <1>1, <1>2 DEF IInv, Typed, Bounded
<1>4. GreetedInOrder'
  BY <1>1, <1>2, Peers DEF IInv, GreetedInOrder, greeted
<1>5. \A f \in End : Direction(f)'
  BY <1>1, DirectionUnchanged DEF IInv
<1> QED  BY <1>3, <1>4, <1>5 DEF IInv

\* One call of the socket that takes bytes of the first packet.
LEMMA sendPendingPacketsIInv ==
  ASSUME IInv, NEW e \in End, sendPendingPackets(e)
  PROVE  IInv'
<1> DEFINE q == outgoing[e]
           f == peer(e)
           p == Head(q)
<1>1. /\ alive /\ q # <<>>
      /\ UNCHANGED <<state, buffer, alive, sent, got>>
  BY DEF sendPendingPackets
<1>2. PICK n \in 1..Min({unsent(p), room(f)}) :
        /\ wire' = [wire EXCEPT ![f] = @ \o SubSeq(p.data, p.sent + 1, p.sent + n)]
        /\ outgoing' = [outgoing EXCEPT ![e] = afterSend(@, n)]
  BY DEF sendPendingPackets
<1>3. Typed /\ Bounded /\ GreetedInOrder /\ \A g \in End : Direction(g)
  BY DEF IInv
<1>4. /\ q \in Seq(Pending) /\ Len(q) # 0 /\ Len(q) \in Nat /\ f \in End /\ p = q[1]
      /\ p \in Pending /\ p.data \in Seq(Byte) /\ Len(p.data) \in Nat /\ p.sent \in Nat
  <2>1. q \in Seq(Pending) /\ f \in End
    BY <1>3, Peers DEF Typed
  <2> HIDE DEF q
  <2>2. Len(q) # 0 /\ Len(q) \in Nat /\ p = q[1] /\ p \in Pending
    BY <1>1, <2>1, EmptySeq, HeadTailProperties
  <2> QED  BY <2>1, <2>2 DEF Pending
<1>5. Flow(sent[e], got[f], q, buffer[f], wire[f], {0})
  <2>1. losses = {0}
    BY <1>1 DEF losses
  <2>2. Direction(e)
    BY <1>3
  <2> QED  BY <2>1, <2>2 DEF Direction
<1>6. wire[f] \in Seq(Byte) /\ Len(wire[f]) \in Nat /\ Len(wire[f]) <= Capacity /\ Capacity \in Nat
  BY <1>3, <1>4, ConnectionAssumption DEF Typed, Bounded
<1>7. unsent(p) = Len(p.data) - p.sent /\ unsent(p) >= 1
  <2>1. Queued(sent[e], q)
    BY <1>5 DEF Flow
  <2>2. 1 \in 1..Len(q)
    BY <1>4
  <2>3. p.sent < Len(p.data)
    BY <1>4, <2>1, <2>2 DEF Queued
  <2> HIDE DEF p
  <2> QED  BY <1>4, <2>3 DEF unsent
<1> HIDE DEF p, q, f
<1>8. n \in 1..(Len(p.data) - p.sent) /\ n \in Nat /\ Len(wire[f]) + n <= Capacity
  <2> DEFINE x == unsent(p)
             y == room(f)
             M == Min({x, y})
  <2>1. x \in Int /\ y \in Int /\ y = Capacity - Len(wire[f]) /\ x = Len(p.data) - p.sent
    BY <1>4, <1>6, <1>7 DEF room
  <2>2. M \in Int /\ M <= x /\ M <= y
    <3>1. \A a, b \in Int : \E z \in {a, b} : \A t \in {a, b} : z =< t
      OBVIOUS
    <3>2. \E z \in {x, y} : \A t \in {x, y} : z =< t
      BY <2>1, <3>1
    <3> HIDE DEF x, y
    <3>3. M = CHOOSE z \in {x, y} : \A t \in {x, y} : z =< t
      BY DEF Min
    <3> HIDE DEF M
    <3>4. M \in {x, y} /\ \A t \in {x, y} : M =< t
      BY <3>2, <3>3
    <3> QED  BY <2>1, <3>4
  <2>3. n \in 1..M
    BY <1>2
  <2> HIDE DEF x, y, M
  <2>4. n \in 1..x /\ n \in Nat /\ n <= y
    BY <2>1, <2>2, <2>3
  <2> QED  BY <1>6, <2>1, <2>4
<1> DEFINE r == afterSend(q, n)
           c == SubSeq(p.data, p.sent + 1, p.sent + n)
           w == wire[f] \o c
<1>9. Flow(sent[e], got[f], r, buffer[f], w, {0})
  <2>1. n \in 1..(Len(q[1].data) - q[1].sent)
    BY <1>4, <1>8
  <2> QED  BY <1>4, <1>5, <2>1, FlowPut
<1>10. r \in Seq(Pending) /\ w \in Seq(Byte)
  BY <1>9 DEF Flow
<1>11. Len(w) <= Capacity
  <2>1. c \in Seq(Byte) /\ Len(c) = n
    <3>1. \A i \in (p.sent + 1)..(p.sent + n) : p.data[i] \in Byte
      <4> TAKE i \in (p.sent + 1)..(p.sent + n)
      <4>1. i \in 1..Len(p.data)
        BY <1>4, <1>8
      <4> QED  BY <1>4, <4>1, ElementOfSeq
    <3>2. /\ c \in Seq(Byte)
          /\ Len(c) = IF p.sent + 1 <= p.sent + n THEN (p.sent + n) - (p.sent + 1) + 1 ELSE 0
      BY <1>4, <1>8, <3>1, SubSeqProperties
    <3> HIDE DEF c
    <3> QED  BY <1>4, <1>8, <3>2
  <2> HIDE DEF c
  <2>2. Len(w) = Len(wire[f]) + n
    BY <1>6, <2>1, ConcatProperties
  <2> QED  BY <1>8, <2>2
<1> HIDE DEF c
<1>12. /\ wire' \in [End -> Seq(Byte)] /\ wire'[f] = w
       /\ \A g \in End : g # f => wire'[g] = wire[g]
       /\ outgoing' \in [End -> Seq(Pending)] /\ outgoing'[e] = r
       /\ \A g \in End : g # e => outgoing'[g] = outgoing[g]
  <2>1. wire' = [wire EXCEPT ![f] = w] /\ outgoing' = [outgoing EXCEPT ![e] = r]
    BY <1>2 DEF c, q
  <2> HIDE DEF w, r
  <2> QED  BY <1>3, <1>4, <1>10, <2>1 DEF Typed
<1> HIDE DEF w, r
<1>13. Typed'
  BY <1>1, <1>3, <1>12 DEF Typed
<1>14. Bounded'
  BY <1>1, <1>3, <1>11, <1>12 DEF Bounded
<1>15. GreetedInOrder'
  BY <1>1, <1>3 DEF GreetedInOrder, greeted
<1>16. ASSUME NEW g \in End
       PROVE  Direction(g)'
  <2>1. CASE g = e
    <3>1. losses' = {0}
      BY <1>1 DEF losses
    <3> QED  BY <1>1, <1>9, <1>12, <2>1, <3>1 DEF Direction, f
  <2>2. CASE g # e
    <3>1. peer(g) # f /\ peer(g) \in End
      BY <2>2, Peers DEF f
    <3> QED  BY <1>1, <1>3, <1>12, <2>2, <3>1, DirectionUnchanged
  <2> QED  BY <2>1, <2>2
<1> QED  BY <1>13, <1>14, <1>15, <1>16 DEF IInv

\* The connection ends.
LEMMA BreakIInv ==
  ASSUME IInv, Break
  PROVE  IInv'
<1>1. /\ alive' = FALSE /\ UNCHANGED <<state, outgoing, buffer, sent, got>>
  BY DEF Break
<1>2. PICK k \in [End -> 0..Capacity] :
        wire' = [e \in End |-> SubSeq(wire[e], 1, Min({k[e], Len(wire[e])}))]
  BY DEF Break
<1>3. Typed /\ Bounded /\ GreetedInOrder /\ \A e \in End : Direction(e)
  BY DEF IInv
<1>4. ASSUME NEW e \in End
      PROVE  \E x \in 0..Len(wire[e]) : wire'[e] = SubSeq(wire[e], 1, x)
  <2> DEFINE x == Min({k[e], Len(wire[e])})
  <2>1. k[e] \in Nat /\ Len(wire[e]) \in Nat
    BY <1>2, <1>3, ConnectionAssumption DEF Typed
  <2>2. \A a, b \in Nat : \E z \in {a, b} : \A t \in {a, b} : z =< t
    OBVIOUS
  <2>3. \E z \in {k[e], Len(wire[e])} : \A t \in {k[e], Len(wire[e])} : z =< t
    BY <2>1, <2>2
  <2>4. x \in {k[e], Len(wire[e])} /\ x <= Len(wire[e])
    BY <2>3 DEF Min
  <2>5. wire'[e] = SubSeq(wire[e], 1, x)
    BY <1>2
  <2> HIDE DEF x
  <2>6. x \in 0..Len(wire[e])
    BY <2>1, <2>4
  <2> WITNESS x \in 0..Len(wire[e])
  <2> QED  BY <2>5
<1>5. losses' = Nat /\ losses \in SUBSET Nat
  BY <1>1, <1>3, LossesAreNumbers DEF losses, Typed
<1>6. ASSUME NEW e \in End
      PROVE  Direction(e)'
  <2>1. PICK x \in 0..Len(wire[peer(e)]) : wire'[peer(e)] = SubSeq(wire[peer(e)], 1, x)
    BY <1>4, Peers
  <2>2. Flow(sent[e], got[peer(e)], outgoing[e], buffer[peer(e)], wire[peer(e)], losses)
    BY <1>3 DEF Direction
  <2>3. Flow(sent[e], got[peer(e)], outgoing[e], buffer[peer(e)], wire'[peer(e)], Nat)
    BY <1>5, <2>1, <2>2, FlowBreak
  <2> QED  BY <1>1, <1>5, <2>3 DEF Direction
<1>7. wire' \in [End -> Seq(Byte)]
  <2>1. ASSUME NEW e \in End
        PROVE  wire'[e] \in Seq(Byte)
    <3>1. peer(e) \in End /\ peer(peer(e)) = e
      BY Peers
    <3>2. Direction(peer(e))'
      BY <1>6, <3>1
    <3> QED  BY <3>1, <3>2 DEF Direction, Flow
  <2>2. wire' = [e \in End |-> wire'[e]]
    BY <1>2
  <2> QED  BY <2>1, <2>2
<1>8. Typed'
  BY <1>1, <1>3, <1>7 DEF Typed
<1>9. Bounded'
  <2> SUFFICES ASSUME NEW e \in End
               PROVE  Len(wire'[e]) <= Capacity
    BY <1>1, <1>3 DEF Bounded
  <2>1. PICK x \in 0..Len(wire[e]) : wire'[e] = SubSeq(wire[e], 1, x)
    BY <1>4
  <2>2. Len(wire[e]) \in Nat /\ Len(wire[e]) <= Capacity /\ Capacity \in Nat
    BY <1>3, ConnectionAssumption DEF Typed, Bounded
  <2>3. x \in Nat /\ x <= Len(wire[e])
    BY <2>2
  <2>4. \A i \in 1..x : wire[e][i] \in Byte
    <3> TAKE i \in 1..x
    <3>1. i \in 1..Len(wire[e]) /\ wire[e] \in Seq(Byte)
      BY <1>3, <2>2, <2>3 DEF Typed
    <3> QED  BY <3>1, ElementOfSeq
  <2>5. Len(wire'[e]) = IF 1 <= x THEN x - 1 + 1 ELSE 0
    BY <2>1, <2>3, <2>4, SubSeqProperties
  <2> QED  BY <2>2, <2>3, <2>5
<1>10. GreetedInOrder'
  BY <1>1, <1>3 DEF GreetedInOrder, greeted
<1> QED  BY <1>6, <1>8, <1>9, <1>10 DEF IInv

\* One call of the socket that gives bytes, and the packets in the buffer.
LEMMA receivePacketsIInv ==
  ASSUME IInv, NEW e \in End, receivePackets(e)
  PROVE  /\ IInv'
         /\ \E P \in Seq(Packets) : got'[e] = got[e] \o P
         /\ \A g \in End : g # e => got'[g] = got[g]
<1> DEFINE f == peer(e)
           b == buffer[e]
           w == wire[e]
<1>1. w # <<>> /\ UNCHANGED <<outgoing, alive, sent>>
  BY DEF receivePackets
<1>2. PICK n \in 1..Min({ChunkSize, Len(w)}) :
        \E u \in {unpack(b.bytes \o SubSeq(w, 1, n), b.offset)} :
          /\ wire' = [wire EXCEPT ![e] = SubSeq(@, n + 1, Len(@))]
          /\ buffer' = [buffer EXCEPT
                          ![e] = cut([bytes |-> b.bytes \o SubSeq(w, 1, n), offset |-> u.offset])]
          /\ got' = [got EXCEPT ![e] = @ \o u.packets]
          /\ state' = [state EXCEPT ![e] = stateAfter(e, u.packets)]
  BY DEF receivePackets
<1>3. Typed /\ Bounded /\ GreetedInOrder /\ \A g \in End : Direction(g)
  BY DEF IInv
<1>4. b \in Buffers /\ w \in Seq(Byte) /\ Len(w) \in Nat /\ f \in End /\ peer(f) = e
  BY <1>3, Peers DEF Typed
<1>5. n \in 1..Len(w)
  <2> DEFINE x == Len(w)
             M == Min({ChunkSize, x})
  <2>1. ChunkSize \in Nat /\ x \in Nat
    BY <1>4, ConnectionAssumption
  <2> HIDE DEF x
  <2>2. \A i, j \in Nat : \E z \in {i, j} : \A t \in {i, j} : z =< t
    OBVIOUS
  <2>3. \E z \in {ChunkSize, x} : \A t \in {ChunkSize, x} : z =< t
    BY <2>1, <2>2
  <2>4. M \in {ChunkSize, x} /\ M <= x
    BY <2>3 DEF Min
  <2>5. n \in 1..M
    BY <1>2 DEF x
  <2> HIDE DEF M
  <2>6. n \in 1..x
    BY <2>1, <2>4, <2>5
  <2> QED  BY <2>6 DEF x
<1> DEFINE y == b.bytes \o SubSeq(w, 1, n)
           u == unpack(y, b.offset)
           c == [bytes |-> y, offset |-> u.offset]
           d == cut(c)
           v == SubSeq(w, n + 1, Len(w))
           G == got[e] \o u.packets
<1>6. /\ wire' = [wire EXCEPT ![e] = v] /\ buffer' = [buffer EXCEPT ![e] = d]
      /\ got' = [got EXCEPT ![e] = G]
      /\ state' = [state EXCEPT ![e] = stateAfter(e, u.packets)]
  BY <1>2
<1>7. Flow(sent[f], got[e], outgoing[f], b, w, losses) /\ losses \in SUBSET Nat
  <2>1. Direction(f)
    BY <1>3, <1>4
  <2> QED  BY <1>3, <1>4, <2>1, LossesAreNumbers DEF Direction, Typed
<1> HIDE DEF f, b, w
<1>8. /\ u.packets \in Seq(Packets) /\ c \in Buffers
      /\ Flow(sent[f], G, outgoing[f], c, v, losses)
  BY <1>5, <1>7, FlowReceive
<1> HIDE DEF y, u, c
<1>9. /\ d \in Buffers /\ d.offset <= EraseAbove /\ kept(d) = kept(c)
      /\ \A j \in 1..kept(c) : d.bytes[d.offset + j] = c.bytes[c.offset + j]
  BY <1>8, CutBuffer
<1> HIDE DEF d, G, v
<1>10. Flow(sent[f], G, outgoing[f], d, v, losses)
  BY <1>8, <1>9, FlowCut
<1>11. G \in Seq(Packets) /\ v \in Seq(Byte)
  BY <1>10 DEF Flow
<1>12. /\ wire' \in [End -> Seq(Byte)] /\ wire'[e] = v
       /\ buffer' \in [End -> Buffers] /\ buffer'[e] = d
       /\ got' \in [End -> Seq(Packets)] /\ got'[e] = G
       /\ \A g \in End : g # e => wire'[g] = wire[g] /\ buffer'[g] = buffer[g] /\ got'[g] = got[g]
  BY <1>3, <1>6, <1>9, <1>11 DEF Typed
<1>13. /\ state' \in [End -> {"Connecting", "Ready", "Disconnected"}]
       /\ state'[e] = stateAfter(e, u.packets)
       /\ \A g \in End : g # e => state'[g] = state[g]
  <2>1. state \in [End -> {"Connecting", "Ready", "Disconnected"}]
    BY <1>3 DEF Typed
  <2>2. stateAfter(e, u.packets) \in {"Connecting", "Ready", "Disconnected"}
    BY <2>1 DEF stateAfter
  <2> QED  BY <1>6, <2>1, <2>2
<1>14. Typed'
  BY <1>1, <1>3, <1>12, <1>13 DEF Typed
<1>15. Bounded'
  <2>1. Len(v) <= Len(w)
    <3>1. n \in Nat /\ 1 <= n /\ n <= Len(w)
      BY <1>4, <1>5
    <3>2. \A i \in (n + 1)..Len(w) : w[i] \in Byte
      <4> TAKE i \in (n + 1)..Len(w)
      <4>1. i \in 1..Len(w)
        BY <1>4, <3>1
      <4> QED  BY <1>4, <4>1, ElementOfSeq
    <3>3. Len(v) = IF n + 1 <= Len(w) THEN Len(w) - (n + 1) + 1 ELSE 0
      BY <1>4, <3>1, <3>2, SubSeqProperties DEF v
    <3> QED  BY <1>4, <3>1, <3>3
  <2>2. Len(w) <= Capacity /\ Capacity \in Nat /\ Len(v) \in Nat
    BY <1>3, <1>11, ConnectionAssumption DEF Bounded, w
  <2>3. Len(v) <= Capacity
    BY <1>4, <2>1, <2>2
  <2> QED  BY <1>3, <1>9, <1>12, <2>3 DEF Bounded
<1>16. ASSUME NEW g \in End
       PROVE  Direction(g)'
  <2>1. CASE g = f
    <3>1. losses' = losses
      BY <1>1 DEF losses
    <3> QED  BY <1>1, <1>4, <1>10, <1>12, <2>1, <3>1 DEF Direction
  <2>2. CASE g # f
    <3>1. peer(g) # e /\ peer(g) \in End
      BY <1>4, <2>2, Peers DEF f
    <3> QED  BY <1>1, <1>3, <1>12, <3>1, DirectionUnchanged
  <2> QED  BY <2>1, <2>2
<1>17. GreetedInOrder'
  <2>1. state["session"] # "Connecting" => state'["session"] # "Connecting"
    BY <1>13, Peers DEF stateAfter
  <2>2. greeted("session")' => greeted("session")
    BY <1>1 DEF greeted
  <2>3. ASSUME state'["client"] = "Ready"
        PROVE  state["session"] # "Connecting"
    <3>1. CASE state["client"] = "Ready"
      BY <1>3, <3>1 DEF GreetedInOrder
    <3>2. CASE state["client"] # "Ready"
      <4>1. e = "client" /\ \E i \in DOMAIN u.packets : u.packets[i].type = Greeting("session")
        <5>1. e = "client"
          BY <1>13, <2>3, <3>2, Peers
        <5>2. peer("client") = "session"
          BY DEF peer
        <5> QED  BY <1>13, <2>3, <3>2, <5>1, <5>2 DEF stateAfter
      <4>2. PICK i \in DOMAIN u.packets : u.packets[i].type = Greeting("session")
        BY <4>1
      <4>3. f = "session" /\ sent[f] \in Seq(Packets) /\ got[e] \in Seq(Packets)
        BY <1>3, <4>1, Peers DEF f, peer, Typed
      <4> DEFINE g == Len(got[e])
                 S == sent[f]
                 P == u.packets
      <4>4. /\ g \in Nat /\ Len(P) \in Nat /\ i \in 1..Len(P) /\ DOMAIN S = 1..Len(S)
            /\ Len(S) \in Nat
        BY <1>8, <4>3, LenProperties
      <4>5. /\ Len(G) = g + Len(P)
            /\ \A j \in 1..(g + Len(P)) : G[j] = IF j <= g THEN got[e][j] ELSE P[j - g]
        BY <1>8, <4>3, ConcatProperties DEF G
      <4>6. Len(G) <= Len(S) /\ \A j \in 1..Len(G) : G[j] = S[j]
        <5>1. Taken(S, G, outgoing[f], d) /\ Queued(S, outgoing[f]) /\ outgoing[f] \in Seq(Pending)
          BY <1>10 DEF Flow
        <5>2. Len(outgoing[f]) \in Nat /\ Len(G) \in Nat
          BY <1>11, <5>1
        <5>3. Len(G) <= Len(S) - Len(outgoing[f]) /\ \A j \in 1..Len(G) : G[j] = S[j]
          BY <5>1 DEF Taken
        <5> HIDE DEF S
        <5> QED  BY <4>4, <5>2, <5>3
      <4> HIDE DEF g, S, P
      <4>7. g + i \in 1..Len(G) /\ g + i \in DOMAIN S /\ ~(g + i <= g) /\ (g + i) - g = i
        BY <4>4, <4>5, <4>6
      <4>8. S[g + i] = P[i]
        BY <4>5, <4>6, <4>7
      <4>9. greeted("session")
        BY <4>2, <4>3, <4>7, <4>8 DEF greeted, S, P
      <4> QED  BY <1>3, <4>9 DEF GreetedInOrder
    <3> QED  BY <3>1, <3>2
  <2> QED  BY <1>3, <2>1, <2>2, <2>3 DEF GreetedInOrder
<1>18. \E P \in Seq(Packets) : got'[e] = got[e] \o P
  BY <1>8, <1>12 DEF G
<1> QED  BY <1>12, <1>14, <1>15, <1>16, <1>17, <1>18 DEF IInv

\* Every step keeps the invariant.
LEMMA NextIInv ==
  ASSUME IInv, [Next]_vars
  PROVE  IInv'
<1>1. CASE UNCHANGED vars
  <2>1. /\ state' = state /\ outgoing' = outgoing /\ wire' = wire /\ buffer' = buffer
        /\ alive' = alive /\ sent' = sent /\ got' = got
    BY <1>1 DEF vars
  <2>2. Typed' /\ Bounded' /\ GreetedInOrder'
    BY <2>1 DEF IInv, Typed, Bounded, GreetedInOrder, greeted
  <2>3. \A e \in End : Direction(e)'
    BY <2>1, DirectionUnchanged DEF IInv
  <2> QED  BY <2>2, <2>3 DEF IInv
<1>2. CASE connect
  BY <1>2, connectIInv
<1>3. CASE Welcome
  BY <1>3, WelcomeIInv
<1>4. CASE Break
  BY <1>4, BreakIInv
<1>5. CASE \E e \in End : SendOther(e)
  BY <1>5, SendOtherIInv
<1>6. CASE \E e \in End : sendPendingPackets(e)
  BY <1>6, sendPendingPacketsIInv
<1>7. CASE \E e \in End : sendFails(e)
  BY <1>7, sendFailsIInv
<1>8. CASE \E e \in End : receivePackets(e)
  BY <1>8, receivePacketsIInv
<1> QED
  BY <1>1, <1>2, <1>3, <1>4, <1>5, <1>6, <1>7, <1>8, Peers
  DEF Next, Client_sendPendingPackets, Client_sendFails, Client_receivePackets

\* The inductive invariant: what is queued, on its way, kept and taken is one stream.
THEOREM AlwaysIInv == Spec => []IInv
<1>1. Init => IInv
  BY InitIInv
<1>2. IInv /\ [Next]_vars => IInv'
  BY NextIInv
<1> QED  BY <1>1, <1>2, PTL DEF Spec

\* The queue of a direction has bytes left in each of its packets.
LEMMA QueueTyped ==
  ASSUME NEW S, NEW q \in Seq(Pending), Queued(S, q), NEW i \in DOMAIN q
  PROVE  q[i].data \in Seq(Byte) /\ q[i].sent \in 0..(Len(q[i].data) - 1)
<1>1. i \in 1..Len(q) /\ q[i] \in Pending
  BY LenProperties
<1>2. q[i].data \in Seq(Byte) /\ q[i].sent \in Nat /\ q[i].sent < Len(q[i].data)
  BY <1>1 DEF Queued, Pending
<1>3. Len(q[i].data) \in Nat
  BY <1>2
<1> QED  BY <1>2, <1>3

\* No packet that an end sends is longer than its longest.
LEMMA LongestOf ==
  ASSUME NEW e \in End, IInv
  PROVE  /\ Longest(e) \in Nat
         /\ \A i \in 1..Len(sent[e]) : Len(serialize(sent[e][i])) <= Longest(e)
<1> DEFINE S == sent[e]
           L == {0} \cup {Len(serialize(S[i])) : i \in DOMAIN S}
<1>1. S \in Seq(Packets) /\ DOMAIN S = 1..Len(S) /\ Len(S) \in Nat
  BY LenProperties DEF IInv, Typed
<1>2. PICK T, pos : Stream(S, T, pos)
  BY DEF IInv, Direction, Flow
<1> HIDE DEF S
<1>3. Len(T) \in Nat
  BY <1>2 DEF Stream
<1>4. ASSUME NEW i \in 1..Len(S)
      PROVE  Len(serialize(S[i])) \in 0..Len(T)
  <2> DEFINE P == pos[i]
             Q == pos[i - 1]
             l == Len(serialize(S[i]))
  <2>1. i \in 0..Len(S) /\ i - 1 \in 0..Len(S) /\ i - 1 <= i
    BY <1>1
  <2>2. P \in Nat /\ Q \in Nat /\ P <= Len(T)
    BY <1>1, <1>2, <2>1, StreamPositions
  <2>3. P = Q + l /\ l \in Nat
    <3>1. S[i] \in Packets
      BY <1>1, ElementOfSeq
    <3> QED  BY <1>2, <3>1, PacketBytes DEF Stream
  <2> HIDE DEF P, Q, l
  <2>4. l \in 0..Len(T)
    BY <1>3, <2>2, <2>3
  <2> QED  BY <2>4 DEF l
<1>5. L \in SUBSET (0..Len(T)) /\ L # {}
  BY <1>1, <1>3, <1>4
<1>6. \A i \in 1..Len(S) : Len(serialize(S[i])) \in L
  BY <1>1
<1> HIDE DEF L
<1>7. \E x \in L : \A y \in L : y <= x
  BY <1>3, <1>5, GreatestOf
<1>8. \E x \in L : \A y \in L : x >= y
  BY <1>3, <1>5, <1>7
<1>9. Max(L) \in L /\ \A y \in L : Max(L) >= y
  BY <1>8 DEF Max
<1>10. Longest(e) = Max(L)
  BY DEF Longest, L, S
<1>11. Max(L) \in Nat /\ \A y \in L : y \in Nat /\ y <= Max(L)
  <2> DEFINE M == Max(L)
  <2>1. M \in L /\ \A y \in L : M >= y
    BY <1>9
  <2>2. \A y \in L : y \in Nat
    BY <1>3, <1>5
  <2> HIDE DEF M
  <2>3. M \in Nat /\ \A y \in L : y \in Nat /\ y <= M
    BY <2>1, <2>2
  <2> QED  BY <2>3 DEF M
<1> QED  BY <1>6, <1>10, <1>11 DEF S

(***************************************************************************)
(* Whatever the data, however bytes are split, joined and lost: each end's *)
(* queue, buffer and socket keep their types, the receive buffer never     *)
(* grows beyond the cut and one packet, and a client is ready only after   *)
(* the server's session has taken its hello.                               *)
(***************************************************************************)
THEOREM EndsStayConsistent == Spec => []EndsConsistent
<1>1. ASSUME IInv
      PROVE  EndsConsistent
  <2>1. Typed /\ Bounded /\ GreetedInOrder /\ \A e \in End : Direction(e)
    BY <1>1 DEF IInv
  <2>2. ReadyAfterSession
    BY <2>1, Peers DEF GreetedInOrder, ReadyAfterSession
  <2>3. ASSUME NEW e \in End
        PROVE  /\ \A i \in DOMAIN outgoing[e] :
                    /\ outgoing[e][i].data \in Seq(Byte)
                    /\ outgoing[e][i].sent \in 0..(Len(outgoing[e][i].data) - 1)
               /\ wire[e] \in Seq(Byte) /\ Len(wire[e]) <= Capacity
               /\ buffer[e].bytes \in Seq(Byte) /\ buffer[e].offset \in 0..Len(buffer[e].bytes)
    <3>1. Queued(sent[e], outgoing[e]) /\ outgoing[e] \in Seq(Pending)
      BY <2>1 DEF Direction, Flow
    <3>2. wire[e] \in Seq(Byte) /\ Len(wire[e]) <= Capacity /\ buffer[e] \in Buffers
      BY <2>1 DEF Typed, Bounded
    <3>3. buffer[e].bytes \in Seq(Byte) /\ buffer[e].offset \in 0..Len(buffer[e].bytes)
      BY <3>2 DEF Buffers
    <3> QED  BY <3>1, <3>2, <3>3, QueueTyped
  <2>4. TypeOK
    BY <2>1, <2>3 DEF TypeOK, Typed
  <2>5. ASSUME NEW e \in End
        PROVE  Len(buffer[e].bytes) <= EraseAbove + Longest(peer(e))
    <3> DEFINE f == peer(e)
               b == buffer[e]
               S == sent[f]
               g == Len(got[e])
    <3>1. f \in End /\ peer(f) = e
      BY Peers
    <3>2. Longest(f) \in Nat /\ \A i \in 1..Len(S) : Len(serialize(S[i])) <= Longest(f)
      BY <1>1, <3>1, LongestOf
    <3>3. Flow(S, got[e], outgoing[f], b, wire[e], losses)
      BY <2>1, <3>1 DEF Direction
    <3> HIDE DEF f
    <3>4. /\ S \in Seq(Packets) /\ g \in Nat /\ Len(S) \in Nat /\ g <= Len(S)
          /\ g < Len(S) => kept(b) < Len(serialize(S[g + 1]))
          /\ g = Len(S) => kept(b) = 0
      <4>1. /\ Taken(S, got[e], outgoing[f], b) /\ S \in Seq(Packets)
            /\ got[e] \in Seq(Packets) /\ outgoing[f] \in Seq(Pending)
        BY <3>3 DEF Flow
      <4>2. g \in Nat /\ Len(S) \in Nat /\ Len(outgoing[f]) \in Nat
        BY <4>1
      <4>3. /\ g <= Len(S) - Len(outgoing[f])
            /\ g < Len(S) => kept(b) < Len(serialize(S[g + 1]))
            /\ g = Len(S) => kept(b) = 0
        BY <4>1 DEF Taken
      <4> HIDE DEF S, g
      <4> QED  BY <4>1, <4>2, <4>3
    <3>5. /\ b.offset \in Nat /\ b.offset <= EraseAbove /\ Len(b.bytes) \in Nat
          /\ kept(b) = Len(b.bytes) - b.offset /\ EraseAbove \in Nat
      BY <2>1, ConnectionAssumption DEF Typed, Bounded, Buffers, kept
    <3> HIDE DEF S, g, b
    <3>6. kept(b) <= Longest(f)
      <4>1. CASE g = Len(S)
        BY <3>2, <3>4, <4>1
      <4>2. CASE g < Len(S)
        <5>1. g + 1 \in 1..Len(S)
          BY <3>4, <4>2
        <5>2. /\ kept(b) < Len(serialize(S[g + 1])) /\ Len(serialize(S[g + 1])) <= Longest(f)
              /\ Len(serialize(S[g + 1])) \in Nat
          <6>1. S[g + 1] \in Packets
            BY <3>4, <5>1, ElementOfSeq
          <6> QED  BY <3>2, <3>4, <4>2, <5>1, <6>1, PacketBytes
        <5>3. kept(b) \in Int
          BY <3>5
        <5> QED  BY <3>2, <5>2, <5>3
      <4> QED  BY <3>4, <4>1, <4>2
    <3>7. Len(b.bytes) <= EraseAbove + Longest(f)
      BY <3>2, <3>5, <3>6
    <3> QED  BY <3>7 DEF b, f
  <2>6. BufferBounded
    BY <2>5 DEF BufferBounded
  <2> QED  BY <2>2, <2>4, <2>6 DEF EndsConsistent
<1> QED  BY <1>1, AlwaysIInv, PTL

-----------------------------------------------------------------------------
(* Each direction implements the queue of packets. *)

\* A sequence is a prefix of one that begins with its elements, and of itself with more.
LEMMA PointwisePrefix ==
  ASSUME NEW A, NEW R \in Seq(A), NEW S \in Seq(A), Len(R) <= Len(S),
         \A i \in 1..Len(R) : R[i] = S[i]
  PROVE  IsPrefix(R, S)
<1> DEFINE n == Len(R)
<1>1. n \in Nat /\ Len(S) \in Nat /\ n <= Len(S)
  OBVIOUS
<1> HIDE DEF n
<1>2. \A i \in 1..n : R[i] \in A /\ S[i] \in A
  <2> TAKE i \in 1..n
  <2>1. i \in 1..Len(R) /\ i \in 1..Len(S)
    BY <1>1 DEF n
  <2> QED  BY <2>1, ElementOfSeq
<1>3. n - 1 + 1 = n /\ \A i \in 1..n : 1 + i - 1 = i
  BY <1>1
<1> DEFINE r == SubSeq(R, 1, n)
           s == SubSeq(S, 1, n)
<1>4. /\ r \in Seq(A) /\ Len(r) = IF 1 <= n THEN n - 1 + 1 ELSE 0
      /\ \A i \in 1..(n - 1 + 1) : r[i] = R[1 + i - 1]
  BY <1>1, <1>2, SubSeqProperties
<1>5. /\ s \in Seq(A) /\ Len(s) = IF 1 <= n THEN n - 1 + 1 ELSE 0
      /\ \A i \in 1..(n - 1 + 1) : s[i] = S[1 + i - 1]
  BY <1>1, <1>2, SubSeqProperties
<1> HIDE DEF r, s
<1>6. Len(r) = n /\ Len(s) = n
  BY <1>1, <1>4, <1>5
<1>7. \A i \in 1..n : r[i] = s[i]
  BY <1>3, <1>4, <1>5 DEF n
<1>8. r = s
  BY <1>4, <1>5, <1>6, <1>7, SeqEqual
<1> QED  BY <1>8 DEF IsPrefix, r, s, n

\* A sequence with more behind it has it as a prefix.
LEMMA ExtensionPrefix ==
  ASSUME NEW A, NEW R \in Seq(A), NEW S \in Seq(A)
  PROVE  IsPrefix(R, R \o S)
<1>1. /\ R \o S \in Seq(A) /\ Len(R \o S) = Len(R) + Len(S)
      /\ \A i \in 1..(Len(R) + Len(S)) : (R \o S)[i] = IF i <= Len(R) THEN R[i] ELSE S[i - Len(R)]
  BY ConcatProperties
<1>2. Len(R) \in Nat /\ Len(S) \in Nat /\ Len(R) <= Len(R) + Len(S)
  OBVIOUS
<1>3. \A i \in 1..Len(R) : (R \o S)[i] = R[i]
  <2> TAKE i \in 1..Len(R)
  <2>1. i \in 1..(Len(R) + Len(S)) /\ i <= Len(R)
    BY <1>2
  <2> QED  BY <1>1, <2>1
<1> QED  BY <1>1, <1>2, <1>3, PointwisePrefix

\* So it is with one more element.
LEMMA AppendPrefix ==
  ASSUME NEW A, NEW R \in Seq(A), NEW x \in A
  PROVE  IsStrictPrefix(R, Append(R, x))
<1> DEFINE S == Append(R, x)
<1>1. S \in Seq(A) /\ Len(S) = Len(R) + 1 /\ \A i \in 1..Len(R) : S[i] = R[i]
  BY AppendProperties
<1> HIDE DEF S
<1>2. Len(R) \in Nat /\ Len(R) <= Len(S) /\ R # S
  BY <1>1
<1>3. \A i \in 1..Len(R) : R[i] = S[i]
  BY <1>1
<1>4. IsPrefix(R, S)
  BY <1>1, <1>2, <1>3, PointwisePrefix
<1> QED  BY <1>2, <1>4 DEF IsStrictPrefix, S

\* What a step does to the two histories of the direction from the end e to its peer.
DirectionStep(e) ==
  \/ IsStrictPrefix(sent[e], sent'[e]) /\ got'[peer(e)] = got[peer(e)]
  \/ /\ IsStrictPrefix(got[peer(e)], got'[peer(e)]) /\ IsPrefix(got'[peer(e)], sent[e])
     /\ sent'[e] = sent[e]
  \/ sent'[e] = sent[e] /\ got'[peer(e)] = got[peer(e)]

\* A packet that is sent is new behind the others.
LEMMA SendStep ==
  ASSUME IInv, NEW e \in End, NEW f \in End, NEW p \in Packets, sendPacket(f, p), got' = got
  PROVE  DirectionStep(e)
<1>1. sent \in [End -> Seq(Packets)] /\ sent' = [sent EXCEPT ![f] = Append(sent[f], p)]
  BY DEF IInv, Typed, sendPacket
<1>2. CASE e = f
  <2>1. sent[e] \in Seq(Packets) /\ sent'[e] = Append(sent[e], p)
    BY <1>1, <1>2
  <2>2. IsStrictPrefix(sent[e], sent'[e])
    BY <2>1, AppendPrefix
  <2> QED  BY <2>2 DEF DirectionStep
<1>3. CASE e # f
  <2>1. sent'[e] = sent[e]
    BY <1>1, <1>3
  <2> QED  BY <2>1 DEF DirectionStep
<1> QED  BY <1>2, <1>3

\* The packets that are taken are the next of those sent.
LEMMA ReceiveStep ==
  ASSUME IInv, NEW e \in End, NEW f \in End, receivePackets(f)
  PROVE  DirectionStep(e)
<1>1. sent' = sent
  BY DEF receivePackets
<1>2. IInv' /\ \A g \in End : g # f => got'[g] = got[g]
  BY receivePacketsIInv
<1>3. PICK P \in Seq(Packets) : got'[f] = got[f] \o P
  BY receivePacketsIInv
<1>4. CASE peer(e) # f
  <2>1. got'[peer(e)] = got[peer(e)]
    BY <1>2, <1>4, Peers
  <2> QED  BY <1>1, <2>1 DEF DirectionStep
<1>5. CASE peer(e) = f
  <2> DEFINE R == got[f]
             G == got'[f]
             S == sent[e]
  <2>1. R \in Seq(Packets) /\ G \in Seq(Packets) /\ S \in Seq(Packets)
    <3>1. Typed /\ Typed'
      BY <1>2 DEF IInv
    <3> QED  BY <3>1 DEF Typed
  <2>2. IsPrefix(R, G)
    BY <1>3, <2>1, ExtensionPrefix
  <2>3. IsPrefix(G, S)
    <3>1. Direction(e)'
      BY <1>2 DEF IInv
    <3>2. Taken(S, G, outgoing'[e], buffer'[f]) /\ outgoing'[e] \in Seq(Pending)
      BY <1>1, <1>5, <3>1 DEF Direction, Flow
    <3> HIDE DEF G, S
    <3>3. Len(G) <= Len(S) - Len(outgoing'[e]) /\ \A i \in 1..Len(G) : G[i] = S[i]
      BY <3>2 DEF Taken
    <3>4. Len(G) <= Len(S)
      <4>1. Len(outgoing'[e]) \in Nat /\ Len(G) \in Nat /\ Len(S) \in Nat
        BY <2>1, <3>2
      <4> QED  BY <3>3, <4>1
    <3> QED  BY <2>1, <3>3, <3>4, PointwisePrefix
  <2> QED  BY <1>1, <1>5, <2>2, <2>3 DEF DirectionStep, IsStrictPrefix
<1> QED  BY <1>4, <1>5

\* Every step of the connection is one of each direction's queue, or none.
LEMMA NextDirectionStep ==
  ASSUME IInv, [Next]_vars, NEW e \in End
  PROVE  DirectionStep(e)
<1>1. ASSUME sent' = sent, got' = got
      PROVE  DirectionStep(e)
  BY <1>1 DEF DirectionStep
<1>2. CASE UNCHANGED vars
  BY <1>1, <1>2 DEF vars
<1>3. CASE connect
  BY <1>3, PacketsSent, Peers, SendStep DEF connect
<1>4. CASE Welcome
  BY <1>4, PacketsSent, Peers, SendStep DEF Welcome
<1>5. CASE Break
  BY <1>1, <1>5 DEF Break
<1>6. CASE \E f \in End : SendOther(f)
  BY <1>6, PacketsSent, SendStep DEF SendOther
<1>7. CASE \E f \in End : sendPendingPackets(f)
  BY <1>1, <1>7 DEF sendPendingPackets
<1>8. CASE \E f \in End : sendFails(f)
  BY <1>1, <1>8 DEF sendFails
<1>9. CASE \E f \in End : receivePackets(f)
  BY <1>9, ReceiveStep
<1> QED
  BY <1>2, <1>3, <1>4, <1>5, <1>6, <1>7, <1>8, <1>9, Peers
  DEF Next, Client_sendPendingPackets, Client_sendFails, Client_receivePackets

(***************************************************************************)
(* Each direction implements the queue of packets: every packet is taken   *)
(* whole, at most once and in the order of sending, wherever the socket    *)
(* splits the bytes and wherever the connection ends.                      *)
(***************************************************************************)
THEOREM ConnectionCarriesPackets == Spec => CarriesPackets
<1>1. ASSUME Init
      PROVE  ToSession!Init /\ ToClient!Init
  BY <1>1, Peers DEF Init, ToSession!Init, ToClient!Init
<1>2. ASSUME IInv, [Next]_vars
      PROVE  /\ [ToSession!Send \/ ToSession!Receive]_<<sent.client, got.session>>
             /\ [ToClient!Send \/ ToClient!Receive]_<<sent.session, got.client>>
  <2>1. peer("client") = "session" /\ peer("session") = "client"
    BY DEF peer
  <2>2. DirectionStep("client") /\ DirectionStep("session")
    BY <1>2, NextDirectionStep, Peers
  <2>3. /\ sent.client = sent["client"] /\ sent'.client = sent'["client"]
        /\ got.client = got["client"] /\ got'.client = got'["client"]
        /\ sent.session = sent["session"] /\ sent'.session = sent'["session"]
        /\ got.session = got["session"] /\ got'.session = got'["session"]
    BY <1>2
  <2>4. \/ IsStrictPrefix(sent.client, sent'.client) /\ got'.session = got.session
        \/ /\ IsStrictPrefix(got.session, got'.session) /\ IsPrefix(got'.session, sent.client)
           /\ sent'.client = sent.client
        \/ sent'.client = sent.client /\ got'.session = got.session
    BY <2>1, <2>2, <2>3 DEF DirectionStep
  <2>5. \/ IsStrictPrefix(sent.session, sent'.session) /\ got'.client = got.client
        \/ /\ IsStrictPrefix(got.client, got'.client) /\ IsPrefix(got'.client, sent.session)
           /\ sent'.session = sent.session
        \/ sent'.session = sent.session /\ got'.client = got.client
    BY <2>1, <2>2, <2>3 DEF DirectionStep
  <2>6. [ToSession!Send \/ ToSession!Receive]_<<sent.client, got.session>>
    BY <2>4 DEF ToSession!Send, ToSession!Receive, IsStrictPrefix, IsPrefix,
                ToSession!IsStrictPrefix, ToSession!IsPrefix
  <2>7. [ToClient!Send \/ ToClient!Receive]_<<sent.session, got.client>>
    BY <2>5 DEF ToClient!Send, ToClient!Receive, IsStrictPrefix, IsPrefix,
                ToClient!IsStrictPrefix, ToClient!IsPrefix
  <2> QED  BY <2>6, <2>7
<1>3. Spec => ToSession!Spec /\ ToClient!Spec
  BY <1>1, <1>2, AlwaysIInv, PTL DEF Spec, ToSession!Spec, ToClient!Spec
<1> QED  BY <1>3 DEF CarriesPackets

-----------------------------------------------------------------------------
(* The fields of a packet *)

\* At whatever bytes the fields begin, they are read there.
LEMMA ReadAt ==
  ASSUME NEW ks, Len(ks) \in Nat, NEW data, NEW pos \in [0..Len(ks) -> Nat], pos[0] = 0,
         \A i \in 1..Len(ks) :
           pos[i] = pos[i - 1] + field(ks[i], SubSeq(data, pos[i - 1] + 1, Len(data))).size
  PROVE  readFields(ks, data) =
           [ values |-> [i \in 1..Len(ks) |->
               field(ks[i], SubSeq(data, pos[i - 1] + 1, Len(data))).value],
             at |-> pos[Len(ks)] ]
<1> DEFINE n == Len(ks)
           rest(i) == SubSeq(data, i + 1, Len(data))
           after(k, i) == i + field(ks[k], rest(i)).size
           val(k, i) == field(ks[k], rest(i)).value
           is(g) == g = [i \in 0..n |-> IF i = 0 THEN 0 ELSE after(i, g[i - 1])]
           e == CHOOSE g : is(g)
<1>1. readFields(ks, data) = [values |-> [i \in 1..n |-> val(i, e[i - 1])], at |-> e[n]]
  BY DEF readFields
<1>2. \A i \in 1..n : pos[i] = after(i, pos[i - 1])
  OBVIOUS
<1>3. n \in Nat /\ pos \in [0..n -> Nat] /\ pos[0] = 0
  OBVIOUS
<1>4. SUFFICES readFields(ks, data) = [values |-> [i \in 1..n |-> val(i, pos[i - 1])], at |-> pos[n]]
  OBVIOUS
<1> HIDE DEF after, val, n
<1>5. is(pos)
  <2>1. \A i \in 0..n : pos[i] = IF i = 0 THEN 0 ELSE after(i, pos[i - 1])
    <3> TAKE i \in 0..n
    <3>1. i = 0 \/ i \in 1..n
      BY <1>3
    <3> QED  BY <1>2, <1>3, <3>1
  <2> QED  BY <1>3, <2>1
<1> HIDE DEF is
<1>6. is(e)
  BY <1>5
<1> HIDE DEF e
<1>7. e[0] = 0 /\ \A i \in 1..n : e[i] = after(i, e[i - 1])
  BY <1>3, <1>6 DEF is
<1> DEFINE bad == {i \in 0..n : e[i] # pos[i]}
<1>8. bad = {}
  <2> SUFFICES ASSUME bad # {}
               PROVE  FALSE
    OBVIOUS
  <2>1. PICK k \in bad : \A j \in bad : k <= j
    <3>1. bad \in SUBSET Nat
      BY <1>3
    <3> HIDE DEF bad
    <3> QED  BY <3>1, SmallestOf
  <2>2. k \in 1..n
    BY <1>3, <1>7, <2>1
  <2>3. k - 1 \in 0..n /\ ~(k <= k - 1)
    BY <1>3, <2>2
  <2>4. e[k - 1] = pos[k - 1]
    BY <2>1, <2>3
  <2>5. e[k] = pos[k]
    BY <1>2, <1>7, <2>2, <2>4
  <2> QED  BY <2>1, <2>5
<1>9. \A i \in 0..n : e[i] = pos[i]
  BY <1>8
<1>10. [i \in 1..n |-> val(i, e[i - 1])] = [i \in 1..n |-> val(i, pos[i - 1])]
  <2>1. \A i \in 1..n : i - 1 \in 0..n
    BY <1>3
  <2> QED  BY <1>9, <2>1
<1>11. e[n] = pos[n]
  BY <1>3, <1>9
<1> QED  BY <1>1, <1>10, <1>11

\* The bytes p are read as one value v of the kind k, whatever follows them.
OneField(k, v, p) ==
  /\ p \in Seq(Byte)
  /\ \A d \in Seq(Byte) : field(k, p \o d) = [value |-> v, size |-> Len(p)]

\* The bytes f are read as the values vs of the kinds ks, whatever follows them.
Fields(ks, vs, f) ==
  /\ f \in Seq(Byte) /\ Len(ks) \in Nat
  /\ vs = [i \in 1..Len(ks) |-> vs[i]]
  /\ \E pos \in [0..Len(ks) -> Nat] :
       /\ pos[0] = 0 /\ pos[Len(ks)] = Len(f)
       /\ \A i \in 1..Len(ks), d \in Seq(Byte) :
            field(ks[i], SubSeq(f \o d, pos[i - 1] + 1, Len(f \o d)))
              = [value |-> vs[i], size |-> pos[i] - pos[i - 1]]

\* Such bytes give back their values, and are used up.
LEMMA FieldsAreRead ==
  ASSUME NEW ks, NEW vs, NEW f, Fields(ks, vs, f)
  PROVE  readFields(ks, f) = [values |-> vs, at |-> Len(f)]
<1> DEFINE n == Len(ks)
<1>1. f \in Seq(Byte) /\ n \in Nat /\ vs = [i \in 1..n |-> vs[i]]
  BY DEF Fields
<1>2. PICK pos \in [0..n -> Nat] :
        /\ pos[0] = 0 /\ pos[n] = Len(f)
        /\ \A i \in 1..n, d \in Seq(Byte) :
             field(ks[i], SubSeq(f \o d, pos[i - 1] + 1, Len(f \o d)))
               = [value |-> vs[i], size |-> pos[i] - pos[i - 1]]
  BY DEF Fields
<1>3. <<>> \in Seq(Byte) /\ f \o <<>> = f
  BY <1>1, EmptySeq, ConcatEmptySeq
<1> DEFINE g(i) == field(ks[i], SubSeq(f, pos[i - 1] + 1, Len(f)))
<1>4. \A i \in 1..n : g(i) = [value |-> vs[i], size |-> pos[i] - pos[i - 1]]
  BY <1>2, <1>3
<1> HIDE DEF g
<1>5. \A i \in 1..n : g(i).value = vs[i] /\ g(i).size = pos[i] - pos[i - 1]
  BY <1>4
<1>6. \A i \in 1..n : pos[i] = pos[i - 1] + g(i).size
  <2> TAKE i \in 1..n
  <2>1. i \in 0..n /\ i - 1 \in 0..n
    BY <1>1
  <2>2. pos[i] \in Nat /\ pos[i - 1] \in Nat
    BY <2>1
  <2> QED  BY <1>5, <2>2
<1>7. readFields(ks, f) = [values |-> [i \in 1..n |-> g(i).value], at |-> pos[n]]
  BY <1>1, <1>2, <1>6, ReadAt DEF g
<1>8. [i \in 1..n |-> g(i).value] = vs
  <2>1. [i \in 1..n |-> g(i).value] = [i \in 1..n |-> vs[i]]
    BY <1>5
  <2> QED  BY <1>1, <2>1
<1> QED  BY <1>2, <1>7, <1>8
\* The kinds ls and values ws are ks and vs with k and v behind them.
Longer(ls, ws, ks, vs, k, v) ==
  /\ Len(ls) = Len(ks) + 1 /\ ws = [i \in 1..Len(ls) |-> ws[i]]
  /\ \A i \in 1..Len(ks) : ls[i] = ks[i] /\ ws[i] = vs[i]
  /\ ls[Len(ls)] = k /\ ws[Len(ls)] = v

\* One more field behind the others.
LEMMA FieldAdded ==
  ASSUME NEW ks, NEW vs, NEW f, Fields(ks, vs, f), NEW k, NEW v, NEW p, OneField(k, v, p),
         NEW ls, NEW ws, Longer(ls, ws, ks, vs, k, v)
  PROVE  Fields(ls, ws, f \o p)
<1> DEFINE n == Len(ks)
           g == f \o p
<1>1. f \in Seq(Byte) /\ p \in Seq(Byte) /\ n \in Nat /\ Len(f) \in Nat /\ Len(p) \in Nat
  BY LenProperties DEF Fields, OneField
<1>2. PICK pos \in [0..n -> Nat] :
        /\ pos[0] = 0 /\ pos[n] = Len(f)
        /\ \A i \in 1..n, d \in Seq(Byte) :
             field(ks[i], SubSeq(f \o d, pos[i - 1] + 1, Len(f \o d)))
               = [value |-> vs[i], size |-> pos[i] - pos[i - 1]]
  BY DEF Fields
<1>3. g \in Seq(Byte) /\ Len(g) = Len(f) + Len(p)
  BY <1>1, ConcatProperties
<1>4. /\ Len(ls) = n + 1 /\ n + 1 \in Nat /\ ls[n + 1] = k /\ ws[n + 1] = v
      /\ ws = [i \in 1..Len(ls) |-> ws[i]]
      /\ \A i \in 1..n : ls[i] = ks[i] /\ ws[i] = vs[i]
  <2>1. n + 1 \in Nat
    BY <1>1
  <2>2. Len(ls) = n + 1 /\ ls[Len(ls)] = k /\ ws[Len(ls)] = v
    BY DEF Longer
  <2>3. ws = [i \in 1..Len(ls) |-> ws[i]]
    BY DEF Longer
  <2>4. \A i \in 1..n : ls[i] = ks[i] /\ ws[i] = vs[i]
    BY DEF Longer
  <2> QED  BY <2>1, <2>2, <2>3, <2>4
<1> DEFINE q == [i \in 0..(n + 1) |-> IF i <= n THEN pos[i] ELSE Len(g)]
<1>5. /\ q \in [0..(n + 1) -> Nat] /\ q[0] = 0 /\ q[n + 1] = Len(g)
      /\ \A i \in 0..n : q[i] = pos[i]
  <2> HIDE DEF g
  <2> QED  BY <1>1, <1>2, <1>3
<1> HIDE DEF q
<1>6. ASSUME NEW d \in Seq(Byte)
      PROVE  /\ p \o d \in Seq(Byte) /\ g \o d = f \o (p \o d)
             /\ SubSeq(g \o d, Len(f) + 1, Len(g \o d)) = p \o d
  <2>1. p \o d \in Seq(Byte)
    BY <1>1, ConcatProperties
  <2>2. g \o d = f \o (p \o d)
    BY <1>1, ConcatAssociative
  <2> DEFINE e == p \o d
  <2> HIDE DEF e
  <2>3. Len(f \o e) = Len(f) + Len(e)
    BY <1>1, <2>1, ConcatProperties DEF e
  <2>4. SubSeq(f \o e, Len(f) + 1, Len(f) + Len(e)) = e
    BY <1>1, <2>1, SecondPart DEF e
  <2> QED  BY <2>1, <2>2, <2>3, <2>4 DEF e
<1>7. ASSUME NEW i \in 1..(n + 1), NEW d \in Seq(Byte)
      PROVE  field(ls[i], SubSeq(g \o d, q[i - 1] + 1, Len(g \o d)))
               = [value |-> ws[i], size |-> q[i] - q[i - 1]]
  <2> HIDE DEF g
  <2>1. CASE i \in 1..n
    <3>1. ls[i] = ks[i] /\ ws[i] = vs[i] /\ q[i] = pos[i] /\ q[i - 1] = pos[i - 1]
      <4>1. i \in 0..n /\ i - 1 \in 0..n
        BY <1>1, <2>1
      <4> QED  BY <1>4, <1>5, <2>1, <4>1
    <3>2. g \o d = f \o (p \o d) /\ p \o d \in Seq(Byte)
      BY <1>6
    <3> QED  BY <1>2, <2>1, <3>1, <3>2
  <2>2. CASE i = n + 1
    <3>1. i - 1 = n /\ n \in 0..n
      BY <1>1, <2>2
    <3>2. q[i - 1] = Len(f) /\ q[i] = Len(g) /\ Len(g) - Len(f) = Len(p)
      <4>1. q[n] = Len(f)
        BY <1>2, <1>5, <3>1
      <4>2. Len(g) - Len(f) = Len(p)
        BY <1>1, <1>3
      <4> QED  BY <1>5, <2>2, <3>1, <4>1, <4>2
    <3>3. field(k, p \o d) = [value |-> v, size |-> Len(p)]
      BY DEF OneField
    <3>4. SubSeq(g \o d, Len(f) + 1, Len(g \o d)) = p \o d
      BY <1>6
    <3> QED  BY <1>4, <2>2, <3>2, <3>3, <3>4
  <2>3. i \in 1..n \/ i = n + 1
    BY <1>1
  <2> QED  BY <2>1, <2>2, <2>3
<1> HIDE DEF g
<1>8. \E r \in [0..Len(ls) -> Nat] :
        /\ r[0] = 0 /\ r[Len(ls)] = Len(g)
        /\ \A i \in 1..Len(ls), d \in Seq(Byte) :
             field(ls[i], SubSeq(g \o d, r[i - 1] + 1, Len(g \o d)))
               = [value |-> ws[i], size |-> r[i] - r[i - 1]]
  BY <1>4, <1>5, <1>7
<1>9. Fields(ls, ws, g)
  BY <1>3, <1>4, <1>8 DEF Fields
<1> QED  BY <1>9 DEF g

\* A packet of one field.
LEMMA OneFieldRead ==
  ASSUME NEW k, NEW v, NEW p, OneField(k, v, p)
  PROVE  Fields(<<k>>, <<v>>, p)
<1>1. p \in Seq(Byte) /\ Len(p) \in Nat
  BY LenProperties DEF OneField
<1> DEFINE ks == <<k>>
           vs == <<v>>
           pos == [i \in 0..1 |-> IF i = 0 THEN 0 ELSE Len(p)]
<1>2. Len(ks) = 1 /\ ks[1] = k /\ vs[1] = v /\ vs = [i \in 1..1 |-> vs[i]]
  OBVIOUS
<1>3. pos \in [0..1 -> Nat] /\ pos[0] = 0 /\ pos[1] = Len(p)
  BY <1>1
<1> HIDE DEF ks, vs, pos
<1>4. ASSUME NEW i \in 1..1, NEW d \in Seq(Byte)
      PROVE  field(ks[i], SubSeq(p \o d, pos[i - 1] + 1, Len(p \o d)))
               = [value |-> vs[i], size |-> pos[i] - pos[i - 1]]
  <2>1. i = 1 /\ i - 1 = 0
    OBVIOUS
  <2>2. field(k, p \o d) = [value |-> v, size |-> Len(p)]
    BY DEF OneField
  <2> DEFINE e == p \o d
  <2>3. e \in Seq(Byte)
    BY <1>1, ConcatProperties
  <2> HIDE DEF e
  <2>4. SubSeq(e, 1, Len(e)) = e
    BY <2>3, SubSeqFull
  <2>5. pos[i - 1] + 1 = 1 /\ pos[i] - pos[i - 1] = Len(p)
    BY <1>1, <1>3, <2>1
  <2> QED  BY <1>2, <2>1, <2>2, <2>4, <2>5 DEF e
<1>5. \E r \in [0..1 -> Nat] :
        /\ r[0] = 0 /\ r[1] = Len(p)
        /\ \A i \in 1..1, d \in Seq(Byte) :
             field(ks[i], SubSeq(p \o d, r[i - 1] + 1, Len(p \o d)))
               = [value |-> vs[i], size |-> r[i] - r[i - 1]]
  BY <1>3, <1>4
<1>6. Fields(ks, vs, p)
  BY <1>1, <1>2, <1>5 DEF Fields
<1> QED  BY <1>6 DEF ks, vs

\* Packets of two, three, four and six fields.
LEMMA TwoFieldsRead ==
  ASSUME NEW k1, NEW v1, NEW p1, OneField(k1, v1, p1), NEW k2, NEW v2, NEW p2, OneField(k2, v2, p2)
  PROVE  Fields(<<k1, k2>>, <<v1, v2>>, p1 \o p2)
<1> DEFINE ks == <<k1>>
           vs == <<v1>>
           ls == <<k1, k2>>
           ws == <<v1, v2>>
<1>1. Fields(ks, vs, p1)
  BY OneFieldRead
<1>2. /\ Len(ks) = 1 /\ Len(ls) = 2 /\ ws = [i \in 1..2 |-> ws[i]]
      /\ ls[1] = ks[1] /\ ws[1] = vs[1] /\ ls[2] = k2 /\ ws[2] = v2
  OBVIOUS
<1> HIDE DEF ks, vs, ls, ws
<1>3. Longer(ls, ws, ks, vs, k2, v2)
  BY <1>2 DEF Longer
<1>4. Fields(ls, ws, p1 \o p2)
  BY <1>1, <1>3, FieldAdded
<1> QED  BY <1>4 DEF ls, ws

\* Three.
LEMMA ThreeFieldsRead ==
  ASSUME NEW k1, NEW v1, NEW p1, OneField(k1, v1, p1), NEW k2, NEW v2, NEW p2, OneField(k2, v2, p2),
         NEW k3, NEW v3, NEW p3, OneField(k3, v3, p3)
  PROVE  Fields(<<k1, k2, k3>>, <<v1, v2, v3>>, p1 \o p2 \o p3)
<1> DEFINE ks == <<k1, k2>>
           vs == <<v1, v2>>
           ls == <<k1, k2, k3>>
           ws == <<v1, v2, v3>>
           f == p1 \o p2
<1>1. Fields(ks, vs, f)
  BY TwoFieldsRead
<1>2. /\ Len(ks) = 2 /\ Len(ls) = 3 /\ ws = [i \in 1..3 |-> ws[i]]
      /\ ls[1] = ks[1] /\ ws[1] = vs[1] /\ ls[2] = ks[2] /\ ws[2] = vs[2] /\ ls[3] = k3 /\ ws[3] = v3
  OBVIOUS
<1> HIDE DEF ks, vs, ls, ws, f
<1>3. Longer(ls, ws, ks, vs, k3, v3)
  BY <1>2 DEF Longer
<1>4. Fields(ls, ws, f \o p3)
  BY <1>1, <1>3, FieldAdded
<1> QED  BY <1>4 DEF ls, ws, f

\* Four.
LEMMA FourFieldsRead ==
  ASSUME NEW k1, NEW v1, NEW p1, OneField(k1, v1, p1), NEW k2, NEW v2, NEW p2, OneField(k2, v2, p2),
         NEW k3, NEW v3, NEW p3, OneField(k3, v3, p3), NEW k4, NEW v4, NEW p4, OneField(k4, v4, p4)
  PROVE  Fields(<<k1, k2, k3, k4>>, <<v1, v2, v3, v4>>, p1 \o p2 \o p3 \o p4)
<1> DEFINE ks == <<k1, k2, k3>>
           vs == <<v1, v2, v3>>
           ls == <<k1, k2, k3, k4>>
           ws == <<v1, v2, v3, v4>>
           f == p1 \o p2 \o p3
<1>1. Fields(ks, vs, f)
  BY ThreeFieldsRead
<1>2. /\ Len(ks) = 3 /\ Len(ls) = 4 /\ ws = [i \in 1..4 |-> ws[i]]
      /\ ls[1] = ks[1] /\ ws[1] = vs[1] /\ ls[2] = ks[2] /\ ws[2] = vs[2]
      /\ ls[3] = ks[3] /\ ws[3] = vs[3] /\ ls[4] = k4 /\ ws[4] = v4
  OBVIOUS
<1> HIDE DEF ks, vs, ls, ws, f
<1>3. Longer(ls, ws, ks, vs, k4, v4)
  BY <1>2 DEF Longer
<1>4. Fields(ls, ws, f \o p4)
  BY <1>1, <1>3, FieldAdded
<1> QED  BY <1>4 DEF ls, ws, f

\* Six.
LEMMA SixFieldsRead ==
  ASSUME NEW k1, NEW v1, NEW p1, OneField(k1, v1, p1), NEW k2, NEW v2, NEW p2, OneField(k2, v2, p2),
         NEW k3, NEW v3, NEW p3, OneField(k3, v3, p3), NEW k4, NEW v4, NEW p4, OneField(k4, v4, p4),
         NEW k5, NEW v5, NEW p5, OneField(k5, v5, p5), NEW k6, NEW v6, NEW p6, OneField(k6, v6, p6)
  PROVE  Fields(<<k1, k2, k3, k4, k5, k6>>, <<v1, v2, v3, v4, v5, v6>>,
                p1 \o p2 \o p3 \o p4 \o p5 \o p6)
<1> DEFINE ks == <<k1, k2, k3, k4>>
           vs == <<v1, v2, v3, v4>>
           ls == <<k1, k2, k3, k4, k5>>
           ws == <<v1, v2, v3, v4, v5>>
           ms == <<k1, k2, k3, k4, k5, k6>>
           xs == <<v1, v2, v3, v4, v5, v6>>
           f == p1 \o p2 \o p3 \o p4
           g == f \o p5
<1>1. Fields(ks, vs, f)
  BY FourFieldsRead
<1>2. /\ Len(ks) = 4 /\ Len(ls) = 5 /\ ws = [i \in 1..5 |-> ws[i]]
      /\ ls[1] = ks[1] /\ ws[1] = vs[1] /\ ls[2] = ks[2] /\ ws[2] = vs[2]
      /\ ls[3] = ks[3] /\ ws[3] = vs[3] /\ ls[4] = ks[4] /\ ws[4] = vs[4] /\ ls[5] = k5 /\ ws[5] = v5
  OBVIOUS
<1>3. /\ Len(ms) = 6 /\ xs = [i \in 1..6 |-> xs[i]]
      /\ ms[1] = ls[1] /\ xs[1] = ws[1] /\ ms[2] = ls[2] /\ xs[2] = ws[2]
      /\ ms[3] = ls[3] /\ xs[3] = ws[3] /\ ms[4] = ls[4] /\ xs[4] = ws[4]
      /\ ms[5] = ls[5] /\ xs[5] = ws[5] /\ ms[6] = k6 /\ xs[6] = v6
  OBVIOUS
<1> HIDE DEF ks, vs, ls, ws, ms, xs, f
<1>4. Fields(ls, ws, g)
  <2>1. Longer(ls, ws, ks, vs, k5, v5)
    BY <1>2 DEF Longer
  <2> QED  BY <1>1, <2>1, FieldAdded
<1> HIDE DEF g
<1>5. Longer(ms, xs, ls, ws, k6, v6)
  BY <1>2, <1>3 DEF Longer
<1>6. Fields(ms, xs, g \o p6)
  BY <1>4, <1>5, FieldAdded
<1> QED  BY <1>6 DEF ms, xs, f, g
-----------------------------------------------------------------------------
(* The fields, one kind at a time *)

\* The numbers that fit are those of the round trips.
LEMMA FittingNumbers ==
  ASSUME NEW v
  PROVE  /\ UInt32(v) => v \in Int /\ v \in Nat /\ IsUInt32(v)
         /\ Int32(v) => v \in Int /\ IsInt32(v)
<1>1. UInt32(v) => v \in Int /\ v \in Nat /\ IsUInt32(v)
  BY DEF UInt32, IsUInt32
<1>2. Int32(v) => v \in Int /\ IsInt32(v)
  BY DEF Int32, IsInt32
<1> QED  BY <1>1, <1>2

\* A number that fits is written in four bytes.
LEMMA FourBytes ==
  ASSUME NEW v, UInt32(v) \/ Int32(v)
  PROVE  int32(v) \in Seq(Byte) /\ Len(int32(v)) = 4
<1>1. v \in Int
  BY FittingNumbers
<1> QED  BY SMT, <1>1, Int32Bytes

\* A number whose bytes are behind the a-th is read from there.
LEMMA NumberAt ==
  ASSUME NEW x \in Seq(Byte), NEW a \in Nat, a + 4 <= Len(x), NEW v, UInt32(v) \/ Int32(v),
         \A j \in 1..4 : x[a + j] = int32(v)[j]
  PROVE  /\ UInt32(v) => readUInt32(SubSeq(x, a + 1, a + 4)) = v
         /\ Int32(v) => readInt32(SubSeq(x, a + 1, a + 4)) = v
<1>1. v \in Int
  BY FittingNumbers
<1> DEFINE s == int32(v)
           t == SubSeq(x, a + 1, a + 4)
<1>2. s \in Seq(Byte) /\ Len(s) = 4
  BY FourBytes
<1>3. t \in Seq(Byte) /\ Len(t) = 4 /\ \A j \in 1..4 : t[j] = x[a + j]
  <2>1. Len(x) \in Nat /\ \A i \in 1..Len(x) : x[i] \in Byte
    BY LenProperties, ElementOfSeq
  <2>2. \A i \in (a + 1)..(a + 4) : x[i] \in Byte
    BY <2>1
  <2>3. /\ t = [i \in 1..4 |-> x[i + (a + 1) - 1]]
        /\ t \in Seq(Byte) /\ Len(t) = 4
    BY <2>1, <2>2
  <2>4. \A j \in 1..4 : j + (a + 1) - 1 = a + j
    OBVIOUS
  <2> HIDE DEF t
  <2> QED  BY <2>3, <2>4
<1> HIDE DEF s, t
<1>4. \A j \in 1..4 : t[j] = s[j]
  BY <1>3 DEF s
<1>5. s = t
  BY <1>2, <1>3, <1>4, SeqEqual
<1>6. UInt32(v) => readUInt32(t) = v
  BY <1>1, <1>5, FittingNumbers, UInt32RoundTrip DEF s
<1>7. Int32(v) => readInt32(t) = v
  BY <1>1, <1>5, FittingNumbers, Int32RoundTrip DEF s
<1> QED  BY <1>6, <1>7 DEF t

\* The bytes of v are those of x behind the a-th.
BytesAt(x, a, v) ==
  /\ x \in Seq(Byte) /\ a \in Nat /\ a + 4 <= Len(x)
  /\ \A j \in 1..4 : x[a + j] = int32(v)[j]

\* Such a number without a sign.
LEMMA UIntAt ==
  ASSUME NEW x, NEW a, NEW v, BytesAt(x, a, v), UInt32(v)
  PROVE  readUInt32(SubSeq(x, a + 1, a + 4)) = v
BY NumberAt DEF BytesAt

\* And one with a sign.
LEMMA IntAt ==
  ASSUME NEW x, NEW a, NEW v, BytesAt(x, a, v), Int32(v)
  PROVE  readInt32(SubSeq(x, a + 1, a + 4)) = v
BY NumberAt DEF BytesAt

\* The bytes of two sequences, one behind the other.
LEMMA Joint ==
  ASSUME NEW s \in Seq(Byte), NEW t \in Seq(Byte)
  PROVE  /\ s \o t \in Seq(Byte) /\ Len(s) \in Nat /\ Len(t) \in Nat
         /\ Len(s \o t) = Len(s) + Len(t)
         /\ \A i \in 1..Len(s) : (s \o t)[i] = s[i]
         /\ \A i \in 1..Len(t) : (s \o t)[Len(s) + i] = t[i]
<1>1. Len(s) \in Nat /\ Len(t) \in Nat
  BY LenProperties
<1>2. /\ s \o t \in Seq(Byte) /\ Len(s \o t) = Len(s) + Len(t)
      /\ \A i \in 1..(Len(s) + Len(t)) :
           (s \o t)[i] = IF i <= Len(s) THEN s[i] ELSE t[i - Len(s)]
  BY ConcatProperties
<1>3. \A i \in 1..Len(s) : i \in 1..(Len(s) + Len(t)) /\ i <= Len(s)
  BY <1>1
<1>4. \A i \in 1..Len(t) : /\ Len(s) + i \in 1..(Len(s) + Len(t)) /\ ~(Len(s) + i <= Len(s))
                           /\ (Len(s) + i) - Len(s) = i
  BY <1>1
<1> QED  BY <1>1, <1>2, <1>3, <1>4

\* A byte is written as it is.
LEMMA ByteWritten ==
  ASSUME NEW v \in Byte
  PROVE  uint8(v) = <<v>>
BY DEF uint8, Byte

\* A byte.
LEMMA ByteField ==
  ASSUME NEW v \in Byte
  PROVE  OneField("enum", v, uint8(v))
<1> DEFINE p == uint8(v)
<1>1. p = <<v>>
  BY DEF uint8, Byte
<1>2. p \in Seq(Byte) /\ Len(p) = 1 /\ p[1] = v
  BY <1>1
<1> HIDE DEF p
<1>3. ASSUME NEW d \in Seq(Byte)
      PROVE  field("enum", p \o d) = [value |-> v, size |-> Len(p)]
  <2>1. (p \o d)[1] = v
    BY <1>2, Joint
  <2> DEFINE e == p \o d
  <2> HIDE DEF e
  <2>2. field("enum", e) = [value |-> e[1], size |-> 1]
    BY DEF field
  <2> QED  BY <1>2, <2>1, <2>2 DEF e
<1> QED  BY <1>2, <1>3 DEF OneField, p

\* A truth value.
LEMMA BoolField ==
  ASSUME NEW v \in BOOLEAN
  PROVE  OneField("bool", v, bool(v))
<1> DEFINE p == bool(v)
<1>1. p \in Seq(Byte) /\ Len(p) = 1 /\ ((p[1] # 0) = v)
  <2>1. CASE v
    <3>1. p = <<1>>
      BY <2>1 DEF bool
    <3>2. <<1>> \in Seq(Byte) /\ Len(<<1>>) = 1 /\ <<1>>[1] # 0
      BY DEF Byte
    <3> QED  BY <2>1, <3>1, <3>2
  <2>2. CASE ~v
    <3>1. p = <<0>>
      BY <2>2 DEF bool
    <3>2. <<0>> \in Seq(Byte) /\ Len(<<0>>) = 1 /\ <<0>>[1] = 0
      BY DEF Byte
    <3> QED  BY <2>2, <3>1, <3>2
  <2> QED  BY <2>1, <2>2
<1> HIDE DEF p
<1>2. ASSUME NEW d \in Seq(Byte)
      PROVE  field("bool", p \o d) = [value |-> v, size |-> Len(p)]
  <2>1. (p \o d)[1] = p[1]
    BY <1>1, Joint
  <2> DEFINE e == p \o d
  <2> HIDE DEF e
  <2>2. field("bool", e) = [value |-> e[1] # 0, size |-> 1]
    BY DEF field, readBool
  <2> QED  BY <1>1, <2>1, <2>2 DEF e
<1> QED  BY <1>1, <1>2 DEF OneField, p

\* A number without a sign, at the front of what follows it.
LEMMA UIntField ==
  ASSUME NEW v, UInt32(v)
  PROVE  OneField("uint32", v, int32(v))
<1> DEFINE p == int32(v)
<1>1. p \in Seq(Byte) /\ Len(p) = 4
  BY FourBytes
<1> HIDE DEF p
<1>2. ASSUME NEW d \in Seq(Byte)
      PROVE  field("uint32", p \o d) = [value |-> v, size |-> Len(p)]
  <2> DEFINE e == p \o d
  <2>1. e \in Seq(Byte) /\ 0 + 4 <= Len(e) /\ \A j \in 1..4 : e[0 + j] = p[j]
    <3>1. /\ e \in Seq(Byte) /\ Len(e) = Len(p) + Len(d) /\ Len(d) \in Nat
          /\ \A j \in 1..Len(p) : e[j] = p[j]
      BY <1>1, Joint
    <3> HIDE DEF e
    <3>2. \A j \in 1..4 : 0 + j = j
      OBVIOUS
    <3> QED  BY <1>1, <3>1, <3>2
  <2> HIDE DEF e
  <2>2. readUInt32(SubSeq(e, 0 + 1, 0 + 4)) = v
    <3>1. BytesAt(e, 0, v)
      BY <2>1 DEF BytesAt, p
    <3> QED  BY <3>1, UIntAt
  <2>3. field("uint32", e) = [value |-> readUInt32(SubSeq(e, 1, 1 + 3)), size |-> 4]
    BY DEF field
  <2>4. 0 + 1 = 1 /\ 0 + 4 = 1 + 3
    OBVIOUS
  <2> QED  BY <1>1, <2>2, <2>3, <2>4 DEF e
<1> QED  BY <1>1, <1>2 DEF OneField, p

\* A number with its sign.
LEMMA IntField ==
  ASSUME NEW v, Int32(v)
  PROVE  OneField("int32", v, int32(v))
<1> DEFINE p == int32(v)
<1>1. p \in Seq(Byte) /\ Len(p) = 4 /\ readInt32(p) = v
  <2>1. v \in Int /\ IsInt32(v)
    BY FittingNumbers
  <2>2. readInt32(p) = v
    BY <2>1, Int32RoundTrip
  <2>3. p \in Seq(Byte) /\ Len(p) = 4
    BY FourBytes
  <2> QED  BY <2>2, <2>3
<1> HIDE DEF p
<1>2. ASSUME NEW d \in Seq(Byte)
      PROVE  field("int32", p \o d) = [value |-> v, size |-> Len(p)]
  <2> DEFINE e == p \o d
  <2>1. e[1] = p[1] /\ e[2] = p[2] /\ e[3] = p[3] /\ e[4] = p[4]
    <3>1. \A j \in 1..Len(p) : e[j] = p[j]
      BY <1>1, Joint
    <3> HIDE DEF e
    <3> QED  BY <1>1, <3>1
  <2> HIDE DEF e
  <2>2. readInt32(e) = readInt32(p)
    BY <2>1 DEF readInt32
  <2>3. field("int32", e) = [value |-> readInt32(e), size |-> 4]
    BY DEF field
  <2> QED  BY <1>1, <2>2, <2>3 DEF e
<1> QED  BY <1>1, <1>2 DEF OneField, p

\* A token: two numbers of 32 bits.
LEMMA TokenField ==
  ASSUME NEW v, UInt32(v), NEW w, UInt32(w)
  PROVE  OneField("uint64", <<v, w>>, int32(v) \o int32(w))
<1> DEFINE p == int32(v)
           q == int32(w)
           r == p \o q
<1>1. p \in Seq(Byte) /\ Len(p) = 4 /\ q \in Seq(Byte) /\ Len(q) = 4
  BY FourBytes
<1> HIDE DEF p, q
<1>2. /\ r \in Seq(Byte) /\ Len(r) = 8
      /\ \A j \in 1..4 : r[j] = p[j]
      /\ \A j \in 1..4 : r[4 + j] = q[j]
  <2>1. /\ r \in Seq(Byte) /\ Len(r) = Len(p) + Len(q)
        /\ \A j \in 1..Len(p) : r[j] = p[j]
        /\ \A j \in 1..Len(q) : r[Len(p) + j] = q[j]
    BY <1>1, Joint
  <2> HIDE DEF r
  <2> QED  BY <1>1, <2>1
<1> HIDE DEF r
<1>3. ASSUME NEW d \in Seq(Byte)
      PROVE  field("uint64", r \o d) = [value |-> <<v, w>>, size |-> Len(r)]
  <2> DEFINE e == r \o d
  <2>1. e \in Seq(Byte) /\ Len(e) >= 8 /\ Len(e) \in Nat /\ \A j \in 1..8 : e[j] = r[j]
    <3>1. /\ e \in Seq(Byte) /\ Len(e) = Len(r) + Len(d) /\ Len(d) \in Nat
          /\ \A j \in 1..Len(r) : e[j] = r[j]
      BY <1>2, Joint
    <3> HIDE DEF e
    <3> QED  BY <1>2, <3>1
  <2> HIDE DEF e
  <2>2. readUInt32(SubSeq(e, 0 + 1, 0 + 4)) = v
    <3>1. 0 + 4 <= Len(e) /\ \A j \in 1..4 : e[0 + j] = p[j]
      BY <1>2, <2>1
    <3>2. BytesAt(e, 0, v)
      BY <2>1, <3>1 DEF BytesAt, p
    <3> QED  BY <3>2, UIntAt
  <2>3. readUInt32(SubSeq(e, 4 + 1, 4 + 4)) = w
    <3>1. 4 + 4 <= Len(e) /\ \A j \in 1..4 : e[4 + j] = q[j]
      BY <1>2, <2>1
    <3>2. BytesAt(e, 4, w)
      BY <2>1, <3>1 DEF BytesAt, q
    <3> QED  BY <3>2, UIntAt
  <2>4. field("uint64", e) = [value |-> <<readUInt32(SubSeq(e, 1, 1 + 3)),
                                          readUInt32(SubSeq(e, 5, 5 + 3))>>, size |-> 8]
    BY DEF field
  <2>5. 0 + 1 = 1 /\ 0 + 4 = 1 + 3 /\ 4 + 1 = 5 /\ 4 + 4 = 5 + 3
    OBVIOUS
  <2> QED  BY <1>2, <2>2, <2>3, <2>4, <2>5 DEF e
<1> QED  BY <1>2, <1>3 DEF OneField, r, p, q

\* A string: its length and its bytes.
LEMMA StringField ==
  ASSUME NEW s \in Seq(Byte), UInt32(Len(s))
  PROVE  OneField("string", s, string(s))
<1> DEFINE n == Len(s)
           p == int32(n)
           r == p \o s
<1>1. p \in Seq(Byte) /\ Len(p) = 4 /\ n \in Nat
  BY LenProperties, FourBytes
<1> HIDE DEF p
<1>2. r \in Seq(Byte) /\ Len(r) = 4 + n /\ \A j \in 1..4 : r[j] = p[j]
  <2>1. r \in Seq(Byte) /\ Len(r) = Len(p) + Len(s) /\ \A j \in 1..Len(p) : r[j] = p[j]
    BY <1>1, Joint
  <2> HIDE DEF r
  <2> QED  BY <1>1, <2>1
<1>3. ASSUME NEW d \in Seq(Byte)
      PROVE  field("string", r \o d) = [value |-> s, size |-> Len(r)]
  <2> DEFINE e == r \o d
  <2>1. e \in Seq(Byte) /\ Len(e) \in Nat /\ 0 + 4 <= Len(e) /\ \A j \in 1..4 : e[0 + j] = p[j]
    <3>1. e \in Seq(Byte) /\ Len(e) = Len(r) + Len(d) /\ Len(d) \in Nat
          /\ \A j \in 1..Len(r) : e[j] = r[j]
      BY <1>2, Joint
    <3> HIDE DEF r, e
    <3>2. \A j \in 1..4 : 0 + j = j /\ j \in 1..(4 + n)
      BY <1>1
    <3> QED  BY <1>1, <1>2, <3>1, <3>2
  <2>2. SubSeq(e, 5, 4 + n) = s
    <3>1. s \o d \in Seq(Byte) /\ e = p \o (s \o d)
      <4>1. s \o d \in Seq(Byte)
        BY Joint
      <4>2. (p \o s) \o d = p \o (s \o d)
        BY <1>1, ConcatAssociative
      <4> QED  BY <4>1, <4>2
    <3>2. CASE n = 0
      <4>1. s = <<>>
        BY <3>2
      <4> HIDE DEF e
      <4>2. SubSeq(e, 5, 4) = <<>>
        BY <2>1, SubSeqEmpty
      <4> QED  BY <3>2, <4>1, <4>2
    <3>3. CASE n > 0
      <4> DEFINE x == s \o d
      <4>1. Len(x) = n + Len(d) /\ Len(d) \in Nat
        BY Joint
      <4>2. SubSeq(x, 1, n) = s
        BY <3>3, FirstPart
      <4> HIDE DEF x, n
      <4>3. 5 \in (4 + 1)..(4 + Len(x)) /\ 4 + n \in (4 + 1)..(4 + Len(x))
        BY <1>1, <3>3, <4>1
      <4>6. p \in Seq(Byte) /\ x \in Seq(Byte) /\ Len(p) = 4
        BY <1>1, <3>1 DEF x
      <4>4. SubSeq(p \o x, 5, 4 + n) = SubSeq(x, 5 - 4, (4 + n) - 4)
        <5> DEFINE a == 4 + n
        <5>1. 5 \in (Len(p) + 1)..(Len(p) + Len(x)) /\ a \in (Len(p) + 1)..(Len(p) + Len(x))
          BY <4>3, <4>6
        <5> HIDE DEF a
        <5>2. SubSeq(p \o x, 5, a) = SubSeq(x, 5 - Len(p), a - Len(p))
          BY <4>6, <5>1, SubSeqOfConcat2
        <5> QED  BY <4>6, <5>2 DEF a
      <4>5. 5 - 4 = 1 /\ (4 + n) - 4 = n
        BY <1>1
      <4> QED  BY <3>1, <4>2, <4>4, <4>5 DEF x
    <3> HIDE DEF e, n
    <3> QED  BY <1>1, <3>2, <3>3
  <2> HIDE DEF e, r
  <2>3. readUInt32(SubSeq(e, 0 + 1, 0 + 4)) = n
    <3>1. BytesAt(e, 0, n)
      BY <2>1 DEF BytesAt, p
    <3> QED  BY <3>1, UIntAt
  <2>4. field("string", e) = [value |-> SubSeq(e, 5, 4 + readUInt32(SubSeq(e, 1, 1 + 3))),
                              size |-> 4 + readUInt32(SubSeq(e, 1, 1 + 3))]
    BY DEF field
  <2>5. 0 + 1 = 1 /\ 0 + 4 = 1 + 3
    OBVIOUS
  <2>6. field("string", e) = [value |-> s, size |-> 4 + n]
    BY <2>2, <2>3, <2>4, <2>5
  <2> QED  BY <1>2, <2>6 DEF e
<1>4. string(s) = r
  BY DEF string, p
<1> QED  BY <1>2, <1>3, <1>4 DEF OneField
-----------------------------------------------------------------------------
(* Lists of equal parts *)

\* G[i] is the first i of the parts, each of m bytes, one behind the other.
Joined(parts, m, n, G) ==
  /\ G \in [1..n -> Seq(Byte)]
  /\ \A i \in 1..n :
       /\ G[i] = IF i = 1 THEN parts[i] ELSE G[i - 1] \o parts[i]
       /\ Len(G[i]) = m * i
       /\ \A k \in 1..i, j \in 1..m : G[i][m * (k - 1) + j] = parts[k][j]

\* The parts are sequences of m bytes.
EqualParts(parts, m) ==
  /\ m \in {4, 8} /\ Len(parts) \in Nat
  /\ \A i \in 1..Len(parts) : parts[i] \in Seq(Byte) /\ Len(parts[i]) = m

\* Where the parts are: the arithmetic of the two widths.
LEMMA Places ==
  ASSUME NEW m \in {4, 8}
  PROVE  /\ m * 1 = m /\ m * 0 = 0 /\ m \in Nat
         /\ \A i \in Nat : m * i \in Nat /\ m * (i + 1) = m * i + m
         /\ \A i \in Nat : \A k \in 1..i, j \in 1..m : m * (k - 1) + j \in 1..(m * i)
<1>1. CASE m = 4
  BY <1>1
<1>2. CASE m = 8
  BY <1>2
<1> QED  BY <1>1, <1>2

\* One more part.
LEMMA JoinedLonger ==
  ASSUME NEW parts, NEW m, EqualParts(parts, m), NEW n \in Nat, n + 1 <= Len(parts),
         n # 0, NEW G, Joined(parts, m, n, G)
  PROVE  \E H : Joined(parts, m, n + 1, H)
<1> DEFINE q == parts[n + 1]
           h == G[n] \o q
           H == [i \in 1..(n + 1) |-> IF i <= n THEN G[i] ELSE h]
<1>1. m \in {4, 8} /\ m \in Nat /\ Len(parts) \in Nat
  BY DEF EqualParts
<1>2. q \in Seq(Byte) /\ Len(q) = m
  <2>1. n + 1 \in 1..Len(parts)
    BY <1>1
  <2> QED  BY <2>1 DEF EqualParts
<1> HIDE DEF q
<1>3. n \in 1..n
  OBVIOUS
<1>4. /\ G \in [1..n -> Seq(Byte)] /\ G[n] \in Seq(Byte) /\ Len(G[n]) = m * n
      /\ \A k \in 1..n, j \in 1..m : G[n][m * (k - 1) + j] = parts[k][j]
  BY <1>3 DEF Joined
<1>5. m * n \in Nat /\ m * (n + 1) = m * n + m
  BY <1>1, Places
<1>6. /\ h \in Seq(Byte) /\ Len(h) = m * (n + 1)
      /\ \A i \in 1..(m * n) : h[i] = G[n][i]
      /\ \A j \in 1..m : h[m * n + j] = q[j]
  <2> DEFINE s == G[n]
  <2>1. /\ h \in Seq(Byte) /\ Len(h) = Len(s) + Len(q)
        /\ \A i \in 1..Len(s) : h[i] = s[i]
        /\ \A j \in 1..Len(q) : h[Len(s) + j] = q[j]
    BY <1>2, <1>4, Joint
  <2> HIDE DEF h
  <2> QED  BY <1>2, <1>4, <1>5, <2>1
<1>7. \A k \in 1..(n + 1), j \in 1..m : h[m * (k - 1) + j] = parts[k][j]
  <2> TAKE k \in 1..(n + 1), j \in 1..m
  <2> HIDE DEF h
  <2>1. CASE k \in 1..n
    <3>1. m * (k - 1) + j \in 1..(m * n)
      BY <1>1, <2>1, Places
    <3> QED  BY <1>4, <1>6, <2>1, <3>1
  <2>2. CASE k = n + 1
    <3>1. k - 1 = n
      BY <2>2
    <3> QED  BY <1>6, <2>2, <3>1 DEF q
  <2>3. k \in 1..n \/ k = n + 1
    OBVIOUS
  <2> QED  BY <2>1, <2>2, <2>3
<1>8. /\ H \in [1..(n + 1) -> Seq(Byte)] /\ H[n + 1] = h
      /\ \A i \in 1..n : H[i] = G[i]
  <2> HIDE DEF h
  <2> QED  BY <1>4, <1>6
<1>9. ASSUME NEW i \in 1..(n + 1)
      PROVE  /\ H[i] = IF i = 1 THEN parts[i] ELSE H[i - 1] \o parts[i]
             /\ Len(H[i]) = m * i
             /\ \A k \in 1..i, j \in 1..m : H[i][m * (k - 1) + j] = parts[k][j]
  <2> HIDE DEF H
  <2>1. CASE i \in 1..n
    <3>1. i = 1 \/ i - 1 \in 1..n
      BY <2>1
    <3>2. /\ G[i] = IF i = 1 THEN parts[i] ELSE G[i - 1] \o parts[i]
          /\ Len(G[i]) = m * i
          /\ \A k \in 1..i, j \in 1..m : G[i][m * (k - 1) + j] = parts[k][j]
      BY <2>1 DEF Joined
    <3>3. H[i] = IF i = 1 THEN parts[i] ELSE H[i - 1] \o parts[i]
      BY <1>8, <2>1, <3>1, <3>2
    <3>4. H[i] = G[i]
      BY <1>8, <2>1
    <3> QED  BY <3>2, <3>3, <3>4
  <2>2. CASE i = n + 1
    <3>1. i # 1 /\ i - 1 = n
      BY <2>2
    <3>2. H[i - 1] \o parts[i] = h
      BY <1>3, <1>8, <2>2, <3>1 DEF q, h
    <3>3. H[i] = h
      BY <1>8, <2>2
    <3> HIDE DEF h
    <3> QED  BY <1>6, <1>7, <2>2, <3>1, <3>2, <3>3
  <2>3. i \in 1..n \/ i = n + 1
    OBVIOUS
  <2> QED  BY <2>1, <2>2, <2>3
<1> HIDE DEF H
<1>10. Joined(parts, m, n + 1, H)
  BY <1>8, <1>9 DEF Joined
<1> QED  BY <1>10

\* Any number of parts can be joined.
LEMMA PartsJoined ==
  ASSUME NEW parts, NEW m, EqualParts(parts, m), NEW n \in 1..Len(parts)
  PROVE  \E G : Joined(parts, m, n, G)
<1> DEFINE bad == {k \in 1..Len(parts) : ~ \E G : Joined(parts, m, k, G)}
<1>1. Len(parts) \in Nat /\ m \in {4, 8} /\ m \in Nat
  BY DEF EqualParts
<1>2. 1 \notin bad
  <2> DEFINE G == [i \in 1..1 |-> parts[1]]
  <2>1. 1 \in 1..Len(parts)
    BY <1>1
  <2>2. parts[1] \in Seq(Byte) /\ Len(parts[1]) = m
    BY <2>1 DEF EqualParts
  <2>3. G \in [1..1 -> Seq(Byte)] /\ G[1] = parts[1]
    BY <2>2
  <2> HIDE DEF G
  <2>4. m * 1 = m /\ \A j \in 1..m : m * (1 - 1) + j = j
    BY <1>1
  <2>5. ASSUME NEW i \in 1..1
        PROVE  /\ G[i] = IF i = 1 THEN parts[i] ELSE G[i - 1] \o parts[i]
               /\ Len(G[i]) = m * i
               /\ \A k \in 1..i, j \in 1..m : G[i][m * (k - 1) + j] = parts[k][j]
    <3>1. i = 1
      OBVIOUS
    <3>2. \A k \in 1..i, j \in 1..m : G[i][m * (k - 1) + j] = parts[k][j]
      <4> TAKE k \in 1..i, j \in 1..m
      <4>1. k = 1
        BY <3>1
      <4> QED  BY <2>3, <2>4, <3>1, <4>1
    <3> QED  BY <2>2, <2>3, <2>4, <3>1, <3>2
  <2>6. Joined(parts, m, 1, G)
    BY <2>3, <2>5 DEF Joined
  <2> QED  BY <2>6
<1>3. bad = {}
  <2> SUFFICES ASSUME bad # {}
               PROVE  FALSE
    OBVIOUS
  <2>1. PICK k \in bad : \A j \in bad : k <= j
    <3>1. bad \in SUBSET Nat
      BY <1>1
    <3> HIDE DEF bad
    <3> QED  BY <3>1, SmallestOf
  <2>2. k \in 1..Len(parts) /\ k # 1 /\ ~ \E G : Joined(parts, m, k, G)
    BY <1>2, <2>1
  <2>3. k - 1 \in 1..Len(parts) /\ ~(k <= k - 1) /\ k - 1 \in Nat /\ k - 1 # 0
        /\ (k - 1) + 1 = k /\ (k - 1) + 1 <= Len(parts)
    BY <1>1, <2>2
  <2>4. PICK G : Joined(parts, m, k - 1, G)
    BY <2>1, <2>3
  <2> DEFINE l == k - 1
  <2>5. l \in Nat /\ l + 1 <= Len(parts) /\ l # 0 /\ Joined(parts, m, l, G) /\ l + 1 = k
    BY <2>3, <2>4
  <2> HIDE DEF l
  <2>6. \E H : Joined(parts, m, l + 1, H)
    BY <2>5, JoinedLonger
  <2> QED  BY <2>2, <2>5, <2>6
<1> QED  BY <1>3

\* FlattenSeq puts equal parts where their places are.
LEMMA PartsFlattened ==
  ASSUME NEW parts \in Seq(Seq(Byte)), NEW m, EqualParts(parts, m)
  PROVE  /\ FlattenSeq(parts) \in Seq(Byte) /\ Len(FlattenSeq(parts)) = m * Len(parts)
         /\ \A k \in 1..Len(parts), j \in 1..m :
              FlattenSeq(parts)[m * (k - 1) + j] = parts[k][j]
<1> DEFINE n == Len(parts)
<1>1. n \in Nat /\ m \in {4, 8}
  BY DEF EqualParts
<1>2. CASE n = 0
  <2>1. parts = <<>>
    BY <1>2
  <2>2. FlattenSeq(parts) = parts
    BY <1>2 DEF FlattenSeq
  <2>3. m * n = 0
    BY <1>1, <1>2, Places
  <2>4. parts \in Seq(Byte)
    BY <2>1, EmptySeq
  <2> QED  BY <1>2, <2>2, <2>3, <2>4
<1>3. CASE n # 0
  <2> DEFINE is(g) == g = [i \in 1..n |-> IF i = 1 THEN parts[i] ELSE g[i - 1] \o parts[i]]
             e == CHOOSE g : is(g)
  <2>1. n \in 1..n
    BY <1>1, <1>3
  <2>2. PICK G : Joined(parts, m, n, G)
    BY <2>1, PartsJoined
  <2>3. /\ G \in [1..n -> Seq(Byte)] /\ Len(G[n]) = m * n
        /\ \A i \in 1..n : G[i] = IF i = 1 THEN parts[i] ELSE G[i - 1] \o parts[i]
        /\ \A k \in 1..n, j \in 1..m : G[n][m * (k - 1) + j] = parts[k][j]
    BY <2>1, <2>2 DEF Joined
  <2>4. is(G)
    BY <2>3
  <2>5. FlattenSeq(parts) = e[n]
    BY <1>3 DEF FlattenSeq
  <2> HIDE DEF is
  <2>6. is(e)
    BY <2>4
  <2> HIDE DEF e
  <2>7. \A i \in 1..n : e[i] = IF i = 1 THEN parts[i] ELSE e[i - 1] \o parts[i]
    BY <2>6 DEF is
  <2> DEFINE bad == {i \in 1..n : e[i] # G[i]}
  <2>8. bad = {}
    <3> SUFFICES ASSUME bad # {}
                 PROVE  FALSE
      OBVIOUS
    <3>1. PICK k \in bad : \A j \in bad : k <= j
      <4>1. bad \in SUBSET Nat
        BY <1>1
      <4> HIDE DEF bad
      <4> QED  BY <4>1, SmallestOf
    <3>2. k \in 1..n /\ e[k] # G[k]
      BY <3>1
    <3>3. k # 1
      BY <2>3, <2>7, <3>2
    <3>4. k - 1 \in 1..n /\ ~(k <= k - 1)
      BY <1>1, <3>2, <3>3
    <3>5. e[k - 1] = G[k - 1]
      BY <3>1, <3>4
    <3>6. e[k] = G[k]
      <4>1. e[k] = e[k - 1] \o parts[k]
        BY <2>7, <3>2, <3>3
      <4>2. G[k] = G[k - 1] \o parts[k]
        BY <2>3, <3>2, <3>3
      <4> QED  BY <3>5, <4>1, <4>2
    <3> QED  BY <3>2, <3>6
  <2>9. FlattenSeq(parts) = G[n] /\ G[n] \in Seq(Byte)
    BY <2>1, <2>3, <2>5, <2>8
  <2> QED  BY <2>3, <2>9
<1> QED  BY <1>2, <1>3
\* The bytes x begin with the list of n parts of m bytes, behind its length.
ListAt(x, n, parts, m) ==
  /\ x \in Seq(Byte) /\ Len(x) \in Nat /\ Len(x) >= 1 + m * n
  /\ x[1] = n
  /\ \A k \in 1..n, j \in 1..m : x[1 + m * (k - 1) + j] = parts[k][j]

\* So do a list that is written, and anything behind it.
LEMMA ListBytes ==
  ASSUME NEW parts \in Seq(Seq(Byte)), NEW m, EqualParts(parts, m), Len(parts) \in Byte,
         NEW r, r = uint8(Len(parts)) \o FlattenSeq(parts)
  PROVE  /\ r \in Seq(Byte) /\ Len(r) = 1 + m * Len(parts)
         /\ \A d \in Seq(Byte) : ListAt(r \o d, Len(parts), parts, m)
<1> SUFFICES ASSUME NEW d \in Seq(Byte)
             PROVE  /\ r \in Seq(Byte) /\ Len(r) = 1 + m * Len(parts)
                    /\ ListAt(r \o d, Len(parts), parts, m)
  <2>1. <<>> \in Seq(Byte)
    BY EmptySeq
  <2> QED  BY <2>1
<1> DEFINE n == Len(parts)
           h == uint8(n)
           F == FlattenSeq(parts)
           g == h \o F
           x == g \o d
<1>1. h \in Seq(Byte) /\ Len(h) = 1 /\ h[1] = n
  <2>1. h = <<n>>
    BY ByteWritten
  <2> HIDE DEF h, n
  <2>2. n \in Byte
    BY DEF n
  <2> QED  BY <2>1, <2>2
<1>2. m \in {4, 8} /\ n \in Nat
  BY DEF EqualParts, Byte
<1>3. /\ F \in Seq(Byte) /\ Len(F) = m * n
      /\ \A k \in 1..n, j \in 1..m : F[m * (k - 1) + j] = parts[k][j]
  BY PartsFlattened
<1> HIDE DEF n
<1>4. m * n \in Nat
  BY <1>2, Places
<1> HIDE DEF h, F
<1>5. /\ g \in Seq(Byte) /\ Len(g) = Len(h) + Len(F)
      /\ \A i \in 1..Len(h) : g[i] = h[i]
      /\ \A i \in 1..Len(F) : g[Len(h) + i] = F[i]
  BY <1>1, <1>3, Joint
<1> HIDE DEF g
<1>6. /\ x \in Seq(Byte) /\ Len(d) \in Nat /\ Len(x) = Len(g) + Len(d)
      /\ \A i \in 1..Len(g) : x[i] = g[i]
  BY <1>5, Joint
<1> HIDE DEF x
<1> DEFINE w == m * n
<1>7. w \in Nat /\ Len(F) = w
  BY <1>3, <1>4
<1>8. \A k \in 1..n, j \in 1..m : m * (k - 1) + j \in 1..w
  BY <1>2, Places
<1> HIDE DEF w
<1>9. /\ Len(g) = 1 + w /\ Len(x) \in Nat /\ Len(x) >= 1 + w
      /\ x[1] = n
      /\ \A i \in 1..w : x[1 + i] = F[i]
  <2>1. Len(g) = 1 + w
    BY <1>1, <1>5, <1>7
  <2>2. 1 \in 1..Len(g) /\ \A i \in 1..w : 1 + i \in 1..Len(g)
    BY <1>7, <2>1
  <2>3. g[1] = n /\ \A i \in 1..w : g[1 + i] = F[i]
    BY <1>1, <1>5, <1>7
  <2> QED  BY <1>6, <1>7, <2>1, <2>2, <2>3
<1>10. \A k \in 1..n, j \in 1..m : x[1 + m * (k - 1) + j] = parts[k][j]
  <2> TAKE k \in 1..n, j \in 1..m
  <2> DEFINE i == m * (k - 1) + j
  <2>1. i \in 1..w /\ F[i] = parts[k][j]
    BY <1>3, <1>8
  <2>2. 1 + m * (k - 1) + j = 1 + i
    <3>1. m * (k - 1) \in Int
      BY <1>2
    <3> DEFINE y == m * (k - 1)
    <3>2. y \in Int /\ j \in Int
      BY <1>2, <3>1
    <3> HIDE DEF y
    <3>3. 1 + y + j = 1 + (y + j)
      BY <3>2
    <3> QED  BY <3>3 DEF y
  <2> HIDE DEF i
  <2> QED  BY <1>9, <2>1, <2>2
<1>11. ListAt(x, n, parts, m)
  BY <1>6, <1>9, <1>10 DEF ListAt, w
<1>12. r = g
  BY DEF g, h, F, n
<1>13. g \in Seq(Byte) /\ Len(g) = 1 + m * n
  BY <1>5, <1>9 DEF w
<1> QED  BY <1>11, <1>12, <1>13 DEF x, n

\* Numbered parts are a sequence.
LEMMA PartsAreASequence ==
  ASSUME NEW n \in Nat, NEW f \in [1..n -> Seq(Byte)]
  PROVE  f \in Seq(Seq(Byte)) /\ Len(f) = n
OBVIOUS

\* A list of identifiers.
LEMMA IdsField ==
  ASSUME NEW l \in Seq(Nat), Len(l) \in Byte, \A i \in DOMAIN l : UInt32(l[i])
  PROVE  OneField("ids", l, uint8(Len(l)) \o FlattenSeq([i \in DOMAIN l |-> int32(l[i])]))
<1> DEFINE n == Len(l)
           parts == [i \in 1..n |-> int32(l[i])]
           r == uint8(n) \o FlattenSeq(parts)
<1>1. n \in Nat /\ n \in Byte /\ DOMAIN l = 1..n /\ l = [i \in 1..n |-> l[i]]
  BY DEF Byte
<1>2. \A i \in 1..n : UInt32(l[i]) /\ int32(l[i]) \in Seq(Byte) /\ Len(int32(l[i])) = 4
  BY <1>1, FourBytes
<1> HIDE DEF n
<1>3. /\ parts \in Seq(Seq(Byte)) /\ Len(parts) = n
      /\ \A i \in 1..n : parts[i] = int32(l[i])
  BY <1>1, <1>2
<1> HIDE DEF parts
<1>4. EqualParts(parts, 4)
  BY <1>1, <1>2, <1>3 DEF EqualParts
<1>5. /\ r \in Seq(Byte) /\ Len(r) = 1 + 4 * n
      /\ \A d \in Seq(Byte) : ListAt(r \o d, n, parts, 4)
  <2>1. Len(parts) \in Byte /\ r = uint8(Len(parts)) \o FlattenSeq(parts)
    BY <1>1, <1>3
  <2> HIDE DEF r
  <2>2. /\ r \in Seq(Byte) /\ Len(r) = 1 + 4 * Len(parts)
        /\ \A d \in Seq(Byte) : ListAt(r \o d, Len(parts), parts, 4)
    BY <1>3, <1>4, <2>1, ListBytes
  <2> QED  BY <1>3, <2>2
<1>6. ASSUME NEW d \in Seq(Byte)
      PROVE  field("ids", r \o d) = [value |-> l, size |-> Len(r)]
  <2> DEFINE x == r \o d
             at(i) == readUInt32(SubSeq(x, 4 * i - 2, (4 * i - 2) + 3))
  <2>1. /\ x \in Seq(Byte) /\ Len(x) \in Nat /\ Len(x) >= 1 + 4 * n /\ x[1] = n
        /\ \A k \in 1..n, j \in 1..4 : x[1 + 4 * (k - 1) + j] = parts[k][j]
    BY <1>5 DEF ListAt
  <2> HIDE DEF r, x
  <2>2. ASSUME NEW i \in 1..n
        PROVE  at(i) = l[i]
    <3> DEFINE a == 1 + 4 * (i - 1)
               v == l[i]
    <3>1. a \in Nat /\ a + 4 <= Len(x) /\ a + 1 = 4 * i - 2 /\ a + 4 = (4 * i - 2) + 3
      <4> DEFINE e == Len(x)
      <4>1. n \in Nat /\ e \in Nat /\ e >= 1 + 4 * n /\ i \in Nat /\ 1 <= i /\ i <= n
        BY <1>1, <2>1
      <4> HIDE DEF e
      <4>2. 4 * (i - 1) + 4 <= 4 * n
        BY <4>1
      <4> QED  BY <4>1, <4>2 DEF e
    <3>2. UInt32(v) /\ \A j \in 1..4 : x[a + j] = int32(v)[j]
      BY <1>2, <1>3, <2>1
    <3> HIDE DEF a, v
    <3>3. readUInt32(SubSeq(x, a + 1, a + 4)) = v
      <4>1. BytesAt(x, a, v)
        BY <2>1, <3>1, <3>2 DEF BytesAt
      <4> QED  BY <3>2, <4>1, UIntAt
    <3> QED  BY <3>1, <3>3 DEF v
  <2>3. field("ids", x) = [value |-> [i \in 1..x[1] |-> at(i)], size |-> 1 + 4 * x[1]]
    BY DEF field
  <2> HIDE DEF at
  <2>4. [i \in 1..n |-> at(i)] = [i \in 1..n |-> l[i]]
    BY <2>2
  <2> QED  BY <1>1, <1>5, <2>1, <2>3, <2>4 DEF x
<1>7. r = uint8(Len(l)) \o FlattenSeq([i \in DOMAIN l |-> int32(l[i])])
  BY <1>1 DEF r, n, parts
<1> QED  BY <1>5, <1>6, <1>7 DEF OneField

\* A list of seats: of each, its position and its identifier.
LEMMA SeatsField ==
  ASSUME NEW l \in Seq(Int \X Nat), Len(l) \in Byte,
         \A i \in DOMAIN l : Int32(l[i][1]) /\ UInt32(l[i][2])
  PROVE  OneField("seats", l, uint8(Len(l)) \o FlattenSeq([i \in DOMAIN l |-> seatAndId(l[i])]))
<1> DEFINE n == Len(l)
           parts == [i \in 1..n |-> seatAndId(l[i])]
           r == uint8(n) \o FlattenSeq(parts)
<1>1. n \in Nat /\ n \in Byte /\ DOMAIN l = 1..n /\ l = [i \in 1..n |-> l[i]]
  BY DEF Byte
<1>2. ASSUME NEW i \in 1..n
      PROVE  /\ Int32(l[i][1]) /\ UInt32(l[i][2])
             /\ seatAndId(l[i]) \in Seq(Byte) /\ Len(seatAndId(l[i])) = 8
             /\ \A j \in 1..4 : seatAndId(l[i])[j] = int32(l[i][1])[j]
             /\ \A j \in 1..4 : seatAndId(l[i])[4 + j] = int32(l[i][2])[j]
  <2> DEFINE p == int32(l[i][1])
             q == int32(l[i][2])
             s == p \o q
  <2>1. Int32(l[i][1]) /\ UInt32(l[i][2])
    BY <1>1
  <2>2. p \in Seq(Byte) /\ Len(p) = 4 /\ q \in Seq(Byte) /\ Len(q) = 4
    BY <2>1, FourBytes
  <2>3. seatAndId(l[i]) = s
    BY DEF seatAndId
  <2> HIDE DEF p, q
  <2>4. /\ s \in Seq(Byte) /\ Len(s) = Len(p) + Len(q)
        /\ \A j \in 1..Len(p) : s[j] = p[j]
        /\ \A j \in 1..Len(q) : s[Len(p) + j] = q[j]
    BY <2>2, Joint
  <2> HIDE DEF s
  <2>5. /\ Len(s) = 8 /\ \A j \in 1..4 : s[j] = p[j]
        /\ \A j \in 1..4 : s[4 + j] = q[j]
    BY <2>2, <2>4
  <2> QED  BY <2>1, <2>3, <2>4, <2>5 DEF p, q
<1> HIDE DEF n
<1>3. /\ parts \in Seq(Seq(Byte)) /\ Len(parts) = n
      /\ \A i \in 1..n : parts[i] = seatAndId(l[i])
  <2>1. \A i \in 1..n : seatAndId(l[i]) \in Seq(Byte)
    BY <1>2
  <2>2. parts \in [1..n -> Seq(Byte)] /\ \A i \in 1..n : parts[i] = seatAndId(l[i])
    BY <2>1
  <2> HIDE DEF parts
  <2>3. parts \in Seq(Seq(Byte)) /\ Len(parts) = n
    BY <1>1, <2>2, PartsAreASequence
  <2> QED  BY <2>2, <2>3
<1> HIDE DEF parts
<1>4. EqualParts(parts, 8)
  BY <1>1, <1>2, <1>3 DEF EqualParts
<1>5. /\ r \in Seq(Byte) /\ Len(r) = 1 + 8 * n
      /\ \A d \in Seq(Byte) : ListAt(r \o d, n, parts, 8)
  <2>1. Len(parts) \in Byte /\ r = uint8(Len(parts)) \o FlattenSeq(parts)
    BY <1>1, <1>3
  <2> HIDE DEF r
  <2>2. /\ r \in Seq(Byte) /\ Len(r) = 1 + 8 * Len(parts)
        /\ \A d \in Seq(Byte) : ListAt(r \o d, Len(parts), parts, 8)
    BY <1>3, <1>4, <2>1, ListBytes
  <2> QED  BY <1>3, <2>2
<1>6. ASSUME NEW d \in Seq(Byte)
      PROVE  field("seats", r \o d) = [value |-> l, size |-> Len(r)]
  <2> DEFINE x == r \o d
             at(i) == <<readInt32(SubSeq(x, 8 * i - 6, 8 * i - 3)),
                        readUInt32(SubSeq(x, 8 * i - 2, (8 * i - 2) + 3))>>
  <2>1. /\ x \in Seq(Byte) /\ Len(x) \in Nat /\ Len(x) >= 1 + 8 * n /\ x[1] = n
        /\ \A k \in 1..n, j \in 1..8 : x[1 + 8 * (k - 1) + j] = parts[k][j]
    BY <1>5 DEF ListAt
  <2> HIDE DEF r, x
  <2>2. ASSUME NEW i \in 1..n
        PROVE  at(i) = l[i]
    <3> DEFINE a == 1 + 8 * (i - 1)
               b == 1 + 8 * (i - 1) + 4
               v == l[i][1]
               w == l[i][2]
    <3>1. /\ a \in Nat /\ a + 4 <= Len(x) /\ a + 1 = 8 * i - 6 /\ a + 4 = 8 * i - 3
          /\ b \in Nat /\ b + 4 <= Len(x) /\ b + 1 = 8 * i - 2 /\ b + 4 = (8 * i - 2) + 3
          /\ b = a + 4
      <4> DEFINE e == Len(x)
      <4>1. n \in Nat /\ e \in Nat /\ e >= 1 + 8 * n /\ i \in Nat /\ 1 <= i /\ i <= n
        BY <1>1, <2>1
      <4> HIDE DEF e
      <4>2. 8 * (i - 1) + 8 <= 8 * n
        BY <4>1
      <4> QED  BY <4>1, <4>2 DEF e
    <3>2. Int32(v) /\ UInt32(w) /\ l[i] = <<v, w>>
      <4>1. l[i] \in Int \X Nat
        BY <1>1, ElementOfSeq
      <4>2. l[i] = <<l[i][1], l[i][2]>>
        BY <4>1
      <4> QED  BY <1>2, <4>2
    <3>3. \A j \in 1..8 : x[a + j] = seatAndId(l[i])[j]
      BY <1>3, <2>1
    <3> HIDE DEF a, b
    <3>4. \A j \in 1..4 : x[a + j] = int32(v)[j]
      <4> TAKE j \in 1..4
      <4>1. j \in 1..8
        OBVIOUS
      <4>2. x[a + j] = seatAndId(l[i])[j]
        BY <3>3, <4>1
      <4>3. seatAndId(l[i])[j] = int32(l[i][1])[j]
        BY <1>2
      <4> QED  BY <4>2, <4>3
    <3>5. \A j \in 1..4 : x[b + j] = int32(w)[j]
      <4> TAKE j \in 1..4
      <4>1. 4 + j \in 1..8 /\ b + j = a + (4 + j)
        BY <3>1
      <4> QED  BY <1>2, <3>3, <4>1
    <3> HIDE DEF v, w
    <3>6. readInt32(SubSeq(x, a + 1, a + 4)) = v
      <4>1. BytesAt(x, a, v)
        BY <2>1, <3>1, <3>4 DEF BytesAt
      <4> QED  BY <3>2, <4>1, IntAt
    <3>7. readUInt32(SubSeq(x, b + 1, b + 4)) = w
      <4>1. BytesAt(x, b, w)
        BY <2>1, <3>1, <3>5 DEF BytesAt
      <4> QED  BY <3>2, <4>1, UIntAt
    <3> QED  BY <3>1, <3>2, <3>6, <3>7
  <2>3. field("seats", x) = [value |-> [i \in 1..x[1] |-> at(i)], size |-> 1 + 8 * x[1]]
    BY DEF field
  <2> HIDE DEF at
  <2>4. [i \in 1..n |-> at(i)] = [i \in 1..n |-> l[i]]
    BY <2>2
  <2> QED  BY <1>1, <1>5, <2>1, <2>3, <2>4 DEF x
<1>7. r = uint8(Len(l)) \o FlattenSeq([i \in DOMAIN l |-> seatAndId(l[i])])
  BY <1>1 DEF r, n, parts
<1> QED  BY <1>5, <1>6, <1>7 DEF OneField
-----------------------------------------------------------------------------
(* The packets *)

\* The handlers of a type read the kinds ks, and no others.
ReadAs(t, ks) == \A h \in Handlers : h[1] = t => h[2] = ks

\* Whatever reads the packet p reads the values w.
Agreed(p, w) ==
  \A h \in Handlers : h[1] = p.type => p \in PacketSet /\ Fields(h[2], w, p.data)

\* The numbers of the types that are read.
LEMMA TypeNumbers ==
  /\ PacketType.Hello = 128
  /\ PacketType.Welcome = 1
  /\ PacketType.NotifyPlayerConnected = 2
  /\ PacketType.NotifyPlayerReconnected = 3
  /\ PacketType.ServerDisconnect = 5
  /\ PacketType.NotifyPlayerDisconnected = 4
  /\ PacketType.NotifyPlayerNicknameChanged = 7
  /\ PacketType.NotifyConnectionWithPlayerLost = 6
  /\ PacketType.SeatPositionsChangeRequest = 132
  /\ PacketType.SeatPositionsSwapRequest = 133
  /\ PacketType.NotifySeatPositionsChanged = 8
  /\ PacketType.NotifySeatPositionsSwapped = 9
  /\ PacketType.PlayersPerGameChangeRequest = 134
  /\ PacketType.NotifyPlayersPerGameChanged = 10
  /\ PacketType.LobbyOpenStateChangeRequest = 135
  /\ PacketType.NotifyLobbyOpenStateChanged = 11
  /\ PacketType.SnapshotBegin = 80
  /\ PacketType.SnapshotEnd = 81
  /\ PacketType.SnapshotLobbySettings = 82
  /\ PacketType.SnapshotLobbyPlayerInfo = 83
  /\ PacketType.SnapshotLobbySeatPositions = 84
  /\ PacketType.SnapshotLobbyQueuePositions = 85
BY DEF PacketType

\* Every type has one handler.
LEMMA HandlerKinds ==
  /\ PacketType.Hello \in Byte /\ ReadAs(PacketType.Hello, onHelloPacket)
  /\ PacketType.Welcome \in Byte /\ ReadAs(PacketType.Welcome, onWelcomePacket)
  /\ PacketType.NotifyPlayerConnected \in Byte
  /\ ReadAs(PacketType.NotifyPlayerConnected, onNotifyPlayerConnectedPacket)
  /\ PacketType.NotifyPlayerReconnected \in Byte
  /\ ReadAs(PacketType.NotifyPlayerReconnected, onNotifyPlayerReconnectedPacket)
  /\ PacketType.ServerDisconnect \in Byte
  /\ ReadAs(PacketType.ServerDisconnect, onServerDisconnectPacket)
  /\ PacketType.NotifyPlayerDisconnected \in Byte
  /\ ReadAs(PacketType.NotifyPlayerDisconnected, onNotifyPlayerDisconnectedPacket)
  /\ PacketType.NotifyPlayerNicknameChanged \in Byte
  /\ ReadAs(PacketType.NotifyPlayerNicknameChanged, onNotifyPlayerNicknameChangedPacket)
  /\ PacketType.NotifyConnectionWithPlayerLost \in Byte
  /\ ReadAs(PacketType.NotifyConnectionWithPlayerLost, onNotifyConnectionWithPlayerLostPacket)
  /\ PacketType.SeatPositionsChangeRequest \in Byte
  /\ ReadAs(PacketType.SeatPositionsChangeRequest, onSeatPositionsChangeRequestPacket)
  /\ PacketType.SeatPositionsSwapRequest \in Byte
  /\ ReadAs(PacketType.SeatPositionsSwapRequest, onSeatPositionsSwapRequestPacket)
  /\ PacketType.NotifySeatPositionsChanged \in Byte
  /\ ReadAs(PacketType.NotifySeatPositionsChanged, onNotifySeatPositionsChangedPacket)
  /\ PacketType.NotifySeatPositionsSwapped \in Byte
  /\ ReadAs(PacketType.NotifySeatPositionsSwapped, onNotifySeatPositionsSwappedPacket)
  /\ PacketType.PlayersPerGameChangeRequest \in Byte
  /\ ReadAs(PacketType.PlayersPerGameChangeRequest, onPlayersPerGameChangeRequestPacket)
  /\ PacketType.NotifyPlayersPerGameChanged \in Byte
  /\ ReadAs(PacketType.NotifyPlayersPerGameChanged, onNotifyPlayersPerGameChangedPacket)
  /\ PacketType.LobbyOpenStateChangeRequest \in Byte
  /\ ReadAs(PacketType.LobbyOpenStateChangeRequest, onLobbyOpenStateChangeRequestPacket)
  /\ PacketType.NotifyLobbyOpenStateChanged \in Byte
  /\ ReadAs(PacketType.NotifyLobbyOpenStateChanged, onNotifyLobbyOpenStateChangedPacket)
  /\ PacketType.SnapshotBegin \in Byte /\ ReadAs(PacketType.SnapshotBegin, onSnapshotBeginPacket)
  /\ PacketType.SnapshotEnd \in Byte /\ ReadAs(PacketType.SnapshotEnd, onSnapshotEndPacket)
  /\ PacketType.SnapshotLobbySettings \in Byte
  /\ ReadAs(PacketType.SnapshotLobbySettings, onSnapshotLobbySettingsPacket)
  /\ PacketType.SnapshotLobbyPlayerInfo \in Byte
  /\ ReadAs(PacketType.SnapshotLobbyPlayerInfo, onSnapshotLobbyPlayerInfoPacket)
  /\ PacketType.SnapshotLobbySeatPositions \in Byte
  /\ ReadAs(PacketType.SnapshotLobbySeatPositions, onSnapshotLobbySeatPositionsPacket)
  /\ PacketType.SnapshotLobbyQueuePositions \in Byte
  /\ ReadAs(PacketType.SnapshotLobbyQueuePositions, onSnapshotLobbyQueuePositionsPacket)
<1>1. PacketType.Hello \in Byte /\ ReadAs(PacketType.Hello, onHelloPacket)
  BY TypeNumbers DEF Handlers, ReadAs, Byte
<1>2. PacketType.Welcome \in Byte /\ ReadAs(PacketType.Welcome, onWelcomePacket)
  BY TypeNumbers DEF Handlers, ReadAs, Byte
<1>3. /\ PacketType.NotifyPlayerConnected \in Byte
      /\ ReadAs(PacketType.NotifyPlayerConnected, onNotifyPlayerConnectedPacket)
  BY TypeNumbers DEF Handlers, ReadAs, Byte
<1>4. /\ PacketType.NotifyPlayerReconnected \in Byte
      /\ ReadAs(PacketType.NotifyPlayerReconnected, onNotifyPlayerReconnectedPacket)
  BY TypeNumbers DEF Handlers, ReadAs, Byte
<1>5. /\ PacketType.ServerDisconnect \in Byte
      /\ ReadAs(PacketType.ServerDisconnect, onServerDisconnectPacket)
  BY TypeNumbers DEF Handlers, ReadAs, Byte
<1>6. /\ PacketType.NotifyPlayerDisconnected \in Byte
      /\ ReadAs(PacketType.NotifyPlayerDisconnected, onNotifyPlayerDisconnectedPacket)
  BY TypeNumbers DEF Handlers, ReadAs, Byte
<1>7. /\ PacketType.NotifyPlayerNicknameChanged \in Byte
      /\ ReadAs(PacketType.NotifyPlayerNicknameChanged, onNotifyPlayerNicknameChangedPacket)
  BY TypeNumbers DEF Handlers, ReadAs, Byte
<1>8. /\ PacketType.NotifyConnectionWithPlayerLost \in Byte
      /\ ReadAs(PacketType.NotifyConnectionWithPlayerLost, onNotifyConnectionWithPlayerLostPacket)
  BY TypeNumbers DEF Handlers, ReadAs, Byte
<1>9. /\ PacketType.SeatPositionsChangeRequest \in Byte
      /\ ReadAs(PacketType.SeatPositionsChangeRequest, onSeatPositionsChangeRequestPacket)
  BY TypeNumbers DEF Handlers, ReadAs, Byte
<1>10. /\ PacketType.SeatPositionsSwapRequest \in Byte
       /\ ReadAs(PacketType.SeatPositionsSwapRequest, onSeatPositionsSwapRequestPacket)
  BY TypeNumbers DEF Handlers, ReadAs, Byte
<1>11. /\ PacketType.NotifySeatPositionsChanged \in Byte
       /\ ReadAs(PacketType.NotifySeatPositionsChanged, onNotifySeatPositionsChangedPacket)
  BY TypeNumbers DEF Handlers, ReadAs, Byte
<1>12. /\ PacketType.NotifySeatPositionsSwapped \in Byte
       /\ ReadAs(PacketType.NotifySeatPositionsSwapped, onNotifySeatPositionsSwappedPacket)
  BY TypeNumbers DEF Handlers, ReadAs, Byte
<1>13. /\ PacketType.PlayersPerGameChangeRequest \in Byte
       /\ ReadAs(PacketType.PlayersPerGameChangeRequest, onPlayersPerGameChangeRequestPacket)
  BY TypeNumbers DEF Handlers, ReadAs, Byte
<1>14. /\ PacketType.NotifyPlayersPerGameChanged \in Byte
       /\ ReadAs(PacketType.NotifyPlayersPerGameChanged, onNotifyPlayersPerGameChangedPacket)
  BY TypeNumbers DEF Handlers, ReadAs, Byte
<1>15. /\ PacketType.LobbyOpenStateChangeRequest \in Byte
       /\ ReadAs(PacketType.LobbyOpenStateChangeRequest, onLobbyOpenStateChangeRequestPacket)
  BY TypeNumbers DEF Handlers, ReadAs, Byte
<1>16. /\ PacketType.NotifyLobbyOpenStateChanged \in Byte
       /\ ReadAs(PacketType.NotifyLobbyOpenStateChanged, onNotifyLobbyOpenStateChangedPacket)
  BY TypeNumbers DEF Handlers, ReadAs, Byte
<1>17. PacketType.SnapshotBegin \in Byte /\ ReadAs(PacketType.SnapshotBegin, onSnapshotBeginPacket)
  BY TypeNumbers DEF Handlers, ReadAs, Byte
<1>18. PacketType.SnapshotEnd \in Byte /\ ReadAs(PacketType.SnapshotEnd, onSnapshotEndPacket)
  BY TypeNumbers DEF Handlers, ReadAs, Byte
<1>19. /\ PacketType.SnapshotLobbySettings \in Byte
       /\ ReadAs(PacketType.SnapshotLobbySettings, onSnapshotLobbySettingsPacket)
  BY TypeNumbers DEF Handlers, ReadAs, Byte
<1>20. /\ PacketType.SnapshotLobbyPlayerInfo \in Byte
       /\ ReadAs(PacketType.SnapshotLobbyPlayerInfo, onSnapshotLobbyPlayerInfoPacket)
  BY TypeNumbers DEF Handlers, ReadAs, Byte
<1>21. /\ PacketType.SnapshotLobbySeatPositions \in Byte
       /\ ReadAs(PacketType.SnapshotLobbySeatPositions, onSnapshotLobbySeatPositionsPacket)
  BY TypeNumbers DEF Handlers, ReadAs, Byte
<1>22. /\ PacketType.SnapshotLobbyQueuePositions \in Byte
       /\ ReadAs(PacketType.SnapshotLobbyQueuePositions, onSnapshotLobbyQueuePositionsPacket)
  BY TypeNumbers DEF Handlers, ReadAs, Byte
<1> QED  BY <1>1, <1>2, <1>3, <1>4, <1>5, <1>6, <1>7, <1>8, <1>9, <1>10, <1>11, <1>12, <1>13,
             <1>14, <1>15, <1>16, <1>17, <1>18, <1>19, <1>20, <1>21, <1>22

\* The values that packets are made of, each written as a field of its kind.
LEMMA ValueFields ==
  /\ \A t \in Token : OneField("uint64", t, uint64(t))
  /\ \A s \in Nickname : OneField("string", s, string(s))
  /\ \A i \in Id : OneField("uint32", i, int32(i))
  /\ \A p \in Seat : OneField("int32", p, int32(p))
  /\ \A r \in Enum : OneField("enum", r, uint8(r))
  /\ \A b \in BOOLEAN : OneField("bool", b, bool(b))
  /\ \A l \in SeatLists :
       OneField("seats", l, uint8(Len(l)) \o FlattenSeq([i \in DOMAIN l |-> seatAndId(l[i])]))
  /\ \A l \in IdLists :
       OneField("ids", l, uint8(Len(l)) \o FlattenSeq([i \in DOMAIN l |-> int32(l[i])]))
<1>1. \A t \in Token : OneField("uint64", t, uint64(t))
  <2> TAKE t \in Token
  <2>1. t = <<t[1], t[2]>> /\ UInt32(t[1]) /\ UInt32(t[2])
    BY ExchangeAssumption
  <2> DEFINE v == t[1]
             w == t[2]
  <2>2. t = <<v, w>> /\ UInt32(v) /\ UInt32(w) /\ uint64(t) = int32(v) \o int32(w)
    BY <2>1, Zenon DEF uint64
  <2> HIDE DEF v, w
  <2>3. OneField("uint64", <<v, w>>, int32(v) \o int32(w))
    BY <2>2, TokenField
  <2> QED  BY <2>2, <2>3, Zenon
<1>2. \A s \in Nickname : OneField("string", s, string(s))
  BY ExchangeAssumption, StringField
<1>3. \A i \in Id : OneField("uint32", i, int32(i))
  BY ExchangeAssumption, UIntField
<1>4. \A p \in Seat : OneField("int32", p, int32(p))
  BY ExchangeAssumption, IntField
<1>5. \A r \in Enum : OneField("enum", r, uint8(r))
  BY ExchangeAssumption, ByteField
<1>6. \A b \in BOOLEAN : OneField("bool", b, bool(b))
  BY BoolField
<1>7. \A l \in SeatLists :
        OneField("seats", l, uint8(Len(l)) \o FlattenSeq([i \in DOMAIN l |-> seatAndId(l[i])]))
  BY ExchangeAssumption, SeatsField
<1>8. \A l \in IdLists :
        OneField("ids", l, uint8(Len(l)) \o FlattenSeq([i \in DOMAIN l |-> int32(l[i])]))
  BY ExchangeAssumption, IdsField
<1> QED  BY <1>1, <1>2, <1>3, <1>4, <1>5, <1>6, <1>7, <1>8

\* A packet of a type whose fields are read as they were written.
LEMMA PacketAgrees ==
  ASSUME NEW t \in Byte, NEW ks, ReadAs(t, ks), NEW w, NEW d, Fields(ks, w, d),
         NEW p, p = Packet(t, d)
  PROVE  Agreed(p, w)
<1>1. p.type = t /\ p.data = d /\ d \in Seq(Byte)
  BY DEF Packet, Fields
<1>2. p \in PacketSet
  BY <1>1 DEF Packet, PacketSet
<1> QED  BY <1>1, <1>2 DEF Agreed, ReadAs
\* Every packet that is made is read as what it was made of.
LEMMA MadeAgree ==
  \A made \in Made : Agreed(made[1], made[2])
<1>1. ASSUME NEW t \in Token, NEW s \in Nickname
      PROVE  Agreed(makeHelloPacket(t, s), <<t, s>>)
  <2> DEFINE d == uint64(t) \o string(s)
  <2>1. Fields(onHelloPacket, <<t, s>>, d)
    <3>1. OneField("uint64", t, uint64(t)) /\ OneField("string", s, string(s))
      BY ValueFields
    <3> QED  BY <3>1, TwoFieldsRead DEF onHelloPacket
  <2>2. makeHelloPacket(t, s) = Packet(PacketType.Hello, d)
    BY DEF makeHelloPacket
  <2> QED  BY <2>1, <2>2, HandlerKinds, PacketAgrees
<1>2. ASSUME NEW i \in Id, NEW s \in Nickname, NEW r \in Enum, NEW f \in Enum
      PROVE  Agreed(makeWelcomePacket(i, s, r, f), <<i, s, r, f>>)
  <2> DEFINE d == int32(i) \o string(s) \o uint8(r) \o uint8(f)
  <2>1. Fields(onWelcomePacket, <<i, s, r, f>>, d)
    <3>1. /\ OneField("uint32", i, int32(i)) /\ OneField("string", s, string(s))
        /\ OneField("enum", r, uint8(r)) /\ OneField("enum", f, uint8(f))
      BY ValueFields
    <3> QED  BY <3>1, FourFieldsRead DEF onWelcomePacket
  <2>2. makeWelcomePacket(i, s, r, f) = Packet(PacketType.Welcome, d)
    BY DEF makeWelcomePacket
  <2> QED  BY <2>1, <2>2, HandlerKinds, PacketAgrees
<1>3. ASSUME NEW i \in Id, NEW s \in Nickname, NEW r \in Enum, NEW p \in Seat
      PROVE  Agreed(makeNotifyPlayerConnectedPacket(i, s, r, p), <<i, s, r, p>>)
  <2> DEFINE d == int32(i) \o string(s) \o uint8(r) \o int32(p)
  <2>1. Fields(onNotifyPlayerConnectedPacket, <<i, s, r, p>>, d)
    <3>1. /\ OneField("uint32", i, int32(i)) /\ OneField("string", s, string(s))
        /\ OneField("enum", r, uint8(r)) /\ OneField("int32", p, int32(p))
      BY ValueFields
    <3> QED  BY <3>1, FourFieldsRead DEF onNotifyPlayerConnectedPacket
  <2>2. makeNotifyPlayerConnectedPacket(i, s, r, p) = Packet(PacketType.NotifyPlayerConnected, d)
    BY DEF makeNotifyPlayerConnectedPacket
  <2> QED  BY <2>1, <2>2, HandlerKinds, PacketAgrees
<1>4. ASSUME NEW i \in Id
      PROVE  Agreed(makeNotifyPlayerReconnectedPacket(i), <<i>>)
  <2> DEFINE d == int32(i)
  <2>1. Fields(onNotifyPlayerReconnectedPacket, <<i>>, d)
    <3>1. OneField("uint32", i, int32(i))
      BY ValueFields
    <3> QED  BY <3>1, OneFieldRead DEF onNotifyPlayerReconnectedPacket
  <2>2. makeNotifyPlayerReconnectedPacket(i) = Packet(PacketType.NotifyPlayerReconnected, d)
    BY DEF makeNotifyPlayerReconnectedPacket
  <2> QED  BY <2>1, <2>2, HandlerKinds, PacketAgrees
<1>5. ASSUME NEW r \in Enum
      PROVE  Agreed(makeServerDisconnectPacket(r), <<r>>)
  <2> DEFINE d == uint8(r)
  <2>1. Fields(onServerDisconnectPacket, <<r>>, d)
    <3>1. OneField("enum", r, uint8(r))
      BY ValueFields
    <3> QED  BY <3>1, OneFieldRead DEF onServerDisconnectPacket
  <2>2. makeServerDisconnectPacket(r) = Packet(PacketType.ServerDisconnect, d)
    BY DEF makeServerDisconnectPacket
  <2> QED  BY <2>1, <2>2, HandlerKinds, PacketAgrees
<1>6. ASSUME NEW i \in Id, NEW r \in Enum
      PROVE  Agreed(makeNotifyPlayerDisconnectedPacket(i, r), <<i, r>>)
  <2> DEFINE d == int32(i) \o uint8(r)
  <2>1. Fields(onNotifyPlayerDisconnectedPacket, <<i, r>>, d)
    <3>1. OneField("uint32", i, int32(i)) /\ OneField("enum", r, uint8(r))
      BY ValueFields
    <3> QED  BY <3>1, TwoFieldsRead DEF onNotifyPlayerDisconnectedPacket
  <2>2. makeNotifyPlayerDisconnectedPacket(i, r) = Packet(PacketType.NotifyPlayerDisconnected, d)
    BY DEF makeNotifyPlayerDisconnectedPacket
  <2> QED  BY <2>1, <2>2, HandlerKinds, PacketAgrees
<1>7. ASSUME NEW i \in Id, NEW s \in Nickname
      PROVE  Agreed(makeNotifyPlayerNicknameChangedPacket(i, s), <<i, s>>)
  <2> DEFINE d == int32(i) \o string(s)
  <2>1. Fields(onNotifyPlayerNicknameChangedPacket, <<i, s>>, d)
    <3>1. OneField("uint32", i, int32(i)) /\ OneField("string", s, string(s))
      BY ValueFields
    <3> QED  BY <3>1, TwoFieldsRead DEF onNotifyPlayerNicknameChangedPacket
  <2>2. makeNotifyPlayerNicknameChangedPacket(i, s) = Packet(PacketType.NotifyPlayerNicknameChanged, d)
    BY DEF makeNotifyPlayerNicknameChangedPacket
  <2> QED  BY <2>1, <2>2, HandlerKinds, PacketAgrees
<1>8. ASSUME NEW i \in Id
      PROVE  Agreed(makeNotifyConnectionWithPlayerLostPacket(i), <<i>>)
  <2> DEFINE d == int32(i)
  <2>1. Fields(onNotifyConnectionWithPlayerLostPacket, <<i>>, d)
    <3>1. OneField("uint32", i, int32(i))
      BY ValueFields
    <3> QED  BY <3>1, OneFieldRead DEF onNotifyConnectionWithPlayerLostPacket
  <2>2. makeNotifyConnectionWithPlayerLostPacket(i) =
          Packet(PacketType.NotifyConnectionWithPlayerLost, d)
    BY DEF makeNotifyConnectionWithPlayerLostPacket
  <2> QED  BY <2>1, <2>2, HandlerKinds, PacketAgrees
<1>9. ASSUME NEW i \in Id, NEW p \in Seat
      PROVE  Agreed(makeSeatPositionsChangeRequestPacket(i, p), <<i, p>>)
  <2> DEFINE d == int32(i) \o int32(p)
  <2>1. Fields(onSeatPositionsChangeRequestPacket, <<i, p>>, d)
    <3>1. OneField("uint32", i, int32(i)) /\ OneField("int32", p, int32(p))
      BY ValueFields
    <3> QED  BY <3>1, TwoFieldsRead DEF onSeatPositionsChangeRequestPacket
  <2>2. makeSeatPositionsChangeRequestPacket(i, p) = Packet(PacketType.SeatPositionsChangeRequest, d)
    BY DEF makeSeatPositionsChangeRequestPacket
  <2> QED  BY <2>1, <2>2, HandlerKinds, PacketAgrees
<1>10. ASSUME NEW i \in Id, NEW j \in Id
      PROVE  Agreed(makeSeatPositionsSwapRequestPacket(i, j), <<i, j>>)
  <2> DEFINE d == int32(i) \o int32(j)
  <2>1. Fields(onSeatPositionsSwapRequestPacket, <<i, j>>, d)
    <3>1. OneField("uint32", i, int32(i)) /\ OneField("uint32", j, int32(j))
      BY ValueFields
    <3> QED  BY <3>1, TwoFieldsRead DEF onSeatPositionsSwapRequestPacket
  <2>2. makeSeatPositionsSwapRequestPacket(i, j) = Packet(PacketType.SeatPositionsSwapRequest, d)
    BY DEF makeSeatPositionsSwapRequestPacket
  <2> QED  BY <2>1, <2>2, HandlerKinds, PacketAgrees
<1>11. ASSUME NEW i \in Id, NEW p \in Seat
      PROVE  Agreed(makeNotifySeatPositionsChangedPacket(i, p), <<i, p>>)
  <2> DEFINE d == int32(i) \o int32(p)
  <2>1. Fields(onNotifySeatPositionsChangedPacket, <<i, p>>, d)
    <3>1. OneField("uint32", i, int32(i)) /\ OneField("int32", p, int32(p))
      BY ValueFields
    <3> QED  BY <3>1, TwoFieldsRead DEF onNotifySeatPositionsChangedPacket
  <2>2. makeNotifySeatPositionsChangedPacket(i, p) = Packet(PacketType.NotifySeatPositionsChanged, d)
    BY DEF makeNotifySeatPositionsChangedPacket
  <2> QED  BY <2>1, <2>2, HandlerKinds, PacketAgrees
<1>12. ASSUME NEW i \in Id, NEW j \in Id
      PROVE  Agreed(makeNotifySeatPositionsSwappedPacket(i, j), <<i, j>>)
  <2> DEFINE d == int32(i) \o int32(j)
  <2>1. Fields(onNotifySeatPositionsSwappedPacket, <<i, j>>, d)
    <3>1. OneField("uint32", i, int32(i)) /\ OneField("uint32", j, int32(j))
      BY ValueFields
    <3> QED  BY <3>1, TwoFieldsRead DEF onNotifySeatPositionsSwappedPacket
  <2>2. makeNotifySeatPositionsSwappedPacket(i, j) = Packet(PacketType.NotifySeatPositionsSwapped, d)
    BY DEF makeNotifySeatPositionsSwappedPacket
  <2> QED  BY <2>1, <2>2, HandlerKinds, PacketAgrees
<1>13. ASSUME NEW i \in Id
      PROVE  Agreed(makePlayersPerGameChangeRequestPacket(i), <<i>>)
  <2> DEFINE d == int32(i)
  <2>1. Fields(onPlayersPerGameChangeRequestPacket, <<i>>, d)
    <3>1. OneField("uint32", i, int32(i))
      BY ValueFields
    <3> QED  BY <3>1, OneFieldRead DEF onPlayersPerGameChangeRequestPacket
  <2>2. makePlayersPerGameChangeRequestPacket(i) = Packet(PacketType.PlayersPerGameChangeRequest, d)
    BY DEF makePlayersPerGameChangeRequestPacket
  <2> QED  BY <2>1, <2>2, HandlerKinds, PacketAgrees
<1>14. ASSUME NEW i \in Id
      PROVE  Agreed(makeNotifyPlayersPerGameChangedPacket(i), <<i>>)
  <2> DEFINE d == int32(i)
  <2>1. Fields(onNotifyPlayersPerGameChangedPacket, <<i>>, d)
    <3>1. OneField("uint32", i, int32(i))
      BY ValueFields
    <3> QED  BY <3>1, OneFieldRead DEF onNotifyPlayersPerGameChangedPacket
  <2>2. makeNotifyPlayersPerGameChangedPacket(i) = Packet(PacketType.NotifyPlayersPerGameChanged, d)
    BY DEF makeNotifyPlayersPerGameChangedPacket
  <2> QED  BY <2>1, <2>2, HandlerKinds, PacketAgrees
<1>15. ASSUME NEW b \in BOOLEAN
      PROVE  Agreed(makeLobbyOpenStateChangeRequestPacket(b), <<b>>)
  <2> DEFINE d == bool(b)
  <2>1. Fields(onLobbyOpenStateChangeRequestPacket, <<b>>, d)
    <3>1. OneField("bool", b, bool(b))
      BY ValueFields
    <3> QED  BY <3>1, OneFieldRead DEF onLobbyOpenStateChangeRequestPacket
  <2>2. makeLobbyOpenStateChangeRequestPacket(b) = Packet(PacketType.LobbyOpenStateChangeRequest, d)
    BY DEF makeLobbyOpenStateChangeRequestPacket
  <2> QED  BY <2>1, <2>2, HandlerKinds, PacketAgrees
<1>16. ASSUME NEW b \in BOOLEAN
      PROVE  Agreed(makeNotifyLobbyOpenStateChangedPacket(b), <<b>>)
  <2> DEFINE d == bool(b)
  <2>1. Fields(onNotifyLobbyOpenStateChangedPacket, <<b>>, d)
    <3>1. OneField("bool", b, bool(b))
      BY ValueFields
    <3> QED  BY <3>1, OneFieldRead DEF onNotifyLobbyOpenStateChangedPacket
  <2>2. makeNotifyLobbyOpenStateChangedPacket(b) = Packet(PacketType.NotifyLobbyOpenStateChanged, d)
    BY DEF makeNotifyLobbyOpenStateChangedPacket
  <2> QED  BY <2>1, <2>2, HandlerKinds, PacketAgrees
<1>17. ASSUME NEW r \in Enum
      PROVE  Agreed(makeSnapshotBeginPacket(r), <<r>>)
  <2> DEFINE d == uint8(r)
  <2>1. Fields(onSnapshotBeginPacket, <<r>>, d)
    <3>1. OneField("enum", r, uint8(r))
      BY ValueFields
    <3> QED  BY <3>1, OneFieldRead DEF onSnapshotBeginPacket
  <2>2. makeSnapshotBeginPacket(r) = Packet(PacketType.SnapshotBegin, d)
    BY DEF makeSnapshotBeginPacket
  <2> QED  BY <2>1, <2>2, HandlerKinds, PacketAgrees
<1>18. ASSUME NEW r \in Enum
      PROVE  Agreed(makeSnapshotEndPacket(r), <<r>>)
  <2> DEFINE d == uint8(r)
  <2>1. Fields(onSnapshotEndPacket, <<r>>, d)
    <3>1. OneField("enum", r, uint8(r))
      BY ValueFields
    <3> QED  BY <3>1, OneFieldRead DEF onSnapshotEndPacket
  <2>2. makeSnapshotEndPacket(r) = Packet(PacketType.SnapshotEnd, d)
    BY DEF makeSnapshotEndPacket
  <2> QED  BY <2>1, <2>2, HandlerKinds, PacketAgrees
<1>19. ASSUME NEW i \in Id, NEW r \in Enum, NEW b \in BOOLEAN, NEW c \in BOOLEAN,
              NEW f \in Enum, NEW j \in Id
      PROVE  Agreed(makeSnapshotLobbySettingsPacket(i, r, b, c, f, j), <<i, r, b, c, f, j>>)
  <2> DEFINE d == int32(i) \o uint8(r) \o bool(b) \o bool(c) \o uint8(f) \o int32(j)
  <2>1. Fields(onSnapshotLobbySettingsPacket, <<i, r, b, c, f, j>>, d)
    <3>1. /\ OneField("uint32", i, int32(i)) /\ OneField("enum", r, uint8(r))
          /\ OneField("bool", b, bool(b)) /\ OneField("bool", c, bool(c))
          /\ OneField("enum", f, uint8(f)) /\ OneField("uint32", j, int32(j))
      BY ValueFields
    <3> QED  BY <3>1, SixFieldsRead DEF onSnapshotLobbySettingsPacket
  <2>2. makeSnapshotLobbySettingsPacket(i, r, b, c, f, j) = Packet(PacketType.SnapshotLobbySettings, d)
    BY DEF makeSnapshotLobbySettingsPacket, settings
  <2> QED  BY <2>1, <2>2, HandlerKinds, PacketAgrees
<1>20. ASSUME NEW i \in Id, NEW s \in Nickname, NEW r \in Enum
      PROVE  Agreed(makeSnapshotLobbyPlayerInfoPacket(i, s, r), <<i, s, r>>)
  <2> DEFINE d == int32(i) \o string(s) \o uint8(r)
  <2>1. Fields(onSnapshotLobbyPlayerInfoPacket, <<i, s, r>>, d)
    <3>1. /\ OneField("uint32", i, int32(i)) /\ OneField("string", s, string(s))
        /\ OneField("enum", r, uint8(r))
      BY ValueFields
    <3> QED  BY <3>1, ThreeFieldsRead DEF onSnapshotLobbyPlayerInfoPacket
  <2>2. makeSnapshotLobbyPlayerInfoPacket(i, s, r) = Packet(PacketType.SnapshotLobbyPlayerInfo, d)
    BY DEF makeSnapshotLobbyPlayerInfoPacket
  <2> QED  BY <2>1, <2>2, HandlerKinds, PacketAgrees
<1>21. ASSUME NEW l \in SeatLists
      PROVE  Agreed(makeSnapshotLobbySeatPositionsPacket(l), <<l>>)
  <2> DEFINE d == uint8(Len(l)) \o FlattenSeq([x \in DOMAIN l |-> seatAndId(l[x])])
  <2>1. Fields(onSnapshotLobbySeatPositionsPacket, <<l>>, d)
    <3>1. OneField("seats", l, d)
      BY ValueFields
    <3> QED  BY <3>1, OneFieldRead DEF onSnapshotLobbySeatPositionsPacket
  <2>2. makeSnapshotLobbySeatPositionsPacket(l) = Packet(PacketType.SnapshotLobbySeatPositions, d)
    BY DEF makeSnapshotLobbySeatPositionsPacket
  <2> QED  BY <2>1, <2>2, HandlerKinds, PacketAgrees
<1>22. ASSUME NEW l \in IdLists
      PROVE  Agreed(makeSnapshotLobbyQueuePositionsPacket(l), <<l>>)
  <2> DEFINE d == uint8(Len(l)) \o FlattenSeq([x \in DOMAIN l |-> int32(l[x])])
  <2>1. Fields(onSnapshotLobbyQueuePositionsPacket, <<l>>, d)
    <3>1. OneField("ids", l, d)
      BY ValueFields
    <3> QED  BY <3>1, OneFieldRead DEF onSnapshotLobbyQueuePositionsPacket
  <2>2. makeSnapshotLobbyQueuePositionsPacket(l) = Packet(PacketType.SnapshotLobbyQueuePositions, d)
    BY DEF makeSnapshotLobbyQueuePositionsPacket
  <2> QED  BY <2>1, <2>2, HandlerKinds, PacketAgrees
<1> SUFFICES ASSUME NEW made \in Made
             PROVE  Agreed(made[1], made[2])
  OBVIOUS
<1>31. made \in {<<makeHelloPacket(t, s), <<t, s>> >> :
                t \in Token, s \in Nickname} => Agreed(made[1], made[2])
  BY <1>1
<1>32. made \in {<<makeWelcomePacket(i, s, r, f), <<i, s, r, f>> >> :
                        i \in Id, s \in Nickname, r \in Enum, f \in Enum} => Agreed(made[1], made[2])
  BY <1>2
<1>33. made \in {<<makeNotifyPlayerConnectedPacket(i, s, r, p), <<i, s, r, p>> >> :
                        i \in Id, s \in Nickname, r \in Enum, p \in Seat} => Agreed(made[1], made[2])
  BY <1>3
<1>34. made \in {<<makeNotifyPlayerReconnectedPacket(i), <<i>> >> :
                i \in Id} => Agreed(made[1], made[2])
  BY <1>4
<1>35. made \in {<<makeServerDisconnectPacket(r), <<r>> >> : r \in Enum} => Agreed(made[1], made[2])
  BY <1>5
<1>36. made \in {<<makeNotifyPlayerDisconnectedPacket(i, r), <<i, r>> >> :
                        i \in Id, r \in Enum} => Agreed(made[1], made[2])
  BY <1>6
<1>37. made \in {<<makeNotifyPlayerNicknameChangedPacket(i, s), <<i, s>> >> :
                        i \in Id, s \in Nickname} => Agreed(made[1], made[2])
  BY <1>7
<1>38. made \in {<<makeNotifyConnectionWithPlayerLostPacket(i), <<i>> >> :
                i \in Id} => Agreed(made[1], made[2])
  BY <1>8
<1>39. made \in {<<makeSeatPositionsChangeRequestPacket(i, p), <<i, p>> >> :
                        i \in Id, p \in Seat} => Agreed(made[1], made[2])
  BY <1>9
<1>40. made \in {<<makeSeatPositionsSwapRequestPacket(i, j), <<i, j>> >> :
                        i \in Id, j \in Id} => Agreed(made[1], made[2])
  BY <1>10
<1>41. made \in {<<makeNotifySeatPositionsChangedPacket(i, p), <<i, p>> >> :
                        i \in Id, p \in Seat} => Agreed(made[1], made[2])
  BY <1>11
<1>42. made \in {<<makeNotifySeatPositionsSwappedPacket(i, j), <<i, j>> >> :
                        i \in Id, j \in Id} => Agreed(made[1], made[2])
  BY <1>12
<1>43. made \in {<<makePlayersPerGameChangeRequestPacket(i), <<i>> >> :
                i \in Id} => Agreed(made[1], made[2])
  BY <1>13
<1>44. made \in {<<makeNotifyPlayersPerGameChangedPacket(i), <<i>> >> :
                i \in Id} => Agreed(made[1], made[2])
  BY <1>14
<1>45. made \in {<<makeLobbyOpenStateChangeRequestPacket(b), <<b>> >> :
                b \in BOOLEAN} => Agreed(made[1], made[2])
  BY <1>15
<1>46. made \in {<<makeNotifyLobbyOpenStateChangedPacket(b), <<b>> >> :
                b \in BOOLEAN} => Agreed(made[1], made[2])
  BY <1>16
<1>47. made \in {<<makeSnapshotBeginPacket(r), <<r>> >> : r \in Enum} => Agreed(made[1], made[2])
  BY <1>17
<1>48. made \in {<<makeSnapshotEndPacket(r), <<r>> >> : r \in Enum} => Agreed(made[1], made[2])
  BY <1>18
<1>49. made \in {<<makeSnapshotLobbySettingsPacket(i, r, b, c, f, j), <<i, r, b, c, f, j>> >> :
                        i \in Id, r \in Enum, b \in BOOLEAN, c \in BOOLEAN, f \in Enum, j \in Id}
         => Agreed(made[1], made[2])
  BY <1>19
<1>50. made \in {<<makeSnapshotLobbyPlayerInfoPacket(i, s, r), <<i, s, r>> >> :
                        i \in Id, s \in Nickname, r \in Enum} => Agreed(made[1], made[2])
  BY <1>20
<1>51. made \in {<<makeSnapshotLobbySeatPositionsPacket(l), <<l>> >> :
                        l \in SeatLists} => Agreed(made[1], made[2])
  BY <1>21
<1>52. made \in {<<makeSnapshotLobbyQueuePositionsPacket(l), <<l>> >> :
                l \in IdLists} => Agreed(made[1], made[2])
  BY <1>22
<1> QED  BY <1>31, <1>32, <1>33, <1>34, <1>35, <1>36, <1>37, <1>38, <1>39, <1>40, <1>41,
             <1>42, <1>43, <1>44, <1>45, <1>46, <1>47, <1>48, <1>49, <1>50, <1>51, <1>52 DEF Made
\* The types of the packets that nothing reads.
UnreadTypes == {12, 13, 14, 15, 16, 17, 19, 20, 21, 22, 23, 25, 26, 27, 129, 130, 131, 136, 137, 138}

\* They are these, and no handler has one of them.
LEMMA UnreadNumbers ==
  /\ \A i, b : \A made \in Unread(i, b) : made[1].type \in UnreadTypes
  /\ makeUpdateRequestPacket.type \in UnreadTypes
  /\ \A h \in Handlers : h[1] \notin UnreadTypes
<1>1. /\ PacketType.UpdateRequest = 129 /\ PacketType.SnapshotAck = 130
      /\ PacketType.PlayerDisconnected = 131 /\ PacketType.StartGame = 12
      /\ PacketType.EndGame = 27 /\ PacketType.DealCard = 13
      /\ PacketType.NotifyDealToOthers = 19 /\ PacketType.PlayerToss = 136
      /\ PacketType.NotifyPlayerTossed = 20 /\ PacketType.PlayerBeat = 137
      /\ PacketType.NotifyPlayerBeat = 21
  BY DEF PacketType
<1>2. /\ PacketType.PlayerPassAction = 138
      /\ PacketType.NotifyPassAction = 22 /\ PacketType.PlayerWinner = 25
      /\ PacketType.PlayerLoser = 26 /\ PacketType.ShowCard = 14
      /\ PacketType.NotifyIdentifiedTrumpCard = 15 /\ PacketType.NotifyNewMainAttackerPlayer = 17
      /\ PacketType.NotifyClearTable = 23 /\ PacketType.NotifyNewPhase = 16
  BY DEF PacketType
<1>3. \A t, d : Packet(t, d).type = t
  BY DEF Packet
<1>4. ASSUME NEW i
      PROVE  /\ makeUpdateRequestPacket.type \in UnreadTypes
             /\ makeSnapshotAckPacket.type \in UnreadTypes
             /\ makePlayerDisconnectedPacket.type \in UnreadTypes
             /\ makeStartGame.type \in UnreadTypes
             /\ makeEndGame.type \in UnreadTypes
             /\ makeDealCardPacket(i, i).type \in UnreadTypes
             /\ makeNotifyDealCardToOthersPacket(i).type \in UnreadTypes
             /\ makePlayerTossPacket(i).type \in UnreadTypes
             /\ makeNotifyPlayerTossedPacket(i, i, 0).type \in UnreadTypes
             /\ makePlayerBeatPacket(i, 0).type \in UnreadTypes
             /\ makeNotifyPlayerBeatPacket(i, i, 0).type \in UnreadTypes
  BY <1>1, <1>3 DEF UnreadTypes, makeUpdateRequestPacket,
     makeSnapshotAckPacket,
     makePlayerDisconnectedPacket,
     makeStartGame,
     makeEndGame,
     makeDealCardPacket,
     makeNotifyDealCardToOthersPacket,
     makePlayerTossPacket,
     makeNotifyPlayerTossedPacket,
     makePlayerBeatPacket,
     makeNotifyPlayerBeatPacket
<1>5. ASSUME NEW i, NEW b
      PROVE  /\ makePlayerPassActionPacket(b).type \in UnreadTypes
             /\ makeNotifyPlayerPassActionPacket(i, b).type \in UnreadTypes
             /\ makePlayerWinnerPacket(i, b).type \in UnreadTypes
             /\ makePlayerLoserPacket(i, b).type \in UnreadTypes
             /\ makeShowCardPacket(i).type \in UnreadTypes
             /\ makeNotifyIdentifiedTrumpCardPacket(i).type \in UnreadTypes
             /\ makeNotifyNewMainAttackerPlayerPacket(i).type \in UnreadTypes
             /\ makeNotifyNewDefenderPlayerPacket(i).type \in UnreadTypes
             /\ makeNotifyNewGamePhasePacket(0).type \in UnreadTypes
  <2>1. makePlayerPassActionPacket(b).type \in UnreadTypes
    <3>1. PacketType.PlayerPassAction \in UnreadTypes
      BY <1>2 DEF UnreadTypes
    <3> QED  BY <1>3, <3>1, Zenon DEF makePlayerPassActionPacket
  <2>2. makeNotifyPlayerPassActionPacket(i, b).type \in UnreadTypes
    <3>1. PacketType.NotifyPassAction \in UnreadTypes
      BY <1>2 DEF UnreadTypes
    <3> QED  BY <1>3, <3>1, Zenon DEF makeNotifyPlayerPassActionPacket
  <2>3. makePlayerWinnerPacket(i, b).type \in UnreadTypes
    <3>1. PacketType.PlayerWinner \in UnreadTypes
      BY <1>2 DEF UnreadTypes
    <3> QED  BY <1>3, <3>1, Zenon DEF makePlayerWinnerPacket
  <2>4. makePlayerLoserPacket(i, b).type \in UnreadTypes
    <3>1. PacketType.PlayerLoser \in UnreadTypes
      BY <1>2 DEF UnreadTypes
    <3> QED  BY <1>3, <3>1, Zenon DEF makePlayerLoserPacket
  <2>5. makeShowCardPacket(i).type \in UnreadTypes
    BY <1>2, <1>3 DEF UnreadTypes, makeShowCardPacket
  <2>6. makeNotifyIdentifiedTrumpCardPacket(i).type \in UnreadTypes
    BY <1>2, <1>3 DEF UnreadTypes, makeNotifyIdentifiedTrumpCardPacket
  <2>7. makeNotifyNewMainAttackerPlayerPacket(i).type \in UnreadTypes
    BY <1>2, <1>3 DEF UnreadTypes, makeNotifyNewMainAttackerPlayerPacket
  <2>8. makeNotifyNewDefenderPlayerPacket(i).type \in UnreadTypes
    BY <1>2, <1>3 DEF UnreadTypes, makeNotifyNewDefenderPlayerPacket
  <2>9. makeNotifyNewGamePhasePacket(0).type \in UnreadTypes
    BY <1>2, <1>3 DEF UnreadTypes, makeNotifyNewGamePhasePacket
  <2> QED  BY <2>1, <2>2, <2>3, <2>4, <2>5, <2>6, <2>7, <2>8, <2>9
<1>9. ASSUME NEW i
      PROVE  makeNotifyClearTablePacket(i, <<i>>).type \in UnreadTypes
  BY <1>2, <1>3 DEF UnreadTypes, makeNotifyClearTablePacket
<1>6. ASSUME NEW i, NEW b, NEW made \in Unread(i, b)
      PROVE  made[1].type \in UnreadTypes
  BY <1>4, <1>5, <1>9 DEF Unread
<1>7. \A h \in Handlers : h[1] \notin UnreadTypes
  BY TypeNumbers DEF Handlers, UnreadTypes
<1>8. makeUpdateRequestPacket.type \in UnreadTypes
  BY <1>4
<1> QED  BY <1>6, <1>7, <1>8

\* Whatever reads the packet on its way reads what its maker was called with.
ExchangeIInv == Agreed(packet, written) /\ FieldsAgree

\* A packet that nothing reads agrees with anything.
LEMMA UnreadAgree ==
  ASSUME NEW p, p.type \in UnreadTypes, NEW w
  PROVE  Agreed(p, w)
BY UnreadNumbers DEF Agreed

\* A delivered packet is read from the data it was made with.
LEMMA DeliverAgrees ==
  ASSUME Agreed(packet, written), Deliver
  PROVE  ExchangeIInv'
<1>1. /\ UNCHANGED <<packet, written, name>>
      /\ \E h \in Handlers : /\ h[1] = packet.type
                             /\ read' = readFields(h[2], received(serialize(packet)).data)
  BY DEF Deliver
<1>2. PICK h \in Handlers :
        /\ h[1] = packet.type
        /\ read' = readFields(h[2], received(serialize(packet)).data)
  BY <1>1
<1>3. packet \in PacketSet /\ Fields(h[2], written, packet.data)
  BY <1>2 DEF Agreed
<1>4. received(serialize(packet)).data = packet.data
  <2>1. SubSeq(serialize(packet), 6, Len(serialize(packet))) = packet.data
    BY <1>3, SerializeBytes
  <2> QED  BY <2>1 DEF received, Packet
<1>5. readFields(h[2], packet.data) = [values |-> written, at |-> Len(packet.data)]
  BY <1>3, FieldsAreRead
<1>6. read' = [values |-> written, at |-> Len(packet.data)]
  BY <1>2, <1>4, <1>5
<1>7. read'.values = written /\ read'.at = Len(packet.data)
  BY <1>6
<1>8. FieldsAgree'
  BY <1>1, <1>7 DEF FieldsAgree
<1>9. Agreed(packet, written)'
  <2>1. packet' = packet /\ written' = written
    BY <1>1
  <2> QED  BY <2>1 DEF Agreed
<1> QED  BY <1>8, <1>9 DEF ExchangeIInv

(***************************************************************************)
(* Of every packet that the program sends, for any names, identifiers,     *)
(* seats and lists that fit their fields, the handler in the other program *)
(* reads just the values its maker was called with, each with its sign and *)
(* its width, and uses up the data: the writes of PacketFactory.cpp and    *)
(* the reads of the packet handlers agree in order, kind and number.       *)
(***************************************************************************)
THEOREM FieldsAlwaysAgree == ExchangeSpec => []FieldsAgree
<1>1. ExchangeInit => ExchangeIInv
  <2> SUFFICES ASSUME ExchangeInit
               PROVE  ExchangeIInv
    OBVIOUS
  <2>1. packet.type \in UnreadTypes
    BY UnreadNumbers DEF ExchangeInit
  <2>2. Agreed(packet, written)
    BY <2>1, UnreadAgree
  <2> QED  BY <2>2 DEF ExchangeInit, ExchangeIInv, FieldsAgree
<1>2. ExchangeIInv /\ [ExchangeNext]_exchangeVars => ExchangeIInv'
  <2> SUFFICES ASSUME ExchangeIInv, [ExchangeNext]_exchangeVars
               PROVE  ExchangeIInv'
    OBVIOUS
  <2>1. CASE MakePacket
    <3>1. PICK made \in Made : packet' = made[1] /\ written' = made[2]
      BY <2>1 DEF MakePacket
    <3>2. Agreed(made[1], made[2])
      BY MadeAgree
    <3>3. Agreed(packet, written)'
      BY <3>1, <3>2 DEF Agreed
    <3>4. FieldsAgree'
      BY <2>1 DEF MakePacket, FieldsAgree
    <3> QED  BY <3>3, <3>4 DEF ExchangeIInv
  <2>2. CASE MakeUnread
    <3>1. PICK i \in Id, b \in BOOLEAN : \E made \in Unread(i, b) : packet' = made[1] /\ name' = made[2]
      BY <2>2 DEF MakeUnread
    <3>2. packet'.type \in UnreadTypes
      BY <3>1, UnreadNumbers
    <3>3. Agreed(packet', written')
      BY <3>2, UnreadAgree
    <3>4. Agreed(packet, written)'
      BY <3>3 DEF Agreed
    <3>5. FieldsAgree'
      BY <2>2 DEF MakeUnread, FieldsAgree
    <3> QED  BY <3>4, <3>5 DEF ExchangeIInv
  <2>3. CASE Deliver
    BY <2>3, DeliverAgrees DEF ExchangeIInv
  <2>4. CASE UNCHANGED exchangeVars
    BY <2>4 DEF exchangeVars, ExchangeIInv, Agreed, FieldsAgree
  <2> QED  BY <2>1, <2>2, <2>3, <2>4 DEF ExchangeNext
<1>3. ExchangeIInv => FieldsAgree
  BY DEF ExchangeIInv
<1> QED  BY <1>1, <1>2, <1>3, PTL DEF ExchangeSpec

=============================================================================
