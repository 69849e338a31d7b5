-------------------------- MODULE ServerSessionsProofs --------------------------
(***************************************************************************)
(* Theorems about ServerSessions, for every set of players, every size of  *)
(* the lobby and any number of programs that start, end and say that they  *)
(* leave.                                                                  *)
(*                                                                         *)
(* The packets of a connection are read as one sequence: those on their    *)
(* way to the client, then those its session has not sent yet.             *)
(***************************************************************************)
EXTENDS ServerSessions, SequenceTheorems, TLAPS

SessionType ==
  [ state : {"pending", "open", "erased"}, profile : Player \cup {NoProfile},
    broken : BOOLEAN, marked : BOOLEAN, expired : BOOLEAN, out : Seq(Packet) ]

ClientType ==
  [ player : Player \cup {NoProfile}, up : BOOLEAN, initialized : BOOLEAN,
    sync : {"Unsynced", "Syncing", "Synced"}, known : SUBSET Player, told : BOOLEAN,
    quit : BOOLEAN ]

TypeInv ==
  /\ TypeOK
  /\ toServer \in [Connection -> Seq(Packet)]
  /\ toClient \in [Connection -> Seq(Packet)]

Welcomes(s) == {i \in 1..Len(s) : s[i].type = "Welcome"}

AtMostOneWelcome(s) == \A i, j \in Welcomes(s) : i = j

Refuses(s) == \E i \in 1..Len(s) : s[i].type = "ServerDisconnect"

-----------------------------------------------------------------------------
(* Packets and sequences of them *)

\* What a packet carries, by its type.
LEMMA PacketFields ==
  ASSUME NEW m \in Packet
  PROVE  /\ m.type \in {"Hello", "UpdateRequest", "PlayerDisconnected", "ServerDisconnect",
                        "Welcome", "NotifyPlayerConnected", "NotifyPlayerDisconnected"}
         /\ m.type = "Welcome" => m.members \in SUBSET Player
         /\ m.type = "NotifyPlayerConnected" => m.player \in Player
         /\ m.type = "NotifyPlayerDisconnected" => m.player \in Player
         /\ m = ServerDisconnect <=> m.type = "ServerDisconnect"
BY DEF Packet, Hello, UpdateRequest, PlayerDisconnected, ServerDisconnect

\* The packets are packets, and each has the type it is named for.
LEMMA PacketsAre ==
  /\ Hello \in Packet /\ Hello.type = "Hello"
  /\ UpdateRequest \in Packet /\ UpdateRequest.type = "UpdateRequest"
  /\ PlayerDisconnected \in Packet /\ PlayerDisconnected.type = "PlayerDisconnected"
  /\ ServerDisconnect \in Packet /\ ServerDisconnect.type = "ServerDisconnect"
  /\ \A M \in SUBSET Player : /\ Welcome(M) \in Packet /\ Welcome(M).type = "Welcome"
                              /\ Welcome(M).members = M
  /\ \A p \in Player : /\ NotifyPlayerConnected(p) \in Packet
                       /\ NotifyPlayerConnected(p).type = "NotifyPlayerConnected"
                       /\ NotifyPlayerConnected(p).player = p
                       /\ NotifyPlayerDisconnected(p) \in Packet
                       /\ NotifyPlayerDisconnected(p).type = "NotifyPlayerDisconnected"
                       /\ NotifyPlayerDisconnected(p).player = p
BY DEF Packet, Hello, UpdateRequest, PlayerDisconnected, ServerDisconnect, Welcome,
       NotifyPlayerConnected, NotifyPlayerDisconnected

\* The refusal is looked for as a packet or by its type.
LEMMA RefusedByType ==
  ASSUME NEW s \in Seq(Packet)
  PROVE  ServerDisconnect \in Range(s) <=> Refuses(s)
BY PacketFields, LenProperties, ElementOfSeq DEF Range, Refuses

\* What an appended packet changes.
LEMMA OneMore ==
  ASSUME NEW s \in Seq(Packet), NEW m \in Packet, NEW K \in SUBSET Player
  PROVE  /\ Append(s, m) \in Seq(Packet)
         /\ m.type # "Welcome" => Welcomes(Append(s, m)) = Welcomes(s)
         /\ m.type = "Welcome" => Welcomes(Append(s, m)) = Welcomes(s) \cup {Len(s) + 1}
         /\ Refuses(Append(s, m)) <=> Refuses(s) \/ m.type = "ServerDisconnect"
         /\ knownIfApplied(K, Append(s, m)) =
              {p \in Player : puts(m, p) \/ (p \in knownIfApplied(K, s) /\ ~takes(m, p))}
<1> DEFINE t == Append(s, m)
<1>1. /\ Len(s) \in Nat /\ t \in Seq(Packet) /\ Len(t) = Len(s) + 1 /\ t[Len(s) + 1] = m
      /\ \A i \in 1..Len(s) : t[i] = s[i]
  BY LenProperties, AppendProperties
<1> HIDE DEF t
<1>2. m.type # "Welcome" => Welcomes(t) = Welcomes(s)
  BY <1>1 DEF Welcomes
<1>3. m.type = "Welcome" => Welcomes(t) = Welcomes(s) \cup {Len(s) + 1}
  BY <1>1 DEF Welcomes
<1>4. Refuses(t) <=> Refuses(s) \/ m.type = "ServerDisconnect"
  BY <1>1 DEF Refuses
<1>5. ASSUME NEW p \in Player
      PROVE  p \in knownIfApplied(K, t) <=> puts(m, p) \/ (p \in knownIfApplied(K, s) /\ ~takes(m, p))
  <2>1. (\A j \in 1..Len(t) : ~takes(t[j], p)) <=>
          (\A j \in 1..Len(s) : ~takes(s[j], p)) /\ ~takes(m, p)
    BY <1>1
  <2>2. (\E i \in 1..Len(t) : puts(t[i], p) /\ \A j \in (i + 1)..Len(t) : ~takes(t[j], p)) <=>
          \/ puts(m, p)
          \/ /\ \E i \in 1..Len(s) : puts(s[i], p) /\ \A j \in (i + 1)..Len(s) : ~takes(s[j], p)
             /\ ~takes(m, p)
    BY <1>1
  <2> QED  BY <2>1, <2>2 DEF knownIfApplied
<1>6. knownIfApplied(K, t) = {p \in Player : puts(m, p) \/ (p \in knownIfApplied(K, s) /\ ~takes(m, p))}
  BY <1>5 DEF knownIfApplied
<1> QED  BY <1>1, <1>2, <1>3, <1>4, <1>6 DEF t

\* What is left when the first packet has been taken.
LEMMA OneLess ==
  ASSUME NEW s \in Seq(Packet), s # <<>>, NEW K \in SUBSET Player, NEW L \in SUBSET Player,
         \A p \in Player : p \in L <=> puts(Head(s), p) \/ (p \in K /\ ~takes(Head(s), p))
  PROVE  /\ Tail(s) \in Seq(Packet) /\ Head(s) \in Packet
         /\ AtMostOneWelcome(s) => AtMostOneWelcome(Tail(s))
         /\ AtMostOneWelcome(s) /\ Head(s).type = "Welcome" => Welcomes(Tail(s)) = {}
         /\ Head(s).type = "Welcome" => Welcomes(s) # {}
         /\ Welcomes(s) = {} => Welcomes(Tail(s)) = {}
         /\ Head(s).type # "Welcome" /\ Welcomes(s) # {} => Welcomes(Tail(s)) # {}
         /\ Refuses(s) <=> Refuses(Tail(s)) \/ Head(s).type = "ServerDisconnect"
         /\ knownIfApplied(K, s) = knownIfApplied(L, Tail(s))
<1> DEFINE t == Tail(s)
           m == Head(s)
<1>1. /\ Len(s) \in Nat \ {0} /\ t \in Seq(Packet) /\ Len(t) = Len(s) - 1 /\ s[1] = m
      /\ m \in Packet
      /\ \A i \in 1..Len(t) : t[i] = s[i + 1]
  BY LenProperties, HeadTailProperties, EmptySeq
<1>2. \A i \in 2..Len(s) : i - 1 \in 1..Len(t) /\ s[i] = t[i - 1]
  BY <1>1
<1> HIDE DEF t, m
<1>3. \A i \in 1..Len(t) : i \in Welcomes(t) <=> i + 1 \in Welcomes(s)
  BY <1>1 DEF Welcomes
<1>4. 1 \in Welcomes(s) <=> m.type = "Welcome"
  BY <1>1 DEF Welcomes
<1>5. \A i \in Welcomes(s) : i = 1 \/ i - 1 \in Welcomes(t)
  BY <1>1, <1>2 DEF Welcomes
<1>6. Welcomes(t) \subseteq 1..Len(t)
  BY DEF Welcomes
<1>7. /\ AtMostOneWelcome(s) => AtMostOneWelcome(t)
      /\ AtMostOneWelcome(s) /\ m.type = "Welcome" => Welcomes(t) = {}
      /\ m.type = "Welcome" => Welcomes(s) # {}
      /\ Welcomes(s) = {} => Welcomes(t) = {}
      /\ m.type # "Welcome" /\ Welcomes(s) # {} => Welcomes(t) # {}
  <2>1. AtMostOneWelcome(s) => AtMostOneWelcome(t)
    <3>1. \A i, j \in 1..Len(t) : i + 1 = j + 1 => i = j
      BY <1>1
    <3> QED  BY <1>3, <1>6, <3>1 DEF AtMostOneWelcome
  <2>2. ASSUME AtMostOneWelcome(s), m.type = "Welcome", NEW i \in Welcomes(t)  PROVE FALSE
    <3>1. i \in 1..Len(t) /\ i + 1 # 1
      BY <1>1, <1>6
    <3> QED  BY <1>3, <1>4, <1>6, <2>2, <3>1 DEF AtMostOneWelcome
  <2>3. Welcomes(s) = {} => Welcomes(t) = {}
    BY <1>3, <1>6
  <2>4. m.type # "Welcome" /\ Welcomes(s) # {} => Welcomes(t) # {}
    BY <1>4, <1>5
  <2> QED  BY <1>4, <2>1, <2>2, <2>3, <2>4
<1>8. Refuses(s) <=> Refuses(t) \/ m.type = "ServerDisconnect"
  BY <1>1, <1>2 DEF Refuses
<1>9. ASSUME NEW p \in Player
      PROVE  p \in knownIfApplied(K, s) <=> p \in knownIfApplied(L, t)
  <2>1. (\A j \in 1..Len(s) : ~takes(s[j], p)) <=>
          (\A j \in 1..Len(t) : ~takes(t[j], p)) /\ ~takes(m, p)
    <3>1. \A j \in 1..Len(t) : j + 1 \in 1..Len(s) /\ t[j] = s[j + 1]
      BY <1>1
    <3>2. \A j \in 1..Len(s) : j = 1 \/ j \in 2..Len(s)
      BY <1>1
    <3>3. 1 \in 1..Len(s) /\ s[1] = m
      BY <1>1
    <3> QED  BY <1>2, <3>1, <3>2, <3>3
  <2>2. \A i \in 1..Len(t) :
          (\A j \in (i + 2)..Len(s) : ~takes(s[j], p)) <=>
          (\A j \in (i + 1)..Len(t) : ~takes(t[j], p))
    <3> SUFFICES ASSUME NEW i \in 1..Len(t)
                 PROVE  (\A j \in (i + 2)..Len(s) : ~takes(s[j], p)) <=>
                        (\A j \in (i + 1)..Len(t) : ~takes(t[j], p))
      OBVIOUS
    <3>1. \A j \in (i + 1)..Len(t) : j + 1 \in (i + 2)..Len(s) /\ t[j] = s[j + 1]
      BY <1>1
    <3>2. \A j \in (i + 2)..Len(s) : j - 1 \in (i + 1)..Len(t) /\ s[j] = t[j - 1]
      BY <1>1, <1>2
    <3> QED  BY <3>1, <3>2
  <2>3. (\A j \in 2..Len(s) : ~takes(s[j], p)) <=> (\A j \in 1..Len(t) : ~takes(t[j], p))
    BY <1>1, <1>2
  <2>4. (\E i \in 1..Len(s) : puts(s[i], p) /\ \A j \in (i + 1)..Len(s) : ~takes(s[j], p)) <=>
          \/ puts(m, p) /\ \A j \in 2..Len(s) : ~takes(s[j], p)
          \/ \E i \in 1..Len(t) : puts(t[i], p) /\ \A j \in (i + 2)..Len(s) : ~takes(s[j], p)
    <3>1. \A i \in 2..Len(s) : (i - 1) + 2 = i + 1 /\ i - 1 \in 1..Len(t) /\ s[i] = t[i - 1]
      BY <1>2
    <3>2. \A i \in 1..Len(t) : (i + 1) + 1 = i + 2 /\ i + 1 \in 1..Len(s) /\ s[i + 1] = t[i]
      BY <1>1
    <3>3. 1 \in 1..Len(s) /\ s[1] = m /\ 1 + 1 = 2
      BY <1>1
    <3>4. ASSUME NEW i \in 1..Len(s), puts(s[i], p),
                 \A j \in (i + 1)..Len(s) : ~takes(s[j], p)
          PROVE  \/ puts(m, p) /\ \A j \in 2..Len(s) : ~takes(s[j], p)
                 \/ \E n \in 1..Len(t) : puts(t[n], p) /\ \A j \in (n + 2)..Len(s) : ~takes(s[j], p)
      <4>1. CASE i = 1
        BY <4>1, <3>3, <3>4
      <4>2. CASE i # 1
        <5>1. i \in 2..Len(s)
          BY <4>2
        <5>2. PICK n \in 1..Len(t) : n = i - 1
          BY <5>1, <3>1
        <5>3. puts(t[n], p) /\ n + 2 = i + 1
          BY <5>1, <5>2, <3>1, <3>4
        <5> QED  BY <5>3, <3>4
      <4> QED  BY <4>1, <4>2
    <3>5. ASSUME NEW n \in 1..Len(t), puts(t[n], p),
                 \A j \in (n + 2)..Len(s) : ~takes(s[j], p)
          PROVE  \E i \in 1..Len(s) : puts(s[i], p) /\ \A j \in (i + 1)..Len(s) : ~takes(s[j], p)
      <4>1. PICK i \in 1..Len(s) : i = n + 1
        BY <3>2
      <4>2. puts(s[i], p) /\ i + 1 = n + 2
        BY <4>1, <3>2, <3>5
      <4> QED  BY <4>2, <3>5
    <3>6. puts(m, p) /\ (\A j \in 2..Len(s) : ~takes(s[j], p)) =>
            \E i \in 1..Len(s) : puts(s[i], p) /\ \A j \in (i + 1)..Len(s) : ~takes(s[j], p)
      BY <3>3
    <3> QED  BY <3>4, <3>5, <3>6
  <2>5. p \in L <=> puts(m, p) \/ (p \in K /\ ~takes(m, p))
    BY DEF m
  <2> QED  BY <2>1, <2>2, <2>3, <2>4, <2>5 DEF knownIfApplied
<1>10. knownIfApplied(K, s) = knownIfApplied(L, t)
  BY <1>9 DEF knownIfApplied
<1> QED  BY <1>1, <1>7, <1>8, <1>10 DEF t, m

\* Without a packet nothing changes; after a welcome it does not matter who was known.
LEMMA KnownAtTheEnds ==
  ASSUME NEW K \in SUBSET Player
  PROVE  /\ Welcomes(<<>>) = {} /\ ~Refuses(<<>>) /\ knownIfApplied(K, <<>>) = K
         /\ \A s \in Seq(Packet), L \in SUBSET Player :
              Welcomes(s) # {} => knownIfApplied(K, s) = knownIfApplied(L, s)
<1>1. Welcomes(<<>>) = {} /\ ~Refuses(<<>>) /\ knownIfApplied(K, <<>>) = K
  BY DEF Welcomes, Refuses, knownIfApplied
<1>2. ASSUME NEW s \in Seq(Packet), NEW L \in SUBSET Player, NEW w \in Welcomes(s),
             NEW p \in Player, p \in knownIfApplied(K, s)
      PROVE  p \in knownIfApplied(L, s)
  <2>1. w \in 1..Len(s) /\ s[w].type = "Welcome" /\ Len(s) \in Nat
    BY LenProperties DEF Welcomes
  <2>2. CASE \A j \in 1..Len(s) : ~takes(s[j], p)
    <3>1. puts(s[w], p)
      BY <2>1, <2>2 DEF puts, takes
    <3>2. \A j \in (w + 1)..Len(s) : ~takes(s[j], p)
      BY <2>1, <2>2
    <3> QED  BY <2>1, <3>1, <3>2 DEF knownIfApplied
  <2>3. CASE \E i \in 1..Len(s) : puts(s[i], p) /\ \A j \in (i + 1)..Len(s) : ~takes(s[j], p)
    BY <2>3 DEF knownIfApplied
  <2> QED  BY <1>2, <2>2, <2>3 DEF knownIfApplied
<1>3. \A s \in Seq(Packet), L \in SUBSET Player, p \in Player :
        Welcomes(s) # {} => (p \in knownIfApplied(K, s) => p \in knownIfApplied(L, s))
  BY <1>2
<1>4. ASSUME NEW s \in Seq(Packet), NEW L \in SUBSET Player, NEW w \in Welcomes(s),
             NEW p \in Player, p \in knownIfApplied(L, s)
      PROVE  p \in knownIfApplied(K, s)
  <2>1. w \in 1..Len(s) /\ s[w].type = "Welcome" /\ Len(s) \in Nat
    BY LenProperties DEF Welcomes
  <2>2. CASE \A j \in 1..Len(s) : ~takes(s[j], p)
    <3>1. puts(s[w], p)
      BY <2>1, <2>2 DEF puts, takes
    <3>2. \A j \in (w + 1)..Len(s) : ~takes(s[j], p)
      BY <2>1, <2>2
    <3> QED  BY <2>1, <3>1, <3>2 DEF knownIfApplied
  <2>3. CASE \E i \in 1..Len(s) : puts(s[i], p) /\ \A j \in (i + 1)..Len(s) : ~takes(s[j], p)
    BY <2>3 DEF knownIfApplied
  <2> QED  BY <1>4, <2>2, <2>3 DEF knownIfApplied
<1>5. \A s \in Seq(Packet), L \in SUBSET Player :
        Welcomes(s) # {} => knownIfApplied(K, s) = knownIfApplied(L, s)
  BY <1>3, <1>4 DEF knownIfApplied
<1> QED  BY <1>1, <1>5

-----------------------------------------------------------------------------
(* The invariant, one connection at a time *)

\* A connection that was not accepted has a new session and was sent nothing.
Pending(k) ==
  session[k].state = "pending" => session[k] = newSession /\ toClient[k] = <<>>

\* A session without a profile has its hello before it, and nothing else; its client
\* has not been welcomed and never will be twice.
Anonymous(k) ==
  session[k].state # "erased" /\ session[k].profile = NoProfile =>
    /\ started(k) => toServer[k] = <<Hello>>
    /\ ~started(k) => toServer[k] = <<>>
    /\ ~client[k].initialized /\ client[k].sync = "Unsynced" /\ ~client[k].quit
    /\ Welcomes(onTheWay(k)) = {}

\* A session with a profile has had its one hello; until the client has its one answer,
\* the answer is on its way.
Identified(k) ==
  session[k].profile # NoProfile =>
    /\ open(k) /\ session[k].profile = client[k].player /\ session[k].profile \in profiles
    /\ \A i \in 1..Len(toServer[k]) : toServer[k][i].type # "Hello"
    /\ AtMostOneWelcome(onTheWay(k))
    /\ client[k].sync # "Unsynced" => Welcomes(onTheWay(k)) = {}
    /\ client[k].up /\ client[k].sync = "Unsynced" /\ ~wasRefused(k) =>
         Welcomes(onTheWay(k)) # {}

\* A connection nobody has made.
Unused(k) == ~started(k) => session[k].state = "pending" /\ ~client[k].up

\* Who sends that it leaves has left.
SaysThatItLeaves(k) ==
  \A i \in 1..Len(toServer[k]) : toServer[k][i].type = "PlayerDisconnected" => client[k].quit

Link(k) ==
  Pending(k) /\ Anonymous(k) /\ Identified(k) /\ Unused(k) /\ SaysThatItLeaves(k)

(***************************************************************************)
(* What a client will know if it refuses none of the packets on their way  *)
(* (one that refuses is Syncing, and nothing is said of it), also when its *)
(* own player is no longer in the lobby: a player is not notified of       *)
(* itself, so a session that was put out does not hear of its player's     *)
(* going and coming back.                                                  *)
(***************************************************************************)
Knows(k) ==
  session[k].profile # NoProfile /\ client[k].up /\ client[k].sync # "Syncing"
    /\ ~wasRefused(k) =>
    knownIfApplied(client[k].known, onTheWay(k)) = members \cup {session[k].profile}

IInv ==
  /\ TypeInv
  /\ OneLivingSession
  /\ LivingInLobby
  /\ \A k \in Connection : Link(k) /\ Knows(k)

\* A new session.
LEMMA NewSession ==
  /\ newSession \in SessionType /\ newSession.state = "pending" /\ newSession.out = <<>>
  /\ newSession.profile = NoProfile /\ ~newSession.marked
BY EmptySeq DEF newSession, SessionType

\* The parts of the state that belong to a connection.
LEMMA TypeOfParts ==
  ASSUME TypeInv, NEW k \in Connection
  PROVE  /\ session \in [Connection -> SessionType] /\ session[k] \in SessionType
         /\ client \in [Connection -> ClientType] /\ client[k] \in ClientType
         /\ toServer[k] \in Seq(Packet) /\ toClient[k] \in Seq(Packet)
         /\ session[k].out \in Seq(Packet) /\ client[k].known \in SUBSET Player
         /\ onTheWay(k) \in Seq(Packet)
         /\ profiles \in SUBSET Player /\ members \in SUBSET profiles
         /\ members \in SUBSET Player
<1>1. session \in [Connection -> SessionType] /\ client \in [Connection -> ClientType]
  BY DEF TypeInv, TypeOK, SessionType, ClientType
<1>2. session[k] \in SessionType /\ client[k] \in ClientType
  BY <1>1
<1>3. session[k].out \in Seq(Packet) /\ client[k].known \in SUBSET Player
  BY <1>2 DEF SessionType, ClientType
<1>4. toServer[k] \in Seq(Packet) /\ toClient[k] \in Seq(Packet)
  BY DEF TypeInv
<1>5. onTheWay(k) \in Seq(Packet)
  BY <1>3, <1>4, ConcatProperties DEF onTheWay
<1>6. profiles \in SUBSET Player /\ members \in SUBSET profiles /\ members \in SUBSET Player
  BY DEF TypeInv, TypeOK
<1> QED  BY <1>1, <1>2, <1>3, <1>4, <1>5, <1>6

\* What a step of others leaves of a connection.
Kept(k) ==
  /\ session'[k].state = session[k].state /\ session'[k].profile = session[k].profile
  /\ session'[k].out = session[k].out
  /\ session[k].state = "pending" => session'[k] = session[k]
  /\ client'[k] = client[k] /\ toServer'[k] = toServer[k] /\ toClient'[k] = toClient[k]

\* A connection that a step leaves as it is keeps its invariant.
LEMMA KeptLink ==
  ASSUME NEW k \in Connection, Link(k), Kept(k), profiles \subseteq profiles'
  PROVE  Link(k)'
BY DEF Kept, Link, Pending, Anonymous, Identified, Unused, SaysThatItLeaves, open, started,
       wasRefused, onTheWay

\* And its client still comes to know the lobby, if that has not changed for it.
LEMMA KeptKnows ==
  ASSUME NEW k \in Connection, Knows(k), Kept(k),
         session[k].profile # NoProfile =>
           members' \cup {session[k].profile} = members \cup {session[k].profile}
  PROVE  Knows(k)'
BY DEF Kept, Knows, wasRefused, onTheWay

\* A packet added to a session's queue is the last one on its way.
LEMMA SentIsLast ==
  ASSUME NEW s \in Seq(Packet), NEW t \in Seq(Packet), NEW m \in Packet
  PROVE  s \o Append(t, m) = Append(s \o t, m)
<1>1. s \o Append(t, m) \in Seq(Packet) /\ Append(s \o t, m) \in Seq(Packet)
  BY ConcatProperties, AppendProperties
<1>2. Len(s \o Append(t, m)) = Len(Append(s \o t, m))
  BY ConcatProperties, AppendProperties, LenProperties
<1>3. \A i \in 1..Len(s \o Append(t, m)) : (s \o Append(t, m))[i] = Append(s \o t, m)[i]
  BY SMT
<1> QED  BY <1>1, <1>2, <1>3, SeqEqual

\* What a step that notifies a session leaves of its connection.
Notified(k, m) ==
  /\ m \in Packet /\ m.type \in {"NotifyPlayerConnected", "NotifyPlayerDisconnected"}
  /\ open(k) /\ session'[k].state = "open" /\ session'[k].profile = session[k].profile
  /\ session'[k].out = Append(session[k].out, m)
  /\ client'[k] = client[k] /\ toServer'[k] = toServer[k] /\ toClient'[k] = toClient[k]

\* The packets on the way to a client that is notified.
LEMMA NotifiedWay ==
  ASSUME TypeInv, NEW k \in Connection, NEW m, Notified(k, m)
  PROVE  /\ onTheWay(k)' = Append(onTheWay(k), m)
         /\ Welcomes(onTheWay(k)') = Welcomes(onTheWay(k))
         /\ wasRefused(k)' <=> wasRefused(k)
         /\ knownIfApplied(client[k].known, onTheWay(k)') =
              {p \in Player : puts(m, p) \/ (p \in knownIfApplied(client[k].known, onTheWay(k))
                                              /\ ~takes(m, p))}
<1>1. onTheWay(k)' = Append(onTheWay(k), m)
  BY TypeOfParts, SentIsLast DEF Notified, onTheWay
<1>2. m \in Packet /\ m.type # "Welcome" /\ m.type # "ServerDisconnect"
  BY DEF Notified
<1>3. /\ onTheWay(k) \in Seq(Packet) /\ client[k].known \in SUBSET Player
      /\ Append(onTheWay(k), m) \in Seq(Packet)
  BY <1>2, TypeOfParts, AppendProperties
<1>4. wasRefused(k)' <=> wasRefused(k)
  <2>1. ServerDisconnect \in Range(onTheWay(k)) <=> Refuses(onTheWay(k))
    BY <1>3, RefusedByType
  <2>2. ServerDisconnect \in Range(Append(onTheWay(k), m)) <=> Refuses(Append(onTheWay(k), m))
    BY <1>3, RefusedByType
  <2>3. Refuses(Append(onTheWay(k), m)) <=> Refuses(onTheWay(k))
    BY <1>2, <1>3, OneMore
  <2>4. client'[k] = client[k]
    BY DEF Notified
  <2> QED  BY <1>1, <2>1, <2>2, <2>3, <2>4 DEF wasRefused
<1> QED  BY <1>1, <1>2, <1>3, <1>4, OneMore

\* A connection that is notified keeps its invariant.
LEMMA NotifiedLink ==
  ASSUME TypeInv, NEW k \in Connection, Link(k), NEW m, Notified(k, m), profiles \subseteq profiles'
  PROVE  Link(k)'
<1>1. Welcomes(onTheWay(k)') = Welcomes(onTheWay(k)) /\ (wasRefused(k)' <=> wasRefused(k))
  BY NotifiedWay
<1>2. Pending(k)' /\ Unused(k)' /\ SaysThatItLeaves(k)'
  BY DEF Link, Pending, Unused, SaysThatItLeaves, Notified, open, started
<1>3. Anonymous(k)'
  BY <1>1 DEF Link, Anonymous, Notified, open, started
<1>4. Identified(k)'
  BY <1>1 DEF Link, Identified, Notified, open, AtMostOneWelcome
<1> QED  BY <1>2, <1>3, <1>4 DEF Link

\* A client that is notified of what changes comes to know it.
LEMMA NotifiedKnows ==
  ASSUME TypeInv, NEW k \in Connection, Knows(k), NEW m, Notified(k, m),
         session[k].profile # NoProfile =>
           members' \cup {session[k].profile} =
             {p \in Player : puts(m, p) \/ (p \in members \cup {session[k].profile}
                                             /\ ~takes(m, p))}
  PROVE  Knows(k)'
<1>1. /\ wasRefused(k)' <=> wasRefused(k)
      /\ knownIfApplied(client[k].known, onTheWay(k)') =
           {p \in Player : puts(m, p) \/ (p \in knownIfApplied(client[k].known, onTheWay(k))
                                           /\ ~takes(m, p))}
  BY NotifiedWay
<1>2. client'[k] = client[k] /\ session'[k].profile = session[k].profile
  BY DEF Notified
<1> QED  BY <1>1, <1>2 DEF Knows

-----------------------------------------------------------------------------
(* The beginning *)

\* The invariant holds at the start, of an empty server and of a full lobby.
LEMMA InitInv == Init => IInv
<1> SUFFICES ASSUME Init  PROVE IInv
  OBVIOUS
<1>1. /\ profiles \in SUBSET Player /\ members = profiles /\ isOpen = TRUE
      /\ left \in [starts : Nat, quits : Nat]
      /\ toServer = [k \in Connection |-> <<>>] /\ toClient = [k \in Connection |-> <<>>]
  BY SessionsAssumption DEF Init
<1>2. PICK player \in [1..Cardinality(profiles) -> profiles] :
        /\ IsInjective(player)
        /\ session = [k \in Connection |->
             IF k \in DOMAIN player THEN connected(player[k], members).session ELSE newSession]
        /\ client = [k \in Connection |->
             IF k \in DOMAIN player THEN connected(player[k], members).client ELSE noClient]
  BY DEF Init
<1>3. <<>> \in Seq(Packet) /\ Len(<<>>) = 0
  BY EmptySeq
<1>4. newSession \in SessionType /\ newSession.state = "pending" /\ newSession.out = <<>>
        /\ newSession.profile = NoProfile
  BY NewSession
<1>5. /\ noClient \in ClientType /\ noClient.player = NoProfile /\ ~noClient.up
      /\ ~noClient.initialized /\ noClient.sync = "Unsynced" /\ ~noClient.quit
  BY DEF noClient, newClient, ClientType
<1>6. ASSUME NEW p \in Player
      PROVE  /\ connected(p, members).session \in SessionType
             /\ connected(p, members).session.state = "open"
             /\ connected(p, members).session.profile = p
             /\ connected(p, members).session.out = <<>>
             /\ connected(p, members).client \in ClientType
             /\ connected(p, members).client.player = p
             /\ connected(p, members).client.sync = "Synced"
             /\ connected(p, members).client.known = members
             /\ ~connected(p, members).client.quit
  BY <1>1, <1>3 DEF connected, newSession, newClient, SessionType, ClientType
<1>7. \A k \in DOMAIN player : player[k] \in Player /\ player[k] \in profiles
  BY <1>1
<1>8. session \in [Connection -> SessionType] /\ client \in [Connection -> ClientType]
  BY <1>2, <1>4, <1>5, <1>6, <1>7
<1>9. TypeInv
  BY <1>1, <1>3, <1>8 DEF TypeInv, TypeOK, SessionType, ClientType
<1>10. ASSUME NEW k \in Connection
       PROVE  \/ /\ session[k] = newSession /\ client[k] = noClient
                 /\ toServer[k] = <<>> /\ toClient[k] = <<>>
              \/ /\ k \in DOMAIN player
                 /\ session[k].state = "open" /\ session[k].profile = player[k]
                 /\ session[k].profile \in Player /\ session[k].profile \in profiles
                 /\ session[k].out = <<>>
                 /\ client[k].player = player[k] /\ client[k].sync = "Synced"
                 /\ client[k].known = members /\ ~client[k].quit
                 /\ toServer[k] = <<>> /\ toClient[k] = <<>>
  BY <1>1, <1>2, <1>6, <1>7
<1>11. OneLivingSession
  <2>1. ASSUME NEW j \in Connection, NEW k \in Connection, living(j), living(k),
               session[j].profile = session[k].profile
        PROVE  j = k
    <3>1. j \in DOMAIN player /\ k \in DOMAIN player /\ player[j] = player[k]
      BY <1>4, <1>10, <2>1 DEF living, open
    <3> QED  BY <1>2, <3>1 DEF IsInjective
  <2> QED  BY <2>1 DEF OneLivingSession
<1>12. LivingInLobby
  BY <1>1, <1>4, <1>10 DEF LivingInLobby, living, open
<1>13. ASSUME NEW k \in Connection  PROVE Link(k) /\ Knows(k)
  <2>1. /\ session[k].out = <<>> /\ toServer[k] = <<>> /\ toClient[k] = <<>> /\ ~client[k].quit
    BY <1>4, <1>5, <1>10
  <2>2. onTheWay(k) = <<>>
    BY <2>1, ConcatEmptySeq, <1>3 DEF onTheWay
  <2>3. members \in SUBSET Player
    BY <1>1
  <2>4. Welcomes(<<>>) = {} /\ knownIfApplied(members, <<>>) = members
    BY <2>3, KnownAtTheEnds
  <2>5. CASE session[k] = newSession /\ client[k] = noClient
    <3>1. Pending(k) /\ Unused(k) /\ Identified(k) /\ SaysThatItLeaves(k) /\ Knows(k)
      BY <1>3, <1>4, <1>5, <2>1, <2>5
      DEF Pending, Unused, Identified, SaysThatItLeaves, Knows, started
    <3>2. Anonymous(k)
      BY <1>4, <1>5, <2>1, <2>2, <2>4, <2>5 DEF Anonymous, started
    <3> QED  BY <3>1, <3>2 DEF Link
  <2>6. CASE /\ session[k].state = "open" /\ session[k].profile \in Player
             /\ session[k].profile \in profiles /\ session[k].profile = client[k].player
             /\ client[k].sync = "Synced" /\ client[k].known = members
    <3>1. session[k].profile # NoProfile
      BY <2>6, NoProfileAssumption
    <3>2. Pending(k) /\ Unused(k) /\ Anonymous(k) /\ SaysThatItLeaves(k)
      BY <1>3, <2>1, <2>6, <3>1
      DEF Pending, Unused, Anonymous, SaysThatItLeaves, started
    <3>3. Identified(k)
      BY <1>3, <2>1, <2>2, <2>4, <2>6 DEF Identified, AtMostOneWelcome, open
    <3>4. Knows(k)
      BY <1>1, <2>2, <2>4, <2>6 DEF Knows
    <3> QED  BY <3>2, <3>3, <3>4 DEF Link
  <2> QED  BY <1>10, <2>5, <2>6
<1> QED  BY <1>9, <1>11, <1>12, <1>13 DEF IInv

-----------------------------------------------------------------------------
(* The sessions that are to stay *)

\* No session comes to life, and whose word it was that took a player out is remembered.
LEMMA KeptLiving ==
  ASSUME TypeInv, OneLivingSession, LivingInLobby,
         \A k \in Connection :
           /\ living(k)' => living(k) /\ session'[k].profile = session[k].profile
           /\ client[k].quit => client'[k].quit /\ client'[k].player = client[k].player,
         \A p \in members : p \in members' \/ hasLeft(p)'
  PROVE  OneLivingSession' /\ LivingInLobby'
<1>1. OneLivingSession'
  BY DEF OneLivingSession
<1>2. \A p : hasLeft(p) => hasLeft(p)'
  BY DEF hasLeft
<1>3. LivingInLobby'
  BY <1>2 DEF LivingInLobby
<1> QED  BY <1>1, <1>3

-----------------------------------------------------------------------------
(* The programs *)

\* A program that starts makes a connection that nobody has made.
LEMMA StartInv ==
  ASSUME IInv, NEW p \in Player, Start(p)
  PROVE  IInv'
<1>1. PICK k \in Connection :
        /\ {j \in Connection : started(j)} = 1..(k - 1)
        /\ client' = [client EXCEPT ![k] = newClient(p)]
        /\ toServer' = [toServer EXCEPT ![k] = <<Hello>>]
  BY DEF Start
<1>2. /\ left' = [left EXCEPT !.starts = @ - 1] /\ left.starts > 0
      /\ UNCHANGED <<profiles, members, isOpen, session, toClient>>
  BY DEF Start
<1>3. ~started(k)
  <2>1. k \in Int
    BY DEF Connection
  <2>2. k \notin 1..(k - 1)
    BY <2>1
  <2> QED  BY <1>1, <2>2
<1>4. TypeInv /\ OneLivingSession /\ LivingInLobby /\ \A j \in Connection : Link(j) /\ Knows(j)
  BY DEF IInv
<1>5. /\ newClient(p) \in ClientType /\ newClient(p).player = p
      /\ ~newClient(p).initialized /\ newClient(p).sync = "Unsynced" /\ ~newClient(p).quit
  BY DEF newClient, ClientType
<1>6. /\ session \in [Connection -> SessionType] /\ client \in [Connection -> ClientType]
      /\ session' = session
  BY <1>2, <1>3, <1>4, TypeOfParts
<1>7. /\ client'[k] = newClient(p) /\ toServer'[k] = <<Hello>> /\ toClient'[k] = toClient[k]
      /\ session'[k] = session[k]
      /\ \A j \in Connection \ {k} : client'[j] = client[j] /\ toServer'[j] = toServer[j]
  BY <1>1, <1>2, <1>4, <1>6 DEF TypeInv
<1>8. <<Hello>> \in Seq(Packet) /\ Len(<<Hello>>) = 1 /\ <<Hello>>[1] = Hello
  BY PacketsAre
<1>9. TypeInv'
  <2>1. client' \in [Connection -> ClientType]
    BY <1>1, <1>5, <1>6
  <2>2. toServer' \in [Connection -> Seq(Packet)] /\ toClient' \in [Connection -> Seq(Packet)]
    BY <1>1, <1>2, <1>4, <1>8 DEF TypeInv
  <2>3. left' \in [starts : Nat, quits : Nat]
    <3>1. left \in [starts : Nat, quits : Nat]
      BY <1>4 DEF TypeInv, TypeOK
    <3>2. left.starts - 1 \in Nat
      BY <1>2, <3>1
    <3> QED  BY <1>2, <3>1, <3>2
  <2> QED
    BY <1>2, <1>4, <2>1, <2>2, <2>3 DEF TypeInv, TypeOK, ClientType
<1>10. session[k].state = "pending" /\ ~client[k].quit /\ ~client[k].initialized
  <2>1. session[k].state = "pending"
    BY <1>3, <1>4 DEF Link, Unused
  <2>2. session[k].profile = NoProfile
    BY <1>4, <2>1 DEF Link, Pending, newSession
  <2> QED  BY <1>4, <2>1, <2>2 DEF Link, Anonymous
<1>11. OneLivingSession' /\ LivingInLobby'
  <2>1. \A j \in Connection :
          /\ living(j)' => living(j) /\ session'[j].profile = session[j].profile
          /\ client[j].quit => client'[j].quit /\ client'[j].player = client[j].player
    BY <1>6, <1>7, <1>10 DEF living, open
  <2> QED  BY <1>2, <1>4, <2>1, KeptLiving
<1>12. ASSUME NEW j \in Connection  PROVE Link(j)' /\ Knows(j)'
  <2>1. CASE j # k
    <3>1. Kept(j)
      BY <1>2, <1>7, <2>1 DEF Kept
    <3> QED  BY <1>2, <1>4, <3>1, KeptLink, KeptKnows
  <2>2. CASE j = k
    <3>1. session[k] = newSession /\ session[k].profile = NoProfile /\ toClient[k] = <<>>
      BY <1>4, <1>10, NewSession DEF Link, Pending
    <3>2. Welcomes(onTheWay(k)) = {}
      BY <1>4, <1>10, <3>1 DEF Link, Anonymous
    <3>3. onTheWay(k)' = onTheWay(k)
      BY <1>2, <1>6 DEF onTheWay
    <3>4. client'[k].player = p /\ p # NoProfile
      BY <1>5, <1>7, NoProfileAssumption
    <3>5. Pending(k)' /\ Unused(k)' /\ Identified(k)' /\ Knows(k)'
      BY <1>7, <3>1, <3>4 DEF Pending, Unused, Identified, Knows, started
    <3>6. Anonymous(k)'
      BY <1>5, <1>7, <3>2, <3>3, <3>4 DEF Anonymous, started
    <3>7. SaysThatItLeaves(k)'
      BY <1>7, <1>8, PacketsAre DEF SaysThatItLeaves
    <3> QED  BY <2>2, <3>5, <3>6, <3>7 DEF Link
  <2> QED  BY <2>1, <2>2
<1> QED  BY <1>9, <1>11, <1>12 DEF IInv

\* A program that ends keeps what was said to it and what it said.
LEMMA StopInv ==
  ASSUME IInv, NEW k \in Connection, Stop(k)
  PROVE  IInv'
<1>1. /\ client' = [client EXCEPT ![k].up = FALSE]
      /\ UNCHANGED <<left, profiles, members, isOpen, session, toServer, toClient>>
  BY DEF Stop
<1>2. TypeInv /\ OneLivingSession /\ LivingInLobby /\ \A j \in Connection : Link(j) /\ Knows(j)
  BY DEF IInv
<1>3. client \in [Connection -> ClientType]
  BY <1>2, TypeOfParts
<1>4. /\ client' \in [Connection -> ClientType]
      /\ ~client'[k].up /\ client'[k].player = client[k].player
      /\ client'[k].initialized = client[k].initialized /\ client'[k].sync = client[k].sync
      /\ client'[k].quit = client[k].quit /\ client'[k].told = client[k].told
      /\ \A j \in Connection \ {k} : client'[j] = client[j]
  BY <1>1, <1>3 DEF ClientType
<1>5. TypeInv'
  BY <1>1, <1>2, <1>4 DEF TypeInv, TypeOK, ClientType
<1>6. OneLivingSession' /\ LivingInLobby'
  <2>1. \A j \in Connection :
          /\ living(j)' => living(j) /\ session'[j].profile = session[j].profile
          /\ client[j].quit => client'[j].quit /\ client'[j].player = client[j].player
    BY <1>1, <1>4 DEF living, open
  <2> QED  BY <1>1, <1>2, <2>1, KeptLiving
<1>7. ASSUME NEW j \in Connection  PROVE Link(j)' /\ Knows(j)'
  <2>1. CASE j # k
    <3>1. Kept(j)
      BY <1>1, <1>4, <2>1 DEF Kept
    <3> QED  BY <1>1, <1>2, <3>1, KeptLink, KeptKnows
  <2>2. CASE j = k
    BY <1>1, <1>2, <1>4, <2>2
    DEF Link, Pending, Anonymous, Identified, Unused, SaysThatItLeaves, Knows, open, started,
        onTheWay
  <2> QED  BY <2>1, <2>2
<1> QED  BY <1>5, <1>6, <1>7 DEF IInv

\* A program that leaves was welcomed, so its session has its profile or has been erased.
LEMMA QuitInv ==
  ASSUME IInv, NEW k \in Connection, Quit(k)
  PROVE  IInv'
<1>1. /\ left' = [left EXCEPT !.quits = @ - 1] /\ left.quits > 0
      /\ client[k].up /\ client[k].initialized
      /\ client' = [client EXCEPT ![k].up = FALSE, ![k].quit = TRUE]
      /\ toServer' = [toServer EXCEPT ![k] = Append(@, PlayerDisconnected)]
      /\ UNCHANGED <<profiles, members, isOpen, session, toClient>>
  BY DEF Quit
<1>2. TypeInv /\ OneLivingSession /\ LivingInLobby /\ \A j \in Connection : Link(j) /\ Knows(j)
  BY DEF IInv
<1>3. client \in [Connection -> ClientType] /\ toServer[k] \in Seq(Packet)
  BY <1>2, TypeOfParts
<1>4. /\ client' \in [Connection -> ClientType]
      /\ ~client'[k].up /\ client'[k].player = client[k].player
      /\ client'[k].sync = client[k].sync /\ client'[k].quit
      /\ \A j \in Connection \ {k} : client'[j] = client[j]
  BY <1>1, <1>3 DEF ClientType
<1>5. /\ Append(toServer[k], PlayerDisconnected) \in Seq(Packet)
      /\ toServer'[k] = Append(toServer[k], PlayerDisconnected)
      /\ \A j \in Connection \ {k} : toServer'[j] = toServer[j]
  BY <1>1, <1>2, <1>3, PacketsAre, AppendProperties DEF TypeInv
<1>6. TypeInv'
  <2>1. toServer' \in [Connection -> Seq(Packet)] /\ toClient' \in [Connection -> Seq(Packet)]
    BY <1>1, <1>2, <1>5 DEF TypeInv
  <2>2. left' \in [starts : Nat, quits : Nat]
    <3>1. left \in [starts : Nat, quits : Nat]
      BY <1>2 DEF TypeInv, TypeOK
    <3>2. left.quits - 1 \in Nat
      BY <1>1, <3>1
    <3> QED  BY <1>1, <3>1, <3>2
  <2> QED  BY <1>1, <1>2, <1>4, <2>1, <2>2 DEF TypeInv, TypeOK, ClientType
<1>7. OneLivingSession' /\ LivingInLobby'
  <2>1. \A j \in Connection :
          /\ living(j)' => living(j) /\ session'[j].profile = session[j].profile
          /\ client[j].quit => client'[j].quit /\ client'[j].player = client[j].player
    BY <1>1, <1>4 DEF living, open
  <2> QED  BY <1>1, <1>2, <2>1, KeptLiving
<1>8. ASSUME NEW j \in Connection  PROVE Link(j)' /\ Knows(j)'
  <2>1. CASE j # k
    <3>1. Kept(j)
      BY <1>1, <1>4, <1>5, <2>1 DEF Kept
    <3> QED  BY <1>1, <1>2, <3>1, KeptLink, KeptKnows
  <2>2. CASE j = k
    <3>1. Pending(k)' /\ Anonymous(k)' /\ Unused(k)' /\ SaysThatItLeaves(k)' /\ Knows(k)'
      BY <1>1, <1>2, <1>4
      DEF Link, Pending, Anonymous, Unused, SaysThatItLeaves, Knows, started
    <3>2. \A i \in 1..Len(toServer'[k]) :
            \/ (i \in 1..Len(toServer[k]) /\ toServer'[k][i] = toServer[k][i])
            \/ toServer'[k][i] = PlayerDisconnected
      BY <1>3, <1>5, PacketsAre, AppendProperties, LenProperties
    <3>3. Identified(k) /\ (open(k)' <=> open(k)) /\ onTheWay(k)' = onTheWay(k)
      BY <1>1, <1>2 DEF Link, open, onTheWay
    <3>4. session[k].profile # NoProfile =>
            \A i \in 1..Len(toServer'[k]) : toServer'[k][i].type # "Hello"
      BY <3>2, <3>3, PacketsAre DEF Identified
    <3>5. Identified(k)'
      BY <1>1, <1>4, <3>3, <3>4 DEF Identified
    <3> QED  BY <2>2, <3>1, <3>5 DEF Link
  <2> QED  BY <2>1, <2>2
<1> QED  BY <1>6, <1>7, <1>8 DEF IInv

-----------------------------------------------------------------------------
(* What a client receives *)

\* Whom a client knows after the packet m, if it handles it.
KnownWith(K, m) == {p \in Player : puts(m, p) \/ (p \in K /\ ~takes(m, p))}

\* The client's part of a step that takes the packet m from its connection.
Takes(k, m) ==
  /\ client' \in [Connection -> ClientType]
  /\ client'[k].player = client[k].player /\ client'[k].quit = client[k].quit
  /\ client'[k].up = client[k].up
  /\ \A j \in Connection \ {k} : client'[j] = client[j] /\ toServer'[j] = toServer[j]
  /\ toServer' \in [Connection -> Seq(Packet)]
  /\ \/ toServer'[k] = toServer[k]
     \/ client[k].sync = "Synced" /\ toServer'[k] = Append(toServer[k], UpdateRequest)
  /\ client'[k].told <=> client[k].told \/ m.type = "ServerDisconnect"
  /\ m.type = "Welcome" => client'[k].sync = "Synced"
  /\ m.type # "Welcome" =>
       /\ client'[k].initialized = client[k].initialized
       /\ client'[k].sync = client[k].sync
            \/ (client[k].sync = "Synced" /\ client'[k].sync = "Syncing")
  /\ client'[k].sync = "Synced" => client'[k].known = KnownWith(client[k].known, m)

\* The first packet of a client's channel is the first one on its way to it.
LEMMA ReceivedWay ==
  ASSUME TypeInv, NEW k \in Connection, NEW type, Received(k, type)
  PROVE  /\ onTheWay(k) # <<>> /\ Head(onTheWay(k)) = Head(toClient[k])
         /\ onTheWay(k)' = Tail(onTheWay(k))
         /\ toClient' \in [Connection -> Seq(Packet)]
         /\ \A j \in Connection \ {k} : toClient'[j] = toClient[j]
         /\ Head(toClient[k]) \in Packet
<1>1. /\ toClient[k] # <<>> /\ toClient' = [toClient EXCEPT ![k] = Tail(@)] /\ session' = session
  BY DEF Received
<1>2. toClient[k] \in Seq(Packet) /\ session[k].out \in Seq(Packet)
  BY TypeOfParts
<1>3. Tail(toClient[k]) \in Seq(Packet) /\ Head(toClient[k]) \in Packet
  BY <1>1, <1>2, HeadTailProperties
<1>4. /\ toClient' \in [Connection -> Seq(Packet)] /\ toClient'[k] = Tail(toClient[k])
      /\ \A j \in Connection \ {k} : toClient'[j] = toClient[j]
  BY <1>1, <1>3 DEF TypeInv
<1>5. ASSUME NEW s \in Seq(Packet), NEW t \in Seq(Packet), s # <<>>
      PROVE  s \o t # <<>> /\ Head(s \o t) = Head(s) /\ Tail(s \o t) = Tail(s) \o t
  <2>1. /\ Len(s) \in Nat \ {0} /\ Len(t) \in Nat /\ s \o t \in Seq(Packet)
        /\ Len(s \o t) = Len(s) + Len(t)
        /\ Tail(s) \in Seq(Packet) /\ Len(Tail(s)) = Len(s) - 1
    BY <1>5, LenProperties, ConcatProperties, HeadTailProperties, EmptySeq
  <2>2. s \o t # <<>> /\ Head(s \o t) = Head(s)
    BY <1>5, <2>1, ConcatProperties, HeadTailProperties, EmptySeq
  <2>3. Tail(s \o t) \in Seq(Packet) /\ Tail(s) \o t \in Seq(Packet)
    BY <2>1, <2>2, HeadTailProperties, ConcatProperties
  <2>4. Len(Tail(s \o t)) = Len(s) + Len(t) - 1 /\ Len(Tail(s) \o t) = Len(s) + Len(t) - 1
    BY <2>1, <2>2, HeadTailProperties, ConcatProperties
  <2>5. \A i \in 1..Len(Tail(s \o t)) : Tail(s \o t)[i] = (Tail(s) \o t)[i]
    BY <1>5, SMT
  <2> QED  BY <2>2, <2>3, <2>4, <2>5, SeqEqual
<1>6. onTheWay(k)' = Tail(toClient[k]) \o session[k].out
  BY <1>1, <1>4 DEF onTheWay
<1> QED  BY <1>1, <1>2, <1>3, <1>4, <1>5, <1>6 DEF onTheWay

\* A client that takes the first packet on its way knows as much with the others as before.
LEMMA TakesKeepsLink ==
  ASSUME TypeInv, NEW k \in Connection, Link(k), Knows(k), NEW type, Received(k, type),
         Takes(k, Head(toClient[k]))
  PROVE  Link(k)' /\ Knows(k)'
<1> DEFINE m == Head(toClient[k])
           w == onTheWay(k)
           L == KnownWith(client[k].known, m)
<1>1. /\ w # <<>> /\ m = Head(w) /\ onTheWay(k)' = Tail(w) /\ w \in Seq(Packet) /\ m \in Packet
      /\ client[k].known \in SUBSET Player /\ L \in SUBSET Player
  BY ReceivedWay, TypeOfParts DEF KnownWith
<1>2. \A p \in Player : p \in L <=> puts(Head(w), p) \/ (p \in client[k].known /\ ~takes(Head(w), p))
  BY <1>1 DEF KnownWith
<1>3. Tail(w) \in Seq(Packet)
  BY <1>1, <1>2, OneLess
<1>4. /\ AtMostOneWelcome(w) => AtMostOneWelcome(Tail(w))
      /\ AtMostOneWelcome(w) /\ m.type = "Welcome" => Welcomes(Tail(w)) = {}
      /\ m.type = "Welcome" => Welcomes(w) # {}
      /\ Welcomes(w) = {} => Welcomes(Tail(w)) = {}
      /\ m.type # "Welcome" /\ Welcomes(w) # {} => Welcomes(Tail(w)) # {}
      /\ Refuses(w) <=> Refuses(Tail(w)) \/ m.type = "ServerDisconnect"
      /\ knownIfApplied(client[k].known, w) = knownIfApplied(L, Tail(w))
  <2>1. m = Head(w) /\ w \in Seq(Packet) /\ w # <<>>
    BY <1>1
  <2>2. client[k].known \in SUBSET Player /\ L \in SUBSET Player
    BY <1>1
  <2> HIDE DEF L, w, m
  <2> QED  BY <1>2, <2>1, <2>2, OneLess
<1>5. /\ client[k].up /\ toClient[k] # <<>>
      /\ session' = session /\ profiles' = profiles /\ members' = members
  BY DEF Received
<1>6. /\ client'[k].player = client[k].player /\ client'[k].quit = client[k].quit
      /\ client'[k].up = client[k].up
      /\ \/ toServer'[k] = toServer[k]
         \/ client[k].sync = "Synced" /\ toServer'[k] = Append(toServer[k], UpdateRequest)
      /\ client'[k].told <=> client[k].told \/ m.type = "ServerDisconnect"
      /\ m.type = "Welcome" => client'[k].sync = "Synced"
      /\ m.type # "Welcome" =>
           /\ client'[k].initialized = client[k].initialized
           /\ client'[k].sync = client[k].sync
                \/ (client[k].sync = "Synced" /\ client'[k].sync = "Syncing")
      /\ client'[k].sync = "Synced" => client'[k].known = L
  BY DEF Takes
<1>7. client[k] \in ClientType /\ client'[k] \in ClientType
  BY TypeOfParts DEF Takes
<1>8. /\ client[k].sync \in {"Unsynced", "Syncing", "Synced"}
      /\ client'[k].sync \in {"Unsynced", "Syncing", "Synced"}
      /\ client'[k].known \in SUBSET Player
  BY <1>7 DEF ClientType
<1>9. wasRefused(k)' <=> wasRefused(k)
  <2>1. ServerDisconnect \in Range(w) <=> Refuses(w)
    BY <1>1, RefusedByType
  <2>2. ServerDisconnect \in Range(Tail(w)) <=> Refuses(Tail(w))
    BY <1>3, RefusedByType
  <2>3. ServerDisconnect \in Range(onTheWay(k))' <=> Refuses(Tail(w))
    BY <1>1, <2>2
  <2> QED  BY <1>4, <1>6, <2>1, <2>3 DEF wasRefused
<1>10. \A i \in 1..Len(toServer'[k]) :
         \/ i \in 1..Len(toServer[k]) /\ toServer'[k][i] = toServer[k][i]
         \/ toServer'[k][i] = UpdateRequest
  <2>1. toServer[k] \in Seq(Packet) /\ UpdateRequest \in Packet
    BY TypeOfParts, PacketsAre
  <2>2. \A i \in 1..Len(Append(toServer[k], UpdateRequest)) :
          \/ i \in 1..Len(toServer[k]) /\ Append(toServer[k], UpdateRequest)[i] = toServer[k][i]
          \/ Append(toServer[k], UpdateRequest)[i] = UpdateRequest
    BY <2>1, AppendProperties, LenProperties
  <2> QED  BY <1>6, <2>2
<1> HIDE DEF m, w, L
<1>11. session[k].state # "pending"
  BY <1>5 DEF Link, Pending
<1>12. Pending(k)' /\ Unused(k)'
  BY <1>5, <1>6, <1>11 DEF Link, Pending, Unused, started
<1>13. SaysThatItLeaves(k)'
  BY <1>6, <1>10, PacketsAre DEF Link, SaysThatItLeaves
<1>14. Anonymous(k)'
  <2>1. SUFFICES ASSUME session[k].state # "erased", session[k].profile = NoProfile
                 PROVE  /\ started(k)' => toServer'[k] = <<Hello>>
                        /\ ~started(k)' => toServer'[k] = <<>>
                        /\ ~client'[k].initialized /\ client'[k].sync = "Unsynced"
                        /\ ~client'[k].quit
                        /\ Welcomes(onTheWay(k)') = {}
    BY <1>5 DEF Anonymous
  <2>2. /\ started(k) => toServer[k] = <<Hello>>
        /\ ~started(k) => toServer[k] = <<>>
        /\ ~client[k].initialized /\ client[k].sync = "Unsynced" /\ ~client[k].quit
        /\ Welcomes(w) = {}
    BY <2>1 DEF Link, Anonymous, w
  <2>3. m.type # "Welcome" /\ Welcomes(onTheWay(k)') = {}
    BY <1>1, <1>4, <2>2
  <2> QED  BY <1>6, <2>2, <2>3 DEF started
<1>15. Identified(k)'
  <2>1. SUFFICES ASSUME session[k].profile # NoProfile  PROVE Identified(k)'
    BY <1>5 DEF Identified
  <2>2. /\ open(k) /\ session[k].profile = client[k].player /\ session[k].profile \in profiles
        /\ \A i \in 1..Len(toServer[k]) : toServer[k][i].type # "Hello"
        /\ AtMostOneWelcome(w)
        /\ client[k].sync # "Unsynced" => Welcomes(w) = {}
        /\ client[k].up /\ client[k].sync = "Unsynced" /\ ~wasRefused(k) => Welcomes(w) # {}
    BY <2>1 DEF Link, Identified, w
  <2>3. \A i \in 1..Len(toServer'[k]) : toServer'[k][i].type # "Hello"
    BY <1>10, <2>2, PacketsAre
  <2>4. AtMostOneWelcome(onTheWay(k)')
    BY <1>1, <1>4, <2>2
  <2>5. client'[k].sync # "Unsynced" => Welcomes(onTheWay(k)') = {}
    BY <1>1, <1>4, <1>6, <1>8, <2>2
  <2>6. client'[k].up /\ client'[k].sync = "Unsynced" /\ ~wasRefused(k)' =>
          Welcomes(onTheWay(k)') # {}
    BY <1>1, <1>4, <1>6, <1>8, <1>9, <2>2
  <2> QED  BY <1>5, <1>6, <2>2, <2>3, <2>4, <2>5, <2>6 DEF Identified, open
<1>16. Knows(k)'
  <2>1. SUFFICES ASSUME session[k].profile # NoProfile, client'[k].sync # "Syncing",
                        ~wasRefused(k)
                 PROVE  knownIfApplied(client'[k].known, onTheWay(k)') =
                          members \cup {session[k].profile}
    BY <1>5, <1>9 DEF Knows
  <2>2. /\ client[k].sync # "Unsynced" => Welcomes(w) = {}
        /\ client[k].sync = "Unsynced" => Welcomes(w) # {}
        /\ client[k].sync # "Syncing" =>
             knownIfApplied(client[k].known, w) = members \cup {session[k].profile}
    BY <1>5, <2>1 DEF Link, Identified, Knows, w
  <2>3. knownIfApplied(L, Tail(w)) = members \cup {session[k].profile}
    BY <1>4, <1>6, <1>8, <2>1, <2>2
  <2>4. CASE client'[k].sync = "Synced"
    BY <1>1, <1>6, <2>3, <2>4
  <2>5. CASE client'[k].sync = "Unsynced"
    <3>1. m.type # "Welcome" /\ Welcomes(Tail(w)) # {}
      BY <1>4, <1>6, <1>8, <2>2, <2>5
    <3>2. knownIfApplied(client'[k].known, Tail(w)) = knownIfApplied(L, Tail(w))
      BY <1>1, <1>3, <1>8, <3>1, KnownAtTheEnds
    <3> QED  BY <1>1, <2>3, <3>2
  <2> QED  BY <1>8, <2>1, <2>4, <2>5
<1> QED  BY <1>12, <1>13, <1>14, <1>15, <1>16 DEF Link

\* So the whole invariant is kept.
LEMMA TakesInv ==
  ASSUME IInv, NEW k \in Connection, NEW type, Received(k, type), Takes(k, Head(toClient[k]))
  PROVE  IInv'
<1>1. TypeInv /\ OneLivingSession /\ LivingInLobby /\ \A j \in Connection : Link(j) /\ Knows(j)
  BY DEF IInv
<1>2. UNCHANGED <<left, profiles, members, isOpen, session>>
  BY DEF Received
<1>3. /\ toClient' \in [Connection -> Seq(Packet)] /\ toServer' \in [Connection -> Seq(Packet)]
      /\ client' \in [Connection -> ClientType]
      /\ \A j \in Connection \ {k} :
           client'[j] = client[j] /\ toServer'[j] = toServer[j] /\ toClient'[j] = toClient[j]
      /\ client'[k].player = client[k].player /\ client'[k].quit = client[k].quit
  BY <1>1, ReceivedWay DEF Takes
<1>4. TypeInv'
  BY <1>1, <1>2, <1>3 DEF TypeInv, TypeOK, ClientType
<1>5. OneLivingSession' /\ LivingInLobby'
  <2>1. \A j \in Connection :
          /\ living(j)' => living(j) /\ session'[j].profile = session[j].profile
          /\ client[j].quit => client'[j].quit /\ client'[j].player = client[j].player
    BY <1>2, <1>3 DEF living, open
  <2> QED  BY <1>1, <1>2, <2>1, KeptLiving
<1>6. ASSUME NEW j \in Connection  PROVE Link(j)' /\ Knows(j)'
  <2>1. CASE j # k
    <3>1. Kept(j)
      BY <1>2, <1>3, <2>1 DEF Kept
    <3> QED  BY <1>1, <1>2, <3>1, KeptLink, KeptKnows
  <2>2. CASE j = k
    BY <1>1, <2>2, TakesKeepsLink
  <2> QED  BY <2>1, <2>2
<1> QED  BY <1>4, <1>5, <1>6 DEF IInv

\* Every handler of the client takes its packet so.
LEMMA ClientStepInv ==
  ASSUME IInv, NEW k \in Connection, ClientStep(k)
  PROVE  IInv'
<1> DEFINE m == Head(toClient[k])
<1>1. TypeInv
  BY DEF IInv
<1>2. /\ client \in [Connection -> ClientType] /\ client[k] \in ClientType
      /\ toServer \in [Connection -> Seq(Packet)] /\ toServer[k] \in Seq(Packet)
      /\ client[k].known \in SUBSET Player
  BY <1>1, TypeOfParts DEF TypeInv
<1>3. ASSUME NEW type, Received(k, type)
      PROVE  /\ m \in Packet /\ m.type = type
             /\ type = "Welcome" => m.members \in SUBSET Player
             /\ type \in {"NotifyPlayerConnected", "NotifyPlayerDisconnected"} => m.player \in Player
  <2>1. m \in Packet
    BY <1>1, <1>3, ReceivedWay
  <2>2. m.type = type
    BY <1>3 DEF Received
  <2> QED  BY <2>1, <2>2, PacketFields
<1>4. CASE onWelcomePacket(k)
  <2>1. /\ Received(k, "Welcome") /\ toServer' = toServer
        /\ client' = [client EXCEPT ![k].initialized = TRUE, ![k].sync = "Synced",
                                    ![k].known = m.members]
    BY <1>4 DEF onWelcomePacket
  <2>2. m.type = "Welcome" /\ m.members \in SUBSET Player
    BY <1>3, <2>1
  <2>3. m.members = KnownWith(client[k].known, m)
    BY <2>2 DEF puts, takes, KnownWith
  <2> HIDE DEF m
  <2>4. Takes(k, m)
    BY <1>2, <2>1, <2>2, <2>3 DEF Takes, ClientType
  <2> QED  BY <2>1, <2>4, TakesInv DEF m
<1>5. CASE onServerDisconnectPacket(k)
  <2>1. /\ Received(k, "ServerDisconnect") /\ toServer' = toServer
        /\ client' = [client EXCEPT ![k].told = TRUE]
    BY <1>5 DEF onServerDisconnectPacket
  <2>2. m.type = "ServerDisconnect"
    BY <1>3, <2>1
  <2>3. client[k].known = KnownWith(client[k].known, m)
    BY <1>2, <2>2 DEF puts, takes, KnownWith
  <2>4. /\ client' \in [Connection -> ClientType] /\ client'[k].known = client[k].known
        /\ client'[k].told /\ client'[k].sync = client[k].sync
        /\ client'[k].initialized = client[k].initialized
        /\ client'[k].player = client[k].player /\ client'[k].quit = client[k].quit
        /\ client'[k].up = client[k].up
        /\ \A j \in Connection \ {k} : client'[j] = client[j]
    BY <1>2, <2>1 DEF ClientType
  <2> HIDE DEF m
  <2>5. Takes(k, m)
    BY <1>2, <2>1, <2>2, <2>3, <2>4 DEF Takes
  <2> QED  BY <2>1, <2>5, TakesInv DEF m
<1>6. CASE onNotifyPlayerConnectedPacket(k)
  <2>1. /\ Received(k, "NotifyPlayerConnected") /\ client[k].sync = "Synced"
        /\ \/ /\ client' = [client EXCEPT ![k].sync = "Syncing"]
              /\ toServer' = [toServer EXCEPT ![k] = Append(@, UpdateRequest)]
           \/ /\ client' = [client EXCEPT ![k].known = @ \cup {m.player}]
              /\ toServer' = toServer
    BY <1>6 DEF onNotifyPlayerConnectedPacket, sendSnapshotUpdateRequest, applyPlayerConnected
  <2>2. m.type = "NotifyPlayerConnected" /\ m.player \in Player
    BY <1>3, <2>1
  <2>3. client[k].known \cup {m.player} = KnownWith(client[k].known, m)
    BY <1>2, <2>2 DEF puts, takes, KnownWith
  <2>4. Append(toServer[k], UpdateRequest) \in Seq(Packet)
    BY <1>2, PacketsAre, AppendProperties
  <2> HIDE DEF m
  <2>5. ASSUME /\ client' = [client EXCEPT ![k].sync = "Syncing"]
               /\ toServer' = [toServer EXCEPT ![k] = Append(@, UpdateRequest)]
        PROVE  Takes(k, m)
    <3>1. /\ client' \in [Connection -> ClientType]
          /\ client'[k].told = client[k].told
          /\ client'[k].initialized = client[k].initialized
          /\ client'[k].player = client[k].player /\ client'[k].quit = client[k].quit
          /\ client'[k].up = client[k].up
          /\ \A j \in Connection \ {k} : client'[j] = client[j]
          /\ client'[k].sync = "Syncing"
      BY <1>2, <2>5 DEF ClientType
    <3>2. /\ toServer' \in [Connection -> Seq(Packet)]
          /\ toServer'[k] = Append(toServer[k], UpdateRequest)
          /\ \A j \in Connection \ {k} : toServer'[j] = toServer[j]
      BY <1>2, <2>4, <2>5
    <3> QED  BY <2>1, <2>2, <3>1, <3>2 DEF Takes
  <2>6. ASSUME /\ client' = [client EXCEPT ![k].known = @ \cup {m.player}]
               /\ toServer' = toServer
        PROVE  Takes(k, m)
    <3>1. /\ client' \in [Connection -> ClientType]
          /\ client'[k].told = client[k].told
          /\ client'[k].initialized = client[k].initialized
          /\ client'[k].player = client[k].player /\ client'[k].quit = client[k].quit
          /\ client'[k].up = client[k].up
          /\ \A j \in Connection \ {k} : client'[j] = client[j]
          /\ client'[k].sync = client[k].sync
          /\ client'[k].known = client[k].known \cup {m.player}
      BY <1>2, <2>2, <2>6 DEF ClientType
    <3> QED  BY <1>2, <2>2, <2>3, <2>6, <3>1 DEF Takes
  <2>7. Takes(k, m)
    BY <2>1, <2>5, <2>6
  <2> QED  BY <2>1, <2>7, TakesInv DEF m
<1>7. CASE onNotifyPlayerDisconnectedPacket(k)
  <2>1. /\ Received(k, "NotifyPlayerDisconnected") /\ toServer' = toServer
        /\ client' = [client EXCEPT ![k].known = @ \ {m.player}]
    BY <1>7 DEF onNotifyPlayerDisconnectedPacket
  <2>2. m.type = "NotifyPlayerDisconnected" /\ m.player \in Player
    BY <1>3, <2>1
  <2>3. client[k].known \ {m.player} = KnownWith(client[k].known, m)
    BY <1>2, <2>2 DEF puts, takes, KnownWith
  <2> HIDE DEF m
  <2>4. /\ client' \in [Connection -> ClientType]
        /\ client'[k].told = client[k].told /\ client'[k].sync = client[k].sync
        /\ client'[k].initialized = client[k].initialized
        /\ client'[k].player = client[k].player /\ client'[k].quit = client[k].quit
        /\ client'[k].up = client[k].up /\ client'[k].known = client[k].known \ {m.player}
        /\ \A j \in Connection \ {k} : client'[j] = client[j]
    BY <1>2, <2>1, <2>2 DEF ClientType
  <2>5. Takes(k, m)
    BY <1>2, <2>1, <2>2, <2>3, <2>4 DEF Takes
  <2> QED  BY <2>1, <2>5, TakesInv DEF m
<1>8. CASE DropNotify(k)
  <2>1. PICK type \in {"NotifyPlayerConnected", "NotifyPlayerDisconnected"} : Received(k, type)
    BY <1>8 DEF DropNotify
  <2>2. client' = client /\ toServer' = toServer /\ client[k].sync # "Synced"
    BY <1>8 DEF DropNotify
  <2>3. m.type # "Welcome" /\ m.type # "ServerDisconnect"
    BY <1>3, <2>1
  <2> HIDE DEF m
  <2>4. client'[k].told = client[k].told /\ client'[k].sync = client[k].sync
    BY <2>2
  <2>5. Takes(k, m)
    BY <1>2, <2>2, <2>3, <2>4 DEF Takes
  <2> QED  BY <2>1, <2>5, TakesInv DEF m
<1> QED  BY <1>4, <1>5, <1>6, <1>7, <1>8 DEF ClientStep

-----------------------------------------------------------------------------
(* The hello *)

\* A packet for one session.
LEMMA SentFacts ==
  ASSUME NEW S \in [Connection -> SessionType], NEW k \in Connection, NEW m \in Packet
  PROVE  /\ sent(S, k, m) \in [Connection -> SessionType]
         /\ sent(S, k, m)[k].out = Append(S[k].out, m)
         /\ sent(S, k, m)[k].state = S[k].state /\ sent(S, k, m)[k].profile = S[k].profile
         /\ sent(S, k, m)[k].marked = S[k].marked
         /\ \A j \in Connection \ {k} : sent(S, k, m)[j] = S[j]
<1>1. S[k] \in SessionType /\ S[k].out \in Seq(Packet)
  BY DEF SessionType
<1>2. Append(S[k].out, m) \in Seq(Packet)
  BY <1>1, AppendProperties
<1> DEFINE r == [S[k] EXCEPT !.out = Append(S[k].out, m)]
<1>3. sent(S, k, m) = [S EXCEPT ![k] = r]
  BY DEF sent
<1>4. /\ r \in SessionType /\ r.out = Append(S[k].out, m) /\ r.state = S[k].state
      /\ r.profile = S[k].profile /\ r.marked = S[k].marked
  BY <1>1, <1>2 DEF SessionType
<1> HIDE DEF r
<1>5. /\ sent(S, k, m) \in [Connection -> SessionType] /\ sent(S, k, m)[k] = r
      /\ \A j \in Connection \ {k} : sent(S, k, m)[j] = S[j]
  BY <1>3, <1>4
<1> QED  BY <1>4, <1>5

\* A packet for every session but those of one player.
LEMMA BroadcastFacts ==
  ASSUME NEW S \in [Connection -> SessionType], NEW m \in Packet, NEW p
  PROVE  /\ broadcast(S, m, p) \in [Connection -> SessionType]
         /\ \A j \in Connection :
              /\ S[j].state = "open" /\ S[j].profile # p =>
                   broadcast(S, m, p)[j].out = Append(S[j].out, m)
              /\ ~(S[j].state = "open" /\ S[j].profile # p) => broadcast(S, m, p)[j] = S[j]
              /\ broadcast(S, m, p)[j].state = S[j].state
              /\ broadcast(S, m, p)[j].profile = S[j].profile
              /\ broadcast(S, m, p)[j].marked = S[j].marked
<1>1. ASSUME NEW j \in Connection
      PROVE  /\ [S[j] EXCEPT !.out = Append(@, m)] \in SessionType
             /\ [S[j] EXCEPT !.out = Append(@, m)].out = Append(S[j].out, m)
             /\ [S[j] EXCEPT !.out = Append(@, m)].state = S[j].state
             /\ [S[j] EXCEPT !.out = Append(@, m)].profile = S[j].profile
             /\ [S[j] EXCEPT !.out = Append(@, m)].marked = S[j].marked
  <2>1. S[j] \in SessionType /\ S[j].out \in Seq(Packet)
    BY DEF SessionType
  <2>2. Append(S[j].out, m) \in Seq(Packet)
    BY <2>1, AppendProperties
  <2> QED  BY <2>1, <2>2 DEF SessionType
<1>2. ASSUME NEW j \in Connection
      PROVE  broadcast(S, m, p)[j] =
               IF S[j].state = "open" /\ S[j].profile # p
                 THEN [S[j] EXCEPT !.out = Append(@, m)] ELSE S[j]
  BY DEF broadcast
<1>3. ASSUME NEW j \in Connection
      PROVE  /\ broadcast(S, m, p)[j] \in SessionType
             /\ S[j].state = "open" /\ S[j].profile # p =>
                  broadcast(S, m, p)[j].out = Append(S[j].out, m)
             /\ ~(S[j].state = "open" /\ S[j].profile # p) => broadcast(S, m, p)[j] = S[j]
             /\ broadcast(S, m, p)[j].state = S[j].state
             /\ broadcast(S, m, p)[j].profile = S[j].profile
             /\ broadcast(S, m, p)[j].marked = S[j].marked
  <2>1. CASE S[j].state = "open" /\ S[j].profile # p
    <3>1. broadcast(S, m, p)[j] = [S[j] EXCEPT !.out = Append(@, m)]
      BY <1>2, <2>1
    <3> QED  BY <1>1, <2>1, <3>1
  <2>2. CASE ~(S[j].state = "open" /\ S[j].profile # p)
    <3>1. broadcast(S, m, p)[j] = S[j]
      BY <1>2, <2>2
    <3> QED  BY <2>2, <3>1
  <2> QED  BY <2>1, <2>2
<1>4. broadcast(S, m, p) \in [Connection -> SessionType]
  <2>1. broadcast(S, m, p) = [j \in Connection |-> broadcast(S, m, p)[j]]
    BY DEF broadcast
  <2> QED  BY <1>3, <2>1
<1> QED  BY <1>3, <1>4

\* The session gets its profile; the others of a known token are marked.
LEMMA IdentifiedFacts ==
  ASSUME TypeInv, NEW k \in Connection, NEW p \in Player
  PROVE  /\ identified(k, p) \in [Connection -> SessionType]
         /\ identified(k, p)[k].profile = p
         /\ \A j \in Connection \ {k} : identified(k, p)[j].profile = session[j].profile
         /\ \A j \in Connection :
              /\ identified(k, p)[j].state = session[j].state
              /\ identified(k, p)[j].out = session[j].out
              /\ session[j].marked => identified(k, p)[j].marked
              /\ p \in profiles /\ open(j) /\ session[j].profile # NoProfile =>
                   identified(k, p)[j].marked
         /\ \A j \in Connection \ {k} :
              session[j].state # "open" => identified(k, p)[j] = session[j]
         /\ session[k].profile = NoProfile => identified(k, p)[k].marked = session[k].marked
<1> DEFINE C == clientsToDisconnectByToken(session, p)
<1>1. session \in [Connection -> SessionType]
  BY TypeOfParts
<1>2. ASSUME NEW j \in Connection
      PROVE  /\ C[j] \in SessionType /\ C[j].profile = session[j].profile
             /\ C[j].state = session[j].state /\ C[j].out = session[j].out
             /\ session[j].marked => C[j].marked
             /\ open(j) /\ session[j].profile # NoProfile => C[j].marked
             /\ session[j].state # "open" \/ session[j].profile = NoProfile => C[j] = session[j]
  <2>1. session[j] \in SessionType
    BY <1>1
  <2>2. C[j] = IF session[j].state = "open" /\ session[j].profile # NoProfile
                 THEN [session[j] EXCEPT !.marked = TRUE] ELSE session[j]
    BY DEF clientsToDisconnectByToken
  <2>3. CASE session[j].state = "open" /\ session[j].profile # NoProfile
    <3>1. C[j] = [session[j] EXCEPT !.marked = TRUE]
      BY <2>2, <2>3
    <3> HIDE DEF C
    <3> QED  BY <2>1, <2>3, <3>1 DEF SessionType
  <2>4. CASE ~(session[j].state = "open" /\ session[j].profile # NoProfile)
    <3>1. C[j] = session[j]
      BY <2>2, <2>4
    <3> HIDE DEF C
    <3> QED  BY <2>1, <2>4, <3>1 DEF open
  <2> QED  BY <2>3, <2>4
<1>3. C \in [Connection -> SessionType]
  <2>1. C = [j \in Connection |-> C[j]]
    BY DEF clientsToDisconnectByToken
  <2> QED  BY <1>2, <2>1
<1> HIDE DEF C
<1>4. CASE p \in profiles
  <2> DEFINE r == [C[k] EXCEPT !.profile = p]
  <2>1. identified(k, p) = [C EXCEPT ![k] = r]
    BY <1>4 DEF identified, C
  <2>2. /\ r \in SessionType /\ r.profile = p /\ r.state = C[k].state /\ r.out = C[k].out
        /\ r.marked = C[k].marked
    BY <1>2 DEF SessionType
  <2> HIDE DEF r
  <2>3. /\ identified(k, p) \in [Connection -> SessionType] /\ identified(k, p)[k] = r
        /\ \A j \in Connection \ {k} : identified(k, p)[j] = C[j]
    BY <1>3, <2>1, <2>2
  <2> QED  BY <1>2, <2>2, <2>3
<1>5. CASE p \notin profiles
  <2>1. identified(k, p) = [session EXCEPT ![k].profile = p]
    BY <1>5 DEF identified
  <2> QED  BY <1>1, <1>5, <2>1 DEF SessionType
<1> QED  BY <1>4, <1>5

\* A hello comes from a program that has started, on a session without a profile.
LEMMA HelloFirst ==
  ASSUME IInv, NEW k \in Connection, onHelloPacket(k)
  PROVE  /\ client[k].player \in Player /\ session[k].profile = NoProfile /\ open(k)
         /\ toServer[k] = <<Hello>> /\ toServer'[k] = <<>>
         /\ toServer' \in [Connection -> Seq(Packet)]
         /\ \A j \in Connection \ {k} : toServer'[j] = toServer[j]
         /\ UNCHANGED <<left, isOpen, client, toClient>>
<1>1. TypeInv /\ Link(k)
  BY DEF IInv
<1>2. Handled(k, "Hello")
  BY DEF onHelloPacket
<1>3. /\ open(k) /\ toServer[k] # <<>> /\ Head(toServer[k]).type = "Hello"
      /\ toServer' = [toServer EXCEPT ![k] = Tail(@)]
      /\ UNCHANGED <<left, isOpen, client, toClient>>
  BY <1>2 DEF Handled
<1>4. toServer[k] \in Seq(Packet) /\ client[k] \in ClientType
  BY <1>1, TypeOfParts
<1>5. Len(toServer[k]) >= 1 /\ toServer[k][1].type = "Hello" /\ 1 \in 1..Len(toServer[k])
  BY <1>3, <1>4, EmptySeq, HeadTailProperties, LenProperties
<1>6. session[k].profile = NoProfile
  BY <1>1, <1>5 DEF Link, Identified
<1>7. started(k) /\ toServer[k] = <<Hello>>
  BY <1>1, <1>3, <1>6 DEF Link, Anonymous, open
<1>8. client[k].player \in Player
  BY <1>4, <1>7 DEF started, ClientType
<1>9. Tail(<<Hello>>) = <<>> /\ <<>> \in Seq(Packet)
  BY EmptySeq
<1>10. /\ toServer'[k] = <<>> /\ toServer' \in [Connection -> Seq(Packet)]
       /\ \A j \in Connection \ {k} : toServer'[j] = toServer[j]
  BY <1>1, <1>3, <1>7, <1>9 DEF TypeInv
<1> QED  BY <1>3, <1>6, <1>7, <1>8, <1>10

\* What a hello does to the sessions, accepted or refused.
LEMMA HelloSessions ==
  ASSUME IInv, NEW k \in Connection, onHelloPacket(k), NEW p, p = client[k].player
  PROVE  /\ session' \in [Connection -> SessionType]
         /\ session'[k].profile = p /\ session'[k].state = "open"
         /\ \A j \in Connection \ {k} : session'[j].profile = session[j].profile
         /\ \A j \in Connection :
              /\ session'[j].state = session[j].state
              /\ session[j].marked => session'[j].marked
              /\ p \in profiles /\ open(j) /\ session[j].profile # NoProfile =>
                   session'[j].marked
         /\ \A j \in Connection \ {k} :
              session[j].state # "open" => session'[j] = session[j]
         /\ p \in members \/ canJoin =>
              /\ session'[k].out = Append(session[k].out, Welcome(members \cup {p}))
              /\ session'[k].marked = session[k].marked
              /\ \A j \in Connection \ {k} :
                   /\ open(j) /\ session[j].profile # p =>
                        session'[j].out = Append(session[j].out, NotifyPlayerConnected(p))
                   /\ ~(open(j) /\ session[j].profile # p) => session'[j].out = session[j].out
         /\ ~(p \in members \/ canJoin) =>
              /\ session'[k].out = Append(session[k].out, ServerDisconnect)
              /\ session'[k].marked
              /\ \A j \in Connection \ {k} : session'[j].out = session[j].out
<1> DEFINE M == members \cup {p}
           S == identified(k, p)
<1>1. TypeInv
  BY DEF IInv
<1>2. p \in Player /\ session[k].profile = NoProfile /\ session[k].state = "open"
  BY HelloFirst DEF open
<1>3. M \in SUBSET Player
  BY <1>1, <1>2, TypeOfParts
<1>4. /\ Welcome(M) \in Packet /\ NotifyPlayerConnected(p) \in Packet
      /\ ServerDisconnect \in Packet
  BY <1>2, <1>3, PacketsAre
<1>5. /\ S \in [Connection -> SessionType]
      /\ S[k].profile = p /\ S[k].marked = session[k].marked
      /\ \A j \in Connection \ {k} : S[j].profile = session[j].profile
      /\ \A j \in Connection :
           /\ S[j].state = session[j].state
           /\ S[j].out = session[j].out
           /\ session[j].marked => S[j].marked
           /\ p \in profiles /\ open(j) /\ session[j].profile # NoProfile => S[j].marked
      /\ \A j \in Connection \ {k} :
           session[j].state # "open" => S[j] = session[j]
  BY <1>1, <1>2, IdentifiedFacts
<1> HIDE DEF S, M
<1>6. CASE p \in members \/ canJoin
  <2> DEFINE T == sent(S, k, Welcome(M))
             B == broadcast(T, NotifyPlayerConnected(p), p)
  <2>1. session' = B
    BY <1>6 DEF onHelloPacket, welcomed, S, M
  <2>2. /\ T \in [Connection -> SessionType]
        /\ T[k].out = Append(S[k].out, Welcome(M))
        /\ T[k].state = S[k].state /\ T[k].profile = S[k].profile
        /\ T[k].marked = S[k].marked
        /\ \A j \in Connection \ {k} : T[j] = S[j]
    BY <1>4, <1>5, SentFacts
  <2> HIDE DEF T
  <2>3. /\ B \in [Connection -> SessionType]
        /\ \A j \in Connection :
             /\ T[j].state = "open" /\ T[j].profile # p =>
                  B[j].out = Append(T[j].out, NotifyPlayerConnected(p))
             /\ ~(T[j].state = "open" /\ T[j].profile # p) => B[j] = T[j]
             /\ B[j].state = T[j].state
             /\ B[j].profile = T[j].profile
             /\ B[j].marked = T[j].marked
    BY <1>4, <2>2, BroadcastFacts
  <2> HIDE DEF B
  <2>4. /\ session' \in [Connection -> SessionType]
        /\ session'[k].profile = p /\ session'[k].state = "open"
        /\ \A j \in Connection \ {k} : session'[j].profile = session[j].profile
        /\ \A j \in Connection :
             /\ session'[j].state = session[j].state
             /\ session[j].marked => session'[j].marked
             /\ p \in profiles /\ open(j) /\ session[j].profile # NoProfile =>
                  session'[j].marked
    <3>1. /\ session' \in [Connection -> SessionType]
          /\ session'[k].profile = p /\ session'[k].state = "open"
          /\ \A j \in Connection \ {k} : session'[j].profile = session[j].profile
      BY <1>2, <1>5, <2>1, <2>2, <2>3
    <3>2. ASSUME NEW j \in Connection
          PROVE  session'[j].state = S[j].state /\ session'[j].marked = S[j].marked
      <4>1. session'[j].state = T[j].state /\ session'[j].marked = T[j].marked
        BY <2>1, <2>3
      <4>2. CASE j = k
        BY <2>2, <4>1, <4>2
      <4>3. CASE j # k
        BY <2>2, <4>1, <4>3
      <4> QED  BY <4>2, <4>3
    <3> QED  BY <1>5, <3>1, <3>2
  <2>5. \A j \in Connection \ {k} : session[j].state # "open" => session'[j] = session[j]
    BY <1>5, <2>1, <2>2, <2>3
  <2>6. session'[k].out = Append(session[k].out, Welcome(members \cup {p}))
    BY <1>5, <2>1, <2>2, <2>3 DEF M
  <2>7. session'[k].marked = session[k].marked
    BY <1>5, <2>1, <2>2, <2>3
  <2>8. \A j \in Connection \ {k} :
          /\ open(j) /\ session[j].profile # p =>
               session'[j].out = Append(session[j].out, NotifyPlayerConnected(p))
          /\ ~(open(j) /\ session[j].profile # p) => session'[j].out = session[j].out
    BY <1>5, <2>1, <2>2, <2>3 DEF open
  <2> QED  BY <1>6, <2>4, <2>5, <2>6, <2>7, <2>8
<1>7. CASE ~(p \in members \/ canJoin)
  <2> DEFINE T == sent(S, k, ServerDisconnect)
             r == [T[k] EXCEPT !.marked = TRUE]
  <2>1. session' = [T EXCEPT ![k] = r]
    BY <1>7 DEF onHelloPacket, refused, S
  <2>2. /\ T \in [Connection -> SessionType] /\ T[k] \in SessionType
        /\ T[k].out = Append(S[k].out, ServerDisconnect)
        /\ T[k].state = S[k].state /\ T[k].profile = S[k].profile
        /\ \A j \in Connection \ {k} : T[j] = S[j]
    BY <1>4, <1>5, SentFacts
  <2> HIDE DEF T
  <2>3. /\ r \in SessionType /\ r.marked /\ r.state = T[k].state /\ r.profile = T[k].profile
        /\ r.out = T[k].out
    BY <2>2 DEF SessionType
  <2> HIDE DEF r
  <2>4. /\ session' \in [Connection -> SessionType] /\ session'[k] = r
        /\ \A j \in Connection \ {k} : session'[j] = T[j]
    BY <2>1, <2>2, <2>3
  <2> QED  BY <1>2, <1>5, <1>7, <2>2, <2>3, <2>4 DEF open
<1> QED  BY <1>6, <1>7

(***************************************************************************)
(* A hello keeps the invariant: the player's older sessions are marked,    *)
(* and every other client is told of the player, or has it already.        *)
(***************************************************************************)
LEMMA HelloInv ==
  ASSUME IInv, NEW k \in Connection, onHelloPacket(k)
  PROVE  IInv'
<1> DEFINE p == client[k].player
           M == members \cup {p}
           in == p \in members \/ canJoin
<1>1. TypeInv /\ OneLivingSession /\ LivingInLobby /\ \A j \in Connection : Link(j) /\ Knows(j)
  BY DEF IInv
<1>2. /\ p \in Player /\ session[k].profile = NoProfile /\ open(k)
      /\ toServer[k] = <<Hello>> /\ toServer'[k] = <<>>
      /\ toServer' \in [Connection -> Seq(Packet)]
      /\ \A j \in Connection \ {k} : toServer'[j] = toServer[j]
      /\ UNCHANGED <<left, isOpen, client, toClient>>
  BY HelloFirst
<1>3. /\ profiles' = profiles \cup {p}
      /\ in => members' = M
      /\ ~in => members' = members
  BY DEF onHelloPacket
<1>4. /\ members \in SUBSET profiles /\ profiles \in SUBSET Player /\ members \in SUBSET Player
      /\ client \in [Connection -> ClientType] /\ client[k].known \in SUBSET Player
      /\ session[k].out \in Seq(Packet) /\ toClient[k] \in Seq(Packet)
      /\ onTheWay(k) \in Seq(Packet)
  BY <1>1, TypeOfParts
<1>5. p # NoProfile /\ M \in SUBSET Player
  BY <1>2, <1>4, NoProfileAssumption
<1>6. /\ session' \in [Connection -> SessionType]
      /\ session'[k].profile = p /\ session'[k].state = "open"
      /\ \A j \in Connection \ {k} : session'[j].profile = session[j].profile
      /\ \A j \in Connection :
           /\ session'[j].state = session[j].state
           /\ session[j].marked => session'[j].marked
           /\ p \in profiles /\ open(j) /\ session[j].profile # NoProfile => session'[j].marked
      /\ \A j \in Connection \ {k} : session[j].state # "open" => session'[j] = session[j]
  BY HelloSessions
<1>7. ASSUME in
      PROVE  /\ session'[k].out = Append(session[k].out, Welcome(M))
             /\ \A j \in Connection \ {k} :
                  /\ open(j) /\ session[j].profile # p =>
                       session'[j].out = Append(session[j].out, NotifyPlayerConnected(p))
                  /\ ~(open(j) /\ session[j].profile # p) => session'[j].out = session[j].out
  BY <1>7, HelloSessions
<1>8. ~in => /\ session'[k].out = Append(session[k].out, ServerDisconnect)
             /\ session'[k].marked
             /\ \A j \in Connection \ {k} : session'[j].out = session[j].out
  BY HelloSessions
<1> HIDE DEF p, M, in
<1>9. TypeInv'
  <2>1. profiles' \subseteq Player /\ members' \subseteq profiles'
    BY <1>2, <1>3, <1>4 DEF M
  <2> QED  BY <1>1, <1>2, <1>6, <2>1 DEF TypeInv, TypeOK, SessionType
<1>10. OneLivingSession'
  <2>1. ASSUME NEW i \in Connection, NEW j \in Connection, living(i)', living(j)',
               session'[i].profile = session'[j].profile
        PROVE  i = j
    <3>1. ASSUME NEW l \in Connection, l # k, living(l)'
          PROVE  living(l) /\ session'[l].profile = session[l].profile
                   /\ session'[l].profile # p
      <4>1. /\ session[l].state = "open" /\ session[l].profile # NoProfile
            /\ session'[l].profile = session[l].profile
            /\ ~session'[l].marked /\ ~session[l].marked
        BY <1>6, <3>1 DEF living, open
      <4>2. session[l].profile \in profiles
        BY <1>1, <4>1 DEF Link, Identified
      <4>3. session[l].profile # p
        BY <1>6, <4>1, <4>2 DEF open
      <4> QED  BY <4>1, <4>3 DEF living, open
    <3> QED  BY <1>1, <1>6, <2>1, <3>1 DEF OneLivingSession
  <2> QED  BY <2>1 DEF OneLivingSession
<1>11. LivingInLobby'
  <2>1. ASSUME NEW j \in Connection, living(j)', ~hasLeft(session[j].profile)'
        PROVE  session'[j].profile \in members'
    <3>1. CASE j = k
      BY <1>3, <1>6, <1>8, <2>1, <3>1 DEF living, M
    <3>2. CASE j # k
      <4>1. living(j) /\ session'[j].profile = session[j].profile
        BY <1>6, <2>1, <3>2 DEF living, open
      <4>2. ~hasLeft(session[j].profile)
        BY <1>2, <2>1, <4>1 DEF hasLeft
      <4> QED  BY <1>1, <1>3, <4>1, <4>2 DEF LivingInLobby, M
    <3> QED  BY <3>1, <3>2
  <2> QED  BY <2>1 DEF LivingInLobby
<1>12. ASSUME NEW j \in Connection, j # k  PROVE Link(j)' /\ Knows(j)'
  <2>1. profiles \subseteq profiles'
    BY <1>3
  <2>2. CASE in /\ open(j) /\ session[j].profile # p
    <3> DEFINE m == NotifyPlayerConnected(p)
    <3>1. m \in Packet /\ m.type = "NotifyPlayerConnected" /\ m.player = p
      BY <1>2, PacketsAre
    <3> HIDE DEF m
    <3>2. Notified(j, m)
      BY <1>2, <1>6, <1>7, <1>12, <2>2, <3>1 DEF Notified, open, m
    <3>3. session[j].profile # NoProfile => session[j].profile \in Player
      BY <1>1, <1>4 DEF Link, Identified
    <3>4. session[j].profile # NoProfile =>
            members' \cup {session[j].profile} =
              {q \in Player : puts(m, q) \/ (q \in members \cup {session[j].profile}
                                              /\ ~takes(m, q))}
      BY <1>2, <1>3, <1>4, <2>2, <3>1, <3>3 DEF puts, takes, M
    <3> QED  BY <1>1, <2>1, <3>2, <3>4, NotifiedLink, NotifiedKnows
  <2>3. CASE ~(in /\ open(j) /\ session[j].profile # p)
    <3>1. Kept(j)
      BY <1>2, <1>6, <1>7, <1>8, <1>12, <2>3 DEF Kept, open
    <3>2. session[j].profile # NoProfile =>
            members' \cup {session[j].profile} = members \cup {session[j].profile}
      BY <1>1, <1>3, <2>3 DEF Link, Identified, M
    <3> QED  BY <1>1, <2>1, <3>1, <3>2, KeptLink, KeptKnows
  <2> QED  BY <2>2, <2>3
<1>13. Link(k)' /\ Knows(k)'
  <2>1. /\ client[k].sync = "Unsynced" /\ ~client[k].quit
        /\ Welcomes(onTheWay(k)) = {}
    BY <1>1, <1>2 DEF Link, Anonymous, open
  <2>2. Len(<<>>) = 0
    BY EmptySeq
  <2>3. Pending(k)' /\ Anonymous(k)' /\ Unused(k)' /\ SaysThatItLeaves(k)'
    BY <1>2, <1>5, <1>6, <2>2 DEF Pending, Anonymous, Unused, SaysThatItLeaves, started, p
  <2>4. /\ session'[k].profile = client'[k].player /\ session'[k].profile \in profiles' /\ open(k)'
        /\ \A i \in 1..Len(toServer'[k]) : toServer'[k][i].type # "Hello"
    BY <1>2, <1>3, <1>6, <2>2 DEF open, p
  <2>5. CASE in
    <3> DEFINE m == Welcome(M)
    <3>1. m \in Packet /\ m.type = "Welcome" /\ m.members = M
      BY <1>5, PacketsAre
    <3> HIDE DEF m
    <3>2. onTheWay(k)' = Append(onTheWay(k), m)
      BY <1>2, <1>4, <1>7, <2>5, <3>1, SentIsLast DEF onTheWay, m
    <3>3. Welcomes(onTheWay(k)') = {Len(onTheWay(k)) + 1}
      BY <1>4, <2>1, <3>1, <3>2, OneMore
    <3>4. AtMostOneWelcome(onTheWay(k)')
      BY <3>3 DEF AtMostOneWelcome
    <3>5. Identified(k)'
      BY <1>2, <2>1, <2>4, <3>3, <3>4 DEF Identified
    <3>6. knownIfApplied(client[k].known, onTheWay(k)') =
            {q \in Player : puts(m, q) \/ (q \in knownIfApplied(client[k].known, onTheWay(k))
                                            /\ ~takes(m, q))}
      BY <1>4, <3>1, <3>2, OneMore
    <3>7. knownIfApplied(client[k].known, onTheWay(k)') = M
      BY <1>5, <3>1, <3>6 DEF puts, takes
    <3>8. Knows(k)'
      BY <1>2, <1>3, <1>6, <2>5, <3>7 DEF Knows, M
    <3> QED  BY <2>3, <3>5, <3>8 DEF Link
  <2>6. CASE ~in
    <3>1. ServerDisconnect \in Packet /\ ServerDisconnect.type = "ServerDisconnect"
      BY PacketsAre
    <3> DEFINE m == ServerDisconnect
    <3> HIDE DEF m
    <3>2. onTheWay(k)' = Append(onTheWay(k), ServerDisconnect)
      <4>1. m \in Packet
        BY <3>1 DEF m
      <4>2. session'[k].out = Append(session[k].out, m) /\ toClient' = toClient
        BY <1>2, <1>8, <2>6 DEF m
      <4>3. onTheWay(k)' = Append(onTheWay(k), m)
        <5>1. toClient[k] \o Append(session[k].out, m) = Append(toClient[k] \o session[k].out, m)
          BY <1>4, <4>1, SentIsLast
        <5> QED  BY <4>2, <5>1 DEF onTheWay
      <4> QED  BY <4>3 DEF m
    <3>3. Append(onTheWay(k), ServerDisconnect) \in Seq(Packet)
      BY <1>4, <3>1, AppendProperties
    <3>4. Refuses(Append(onTheWay(k), ServerDisconnect))
      BY <1>4, <3>1, OneMore
    <3>5. wasRefused(k)'
      BY <3>2, <3>3, <3>4, RefusedByType DEF wasRefused
    <3>6. Welcomes(onTheWay(k)') = {}
      BY <1>4, <2>1, <3>1, <3>2, OneMore
    <3>7. Identified(k)'
      BY <1>2, <2>1, <2>4, <3>5, <3>6 DEF Identified, AtMostOneWelcome
    <3>8. Knows(k)'
      BY <3>5 DEF Knows
    <3> QED  BY <2>3, <3>7, <3>8 DEF Link
  <2> QED  BY <2>5, <2>6
<1> QED  BY <1>9, <1>10, <1>11, <1>12, <1>13 DEF IInv

-----------------------------------------------------------------------------
(* The other packets of a client *)

\* Only a session with a profile has another packet than the hello before it.
LEMMA HandledFacts ==
  ASSUME IInv, NEW k \in Connection, NEW type, Handled(k, type), type # "Hello"
  PROVE  /\ open(k) /\ session[k].profile # NoProfile /\ session[k].profile \in Player
         /\ session[k].profile = client[k].player
         /\ type = "PlayerDisconnected" => client[k].quit
         /\ toServer' \in [Connection -> Seq(Packet)]
         /\ \A j \in Connection \ {k} : toServer'[j] = toServer[j]
         /\ \A i \in 1..Len(toServer'[k]) :
              i + 1 \in 1..Len(toServer[k]) /\ toServer'[k][i] = toServer[k][i + 1]
         /\ UNCHANGED <<left, isOpen, client, toClient>>
<1>1. TypeInv /\ Link(k)
  BY DEF IInv
<1>2. /\ open(k) /\ toServer[k] # <<>> /\ Head(toServer[k]).type = type
      /\ toServer' = [toServer EXCEPT ![k] = Tail(@)]
      /\ UNCHANGED <<left, isOpen, client, toClient>>
  BY DEF Handled
<1>3. toServer[k] \in Seq(Packet) /\ profiles \in SUBSET Player
  BY <1>1, TypeOfParts
<1>4. /\ 1 \in 1..Len(toServer[k]) /\ toServer[k][1].type = type
      /\ Tail(toServer[k]) \in Seq(Packet)
      /\ Len(toServer[k]) \in Nat /\ Len(Tail(toServer[k])) = Len(toServer[k]) - 1
      /\ \A i \in 1..Len(Tail(toServer[k])) : Tail(toServer[k])[i] = toServer[k][i + 1]
  BY <1>2, <1>3, EmptySeq, HeadTailProperties, LenProperties
<1>5. session[k].profile # NoProfile
  <2>1. SUFFICES ASSUME session[k].profile = NoProfile  PROVE FALSE
    OBVIOUS
  <2>2. toServer[k] = <<Hello>>
    BY <1>1, <1>2, <2>1 DEF Link, Anonymous, open
  <2>3. <<Hello>>[1] = Hello
    OBVIOUS
  <2> QED  BY <1>4, <2>2, <2>3, PacketsAre
<1>6. session[k].profile = client[k].player /\ session[k].profile \in Player
  BY <1>1, <1>3, <1>5 DEF Link, Identified
<1>7. type = "PlayerDisconnected" => client[k].quit
  BY <1>1, <1>4 DEF Link, SaysThatItLeaves
<1>8. /\ toServer' \in [Connection -> Seq(Packet)] /\ toServer'[k] = Tail(toServer[k])
      /\ \A j \in Connection \ {k} : toServer'[j] = toServer[j]
  BY <1>1, <1>2, <1>4 DEF TypeInv
<1>9. \A i \in 1..Len(Tail(toServer[k])) : i + 1 \in 1..Len(toServer[k])
  BY <1>4
<1> QED  BY <1>2, <1>4, <1>5, <1>6, <1>7, <1>8, <1>9

\* A session whose packet has been handled keeps its invariant.
LEMMA HandledLink ==
  ASSUME IInv, NEW k \in Connection, NEW type, Handled(k, type), type # "Hello",
         session'[k].state = session[k].state, session'[k].profile = session[k].profile,
         session'[k].out = session[k].out, profiles' = profiles,
         members' \cup {session[k].profile} = members \cup {session[k].profile}
  PROVE  Link(k)' /\ Knows(k)'
<1>1. Link(k) /\ Knows(k)
  BY DEF IInv
<1>2. /\ open(k) /\ session[k].profile # NoProfile
      /\ \A i \in 1..Len(toServer'[k]) :
           i + 1 \in 1..Len(toServer[k]) /\ toServer'[k][i] = toServer[k][i + 1]
      /\ client' = client /\ toClient' = toClient
  BY HandledFacts
<1>3. onTheWay(k)' = onTheWay(k) /\ (wasRefused(k)' <=> wasRefused(k))
  BY <1>2 DEF onTheWay, wasRefused
<1>4. Pending(k)' /\ Anonymous(k)' /\ Unused(k)'
  BY <1>1, <1>2 DEF Link, Pending, Anonymous, Unused, open, started
<1>5. SaysThatItLeaves(k)'
  BY <1>1, <1>2 DEF Link, SaysThatItLeaves
<1>6. Identified(k)'
  BY <1>1, <1>2, <1>3 DEF Link, Identified, open
<1>7. Knows(k)'
  BY <1>1, <1>2, <1>3 DEF Knows
<1> QED  BY <1>4, <1>5, <1>6, <1>7 DEF Link

(***************************************************************************)
(* A player leaves on its own word: its sessions are not told, the others' *)
(* are, and its next program may find it out of the lobby.                 *)
(***************************************************************************)
LEMMA DisconnectedInv ==
  ASSUME IInv, NEW k \in Connection, onPlayerDisconnectedPacket(k)
  PROVE  IInv'
<1> DEFINE p == session[k].profile
           m == NotifyPlayerDisconnected(p)
           B == broadcast(session, m, p)
           r == [B[k] EXCEPT !.marked = TRUE]
<1>1. TypeInv /\ OneLivingSession /\ LivingInLobby /\ \A j \in Connection : Link(j) /\ Knows(j)
  BY DEF IInv
<1>2. /\ Handled(k, "PlayerDisconnected") /\ members' = members \ {p} /\ profiles' = profiles
      /\ session' = [B EXCEPT ![k] = r]
  BY DEF onPlayerDisconnectedPacket
<1>3. /\ open(k) /\ p # NoProfile /\ p \in Player /\ p = client[k].player /\ client[k].quit
      /\ toServer' \in [Connection -> Seq(Packet)]
      /\ \A j \in Connection \ {k} : toServer'[j] = toServer[j]
      /\ UNCHANGED <<left, isOpen, client, toClient>>
  BY <1>2, HandledFacts
<1>4. /\ session \in [Connection -> SessionType] /\ members \in SUBSET profiles
      /\ profiles \in SUBSET Player
  BY <1>1, TypeOfParts
<1>5. m \in Packet /\ m.type = "NotifyPlayerDisconnected" /\ m.player = p
  BY <1>3, PacketsAre
<1> HIDE DEF m
<1>6. /\ B \in [Connection -> SessionType]
      /\ \A j \in Connection :
           /\ session[j].state = "open" /\ session[j].profile # p =>
                B[j].out = Append(session[j].out, m)
           /\ ~(session[j].state = "open" /\ session[j].profile # p) => B[j] = session[j]
           /\ B[j].state = session[j].state
           /\ B[j].profile = session[j].profile
           /\ B[j].marked = session[j].marked
  BY <1>4, <1>5, BroadcastFacts
<1> HIDE DEF B
<1>7. /\ r \in SessionType /\ r.marked /\ r.state = B[k].state /\ r.profile = B[k].profile
      /\ r.out = B[k].out
  BY <1>6 DEF SessionType
<1> HIDE DEF r
<1>8. /\ session' \in [Connection -> SessionType] /\ session'[k] = r
      /\ \A j \in Connection \ {k} : session'[j] = B[j]
  BY <1>2, <1>6, <1>7
<1>9. TypeInv'
  <2>1. members' \subseteq profiles' /\ profiles' \subseteq Player
    BY <1>2, <1>4
  <2> QED  BY <1>1, <1>3, <1>8, <2>1 DEF TypeInv, TypeOK, SessionType
<1>10. OneLivingSession' /\ LivingInLobby'
  <2>1. \A j \in Connection :
          /\ living(j)' => living(j) /\ session'[j].profile = session[j].profile
          /\ client[j].quit => client'[j].quit /\ client'[j].player = client[j].player
    <3> SUFFICES ASSUME NEW j \in Connection
                 PROVE  living(j)' => living(j) /\ session'[j].profile = session[j].profile
      BY <1>3
    <3>1. CASE j = k
      BY <1>7, <1>8, <3>1 DEF living
    <3>2. CASE j # k
      BY <1>6, <1>8, <3>2 DEF living, open
    <3> QED  BY <3>1, <3>2
  <2>2. \A q : q = p => hasLeft(q)'
    BY <1>3 DEF hasLeft
  <2>3. \A q \in members : q \in members' \/ hasLeft(q)'
    BY <1>2, <2>2
  <2> QED  BY <1>1, <2>1, <2>3, KeptLiving
<1>11. ASSUME NEW j \in Connection  PROVE Link(j)' /\ Knows(j)'
  <2>1. CASE j = k
    <3>1. /\ session'[k].state = session[k].state /\ session'[k].profile = session[k].profile
          /\ session'[k].out = session[k].out
      BY <1>6, <1>7, <1>8
    <3>2. members' \cup {p} = members \cup {p}
      BY <1>2
    <3> QED  BY <1>2, <2>1, <3>1, <3>2, HandledLink
  <2>2. CASE j # k /\ open(j) /\ session[j].profile # p
    <3>1. Notified(j, m)
      BY <1>3, <1>5, <1>6, <1>8, <2>2 DEF Notified, open
    <3>2. session[j].profile # NoProfile => session[j].profile \in Player
      BY <1>1, <1>4 DEF Link, Identified
    <3>3. session[j].profile # NoProfile =>
            members' \cup {session[j].profile} =
              {q \in Player : puts(m, q) \/ (q \in members \cup {session[j].profile}
                                              /\ ~takes(m, q))}
      BY <1>2, <1>4, <1>5, <2>2, <3>2 DEF puts, takes
    <3> QED  BY <1>1, <1>2, <3>1, <3>3, NotifiedLink, NotifiedKnows
  <2>3. CASE j # k /\ ~(open(j) /\ session[j].profile # p)
    <3>1. Kept(j)
      BY <1>3, <1>6, <1>8, <2>3 DEF Kept, open
    <3>2. session[j].profile # NoProfile =>
            members' \cup {session[j].profile} = members \cup {session[j].profile}
      BY <1>1, <1>2, <2>3 DEF Link, Identified
    <3> QED  BY <1>1, <1>2, <3>1, <3>2, KeptLink, KeptKnows
  <2> QED  BY <2>1, <2>2, <2>3
<1> QED  BY <1>9, <1>10, <1>11 DEF IInv

\* A packet without a handler is only taken away.
LEMMA DroppedInv ==
  ASSUME IInv, NEW k \in Connection, DropUpdateRequest(k)
  PROVE  IInv'
<1>1. TypeInv /\ OneLivingSession /\ LivingInLobby /\ \A j \in Connection : Link(j) /\ Knows(j)
  BY DEF IInv
<1>2. Handled(k, "UpdateRequest") /\ UNCHANGED <<profiles, members, session>>
  BY DEF DropUpdateRequest
<1>3. /\ toServer' \in [Connection -> Seq(Packet)]
      /\ \A j \in Connection \ {k} : toServer'[j] = toServer[j]
      /\ UNCHANGED <<left, isOpen, client, toClient>>
  BY <1>2, HandledFacts
<1>4. TypeInv'
  BY <1>1, <1>2, <1>3 DEF TypeInv, TypeOK
<1>5. OneLivingSession' /\ LivingInLobby'
  <2>1. \A j \in Connection :
          /\ living(j)' => living(j) /\ session'[j].profile = session[j].profile
          /\ client[j].quit => client'[j].quit /\ client'[j].player = client[j].player
    BY <1>2, <1>3 DEF living, open
  <2> QED  BY <1>1, <1>2, <2>1, KeptLiving
<1>6. ASSUME NEW j \in Connection  PROVE Link(j)' /\ Knows(j)'
  <2>1. CASE j = k
    BY <1>2, <2>1, HandledLink
  <2>2. CASE j # k
    <3>1. Kept(j)
      BY <1>2, <1>3, <2>2 DEF Kept
    <3> QED  BY <1>1, <1>2, <3>1, KeptLink, KeptKnows
  <2> QED  BY <2>1, <2>2
<1> QED  BY <1>4, <1>5, <1>6 DEF IInv

-----------------------------------------------------------------------------
(* The server's frame *)

\* A step that only marks, or breaks, or lets expire an open session.
LEMMA OnlyFlagsInv ==
  ASSUME IInv, NEW k \in Connection, NEW r \in SessionType, session' = [session EXCEPT ![k] = r],
         open(k), r.state = "open", r.profile = session[k].profile, r.out = session[k].out,
         session[k].marked => r.marked,
         UNCHANGED <<left, profiles, members, isOpen, client, toServer, toClient>>
  PROVE  IInv'
<1>1. TypeInv /\ OneLivingSession /\ LivingInLobby /\ \A j \in Connection : Link(j) /\ Knows(j)
  BY DEF IInv
<1>2. session \in [Connection -> SessionType]
  BY <1>1, TypeOfParts
<1>3. /\ session' \in [Connection -> SessionType] /\ session'[k] = r
      /\ \A j \in Connection \ {k} : session'[j] = session[j]
  BY <1>2
<1>4. TypeInv'
  BY <1>1, <1>3 DEF TypeInv, TypeOK, SessionType
<1>5. OneLivingSession' /\ LivingInLobby'
  <2>1. \A j \in Connection :
          /\ living(j)' => living(j) /\ session'[j].profile = session[j].profile
          /\ client[j].quit => client'[j].quit /\ client'[j].player = client[j].player
    BY <1>3 DEF living, open
  <2> QED  BY <1>1, <2>1, KeptLiving
<1>6. ASSUME NEW j \in Connection  PROVE Link(j)' /\ Knows(j)'
  <2>1. Kept(j)
    BY <1>3 DEF Kept, open
  <2> QED  BY <1>1, <2>1, KeptLink, KeptKnows
<1> QED  BY <1>4, <1>5, <1>6 DEF IInv

\* A session that is marked, whose timer expires, or that cannot send.
LEMMA FlagsInv ==
  ASSUME IInv, NEW k \in Connection,
         updateClient(k) \/ updateDisconnectTimer(k) \/ sendFails(k)
  PROVE  IInv'
<1>1. session[k] \in SessionType
  BY TypeOfParts DEF IInv
<1>2. open(k) /\ session[k].state = "open"
        /\ UNCHANGED <<left, profiles, members, isOpen, client, toServer, toClient>>
  BY DEF updateClient, updateDisconnectTimer, sendFails, serverFrame, open
<1>3. CASE updateClient(k)
  <2> DEFINE r == [session[k] EXCEPT !.marked = TRUE]
  <2>1. session' = [session EXCEPT ![k] = r]
    BY <1>3 DEF updateClient
  <2>2. /\ r \in SessionType /\ r.state = "open" /\ r.profile = session[k].profile
        /\ r.out = session[k].out /\ (session[k].marked => r.marked)
    BY <1>1, <1>2 DEF SessionType
  <2> HIDE DEF r
  <2> QED  BY <1>2, <2>1, <2>2, OnlyFlagsInv
<1>4. CASE updateDisconnectTimer(k)
  <2> DEFINE r == [session[k] EXCEPT !.expired = TRUE]
  <2>1. session' = [session EXCEPT ![k] = r]
    BY <1>4 DEF updateDisconnectTimer
  <2>2. /\ r \in SessionType /\ r.state = "open" /\ r.profile = session[k].profile
        /\ r.out = session[k].out /\ (session[k].marked => r.marked)
    BY <1>1, <1>2 DEF SessionType
  <2> HIDE DEF r
  <2> QED  BY <1>2, <2>1, <2>2, OnlyFlagsInv
<1>5. CASE sendFails(k)
  <2> DEFINE r == [session[k] EXCEPT !.broken = TRUE]
  <2>1. session' = [session EXCEPT ![k] = r]
    BY <1>5 DEF sendFails
  <2>2. /\ r \in SessionType /\ r.state = "open" /\ r.profile = session[k].profile
        /\ r.out = session[k].out /\ (session[k].marked => r.marked)
    BY <1>1, <1>2 DEF SessionType
  <2> HIDE DEF r
  <2> QED  BY <1>2, <2>1, <2>2, OnlyFlagsInv
<1> QED  BY <1>3, <1>4, <1>5

\* An accepted session is open and has no profile yet.
LEMMA AcceptInv ==
  ASSUME IInv, NEW k \in Connection, acceptNewClients(k)
  PROVE  IInv'
<1> DEFINE r == [session[k] EXCEPT !.state = "open"]
<1>1. TypeInv /\ OneLivingSession /\ LivingInLobby /\ \A j \in Connection : Link(j) /\ Knows(j)
  BY DEF IInv
<1>2. /\ session[k].state = "pending" /\ started(k) /\ session' = [session EXCEPT ![k] = r]
      /\ UNCHANGED <<left, profiles, members, isOpen, client, toServer, toClient>>
  BY DEF acceptNewClients, serverFrame
<1>3. session \in [Connection -> SessionType] /\ session[k] \in SessionType
  BY <1>1, TypeOfParts
<1>4. session[k] = newSession /\ session[k].profile = NoProfile
  BY <1>1, <1>2, NewSession DEF Link, Pending
<1>5. /\ r \in SessionType /\ r.state = "open" /\ r.profile = NoProfile
      /\ r.out = session[k].out
  BY <1>3, <1>4 DEF SessionType
<1> HIDE DEF r
<1>6. /\ session' \in [Connection -> SessionType] /\ session'[k] = r
      /\ \A j \in Connection \ {k} : session'[j] = session[j]
  BY <1>2, <1>3, <1>5
<1>7. TypeInv'
  BY <1>1, <1>2, <1>6 DEF TypeInv, TypeOK, SessionType
<1>8. OneLivingSession' /\ LivingInLobby'
  <2>1. \A j \in Connection :
          /\ living(j)' => living(j) /\ session'[j].profile = session[j].profile
          /\ client[j].quit => client'[j].quit /\ client'[j].player = client[j].player
    BY <1>2, <1>5, <1>6 DEF living, open
  <2> QED  BY <1>1, <1>2, <2>1, KeptLiving
<1>9. ASSUME NEW j \in Connection  PROVE Link(j)' /\ Knows(j)'
  <2>1. CASE j = k
    <3>1. onTheWay(k)' = onTheWay(k)
      BY <1>2, <1>5, <1>6 DEF onTheWay
    <3>2. Pending(k)' /\ Identified(k)' /\ Unused(k)' /\ SaysThatItLeaves(k)' /\ Knows(k)'
      BY <1>1, <1>2, <1>5, <1>6
      DEF Link, Pending, Identified, Unused, SaysThatItLeaves, Knows, started
    <3>3. Anonymous(k)'
      BY <1>1, <1>2, <1>4, <1>5, <1>6, <3>1 DEF Link, Anonymous, started
    <3> QED  BY <2>1, <3>2, <3>3 DEF Link
  <2>2. CASE j # k
    <3>1. Kept(j)
      BY <1>2, <1>6, <2>2 DEF Kept
    <3> QED  BY <1>1, <1>2, <3>1, KeptLink, KeptKnows
  <2> QED  BY <2>1, <2>2
<1> QED  BY <1>7, <1>8, <1>9 DEF IInv

\* An erased session is no session: nothing is read from its client any more.
LEMMA EraseInv ==
  ASSUME IInv, NEW k \in Connection, eraseClient(k)
  PROVE  IInv'
<1> DEFINE r == [newSession EXCEPT !.state = "erased"]
<1>1. TypeInv /\ OneLivingSession /\ LivingInLobby /\ \A j \in Connection : Link(j) /\ Knows(j)
  BY DEF IInv
<1>2. /\ open(k) /\ session' = [session EXCEPT ![k] = r]
      /\ toServer' = [toServer EXCEPT ![k] = <<>>]
      /\ UNCHANGED <<left, profiles, members, isOpen, client, toClient>>
  BY DEF eraseClient, serverFrame
<1>3. session \in [Connection -> SessionType]
  BY <1>1, TypeOfParts
<1>4. r \in SessionType /\ r.state = "erased" /\ r.profile = NoProfile
  BY NewSession DEF SessionType
<1> HIDE DEF r
<1>5. /\ session' \in [Connection -> SessionType] /\ session'[k] = r
      /\ \A j \in Connection \ {k} : session'[j] = session[j]
  BY <1>2, <1>3, <1>4
<1>6. /\ toServer' \in [Connection -> Seq(Packet)] /\ toServer'[k] = <<>>
      /\ \A j \in Connection \ {k} : toServer'[j] = toServer[j]
  BY <1>1, <1>2, EmptySeq DEF TypeInv
<1>7. TypeInv'
  BY <1>1, <1>2, <1>5, <1>6 DEF TypeInv, TypeOK, SessionType
<1>8. OneLivingSession' /\ LivingInLobby'
  <2>1. \A j \in Connection :
          /\ living(j)' => living(j) /\ session'[j].profile = session[j].profile
          /\ client[j].quit => client'[j].quit /\ client'[j].player = client[j].player
    BY <1>2, <1>4, <1>5 DEF living, open
  <2> QED  BY <1>1, <1>2, <2>1, KeptLiving
<1>9. ASSUME NEW j \in Connection  PROVE Link(j)' /\ Knows(j)'
  <2>1. CASE j = k
    <3>1. started(k) /\ Len(<<>>) = 0
      BY <1>1, <1>2, EmptySeq DEF Link, Unused, open
    <3>2. Pending(k)' /\ Anonymous(k)' /\ Identified(k)' /\ Unused(k)' /\ SaysThatItLeaves(k)'
            /\ Knows(k)'
      BY <1>2, <1>4, <1>5, <1>6, <3>1
      DEF Pending, Anonymous, Identified, Unused, SaysThatItLeaves, Knows, started
    <3> QED  BY <2>1, <3>2 DEF Link
  <2>2. CASE j # k
    <3>1. Kept(j)
      BY <1>2, <1>5, <1>6, <2>2 DEF Kept
    <3> QED  BY <1>1, <1>2, <3>1, KeptLink, KeptKnows
  <2> QED  BY <2>1, <2>2
<1> QED  BY <1>7, <1>8, <1>9 DEF IInv

\* Sending leaves the packets on the way to a running client as they are.
LEMMA SendInv ==
  ASSUME IInv, NEW k \in Connection, sendPendingPackets(k)
  PROVE  IInv'
<1> DEFINE r == [session[k] EXCEPT !.out = <<>>]
           c == IF client[k].up THEN toClient[k] \o session[k].out ELSE toClient[k]
<1>1. TypeInv /\ OneLivingSession /\ LivingInLobby /\ \A j \in Connection : Link(j) /\ Knows(j)
  BY DEF IInv
<1>2. /\ open(k) /\ session' = [session EXCEPT ![k] = r]
      /\ toClient' = [toClient EXCEPT ![k] = c]
      /\ UNCHANGED <<left, profiles, members, isOpen, client, toServer>>
  BY DEF sendPendingPackets, serverFrame
<1>3. /\ session \in [Connection -> SessionType] /\ session[k] \in SessionType
      /\ toClient[k] \in Seq(Packet) /\ session[k].out \in Seq(Packet)
      /\ onTheWay(k) \in Seq(Packet)
  BY <1>1, TypeOfParts
<1>4. /\ c \in Seq(Packet) /\ (client[k].up => c = onTheWay(k))
      /\ (~client[k].up => c = toClient[k])
  BY <1>3 DEF onTheWay
<1>5. /\ r \in SessionType /\ r.state = session[k].state /\ r.profile = session[k].profile
      /\ r.out = <<>> /\ r.marked = session[k].marked
  BY <1>3, EmptySeq DEF SessionType
<1> HIDE DEF r, c
<1>6. /\ session' \in [Connection -> SessionType] /\ session'[k] = r
      /\ \A j \in Connection \ {k} : session'[j] = session[j]
      /\ toClient' \in [Connection -> Seq(Packet)] /\ toClient'[k] = c
      /\ \A j \in Connection \ {k} : toClient'[j] = toClient[j]
  BY <1>1, <1>2, <1>3, <1>4, <1>5 DEF TypeInv
<1>7. TypeInv'
  BY <1>1, <1>2, <1>6 DEF TypeInv, TypeOK, SessionType
<1>8. OneLivingSession' /\ LivingInLobby'
  <2>1. \A j \in Connection :
          /\ living(j)' => living(j) /\ session'[j].profile = session[j].profile
          /\ client[j].quit => client'[j].quit /\ client'[j].player = client[j].player
    <3>1. \A j \in Connection : /\ session'[j].state = session[j].state
                                /\ session'[j].profile = session[j].profile
                                /\ session'[j].marked = session[j].marked
      BY <1>5, <1>6
    <3> QED  BY <1>2, <3>1 DEF living, open
  <2> QED  BY <1>1, <1>2, <2>1, KeptLiving
<1>9. ASSUME NEW j \in Connection  PROVE Link(j)' /\ Knows(j)'
  <2>1. CASE j = k
    <3>1. onTheWay(k)' = c
      <4>1. onTheWay(k)' = c \o <<>>
        BY <1>5, <1>6 DEF onTheWay
      <4> QED  BY <1>4, <4>1, ConcatEmptySeq
    <3>2. Welcomes(c) \subseteq Welcomes(onTheWay(k))
      <4>1. CASE client[k].up
        BY <1>4, <4>1
      <4>2. CASE ~client[k].up
        <5>1. /\ Len(toClient[k]) \in Nat /\ Len(onTheWay(k)) \in Nat
              /\ Len(toClient[k]) <= Len(onTheWay(k))
              /\ \A i \in 1..Len(toClient[k]) : onTheWay(k)[i] = toClient[k][i]
          <6>1. ASSUME NEW s \in Seq(Packet), NEW t \in Seq(Packet)
                PROVE  /\ Len(s) \in Nat /\ Len(s \o t) \in Nat /\ Len(s) <= Len(s \o t)
                       /\ \A i \in 1..Len(s) : (s \o t)[i] = s[i]
            BY LenProperties, ConcatProperties
          <6> QED  BY <1>3, <6>1 DEF onTheWay
        <5> QED  BY <1>4, <4>2, <5>1 DEF Welcomes
      <4> QED  BY <4>1, <4>2
    <3>3. client[k].up => onTheWay(k)' = onTheWay(k)
      BY <1>4, <3>1
    <3>4. client[k].up => (wasRefused(k)' <=> wasRefused(k))
      BY <1>2, <3>3 DEF wasRefused
    <3>5. Pending(k)' /\ Unused(k)' /\ SaysThatItLeaves(k)'
      BY <1>1, <1>2, <1>5, <1>6
      DEF Link, Pending, Unused, SaysThatItLeaves, open, started
    <3>6. Anonymous(k)'
      BY <1>1, <1>2, <1>5, <1>6, <3>1, <3>2 DEF Link, Anonymous, started
    <3>7. Identified(k)'
      BY <1>1, <1>2, <1>5, <1>6, <3>1, <3>2, <3>3, <3>4
      DEF Link, Identified, AtMostOneWelcome, open
    <3>8. Knows(k)'
      BY <1>1, <1>2, <1>5, <1>6, <3>3, <3>4 DEF Knows
    <3> QED  BY <2>1, <3>5, <3>6, <3>7, <3>8 DEF Link
  <2>2. CASE j # k
    <3>1. Kept(j)
      BY <1>2, <1>6, <2>2 DEF Kept
    <3> QED  BY <1>1, <1>2, <3>1, KeptLink, KeptKnows
  <2> QED  BY <2>1, <2>2
<1> QED  BY <1>7, <1>8, <1>9 DEF IInv

\* The host's request and a step of nobody touch no session.
LEMMA OthersInv ==
  ASSUME IInv, LobbyOpenStateChange \/ UNCHANGED vars
  PROVE  IInv'
<1>1. TypeInv /\ OneLivingSession /\ LivingInLobby /\ \A j \in Connection : Link(j) /\ Knows(j)
  BY DEF IInv
<1>2. UNCHANGED <<left, profiles, members, session, client, toServer, toClient>>
  BY DEF LobbyOpenStateChange, vars
<1>3. TypeInv'
  BY <1>1, <1>2 DEF TypeInv, TypeOK, LobbyOpenStateChange, vars
<1>4. OneLivingSession' /\ LivingInLobby'
  <2>1. \A j \in Connection :
          /\ living(j)' => living(j) /\ session'[j].profile = session[j].profile
          /\ client[j].quit => client'[j].quit /\ client'[j].player = client[j].player
    BY <1>2 DEF living, open
  <2> QED  BY <1>1, <1>2, <2>1, KeptLiving
<1>5. ASSUME NEW j \in Connection  PROVE Link(j)' /\ Knows(j)'
  <2>1. Kept(j)
    BY <1>2 DEF Kept
  <2> QED  BY <1>1, <1>2, <2>1, KeptLink, KeptKnows
<1> QED  BY <1>3, <1>4, <1>5 DEF IInv

-----------------------------------------------------------------------------
(* The theorems *)

\* Every step keeps the invariant.
LEMMA StepInv == IInv /\ [Next]_vars => IInv'
<1> SUFFICES ASSUME IInv, [Next]_vars  PROVE IInv'
  OBVIOUS
<1>1. ASSUME NEW k \in Connection, ServerStep(k)  PROVE IInv'
  BY <1>1, AcceptInv, HelloInv, DisconnectedInv, DroppedInv, FlagsInv, EraseInv, SendInv
  DEF ServerStep
<1>2. ASSUME NEW k \in Connection, Stop(k) \/ Quit(k) \/ ServerStep(k) \/ ClientStep(k)
      PROVE  IInv'
  BY <1>1, <1>2, StopInv, QuitInv, ClientStepInv
<1>3. ASSUME NEW p \in Player, Start(p)  PROVE IInv'
  BY <1>3, StartInv
<1> QED  BY <1>2, <1>3, OthersInv DEF Next

\* The inductive invariant of the sessions holds always.
THEOREM AlwaysIInv == Spec => []IInv
BY InitInv, StepInv, PTL DEF Spec

(***************************************************************************)
(* However often programs start and end with the same token, a player has  *)
(* at most one session that is to stay, and it belongs to a player of the  *)
(* lobby, unless one of that player's programs said that it leaves.        *)
(***************************************************************************)
THEOREM SessionsStayConsistent == Spec => []SessionsConsistent
<1>1. IInv => SessionsConsistent
  BY DEF IInv, TypeInv, SessionsConsistent
<1> QED  BY <1>1, AlwaysIInv, PTL

(***************************************************************************)
(* A client that did not refuse a notification, and has none on its way    *)
(* that it may refuse, misses nobody: its members, with the packets on     *)
(* their way to it, are the server's.                                      *)
(***************************************************************************)
THEOREM ClientsStayInformed == Spec => []ClientsKnowMembers
<1>1. IInv => ClientsKnowMembers
  <2> SUFFICES ASSUME IInv, NEW k \in Connection, open(k), client[k].up,
                      session[k].profile \in members, client[k].sync # "Syncing",
                      ~wasRefused(k), ~mayRefuse(k)
               PROVE  knownIfApplied(client[k].known, onTheWay(k)) = members
    BY DEF ClientsKnowMembers
  <2>1. session[k].profile # NoProfile
    BY NoProfileAssumption, TypeOfParts DEF IInv
  <2> QED  BY <2>1 DEF IInv, Knows
<1> QED  BY <1>1, AlwaysIInv, PTL

(***************************************************************************)
(* A player of the lobby who says hello again is welcomed, into a full or  *)
(* a closed lobby too, and its new session is not among those put out: it  *)
(* had no profile when they were marked.                                   *)
(***************************************************************************)
THEOREM ReturningPlayersAreAccepted == Spec => ReturnIsAccepted
<1>1. ASSUME IInv, NEW k \in Connection, returning(k)
      PROVE  /\ ~session'[k].marked
             /\ \E m \in Range(session'[k].out) : m.type = "Welcome"
  <2> DEFINE M == members \cup {client[k].player}
  <2>1. TypeInv /\ onHelloPacket(k) /\ client[k].player \in members /\ ~session[k].marked
    BY <1>1 DEF returning, IInv
  <2>2. session'[k].out = Append(session[k].out, Welcome(members \cup {client[k].player}))
    BY <1>1, <2>1, HelloSessions
  <2>3. session'[k].marked = session[k].marked
    BY <1>1, <2>1, HelloSessions
  <2>4. session[k].out \in Seq(Packet) /\ M \in SUBSET Player
    BY <2>1, TypeOfParts
  <2>5. Welcome(M) \in Packet /\ Welcome(M).type = "Welcome"
    BY <2>4, PacketsAre
  <2> DEFINE m == Welcome(M)
  <2>6. session'[k].out = Append(session[k].out, m)
    BY <2>2
  <2> HIDE DEF m
  <2>7. m \in Packet /\ m.type = "Welcome"
    BY <2>5 DEF m
  <2>8. /\ Len(session[k].out) + 1 \in DOMAIN session'[k].out
        /\ session'[k].out[Len(session[k].out) + 1] = m
    BY <2>4, <2>6, <2>7, AppendProperties, LenProperties
  <2>9. m \in Range(session'[k].out)
    BY <2>8 DEF Range
  <2> QED  BY <2>1, <2>3, <2>7, <2>9
<1>2. IInv /\ [Next]_vars =>
        [\A k \in Connection : returning(k) =>
           /\ ~session'[k].marked
           /\ \E m \in Range(session'[k].out) : m.type = "Welcome"]_vars
  BY <1>1
<1> QED  BY <1>2, AlwaysIInv, PTL DEF Spec, ReturnIsAccepted

=============================================================================
