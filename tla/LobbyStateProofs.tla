---------------------------- MODULE LobbyStateProofs ----------------------------
(***************************************************************************)
(* What the operations on a lobby do: on the queue of ids (IdQueue), on    *)
(* the two seat maps (SeatPositions), and on a whole lobby (LobbyState and *)
(* LobbyLogic).  The lobby is a bound variable here: the server's lobby,   *)
(* a client's copy of it and a snapshot on its way are all of this kind.   *)
(*                                                                         *)
(* Two predicates on a lobby carry the proofs about them: WellFormed,      *)
(* which every operation preserves, and Placed, which needs operations     *)
(* that were asked for on the lobby as it is.                              *)
(***************************************************************************)
EXTENDS LobbyLogic, FiniteSetTheorems, SequenceTheorems, WellFoundedInduction, TLAPS

-----------------------------------------------------------------------------
(***************************************************************************)
(* A queue of any length: eraseId and replaceId return a queue, remove or  *)
(* replace exactly the id they are given, and introduce no repetition.     *)
(***************************************************************************)

\* A non-empty set of natural numbers has a smallest element.
LEMMA SmallestOf ==
  ASSUME NEW T \in SUBSET Nat, T # {}
  PROVE  \E x \in T : \A y \in T : x <= y
<1> DEFINE R == OpToRel(<, Nat)
<1>1. IsWellFoundedOn(R, Nat)
  BY NatLessThanWellFounded
<1>2. PICK x \in T : \A y \in T : << y, x >> \notin R
  <2> HIDE DEF R
  <2> QED  BY <1>1, WFMin
<1>3. \A y \in T : << y, x >> \in R <=> y < x
  BY DEF OpToRel
<1>4. \A y \in T : ~(y < x)
  BY <1>2, <1>3
<1> HIDE DEF R
<1> QED  BY <1>4

\* The occurrences of p in the first i positions, counted one position at a time.
LEMMA OccurrencesStep ==
  ASSUME NEW q, NEW p, NEW i \in Nat
  PROVE  /\ Occurrences(q, p, i) \in Nat
         /\ Occurrences(q, p, 0) = 0
         /\ Occurrences(q, p, i + 1)
              = IF q[i + 1] = p THEN Occurrences(q, p, i) + 1 ELSE Occurrences(q, p, i)
<1> DEFINE At(n) == {j \in 1..n : q[j] = p}
<1>1. \A n \in Nat : IsFiniteSet(At(n)) /\ Cardinality(At(n)) \in Nat
  <2> TAKE n \in Nat
  <2>1. IsFiniteSet(1..n)
    BY FS_Interval
  <2>2. At(n) \subseteq 1..n
    OBVIOUS
  <2> QED  BY <2>1, <2>2, FS_Subset, FS_CardinalityType
<1>2. At(0) = {}
  OBVIOUS
<1>3. CASE q[i + 1] = p
  <2>1. At(i + 1) = At(i) \cup {i + 1} /\ i + 1 \notin At(i)
    BY <1>3
  <2> QED  BY <1>1, <1>2, <1>3, <2>1, FS_AddElement, FS_EmptySet DEF Occurrences
<1>4. CASE q[i + 1] # p
  <2>1. At(i + 1) = At(i)
    BY <1>4
  <2> QED  BY <1>1, <1>2, <1>4, <2>1, FS_EmptySet DEF Occurrences
<1> QED  BY <1>3, <1>4

\* At most every position between i and j holds p.
LEMMA OccurrencesGrow ==
  ASSUME NEW q, NEW p, NEW i \in Nat, NEW j \in Nat, i <= j
  PROVE  Occurrences(q, p, j) <= Occurrences(q, p, i) + (j - i)
<1> DEFINE At(n) == {k \in 1..n : q[k] = p}
           More  == {k \in (i + 1)..j : q[k] = p}
<1>1. IsFiniteSet(At(i)) /\ IsFiniteSet(More) /\ Cardinality(More) <= j - i
  <2>1. IsFiniteSet(1..i) /\ IsFiniteSet((i + 1)..j)
    BY FS_Interval
  <2>0. Cardinality((i + 1)..j) = j - i
    <3>1. Cardinality((i + 1)..j) = IF i + 1 > j THEN 0 ELSE j - (i + 1) + 1
      BY FS_Interval
    <3> QED  BY <3>1
  <2>2. At(i) \in SUBSET (1..i) /\ More \in SUBSET ((i + 1)..j)
    OBVIOUS
  <2> QED  BY <2>0, <2>1, <2>2, FS_Subset
<1>2. At(j) = At(i) \cup More
  OBVIOUS
<1>3. Cardinality(At(j)) = Cardinality(At(i)) + Cardinality(More) - Cardinality(At(i) \cap More)
  BY <1>1, <1>2, FS_Union
<1>4. Cardinality(At(i)) \in Nat /\ Cardinality(More) \in Nat /\ Cardinality(At(i) \cap More) \in Nat
  BY <1>1, FS_CardinalityType, FS_Intersection
<1> QED  BY <1>1, <1>3, <1>4 DEF Occurrences

(***************************************************************************)
(* How many of the first i ids are not p: Kept grows by one at each        *)
(* position that does not hold p and stays where it is at the others.      *)
(***************************************************************************)
Kept(q, p) == [i \in Nat |-> i - Occurrences(q, p, i)]

\* What the other lemmas need of Kept; it starts at 0 and never falls.
LEMMA KeptProperties ==
  ASSUME NEW q, NEW p
  PROVE  /\ Kept(q, p) \in [Nat -> Nat]
         /\ Kept(q, p)[0] = 0
         /\ \A i \in Nat \ {0} : q[i] # p => Kept(q, p)[i] = Kept(q, p)[i - 1] + 1
         /\ \A i \in Nat \ {0} : q[i] = p => Kept(q, p)[i] = Kept(q, p)[i - 1]
         /\ \A i, j \in Nat : i <= j => Kept(q, p)[i] <= Kept(q, p)[j]
<1>1. Occurrences(q, p, 0) = 0 /\ \A i \in Nat : Occurrences(q, p, i) \in Nat
  BY OccurrencesStep
<1>2. \A i, j \in Nat : i <= j => Occurrences(q, p, j) <= Occurrences(q, p, i) + (j - i)
  BY OccurrencesGrow
<1>3. \A i \in Nat : Kept(q, p)[i] = i - Occurrences(q, p, i)
  BY DEF Kept
<1>4. Kept(q, p) \in [Nat -> Nat] /\ Kept(q, p)[0] = 0
  <2>1. \A i \in Nat : Occurrences(q, p, i) <= Occurrences(q, p, 0) + (i - 0)
    BY <1>2
  <2>2. \A i \in Nat : i - Occurrences(q, p, i) \in Nat
    BY <1>1, <2>1
  <2> QED  BY <1>1, <1>3, <2>2 DEF Kept
<1>5. ASSUME NEW i \in Nat \ {0}
      PROVE  /\ q[i] # p => Kept(q, p)[i] = Kept(q, p)[i - 1] + 1
             /\ q[i] = p => Kept(q, p)[i] = Kept(q, p)[i - 1]
  <2>1. i - 1 \in Nat /\ (i - 1) + 1 = i
    OBVIOUS
  <2>2. Occurrences(q, p, (i - 1) + 1)
          = IF q[(i - 1) + 1] = p THEN Occurrences(q, p, i - 1) + 1 ELSE Occurrences(q, p, i - 1)
    BY <2>1, OccurrencesStep
  <2>3. Occurrences(q, p, i)
          = IF q[i] = p THEN Occurrences(q, p, i - 1) + 1 ELSE Occurrences(q, p, i - 1)
    BY <2>1, <2>2
  <2> QED  BY <1>1, <1>3, <2>1, <2>3
<1>6. \A i, j \in Nat : i <= j => Kept(q, p)[i] <= Kept(q, p)[j]
  BY <1>1, <1>2, <1>3
<1> QED  BY <1>4, <1>5, <1>6

\* Each k from 1 to the number of ids kept is reached at a position that is kept.
LEMMA KeptReaches ==
  ASSUME NEW S, NEW q \in Seq(S), NEW p, NEW k \in 1..Kept(q, p)[Len(q)]
  PROVE  \E i \in 1..Len(q) : q[i] # p /\ Kept(q, p)[i] = k
<1> DEFINE f == Kept(q, p)
           Late == {i \in 0..Len(q) : f[i] >= k}
<1>1. Len(q) \in Nat
  BY LenProperties
<1>2. /\ f \in [Nat -> Nat] /\ f[0] = 0
      /\ \A i \in Nat \ {0} : q[i] # p => f[i] = f[i - 1] + 1
      /\ \A i \in Nat \ {0} : q[i] = p => f[i] = f[i - 1]
  BY KeptProperties
<1> HIDE DEF f
<1>3. k \in Nat \ {0} /\ f[Len(q)] >= k
  BY <1>1, <1>2 DEF f
<1>4. PICK i \in Late : \A j \in Late : i <= j
  <2>1. Late \in SUBSET Nat /\ Late # {}
    BY <1>1, <1>3
  <2> QED  BY <2>1, SmallestOf
<1>5. i \in 1..Len(q) /\ f[i] >= k
  BY <1>1, <1>2, <1>3, <1>4
<1>6. i - 1 \in 0..Len(q) /\ ~(f[i - 1] >= k)
  BY <1>1, <1>4, <1>5
<1>7. f[i] \in Nat /\ f[i - 1] \in Nat
  BY <1>1, <1>2, <1>5, <1>6
<1>8. q[i] # p /\ f[i] = f[i - 1] + 1
  <2>1. i \in Nat \ {0} /\ f[i] # f[i - 1]
    BY <1>1, <1>3, <1>5, <1>6, <1>7
  <2>2. q[i] # p
    BY <1>2, <2>1
  <2> QED  BY <1>2, <2>1, <2>2
<1>9. f[i] = k
  BY <1>3, <1>5, <1>6, <1>7, <1>8
<1> QED  BY <1>5, <1>8, <1>9 DEF f

\* KeptAt finds the position of the k-th id kept.
LEMMA KeptAtProperties ==
  ASSUME NEW S, NEW q \in Seq(S), NEW p, NEW k \in 1..Kept(q, p)[Len(q)]
  PROVE  /\ KeptAt(q, p, k) \in 1..Len(q)
         /\ q[KeptAt(q, p, k)] # p
         /\ Kept(q, p)[KeptAt(q, p, k)] = k
<1>1. Len(q) \in Nat /\ DOMAIN q = 1..Len(q)
  BY LenProperties
<1>2. \A i \in 1..Len(q) : Kept(q, p)[i] = i - Occurrences(q, p, i)
  BY <1>1 DEF Kept
<1>3. \E i \in DOMAIN q : q[i] # p /\ i - Occurrences(q, p, i) = k
  BY <1>1, <1>2, KeptReaches
<1>4. /\ KeptAt(q, p, k) \in DOMAIN q
      /\ q[KeptAt(q, p, k)] # p
      /\ KeptAt(q, p, k) - Occurrences(q, p, KeptAt(q, p, k)) = k
  BY <1>3 DEF KeptAt
<1> QED  BY <1>1, <1>2, <1>4

\* Every position that is kept is KeptAt of some k.
LEMMA KeptAtCovers ==
  ASSUME NEW S, NEW q \in Seq(S), NEW p, NEW i \in 1..Len(q), q[i] # p
  PROVE  \E k \in 1..Kept(q, p)[Len(q)] : KeptAt(q, p, k) = i
<1> DEFINE f == Kept(q, p)
           k == f[i]
           m == KeptAt(q, p, k)
<1>1. Len(q) \in Nat /\ i - 1 \in Nat /\ i \in Nat \ {0} /\ i <= Len(q)
  BY LenProperties
<1>2. /\ f \in [Nat -> Nat]
      /\ \A j \in Nat \ {0} : q[j] # p => f[j] = f[j - 1] + 1
      /\ \A a, b \in Nat : a <= b => f[a] <= f[b]
  BY KeptProperties
<1> HIDE DEF f
<1>3. k \in 1..f[Len(q)]
  <2>1. f[i] = f[i - 1] + 1 /\ f[i - 1] \in Nat
    BY <1>1, <1>2
  <2>2. f[i] <= f[Len(q)] /\ f[Len(q)] \in Nat
    BY <1>1, <1>2
  <2> QED  BY <2>1, <2>2
<1>4. m \in 1..Len(q) /\ q[m] # p /\ f[m] = f[i]
  BY <1>3, KeptAtProperties DEF f
<1> HIDE DEF k, m
<1>5. m - 1 \in Nat /\ m \in Nat \ {0} /\ f[m] = f[m - 1] + 1 /\ f[i] = f[i - 1] + 1
  <2>1. m - 1 \in Nat /\ m \in Nat \ {0}
    BY <1>1, <1>4
  <2>2. f[m] = f[m - 1] + 1
    BY <1>2, <1>4, <2>1
  <2>3. f[i] = f[i - 1] + 1
    BY <1>1, <1>2
  <2> QED  BY <2>1, <2>2, <2>3
<1>6. f[i] \in Nat /\ f[m] \in Nat /\ f[i - 1] \in Nat /\ f[m - 1] \in Nat
  BY <1>1, <1>2, <1>5
<1>7. ~(i < m)
  <2>1. SUFFICES ASSUME i < m  PROVE FALSE
    OBVIOUS
  <2>2. i <= m - 1
    BY <1>1, <1>5, <2>1
  <2>3. f[i] <= f[m - 1]
    BY <1>1, <1>2, <1>5, <2>2
  <2> QED  BY <1>4, <1>5, <1>6, <2>3
<1>8. ~(m < i)
  <2>1. SUFFICES ASSUME m < i  PROVE FALSE
    OBVIOUS
  <2>2. m <= i - 1
    BY <1>1, <1>5, <2>1
  <2>3. f[m] <= f[i - 1]
    BY <1>1, <1>2, <1>5, <2>2
  <2>4. f[i] <= f[i - 1]
    BY <1>4, <2>3
  <2> QED  BY <1>5, <1>6, <2>4
<1>9. m = i
  BY <1>1, <1>5, <1>7, <1>8
<1> QED  BY <1>3, <1>9 DEF f, k, m

(***************************************************************************)
(* std::erase_if removes the given id and nothing else, whatever the queue *)
(* holds, and leaves no repetition that was not there before.              *)
(***************************************************************************)
THEOREM EraseIdCorrect ==
  ASSUME NEW S, NEW q \in Seq(S), NEW p
  PROVE  /\ eraseId(q, p) \in Seq(S)
         /\ Ids(eraseId(q, p)) = Ids(q) \ {p}
         /\ IsInjective(q) => IsInjective(eraseId(q, p))
<1> DEFINE n == Kept(q, p)[Len(q)]
           e == eraseId(q, p)
<1>0. Len(q) \in Nat /\ DOMAIN q = 1..Len(q)
  BY LenProperties
<1>1. n \in Nat
  BY <1>0, KeptProperties
<1>2. \A k \in 1..n : /\ KeptAt(q, p, k) \in 1..Len(q)
                      /\ q[KeptAt(q, p, k)] # p
                      /\ Kept(q, p)[KeptAt(q, p, k)] = k
  BY KeptAtProperties
<1>3. e = [k \in 1..n |-> q[KeptAt(q, p, k)]]
  BY <1>0 DEF eraseId, Kept
<1>5. \A i \in 1..Len(q) : q[i] # p => \E m \in 1..n : KeptAt(q, p, m) = i
  BY KeptAtCovers
<1> HIDE DEF n, e
<1>6. e \in Seq(S)
  <2>1. \A i \in 1..Len(q) : q[i] \in S
    BY ElementOfSeq
  <2>2. e \in [1..n -> S]
    BY <1>2, <1>3, <2>1
  <2> QED  BY <1>1, <2>2
<1>7. Ids(e) = Ids(q) \ {p}
  <2>1. \A x \in Ids(e) : x \in Ids(q) \ {p}
    BY <1>0, <1>2, <1>3 DEF Ids
  <2>2. ASSUME NEW i \in 1..Len(q), q[i] # p  PROVE q[i] \in Ids(e)
    <3>1. PICK k \in 1..n : KeptAt(q, p, k) = i
      BY <1>5, <2>2
    <3> QED  BY <1>3, <3>1 DEF Ids
  <2> QED  BY <1>0, <2>1, <2>2 DEF Ids
<1>8. ASSUME IsInjective(q)  PROVE IsInjective(e)
  <2>1. SUFFICES ASSUME NEW a \in 1..n, NEW b \in 1..n, e[a] = e[b]  PROVE a = b
    BY <1>3 DEF IsInjective
  <2>2. KeptAt(q, p, a) = KeptAt(q, p, b)
    BY <1>0, <1>2, <1>3, <1>8, <2>1 DEF IsInjective
  <2> QED  BY <1>2, <2>2
<1> QED  BY <1>6, <1>7, <1>8 DEF e

(***************************************************************************)
(* The loop of swapPlayersSeatPositions: when old waits in the queue and   *)
(* new does not, new takes the place of old and no id is repeated.         *)
(***************************************************************************)
THEOREM ReplaceIdCorrect ==
  ASSUME NEW S, NEW q \in Seq(S), NEW old \in S, NEW new \in S
  PROVE  /\ replaceId(q, old, new) \in Seq(S)
         /\ Len(replaceId(q, old, new)) = Len(q)
         /\ Ids(replaceId(q, old, new)) \subseteq Ids(q) \cup {new}
         /\ IsInjective(q) /\ old \in Ids(q) /\ new \notin Ids(q)
              => /\ IsInjective(replaceId(q, old, new))
                 /\ Ids(replaceId(q, old, new)) = (Ids(q) \ {old}) \cup {new}
<1> DEFINE r == replaceId(q, old, new)
<1>1. Len(q) \in Nat /\ DOMAIN q = 1..Len(q) /\ \A i \in 1..Len(q) : q[i] \in S
  BY LenProperties, ElementOfSeq
<1>2. r = [i \in 1..Len(q) |->
             IF q[i] = old /\ \A j \in 1..(i - 1) : q[j] # old THEN new ELSE q[i]]
  BY <1>1 DEF replaceId
<1> HIDE DEF r
<1>3. r \in [1..Len(q) -> S]
  BY <1>1, <1>2
<1>4. r \in Seq(S) /\ Len(r) = Len(q)
  BY <1>1, <1>3
<1>5. \A i \in 1..Len(q) : r[i] = q[i] \/ r[i] = new
  BY <1>2
<1>6. Ids(r) \subseteq Ids(q) \cup {new}
  BY <1>1, <1>3, <1>5 DEF Ids
<1>7. ASSUME IsInjective(q), old \in Ids(q), new \notin Ids(q)
      PROVE  IsInjective(r) /\ Ids(r) = (Ids(q) \ {old}) \cup {new}
  <2>1. PICK k \in 1..Len(q) : q[k] = old
    BY <1>1, <1>7 DEF Ids
  <2>2. \A i \in 1..Len(q) : q[i] = old => i = k
    BY <1>1, <1>7, <2>1 DEF IsInjective
  <2>3. \A i \in 1..Len(q) : r[i] = IF i = k THEN new ELSE q[i]
    BY <1>1, <1>2, <2>1, <2>2
  <2>4. \A i \in 1..Len(q) : q[i] # new
    BY <1>1, <1>7 DEF Ids
  <2>5. IsInjective(r)
    BY <1>1, <1>3, <1>7, <2>3, <2>4 DEF IsInjective
  <2>6. Ids(r) = (Ids(q) \ {old}) \cup {new}
    BY <1>1, <1>3, <2>1, <2>2, <2>3 DEF Ids
  <2> QED  BY <2>5, <2>6
<1> QED  BY <1>4, <1>6, <1>7 DEF r

\* push_back adds one id, and no repetition if the id was not there.
THEOREM AppendCorrect ==
  ASSUME NEW S, NEW q \in Seq(S), NEW p \in S
  PROVE  /\ Append(q, p) \in Seq(S)
         /\ Len(Append(q, p)) = Len(q) + 1
         /\ Ids(Append(q, p)) = Ids(q) \cup {p}
         /\ IsInjective(q) /\ p \notin Ids(q) => IsInjective(Append(q, p))
<1> DEFINE a == Append(q, p)
<1>1. Len(q) \in Nat /\ DOMAIN q = 1..Len(q)
  BY LenProperties
<1>2. /\ a \in Seq(S) /\ Len(a) = Len(q) + 1 /\ DOMAIN a = 1..(Len(q) + 1)
      /\ \A i \in 1..Len(q) : a[i] = q[i]
      /\ a[Len(q) + 1] = p
  BY <1>1
<1> HIDE DEF a
<1>3. Ids(a) = Ids(q) \cup {p}
  <2>1. \A x \in Ids(a) : x \in Ids(q) \cup {p}
    BY <1>1, <1>2 DEF Ids
  <2>2. \A x \in Ids(q) : x \in Ids(a)
    BY <1>1, <1>2 DEF Ids
  <2>3. p \in Ids(a)
    BY <1>1, <1>2 DEF Ids
  <2> QED  BY <2>1, <2>2, <2>3
<1>4. ASSUME IsInjective(q), p \notin Ids(q)  PROVE IsInjective(a)
  <2>1. \A i \in 1..Len(q) : q[i] # p
    BY <1>1, <1>4 DEF Ids
  <2>2. SUFFICES ASSUME NEW i \in 1..(Len(q) + 1), NEW j \in 1..(Len(q) + 1), a[i] = a[j]
                 PROVE  i = j
    BY <1>2 DEF IsInjective
  <2>3. (i \in 1..Len(q) \/ i = Len(q) + 1) /\ (j \in 1..Len(q) \/ j = Len(q) + 1)
    BY <1>1
  <2> QED  BY <1>1, <1>2, <1>4, <2>1, <2>2, <2>3 DEF IsInjective
<1> QED  BY <1>2, <1>3, <1>4 DEF a
-----------------------------------------------------------------------------
(***************************************************************************)
(* The seat maps: what each operation does to the seat of every player.    *)
(* Each keeps the two maps inverse to each other.                          *)
(***************************************************************************)

\* The two reserved numbers are neither players nor seats.
LEMMA Reserved == Nobody \notin Player /\ Nowhere \notin Seat /\ QueueSeat \in Seat
BY PlayerAssumption DEF Nobody, Nowhere, Seat, QueueSeat, MaxPlayersPerGame

\* Two maps that are inverse hold no player twice.
LEMMA OnePlayerPerSeat ==
  ASSUME NEW sp \in SeatPositionsType, MapsInverse(sp),
         NEW p \in Player, NEW q \in Player, sp.seatOf[p] # Nowhere, sp.seatOf[p] = sp.seatOf[q]
  PROVE  p = q
BY Reserved DEF MapsInverse, SeatPositionsType

\* The empty maps.
LEMMA EmptySeats == emptySeats \in SeatPositionsType /\ MapsInverse(emptySeats)
BY Reserved DEF emptySeats, SeatPositionsType, MapsInverse

\* erase takes p out of its seat and moves nobody else.
LEMMA EraseCorrect ==
  ASSUME NEW sp \in SeatPositionsType, NEW p \in Player
  PROVE  /\ erase(sp, p) \in SeatPositionsType
         /\ MapsInverse(sp) => MapsInverse(erase(sp, p))
         /\ erase(sp, p).seatOf = [sp.seatOf EXCEPT ![p] = Nowhere]
<1> DEFINE r == erase(sp, p)
<1>1. CASE sp.seatOf[p] = Nowhere
  <2>1. r = sp
    BY <1>1 DEF erase
  <2> QED  BY <1>1, <2>1 DEF SeatPositionsType
<1>2. CASE sp.seatOf[p] # Nowhere
  <2>1. /\ sp.seatOf[p] \in Seat
        /\ r = [playerAt |-> [sp.playerAt EXCEPT ![sp.seatOf[p]] = Nobody],
                seatOf |-> [sp.seatOf EXCEPT ![p] = Nowhere]]
    BY <1>2 DEF erase, eraseFromMaps, SeatPositionsType
  <2> HIDE DEF r
  <2>2. r \in SeatPositionsType /\ r.seatOf = [sp.seatOf EXCEPT ![p] = Nowhere]
    BY <2>1 DEF SeatPositionsType
  <2>3. ASSUME MapsInverse(sp), NEW x \in Player, NEW s \in Seat
        PROVE  r.seatOf[x] = s <=> r.playerAt[s] = x
    <3>1. /\ r.seatOf[x] = IF x = p THEN Nowhere ELSE sp.seatOf[x]
          /\ r.playerAt[s] = IF s = sp.seatOf[p] THEN Nobody ELSE sp.playerAt[s]
      BY <2>1 DEF SeatPositionsType
    <3>2. sp.seatOf[x] = s <=> sp.playerAt[s] = x
      BY <2>3 DEF MapsInverse
    <3>3. sp.playerAt[sp.seatOf[p]] = p
      BY <2>1, <2>3 DEF MapsInverse
    <3> QED  BY <3>1, <3>2, <3>3, Reserved
  <2> QED  BY <2>2, <2>3 DEF MapsInverse, r
<1> QED  BY <1>1, <1>2

\* assignSeat puts p at s, throws out whoever sat there, and moves nobody else.
LEMMA AssignSeatCorrect ==
  ASSUME NEW sp \in SeatPositionsType, NEW p \in Player, NEW s \in Seat, MapsInverse(sp)
  PROVE  /\ assignSeat(sp, p, s) \in SeatPositionsType
         /\ MapsInverse(assignSeat(sp, p, s))
         /\ assignSeat(sp, p, s).seatOf[p] = s
         /\ \A x \in Player \ {p} :
              assignSeat(sp, p, s).seatOf[x] = IF sp.seatOf[x] = s THEN Nowhere ELSE sp.seatOf[x]
<1> DEFINE up   == erase(sp, p)
           free == IF up.playerAt[s] = Nobody THEN up ELSE erase(up, up.playerAt[s])
           r    == [playerAt |-> [free.playerAt EXCEPT ![s] = p],
                    seatOf   |-> [free.seatOf EXCEPT ![p] = s]]
<1>1. up \in SeatPositionsType /\ MapsInverse(up) /\ up.seatOf = [sp.seatOf EXCEPT ![p] = Nowhere]
  BY EraseCorrect
<1> HIDE DEF up
<1>2. /\ free \in SeatPositionsType /\ MapsInverse(free)
      /\ \A x \in Player : free.seatOf[x] = IF up.seatOf[x] = s THEN Nowhere ELSE up.seatOf[x]
  <2>1. CASE up.playerAt[s] = Nobody
    <3>1. \A x \in Player : up.seatOf[x] # s
      BY <1>1, <2>1, Reserved DEF MapsInverse
    <3> QED  BY <1>1, <2>1, <3>1
  <2>2. CASE up.playerAt[s] # Nobody
    <3>1. up.playerAt[s] \in Player
      BY <1>1, <2>2 DEF SeatPositionsType
    <3>2. /\ free \in SeatPositionsType /\ MapsInverse(free)
          /\ free.seatOf = [up.seatOf EXCEPT ![up.playerAt[s]] = Nowhere]
      BY <1>1, <2>2, <3>1, EraseCorrect
    <3>3. \A x \in Player : up.seatOf[x] = s <=> up.playerAt[s] = x
      BY <1>1 DEF MapsInverse
    <3> QED  BY <1>1, <3>1, <3>2, <3>3 DEF SeatPositionsType
  <2> QED  BY <2>1, <2>2
<1> HIDE DEF free
<1>3. /\ \A x \in Player : free.seatOf[x] # s
      /\ free.seatOf[p] = Nowhere
      /\ \A x \in Player \ {p} : free.seatOf[x] = IF sp.seatOf[x] = s THEN Nowhere ELSE sp.seatOf[x]
  BY <1>1, <1>2, Reserved DEF SeatPositionsType
<1>4. assignSeat(sp, p, s) = r
  BY DEF assignSeat, free, up
<1>5. /\ r \in SeatPositionsType
      /\ \A x \in Player : r.seatOf[x] = IF x = p THEN s ELSE free.seatOf[x]
      /\ \A t \in Seat : r.playerAt[t] = IF t = s THEN p ELSE free.playerAt[t]
  BY <1>2 DEF SeatPositionsType
<1> HIDE DEF r
<1>6. MapsInverse(r)
  <2>1. SUFFICES ASSUME NEW x \in Player, NEW t \in Seat
                 PROVE  r.seatOf[x] = t <=> r.playerAt[t] = x
    BY DEF MapsInverse
  <2>2. free.seatOf[x] = t <=> free.playerAt[t] = x
    BY <1>2 DEF MapsInverse
  <2>3. free.playerAt[t] # p
    BY <1>2, <1>3, Reserved DEF MapsInverse
  <2> QED  BY <1>3, <1>5, <2>2, <2>3
<1> QED  BY <1>3, <1>4, <1>5, <1>6 DEF r

\* swapPlayers exchanges the seats of two seated players and moves nobody else.
LEMMA SwapPlayersCorrect ==
  ASSUME NEW sp \in SeatPositionsType, NEW p \in Player, NEW q \in Player, MapsInverse(sp),
         sp.seatOf[p] # Nowhere, sp.seatOf[q] # Nowhere
  PROVE  /\ swapPlayers(sp, p, q) \in SeatPositionsType
         /\ MapsInverse(swapPlayers(sp, p, q))
         /\ swapPlayers(sp, p, q).seatOf
              = [sp.seatOf EXCEPT ![p] = sp.seatOf[q], ![q] = sp.seatOf[p]]
<1> DEFINE r == swapPlayers(sp, p, q)
           a == sp.seatOf[p]
           b == sp.seatOf[q]
<1>1. a \in Seat /\ b \in Seat /\ sp.playerAt[a] = p /\ sp.playerAt[b] = q
  BY DEF SeatPositionsType, MapsInverse
<1>2. r = [playerAt |-> [sp.playerAt EXCEPT ![a] = q, ![b] = p],
           seatOf |-> [sp.seatOf EXCEPT ![p] = b, ![q] = a]]
  BY DEF swapPlayers
<1> HIDE DEF r
<1>3. r \in SeatPositionsType
  BY <1>1, <1>2 DEF SeatPositionsType
<1>4. ASSUME NEW x \in Player, NEW s \in Seat
      PROVE  r.seatOf[x] = s <=> r.playerAt[s] = x
  <2>1. r.seatOf[x] = IF x = q THEN a ELSE IF x = p THEN b ELSE sp.seatOf[x]
    BY <1>2 DEF SeatPositionsType
  <2>2. r.playerAt[s] = IF s = b THEN p ELSE IF s = a THEN q ELSE sp.playerAt[s]
    BY <1>1, <1>2 DEF SeatPositionsType
  <2>3. sp.seatOf[x] = s <=> sp.playerAt[s] = x
    BY DEF MapsInverse
  <2>4. a = b <=> p = q
    BY <1>1
  <2> QED  BY <1>1, <2>1, <2>2, <2>3, <2>4
<1> QED  BY <1>2, <1>3, <1>4 DEF MapsInverse, r

-----------------------------------------------------------------------------
(* A whole lobby *)

WellFormed(L) ==
  /\ L \in LobbyType
  /\ MapsInverse(L.seats)
  /\ \A x \in Player : L.seats.seatOf[x] # Nowhere => x \in L.profiles
  /\ Ids(L.queue) \subseteq L.profiles

\* What moving a player does not touch.
Settings(L) == << L.profiles, L.open, L.canMove, L.ppg, L.hostId >>

\* swapPlayersSeatPositions when one of the two waits in the queue.
replacedAndAssigned(L, a, old, new, s) ==
  [L EXCEPT !.queue = replaceId(@, old, new), !.seats = assignSeat(@, a, s)]

\* addPlayer up to the call that puts the player somewhere.
joined(L, p) == [L EXCEPT !.profiles = @ \cup {p}]

\* changePlayerSeatPosition up to the call that puts the player somewhere.
takenOut(L, p) ==
  IF getSeatPositionById(L, p) = QueueSeat
  THEN [L EXCEPT !.queue = eraseId(@, p)]
  ELSE [L EXCEPT !.seats = erase(@, p)]

-----------------------------------------------------------------------------
(* The operations of LobbyState preserve WellFormed *)

\* The lobby of a server that has just started, and the copy of a client that has.
LEMMA InitialWellFormed == WellFormed(initialLobby)
<1>1. /\ initialLobby \in LobbyType
      /\ initialLobby.seats = emptySeats /\ initialLobby.queue = << >>
      /\ \A x \in Player : emptySeats.seatOf[x] = Nowhere
  BY EmptySeats DEF initialLobby, LobbyType, emptySeats, MinPlayersPerGame, MaxPlayersPerGame
<1>2. Ids(<< >>) = {}
  BY DEF Ids
<1> QED  BY <1>1, <1>2, EmptySeats DEF WellFormed

\* A well-formed lobby that is given other seats for its players.
LEMMA NewSeats ==
  ASSUME NEW L, WellFormed(L), NEW sp \in SeatPositionsType, MapsInverse(sp),
         \A x \in Player : sp.seatOf[x] # Nowhere => x \in L.profiles
  PROVE  /\ WellFormed([L EXCEPT !.seats = sp])
         /\ [L EXCEPT !.seats = sp].seats = sp
         /\ [L EXCEPT !.seats = sp].queue = L.queue
         /\ Settings([L EXCEPT !.seats = sp]) = Settings(L)
BY DEF WellFormed, LobbyType, Settings

\* The same when only the queue changes.
LEMMA NewQueue ==
  ASSUME NEW L, WellFormed(L), NEW q \in Seq(Player), Ids(q) \subseteq L.profiles
  PROVE  /\ WellFormed([L EXCEPT !.queue = q])
         /\ [L EXCEPT !.queue = q].seats = L.seats
         /\ [L EXCEPT !.queue = q].queue = q
         /\ Settings([L EXCEPT !.queue = q]) = Settings(L)
BY DEF WellFormed, LobbyType, Settings

\* The components of a well-formed lobby.
LEMMA Fields ==
  ASSUME NEW L, WellFormed(L)
  PROVE  /\ L.seats \in SeatPositionsType /\ L.queue \in Seq(Player)
         /\ L.profiles \in SUBSET Player
         /\ L.ppg \in MinPlayersPerGame..MaxPlayersPerGame
         /\ L.hostId \in {HostProfile, Nobody}
         /\ \A x \in Player : L.seats.seatOf[x] \in Seat \cup {Nowhere}
BY DEF WellFormed, LobbyType, SeatPositionsType

\* A player who is put somewhere: the rest of the lobby stays.
LEMMA PlaceCorrect ==
  ASSUME NEW L, WellFormed(L), NEW p \in L.profiles, NEW s \in Seat
  PROVE  /\ WellFormed(place(L, p, s))
         /\ Settings(place(L, p, s)) = Settings(L)
         /\ s = QueueSeat => /\ place(L, p, s).seats = L.seats
                             /\ place(L, p, s).queue = Append(L.queue, p)
         /\ s # QueueSeat => /\ place(L, p, s).seats = assignSeat(L.seats, p, s)
                             /\ place(L, p, s).queue = L.queue
<1>1. /\ p \in Player /\ L.queue \in Seq(Player) /\ L.seats \in SeatPositionsType
      /\ MapsInverse(L.seats) /\ Ids(L.queue) \subseteq L.profiles
  BY Fields DEF WellFormed
<1>2. CASE s = QueueSeat
  <2> DEFINE q == Append(L.queue, p)
  <2>1. place(L, p, s) = [L EXCEPT !.queue = q]
    BY <1>2 DEF place
  <2>2. q \in Seq(Player) /\ Ids(q) \subseteq L.profiles
    BY <1>1, AppendCorrect
  <2> HIDE DEF q
  <2>3. /\ WellFormed(place(L, p, s)) /\ place(L, p, s).seats = L.seats
        /\ place(L, p, s).queue = q /\ Settings(place(L, p, s)) = Settings(L)
    BY <2>1, <2>2, NewQueue
  <2> QED  BY <1>2, <2>3 DEF q
<1>3. CASE s # QueueSeat
  <2> DEFINE sp == assignSeat(L.seats, p, s)
  <2>1. place(L, p, s) = [L EXCEPT !.seats = sp]
    BY <1>3 DEF place
  <2>2. /\ sp \in SeatPositionsType /\ MapsInverse(sp)
        /\ \A x \in Player \ {p} :
             sp.seatOf[x] = IF L.seats.seatOf[x] = s THEN Nowhere ELSE L.seats.seatOf[x]
    BY <1>1, AssignSeatCorrect
  <2> HIDE DEF sp
  <2>3. \A x \in Player : sp.seatOf[x] # Nowhere => x \in L.profiles
    BY <2>2 DEF WellFormed
  <2>4. /\ WellFormed(place(L, p, s)) /\ place(L, p, s).seats = sp
        /\ place(L, p, s).queue = L.queue /\ Settings(place(L, p, s)) = Settings(L)
    BY <2>1, <2>2, <2>3, NewSeats
  <2> QED  BY <1>3, <2>4 DEF sp
<1> QED  BY <1>2, <1>3

\* A player who is taken out of its place: nobody else moves.
LEMMA TakenOutCorrect ==
  ASSUME NEW L, WellFormed(L), NEW p \in Player
  PROVE  /\ WellFormed(takenOut(L, p))
         /\ Settings(takenOut(L, p)) = Settings(L)
         /\ getSeatPositionById(L, p) = QueueSeat =>
              /\ takenOut(L, p).seats = L.seats
              /\ takenOut(L, p).queue = eraseId(L.queue, p)
         /\ getSeatPositionById(L, p) # QueueSeat =>
              /\ takenOut(L, p).seats = erase(L.seats, p)
              /\ takenOut(L, p).queue = L.queue
<1>1. /\ L.queue \in Seq(Player) /\ L.seats \in SeatPositionsType
      /\ MapsInverse(L.seats) /\ Ids(L.queue) \subseteq L.profiles
  BY Fields DEF WellFormed
<1>2. CASE getSeatPositionById(L, p) = QueueSeat
  <2> DEFINE q == eraseId(L.queue, p)
  <2>1. takenOut(L, p) = [L EXCEPT !.queue = q]
    BY <1>2 DEF takenOut
  <2>2. q \in Seq(Player) /\ Ids(q) \subseteq L.profiles
    BY <1>1, EraseIdCorrect
  <2> HIDE DEF q
  <2>3. /\ WellFormed([L EXCEPT !.queue = q]) /\ [L EXCEPT !.queue = q].seats = L.seats
        /\ [L EXCEPT !.queue = q].queue = q /\ Settings([L EXCEPT !.queue = q]) = Settings(L)
    BY <2>2, NewQueue
  <2> QED  BY <1>2, <2>1, <2>3 DEF q
<1>3. CASE getSeatPositionById(L, p) # QueueSeat
  <2> DEFINE sp == erase(L.seats, p)
  <2>1. takenOut(L, p) = [L EXCEPT !.seats = sp]
    BY <1>3 DEF takenOut
  <2>2. sp \in SeatPositionsType /\ MapsInverse(sp) /\ sp.seatOf = [L.seats.seatOf EXCEPT ![p] = Nowhere]
    BY <1>1, EraseCorrect
  <2> HIDE DEF sp
  <2>3. \A x \in Player : sp.seatOf[x] # Nowhere => x \in L.profiles
    BY <1>1, <2>2 DEF WellFormed, SeatPositionsType
  <2>4. /\ WellFormed([L EXCEPT !.seats = sp]) /\ [L EXCEPT !.seats = sp].seats = sp
        /\ [L EXCEPT !.seats = sp].queue = L.queue /\ Settings([L EXCEPT !.seats = sp]) = Settings(L)
    BY <2>2, <2>3, NewSeats
  <2> QED  BY <1>3, <2>1, <2>4 DEF sp
<1> QED  BY <1>2, <1>3

\* changePlayerSeatPosition, in its two halves.
LEMMA ChangeWellFormed ==
  ASSUME NEW L, WellFormed(L), NEW p \in L.profiles, NEW s \in Seat
  PROVE  /\ changePlayerSeatPosition(L, p, s) = place(takenOut(L, p), p, s)
         /\ WellFormed(changePlayerSeatPosition(L, p, s))
         /\ Settings(changePlayerSeatPosition(L, p, s)) = Settings(L)
<1>1. changePlayerSeatPosition(L, p, s) = place(takenOut(L, p), p, s)
  BY DEF changePlayerSeatPosition, takenOut
<1>2. /\ p \in Player /\ WellFormed(takenOut(L, p))
      /\ Settings(takenOut(L, p)) = Settings(L) /\ p \in takenOut(L, p).profiles
  BY Fields, TakenOutCorrect DEF Settings
<1>3. /\ WellFormed(place(takenOut(L, p), p, s))
      /\ Settings(place(takenOut(L, p), p, s)) = Settings(takenOut(L, p))
  BY <1>2, PlaceCorrect
<1> QED  BY <1>1, <1>2, <1>3

\* The place of a player is a seat of its own or, for one without a seat, the queue.
LEMMA PositionOf ==
  ASSUME NEW L, WellFormed(L), NEW p \in Player
  PROVE  /\ getSeatPositionById(L, p) \in Seat \cup {Nowhere}
         /\ getSeatPositionById(L, p) \notin {QueueSeat, Nowhere}
              => L.seats.seatOf[p] = getSeatPositionById(L, p)
BY Fields, Reserved DEF getSeatPositionById

\* One id of the queue is overwritten with another and a player is given a seat.
LEMMA ReplacedAndAssigned ==
  ASSUME NEW L, WellFormed(L), NEW a \in L.profiles, NEW old \in L.profiles,
         NEW new \in L.profiles, NEW s \in Seat
  PROVE  /\ WellFormed(replacedAndAssigned(L, a, old, new, s))
         /\ Settings(replacedAndAssigned(L, a, old, new, s)) = Settings(L)
         /\ replacedAndAssigned(L, a, old, new, s).queue = replaceId(L.queue, old, new)
         /\ replacedAndAssigned(L, a, old, new, s).seats = assignSeat(L.seats, a, s)
<1> DEFINE sp == assignSeat(L.seats, a, s)
           qq == replaceId(L.queue, old, new)
           M  == [L EXCEPT !.queue = qq]
           r  == replacedAndAssigned(L, a, old, new, s)
<1>1. /\ a \in Player /\ old \in Player /\ new \in Player
      /\ L.queue \in Seq(Player) /\ L.seats \in SeatPositionsType
      /\ MapsInverse(L.seats) /\ Ids(L.queue) \subseteq L.profiles
      /\ \A x \in Player : L.seats.seatOf[x] # Nowhere => x \in L.profiles
  BY Fields DEF WellFormed
<1>2. /\ sp \in SeatPositionsType /\ MapsInverse(sp)
      /\ \A x \in Player \ {a} :
           sp.seatOf[x] = IF L.seats.seatOf[x] = s THEN Nowhere ELSE L.seats.seatOf[x]
  BY <1>1, AssignSeatCorrect
<1>3. qq \in Seq(Player) /\ Ids(qq) \subseteq Ids(L.queue) \cup {new}
  BY <1>1, ReplaceIdCorrect
<1>4. r = [L EXCEPT !.queue = qq, !.seats = sp]
  BY DEF replacedAndAssigned
<1> HIDE DEF sp, qq, r
<1>5. r = [M EXCEPT !.seats = sp]
  BY <1>4 DEF WellFormed, LobbyType
<1>6. /\ WellFormed(M) /\ M.queue = qq /\ Settings(M) = Settings(L)
  BY <1>1, <1>3, NewQueue
<1> HIDE DEF M
<1>7. \A x \in Player : sp.seatOf[x] # Nowhere => x \in M.profiles
  BY <1>1, <1>2, <1>6 DEF Settings
<1>8. /\ WellFormed([M EXCEPT !.seats = sp]) /\ [M EXCEPT !.seats = sp].seats = sp
      /\ [M EXCEPT !.seats = sp].queue = M.queue /\ Settings([M EXCEPT !.seats = sp]) = Settings(M)
  BY <1>2, <1>6, <1>7, NewSeats
<1> QED  BY <1>5, <1>6, <1>8 DEF sp, qq, r

\* swapPlayersSeatPositions, with its three cases.
LEMMA SwapWellFormed ==
  ASSUME NEW L, WellFormed(L), NEW p \in L.profiles, NEW q \in L.profiles,
         getSeatPositionById(L, p) # Nowhere, getSeatPositionById(L, q) # Nowhere
  PROVE  /\ WellFormed(swapPlayersSeatPositions(L, p, q))
         /\ Settings(swapPlayersSeatPositions(L, p, q)) = Settings(L)
         /\ getSeatPositionById(L, p) = QueueSeat =>
              /\ swapPlayersSeatPositions(L, p, q).queue = replaceId(L.queue, p, q)
              /\ swapPlayersSeatPositions(L, p, q).seats
                   = assignSeat(L.seats, p, getSeatPositionById(L, q))
         /\ getSeatPositionById(L, p) # QueueSeat /\ getSeatPositionById(L, q) # QueueSeat =>
              /\ swapPlayersSeatPositions(L, p, q).queue = L.queue
              /\ swapPlayersSeatPositions(L, p, q).seats = swapPlayers(L.seats, p, q)
<1> DEFINE r  == swapPlayersSeatPositions(L, p, q)
           pp == getSeatPositionById(L, p)
           pq == getSeatPositionById(L, q)
<1>1. /\ p \in Player /\ q \in Player /\ L.seats \in SeatPositionsType /\ MapsInverse(L.seats)
      /\ \A x \in Player : L.seats.seatOf[x] # Nowhere => x \in L.profiles
  BY Fields DEF WellFormed
<1>2. pp \in Seat /\ pq \in Seat
  BY <1>1, PositionOf
<1>3. CASE pp = QueueSeat
  <2>1. r = replacedAndAssigned(L, p, p, q, pq)
    BY <1>3 DEF swapPlayersSeatPositions, replacedAndAssigned
  <2> HIDE DEF r, pp, pq
  <2>2. /\ WellFormed(r) /\ Settings(r) = Settings(L)
        /\ r.queue = replaceId(L.queue, p, q) /\ r.seats = assignSeat(L.seats, p, pq)
    BY <1>2, <2>1, ReplacedAndAssigned
  <2> QED  BY <1>3, <2>2 DEF r, pp, pq
<1>4. CASE pp # QueueSeat /\ pq = QueueSeat
  <2>1. r = replacedAndAssigned(L, q, q, p, pq)
    BY <1>4 DEF swapPlayersSeatPositions, replacedAndAssigned
  <2> HIDE DEF r, pp, pq
  <2>2. WellFormed(r) /\ Settings(r) = Settings(L)
    BY <1>2, <2>1, ReplacedAndAssigned
  <2> QED  BY <1>4, <2>2 DEF r, pp, pq
<1>5. CASE pp # QueueSeat /\ pq # QueueSeat
  <2> DEFINE sp == swapPlayers(L.seats, p, q)
  <2>1. r = [L EXCEPT !.seats = sp]
    BY <1>5 DEF swapPlayersSeatPositions
  <2>2. L.seats.seatOf[p] = pp /\ L.seats.seatOf[q] = pq
    BY <1>1, <1>2, <1>5, PositionOf, Reserved
  <2>3. /\ sp \in SeatPositionsType /\ MapsInverse(sp)
        /\ sp.seatOf = [L.seats.seatOf EXCEPT ![p] = L.seats.seatOf[q], ![q] = L.seats.seatOf[p]]
    BY <1>1, <1>2, <2>2, SwapPlayersCorrect
  <2> HIDE DEF sp
  <2>4. \A x \in Player : sp.seatOf[x] # Nowhere => x \in L.profiles
    BY <1>1, <2>3 DEF SeatPositionsType
  <2>5. /\ WellFormed([L EXCEPT !.seats = sp]) /\ [L EXCEPT !.seats = sp].seats = sp
        /\ [L EXCEPT !.seats = sp].queue = L.queue /\ Settings([L EXCEPT !.seats = sp]) = Settings(L)
    BY <2>3, <2>4, NewSeats
  <2> QED  BY <1>5, <2>1, <2>5 DEF sp
<1> QED  BY <1>3, <1>4, <1>5

\* A new player is put into the lobby, at the seat it is given.
LEMMA AddPlayerWellFormed ==
  ASSUME NEW L, WellFormed(L), NEW p \in Player, NEW s \in Seat
  PROVE  /\ addPlayer(L, p, s) = place(joined(L, p), p, s)
         /\ WellFormed(joined(L, p))
         /\ joined(L, p).profiles = L.profiles \cup {p} /\ joined(L, p).ppg = L.ppg
         /\ joined(L, p).seats = L.seats /\ joined(L, p).queue = L.queue
         /\ WellFormed(addPlayer(L, p, s))
         /\ addPlayer(L, p, s).profiles = L.profiles \cup {p}
<1> DEFINE J == joined(L, p)
<1>1. addPlayer(L, p, s) = place(J, p, s)
  BY DEF addPlayer, joined
<1>2. /\ WellFormed(J) /\ J.profiles = L.profiles \cup {p} /\ J.ppg = L.ppg
      /\ J.seats = L.seats /\ J.queue = L.queue
  BY DEF WellFormed, LobbyType, joined
<1> HIDE DEF J
<1>3. WellFormed(place(J, p, s)) /\ place(J, p, s).profiles = J.profiles
  BY <1>2, PlaceCorrect DEF Settings
<1> QED  BY <1>1, <1>2, <1>3 DEF J

\* The first player with id 0 becomes the host, the others wait in the queue.
LEMMA PlayerConnectedWellFormed ==
  ASSUME NEW L, WellFormed(L), NEW p \in Player
  PROVE  WellFormed(playerConnected(L, p))
<1>1. CASE isHost(p)
  <2> DEFINE H == [L EXCEPT !.hostId = p]
             s == IF isSeatPositionOccupied(H, 0) THEN QueueSeat ELSE 0
  <2>1. playerConnected(L, p) = addPlayer(H, p, s)
    BY <1>1 DEF playerConnected
  <2>2. WellFormed(H)
    BY <1>1 DEF WellFormed, LobbyType, isHost
  <2>3. s \in Seat
    BY DEF Seat, QueueSeat, MaxPlayersPerGame
  <2> HIDE DEF H, s
  <2>4. WellFormed(addPlayer(H, p, s))
    BY <2>2, <2>3, AddPlayerWellFormed
  <2> QED  BY <2>1, <2>4
<1>2. CASE ~isHost(p)
  <2>1. playerConnected(L, p) = addPlayer(L, p, QueueSeat)
    BY <1>2 DEF playerConnected
  <2>2. WellFormed(addPlayer(L, p, QueueSeat))
    BY Reserved, AddPlayerWellFormed
  <2> QED  BY <2>1, <2>2
<1> QED  BY <1>1, <1>2

\* A player who has just joined has a place, and the first one becomes the host.
LEMMA PlayerConnectedPosition ==
  ASSUME NEW L, WellFormed(L), NEW p \in Player
  PROVE  /\ getSeatPositionById(playerConnected(L, p), p) \in Seat
         /\ playerConnected(L, p).hostId = IF isHost(p) THEN p ELSE L.hostId
<1>1. ASSUME NEW H, WellFormed(H), NEW s \in Seat
      PROVE  /\ getSeatPositionById(addPlayer(H, p, s), p) \in Seat
             /\ addPlayer(H, p, s).hostId = H.hostId
  <2> DEFINE J == joined(H, p)
  <2>1. /\ addPlayer(H, p, s) = place(J, p, s)
        /\ WellFormed(J) /\ p \in J.profiles
    BY <1>1, AddPlayerWellFormed
  <2>2. J.hostId = H.hostId
    BY <1>1 DEF joined, WellFormed, LobbyType
  <2> HIDE DEF J
  <2>3. WellFormed(place(J, p, s)) /\ place(J, p, s).hostId = J.hostId
    BY <1>1, <2>1, PlaceCorrect DEF Settings
  <2>4. getSeatPositionById(place(J, p, s), p) # Nowhere
    <3>1. CASE s = QueueSeat
      <4>1. place(J, p, s).queue = Append(J.queue, p)
        BY <1>1, <2>1, <3>1, PlaceCorrect
      <4>2. Ids(Append(J.queue, p)) = Ids(J.queue) \cup {p}
        BY <2>1, Fields, AppendCorrect
      <4> QED  BY <4>1, <4>2, Reserved DEF getSeatPositionById
    <3>2. CASE s # QueueSeat
      <4>1. place(J, p, s).seats = assignSeat(J.seats, p, s)
        BY <1>1, <2>1, <3>2, PlaceCorrect
      <4>2. assignSeat(J.seats, p, s).seatOf[p] = s
        BY <2>1, Fields, AssignSeatCorrect DEF WellFormed
      <4>3. s # Nowhere
        BY Reserved
      <4> QED  BY <4>1, <4>2, <4>3 DEF getSeatPositionById
    <3> QED  BY <3>1, <3>2
  <2> QED  BY <2>1, <2>2, <2>3, <2>4, PositionOf
<1>2. CASE isHost(p)
  <2> DEFINE H == [L EXCEPT !.hostId = p]
             s == IF isSeatPositionOccupied(H, 0) THEN QueueSeat ELSE 0
  <2>1. playerConnected(L, p) = addPlayer(H, p, s)
    BY <1>2 DEF playerConnected
  <2>2. WellFormed(H) /\ H.hostId = p
    BY <1>2 DEF WellFormed, LobbyType, isHost
  <2>3. s \in Seat
    BY DEF Seat, QueueSeat, MaxPlayersPerGame
  <2> HIDE DEF H, s
  <2> QED  BY <1>1, <1>2, <2>1, <2>2, <2>3
<1>3. CASE ~isHost(p)
  <2>1. playerConnected(L, p) = addPlayer(L, p, QueueSeat)
    BY <1>3 DEF playerConnected
  <2> QED  BY <1>1, <1>3, <2>1, Reserved
<1> QED  BY <1>2, <1>3

\* A player who leaves disappears from the profiles, the seats and the queue.
LEMMA DeletePlayerCorrect ==
  ASSUME NEW L, WellFormed(L), NEW p \in Player
  PROVE  /\ WellFormed(deletePlayer(L, p))
         /\ deletePlayer(L, p).profiles = L.profiles \ {p}
         /\ deletePlayer(L, p).ppg = L.ppg
         /\ deletePlayer(L, p).seats = erase(L.seats, p)
         /\ deletePlayer(L, p).queue = eraseId(L.queue, p)
<1> DEFINE sp == erase(L.seats, p)
           qq == eraseId(L.queue, p)
<1>1. /\ L.queue \in Seq(Player) /\ L.seats \in SeatPositionsType /\ L.profiles \in SUBSET Player
      /\ MapsInverse(L.seats) /\ Ids(L.queue) \subseteq L.profiles
      /\ \A x \in Player : L.seats.seatOf[x] # Nowhere => x \in L.profiles
  BY Fields DEF WellFormed
<1>2. sp \in SeatPositionsType /\ MapsInverse(sp) /\ sp.seatOf = [L.seats.seatOf EXCEPT ![p] = Nowhere]
  BY <1>1, EraseCorrect
<1>3. qq \in Seq(Player) /\ Ids(qq) = Ids(L.queue) \ {p}
  BY <1>1, EraseIdCorrect
<1>4. deletePlayer(L, p) = [L EXCEPT !.seats = sp, !.queue = qq, !.profiles = L.profiles \ {p}]
  BY DEF deletePlayer
<1> HIDE DEF sp, qq
<1>5. \A x \in Player : sp.seatOf[x] # Nowhere => x \in L.profiles \ {p}
  BY <1>1, <1>2 DEF SeatPositionsType
<1> DEFINE r == [L EXCEPT !.seats = sp, !.queue = qq, !.profiles = L.profiles \ {p}]
<1>6. /\ r.profiles = L.profiles \ {p} /\ r.ppg = L.ppg /\ r.seats = sp /\ r.queue = qq
      /\ r \in LobbyType
  BY <1>1, <1>2, <1>3 DEF WellFormed, LobbyType
<1> HIDE DEF r
<1>7. WellFormed(r)
  BY <1>1, <1>2, <1>3, <1>5, <1>6 DEF WellFormed
<1> QED  BY <1>4, <1>6, <1>7 DEF sp, qq, r


\* A seat of the table is cleared: its player goes to the queue.
LEMMA ClearSeatWellFormed ==
  ASSUME NEW L, WellFormed(L), NEW s \in Seat
  PROVE  WellFormed(clearSeat(L, s)) /\ Settings(clearSeat(L, s)) = Settings(L)
<1> DEFINE p == L.seats.playerAt[s]
<1>1. CASE p = Nobody
  BY <1>1 DEF clearSeat
<1>2. CASE p # Nobody
  <2>1. p \in Player /\ L.seats.seatOf[p] = s
    BY <1>2, Fields DEF WellFormed, SeatPositionsType, MapsInverse
  <2>2. p \in L.profiles
    BY <2>1, Reserved DEF WellFormed
  <2>3. clearSeat(L, s) = changePlayerSeatPosition(L, p, QueueSeat)
    BY <1>2 DEF clearSeat
  <2> HIDE DEF p
  <2> QED  BY <2>2, <2>3, Reserved, ChangeWellFormed
<1> QED  BY <1>1, <1>2

\* The two seats that a table can drop are seats.
LEMMA DroppedSeats == 2 \in Seat /\ 3 \in Seat
BY DEF Seat, QueueSeat, MaxPlayersPerGame

\* Clearing every seat that the table drops.
LEMMA ClearDroppedSeatsWellFormed ==
  ASSUME NEW L, WellFormed(L), NEW v \in MinPlayersPerGame..MaxPlayersPerGame
  PROVE  WellFormed(clearDroppedSeats(L, v)) /\ Settings(clearDroppedSeats(L, v)) = Settings(L)
<1> DEFINE two == IF 2 \in v..(L.ppg - 1) THEN clearSeat(L, 2) ELSE L
<1>1. clearDroppedSeats(L, v) = IF 3 \in v..(L.ppg - 1) THEN clearSeat(two, 3) ELSE two
  BY DEF clearDroppedSeats
<1>2. WellFormed(two) /\ Settings(two) = Settings(L)
  BY ClearSeatWellFormed, DroppedSeats
<1> HIDE DEF two
<1>3. WellFormed(clearSeat(two, 3)) /\ Settings(clearSeat(two, 3)) = Settings(two)
  BY <1>2, ClearSeatWellFormed, DroppedSeats
<1> QED  BY <1>1, <1>2, <1>3

\* The host's request for another size of the table.
LEMMA PlayersPerGameWellFormed ==
  ASSUME NEW L, WellFormed(L), NEW v \in MinPlayersPerGame..MaxPlayersPerGame
  PROVE  WellFormed(playersPerGameChanged(L, v))
<1> DEFINE M == clearDroppedSeats(L, v)
<1>1. WellFormed(M)
  BY ClearDroppedSeatsWellFormed
<1>2. playersPerGameChanged(L, v) = [M EXCEPT !.ppg = v]
  BY DEF playersPerGameChanged
<1> HIDE DEF M
<1> QED  BY <1>1, <1>2 DEF WellFormed, LobbyType

\* The table's size is all that the request changes besides the places.
LEMMA PlayersPerGameSettings ==
  ASSUME NEW L, WellFormed(L), NEW v \in MinPlayersPerGame..MaxPlayersPerGame
  PROVE  /\ WellFormed(playersPerGameChanged(L, v))
         /\ playersPerGameChanged(L, v).profiles = L.profiles
         /\ playersPerGameChanged(L, v).hostId = L.hostId
<1> DEFINE M == clearDroppedSeats(L, v)
<1>1. WellFormed(M) /\ Settings(M) = Settings(L)
  BY ClearDroppedSeatsWellFormed
<1>2. playersPerGameChanged(L, v) = [M EXCEPT !.ppg = v]
  BY DEF playersPerGameChanged
<1> HIDE DEF M
<1>3. [M EXCEPT !.ppg = v].profiles = M.profiles /\ [M EXCEPT !.ppg = v].hostId = M.hostId
  BY <1>1 DEF WellFormed, LobbyType
<1> QED  BY <1>1, <1>2, <1>3, PlayersPerGameWellFormed DEF Settings

\* Opening or closing the lobby moves nobody.
LEMMA LobbyOpenWellFormed ==
  ASSUME NEW L, WellFormed(L), NEW b \in BOOLEAN
  PROVE  WellFormed(lobbyOpenChanged(L, b))
BY DEF WellFormed, LobbyType, lobbyOpenChanged

-----------------------------------------------------------------------------
(* Who moves *)

\* A player who changes its position to a free one moves alone.
LEMMA ChangeMoves ==
  ASSUME NEW L, WellFormed(L), NEW p \in L.profiles, NEW s \in Seat,
         s # QueueSeat => \A x \in Player : L.seats.seatOf[x] # s
  PROVE  LET R == changePlayerSeatPosition(L, p, s)
         IN  /\ \A x \in Player \ {p} : /\ R.seats.seatOf[x] = L.seats.seatOf[x]
                                        /\ x \in Ids(R.queue) <=> x \in Ids(L.queue)
             /\ s # QueueSeat => R.seats.seatOf[p] = s
<1> DEFINE T == takenOut(L, p)
           R == changePlayerSeatPosition(L, p, s)
<1>1. p \in Player /\ L.seats \in SeatPositionsType /\ L.queue \in Seq(Player)
  BY Fields
<1>2. R = place(T, p, s) /\ WellFormed(T) /\ p \in T.profiles
  BY <1>1, ChangeWellFormed, TakenOutCorrect DEF Settings
<1>3. /\ \A x \in Player \ {p} : T.seats.seatOf[x] = L.seats.seatOf[x]
      /\ \A x \in Player \ {p} : x \in Ids(T.queue) <=> x \in Ids(L.queue)
      /\ T.seats.seatOf[p] \in {L.seats.seatOf[p], Nowhere}
  <2>1. CASE getSeatPositionById(L, p) = QueueSeat
    <3>1. T.seats = L.seats /\ T.queue = eraseId(L.queue, p)
      BY <1>1, <2>1, TakenOutCorrect
    <3>2. Ids(eraseId(L.queue, p)) = Ids(L.queue) \ {p}
      BY <1>1, EraseIdCorrect
    <3> QED  BY <3>1, <3>2
  <2>2. CASE getSeatPositionById(L, p) # QueueSeat
    <3>1. T.seats = erase(L.seats, p) /\ T.queue = L.queue
      BY <1>1, <2>2, TakenOutCorrect
    <3>2. T.seats.seatOf = [L.seats.seatOf EXCEPT ![p] = Nowhere]
      BY <1>1, <3>1, EraseCorrect
    <3> QED  BY <1>1, <3>1, <3>2 DEF SeatPositionsType
  <2> QED  BY <2>1, <2>2
<1>4. /\ s = QueueSeat => R.seats = T.seats /\ R.queue = Append(T.queue, p)
      /\ s # QueueSeat => R.seats = assignSeat(T.seats, p, s) /\ R.queue = T.queue
  BY <1>2, PlaceCorrect
<1>5. T.seats \in SeatPositionsType /\ T.queue \in Seq(Player) /\ MapsInverse(T.seats)
  BY <1>2, Fields DEF WellFormed
<1> HIDE DEF T, R
<1>6. CASE s = QueueSeat
  <2>1. Ids(Append(T.queue, p)) = Ids(T.queue) \cup {p}
    BY <1>1, <1>5, AppendCorrect
  <2> QED  BY <1>3, <1>4, <1>6, <2>1 DEF R
<1>7. CASE s # QueueSeat
  <2>1. \A x \in Player \ {p} : T.seats.seatOf[x] # s
    BY <1>3, <1>7
  <2>2. /\ assignSeat(T.seats, p, s).seatOf[p] = s
        /\ \A x \in Player \ {p} : assignSeat(T.seats, p, s).seatOf[x] = T.seats.seatOf[x]
    BY <1>1, <1>5, <2>1, AssignSeatCorrect
  <2> QED  BY <1>3, <1>4, <1>7, <2>2 DEF R
<1> QED  BY <1>6, <1>7

\* A seat of the map that is not occupied is nobody's seat.
LEMMA FreeSeat ==
  ASSUME NEW L, WellFormed(L), NEW s \in Seat, s # QueueSeat, ~isSeatPositionOccupied(L, s)
  PROVE  \A x \in Player : L.seats.seatOf[x] # s
<1>1. L.seats.playerAt[s] = Nobody
  BY DEF isSeatPositionOccupied
<1>2. MapsInverse(L.seats)
  BY DEF WellFormed
<1> QED  BY <1>1, <1>2, Reserved DEF MapsInverse


-----------------------------------------------------------------------------
(***************************************************************************)
(* Requests made on the lobby as it is keep every player in exactly one    *)
(* place: Placed.  A handler that moves a player first takes it out of its *)
(* place and then puts it into another; PlacedBut holds in between.        *)
(***************************************************************************)
TablePlaces(L) ==
  /\ \A x \in Player : L.seats.seatOf[x] \in 0..(L.ppg - 1) \cup {Nowhere}
  /\ IsInjective(L.queue)

Placed(L) ==
  /\ TablePlaces(L)
  /\ \A x \in L.profiles : L.seats.seatOf[x] = Nowhere <=> x \in Ids(L.queue)

PlacedBut(L, p) ==
  /\ TablePlaces(L)
  /\ \A x \in L.profiles \ {p} : L.seats.seatOf[x] = Nowhere <=> x \in Ids(L.queue)
  /\ L.seats.seatOf[p] = Nowhere
  /\ p \notin Ids(L.queue)

\* The seats of the table are seats, and none is the queue.
LEMMA TableSeats ==
  ASSUME NEW L, WellFormed(L), NEW s \in 0..(L.ppg - 1)
  PROVE  s \in Seat /\ s # QueueSeat /\ s # Nowhere
BY Fields DEF Seat, QueueSeat, Nowhere, MaxPlayersPerGame, MinPlayersPerGame

\* In a placed lobby the position of a player tells whether it has a seat.
LEMMA PlacedPosition ==
  ASSUME NEW L, WellFormed(L), Placed(L), NEW p \in L.profiles
  PROVE  /\ getSeatPositionById(L, p) # Nowhere
         /\ getSeatPositionById(L, p) = QueueSeat
              <=> L.seats.seatOf[p] = Nowhere /\ p \in Ids(L.queue)
         /\ getSeatPositionById(L, p) # QueueSeat
              <=> /\ L.seats.seatOf[p] = getSeatPositionById(L, p)
                  /\ L.seats.seatOf[p] \in 0..(L.ppg - 1)
                  /\ p \notin Ids(L.queue)
<1>1. p \in Player /\ L.seats.seatOf[p] \in 0..(L.ppg - 1) \cup {Nowhere}
  BY Fields DEF Placed, TablePlaces
<1>2. L.seats.seatOf[p] = Nowhere <=> p \in Ids(L.queue)
  BY DEF Placed
<1>3. QueueSeat # Nowhere
  BY Reserved
<1>4. L.seats.seatOf[p] \in 0..(L.ppg - 1) => L.seats.seatOf[p] \notin {QueueSeat, Nowhere}
  BY TableSeats
<1>5. CASE L.seats.seatOf[p] = Nowhere
  <2>1. getSeatPositionById(L, p) = QueueSeat
    BY <1>2, <1>5 DEF getSeatPositionById
  <2> QED  BY <1>2, <1>3, <1>5, <2>1
<1>6. CASE L.seats.seatOf[p] # Nowhere
  <2>1. getSeatPositionById(L, p) = L.seats.seatOf[p]
    BY <1>6 DEF getSeatPositionById
  <2> QED  BY <1>1, <1>2, <1>4, <1>6, <2>1
<1> QED  BY <1>5, <1>6

\* Taken out of its place, a player has none, and the others keep theirs.
LEMMA TakenOutPlaced ==
  ASSUME NEW L, WellFormed(L), Placed(L), NEW p \in L.profiles
  PROVE  PlacedBut(takenOut(L, p), p)
<1> DEFINE T == takenOut(L, p)
<1>1. /\ p \in Player /\ L.seats \in SeatPositionsType /\ L.queue \in Seq(Player)
      /\ L.profiles \in SUBSET Player
  BY Fields
<1>2. T.ppg = L.ppg /\ T.profiles = L.profiles
  BY <1>1, TakenOutCorrect DEF Settings
<1>3. CASE getSeatPositionById(L, p) = QueueSeat
  <2>1. T.seats = L.seats /\ T.queue = eraseId(L.queue, p)
    BY <1>1, <1>3, TakenOutCorrect
  <2>2. /\ Ids(eraseId(L.queue, p)) = Ids(L.queue) \ {p}
        /\ IsInjective(eraseId(L.queue, p))
    BY <1>1, EraseIdCorrect DEF Placed, TablePlaces
  <2>3. L.seats.seatOf[p] = Nowhere
    BY <1>3, PlacedPosition
  <2> HIDE DEF T
  <2> QED  BY <1>2, <2>1, <2>2, <2>3 DEF Placed, PlacedBut, TablePlaces, T
<1>4. CASE getSeatPositionById(L, p) # QueueSeat
  <2>1. T.seats = erase(L.seats, p) /\ T.queue = L.queue
    BY <1>1, <1>4, TakenOutCorrect
  <2>2. T.seats.seatOf = [L.seats.seatOf EXCEPT ![p] = Nowhere]
    BY <1>1, <2>1, EraseCorrect
  <2>3. p \notin Ids(L.queue)
    BY <1>4, PlacedPosition
  <2> HIDE DEF T
  <2>4. \A x \in Player : T.seats.seatOf[x] = IF x = p THEN Nowhere ELSE L.seats.seatOf[x]
    BY <1>1, <2>2 DEF SeatPositionsType
  <2> QED  BY <1>1, <1>2, <2>1, <2>3, <2>4 DEF Placed, PlacedBut, TablePlaces, T
<1> QED  BY <1>3, <1>4

\* A player without a place gets the queue or a free seat of the table.
LEMMA PlacePlaced ==
  ASSUME NEW L, WellFormed(L), NEW p \in L.profiles, PlacedBut(L, p),
         NEW s \in {QueueSeat} \cup 0..(L.ppg - 1),
         s # QueueSeat => \A x \in Player : L.seats.seatOf[x] # s
  PROVE  Placed(place(L, p, s))
<1> DEFINE R == place(L, p, s)
<1>1. /\ p \in Player /\ L.seats \in SeatPositionsType /\ L.queue \in Seq(Player)
      /\ L.profiles \in SUBSET Player /\ MapsInverse(L.seats) /\ s \in Seat
  BY Fields, TableSeats, Reserved DEF WellFormed
<1>2. R.ppg = L.ppg /\ R.profiles = L.profiles
  BY <1>1, PlaceCorrect DEF Settings
<1>3. CASE s = QueueSeat
  <2>1. R.seats = L.seats /\ R.queue = Append(L.queue, p)
    BY <1>1, <1>3, PlaceCorrect
  <2>2. Ids(Append(L.queue, p)) = Ids(L.queue) \cup {p} /\ IsInjective(Append(L.queue, p))
    BY <1>1, AppendCorrect DEF PlacedBut, TablePlaces
  <2> HIDE DEF R
  <2> QED  BY <1>2, <2>1, <2>2 DEF Placed, PlacedBut, TablePlaces, R
<1>4. CASE s # QueueSeat
  <2>1. R.seats = assignSeat(L.seats, p, s) /\ R.queue = L.queue
    BY <1>1, <1>4, PlaceCorrect
  <2>2. /\ R.seats.seatOf[p] = s
        /\ \A x \in Player \ {p} : R.seats.seatOf[x] = L.seats.seatOf[x]
    BY <1>1, <1>4, <2>1, AssignSeatCorrect
  <2>3. s \in 0..(L.ppg - 1) /\ s # Nowhere
    BY <1>4, TableSeats
  <2> HIDE DEF R
  <2>4. TablePlaces(R)
    BY <1>2, <2>1, <2>2, <2>3 DEF PlacedBut, TablePlaces
  <2> QED  BY <1>1, <1>2, <2>1, <2>2, <2>3, <2>4 DEF Placed, PlacedBut, R
<1> QED  BY <1>3, <1>4

\* changePlayerSeatPosition to the queue or to a free seat of the table.
LEMMA ChangePlaced ==
  ASSUME NEW L, WellFormed(L), Placed(L), NEW p \in L.profiles,
         NEW s \in {QueueSeat} \cup 0..(L.ppg - 1),
         s # QueueSeat => \A x \in Player : L.seats.seatOf[x] # s
  PROVE  Placed(changePlayerSeatPosition(L, p, s))
<1> DEFINE T == takenOut(L, p)
<1>1. p \in Player /\ s \in Seat /\ L.seats \in SeatPositionsType /\ L.queue \in Seq(Player)
  BY Fields, TableSeats, Reserved
<1>2. /\ WellFormed(T) /\ T.ppg = L.ppg /\ p \in T.profiles
      /\ changePlayerSeatPosition(L, p, s) = place(T, p, s)
  BY <1>1, ChangeWellFormed, TakenOutCorrect DEF Settings
<1>3. PlacedBut(T, p)
  BY TakenOutPlaced
<1>4. s # QueueSeat => \A x \in Player : T.seats.seatOf[x] # s
  <2>1. T.seats = L.seats \/ T.seats.seatOf = [L.seats.seatOf EXCEPT ![p] = Nowhere]
    BY <1>1, TakenOutCorrect, EraseCorrect
  <2> HIDE DEF T
  <2>2. \A x \in Player : T.seats.seatOf[x] \in {L.seats.seatOf[x], Nowhere}
    BY <1>1, <2>1 DEF SeatPositionsType
  <2> QED  BY <1>1, <2>2, Reserved
<1> HIDE DEF T
<1> QED  BY <1>2, <1>3, <1>4, PlacePlaced

\* A player who joins has no place before it is given one.
LEMMA AddPlayerPlaced ==
  ASSUME NEW L, WellFormed(L), Placed(L), NEW p \in Player, p \notin L.profiles,
         NEW s \in {QueueSeat} \cup 0..(L.ppg - 1),
         s # QueueSeat => \A x \in Player : L.seats.seatOf[x] # s
  PROVE  Placed(addPlayer(L, p, s))
<1> DEFINE J == joined(L, p)
<1>1. s \in Seat
  BY TableSeats, Reserved
<1>2. /\ addPlayer(L, p, s) = place(J, p, s)
      /\ WellFormed(J) /\ J.profiles = L.profiles \cup {p} /\ J.ppg = L.ppg
      /\ J.seats = L.seats /\ J.queue = L.queue
  BY <1>1, AddPlayerWellFormed
<1> HIDE DEF J
<1>3. PlacedBut(J, p)
  BY <1>2 DEF PlacedBut, Placed, TablePlaces, WellFormed
<1> QED  BY <1>2, <1>3, PlacePlaced

\* playerConnected gives the host seat 0 if it is free, and everybody else the queue.
LEMMA PlayerConnectedPlaced ==
  ASSUME NEW L, WellFormed(L), Placed(L), NEW p \in Player, p \notin L.profiles
  PROVE  Placed(playerConnected(L, p))
<1>1. CASE isHost(p)
  <2> DEFINE H == [L EXCEPT !.hostId = p]
             s == IF isSeatPositionOccupied(H, 0) THEN QueueSeat ELSE 0
  <2>1. playerConnected(L, p) = addPlayer(H, p, s)
    BY <1>1 DEF playerConnected
  <2>2. WellFormed(H)
    BY <1>1 DEF WellFormed, LobbyType, isHost
  <2>3. H.seats = L.seats /\ H.queue = L.queue /\ H.profiles = L.profiles /\ H.ppg = L.ppg
    BY DEF WellFormed, LobbyType
  <2>4. 0 \in 0..(L.ppg - 1)
    BY Fields DEF MinPlayersPerGame, MaxPlayersPerGame
  <2> HIDE DEF H
  <2>5. Placed(H)
    BY <2>3 DEF Placed, TablePlaces
  <2>6. s # QueueSeat => s = 0 /\ ~isSeatPositionOccupied(H, 0)
    OBVIOUS
  <2>7. s \in {QueueSeat} \cup 0..(H.ppg - 1)
    BY <2>3, <2>4
  <2> HIDE DEF s
  <2>8. s # QueueSeat => \A x \in Player : H.seats.seatOf[x] # s
    BY <2>2, <2>3, <2>4, <2>6, FreeSeat, TableSeats
  <2> QED  BY <2>1, <2>2, <2>3, <2>5, <2>7, <2>8, AddPlayerPlaced
<1>2. CASE ~isHost(p)
  <2>1. playerConnected(L, p) = addPlayer(L, p, QueueSeat)
    BY <1>2 DEF playerConnected
  <2> QED  BY <2>1, AddPlayerPlaced
<1> QED  BY <1>1, <1>2

\* A player who leaves takes its place with it.
LEMMA DeletePlayerPlaced ==
  ASSUME NEW L, WellFormed(L), Placed(L), NEW p \in Player
  PROVE  Placed(deletePlayer(L, p))
<1> DEFINE R == deletePlayer(L, p)
<1>1. /\ L.seats \in SeatPositionsType /\ L.queue \in Seq(Player) /\ L.profiles \in SUBSET Player
  BY Fields
<1>2. /\ R.profiles = L.profiles \ {p} /\ R.ppg = L.ppg
      /\ R.seats = erase(L.seats, p) /\ R.queue = eraseId(L.queue, p)
  BY DeletePlayerCorrect
<1> HIDE DEF R
<1>3. R.seats.seatOf = [L.seats.seatOf EXCEPT ![p] = Nowhere]
  BY <1>1, <1>2, EraseCorrect
<1>4. Ids(R.queue) = Ids(L.queue) \ {p} /\ IsInjective(R.queue)
  BY <1>1, <1>2, EraseIdCorrect DEF Placed, TablePlaces
<1>5. \A x \in Player : R.seats.seatOf[x] = IF x = p THEN Nowhere ELSE L.seats.seatOf[x]
  BY <1>1, <1>3 DEF SeatPositionsType
<1>6. TablePlaces(R)
  BY <1>2, <1>4, <1>5 DEF Placed, TablePlaces
<1> QED  BY <1>1, <1>2, <1>4, <1>5, <1>6 DEF Placed, R

(***************************************************************************)
(* A swap whose second player has a seat: each of the two gets the         *)
(* position of the other.                                                  *)
(***************************************************************************)
LEMMA SwapPlaced ==
  ASSUME NEW L, WellFormed(L), Placed(L), NEW p \in L.profiles, NEW q \in L.profiles,
         getSeatPositionById(L, p) # getSeatPositionById(L, q),
         getSeatPositionById(L, q) # QueueSeat
  PROVE  /\ Placed(swapPlayersSeatPositions(L, p, q))
         /\ getSeatPositionById(swapPlayersSeatPositions(L, p, q), p) = getSeatPositionById(L, q)
         /\ getSeatPositionById(swapPlayersSeatPositions(L, p, q), q) = getSeatPositionById(L, p)
<1> DEFINE R  == swapPlayersSeatPositions(L, p, q)
           pp == getSeatPositionById(L, p)
           pq == getSeatPositionById(L, q)
<1>1. /\ p \in Player /\ q \in Player /\ p # q /\ L.profiles \in SUBSET Player
      /\ L.seats \in SeatPositionsType /\ L.queue \in Seq(Player) /\ MapsInverse(L.seats)
  BY Fields DEF WellFormed
<1>2. /\ pp # Nowhere /\ pq # Nowhere
      /\ L.seats.seatOf[q] = pq /\ pq \in 0..(L.ppg - 1) /\ q \notin Ids(L.queue)
  BY PlacedPosition
<1>3. pq \in Seat
  BY <1>2, TableSeats
<1>4. R.ppg = L.ppg /\ R.profiles = L.profiles
  BY <1>2, SwapWellFormed DEF Settings
<1>5. CASE pp = QueueSeat
  <2>1. R.queue = replaceId(L.queue, p, q) /\ R.seats = assignSeat(L.seats, p, pq)
    BY <1>2, <1>5, SwapWellFormed
  <2>2. L.seats.seatOf[p] = Nowhere /\ p \in Ids(L.queue)
    BY <1>5, PlacedPosition
  <2>3. IsInjective(R.queue) /\ Ids(R.queue) = (Ids(L.queue) \ {p}) \cup {q}
    BY <1>1, <1>2, <2>1, <2>2, ReplaceIdCorrect DEF Placed, TablePlaces
  <2>4. /\ R.seats.seatOf[p] = pq
        /\ \A x \in Player \ {p} :
             R.seats.seatOf[x] = IF L.seats.seatOf[x] = pq THEN Nowhere ELSE L.seats.seatOf[x]
    BY <1>1, <1>3, <2>1, AssignSeatCorrect
  <2>5. \A x \in Player \ {q} : L.seats.seatOf[x] # pq
    BY <1>1, <1>2, OnePlayerPerSeat
  <2> HIDE DEF R, pp, pq
  <2>6. R.seats.seatOf[q] = Nowhere
    BY <1>1, <1>2, <2>4
  <2>7. \A x \in Player \ {p, q} : R.seats.seatOf[x] = L.seats.seatOf[x]
    BY <2>4, <2>5
  <2>8. TablePlaces(R)
    BY <1>1, <1>2, <1>4, <2>3, <2>4, <2>6, <2>7 DEF Placed, TablePlaces
  <2>9. Placed(R)
    BY <1>1, <1>2, <1>4, <2>3, <2>4, <2>6, <2>7, <2>8 DEF Placed
  <2>10. getSeatPositionById(R, p) = pq
    BY <1>2, <2>4 DEF getSeatPositionById
  <2>11. getSeatPositionById(R, q) = pp
    BY <1>5, <2>3, <2>6 DEF getSeatPositionById
  <2> QED  BY <2>9, <2>10, <2>11 DEF R, pp, pq
<1>6. CASE pp # QueueSeat
  <2>1. R.queue = L.queue /\ R.seats = swapPlayers(L.seats, p, q)
    BY <1>2, <1>6, SwapWellFormed
  <2>2. L.seats.seatOf[p] = pp /\ pp \in 0..(L.ppg - 1) /\ p \notin Ids(L.queue)
    BY <1>6, PlacedPosition
  <2> HIDE DEF R, pp, pq
  <2>3. L.seats.seatOf[p] # Nowhere /\ L.seats.seatOf[q] # Nowhere
    BY <1>2, <2>2
  <2>4. swapPlayers(L.seats, p, q).seatOf
          = [L.seats.seatOf EXCEPT ![p] = L.seats.seatOf[q], ![q] = L.seats.seatOf[p]]
    BY <1>1, <2>3, SwapPlayersCorrect
  <2>5. /\ R.seats.seatOf[p] = pq /\ R.seats.seatOf[q] = pp
        /\ \A x \in Player \ {p, q} : R.seats.seatOf[x] = L.seats.seatOf[x]
    BY <1>1, <1>2, <2>1, <2>2, <2>4 DEF SeatPositionsType
  <2>6. TablePlaces(R)
    BY <1>1, <1>2, <1>4, <2>1, <2>2, <2>5 DEF Placed, TablePlaces
  <2>7. Placed(R)
    BY <1>1, <1>2, <1>4, <2>1, <2>2, <2>5, <2>6 DEF Placed
  <2>8. getSeatPositionById(R, p) = pq /\ getSeatPositionById(R, q) = pp
    BY <1>2, <2>5 DEF getSeatPositionById
  <2> QED  BY <2>7, <2>8 DEF R, pp, pq
<1> QED  BY <1>5, <1>6

\* A seat of the table is cleared: nobody sits there, everyone else stays.
LEMMA ClearSeatPlaced ==
  ASSUME NEW L, WellFormed(L), Placed(L), NEW s \in Seat, s # QueueSeat
  PROVE  /\ Placed(clearSeat(L, s))
         /\ \A x \in Player : clearSeat(L, s).seats.seatOf[x]
                                = IF L.seats.seatOf[x] = s THEN Nowhere ELSE L.seats.seatOf[x]
<1> DEFINE p == L.seats.playerAt[s]
           R == clearSeat(L, s)
<1>1. L.seats \in SeatPositionsType /\ MapsInverse(L.seats) /\ L.profiles \in SUBSET Player
  BY Fields DEF WellFormed
<1>2. CASE p = Nobody
  <2>1. R = L
    BY <1>2 DEF clearSeat
  <2>2. \A x \in Player : L.seats.seatOf[x] # s
    BY <1>1, <1>2, Reserved DEF MapsInverse
  <2> QED  BY <2>1, <2>2
<1>3. CASE p # Nobody
  <2>1. p \in Player /\ L.seats.seatOf[p] = s
    BY <1>1, <1>3 DEF SeatPositionsType, MapsInverse
  <2>2. p \in L.profiles
    BY <2>1, Reserved DEF WellFormed
  <2>3. R = changePlayerSeatPosition(L, p, QueueSeat)
    BY <1>3 DEF clearSeat
  <2> HIDE DEF p, R
  <2>4. Placed(R)
    BY <2>2, <2>3, ChangePlaced
  <2>5. \A x \in Player \ {p} : /\ R.seats.seatOf[x] = L.seats.seatOf[x]
                                /\ x \in Ids(R.queue) <=> x \in Ids(L.queue)
    BY <2>2, <2>3, Reserved, ChangeMoves
  <2>6. R.seats.seatOf[p] = Nowhere
    <3> DEFINE T == takenOut(L, p)
    <3>1. R = place(T, p, QueueSeat) /\ WellFormed(T) /\ p \in T.profiles
      BY <2>1, <2>2, <2>3, Reserved, ChangeWellFormed, TakenOutCorrect DEF Settings
    <3>2. PlacedBut(T, p)
      BY <2>2, TakenOutPlaced
    <3> HIDE DEF T
    <3>3. R.seats = T.seats
      BY <3>1, Reserved, PlaceCorrect
    <3> QED  BY <3>2, <3>3 DEF PlacedBut
  <2>7. \A x \in Player \ {p} : L.seats.seatOf[x] # s
    BY <1>1, <2>1, Reserved, OnePlayerPerSeat
  <2>8. \A x \in Player : R.seats.seatOf[x]
                            = IF L.seats.seatOf[x] = s THEN Nowhere ELSE L.seats.seatOf[x]
    BY <2>1, <2>5, <2>6, <2>7
  <2> QED  BY <2>4, <2>8 DEF R
<1> QED  BY <1>2, <1>3

(***************************************************************************)
(* After the table's size has changed, nobody sits beyond the new table.   *)
(***************************************************************************)
LEMMA PlayersPerGamePlaced ==
  ASSUME NEW L, WellFormed(L), Placed(L), NEW v \in MinPlayersPerGame..MaxPlayersPerGame
  PROVE  Placed(playersPerGameChanged(L, v))
<1> DEFINE two   == IF 2 \in v..(L.ppg - 1) THEN clearSeat(L, 2) ELSE L
           three == IF 3 \in v..(L.ppg - 1) THEN clearSeat(two, 3) ELSE two
           R     == playersPerGameChanged(L, v)
<1>1. 2 \in Seat /\ 3 \in Seat /\ 2 # QueueSeat /\ 3 # QueueSeat
  BY DroppedSeats DEF QueueSeat
<1>2. /\ WellFormed(two) /\ Placed(two) /\ Settings(two) = Settings(L)
      /\ \A x \in Player :
           two.seats.seatOf[x] = IF L.seats.seatOf[x] = 2 /\ 2 \in v..(L.ppg - 1)
                                 THEN Nowhere ELSE L.seats.seatOf[x]
  BY <1>1, ClearSeatWellFormed, ClearSeatPlaced
<1> HIDE DEF two
<1>3. /\ WellFormed(three) /\ Placed(three) /\ Settings(three) = Settings(two)
      /\ \A x \in Player :
           three.seats.seatOf[x] = IF two.seats.seatOf[x] = 3 /\ 3 \in v..(L.ppg - 1)
                                   THEN Nowhere ELSE two.seats.seatOf[x]
  BY <1>1, <1>2, ClearSeatWellFormed, ClearSeatPlaced
<1>4. R = [three EXCEPT !.ppg = v]
  BY DEF playersPerGameChanged, clearDroppedSeats, two
<1> HIDE DEF three, R
<1>5. /\ R.ppg = v /\ R.profiles = three.profiles
      /\ R.seats = three.seats /\ R.queue = three.queue
  BY <1>3, <1>4 DEF WellFormed, LobbyType
<1>6. \A x \in Player : three.seats.seatOf[x] \in 0..(v - 1) \cup {Nowhere}
  <2>1. L.ppg \in MinPlayersPerGame..MaxPlayersPerGame
    BY Fields
  <2> SUFFICES ASSUME NEW x \in Player
               PROVE  three.seats.seatOf[x] \in 0..(v - 1) \cup {Nowhere}
    OBVIOUS
  <2>2. L.seats.seatOf[x] \in 0..(L.ppg - 1) \cup {Nowhere}
    BY DEF Placed, TablePlaces
  <2> QED  BY <1>2, <1>3, <2>1, <2>2 DEF MinPlayersPerGame, MaxPlayersPerGame, Nowhere
<1> QED  BY <1>3, <1>5, <1>6 DEF Placed, TablePlaces, R

\* Opening or closing the lobby changes no place.
LEMMA LobbyOpenPlaced ==
  ASSUME NEW L, WellFormed(L), Placed(L), NEW b \in BOOLEAN
  PROVE  Placed(lobbyOpenChanged(L, b))
<1> DEFINE R == lobbyOpenChanged(L, b)
<1>1. R.seats = L.seats /\ R.queue = L.queue /\ R.profiles = L.profiles /\ R.ppg = L.ppg
  BY DEF WellFormed, LobbyType, lobbyOpenChanged
<1> HIDE DEF R
<1> QED  BY <1>1 DEF Placed, TablePlaces, R

-----------------------------------------------------------------------------
(***************************************************************************)
(* The queue never overflows: a lobby never holds more players than        *)
(* MaxPlayersInLobby, and with one of them seated the others leave the     *)
(* queue room for it.                                                      *)
(***************************************************************************)
Bounded(L) == IsFiniteSet(L.profiles) /\ Cardinality(L.profiles) <= MaxPlayersInLobby

\* playerConnected adds one profile, in both of its branches.
LEMMA PlayerConnectedProfiles ==
  ASSUME NEW L, WellFormed(L), NEW p \in Player
  PROVE  playerConnected(L, p).profiles = L.profiles \cup {p}
<1>1. CASE isHost(p)
  <2> DEFINE H == [L EXCEPT !.hostId = p]
             s == IF isSeatPositionOccupied(H, 0) THEN QueueSeat ELSE 0
  <2>1. playerConnected(L, p) = addPlayer(H, p, s)
    BY <1>1 DEF playerConnected
  <2>2. WellFormed(H) /\ H.profiles = L.profiles
    BY <1>1 DEF WellFormed, LobbyType, isHost
  <2>3. s \in Seat
    BY DEF Seat, QueueSeat, MaxPlayersPerGame
  <2> HIDE DEF H, s
  <2>4. addPlayer(H, p, s).profiles = H.profiles \cup {p}
    BY <2>2, <2>3, AddPlayerWellFormed
  <2> QED  BY <2>1, <2>2, <2>4
<1>2. CASE ~isHost(p)
  <2>1. playerConnected(L, p) = addPlayer(L, p, QueueSeat)
    BY <1>2 DEF playerConnected
  <2>2. addPlayer(L, p, QueueSeat).profiles = L.profiles \cup {p}
    BY Reserved, AddPlayerWellFormed
  <2> QED  BY <2>1, <2>2
<1> QED  BY <1>1, <1>2

\* The queue and one seated player together are at most the players of the lobby.
LEMMA QueueIsShort ==
  ASSUME NEW L, WellFormed(L), Placed(L), Bounded(L),
         NEW p \in Player, L.seats.seatOf[p] # Nowhere
  PROVE  Len(L.queue) < MaxPlayersInLobby
<1> DEFINE Others == L.profiles \ {p}
<1>1. L.queue \in Seq(Player) /\ Len(L.queue) \in Nat /\ DOMAIN L.queue = 1..Len(L.queue)
  BY Fields, LenProperties
<1>2. p \in L.profiles /\ p \notin Ids(L.queue)
  BY DEF WellFormed, Placed
<1>3. L.queue \in Injection(1..Len(L.queue), Others)
  <2>1. \A i \in 1..Len(L.queue) : L.queue[i] \in Ids(L.queue)
    BY <1>1 DEF Ids
  <2>2. \A i \in 1..Len(L.queue) : L.queue[i] \in Others
    BY <1>2, <2>1 DEF WellFormed
  <2>3. L.queue = [i \in 1..Len(L.queue) |-> L.queue[i]]
    BY <1>1
  <2> QED  BY <2>2, <2>3 DEF Placed, TablePlaces, Injection
<1>4. IsFiniteSet(Others) /\ Cardinality(Others) = Cardinality(L.profiles) - 1
  BY <1>2, FS_RemoveElement DEF Bounded
<1>5. Cardinality(1..Len(L.queue)) <= Cardinality(Others)
  BY <1>3, <1>4, FS_Injection
<1>6. Cardinality(1..Len(L.queue)) = Len(L.queue)
  BY <1>1, FS_Interval
<1>7. Cardinality(L.profiles) \in Nat
  BY FS_CardinalityType DEF Bounded
<1> HIDE DEF Others
<1> QED  BY <1>1, <1>4, <1>5, <1>6, <1>7, MaxPlayersInLobbyAssumption DEF Bounded

=============================================================================
