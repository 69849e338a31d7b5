----------------------------- MODULE SeatPositions -----------------------------
(***************************************************************************)
(* SeatPositionsState: two unordered_maps, seat -> player id and player id *)
(* -> seat, kept by the server's LobbyState and by every ClientLobbyState. *)
(* A map is a total function here; Nobody and Nowhere stand for an absent  *)
(* key (a find that returns end(), an empty std::optional).                *)
(***************************************************************************)
EXTENDS Integers

CONSTANT Player   \* the ids PlayerProfile's counter gives out: 0, 1, 2, ...

ASSUME PlayerAssumption == Player \subseteq Nat

MinPlayersPerGame == 2
MaxPlayersPerGame == 4
QueueSeat         == -1

(***************************************************************************)
(* The keys the seat map can hold: the seats of the largest table and, as  *)
(* nothing in assignSeat refuses it, the number that stands for the queue. *)
(***************************************************************************)
Seat == QueueSeat..(MaxPlayersPerGame - 1)

Nobody  == -1
Nowhere == -2

SeatPositionsType ==
  [playerAt : [Seat -> Player \cup {Nobody}],
   seatOf   : [Player -> Seat \cup {Nowhere}]]

emptySeats ==
  [playerAt |-> [s \in Seat |-> Nobody], seatOf |-> [p \in Player |-> Nowhere]]

eraseFromMaps(sp, s, p) ==
  [sp EXCEPT !.playerAt[s] = Nobody, !.seatOf[p] = Nowhere]

erase(sp, p) ==
  IF sp.seatOf[p] = Nowhere THEN sp ELSE eraseFromMaps(sp, sp.seatOf[p], p)

\* Take p out of its seat, throw out whoever sits at s, put p there.
assignSeat(sp, p, s) ==
  LET up   == erase(sp, p)
      free == IF up.playerAt[s] = Nobody THEN up ELSE erase(up, up.playerAt[s])
  IN  [playerAt |-> [free.playerAt EXCEPT ![s] = p], seatOf |-> [free.seatOf EXCEPT ![p] = s]]

\* Called only with two seated players: the at() of an absent key would throw.
swapPlayers(sp, p, q) ==
  [playerAt |-> [sp.playerAt EXCEPT ![sp.seatOf[p]] = q, ![sp.seatOf[q]] = p],
   seatOf   |-> [sp.seatOf   EXCEPT ![p] = sp.seatOf[q], ![q] = sp.seatOf[p]]]

\* The two maps are inverse to each other.
MapsInverse(sp) ==
  \A p \in Player, s \in Seat : sp.seatOf[p] = s <=> sp.playerAt[s] = p

=============================================================================
