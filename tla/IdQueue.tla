-------------------------------- MODULE IdQueue --------------------------------
(***************************************************************************)
(* The std::vector<uint32_t> of player ids that is the lobby's queue, on   *)
(* the server (LobbyState::m_playerIdsInQueue) and in every client         *)
(* (ClientLobbyState::m_playersIdsInQueue).  Position 1 is the front.      *)
(***************************************************************************)
EXTENDS Integers, Sequences, FiniteSets, Functions

Ids(q) == {q[i] : i \in DOMAIN q}

(***************************************************************************)
(* std::erase_if(queue, id == p): every occurrence goes, the rest keeps    *)
(* its order.  It is SequencesExt!Remove written without recursion, so     *)
(* that LobbyStateProofs can prove facts about it: the k-th id kept is the *)
(* one at the position i that has exactly i - k occurrences of p before    *)
(* it.                                                                     *)
(***************************************************************************)
Occurrences(q, p, i) == Cardinality({j \in 1..i : q[j] = p})

KeptAt(q, p, k) ==
  CHOOSE i \in DOMAIN q : q[i] # p /\ i - Occurrences(q, p, i) = k

eraseId(q, p) ==
  [k \in 1..(Len(q) - Occurrences(q, p, Len(q))) |-> q[KeptAt(q, p, k)]]

(***************************************************************************)
(* The loop of swapPlayersSeatPositions: the first occurrence of old is    *)
(* overwritten with new, then the loop breaks.                             *)
(***************************************************************************)
replaceId(q, old, new) ==
  [i \in DOMAIN q |->
     IF q[i] = old /\ \A j \in 1..(i - 1) : q[j] # old THEN new ELSE q[i]]

=============================================================================
