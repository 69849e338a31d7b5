------------------------------ MODULE MCLobbyServer ------------------------------
(***************************************************************************)
(* LobbyServer for TLC, and a check of eraseId against the community       *)
(* modules' Remove on every queue of up to four ids, repeated ids included.*)
(***************************************************************************)
EXTENDS LobbyServer

SE == INSTANCE SequencesExt

ASSUME EraseIdIsRemove ==
  \A q \in SE!BoundedSeq(0..2, 4), p \in 0..2 : eraseId(q, p) = SE!Remove(q, p)

=============================================================================
