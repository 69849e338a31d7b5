----------------------------- MODULE MCLobbySettings -----------------------------
(***************************************************************************)
(* LobbySettings for TLC.  The mouse goes as far down as the longest list  *)
(* that is open reaches, and away from the panel.                          *)
(***************************************************************************)
EXTENDS LobbySettings

MCRows == {Elsewhere} \cup UNION {rowOf[d]..(rowOf[d] + Len(options[d]) - 1) : d \in Dropdowns}

=============================================================================
