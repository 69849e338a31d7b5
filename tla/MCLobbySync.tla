------------------------------- MODULE MCLobbySync -------------------------------
(* LobbySync for TLC; the cfg files give the players and the bound on requests. *)
EXTENDS LobbySync

=============================================================================
