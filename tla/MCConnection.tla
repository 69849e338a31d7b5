---------------------------- MODULE MCConnection ----------------------------
(***************************************************************************)
(* Connection for TLC: packets of six bytes and of five, a buffer that is  *)
(* cut within them, and a network that holds less than a packet.           *)
(***************************************************************************)
EXTENDS Connection

OneByte == {<<7>>}

=============================================================================
