----------------------------- MODULE PacketFifo -----------------------------
(***************************************************************************)
(* What one direction of a connection promises: whole packets, each at     *)
(* most once, in the order in which they were sent.                        *)
(***************************************************************************)
EXTENDS Naturals, Sequences, SequencesExt

VARIABLES sent, got

Init == sent = <<>> /\ got = <<>>

Send ==
  /\ IsStrictPrefix(sent, sent')
  /\ UNCHANGED got

Receive ==
  /\ IsStrictPrefix(got, got') /\ IsPrefix(got', sent)
  /\ UNCHANGED sent

Spec == Init /\ [][Send \/ Receive]_<<sent, got>>

=============================================================================
