------------------------------ MODULE MCClassicRules ------------------------------
(***************************************************************************)
(* ClassicRules for TLC: small decks, in a few orders.                     *)
(***************************************************************************)
EXTENDS ClassicRules

h(r) == [suit |-> "h", rank |-> r]
s(r) == [suit |-> "s", rank |-> r]

(***************************************************************************)
(* The last card of a sequence is dealt first.  In the first deck nobody   *)
(* is dealt a trump before the extra cards; the second one allows bouts    *)
(* with several beaten positions.                                          *)
(***************************************************************************)
Decks ==
  { << h(6), s(6), s(7), s(8), s(9), s(10), s(11) >>,
    << s(6), s(9), s(8), h(9), s(7), h(8), h(7) >> }

\* Bounds the game: the bouts that have ended.
CONSTANT MaxBouts
BoutsBound == rules.bouts < MaxBouts

=============================================================================
