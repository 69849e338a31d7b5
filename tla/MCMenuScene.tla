------------------------------ MODULE MCMenuScene ------------------------------
(* MenuScene for TLC: where its buttons lie in the window, and what an address is. *)
EXTENDS MenuScene

\* The sets of buttons that overlap somewhere and that no larger such set covers, and a
\* place where there is none, from the sizes the layers compute for a window of 960 by 540.
\* ExitConfirmationLayer's panel begins in the middle of the window: its origin is set
\* before its size.
overAll == { {}, {"PLAY", "join game", "CONNECT"}, {"PLAY", "join game", "CANCEL"},
             {"SETTINGS", "YES"}, {"NO"}, {"create game"}, {"EXIT", "back"} }

clips == { <<1, 1>>, <<2, 5, 6>>, <<1, Other>> }

-----------------------------------------------------------------------------
\* Parts numbers up to 255, of one to three digits each, with dots between them.
number(digits) == FoldLeft(LAMBDA v, c : 10 * v + c, 0, digits)
isAddress(string) ==
  LET dots   == {0, Len(string) + 1} \cup {i \in DOMAIN string : string[i] = Dot}
      fields == {SubSeq(string, i + 1, j - 1) :
                   <<i, j>> \in {<<i, j>> \in dots \X dots :
                                   i < j /\ \A k \in dots : k <= i \/ j <= k}}
  IN  /\ Cardinality(dots) = Parts + 1
      /\ \A f \in fields : Len(f) \in 1..3 /\ number(f) <= 255

\* isValidIP accepts the text of the box, however it was typed, pasted and cut,
\* just when it is an address.
AcceptsAddresses == isValidIP(text) <=> isAddress(text)

=============================================================================
