------------------------------ MODULE NetworkUtils ------------------------------
(***************************************************************************)
(* NetworkUtils::isValidIP on a text, a sequence of symbols: 0 to 9 are    *)
(* the digits, Dot is the dot, Other anything else.  Parts is 4.           *)
(***************************************************************************)
EXTENDS Integers, Sequences, SequencesExt

CONSTANT Parts      \* the numbers of an address

ASSUME PartsAssumption == Parts \in Nat \ {0}

Dot   == 10
Other == 11
isDigit(c) == c \in 0..9

\* 7 and 15 for four numbers.
MinSize == 2 * Parts - 1
MaxSize == 4 * Parts - 1

\* Mutant of readSymbol: a dot does not begin a new number.
readSymbolOn(a, c) ==
  CASE ~a.valid  -> a
    [] c = Dot   -> IF a.digits = 0 \/ a.parts >= Parts THEN [a EXCEPT !.valid = FALSE]
                    ELSE [a EXCEPT !.parts = @ + 1, !.digits = 0]
    [] isDigit(c) -> LET v == a.value * 10 + c
                     IN  [parts |-> a.parts, digits |-> a.digits + 1, value |-> v,
                          valid |-> a.digits < 3 /\ v <= 255]
    [] OTHER     -> [a EXCEPT !.valid = FALSE]

readSymbol(a, c) ==
  CASE ~a.valid  -> a
    [] c = Dot   -> IF a.digits = 0 \/ a.parts >= Parts THEN [a EXCEPT !.valid = FALSE]
                    ELSE [a EXCEPT !.parts = @ + 1, !.digits = 0, !.value = 0]
    [] isDigit(c) -> LET v == a.value * 10 + c
                     IN  [parts |-> a.parts, digits |-> a.digits + 1, value |-> v,
                          valid |-> a.digits < 3 /\ v <= 255]
    [] OTHER     -> [a EXCEPT !.valid = FALSE]

isValidIP(text) ==
  LET read == FoldLeft(readSymbol, [parts |-> 1, digits |-> 0, value |-> 0, valid |-> TRUE], text)
  IN  /\ Len(text) \in MinSize..MaxSize
      /\ isDigit(Last(text))
      /\ read.valid /\ read.parts = Parts

=============================================================================
