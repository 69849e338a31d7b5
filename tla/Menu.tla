---------------------------------- MODULE Menu ----------------------------------
(***************************************************************************)
(* What the user can make TestMenuScene publish, seen from outside: it     *)
(* depends on the dialogs (modal layers) that are visible, and on those    *)
(* that were closed while the mouse was over one of their buttons: the     *)
(* scene looks for the element under the mouse once a frame, and not while *)
(* a button is held, so a closed dialog may still be answered.             *)
(***************************************************************************)
Dialogs == {"Exit", "InputIpAddress"}

\* The layer of the exit dialog is above the other one's.
topOf(dialogs) == IF "Exit" \in dialogs THEN "Exit" ELSE "InputIpAddress"

asks   == [Exit |-> "ExitRequest", InputIpAddress |-> "InputIpAddressRequest"]
answer == [Exit |-> "Exit", InputIpAddress |-> "JoinGameRequest"]

menuEvents(dialogs, closed) ==
  {answer[d] : d \in closed}
  \cup IF dialogs = {} THEN {"CreateGameRequest", asks.Exit, asks.InputIpAddress}
                       ELSE {answer[topOf(dialogs)]}

=============================================================================
