------------------------------ MODULE MenuPromise ------------------------------
(***************************************************************************)
(* What TestMenuScene promises to the rest of the program: which events it *)
(* publishes in which situation.  No game is joined and the window does    *)
(* not close without the dialog that asks for it, and nothing below a      *)
(* dialog, creating a game included, is asked for while it is shown.       *)
(***************************************************************************)
EXTENDS Menu, Sequences

VARIABLES
  dialogs,   \* the dialogs that are visible
  closed,    \* those that were closed and may still be answered
  events     \* the types of the events that wait for dispatch

vars == <<dialogs, closed, events>>

Init == dialogs = {} /\ closed = {} /\ events = << >>

Publish ==
  /\ \E t \in menuEvents(dialogs, closed) : events' = Append(events, t)
  /\ closed' \in SUBSET closed
  /\ UNCHANGED dialogs

Close ==
  /\ dialogs # {}
  /\ dialogs' = dialogs \ {topOf(dialogs)}
  /\ closed' \in SUBSET (closed \cup {topOf(dialogs)})
  /\ UNCHANGED events

\* The mouse goes elsewhere.
Forget == closed' \in SUBSET closed /\ UNCHANGED <<dialogs, events>>

\* Whatever the user held or pointed at is let go of when a dialog appears.
Dispatch ==
  /\ events # << >>
  /\ events' = Tail(events)
  /\ LET asked == {d \in Dialogs : asks[d] = Head(events)}
     IN  /\ dialogs' = dialogs \cup asked
         /\ closed' \in IF asked # {} THEN {{}} ELSE SUBSET closed

Next == Publish \/ Close \/ Forget \/ Dispatch

Spec == Init /\ [][Next]_vars

=============================================================================
