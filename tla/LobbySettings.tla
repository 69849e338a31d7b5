----------------------------- MODULE LobbySettings -----------------------------
(***************************************************************************)
(* The panel of the lobby's settings: LobbySettingsPanel with its          *)
(* Dropdowns, each a button (the main element) and a ListBox of options,   *)
(* as the mouse and the capture of the input reach them.                   *)
(*                                                                         *)
(* The buttons lie in the first rows of the panel; an open list covers the *)
(* rows below its own button.  The gaps between the buttons, by which the  *)
(* options of a list do not quite lie on the buttons below, are left out.  *)
(* The choice is kept by the panel alone: its events are still a comment.  *)
(***************************************************************************)
EXTENDS UIInteractive, FiniteSets, SequencesExt

CONSTANTS
  Dropdowns,    \* those of the panel that are considered
  Rows,         \* where the mouse goes: rows of the panel, and Elsewhere
  Roles         \* Host, Regular

options == [mode  |-> << "Classic", "Passing", "Teams" >>,
            speed |-> << "NoTimer", "Slow", "Standard", "Fast" >>,
            deck  |-> << "36", "52" >>]
rowOf   == [mode |-> 0, speed |-> 1, deck |-> 2]
initial == [mode |-> "Classic", speed |-> "NoTimer", deck |-> "52"]

Elsewhere == 99

ASSUME SettingsAssumption ==
  /\ Dropdowns \subseteq DOMAIN options
  /\ Rows \subseteq 0..6 \cup {Elsewhere}
  /\ Roles \subseteq {"Host", "Regular"}

VARIABLES
  role,       \* ClientContext::localRole
  chosen,     \* the text of the main elements
  listed,     \* the visible children of the lists
  isListed,   \* whether a list is visible
  control,    \* the interaction state of every button
  captured,   \* InputCapture::m_capturedElement
  mouse,      \* its row, whether its button is down, m_underMouseElement
  phase       \* where the frame is

panelVars == <<chosen, listed, isListed, control, captured>>
vars == <<role, panelVars, mouse, phase>>

mainOf(d)      == <<d, "main">>
option(d, o)   == <<d, o>>
Nothing        == <<"nothing", "nothing">>
Button == {mainOf(d) : d \in Dropdowns}
          \cup UNION {{option(d, o) : o \in ToSet(options[d])} : d \in Dropdowns}

\* The flags that nobody initialises are off here.
fresh == newControl([hovered |-> FALSE, pressed |-> FALSE, dragged |-> FALSE])

\* updateSettings
SettingsInit ==
  /\ role \in Roles
  /\ chosen = [d \in Dropdowns |-> initial[d]]
  /\ listed = [d \in Dropdowns |-> ToSet(options[d]) \ {initial[d]}]
  /\ isListed = [d \in Dropdowns |-> FALSE]
  /\ control = [b \in Button |-> IF role = "Regular" /\ b[2] = "main"
                                 THEN blockInteraction(fresh) ELSE fresh]
  /\ captured = Nothing
  /\ mouse = [row |-> Elsewhere, down |-> FALSE, under |-> Nothing]
  /\ phase = "receive"

-----------------------------------------------------------------------------
(* Where things are *)

\* recalculate: the visible children lie below each other, without gaps.
before(d, p, o) ==
  \E i, j \in DOMAIN options[d] : i < j /\ options[d][i] = p /\ options[d][j] = o
rowOfOption(d, o) == rowOf[d] + 1 + Cardinality({p \in listed[d] : before(d, p, o)})

\* ListBox's hitTest: the child at this row, or Nothing.
listHit(d, row) ==
  LET hit == {o \in listed[d] : isListed[d] /\ rowOfOption(d, o) = row}
  IN  IF hit = {} THEN Nothing ELSE option(d, CHOOSE o \in hit : TRUE)

mainHit(d, row) == row = rowOf[d]

\* The lists are above the main elements.
elementAt(row) ==
  LET inLists == {listHit(d, row) : d \in Dropdowns} \ {Nothing}
      mains   == {mainOf(d) : d \in {x \in Dropdowns : mainHit(x, row)}}
  IN  CASE inLists # {} -> CHOOSE b \in inLists : TRUE
        [] mains # {}   -> CHOOSE b \in mains : TRUE
        [] OTHER        -> Nothing

-----------------------------------------------------------------------------
(* The mouse moves *)

hovering(C, b, value) ==
  IF b = Nothing THEN C ELSE [C EXCEPT ![b] = setHovered(@, value)]

\* setOnInputUpdate of a dropdown that has the capture.
inputUpdate(d, row) ==
  LET under == listHit(d, row)
  IN  [b \in Button |->
         IF b[1] # d \/ b[2] = "main" THEN control[b]
         ELSE IF b = under THEN setHovered(control[b], TRUE)
         ELSE IF control[b].hovered THEN setHovered(control[b], FALSE) ELSE control[b]]

MouseInputUpdate ==
  /\ phase = "receive" /\ phase' = "input"
  /\ \E row \in Rows :
       CASE captured # Nothing ->
              control' = inputUpdate(captured[1], row) /\ mouse' = [mouse EXCEPT !.row = row]
         [] captured = Nothing /\ mouse.under # Nothing /\ control[mouse.under].pressed ->
              UNCHANGED control /\ mouse' = [mouse EXCEPT !.row = row]
         [] OTHER ->
              LET b == elementAt(row)
              IN  /\ mouse' = [mouse EXCEPT !.row = row, !.under = b]
                  /\ control' = IF b = mouse.under THEN hovering(control, b, TRUE)
                                ELSE hovering(hovering(control, mouse.under, FALSE), b, TRUE)
  /\ UNCHANGED <<role, chosen, listed, isListed, captured>>

-----------------------------------------------------------------------------
(* The mouse is pressed and released *)

\* InputCapture::release, onCaptureEnd and the dropdown's callback.
releaseInput(d, C) ==
  /\ captured' = Nothing
  /\ control' = [C EXCEPT ![mainOf(d)] = captureEnded(@)]
  /\ isListed' = [isListed EXCEPT ![d] = FALSE]

down(b) == [control EXCEPT ![b] = setPressed(@, TRUE)]
up(b)   == [control EXCEPT ![b] = setPressed(@, FALSE)]

\* A press while d has the capture: on its list, on its button, or anywhere else.
pressedCaptured(d) ==
  LET hit == listHit(d, mouse.row)
  IN  CASE hit # Nothing -> control' = down(hit) /\ UNCHANGED <<isListed, captured>>
        [] hit = Nothing /\ mainHit(d, mouse.row) -> releaseInput(d, down(mainOf(d)))
        [] OTHER -> releaseInput(d, control)

\* setOnMouseDown of a main element that has not the capture; an option has no callback.
pressedFree(b) ==
  /\ control' = down(b)
  /\ IF b[2] = "main"
     THEN captured' = b /\ isListed' = [isListed EXCEPT ![b[1]] = TRUE]
     ELSE UNCHANGED <<captured, isListed>>

usable(b) == b # Nothing /\ canBePressed(control[b])

MousePressed ==
  /\ phase = "input" /\ ~mouse.down
  /\ mouse' = [mouse EXCEPT !.down = TRUE]
  /\ CASE captured # Nothing -> pressedCaptured(captured[1])
       [] captured = Nothing /\ usable(mouse.under) -> pressedFree(mouse.under)
       [] OTHER -> UNCHANGED <<control, isListed, captured>>
  /\ UNCHANGED <<role, chosen, listed, phase>>

\* Mutant of chooses: the option that was chosen before does not come back.
choosesAnother(d, o) ==
  /\ chosen' = [chosen EXCEPT ![d] = o]
  /\ listed' = [listed EXCEPT ![d] = @ \ {o}]

\* setOnListBoxChildAction: the button takes the text, the list all other options.
chooses(d, o) ==
  /\ chosen' = [chosen EXCEPT ![d] = o]
  /\ listed' = [listed EXCEPT ![d] = ToSet(options[d]) \ {o}]

\* Mutant of releasedCaptured: the list stays open.
releasedCapturedOpen(d) ==
  LET hit == listHit(d, mouse.row)
  IN  IF hit = Nothing
      THEN control' = up(mainOf(d)) /\ UNCHANGED <<chosen, listed, isListed, captured>>
      ELSE chooses(d, hit[2]) /\ control' = up(hit) /\ UNCHANGED <<isListed, captured>>

\* The option under the mouse is taken, whichever one the press was on.
releasedCaptured(d) ==
  LET hit == listHit(d, mouse.row)
  IN  IF hit = Nothing
      THEN control' = up(mainOf(d)) /\ UNCHANGED <<chosen, listed, isListed, captured>>
      ELSE chooses(d, hit[2]) /\ releaseInput(d, up(hit))

\* No list is open when nothing is captured, so that b is a main element: an option's
\* callback for the button that goes up is not called here.
releasedFree(b) == control' = up(b) /\ UNCHANGED <<chosen, listed, isListed, captured>>

MouseReleased ==
  /\ phase = "input" /\ mouse.down
  /\ mouse' = [mouse EXCEPT !.down = FALSE]
  /\ CASE captured # Nothing -> releasedCaptured(captured[1])
       [] captured = Nothing /\ usable(mouse.under) -> releasedFree(mouse.under)
       [] OTHER -> UNCHANGED panelVars
  /\ UNCHANGED <<role, phase>>

\* The rest of the frame.
EndOfInput == phase = "input" /\ phase' = "receive" /\ UNCHANGED <<role, panelVars, mouse>>

SettingsNext == MouseInputUpdate \/ MousePressed \/ MouseReleased \/ EndOfInput

SettingsSpec == SettingsInit /\ [][SettingsNext]_vars

-----------------------------------------------------------------------------
(* Properties *)

PanelTypeOK ==
  /\ control \in [Button -> Control]
  /\ captured \in Button \cup {Nothing} /\ mouse.under \in Button \cup {Nothing}
  /\ \A d \in Dropdowns : chosen[d] \in ToSet(options[d]) /\ listed[d] \subseteq ToSet(options[d])

\* A list is open just while its button has the capture: never two of them,
\* and none that the next press could not close.
OpenIsCaptured ==
  \A d \in Dropdowns : isListed[d] <=> captured = mainOf(d)

\* A list offers just what its button does not show.
ListOffersTheRest ==
  \A d \in Dropdowns : listed[d] = ToSet(options[d]) \ {chosen[d]}

\* A main element is down only while it has the capture and the mouse is down,
\* wherever the mouse went and whatever ended the capture.
MainIsHeld ==
  \A d \in Dropdowns : control[mainOf(d)].pressed => mouse.down /\ captured = mainOf(d)

\* Lists, captures and what is held down fit together.
PanelConsistent == PanelTypeOK /\ OpenIsCaptured /\ ListOffersTheRest /\ MainIsHeld

\* A choice is made only from an open list, by the release of the mouse over
\* it, and by the host.
ChoiceFromOpenList ==
  [][\A d \in Dropdowns : chosen'[d] # chosen[d] =>
       role = "Host" /\ isListed[d] /\ chosen'[d] \in listed[d] /\ ~isListed'[d]]_vars

=============================================================================
