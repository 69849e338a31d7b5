---------------------------- MODULE MenuSceneProofs ----------------------------
(***************************************************************************)
(* The menu keeps its dialogs, its buttons and its box together, and it    *)
(* implements MenuPromise: for every window, whatever is typed or pasted,  *)
(* and for addresses of any number of parts.                               *)
(*                                                                         *)
(* DialogsConsistent is not inductive.  That a dialog lets go of what is   *)
(* held below it needs Held (nothing is hovered or down but what is under  *)
(* the mouse, which is all that showModalLayer resets); and the buttons    *)
(* below are those of both panels, since a click of PLAY or back, which    *)
(* nobody points at then, would change the panel under the dialog.         *)
(***************************************************************************)
EXTENDS MenuScene, SequenceTheorems, TLAPS

Symbol == 0..Dot
Types  == {"ExitRequest", "InputIpAddressRequest", "CreateGameRequest", "Exit", "JoinGameRequest"}
Event  == [type : Types, ip : Seq(Symbol)]

\* The locks of a button: CONNECT is locked once or not at all, the others never.
Locked(b, c) ==
  /\ c.click \in {0, 1} /\ (b # "CONNECT" => c.click = 0)
  /\ c.hover = c.click /\ c.press = c.click /\ c.drag = c.click + 1
  /\ c.disabled <=> c.click = 1
  /\ c.disabled => ~c.hovered /\ ~c.pressed

Sound(C) == C \in [Button -> Control] /\ \A b \in Button : Locked(b, C[b])

\* What is hovered or down is under the mouse.
Held(C, under) == \A b \in Button : C[b].hovered \/ C[b].pressed => b = under

\* The buttons below the dialogs that are shown.
below(shown) ==
  IF shown = {} THEN {}
  ELSE buttonsOf["main"] \cup buttonsOf["choose"]
       \cup IF "Exit" \in shown THEN buttonsOf["InputIpAddress"] ELSE {}

Typed ==
  /\ panel \in {"main", "choose"} /\ dialogs \subseteq Dialogs
  /\ mouse \in [place : SUBSET Button, down : BOOLEAN, under : Button \cup {Nothing}]
  /\ text \in Seq(Symbol) /\ Len(text) <= MaxSize
  /\ events \in Seq(Event)

\* An empty box may have left CONNECT as it was.
Box(string, C) == string # << >> => (canBeClicked(C["CONNECT"]) <=> isValidIP(string))

Joins(evs) ==
  \A i \in DOMAIN evs : evs[i].type = "JoinGameRequest" => evs[i].ip = << >> \/ isValidIP(evs[i].ip)

IInv ==
  /\ Typed /\ Sound(control) /\ Held(control, mouse.under)
  /\ mouse.under \notin below(dialogs)
  /\ Box(text, control) /\ Joins(events)

-----------------------------------------------------------------------------
(* Names *)

\* The buttons of the two panels and of the two dialogs.
LEMMA ButtonNames ==
  /\ buttonsOf["main"] = {"PLAY", "SETTINGS", "EXIT"}
  /\ buttonsOf["choose"] = {"create game", "join game", "back"}
  /\ buttonsOf["InputIpAddress"] = {"CONNECT", "CANCEL"}
  /\ buttonsOf["Exit"] = {"YES", "NO"}
  /\ Button = {"PLAY", "SETTINGS", "EXIT", "create game", "join game", "back",
               "CONNECT", "CANCEL", "YES", "NO"}
<1>1. /\ buttonsOf["main"] = {"PLAY", "SETTINGS", "EXIT"}
      /\ buttonsOf["choose"] = {"create game", "join game", "back"}
      /\ buttonsOf["InputIpAddress"] = {"CONNECT", "CANCEL"}
      /\ buttonsOf["Exit"] = {"YES", "NO"}
  BY DEF buttonsOf
<1>2. DOMAIN buttonsOf = {"main", "choose", "InputIpAddress", "Exit"}
  BY DEF buttonsOf
<1>3. Button = buttonsOf["main"] \cup buttonsOf["choose"] \cup buttonsOf["InputIpAddress"]
                \cup buttonsOf["Exit"]
  BY <1>2 DEF Button
<1> QED  BY <1>1, <1>3

\* What the two dialogs are asked with and answered with.
LEMMA DialogNames ==
  /\ asks["Exit"] = "ExitRequest" /\ asks["InputIpAddress"] = "InputIpAddressRequest"
  /\ answer["Exit"] = "Exit" /\ answer["InputIpAddress"] = "JoinGameRequest"
  BY DEF asks, answer

\* The mouse finds a button that is shown, or nothing (IScene::findUnderMouseElement).
LEMMA FoundIsShown ==
  ASSUME NEW place
  PROVE  findUnderMouseElement(place) \in shownButtons \cup {Nothing}
  BY DEF findUnderMouseElement

\* What is shown is not below a dialog.
LEMMA ShownIsNotBelow ==
  ASSUME Typed, NEW b \in shownButtons
  PROVE  b \in Button /\ b # Nothing /\ b \notin below(dialogs)
<1>1. CASE dialogs = {}
  BY <1>1, ButtonNames DEF shownButtons, below, Typed, Nothing
<1>2. CASE "Exit" \in dialogs
  <2>1. shownButtons = {"YES", "NO"}
    BY <1>2, ButtonNames DEF shownButtons, topOf
  <2> QED  BY <2>1, ButtonNames DEF below, Nothing
<1>3. CASE dialogs # {} /\ "Exit" \notin dialogs
  <2>1. shownButtons = {"CONNECT", "CANCEL"}
    BY <1>3, ButtonNames DEF shownButtons, topOf
  <2> QED  BY <1>3, <2>1, ButtonNames DEF below, Nothing
<1> QED  BY <1>1, <1>2, <1>3

-----------------------------------------------------------------------------
(* One button *)

\* The pointer touches no lock and no press (UIInteractive::setHovered).
LEMMA HoverKeeps ==
  ASSUME NEW c \in Control, NEW value \in BOOLEAN
  PROVE  /\ setHovered(c, value) \in Control
         /\ setHovered(c, value).hover = c.hover /\ setHovered(c, value).press = c.press
         /\ setHovered(c, value).click = c.click /\ setHovered(c, value).drag = c.drag
         /\ setHovered(c, value).disabled = c.disabled
         /\ setHovered(c, value).pressed = c.pressed
         /\ c.hover # 0 \/ c.disabled => setHovered(c, value).hovered = c.hovered
  BY SMT DEF setHovered, Control

\* The button of the mouse touches no lock and no pointer (UIInteractive::setPressed).
LEMMA PressKeeps ==
  ASSUME NEW c \in Control, NEW value \in BOOLEAN
  PROVE  /\ setPressed(c, value) \in Control
         /\ setPressed(c, value).hover = c.hover /\ setPressed(c, value).press = c.press
         /\ setPressed(c, value).click = c.click /\ setPressed(c, value).drag = c.drag
         /\ setPressed(c, value).disabled = c.disabled
         /\ setPressed(c, value).hovered = c.hovered
         /\ c.press # 0 \/ c.disabled => setPressed(c, value).pressed = c.pressed
  BY SMT DEF setPressed, Control

\* What is not locked is left by the mouse, and goes up.
LEMMA SwitchesOff ==
  ASSUME NEW c \in Control, ~c.disabled
  PROVE  /\ c.hover = 0 => ~setHovered(c, FALSE).hovered
         /\ c.press = 0 => ~setPressed(c, FALSE).pressed
<1>1. ASSUME c.hover = 0  PROVE ~setHovered(c, FALSE).hovered
  BY SMT, <1>1 DEF setHovered, Control
<1>2. ASSUME c.press = 0  PROVE ~setPressed(c, FALSE).pressed
  BY SMT, <1>2 DEF setPressed, Control
<1> QED  BY <1>1, <1>2

\* The two cases of a button's locks.
LEMMA LockedCases ==
  ASSUME NEW b, NEW c \in Control
  PROVE  /\ Locked(b, c) /\ c.click = 0 => c.hover = 0 /\ c.press = 0 /\ c.drag = 1 /\ ~c.disabled
         /\ Locked(b, c) /\ c.click # 0 =>
              /\ b = "CONNECT" /\ c.click = 1 /\ c.hover = 1 /\ c.press = 1 /\ c.drag = 2
              /\ c.disabled /\ ~c.hovered /\ ~c.pressed
         /\ c.click = 0 /\ c.hover = 0 /\ c.press = 0 /\ c.drag = 1 /\ ~c.disabled => Locked(b, c)
         /\ /\ b = "CONNECT" /\ c.click = 1 /\ c.hover = 1 /\ c.press = 1 /\ c.drag = 2
            /\ c.disabled /\ ~c.hovered /\ ~c.pressed
            => Locked(b, c)
  BY SMT DEF Locked, Control

\* A button stays locked as it was, wherever the mouse goes.
LEMMA HoverLocked ==
  ASSUME NEW b, NEW c \in Control, Locked(b, c), NEW value \in BOOLEAN
  PROVE  Locked(b, setHovered(c, value))
<1>. DEFINE d == setHovered(c, value)
<1>1. /\ d \in Control
      /\ d.hover = c.hover /\ d.press = c.press /\ d.click = c.click /\ d.drag = c.drag
      /\ d.disabled = c.disabled /\ d.pressed = c.pressed
      /\ c.hover # 0 \/ c.disabled => d.hovered = c.hovered
  BY HoverKeeps
<1>. HIDE DEF d
<1>2. Locked(b, d)
  BY SMT, <1>1, LockedCases
<1> QED  BY <1>2 DEF d

\* And whatever is pressed.
LEMMA PressLocked ==
  ASSUME NEW b, NEW c \in Control, Locked(b, c), NEW value \in BOOLEAN
  PROVE  Locked(b, setPressed(c, value))
<1>. DEFINE d == setPressed(c, value)
<1>1. /\ d \in Control
      /\ d.hover = c.hover /\ d.press = c.press /\ d.click = c.click /\ d.drag = c.drag
      /\ d.disabled = c.disabled /\ d.hovered = c.hovered
      /\ c.press # 0 \/ c.disabled => d.pressed = c.pressed
  BY PressKeeps
<1>. HIDE DEF d
<1>2. Locked(b, d)
  BY SMT, <1>1, LockedCases
<1> QED  BY <1>2 DEF d

\* The mouse leaves a button.
LEMMA LeaveKeeps ==
  ASSUME NEW b, NEW c \in Control, Locked(b, c)
  PROVE  /\ setHovered(c, FALSE) \in Control /\ Locked(b, setHovered(c, FALSE))
         /\ ~setHovered(c, FALSE).hovered
         /\ setHovered(c, FALSE).pressed = c.pressed /\ setHovered(c, FALSE).click = c.click
<1>1. /\ setHovered(c, FALSE) \in Control /\ Locked(b, setHovered(c, FALSE))
      /\ setHovered(c, FALSE).pressed = c.pressed /\ setHovered(c, FALSE).click = c.click
  BY HoverKeeps, HoverLocked
<1>2. ~setHovered(c, FALSE).hovered
  <2>1. CASE c.click = 0
    BY <2>1, LockedCases, SwitchesOff
  <2>2. CASE c.click # 0
    <3>1. c.disabled /\ ~c.hovered
      BY <2>2, LockedCases
    <3> QED  BY <3>1 DEF setHovered
  <2> QED  BY <2>1, <2>2
<1> QED  BY <1>1, <1>2

\* A button goes up.
LEMMA LiftKeeps ==
  ASSUME NEW b, NEW c \in Control, Locked(b, c)
  PROVE  /\ setPressed(c, FALSE) \in Control /\ Locked(b, setPressed(c, FALSE))
         /\ ~setPressed(c, FALSE).pressed
         /\ setPressed(c, FALSE).hovered = c.hovered /\ setPressed(c, FALSE).click = c.click
<1>1. /\ setPressed(c, FALSE) \in Control /\ Locked(b, setPressed(c, FALSE))
      /\ setPressed(c, FALSE).hovered = c.hovered /\ setPressed(c, FALSE).click = c.click
  BY PressKeeps, PressLocked
<1>2. ~setPressed(c, FALSE).pressed
  <2>1. CASE c.click = 0
    BY <2>1, LockedCases, SwitchesOff
  <2>2. CASE c.click # 0
    <3>1. c.disabled /\ ~c.pressed
      BY <2>2, LockedCases
    <3> QED  BY <3>1 DEF setPressed
  <2> QED  BY <2>1, <2>2
<1> QED  BY <1>1, <1>2

\* A button is let go of (UIInteractive::resetInteractive).
LEMMA ResetKeeps ==
  ASSUME NEW b, NEW c \in Control, Locked(b, c)
  PROVE  /\ resetInteractive(c) \in Control /\ Locked(b, resetInteractive(c))
         /\ resetInteractive(c).click = c.click
         /\ ~resetInteractive(c).hovered /\ ~resetInteractive(c).pressed
<1>. DEFINE d == setHovered(c, FALSE)
            e == setPressed(d, FALSE)
<1>1. d \in Control /\ Locked(b, d) /\ ~d.hovered /\ d.click = c.click
  BY LeaveKeeps
<1>2. e \in Control /\ Locked(b, e) /\ ~e.hovered /\ ~e.pressed /\ e.click = c.click
  <2>. HIDE DEF d
  <2>1. setPressed(d, FALSE).hovered = d.hovered  BY <1>1, LiftKeeps
  <2> QED  BY <1>1, <2>1, LiftKeeps
<1>3. resetInteractive(c) = setDragged(e, FALSE)
  BY DEF resetInteractive
<1>. HIDE DEF e
<1>4. e.drag # 0
  BY SMT, <1>2, LockedCases
<1>5. setDragged(e, FALSE) = e
  BY <1>4 DEF setDragged
<1> QED  BY <1>2, <1>3, <1>5

\* A button that can be clicked is locked, in all four ways.
LEMMA BlockKeeps ==
  ASSUME NEW c \in Control, Locked("CONNECT", c), c.click = 0
  PROVE  /\ blockInteraction(c) \in Control /\ Locked("CONNECT", blockInteraction(c))
         /\ blockInteraction(c).click = 1
         /\ ~blockInteraction(c).hovered /\ ~blockInteraction(c).pressed
<1>. DEFINE c1 == setHovered(c, FALSE)
            c2 == blockHover(c)
            c3 == setPressed(c2, FALSE)
            c4 == blockPress(c2)
            c5 == blockClick(c4)
            c6 == blockDrag(c5)
            c7 == blockInteraction(c)
<1>0. c.hover = 0 /\ c.press = 0 /\ c.drag = 1 /\ ~c.disabled
  BY LockedCases
<1>1. c1 \in Control /\ c1.hover = 0 /\ c1.press = 0 /\ c1.click = 0 /\ c1.drag = 1
      /\ ~c1.disabled /\ ~c1.hovered
  BY <1>0, HoverKeeps, SwitchesOff
<1>2. c2 \in Control /\ c2.hover = 1 /\ c2.press = 0 /\ c2.click = 0 /\ c2.drag = 1
      /\ ~c2.disabled /\ ~c2.hovered
  <2>1. c2 = [c1 EXCEPT !.hover = c1.hover + 1]
    BY DEF blockHover
  <2>. HIDE DEF c1, c2
  <2> QED  BY SMT, <1>1, <2>1 DEF Control
<1>. HIDE DEF c2
<1>3. c3 \in Control /\ c3.hover = 1 /\ c3.press = 0 /\ c3.click = 0 /\ c3.drag = 1
      /\ ~c3.disabled /\ ~c3.hovered /\ ~c3.pressed
  BY <1>2, PressKeeps, SwitchesOff
<1>4. c4 \in Control /\ c4.hover = 1 /\ c4.press = 1 /\ c4.click = 0 /\ c4.drag = 1
      /\ ~c4.disabled /\ ~c4.hovered /\ ~c4.pressed
  <2>1. c4 = [c3 EXCEPT !.press = c3.press + 1]
    BY DEF blockPress
  <2>. HIDE DEF c3, c4
  <2> QED  BY SMT, <1>3, <2>1 DEF Control
<1>. HIDE DEF c4
<1>5. c5 \in Control /\ c5.hover = 1 /\ c5.press = 1 /\ c5.click = 1 /\ c5.drag = 1
      /\ ~c5.disabled /\ ~c5.hovered /\ ~c5.pressed
  BY SMT, <1>4 DEF blockClick, Control
<1>. HIDE DEF c5
<1>6. c6 \in Control /\ c6.hover = 1 /\ c6.press = 1 /\ c6.click = 1 /\ c6.drag = 2
      /\ ~c6.disabled /\ ~c6.hovered /\ ~c6.pressed
  <2>1. setDragged(c5, FALSE) = c5
    BY SMT, <1>5 DEF setDragged
  <2>2. c6 = [c5 EXCEPT !.drag = c5.drag + 1]
    BY <2>1 DEF blockDrag
  <2>. HIDE DEF c6
  <2> QED  BY SMT, <1>5, <2>2 DEF Control
<1>7. c7 = [c6 EXCEPT !.disabled = TRUE]
  BY DEF blockInteraction, c2, c4, c5
<1>. HIDE DEF c6, c7
<1>8. c7 \in Control
  <2>1. \A v \in BOOLEAN : [c6 EXCEPT !.disabled = v] \in Control
    BY SMT, <1>6 DEF Control
  <2> QED  BY <1>7, <2>1
<1>9. c7.hover = 1 /\ c7.press = 1 /\ c7.click = 1 /\ c7.drag = 2
      /\ c7.disabled /\ ~c7.hovered /\ ~c7.pressed
  BY SMT, <1>6, <1>7 DEF Control
<1>10. Locked("CONNECT", c7)
  BY <1>8, <1>9, LockedCases
<1> QED  BY <1>8, <1>9, <1>10 DEF c7

\* A button that is locked can be used again, and nothing is pressed by that.
LEMMA UnblockKeeps ==
  ASSUME NEW c \in Control, Locked("CONNECT", c), c.click # 0
  PROVE  /\ unblockInteraction(c) \in Control /\ Locked("CONNECT", unblockInteraction(c))
         /\ unblockInteraction(c).click = 0
         /\ ~unblockInteraction(c).hovered /\ ~unblockInteraction(c).pressed
<1>. DEFINE c1 == [c EXCEPT !.hover = 0]
            c2 == [c1 EXCEPT !.press = 0]
            c3 == [c2 EXCEPT !.click = 0]
            c4 == [c3 EXCEPT !.drag = 1]
            c5 == [c4 EXCEPT !.disabled = FALSE]
<1>0. c.click = 1 /\ c.hover = 1 /\ c.press = 1 /\ c.drag = 2 /\ ~c.hovered /\ ~c.pressed
  BY LockedCases
<1>1. unblockInteraction(c) = c5
  <2>1. unblockInteraction(c) = [c EXCEPT !.hover = 0, !.press = 0, !.click = 0, !.drag = 1, !.disabled = FALSE]
    BY <1>0 DEF unblockInteraction, unlocked
  <2> QED  BY <2>1
<1>2. c1 \in Control /\ c1.hover = 0 /\ ~c1.hovered /\ ~c1.pressed
  BY SMT, <1>0 DEF Control
<1>. HIDE DEF c1
<1>3. c2 \in Control /\ c2.hover = 0 /\ c2.press = 0 /\ ~c2.hovered /\ ~c2.pressed
  BY SMT, <1>2 DEF Control
<1>. HIDE DEF c2
<1>4. c3 \in Control /\ c3.hover = 0 /\ c3.press = 0 /\ c3.click = 0 /\ ~c3.hovered /\ ~c3.pressed
  BY SMT, <1>3 DEF Control
<1>. HIDE DEF c3
<1>5. c4 \in Control /\ c4.hover = 0 /\ c4.press = 0 /\ c4.click = 0 /\ c4.drag = 1
      /\ ~c4.hovered /\ ~c4.pressed
  BY SMT, <1>4 DEF Control
<1>. HIDE DEF c4
<1>6. c5 \in Control
  <2>1. \A v \in BOOLEAN : [c4 EXCEPT !.disabled = v] \in Control
    BY SMT, <1>5 DEF Control
  <2> QED  BY <2>1
<1>7. c5.hover = 0 /\ c5.press = 0 /\ c5.click = 0 /\ c5.drag = 1
      /\ ~c5.disabled /\ ~c5.hovered /\ ~c5.pressed
  BY SMT, <1>5 DEF Control
<1>. HIDE DEF c5
<1>8. Locked("CONNECT", c5)
  BY <1>6, <1>7, LockedCases
<1> QED  BY <1>1, <1>6, <1>7, <1>8

\* CONNECT is usable just when the text is an address (updateIPBox).
LEMMA UpdateKeeps ==
  ASSUME NEW c \in Control, Locked("CONNECT", c), NEW string
  PROVE  /\ updateIPBox(c, string) \in Control /\ Locked("CONNECT", updateIPBox(c, string))
         /\ updateIPBox(c, string).click = 0 <=> isValidIP(string)
         /\ updateIPBox(c, string).hovered => c.hovered
         /\ updateIPBox(c, string).pressed => c.pressed
<1>1. CASE isValidIP(string) /\ c.click # 0
  <2>1. updateIPBox(c, string) = unblockInteraction(c)
    BY <1>1 DEF updateIPBox, canBeClicked
  <2> QED  BY <1>1, <2>1, UnblockKeeps
<1>2. CASE ~isValidIP(string) /\ c.click = 0
  <2>1. updateIPBox(c, string) = blockInteraction(c)
    BY <1>2 DEF updateIPBox, canBeClicked
  <2>2. blockInteraction(c).click # 0
    BY <1>2, BlockKeeps
  <2> QED  BY <1>2, <2>1, <2>2, BlockKeeps
<1>3. CASE isValidIP(string) <=> c.click = 0
  <2>1. updateIPBox(c, string) = c
    BY <1>3 DEF updateIPBox, canBeClicked
  <2> QED  BY <1>3, <2>1
<1> QED  BY <1>1, <1>2, <1>3

-----------------------------------------------------------------------------
(* All buttons *)

put(C, b, c) == [C EXCEPT ![b] = c]

\* One button changes, and with it nothing else; only a text locks and unlocks CONNECT.
LEMMA PutKeeps ==
  ASSUME NEW C, Sound(C), NEW b \in Button, NEW c \in Control, Locked(b, c)
  PROVE  /\ Sound(put(C, b, c))
         /\ put(C, b, c)[b] = c /\ \A x \in Button \ {b} : put(C, b, c)[x] = C[x]
         /\ c.click = C[b].click =>
              put(C, b, c)["CONNECT"].click = C["CONNECT"].click
<1>. DEFINE D == put(C, b, c)
<1>1. C \in [Button -> Control] /\ \A x \in Button : Locked(x, C[x])
  BY DEF Sound
<1>2. D \in [Button -> Control] /\ D[b] = c /\ \A x \in Button \ {b} : D[x] = C[x]
  BY SMT, <1>1 DEF put
<1>. HIDE DEF D
<1>3. Sound(D)
  BY <1>1, <1>2 DEF Sound
<1>4. ASSUME c.click = C[b].click
      PROVE  D["CONNECT"].click = C["CONNECT"].click
  <2>1. "CONNECT" \in Button
    BY ButtonNames
  <2> QED  BY <1>2, <1>4, <2>1
<1> QED  BY <1>2, <1>3, <1>4 DEF D

\* What Box says depends on CONNECT alone.
LEMMA BoxKept ==
  ASSUME NEW string, NEW C, NEW D, Box(string, C),
         D["CONNECT"].click = C["CONNECT"].click
  PROVE  Box(string, D)
  BY DEF Box, canBeClicked

\* The mouse leaves whatever it was over.
LEMMA LeavingKeeps ==
  ASSUME NEW C, Sound(C), NEW b \in Button \cup {Nothing}
  PROVE  /\ Sound(hovering(C, b, FALSE))
         /\ hovering(C, b, FALSE)["CONNECT"].click = C["CONNECT"].click
         /\ \A x \in Button \ {b} : hovering(C, b, FALSE)[x] = C[x]
         /\ b # Nothing => /\ ~hovering(C, b, FALSE)[b].hovered
                           /\ hovering(C, b, FALSE)[b].pressed = C[b].pressed
<1>1. CASE b = Nothing
  <2>1. hovering(C, b, FALSE) = C
    BY <1>1 DEF hovering
  <2> QED  BY <1>1, <2>1
<1>2. CASE b # Nothing
  <2>. DEFINE c == setHovered(C[b], FALSE)
  <2>1. b \in Button /\ C[b] \in Control /\ Locked(b, C[b])
    BY <1>2 DEF Sound
  <2>. DEFINE D == put(C, b, c)
  <2>2. hovering(C, b, FALSE) = D
    BY <1>2 DEF hovering, put
  <2>3. c \in Control /\ Locked(b, c) /\ ~c.hovered /\ c.pressed = C[b].pressed /\ c.click = C[b].click
    BY <2>1, LeaveKeeps
  <2>. HIDE DEF c
  <2>4. /\ Sound(D) /\ D[b] = c /\ \A x \in Button \ {b} : D[x] = C[x]
        /\ D["CONNECT"].click = C["CONNECT"].click
    BY <2>1, <2>3, PutKeeps
  <2>. HIDE DEF D
  <2> QED  BY <2>2, <2>3, <2>4
<1> QED  BY <1>1, <1>2

\* The mouse comes to whatever it is over.
LEMMA EnteringKeeps ==
  ASSUME NEW C, Sound(C), NEW b \in Button \cup {Nothing}
  PROVE  /\ Sound(hovering(C, b, TRUE))
         /\ hovering(C, b, TRUE)["CONNECT"].click = C["CONNECT"].click
         /\ \A x \in Button \ {b} : hovering(C, b, TRUE)[x] = C[x]
<1>1. CASE b = Nothing
  <2>1. hovering(C, b, TRUE) = C
    BY <1>1 DEF hovering
  <2> QED  BY <1>1, <2>1
<1>2. CASE b # Nothing
  <2>. DEFINE c == setHovered(C[b], TRUE)
  <2>1. b \in Button /\ C[b] \in Control /\ Locked(b, C[b])
    BY <1>2 DEF Sound
  <2>. DEFINE D == put(C, b, c)
  <2>2. hovering(C, b, TRUE) = D
    BY <1>2 DEF hovering, put
  <2>3. c \in Control /\ Locked(b, c) /\ c.click = C[b].click
    BY <2>1, HoverKeeps, HoverLocked
  <2>. HIDE DEF c
  <2>4. /\ Sound(D) /\ D[b] = c /\ \A x \in Button \ {b} : D[x] = C[x]
        /\ D["CONNECT"].click = C["CONNECT"].click
    BY <2>1, <2>3, PutKeeps
  <2>. HIDE DEF D
  <2> QED  BY <2>2, <2>3, <2>4
<1> QED  BY <1>1, <1>2

\* Fewer dialogs have fewer buttons below them.
LEMMA BelowShrinks ==
  ASSUME NEW shown, NEW fewer \in SUBSET shown
  PROVE  below(fewer) \subseteq below(shown)
  BY DEF below

-----------------------------------------------------------------------------
(* The steps *)

\* A control nobody touched.
LEMMA FreshIs ==
  /\ fresh \in Control /\ fresh.click = 0 /\ ~fresh.hovered /\ ~fresh.pressed
  /\ \A b : Locked(b, fresh)
<1>. DEFINE garbled(v) == newControl([hovered |-> v, pressed |-> v, dragged |-> v])
<1>1. \A v \in BOOLEAN : garbled(v) \in Control
  BY SMT DEF newControl, Control
<1>2. fresh = garbled(FALSE)
  BY DEF fresh
<1>3. fresh \in Control
  <2>. HIDE DEF garbled
  <2> QED  BY <1>1, <1>2
<1>4. /\ fresh.click = 0 /\ fresh.hover = 0 /\ fresh.press = 0 /\ fresh.drag = 1
      /\ ~fresh.disabled /\ ~fresh.hovered /\ ~fresh.pressed
  BY DEF fresh, newControl
<1> QED  BY <1>3, <1>4, LockedCases

\* The menu when it is shown.
LEMMA InitHolds == Init => IInv
<1> SUFFICES ASSUME Init  PROVE IInv
  OBVIOUS
<1>1. /\ panel = "main" /\ dialogs = {} /\ text = << >> /\ events = << >>
      /\ control = [b \in Button |-> IF b = "CONNECT" THEN blockInteraction(fresh) ELSE fresh]
      /\ mouse = [place |-> {}, down |-> FALSE, under |-> Nothing]
  BY DEF Init
<1>2. Typed
  <2>1. 0 <= MaxSize
    BY PartsAssumption DEF MaxSize
  <2>2. mouse \in [place : SUBSET Button, down : BOOLEAN, under : Button \cup {Nothing}]
    BY <1>1
  <2> QED  BY <1>1, <2>1, <2>2 DEF Typed
<1>3. \A b \in Button : control[b] \in Control /\ Locked(b, control[b])
                        /\ ~control[b].hovered /\ ~control[b].pressed
  BY <1>1, FreshIs, BlockKeeps
<1>4. Sound(control)
  BY <1>1, <1>3 DEF Sound
<1>5. Held(control, mouse.under)
  BY <1>3 DEF Held
<1> QED  BY <1>1, <1>2, <1>4, <1>5 DEF IInv, below, Box, Joins

\* The mouse moves: what is held down stays under it, anything else is what is shown there.
LEMMA MouseInputUpdateKeeps ==
  ASSUME IInv, MouseInputUpdate
  PROVE  IInv'
<1>1. UNCHANGED <<panel, dialogs, text, events>>
  BY DEF MouseInputUpdate
<1>2. PICK place \in Places :
        IF mouse.under # Nothing /\ control[mouse.under].pressed
        THEN mouse' = [mouse EXCEPT !.place = place] /\ UNCHANGED control
        ELSE LET b == findUnderMouseElement(place)
             IN  /\ mouse' = [mouse EXCEPT !.place = place, !.under = b]
                 /\ control' = IF b = mouse.under THEN hovering(control, b, TRUE)
                               ELSE hovering(hovering(control, mouse.under, FALSE), b, TRUE)
  BY DEF MouseInputUpdate
<1>3. /\ mouse \in [place : SUBSET Button, down : BOOLEAN, under : Button \cup {Nothing}]
      /\ place \subseteq Button
  BY MenuAssumption DEF IInv, Typed
<1>4. CASE mouse.under # Nothing /\ control[mouse.under].pressed
  <2>1. mouse' = [mouse EXCEPT !.place = place] /\ control' = control
    BY <1>2, <1>4
  <2>2. /\ mouse' \in [place : SUBSET Button, down : BOOLEAN, under : Button \cup {Nothing}]
        /\ mouse'.under = mouse.under
    BY <1>3, <2>1
  <2> QED  BY <1>1, <2>1, <2>2 DEF IInv, Typed
<1>5. CASE ~(mouse.under # Nothing /\ control[mouse.under].pressed)
  <2>. DEFINE b == findUnderMouseElement(place)
              C == hovering(control, mouse.under, FALSE)
  <2>1. b \in Button \cup {Nothing} /\ b \notin below(dialogs)
    <3>1. CASE b \in shownButtons
      BY <3>1, ShownIsNotBelow DEF IInv
    <3>2. CASE b = Nothing
      BY <3>2, ButtonNames DEF below, Nothing
    <3> QED  BY <3>1, <3>2, FoundIsShown
  <2>2. /\ mouse' = [mouse EXCEPT !.place = place, !.under = b]
        /\ control' = IF b = mouse.under THEN hovering(control, b, TRUE) ELSE hovering(C, b, TRUE)
    BY <1>2, <1>5
  <2>. HIDE DEF b, C
  <2>3. /\ mouse' \in [place : SUBSET Button, down : BOOLEAN, under : Button \cup {Nothing}]
        /\ mouse'.under = b
    BY <1>3, <2>1, <2>2
  <2>4. Sound(control) /\ Held(control, mouse.under) /\ mouse.under \in Button \cup {Nothing}
    BY <1>3 DEF IInv
  <2>5. /\ Sound(control') /\ Held(control', b)
        /\ control'["CONNECT"].click = control["CONNECT"].click
    <3>1. CASE b = mouse.under
      <4>1. control' = hovering(control, b, TRUE)
        BY <2>2, <3>1
      <4>2. /\ Sound(control') /\ control'["CONNECT"].click = control["CONNECT"].click
            /\ \A x \in Button \ {b} : control'[x] = control[x]
        BY <2>1, <2>4, <4>1, EnteringKeeps
      <4> QED  BY <2>4, <3>1, <4>2 DEF Held
    <3>2. CASE b # mouse.under
      <4>1. control' = hovering(C, b, TRUE)
        BY <2>2, <3>2
      <4>2. /\ Sound(C) /\ C["CONNECT"].click = control["CONNECT"].click
            /\ \A x \in Button \ {mouse.under} : C[x] = control[x]
            /\ mouse.under # Nothing => /\ ~C[mouse.under].hovered
                                        /\ C[mouse.under].pressed = control[mouse.under].pressed
        BY <2>4, LeavingKeeps DEF C
      <4>3. \A x \in Button : ~C[x].hovered /\ ~C[x].pressed
        <5>1. Nothing \notin Button
          BY ButtonNames DEF Nothing
        <5> QED  BY <1>5, <2>4, <4>2, <5>1 DEF Held
      <4>4. \A x \in Button \ {b} : control'[x] = C[x]
        BY <2>1, <4>1, <4>2, EnteringKeeps
      <4> QED  BY <2>1, <4>1, <4>2, <4>3, <4>4, EnteringKeeps DEF Held
    <3> QED  BY <3>1, <3>2
  <2>6. Box(text, control)
    BY DEF IInv
  <2> QED  BY <1>1, <2>1, <2>3, <2>5, <2>6, BoxKept DEF IInv, Typed, Joins
<1> QED  BY <1>4, <1>5

\* What is under the mouse goes down.
LEMMA MousePressedKeeps ==
  ASSUME IInv, MousePressed
  PROVE  IInv'
<1>1. /\ mouse' = [mouse EXCEPT !.down = TRUE]
      /\ control' = IF usable(mouse.under) THEN [control EXCEPT ![mouse.under] = setPressed(@, TRUE)]
                    ELSE control
      /\ UNCHANGED <<panel, dialogs, text, events>>
  BY DEF MousePressed
<1>2. /\ mouse' \in [place : SUBSET Button, down : BOOLEAN, under : Button \cup {Nothing}]
      /\ mouse'.under = mouse.under
  BY <1>1 DEF IInv, Typed
<1>3. Sound(control) /\ Held(control, mouse.under) /\ mouse.under \in Button \cup {Nothing}
  BY DEF IInv, Typed
<1>4. /\ Sound(control') /\ Held(control', mouse.under)
      /\ control'["CONNECT"].click = control["CONNECT"].click
  <2>1. CASE ~usable(mouse.under)
    BY <1>1, <1>3, <2>1
  <2>2. CASE usable(mouse.under)
    <3>. DEFINE b == mouse.under
                c == setPressed(control[b], TRUE)
    <3>1. b \in Button /\ control[b] \in Control /\ Locked(b, control[b])
      BY <1>3, <2>2 DEF usable, Sound
    <3>2. c \in Control /\ Locked(b, c) /\ c.click = control[b].click
      BY <3>1, PressKeeps, PressLocked
    <3>3. control' = put(control, b, c)
      BY <1>1, <2>2 DEF put
    <3>. HIDE DEF b, c
    <3>4. /\ Sound(control') /\ \A x \in Button \ {b} : control'[x] = control[x]
          /\ control'["CONNECT"].click = control["CONNECT"].click
      BY <1>3, <3>1, <3>2, <3>3, PutKeeps
    <3> QED  BY <1>3, <3>4 DEF Held, b
  <2> QED  BY <2>1, <2>2
<1> QED  BY <1>1, <1>2, <1>4, BoxKept DEF IInv, Typed, Joins

\* An event more, with a text that was allowed to be sent.
LEMMA PublishKeeps ==
  ASSUME events \in Seq(Event), Joins(events), NEW t \in Types, NEW ip \in Seq(Symbol),
         events' = Append(events, [type |-> t, ip |-> ip]),
         t = "JoinGameRequest" => ip = << >> \/ isValidIP(ip)
  PROVE  events' \in Seq(Event) /\ Joins(events')
<1>. DEFINE e == [type |-> t, ip |-> ip]
<1>1. e \in Event /\ e.type = t /\ e.ip = ip
  BY DEF Event
<1>. HIDE DEF e
<1>2. /\ Append(events, e) \in Seq(Event) /\ Len(Append(events, e)) = Len(events) + 1
      /\ \A i \in 1..Len(events) : Append(events, e)[i] = events[i]
      /\ Append(events, e)[Len(events) + 1] = e
  BY <1>1, AppendProperties
<1>3. events' = Append(events, e)
  BY DEF e
<1>4. Joins(events')
  <2> SUFFICES ASSUME NEW i \in 1..(Len(events) + 1), events'[i].type = "JoinGameRequest"
               PROVE  events'[i].ip = << >> \/ isValidIP(events'[i].ip)
    BY <1>2, <1>3 DEF Joins
  <2>1. CASE i \in 1..Len(events)
    BY <1>2, <1>3, <2>1 DEF Joins
  <2>2. CASE i = Len(events) + 1
    BY <1>1, <1>2, <1>3, <2>2
  <2> QED  BY <2>1, <2>2
<1> QED  BY <1>2, <1>3, <1>4

\* What the text of the box may be sent as.
LEMMA JoinKeeps ==
  ASSUME IInv, joinGame, canBeClicked(control["CONNECT"])
  PROVE  events' \in Seq(Event) /\ Joins(events')
<1>1. events' = Append(events, [type |-> "JoinGameRequest", ip |-> text])
  BY DialogNames DEF joinGame
<1>2. text = << >> \/ isValidIP(text)
  BY DEF IInv, Box
<1>3. events \in Seq(Event) /\ Joins(events) /\ text \in Seq(Symbol) /\ "JoinGameRequest" \in Types
  BY DEF IInv, Typed, Types
<1> QED  BY <1>1, <1>2, <1>3, PublishKeeps

\* Any other event.
LEMMA OtherKeeps ==
  ASSUME IInv, \/ publish("ExitRequest") \/ publish("InputIpAddressRequest")
               \/ publish("CreateGameRequest") \/ publish("Exit")
  PROVE  events' \in Seq(Event) /\ Joins(events')
<1>1. PICK t \in {"ExitRequest", "InputIpAddressRequest", "CreateGameRequest", "Exit"} :
        events' = Append(events, [type |-> t, ip |-> << >>])
  BY DEF publish
<1>2. events \in Seq(Event) /\ Joins(events) /\ << >> \in Seq(Symbol)
  BY DEF IInv, Typed
<1>3. t \in Types /\ t # "JoinGameRequest"
  BY DEF Types
<1> QED  BY <1>1, <1>2, <1>3, PublishKeeps

\* The callbacks publish what fits the box, and close no dialog but their own.
LEMMA ClickedKeeps ==
  ASSUME IInv, mouse.under \in Button, canBeClicked(control[mouse.under]), clicked(mouse.under)
  PROVE  /\ panel' \in {"main", "choose"} /\ dialogs' \subseteq dialogs
         /\ text' = text \/ text' = << >>
         /\ events' \in Seq(Event) /\ Joins(events')
<1>. DEFINE b == mouse.under
<1>1. /\ panel' = CASE b = "PLAY" -> "choose" [] b = "back" -> "main" [] OTHER -> panel
      /\ dialogs' = CASE b = "CANCEL" -> dialogs \ {"InputIpAddress"}
                      [] b = "NO"     -> dialogs \ {"Exit"}
                      [] OTHER        -> dialogs
      /\ text' = IF b = "CANCEL" THEN << >> ELSE text
  BY DEF clicked
<1>2. (CASE b = "EXIT"        -> publish("ExitRequest")
         [] b = "join game"   -> publish("InputIpAddressRequest")
         [] b = "create game" -> publish("CreateGameRequest")
         [] b = "CONNECT"     -> joinGame
         [] b = "YES"         -> publish("Exit")
         [] OTHER             -> UNCHANGED events)
  BY DialogNames DEF clicked
<1>3. events' \in Seq(Event) /\ Joins(events')
  <2>1. CASE b = "EXIT"
    <3>1. publish("ExitRequest")  BY <1>2, <2>1
    <3> QED  BY <3>1, OtherKeeps
  <2>2. CASE b = "join game"
    <3>1. publish("InputIpAddressRequest")  BY <1>2, <2>2
    <3> QED  BY <3>1, OtherKeeps
  <2>3. CASE b = "create game"
    <3>1. publish("CreateGameRequest")  BY <1>2, <2>3
    <3> QED  BY <3>1, OtherKeeps
  <2>4. CASE b = "CONNECT"
    <3>1. joinGame  BY <1>2, <2>4
    <3> QED  BY <2>4, <3>1, JoinKeeps
  <2>5. CASE b = "YES"
    <3>1. publish("Exit")  BY <1>2, <2>5
    <3> QED  BY <3>1, OtherKeeps
  <2>6. CASE b \notin {"EXIT", "join game", "create game", "CONNECT", "YES"}
    <3>1. events' = events  BY <1>2, <2>6
    <3> QED  BY <3>1 DEF IInv, Typed
  <2> QED  BY <2>1, <2>2, <2>3, <2>4, <2>5, <2>6
<1>4. panel \in {"main", "choose"}
  BY DEF IInv, Typed
<1> QED  BY <1>1, <1>3, <1>4

\* What is under the mouse goes up, and may be clicked by that.
LEMMA MouseReleasedKeeps ==
  ASSUME IInv, MouseReleased
  PROVE  IInv'
<1>. DEFINE b == mouse.under
<1>1. mouse' = [mouse EXCEPT !.down = FALSE]
  BY DEF MouseReleased
<1>2. /\ mouse' \in [place : SUBSET Button, down : BOOLEAN, under : Button \cup {Nothing}]
      /\ mouse'.under = mouse.under
  BY <1>1 DEF IInv, Typed
<1>3. Sound(control) /\ Held(control, b) /\ b \in Button \cup {Nothing}
  BY DEF IInv, Typed
<1>4. /\ Sound(control') /\ Held(control', b)
      /\ control'["CONNECT"].click = control["CONNECT"].click
  <2>1. CASE ~usable(b)
    <3>1. control' = control
      BY <2>1 DEF MouseReleased
    <3> QED  BY <1>3, <3>1
  <2>2. CASE usable(b)
    <3>. DEFINE c == setPressed(control[b], FALSE)
    <3>1. b \in Button /\ control[b] \in Control /\ Locked(b, control[b])
      BY <1>3, <2>2 DEF usable, Sound
    <3>2. c \in Control /\ Locked(b, c) /\ c.click = control[b].click
      BY <3>1, LiftKeeps
    <3>3. control' = put(control, b, c)
      BY <2>2 DEF MouseReleased, put
    <3>. HIDE DEF b, c
    <3>4. /\ Sound(control') /\ \A x \in Button \ {b} : control'[x] = control[x]
          /\ control'["CONNECT"].click = control["CONNECT"].click
      BY <1>3, <3>1, <3>2, <3>3, PutKeeps
    <3> QED  BY <1>3, <3>4 DEF Held
  <2> QED  BY <2>1, <2>2
<1>5. /\ panel' \in {"main", "choose"} /\ dialogs' \subseteq dialogs
      /\ text' = text \/ text' = << >>
      /\ events' \in Seq(Event) /\ Joins(events')
  <2>1. CASE UNCHANGED <<panel, dialogs, text, events>>
    BY <2>1 DEF IInv, Typed
  <2>2. CASE usable(b) /\ canBeClicked(control[b]) /\ clicked(b)
    BY <1>3, <2>2, ClickedKeeps DEF usable
  <2> QED  BY <2>1, <2>2 DEF MouseReleased
<1>6. b \notin below(dialogs')
  BY <1>5, BelowShrinks DEF IInv
<1>7. Box(text', control')
  <2>1. Box(text, control')
    BY <1>4, BoxKept DEF IInv
  <2> QED  BY <1>5, <2>1 DEF Box
<1>8. Typed'
  <2>1. text' \in Seq(Symbol) /\ Len(text') <= MaxSize
    <3>1. CASE text' = text
      BY <3>1 DEF IInv, Typed
    <3>2. CASE text' = << >>
      BY <3>2, PartsAssumption DEF MaxSize
    <3> QED  BY <1>5, <3>1, <3>2
  <2>2. dialogs' \subseteq Dialogs
    BY <1>5 DEF IInv, Typed
  <2> QED  BY <1>2, <1>5, <2>1, <2>2 DEF Typed
<1> QED  BY <1>2, <1>4, <1>5, <1>6, <1>7, <1>8 DEF IInv

\* A text of the box locks and unlocks CONNECT (TextBox, updateIPBox).
LEMMA EditedKeeps ==
  ASSUME IInv, NEW string \in Seq(Symbol), Len(string) <= MaxSize, edited(string)
  PROVE  IInv'
<1>. DEFINE c == updateIPBox(control["CONNECT"], string)
<1>1. text' = string /\ UNCHANGED <<panel, dialogs, mouse, events>>
  BY DEF edited
<1>2. "CONNECT" \in Button /\ Sound(control) /\ Held(control, mouse.under)
  BY ButtonNames DEF IInv
<1>3. control["CONNECT"] \in Control /\ Locked("CONNECT", control["CONNECT"])
  BY <1>2 DEF Sound
<1>4. /\ c \in Control /\ Locked("CONNECT", c) /\ (c.click = 0 <=> isValidIP(string))
      /\ c.hovered => control["CONNECT"].hovered
      /\ c.pressed => control["CONNECT"].pressed
  BY <1>3, UpdateKeeps
<1>5. control' = put(control, "CONNECT", c)
  BY DEF edited, put
<1>. HIDE DEF c
<1>6. /\ Sound(control') /\ control'["CONNECT"] = c
      /\ \A x \in Button \ {"CONNECT"} : control'[x] = control[x]
  BY <1>2, <1>4, <1>5, PutKeeps
<1>7. Held(control', mouse.under)
  BY <1>2, <1>4, <1>6 DEF Held
<1>8. Box(text', control')
  BY <1>1, <1>4, <1>6 DEF Box, canBeClicked
<1>9. Typed'
  BY <1>1 DEF IInv, Typed
<1> QED  BY <1>1, <1>6, <1>7, <1>8, <1>9 DEF IInv, Joins

\* A symbol more.
LEMMA TextEnteredKeeps ==
  ASSUME IInv, TextEntered
  PROVE  IInv'
<1>1. PICK c \in Symbols : edited(Append(text, c))
  BY DEF TextEntered
<1>2. c \in Symbol /\ text \in Seq(Symbol) /\ Len(text) < MaxSize
  BY MenuAssumption DEF IInv, Typed, TextEntered, Symbol
<1>3. Append(text, c) \in Seq(Symbol) /\ Len(Append(text, c)) = Len(text) + 1
  BY <1>2, AppendProperties
<1>4. Len(Append(text, c)) <= MaxSize
  BY <1>2, <1>3, PartsAssumption, LenProperties DEF MaxSize
<1> QED  BY <1>1, <1>3, <1>4, EditedKeeps

\* One symbol less, or none left.
LEMMA BackspaceKeeps ==
  ASSUME IInv, Backspace
  PROVE  IInv'
<1>1. text \in Seq(Symbol) /\ Len(text) <= MaxSize
  BY DEF IInv, Typed
<1>2. << >> \in Seq(Symbol) /\ Len(<< >>) <= MaxSize
  BY PartsAssumption DEF MaxSize
<1>3. CASE edited(<< >>)
  BY <1>2, <1>3, EditedKeeps
<1>4. CASE edited(IF text = << >> THEN text ELSE Front(text))
  <2>1. CASE text = << >>
    <3>1. edited(text)  BY <1>4, <2>1
    <3> QED  BY <1>1, <3>1, EditedKeeps
  <2>2. CASE text # << >>
    <3>1. edited(Front(text))  BY <1>4, <2>2
    <3>2. Front(text) \in Seq(Symbol) /\ Len(Front(text)) = Len(text) - 1
      <4>1. Len(text) \in Nat /\ Len(text) >= 1
        BY <1>1, <2>2, EmptySeq, LenProperties
      <4>2. Front(text) = SubSeq(text, 1, Len(text) - 1)
        BY DEF Front
      <4>. DEFINE n == Len(text) - 1
      <4>3. n \in Nat /\ \A i \in 1..n : text[i] \in Symbol
        BY <1>1, <4>1, ElementOfSeq
      <4>. HIDE DEF n
      <4>4. SubSeq(text, 1, n) \in Seq(Symbol) /\ Len(SubSeq(text, 1, n)) = n
        BY <4>3, SubSeqProperties
      <4> QED  BY <4>2, <4>4 DEF n
    <3>3. Len(Front(text)) <= MaxSize
      BY <1>1, <3>2, PartsAssumption, LenProperties DEF MaxSize
    <3> QED  BY <3>1, <3>2, <3>3, EditedKeeps
  <2> QED  BY <2>1, <2>2
<1> QED  BY <1>3, <1>4 DEF Backspace

\* The clipboard, when it holds nothing but digits and dots, and few enough.
LEMMA PasteKeeps ==
  ASSUME IInv, Paste
  PROVE  IInv'
<1>1. PICK clipboard \in Clipboards :
        /\ Len(text) + Len(clipboard) < MaxSize
        /\ \A i \in DOMAIN clipboard : clipboard[i] # Other
        /\ edited(text \o clipboard)
  BY DEF Paste
<1>2. clipboard \in Seq(Symbol)
  <2>1. clipboard \in Seq(0..Other)
    BY MenuAssumption
  <2>2. \A i \in 1..Len(clipboard) : clipboard[i] \in Symbol
    <3> SUFFICES ASSUME NEW i \in 1..Len(clipboard)  PROVE clipboard[i] \in Symbol
      OBVIOUS
    <3>1. clipboard[i] \in 0..Other /\ clipboard[i] # Other
      BY <1>1, <2>1, ElementOfSeq, LenProperties
    <3> QED  BY <3>1 DEF Symbol, Other, Dot
  <2> QED  BY <2>1, <2>2, SeqDef
<1>3. text \in Seq(Symbol)
  BY DEF IInv, Typed
<1>4. text \o clipboard \in Seq(Symbol) /\ Len(text \o clipboard) = Len(text) + Len(clipboard)
  BY <1>2, <1>3, ConcatProperties
<1>5. Len(text \o clipboard) <= MaxSize
  BY <1>1, <1>2, <1>3, <1>4, PartsAssumption, LenProperties DEF MaxSize
<1> QED  BY <1>1, <1>4, <1>5, EditedKeeps

\* Escape closes the dialog above, asks for one, or goes back.
LEMMA EscapeReleasedKeeps ==
  ASSUME IInv, EscapeReleased
  PROVE  IInv'
<1>1. UNCHANGED <<control, mouse>>
  BY DEF EscapeReleased, unaffected
<1>2. CASE dialogs' = dialogs \ {"Exit"} /\ UNCHANGED <<panel, text, events>>
  BY <1>1, <1>2, BelowShrinks DEF IInv, Typed, Joins
<1>3. CASE dialogs' = dialogs \ {"InputIpAddress"} /\ text' = << >> /\ UNCHANGED <<panel, events>>
  <2>1. 0 <= MaxSize
    BY PartsAssumption DEF MaxSize
  <2> QED  BY <1>1, <1>3, <2>1, BelowShrinks DEF IInv, Typed, Joins, Box
<1>4. CASE publish(asks.Exit) /\ UNCHANGED <<panel, dialogs, text>>
  <2>1. publish("ExitRequest")
    BY <1>4, DialogNames
  <2>2. events' \in Seq(Event) /\ Joins(events')
    BY <2>1, OtherKeeps
  <2> QED  BY <1>1, <1>4, <2>2 DEF IInv, Typed
<1>5. CASE panel' = "main" /\ UNCHANGED <<dialogs, text, events>>
  BY <1>1, <1>5 DEF IInv, Typed, Joins
<1> QED  BY <1>2, <1>3, <1>4, <1>5 DEF EscapeReleased

\* Enter answers the dialog above, as its button would.
LEMMA EnterKeeps ==
  ASSUME IInv, EnterPressed \/ EnterReleased
  PROVE  IInv'
<1>1. UNCHANGED <<control, mouse, panel, dialogs, text>>
  BY DEF EnterPressed, EnterReleased, unaffected
<1>2. events' \in Seq(Event) /\ Joins(events')
  <2>1. CASE EnterPressed
    <3>1. publish("Exit")  BY <2>1, DialogNames DEF EnterPressed
    <3> QED  BY <3>1, OtherKeeps
  <2>2. CASE EnterReleased
    BY <2>2, JoinKeeps DEF EnterReleased
  <2> QED  BY <2>1, <2>2
<1> QED  BY <1>1, <1>2 DEF IInv, Typed

\* An event goes, and may show a dialog, which lets go of what is under the mouse.
LEMMA DispatchKeeps ==
  ASSUME IInv, Dispatch
  PROVE  IInv'
<1>. DEFINE type == Head(events).type
<1>1. events # << >> /\ events' = Tail(events) /\ UNCHANGED <<panel, text>>
  BY DEF Dispatch
<1>2. events' \in Seq(Event) /\ Joins(events')
  <2>1. events \in Seq(Event) /\ Joins(events)
    BY DEF IInv, Typed
  <2>2. /\ Tail(events) \in Seq(Event) /\ Len(Tail(events)) = Len(events) - 1
        /\ \A i \in 1..Len(Tail(events)) : Tail(events)[i] = events[i + 1]
    BY <1>1, <2>1, HeadTailProperties
  <2>3. Joins(Tail(events))
    <3>1. \A i \in 1..Len(Tail(events)) : i + 1 \in 1..Len(events)
      BY <2>1, <2>2, LenProperties
    <3> QED  BY <2>1, <2>2, <3>1 DEF Joins
  <2> QED  BY <1>1, <2>2, <2>3
<1>3. CASE UNCHANGED <<dialogs, control, mouse>>
  BY <1>1, <1>2, <1>3 DEF IInv, Typed
<1>4. CASE \E d \in Dialogs : showModalLayer(d)
  <2>1. PICK d \in Dialogs : showModalLayer(d)
    BY <1>4
  <2>2. /\ dialogs' = dialogs \cup {d} /\ mouse' = [mouse EXCEPT !.under = Nothing]
        /\ control' = IF mouse.under = Nothing THEN control
                      ELSE [control EXCEPT ![mouse.under] = resetInteractive(@)]
    BY <2>1 DEF showModalLayer
  <2>3. /\ mouse' \in [place : SUBSET Button, down : BOOLEAN, under : Button \cup {Nothing}]
        /\ mouse'.under = Nothing
    BY <2>2 DEF IInv, Typed
  <2>4. Sound(control) /\ Held(control, mouse.under) /\ mouse.under \in Button \cup {Nothing}
    BY DEF IInv, Typed
  <2>5. /\ Sound(control') /\ Held(control', Nothing)
        /\ control'["CONNECT"].click = control["CONNECT"].click
    <3>1. CASE mouse.under = Nothing
      BY <2>2, <2>4, <3>1
    <3>2. CASE mouse.under # Nothing
      <4>. DEFINE b == mouse.under
                  c == resetInteractive(control[b])
      <4>1. b \in Button /\ control[b] \in Control /\ Locked(b, control[b])
        BY <2>4, <3>2 DEF Sound
      <4>2. c \in Control /\ Locked(b, c) /\ c.click = control[b].click /\ ~c.hovered /\ ~c.pressed
        BY <4>1, ResetKeeps
      <4>3. control' = put(control, b, c)
        BY <2>2, <3>2 DEF put
      <4>. HIDE DEF c
      <4>4. /\ Sound(control') /\ control'[b] = c /\ \A x \in Button \ {b} : control'[x] = control[x]
            /\ control'["CONNECT"].click = control["CONNECT"].click
        BY <2>4, <4>1, <4>2, <4>3, PutKeeps
      <4> QED  BY <2>4, <4>2, <4>4 DEF Held
    <3> QED  BY <3>1, <3>2
  <2>6. Nothing \notin below(dialogs')
    BY ButtonNames DEF below, Nothing
  <2>7. Box(text, control')
    BY <2>5, BoxKept DEF IInv
  <2>8. dialogs' \subseteq Dialogs
    BY <2>2 DEF IInv, Typed
  <2> QED  BY <1>1, <1>2, <2>3, <2>5, <2>6, <2>7, <2>8 DEF IInv, Typed
<1> QED  BY <1>3, <1>4 DEF Dispatch

\* Every step of the menu keeps the invariant.
LEMMA StepKeeps == IInv /\ [Next]_vars => IInv'
<1> SUFFICES ASSUME IInv, [Next]_vars  PROVE IInv'
  OBVIOUS
<1>1. CASE MouseInputUpdate  BY <1>1, MouseInputUpdateKeeps
<1>2. CASE MousePressed  BY <1>2, MousePressedKeeps
<1>3. CASE MouseReleased  BY <1>3, MouseReleasedKeeps
<1>4. CASE TextEntered  BY <1>4, TextEnteredKeeps
<1>5. CASE Backspace  BY <1>5, BackspaceKeeps
<1>6. CASE Paste  BY <1>6, PasteKeeps
<1>7. CASE EscapeReleased  BY <1>7, EscapeReleasedKeeps
<1>8. CASE EnterPressed \/ EnterReleased  BY <1>8, EnterKeeps
<1>9. CASE Dispatch  BY <1>9, DispatchKeeps
<1>10. CASE EndOfInput \/ EndOfFrame \/ UNCHANGED vars
  BY <1>10 DEF EndOfInput, EndOfFrame, vars, IInv, Typed, Joins
<1> QED  BY <1>1, <1>2, <1>3, <1>4, <1>5, <1>6, <1>7, <1>8, <1>9, <1>10 DEF Next, User, Frame

\* The inductive invariant holds in every state.
THEOREM AlwaysIInv == Spec => []IInv
BY InitHolds, StepKeeps, PTL DEF Spec

(***************************************************************************)
(* While a dialog is shown nothing below it is pointed at or held down,    *)
(* CONNECT can be used just when the box holds an address, and what is     *)
(* asked of the game carries one.                                          *)
(***************************************************************************)
THEOREM DialogsStayConsistent == Spec => []DialogsConsistent
<1>1. IInv => DialogsConsistent
  <2> SUFFICES ASSUME IInv  PROVE DialogsConsistent
    OBVIOUS
  <2>1. TypeOK
    <3>1. \A i \in DOMAIN text : text[i] \in Symbol
      BY ElementOfSeq DEF IInv, Typed
    <3>2. \A i \in DOMAIN text : isDigit(text[i]) \/ text[i] = Dot
      BY <3>1 DEF isDigit, Symbol, Dot
    <3>3. control \in [Button -> Control] /\ mouse.under \in Button \cup {Nothing}
      BY DEF IInv, Typed, Sound
    <3> QED  BY <3>2, <3>3 DEF IInv, Typed, TypeOK
  <2>2. NothingHeldBelow
    <3> SUFFICES ASSUME dialogs # {}, NEW b \in Button,
                        b \in buttonsOf[panel] \/ ("Exit" \in dialogs /\ b \in buttonsOf.InputIpAddress)
                 PROVE  b # mouse.under /\ ~control[b].hovered /\ ~control[b].pressed
      BY DEF NothingHeldBelow
    <3>1. b \in below(dialogs)
      BY DEF below, IInv, Typed
    <3>2. b # mouse.under /\ Held(control, mouse.under)
      BY <3>1 DEF IInv
    <3> QED  BY <3>2 DEF Held
  <2>3. ConnectFollowsText
    <3>1. "CONNECT" \in Button
      BY ButtonNames
    <3>2. Locked("CONNECT", control["CONNECT"])
      BY <3>1 DEF IInv, Sound
    <3> QED  BY <3>2 DEF IInv, Box, Locked, ConnectFollowsText
  <2>4. JoinsCarryAddresses
    BY DEF IInv, Joins, JoinsCarryAddresses
  <2> QED  BY <2>1, <2>2, <2>3, <2>4 DEF DialogsConsistent
<1> QED  BY <1>1, AlwaysIInv, PTL

-----------------------------------------------------------------------------
(* The refinement: what MenuPromise sees of the menu. *)

typesOf(evs) == [i \in DOMAIN evs |-> evs[i].type]

\* The dialogs that were closed under the mouse.
leftOver(shown, under) == {d \in Dialogs \ shown : under \in buttonsOf[d]}

\* Whose answer the element under the mouse may still be.
LEMMA LeftOverNames ==
  ASSUME NEW shown, NEW under
  PROVE  /\ under \in {"YES", "NO"} /\ "Exit" \notin shown => "Exit" \in leftOver(shown, under)
         /\ under \in {"CONNECT", "CANCEL"} /\ "InputIpAddress" \notin shown
              => "InputIpAddress" \in leftOver(shown, under)
  BY ButtonNames DEF leftOver, Dialogs

\* Nothing is no button.
LEMMA NothingLeft ==
  ASSUME NEW shown
  PROVE  leftOver(shown, Nothing) = {}
<1> SUFFICES ASSUME NEW d \in Dialogs  PROVE Nothing \notin buttonsOf[d]
  BY DEF leftOver
<1>1. d = "Exit" \/ d = "InputIpAddress"
  BY DEF Dialogs
<1>2. Nothing \notin {"YES", "NO"} /\ Nothing \notin {"CONNECT", "CANCEL"}
  BY DEF Nothing
<1> QED  BY <1>1, <1>2, ButtonNames

\* The types of the events follow the queue.
LEMMA TypesAppend ==
  ASSUME NEW evs \in Seq(Event), NEW e
  PROVE  typesOf(Append(evs, e)) = Append(typesOf(evs), e.type)
<1>. DEFINE n == Len(evs)
            f == typesOf(evs)
            g == typesOf(Append(evs, e))
<1>1. n \in Nat /\ DOMAIN evs = 1..n
  BY LenProperties
<1>2. DOMAIN f = 1..n /\ DOMAIN g = 1..(n + 1)
  BY <1>1 DEF typesOf
<1>3. f \in Seq(Types) /\ Len(f) = n
  <2>1. \A i \in 1..n : evs[i].type \in Types
    <3>1. \A i \in 1..n : evs[i] \in Event
      BY ElementOfSeq
    <3> QED  BY <3>1 DEF Event
  <2>2. f \in [1..n -> Types]
    BY <1>1, <2>1 DEF typesOf
  <2> QED  BY <1>1, <2>2, LenProperties, SeqDef
<1>4. \A i \in 1..n : f[i] = evs[i].type /\ g[i] = evs[i].type
  BY <1>1 DEF typesOf
<1>5. g[n + 1] = e.type
  BY <1>1 DEF typesOf
<1> QED  BY SMT, <1>1, <1>2, <1>3, <1>4, <1>5 DEF typesOf

\* And go with it.
LEMMA TypesTail ==
  ASSUME NEW evs \in Seq(Event), evs # << >>
  PROVE  /\ typesOf(evs) # << >> /\ Head(typesOf(evs)) = Head(evs).type
         /\ typesOf(Tail(evs)) = Tail(typesOf(evs))
  BY SMT DEF typesOf

\* The steps of the promise, in the words of the menu.
Seen == UNCHANGED <<dialogs, events>> /\ mouse'.under = mouse.under

\* A step that changes neither the dialogs, the queue nor what is under the mouse.
LEMMA SeenStutters ==
  ASSUME Seen
  PROVE  UNCHANGED Promise!vars
BY DEF Seen, Promise!vars

\* An event that the menu may publish.
LEMMA PublishMaps ==
  ASSUME events \in Seq(Event), UNCHANGED dialogs, mouse'.under = mouse.under,
         NEW t \in menuEvents(dialogs, leftOver(dialogs, mouse.under)), NEW ip,
         events' = Append(events, [type |-> t, ip |-> ip])
  PROVE  Promise!Publish
<1>1. typesOf(events') = Append(typesOf(events), t)
  BY TypesAppend
<1>2. leftOver(dialogs', mouse'.under) \in SUBSET leftOver(dialogs, mouse.under)
  OBVIOUS
<1> QED
  BY <1>1, <1>2
  DEF Promise!Publish, Promise!menuEvents, Promise!answer, Promise!asks, Promise!topOf,
      menuEvents, answer, asks, topOf, leftOver, typesOf

\* The dialog above closes.
LEMMA CloseMaps ==
  ASSUME NEW d \in dialogs, d = topOf(dialogs), dialogs' = dialogs \ {d},
         mouse'.under = mouse.under, UNCHANGED events
  PROVE  Promise!Close
<1>1. leftOver(dialogs', mouse'.under) \subseteq leftOver(dialogs, mouse.under) \cup {d}
  BY DEF leftOver
<1> QED  BY <1>1 DEF Promise!Close, Promise!topOf, Promise!Dialogs, topOf, leftOver

\* The keys go to the dialog above, if there is one.
LEMMA KeysNames ==
  ASSUME Typed
  PROVE  /\ keysOf("menu") => dialogs = {}
         /\ keysOf("Exit") => "Exit" \in dialogs /\ topOf(dialogs) = "Exit"
         /\ keysOf("InputIpAddress") => /\ "InputIpAddress" \in dialogs
                                        /\ topOf(dialogs) = "InputIpAddress"
  BY DEF keysOf, topOf, Typed, Dialogs

\* The mouse only forgets: it finds what is shown, or keeps what is held.
LEMMA MouseInputUpdateMaps ==
  ASSUME IInv, MouseInputUpdate
  PROVE  Promise!Forget \/ UNCHANGED Promise!vars
<1>1. UNCHANGED <<dialogs, events>>
  BY DEF MouseInputUpdate
<1>2. PICK place \in Places :
        \/ mouse' = [mouse EXCEPT !.place = place]
        \/ mouse' = [mouse EXCEPT !.place = place, !.under = findUnderMouseElement(place)]
  BY DEF MouseInputUpdate
<1>3. mouse \in [place : SUBSET Button, down : BOOLEAN, under : Button \cup {Nothing}]
  BY DEF IInv, Typed
<1>4. CASE mouse' = [mouse EXCEPT !.place = place]
  <2>1. mouse'.under = mouse.under
    BY <1>4
  <2> QED  BY <1>1, <2>1, SeenStutters DEF Seen
<1>5. CASE mouse' = [mouse EXCEPT !.place = place, !.under = findUnderMouseElement(place)]
  <2>1. mouse'.under \in shownButtons \cup {Nothing}
    BY <1>3, <1>5, FoundIsShown
  <2>2. leftOver(dialogs, mouse'.under) = {}
    <3>1. Dialogs = {"Exit", "InputIpAddress"} /\ dialogs \subseteq Dialogs
          /\ panel \in {"main", "choose"}
      BY DEF Dialogs, IInv, Typed
    <3>2. CASE dialogs = {}
      BY <2>1, <3>1, <3>2, ButtonNames DEF shownButtons, leftOver, Nothing
    <3>3. CASE dialogs # {}
      <4>1. topOf(dialogs) \in dialogs /\ shownButtons = buttonsOf[topOf(dialogs)]
        BY <3>1, <3>3 DEF topOf, shownButtons
      <4> QED  BY <2>1, <3>1, <4>1, ButtonNames DEF leftOver, Nothing
    <3> QED  BY <3>2, <3>3
  <2> QED  BY <1>1, <2>2 DEF Promise!Forget, Promise!Dialogs, leftOver
<1> QED  BY <1>2, <1>4, <1>5

\* A click publishes what its place allows, or closes the dialog above.
LEMMA ClickedMaps ==
  ASSUME IInv, mouse.under \in Button, mouse'.under = mouse.under, clicked(mouse.under)
  PROVE  Promise!Publish \/ Promise!Close \/ UNCHANGED Promise!vars
<1>. DEFINE b == mouse.under
            left == leftOver(dialogs, b)
<1>1. events \in Seq(Event) /\ dialogs \subseteq {"Exit", "InputIpAddress"} /\ b \notin below(dialogs)
  BY DEF IInv, Typed, Dialogs
<1>2. dialogs' = CASE b = "CANCEL" -> dialogs \ {"InputIpAddress"}
                   [] b = "NO"     -> dialogs \ {"Exit"}
                   [] OTHER        -> dialogs
  BY DEF clicked
<1>3. (CASE b = "EXIT"        -> publish(asks.Exit)
         [] b = "join game"   -> publish(asks.InputIpAddress)
         [] b = "create game" -> publish("CreateGameRequest")
         [] b = "CONNECT"     -> joinGame
         [] b = "YES"         -> publish(answer.Exit)
         [] OTHER             -> UNCHANGED events)
  BY DEF clicked
<1>4. b \in {"EXIT", "join game", "create game"} => dialogs = {}
  BY <1>1, ButtonNames DEF below
<1>5. b \in {"CONNECT", "CANCEL"} => "Exit" \notin dialogs
  BY <1>1, ButtonNames DEF below
<1>6. ASSUME b \in {"EXIT", "join game", "create game"}  PROVE Promise!Publish
  <2>1. PICK t \in {asks.Exit, asks.InputIpAddress, "CreateGameRequest"} : publish(t)
    BY <1>3, <1>6
  <2>2. t \in menuEvents(dialogs, left) /\ dialogs' = dialogs
    BY <1>2, <1>4, <1>6 DEF menuEvents
  <2>3. events' = Append(events, [type |-> t, ip |-> << >>])
    BY <2>1 DEF publish
  <2> QED  BY <1>1, <2>2, <2>3, PublishMaps
<1>7. ASSUME b = "CONNECT"  PROVE Promise!Publish
  <2>1. events' = Append(events, [type |-> answer.InputIpAddress, ip |-> text]) /\ dialogs' = dialogs
    BY <1>2, <1>3, <1>7 DEF joinGame
  <2>2. answer.InputIpAddress \in menuEvents(dialogs, left)
    <3>1. CASE "InputIpAddress" \in dialogs
      BY <1>5, <1>7, <3>1 DEF menuEvents, topOf
    <3>2. CASE "InputIpAddress" \notin dialogs
      <4>1. "InputIpAddress" \in left  BY <1>7, <3>2, LeftOverNames
      <4> QED  BY <4>1 DEF menuEvents
    <3> QED  BY <3>1, <3>2
  <2> QED  BY <1>1, <2>1, <2>2, PublishMaps
<1>8. ASSUME b = "YES"  PROVE Promise!Publish
  <2>1. events' = Append(events, [type |-> answer.Exit, ip |-> << >>]) /\ dialogs' = dialogs
    BY <1>2, <1>3, <1>8 DEF publish
  <2>2. answer.Exit \in menuEvents(dialogs, left)
    <3>1. CASE "Exit" \in dialogs
      BY <3>1 DEF menuEvents, topOf
    <3>2. CASE "Exit" \notin dialogs
      <4>1. "Exit" \in left  BY <1>8, <3>2, LeftOverNames
      <4> QED  BY <4>1 DEF menuEvents
    <3> QED  BY <3>1, <3>2
  <2> QED  BY <1>1, <2>1, <2>2, PublishMaps
<1>9. ASSUME b \in {"CANCEL", "NO"}  PROVE Promise!Close \/ UNCHANGED Promise!vars
  <2>1. PICK d \in {"Exit", "InputIpAddress"} :
          /\ dialogs' = dialogs \ {d}
          /\ d \in dialogs => d = topOf(dialogs)
    BY <1>2, <1>5, <1>9 DEF topOf
  <2>2. UNCHANGED events
    BY <1>3, <1>9
  <2>3. CASE d \in dialogs
    BY <2>1, <2>2, <2>3, CloseMaps
  <2>4. CASE d \notin dialogs
    <3>1. dialogs' = dialogs  BY <2>1, <2>4
    <3> QED  BY <2>2, <3>1, SeenStutters DEF Seen
  <2> QED  BY <2>3, <2>4
<1>10. ASSUME b \in {"PLAY", "SETTINGS", "back"}  PROVE UNCHANGED Promise!vars
  <2>1. dialogs' = dialogs /\ UNCHANGED events
    BY <1>2, <1>3, <1>10
  <2> QED  BY <2>1, SeenStutters DEF Seen
<1>11. b \in {"EXIT", "join game", "create game", "CONNECT", "YES", "CANCEL", "NO",
              "PLAY", "SETTINGS", "back"}
  BY ButtonNames
<1> QED  BY <1>6, <1>7, <1>8, <1>9, <1>10, <1>11

\* The button of the mouse.
LEMMA MouseMaps ==
  ASSUME IInv, MousePressed \/ MouseReleased
  PROVE  Promise!Publish \/ Promise!Close \/ UNCHANGED Promise!vars
<1>1. mouse'.under = mouse.under
  <2>1. mouse \in [place : SUBSET Button, down : BOOLEAN, under : Button \cup {Nothing}]
    BY DEF IInv, Typed
  <2>2. \E v \in BOOLEAN : mouse' = [mouse EXCEPT !.down = v]
    BY DEF MousePressed, MouseReleased
  <2> QED  BY <2>1, <2>2
<1>2. CASE UNCHANGED <<dialogs, events>>
  BY <1>1, <1>2, SeenStutters DEF Seen
<1>3. CASE usable(mouse.under) /\ clicked(mouse.under)
  <2>1. mouse.under \in Button
    BY <1>3 DEF usable, IInv, Typed
  <2> QED  BY <1>1, <1>3, <2>1, ClickedMaps
<1> QED  BY <1>2, <1>3 DEF MousePressed, MouseReleased

\* The keyboard: Enter answers the dialog above, Escape closes it.
LEMMA KeysMap ==
  ASSUME IInv, TextEntered \/ Backspace \/ Paste \/ EscapeReleased \/ EnterPressed \/ EnterReleased
  PROVE  Promise!Publish \/ Promise!Close \/ UNCHANGED Promise!vars
<1>1. UNCHANGED mouse /\ Typed /\ events \in Seq(Event)
  BY DEF TextEntered, Backspace, Paste, EscapeReleased, EnterPressed, EnterReleased,
         edited, unaffected, IInv, Typed
<1>2. CASE TextEntered \/ Backspace \/ Paste
  BY <1>2, SeenStutters DEF TextEntered, Backspace, Paste, edited, Seen
<1>3. CASE EscapeReleased
  <2>1. CASE \E d \in {"Exit", "InputIpAddress"} :
               keysOf(d) /\ dialogs' = dialogs \ {d} /\ UNCHANGED events
    BY <1>1, <2>1, KeysNames, CloseMaps
  <2>2. CASE keysOf("menu") /\ publish(asks.Exit) /\ UNCHANGED dialogs
    <3>1. asks.Exit \in menuEvents(dialogs, leftOver(dialogs, mouse.under))
      BY <1>1, <2>2, KeysNames DEF menuEvents
    <3>2. events' = Append(events, [type |-> asks.Exit, ip |-> << >>])
      BY <2>2 DEF publish
    <3> QED  BY <1>1, <2>2, <3>1, <3>2, PublishMaps
  <2>3. CASE UNCHANGED <<dialogs, events>>
    BY <1>1, <2>3, SeenStutters DEF Seen
  <2> QED  BY <1>3, <2>1, <2>2, <2>3 DEF EscapeReleased
<1>4. CASE EnterPressed
  <2>1. answer.Exit \in menuEvents(dialogs, leftOver(dialogs, mouse.under))
    BY <1>1, <1>4, KeysNames DEF menuEvents, EnterPressed
  <2>2. events' = Append(events, [type |-> answer.Exit, ip |-> << >>]) /\ UNCHANGED dialogs
    BY <1>4 DEF EnterPressed, publish
  <2> QED  BY <1>1, <2>1, <2>2, PublishMaps
<1>5. CASE EnterReleased
  <2>1. answer.InputIpAddress \in menuEvents(dialogs, leftOver(dialogs, mouse.under))
    BY <1>1, <1>5, KeysNames DEF menuEvents, EnterReleased
  <2>2. events' = Append(events, [type |-> answer.InputIpAddress, ip |-> text]) /\ UNCHANGED dialogs
    BY <1>5 DEF EnterReleased, joinGame
  <2> QED  BY <1>1, <2>1, <2>2, PublishMaps
<1> QED  BY <1>2, <1>3, <1>4, <1>5

\* An event is handled: the dialog it asks for is shown, and what was held is let go of.
LEMMA DispatchMaps ==
  ASSUME IInv, Dispatch
  PROVE  Promise!Dispatch
<1>. DEFINE type == Head(events).type
            asked == {d \in Dialogs : asks[d] = type}
<1>1. events # << >> /\ events' = Tail(events) /\ events \in Seq(Event)
  BY DEF Dispatch, IInv, Typed
<1>2. /\ typesOf(events) # << >> /\ Head(typesOf(events)) = type
      /\ typesOf(events') = Tail(typesOf(events))
  BY <1>1, TypesTail
<1>3. /\ dialogs' = dialogs \cup asked
      /\ leftOver(dialogs', mouse'.under) \in IF asked # {} THEN {{}}
                                              ELSE SUBSET leftOver(dialogs, mouse.under)
  <2>1. CASE asked = {}
    <3>1. UNCHANGED <<dialogs, mouse>>
      BY <2>1 DEF Dispatch
    <3> QED  BY <2>1, <3>1
  <2>2. CASE asked # {}
    <3>1. PICK d \in Dialogs : asks[d] = type /\ showModalLayer(d)
      BY <2>2 DEF Dispatch
    <3>2. asked = {d}
      BY <3>1, DialogNames DEF Dialogs
    <3>3. dialogs' = dialogs \cup {d} /\ mouse' = [mouse EXCEPT !.under = Nothing]
      BY <3>1 DEF showModalLayer
    <3>4. mouse'.under = Nothing
      BY <3>3 DEF IInv, Typed
    <3>5. leftOver(dialogs', Nothing) = {}
      BY NothingLeft
    <3> QED  BY <2>2, <3>2, <3>3, <3>4, <3>5
  <2> QED  BY <2>1, <2>2
<1> QED
  BY <1>2, <1>3 DEF Promise!Dispatch, Promise!Dialogs, Promise!asks, Dialogs, asks, leftOver, typesOf

\* Every step of the menu is one of the promise or none.
LEMMA StepMaps == IInv /\ [Next]_vars => [Promise!Next]_Promise!vars
<1> SUFFICES ASSUME IInv, [Next]_vars  PROVE Promise!Next \/ UNCHANGED Promise!vars
  OBVIOUS
<1>1. CASE MouseInputUpdate  BY <1>1, MouseInputUpdateMaps DEF Promise!Next
<1>2. CASE MousePressed \/ MouseReleased  BY <1>2, MouseMaps DEF Promise!Next
<1>3. CASE TextEntered \/ Backspace \/ Paste \/ EscapeReleased \/ EnterPressed \/ EnterReleased
  BY <1>3, KeysMap DEF Promise!Next
<1>4. CASE Dispatch  BY <1>4, DispatchMaps DEF Promise!Next
<1>5. CASE EndOfInput \/ EndOfFrame \/ UNCHANGED vars
  BY <1>5, SeenStutters DEF EndOfInput, EndOfFrame, vars, Seen
<1> QED  BY <1>1, <1>2, <1>3, <1>4, <1>5 DEF Next, User, Frame

(***************************************************************************)
(* TestMenuScene implements MenuPromise: no game is joined and the window  *)
(* does not close without the dialog that asks for it, and nothing below a *)
(* dialog, creating a game included, is asked for while it is shown,       *)
(* whatever the user does.                                                 *)
(***************************************************************************)
THEOREM MenuKeepsPromise == Spec => PromiseKept
<1>1. Init => Promise!Init
  <2> SUFFICES ASSUME Init  PROVE Promise!Init
    OBVIOUS
  <2>1. dialogs = {} /\ events = << >> /\ mouse.under = Nothing
    BY DEF Init
  <2>2. leftOver(dialogs, mouse.under) = {}
    BY <2>1, NothingLeft
  <2>3. typesOf(events) = << >>
    BY <2>1 DEF typesOf
  <2> QED  BY <2>1, <2>2, <2>3 DEF Promise!Init, Promise!Dialogs, leftOver, typesOf
<1> QED  BY <1>1, AlwaysIInv, StepMaps, PTL DEF Spec, PromiseKept, Promise!Spec

=============================================================================
