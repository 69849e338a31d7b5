------------------------------ MODULE UIInteractive ------------------------------
(***************************************************************************)
(* The interaction state of one control: UIInteractive without its         *)
(* callbacks, which belong to whoever sets them.  A control is             *)
(*   hovered, pressed, dragged, disabled : its flags,                      *)
(*   hover, press, click, drag           : its counted locks.              *)
(***************************************************************************)
EXTENDS Integers

Control == [hovered : BOOLEAN, pressed : BOOLEAN, dragged : BOOLEAN, disabled : BOOLEAN,
            hover : Nat, press : Nat, click : Nat, drag : Nat]

(***************************************************************************)
(* A new control.  Nobody gives the flags hovered, pressed and dragged a   *)
(* first value, so each is what the memory held.                           *)
(***************************************************************************)
newControl(garbage) ==
  [hovered |-> garbage.hovered, pressed |-> garbage.pressed, dragged |-> garbage.dragged,
   disabled |-> FALSE, hover |-> 0, press |-> 0, click |-> 0, drag |-> 1]

setHovered(c, value) ==
  IF c.hover = 0 /\ ~c.disabled THEN [c EXCEPT !.hovered = value] ELSE c

setPressed(c, value) ==
  IF c.press = 0 /\ ~c.disabled THEN [c EXCEPT !.pressed = value] ELSE c

setDragged(c, value) ==
  IF c.drag = 0 /\ ~c.disabled THEN [c EXCEPT !.dragged = value] ELSE c

blockHover(c) == [setHovered(c, FALSE) EXCEPT !.hover = @ + 1]
\* For a control that is not captured; another one is released first.
blockPress(c) == [setPressed(c, FALSE) EXCEPT !.press = @ + 1]
blockClick(c) == [c EXCEPT !.click = @ + 1]
blockDrag(c)  == [setDragged(c, FALSE) EXCEPT !.drag = @ + 1]

blockInteraction(c) ==
  [blockDrag(blockClick(blockPress(blockHover(c)))) EXCEPT !.disabled = TRUE]

unlocked(n) == IF n > 0 THEN n - 1 ELSE 0

unblockDrag(c) == [c EXCEPT !.drag = unlocked(@)]

\* Mutant of unblockInteraction: the press stays blocked.
unblockButPress(c) ==
  [c EXCEPT !.hover = unlocked(@), !.click = unlocked(@), !.drag = unlocked(@), !.disabled = FALSE]

unblockInteraction(c) ==
  [c EXCEPT !.hover = unlocked(@), !.press = unlocked(@), !.click = unlocked(@),
            !.drag = unlocked(@), !.disabled = FALSE]

canBePressed(c) == c.press = 0
canBeClicked(c) == c.click = 0

\* What the end of a capture does before the control's own callback.
captureEnded(c) == setDragged(setPressed(c, FALSE), FALSE)

resetInteractive(c) == setDragged(setPressed(setHovered(c, FALSE), FALSE), FALSE)

=============================================================================
