------------------------------- MODULE MenuScene -------------------------------
(***************************************************************************)
(* The menu: TestMenuScene with its three layers (MainMenuLayer with two   *)
(* panels, InputIpAddressLayer and ExitConfirmationLayer, both modal), as  *)
(* IScene hands them the mouse and the keyboard, in frames.                *)
(*                                                                         *)
(* A place of the mouse is the set of the buttons that lie there, of all   *)
(* panels and layers, one of each at most.  Nothing in the menu captures   *)
(* the input, and the mouse stays in the window (LobbyScreen has the case  *)
(* that it leaves it).                                                     *)
(***************************************************************************)
EXTENDS Menu, NetworkUtils, UIInteractive

CONSTANTS
  Places,       \* where the mouse goes
  Symbols,      \* what the user types
  Clipboards,   \* what may be in the clipboard
  MaxInputs     \* bound on the inputs of a frame

VARIABLES
  panel,      \* the visible panel of MainMenuLayer
  dialogs,    \* the visible modal layers
  text,       \* m_ipBox's string
  control,    \* the interaction state of every button
  mouse,      \* its place, whether its button is down, m_underMouseElement
  events,     \* the event system's queue
  phase,      \* where the frame is
  isOpen,     \* the window
  inputs      \* the inputs of this frame

vars == <<panel, dialogs, text, control, mouse, events, phase, isOpen, inputs>>

buttonsOf ==
  [main |-> {"PLAY", "SETTINGS", "EXIT"}, choose |-> {"create game", "join game", "back"},
   InputIpAddress |-> {"CONNECT", "CANCEL"}, Exit |-> {"YES", "NO"}]

Button  == UNION {buttonsOf[x] : x \in DOMAIN buttonsOf}
Nothing == "nothing"      \* nullptr

\* The box takes digits and dots; in the clipboard there may be anything.
ASSUME MenuAssumption ==
  /\ Places \subseteq SUBSET Button
  /\ Symbols \subseteq 0..Dot
  /\ \A clipboard \in Clipboards : clipboard \in Seq(0..Other)

shownButtons == buttonsOf[IF dialogs = {} THEN panel ELSE topOf(dialogs)]

\* The flags that nobody initialises are off here.
fresh == newControl([hovered |-> FALSE, pressed |-> FALSE, dragged |-> FALSE])

Init ==
  /\ panel = "main" /\ dialogs = {} /\ text = << >>
  /\ control = [b \in Button |-> IF b = "CONNECT" THEN blockInteraction(fresh) ELSE fresh]
  /\ mouse = [place |-> {}, down |-> FALSE, under |-> Nothing]
  /\ events = << >> /\ phase = "receive" /\ isOpen = TRUE /\ inputs = 0

-----------------------------------------------------------------------------
(* The mouse *)

findUnderMouseElement(place) ==
  LET there == place \cap shownButtons
  IN  IF there = {} THEN Nothing ELSE CHOOSE b \in there : TRUE

hovering(C, b, value) ==
  IF b = Nothing THEN C ELSE [C EXCEPT ![b] = setHovered(@, value)]

\* mouseInputUpdate: what is held down stays under the mouse, wherever that goes.
MouseInputUpdate ==
  /\ phase = "receive" /\ phase' = "input"
  /\ \E place \in Places :
       IF mouse.under # Nothing /\ control[mouse.under].pressed
       THEN mouse' = [mouse EXCEPT !.place = place] /\ UNCHANGED control
       ELSE LET b == findUnderMouseElement(place)
            IN  /\ mouse' = [mouse EXCEPT !.place = place, !.under = b]
                /\ control' = IF b = mouse.under THEN hovering(control, b, TRUE)
                              ELSE hovering(hovering(control, mouse.under, FALSE), b, TRUE)
  /\ UNCHANGED <<panel, dialogs, text, events, isOpen, inputs>>

handlesInput ==
  /\ phase = "input" /\ inputs < MaxInputs
  /\ inputs' = inputs + 1
  /\ UNCHANGED <<phase, isOpen>>

usable(b) == b # Nothing /\ canBePressed(control[b])

MousePressed ==
  /\ handlesInput /\ ~mouse.down
  /\ mouse' = [mouse EXCEPT !.down = TRUE]
  /\ control' = IF usable(mouse.under) THEN [control EXCEPT ![mouse.under] = setPressed(@, TRUE)]
                ELSE control
  /\ UNCHANGED <<panel, dialogs, text, events>>

publish(t) == events' = Append(events, [type |-> t, ip |-> << >>])
joinGame   == events' = Append(events, [type |-> answer.InputIpAddress, ip |-> text])

\* The callbacks of the clicks.
clicked(b) ==
  /\ panel' = CASE b = "PLAY" -> "choose" [] b = "back" -> "main" [] OTHER -> panel
  /\ dialogs' = CASE b = "CANCEL" -> dialogs \ {"InputIpAddress"}
                  [] b = "NO"     -> dialogs \ {"Exit"}
                  [] OTHER        -> dialogs
  /\ text' = IF b = "CANCEL" THEN << >> ELSE text
  /\ CASE b = "EXIT"        -> publish(asks.Exit)
       [] b = "join game"   -> publish(asks.InputIpAddress)
       [] b = "create game" -> publish("CreateGameRequest")
       [] b = "CONNECT"     -> joinGame
       [] b = "YES"         -> publish(answer.Exit)
       [] OTHER             -> UNCHANGED events

\* UIInteractive::onMouseUp: a click needs the press before it and the mouse over the button.
MouseReleased ==
  /\ handlesInput /\ mouse.down
  /\ mouse' = [mouse EXCEPT !.down = FALSE]
  /\ LET b == mouse.under
         isClick == control[b].pressed /\ b \in mouse.place /\ canBeClicked(control[b])
     IN  /\ control' = IF usable(b) THEN [control EXCEPT ![b] = setPressed(@, FALSE)] ELSE control
         /\ IF usable(b) /\ isClick THEN clicked(b) ELSE UNCHANGED <<panel, dialogs, text, events>>

-----------------------------------------------------------------------------
(* The keyboard: a visible modal layer keeps from those below what it does not use. *)

\* Mutant of keysOf: every visible layer gets the keys.
keysOfVisible(layer) == layer \in dialogs \cup {"menu"}

keysOf(layer) == layer = IF dialogs = {} THEN "menu" ELSE topOf(dialogs)

updateIPBox(c, string) ==
  CASE isValidIP(string) /\ ~canBeClicked(c) -> unblockInteraction(c)
    [] ~isValidIP(string) /\ canBeClicked(c) -> blockInteraction(c)
    [] OTHER -> c

edited(string) ==
  /\ text' = string
  /\ control' = [control EXCEPT !["CONNECT"] = updateIPBox(@, string)]
  /\ UNCHANGED <<panel, dialogs, mouse, events>>

TextEntered ==
  /\ handlesInput /\ keysOf("InputIpAddress") /\ Len(text) < MaxSize
  /\ \E c \in Symbols : edited(Append(text, c))

\* With and without the control key.
Backspace ==
  /\ handlesInput /\ keysOf("InputIpAddress")
  /\ \/ edited(<< >>)
     \/ edited(IF text = << >> THEN text ELSE Front(text))

Paste ==
  /\ handlesInput /\ keysOf("InputIpAddress")
  /\ \E clipboard \in Clipboards :
       /\ Len(text) + Len(clipboard) < MaxSize
       /\ \A i \in DOMAIN clipboard : clipboard[i] # Other
       /\ edited(text \o clipboard)

unaffected == UNCHANGED <<control, mouse>>

EscapeReleased ==
  /\ handlesInput /\ unaffected
  /\ \/ /\ keysOf("Exit")
        /\ dialogs' = dialogs \ {"Exit"} /\ UNCHANGED <<panel, text, events>>
     \/ /\ keysOf("InputIpAddress")
        /\ dialogs' = dialogs \ {"InputIpAddress"} /\ text' = << >> /\ UNCHANGED <<panel, events>>
     \/ /\ keysOf("menu") /\ panel = "main"
        /\ publish(asks.Exit) /\ UNCHANGED <<panel, dialogs, text>>
     \/ /\ keysOf("menu") /\ panel = "choose"
        /\ panel' = "main" /\ UNCHANGED <<dialogs, text, events>>

EnterPressed ==
  /\ handlesInput /\ unaffected /\ keysOf("Exit")
  /\ publish(answer.Exit) /\ UNCHANGED <<panel, dialogs, text>>

EnterReleased ==
  /\ handlesInput /\ unaffected /\ keysOf("InputIpAddress") /\ canBeClicked(control["CONNECT"])
  /\ joinGame /\ UNCHANGED <<panel, dialogs, text>>

EndOfInput ==
  /\ phase = "input" /\ phase' = "dispatch" /\ inputs' = 0
  /\ UNCHANGED <<panel, dialogs, text, control, mouse, events, isOpen>>

-----------------------------------------------------------------------------
(* dispatchEvents: the scene's handlers, and Game's *)

\* Mutant of showModalLayer: what is under the mouse stays there.
showModalLayerOnly(d) ==
  /\ dialogs' = dialogs \cup {d}
  /\ UNCHANGED <<control, mouse>>

showModalLayer(d) ==
  /\ dialogs' = dialogs \cup {d}
  /\ mouse' = [mouse EXCEPT !.under = Nothing]
  /\ control' = IF mouse.under = Nothing THEN control
                ELSE [control EXCEPT ![mouse.under] = resetInteractive(@)]

Dispatch ==
  /\ phase = "dispatch" /\ events # << >>
  /\ events' = Tail(events)
  /\ LET type == Head(events).type
     IN  /\ IF \E d \in Dialogs : asks[d] = type
            THEN \E d \in Dialogs : asks[d] = type /\ showModalLayer(d)
            ELSE UNCHANGED <<dialogs, control, mouse>>
         /\ isOpen' = (isOpen /\ type # answer.Exit)
  /\ UNCHANGED <<panel, text, phase, inputs>>

EndOfFrame ==
  /\ phase = "dispatch" /\ events = << >>
  /\ phase' = IF isOpen THEN "receive" ELSE "over"
  /\ UNCHANGED <<panel, dialogs, text, control, mouse, events, isOpen, inputs>>

User  == \/ MousePressed \/ MouseReleased \/ TextEntered \/ Backspace \/ Paste
         \/ EscapeReleased \/ EnterPressed \/ EnterReleased
Frame == MouseInputUpdate \/ EndOfInput \/ Dispatch \/ EndOfFrame
Next  == User \/ Frame

Spec == Init /\ [][Next]_vars

-----------------------------------------------------------------------------
TypeOK ==
  /\ panel \in {"main", "choose"} /\ dialogs \subseteq Dialogs
  /\ control \in [Button -> Control]
  /\ mouse.under \in Button \cup {Nothing}
  /\ Len(text) <= MaxSize /\ \A i \in DOMAIN text : isDigit(text[i]) \/ text[i] = Dot

\* A request to join a game carries a valid address, or nothing, when the
\* dialog was closed, which empties the box but leaves the button as it was:
\* whatever was typed, pasted or deleted between the press and the release.
JoinsCarryAddresses ==
  \A i \in DOMAIN events :
    events[i].type = "JoinGameRequest" => events[i].ip = << >> \/ isValidIP(events[i].ip)

\* The button is locked once or not at all, in all four ways or in none, and
\* as long as there is a text it is usable just when that is an address.
ConnectFollowsText ==
  LET c == control["CONNECT"]
  IN  /\ text # << >> => (canBeClicked(c) <=> isValidIP(text))
      /\ c.click \in {0, 1} /\ c.hover = c.click /\ c.press = c.click /\ c.drag = c.click + 1
      /\ c.disabled <=> c.click = 1
      /\ c.disabled => ~c.hovered /\ ~c.pressed

\* While a dialog is shown, nothing below it is pointed at or held down,
\* although it appears in the middle of what the mouse does.
NothingHeldBelow ==
  dialogs # {} => \A b \in Button :
    (b \in buttonsOf[panel] \/ ("Exit" \in dialogs /\ b \in buttonsOf.InputIpAddress))
      => b # mouse.under /\ ~control[b].hovered /\ ~control[b].pressed

\* Dialogs, the buttons below and above, the box and its button fit together.
DialogsConsistent ==
  TypeOK /\ NothingHeldBelow /\ ConnectFollowsText /\ JoinsCarryAddresses

\* TestMenuScene publishes what MenuPromise allows.
Promise == INSTANCE MenuPromise WITH
  closed <- {d \in Dialogs \ dialogs : mouse.under \in buttonsOf[d]},
  events <- [i \in DOMAIN events |-> events[i].type]
PromiseKept == Promise!Spec

=============================================================================
