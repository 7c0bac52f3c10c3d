------------------------------ MODULE BrowserInput ------------------------------
(***************************************************************************)
(* The controls of the browser client (apps/web_alpha/session_transport.js): *)
(* the keyboard, the action buttons and the movement stick, and what is held *)
(* because of them, in the page and at the server.                           *)
(*                                                                          *)
(* One action that can be held has the key "b" and a button; movement has    *)
(* the key "w" and the stick, and only whether there is any.  Frames reach   *)
(* the server at once (BrowserPlay has them on their way); a fallen player   *)
(* respawns some time after its page has shown the fall, the least time of   *)
(* a wave being two seconds.                                                 *)
(***************************************************************************)
EXTENDS Integers

VARIABLES iKeys,     \* the keys that are down
          iFocus,    \* the window has the focus
          iButton,   \* activePointer of the action button
          iClick,    \* the 100 ms of a click by keyboard
          iStick,    \* pointerId of the stick
          iPush,     \* the vector of the stick is not zero
          iReady,    \* authoritativeReady
          iShown,    \* the page shows its player: alive or fallen
          iMoving,   \* heldMovementKeys has the key
          iHeld,     \* gameplayHeldActions has the action
          iMove,     \* gameplayMoveX and gameplayMoveZ are not both zero
          iServer,   \* what the server holds for the player, and whether it is alive
          iTraining, \* joinedRole: training, where a fall is not noticed
          iDropped   \* history: an end of movement could not be sent

iVars == <<iKeys, iFocus, iButton, iClick, iStick, iPush, iReady, iShown, iMoving, iHeld,
           iMove, iServer, iTraining, iDropped>>

Idle == [held |-> FALSE, move |-> FALSE, alive |-> TRUE]

InputInit ==
  /\ iKeys = {} /\ iFocus = TRUE /\ iButton = FALSE /\ iClick = FALSE /\ iStick = FALSE
  /\ iPush = FALSE /\ iReady = TRUE /\ iShown = "alive" /\ iMoving = FALSE
  /\ iHeld = FALSE /\ iMove = FALSE /\ iServer = Idle
  /\ iTraining \in BOOLEAN /\ iDropped = FALSE

-----------------------------------------------------------------------------
(* Sending. *)

CanSend == iReady /\ iShown = "alive"

\* sendGameplayInput: what is held and the movement of the page, the movement being set
\* only when it can be sent.  A fallen player's frames are cleared at the next tick.
SendHeld(held) ==
  /\ iHeld' = held
  /\ iServer' = IF CanSend /\ iServer.alive
                THEN [iServer EXCEPT !.held = held, !.move = iMove] ELSE iServer
  /\ UNCHANGED <<iMove, iDropped>>

SendMove(move) ==
  /\ iMove' = IF CanSend THEN move ELSE iMove
  /\ iServer' = IF CanSend /\ iServer.alive
                THEN [iServer EXCEPT !.held = iHeld, !.move = move] ELSE iServer
  /\ iDropped' = (iDropped \/ (~CanSend /\ iMove /\ ~move))
  /\ UNCHANGED iHeld

SendsNothing == UNCHANGED <<iHeld, iMove, iServer, iDropped>>

-----------------------------------------------------------------------------
(* The keyboard. *)

Devices == <<iFocus, iButton, iClick, iStick, iPush, iReady, iShown, iTraining>>

\* keydown, again and again while the key is down
KeyDown(key) ==
  /\ iFocus /\ iKeys' = iKeys \cup {key}
  /\ \/ key = "w" /\ iReady /\ ~iMoving /\ iMoving' = TRUE /\ SendMove(TRUE)
     \/ key = "b" /\ iReady /\ ~iHeld /\ SendHeld(TRUE) /\ UNCHANGED iMoving
     \/ /\ (key = "w" => ~iReady \/ iMoving) /\ (key = "b" => ~iReady \/ iHeld)
        /\ SendsNothing /\ UNCHANGED iMoving
  /\ UNCHANGED Devices

KeyUp(key) ==
  /\ iFocus /\ key \in iKeys /\ iKeys' = iKeys \ {key}
  /\ \/ key = "w" /\ iMoving /\ iMoving' = FALSE /\ SendMove(FALSE)
     \/ key = "b" /\ iHeld /\ SendHeld(FALSE) /\ UNCHANGED iMoving
     \/ /\ (key = "w" => ~iMoving) /\ (key = "b" => ~iHeld)
        /\ SendsNothing /\ UNCHANGED iMoving
  /\ UNCHANGED Devices

\* Mutant: the window's blur forgets the movement only.
BlurredMovement ==
  IF iMoving THEN SendMove(FALSE) ELSE SendsNothing

\* The movement is sent first, then what is held.
BlurredAll ==
  IF iMoving \/ iHeld
  THEN /\ iHeld' = FALSE
       /\ iMove' = IF CanSend THEN FALSE ELSE iMove
       /\ iServer' = IF CanSend /\ iServer.alive
                     THEN [iServer EXCEPT !.held = FALSE, !.move = FALSE] ELSE iServer
       /\ iDropped' = (iDropped \/ (~CanSend /\ iMove))
  ELSE SendsNothing

\* blur; keys that go up before the focus is back are not heard of
Blur ==
  /\ iFocus /\ iFocus' = FALSE /\ iMoving' = FALSE /\ BlurredAll
  /\ UNCHANGED <<iKeys, iButton, iClick, iStick, iPush, iReady, iShown, iTraining>>
Focus ==
  /\ ~iFocus /\ iFocus' = TRUE /\ iKeys' \in SUBSET iKeys
  /\ SendsNothing
  /\ UNCHANGED <<iButton, iClick, iStick, iPush, iReady, iShown, iMoving, iTraining>>

-----------------------------------------------------------------------------
(* The action button and the stick. *)

Keyboard == <<iKeys, iFocus, iReady, iShown, iMoving, iTraining>>

\* down: gameplayHeldActions, sent if that is possible
ButtonDown ==
  /\ iReady /\ ~iButton /\ iButton' = TRUE /\ SendHeld(TRUE)
  /\ UNCHANGED <<Keyboard, iClick, iStick, iPush>>
ButtonUp ==
  /\ iButton /\ iButton' = FALSE
  /\ IF iHeld THEN SendHeld(FALSE) ELSE SendsNothing
  /\ UNCHANGED <<Keyboard, iClick, iStick, iPush>>

\* click, when a key pressed the button, and the end of the time it is held
ButtonClick ==
  /\ iReady /\ ~iHeld /\ ~iClick /\ iClick' = TRUE /\ SendHeld(TRUE)
  /\ UNCHANGED <<Keyboard, iButton, iStick, iPush>>
ClickEnds ==
  /\ iClick /\ iClick' = FALSE /\ SendHeld(FALSE)
  /\ UNCHANGED <<Keyboard, iButton, iStick, iPush>>

\* pointerdown with its first pulse, pointermove, and the frames in between
StickDown ==
  /\ iReady /\ iStick' = TRUE
  /\ \E push \in BOOLEAN : iPush' = push /\ SendMove(push)
  /\ UNCHANGED <<Keyboard, iButton, iClick>>
StickMoves ==
  /\ iStick /\ iPush' = ~iPush /\ SendsNothing
  /\ UNCHANGED <<Keyboard, iButton, iClick, iStick>>
StickFrame ==
  /\ iStick /\ iReady /\ SendMove(iPush)
  /\ UNCHANGED <<Keyboard, iButton, iClick, iStick, iPush>>

\* reset
StickUp ==
  /\ iStick /\ iStick' = FALSE /\ iPush' = FALSE /\ SendMove(FALSE)
  /\ UNCHANGED <<Keyboard, iButton, iClick>>

-----------------------------------------------------------------------------
(* The session. *)

\* A fall: frames are refused, and what the connection holds is cleared.
ServerFells ==
  /\ iReady /\ iServer.alive /\ iServer' = [held |-> FALSE, move |-> FALSE, alive |-> FALSE]
  /\ UNCHANGED <<iKeys, iFocus, iButton, iClick, iStick, iPush, iReady, iShown, iMoving,
                 iHeld, iMove, iTraining, iDropped>>

\* updateScene: a player's page forgets everything that is held; the stick is reset.
FallShown ==
  /\ iReady /\ ~iServer.alive /\ iShown = "alive" /\ iShown' = "fallen"
  /\ IF iTraining
     THEN UNCHANGED <<iMoving, iHeld, iMove, iStick, iPush>>
     ELSE /\ iMoving' = FALSE /\ iHeld' = FALSE /\ iMove' = FALSE
          /\ iStick' = FALSE /\ iPush' = FALSE
  /\ UNCHANGED <<iKeys, iFocus, iButton, iClick, iReady, iServer, iTraining, iDropped>>

ServerRaises ==
  /\ iReady /\ iShown = "fallen" /\ ~iServer.alive /\ iServer' = [iServer EXCEPT !.alive = TRUE]
  /\ UNCHANGED <<iKeys, iFocus, iButton, iClick, iStick, iPush, iReady, iShown, iMoving,
                 iHeld, iMove, iTraining, iDropped>>
RespawnShown ==
  /\ iReady /\ iServer.alive /\ iShown = "fallen" /\ iShown' = "alive"
  /\ UNCHANGED <<iKeys, iFocus, iButton, iClick, iStick, iPush, iReady, iMoving, iHeld,
                 iMove, iServer, iTraining, iDropped>>

\* The connection ends: the stick is reset when nothing can be sent any more.
ConnectionLost ==
  /\ iReady /\ iReady' = FALSE /\ iServer' = Idle /\ iShown' = "alive"
  /\ iStick' = FALSE /\ iPush' = FALSE /\ iDropped' = (iDropped \/ (iStick /\ iMove))
  /\ UNCHANGED <<iKeys, iFocus, iButton, iClick, iMoving, iHeld, iMove, iTraining>>

\* The first snapshot of another connection.
ConnectionBack ==
  /\ ~iReady /\ iReady' = TRUE
  /\ UNCHANGED <<iKeys, iFocus, iButton, iClick, iStick, iPush, iShown, iMoving, iHeld,
                 iMove, iServer, iTraining, iDropped>>

InputNext ==
  \/ \E key \in {"b", "w"} : KeyDown(key) \/ KeyUp(key)
  \/ Blur \/ Focus \/ ButtonDown \/ ButtonUp \/ ButtonClick \/ ClickEnds
  \/ StickDown \/ StickMoves \/ StickFrame \/ StickUp
  \/ ServerFells \/ FallShown \/ ServerRaises \/ RespawnShown \/ ConnectionLost \/ ConnectionBack

InputSpec == InputInit /\ [][InputNext]_iVars

-----------------------------------------------------------------------------
(* Properties. *)

\* Whatever order keys, pointers, falls, connections and the window's focus change in,
\* the player does nothing in the page and at the server when nothing is pressed: no
\* action, and no movement unless its end came when it could not be sent.
NothingStuck ==
  LET keys == IF iFocus THEN iKeys ELSE {}
  IN /\ "b" \notin keys /\ ~iButton /\ ~iClick => ~iHeld /\ ~iServer.held
     /\ "w" \notin keys /\ ~iStick /\ ~iDropped => ~iMove /\ ~iServer.move
=============================================================================
