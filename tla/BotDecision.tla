------------------------------ MODULE BotDecision ------------------------------
(***************************************************************************)
(* What a battle bot of apps/web_alpha/session_transport.js decides about   *)
(* the throwable, and how it turns.  Twenty times a second the bot looks at *)
(* the newest scene it has, goes through the phases of a throw and sends    *)
(* its buttons; the server (apps/web_server/main.kf) keeps those of the     *)
(* newest frame and applies them at each tick, where                        *)
(* src/session/web_multiplayer_simulation.kf picks up at a press, wants a   *)
(* second press to charge, and throws when that is released.                *)
(*                                                                         *)
(* A run is one life of the bot's player within a match.                    *)
(*                                                                         *)
(* Frames and scenes arrive in order, any time later, and several may       *)
(* arrive between two ticks or two decisions.  Where the bot and the item   *)
(* are, and thus who can reach it, is left open.  Angles are in units of    *)
(* AngleUnit degrees.                                                       *)
(***************************************************************************)
EXTENDS Integers, Sequences

CONSTANTS ThrowTicks,   \* throwChargeTicks
          MostTicks,    \* the server stops counting there (30)
          AngleUnit,    \* bound: directions are multiples of it
          InFlight      \* bound: of frames and of scenes

ASSUME DecisionAssumption ==
  /\ MostTicks \in Nat /\ ThrowTicks \in 1 .. MostTicks /\ InFlight \in Nat \ {0}
  /\ AngleUnit \in Nat \ {0} /\ 180 % AngleUnit = 0

VARIABLES tPhase,    \* throwPhase
          tScene,    \* the scene the bot looks at
          tFrames,   \* buttons on their way to the server
          tScenes,   \* scenes on their way to the bot
          tServer,   \* the bot's player
          tItem,     \* throwablePickupActive
          tLate,     \* history: a pick-up was given up before its answer, and the bot
                     \* and the server have not agreed since
          tThrown    \* history: the ticks the last throw was charged, -1 if tLate was set

tVars == <<tPhase, tScene, tFrames, tScenes, tServer, tItem, tLate, tThrown>>

\* The throwable's fields of a player, and connectionHeldActions.
Grounded == [carried |-> FALSE, button |-> FALSE, ready |-> FALSE, charging |-> FALSE,
             ticks |-> 0, held |-> FALSE, alive |-> TRUE]

SceneNow == [carries |-> tServer.carried, ticks |-> tServer.ticks, pickup |-> tItem]

Bearings == {b * AngleUnit : b \in -(180 \div AngleUnit) .. 180 \div AngleUnit}

DecisionInit ==
  /\ tPhase = 0 /\ tFrames = <<>> /\ tScenes = <<>> /\ tServer = Grounded /\ tItem = TRUE
  /\ tScene = [carries |-> FALSE, ticks |-> 0, pickup |-> TRUE]
  /\ tLate = FALSE /\ tThrown = MostTicks

-----------------------------------------------------------------------------
(* The bot. *)

\* Mutant: one tick too early.
SeenEarly(phase, scene) ==
  IF scene.carries
  THEN IF phase = 1 THEN {2}
       ELSE IF phase = 3 /\ scene.ticks + 1 >= ThrowTicks THEN {4} ELSE {phase}
  ELSE IF phase = 1 THEN {0, 1} ELSE {0}

\* The phase a decision starts from: 1 has pressed to pick up, 2 carries, 3 charges,
\* 4 has let go.  A pick-up is given up by the clock alone, after half a second.
Seen(phase, scene) ==
  IF scene.carries
  THEN IF phase = 1 THEN {2}
       ELSE IF phase = 3 /\ scene.ticks >= ThrowTicks THEN {4} ELSE {phase}
  ELSE IF phase = 1 THEN {0, 1} ELSE {0}

\* History: nothing is under way that concerns the throwable, and the bot's hands are empty
\* and it sees them so.
Agreed ==
  /\ tFrames = <<>> /\ tScenes = <<>> /\ tServer.held = tServer.button
  /\ ~tServer.carried /\ ~tScene.carries

LateAfter(phase) ==
  IF phase = 0 /\ Agreed THEN FALSE ELSE tLate \/ (tPhase = 1 /\ phase = 0)

\* updateBrowserBattleBot: charging starts one decision after the phase that lets the
\* first press go; whether the item is close enough to press is left open.
Decide ==
  /\ Len(tFrames) < InFlight
  /\ \E phase \in Seen(tPhase, tScene), near \in BOOLEAN :
       LET press == ~tScene.carries /\ tScene.pickup /\ phase = 0 /\ near IN
       /\ tPhase' = IF phase = 2 THEN 3 ELSE IF press THEN 1 ELSE phase
       /\ tFrames' = Append(tFrames, phase = 3 \/ press)
       /\ tLate' = LateAfter(phase)
  /\ UNCHANGED <<tScene, tScenes, tServer, tItem, tThrown>>

\* yawDelta, and the word that is sent.  The remainder has the sign of its dividend.
JsRemainder(a, b) == IF a >= 0 THEN a % b ELSE -((-a) % b)

\* Mutant: the half turn is subtracted without the offset that was to be added before.
LookWordUnwrapped(bearing, own) == JsRemainder(bearing - own, 360) * 10

LookWord(bearing, own) ==
  LET delta == JsRemainder(bearing - own + 540, 360) - 180
      word == delta * 10
  IN IF word > 1800 THEN 1800 ELSE IF word < -1800 THEN -1800 ELSE word

BotReceives ==
  /\ tScenes # <<>> /\ tScene' = Head(tScenes) /\ tScenes' = Tail(tScenes)
  /\ UNCHANGED <<tPhase, tFrames, tServer, tItem, tThrown, tLate>>

-----------------------------------------------------------------------------
(* The server. *)

ReadBotFrame ==
  /\ tFrames # <<>> /\ tFrames' = Tail(tFrames)
  /\ tServer' = [tServer EXCEPT !.held = Head(tFrames)]
  /\ UNCHANGED <<tPhase, tScene, tScenes, tItem, tThrown, tLate>>

\* applyInputFrame, of the throwable: a press charges what is ready, or picks up when
\* the item is within reach; a release throws what charges, or makes it ready.
Pressed(p, reach) ==
  IF p.carried
  THEN IF p.ready THEN [p EXCEPT !.charging = TRUE, !.ready = FALSE, !.ticks = 0] ELSE p
  ELSE IF reach
       THEN [p EXCEPT !.carried = TRUE, !.ready = FALSE, !.charging = FALSE, !.ticks = 0]
       ELSE p
ReleasedThrow(p) ==
  IF ~p.carried THEN p
  ELSE IF p.charging
       THEN [p EXCEPT !.carried = FALSE, !.charging = FALSE, !.ready = FALSE, !.ticks = 0]
       ELSE [p EXCEPT !.ready = TRUE]

\* advanceTick, of the throwable
Charged(p) ==
  IF p.carried /\ p.charging /\ p.button /\ p.ticks < MostTicks
  THEN [p EXCEPT !.ticks = @ + 1] ELSE p

Applied(p, reach) ==
  [(IF p.held /\ ~p.button THEN Pressed(p, reach)
    ELSE IF ~p.held /\ p.button THEN ReleasedThrow(p) ELSE p) EXCEPT !.button = p.held]

\* A tick, and sometimes a scene for the bot.  The frames of a fallen player are
\* refused, which clears its buttons.
BotTick ==
  /\ \E reach, news \in BOOLEAN :
       LET p == tServer
           q == IF p.alive THEN Applied(p, reach /\ tItem) ELSE [p EXCEPT !.held = FALSE]
       IN /\ tServer' = Charged(q)
          /\ tItem' = (tItem /\ (q.carried => p.carried))
          /\ tThrown' = IF p.carried /\ ~q.carried THEN (IF tLate THEN -1 ELSE p.ticks)
                        ELSE tThrown
          /\ IF news /\ Len(tScenes) < InFlight THEN tScenes' = Append(tScenes, SceneNow')
             ELSE UNCHANGED tScenes
  /\ UNCHANGED <<tPhase, tScene, tFrames, tLate>>

\* The player falls; it keeps what it carries until it respawns.
PlayerFalls ==
  /\ tServer' = [tServer EXCEPT !.alive = FALSE]
  /\ UNCHANGED <<tPhase, tScene, tFrames, tScenes, tItem, tThrown, tLate>>

\* Another player takes the item, or a new one lies there.
OthersTake ==
  /\ ~tServer.carried /\ tItem' = ~tItem
  /\ UNCHANGED <<tPhase, tScene, tFrames, tScenes, tServer, tThrown, tLate>>

DecisionNext ==
  Decide \/ BotReceives \/ ReadBotFrame \/ BotTick \/ PlayerFalls \/ OthersTake

DecisionSpec == DecisionInit /\ [][DecisionNext]_tVars

-----------------------------------------------------------------------------
(* Properties. *)

\* Although the bot looks at scenes of the past and the server may skip frames, a throw
\* it lets go was charged as long as the bot means to charge it.  Not so after a pick-up
\* that the clock gave up before its answer came: the next press then charges and is let
\* go at once.  Once the bot decides with empty hands and nothing under way, throws are
\* charged again.
ThrowIsCharged == tThrown # -1 => tThrown >= ThrowTicks

\* yaw of applyInputFrame
TurnedBy(own, word) ==
  LET yaw == own + (IF word < 0 THEN -((-word) \div 10) ELSE word \div 10)
  IN IF yaw > 180 THEN yaw - 360 ELSE IF yaw < -180 THEN yaw + 360 ELSE yaw

\* From every direction, the look that a bot sends is one the server takes whole, and
\* makes it face its target.
AimsAtTarget == \A own, bearing \in Bearings :
  LET word == LookWord(bearing, own)
  IN word \in -1800 .. 1800 /\ (TurnedBy(own, word) - bearing) % 360 = 0

\* A bot's throw goes as far and where it is meant to.
ThrowInv == ThrowIsCharged /\ AimsAtTarget
=============================================================================
