------------------------------- MODULE Spectator -------------------------------
(***************************************************************************)
(* What a spectator of the browser client sees                              *)
(* (apps/web_alpha/session_transport.js): a camera that follows a fighter   *)
(* or is free, and a list of who fell.  Both go by the snapshots, some of   *)
(* which are missed, and are to survive a lost connection.                  *)
(*                                                                         *)
(* A fighter is absent, alive or down.  Where it is, and how the camera     *)
(* moves, is left out.                                                      *)
(***************************************************************************)
EXTENDS Integers, Sequences, FiniteSets

CONSTANTS Fighters,  \* ids of players
          FeedCap,   \* lines of the list (4)
          MaxFalls   \* bound: falls of a fighter after PLAY

ASSUME SpectatorAssumption ==
  /\ Fighters \subseteq Nat \ {0} /\ IsFiniteSet(Fighters) /\ {FeedCap, MaxFalls} \subseteq Nat \ {0}

VARIABLES vServer,   \* the fighters
          vLink,     \* of the page: ended, lost, joining, or admitted
          vRole,     \* joinedRole is that of a spectator
          vScene,    \* sceneState.actors
          vActive,   \* spectatorFollowActive
          vFollow,   \* spectatorFollowTargetId
          vChosen,   \* spectatorInitialFollowChosen
          vBaseline, \* spectatorHealthBaseline
          vHealth,   \* spectatorActorHealth
          vFeed,     \* spectatorEvents
          vDrawn,    \* of the last frame, if nothing has happened since: who was followed
          vWish,     \* history: what the spectator has chosen and can still be had
          vFallen,   \* history: falls after PLAY
          vTold,     \* history: lines after PLAY
          vSaw       \* history: who has been shown alive after PLAY and its last line

vSession == <<vLink, vRole>>
vCamera == <<vActive, vFollow, vChosen, vWish>>
vFalls == <<vBaseline, vHealth, vFeed, vTold, vSaw>>
vVars == <<vServer, vSession, vScene, vCamera, vFalls, vDrawn, vFallen>>

NobodyThere == [f \in Fighters |-> "absent"]
NoFalls == [f \in Fighters |-> 0]
NotDrawn == -1
NoWish == -1

SpectatorInit ==
  /\ vServer = NobodyThere /\ vScene = NobodyThere /\ vHealth = NobodyThere
  /\ vLink = "ended" /\ vRole = FALSE /\ vActive = FALSE /\ vFollow = 0 /\ vChosen = FALSE
  /\ vBaseline = FALSE /\ vFeed = <<>> /\ vDrawn = NotDrawn /\ vWish = NoWish
  /\ vFallen = NoFalls /\ vTold = NoFalls /\ vSaw = {}

-----------------------------------------------------------------------------
(* The server. *)

FighterChanges ==
  \E f \in Fighters, state \in {"absent", "alive", "down"} :
    /\ vServer' = [vServer EXCEPT ![f] = state]
    /\ \/ vServer[f] = "absent" /\ state = "alive" /\ UNCHANGED vFallen
       \/ vServer[f] # "absent" /\ state = "absent" /\ UNCHANGED vFallen
       \/ vServer[f] = "down" /\ state = "alive" /\ UNCHANGED vFallen
       \/ /\ vServer[f] = "alive" /\ state = "down" /\ vFallen[f] < MaxFalls
          /\ vFallen' = [vFallen EXCEPT ![f] = @ + 1]
    /\ vDrawn' = NotDrawn /\ UNCHANGED <<vSession, vScene, vCamera, vFalls>>

-----------------------------------------------------------------------------
(* A snapshot. *)

FallsIn(scene) == {f \in Fighters : vHealth[f] = "alive" /\ scene[f] = "down"}

\* updateSpectatorMatchFeed; fighters that are gone keep the health they had
Orders(set) == {order \in [1 .. Cardinality(set) -> set] : \A i, j \in DOMAIN order : i # j => order[i] # order[j]}

UpdateFeed(scene) ==
  LET seen == [f \in Fighters |-> IF scene[f] = "absent" THEN vHealth[f] ELSE scene[f]]
      falls == FallsIn(scene)
      alive == {f \in Fighters : scene[f] = "alive"}
  IN IF ~vBaseline
     THEN /\ vBaseline' = TRUE /\ vHealth' = scene /\ vSaw' = vSaw \cup alive
          /\ UNCHANGED <<vFeed, vTold>>
     ELSE /\ vHealth' = seen /\ UNCHANGED vBaseline
          /\ \E order \in Orders(falls) :
               LET lines == order \o vFeed
               IN vFeed' = SubSeq(lines, 1, IF Len(lines) < FeedCap THEN Len(lines) ELSE FeedCap)
          /\ vTold' = [f \in Fighters |-> IF f \in falls THEN vTold[f] + 1 ELSE vTold[f]]
          /\ vSaw' = (vSaw \ falls) \cup alive

Living(scene) == {f \in Fighters : scene[f] = "alive"}

ChoosesFirst(scene) == ~vChosen /\ Living(scene) # {}

\* updateScene: the first fighter of the first scene that has one is followed.
UpdateScene(scene) ==
  /\ vScene' = scene
  /\ IF ChoosesFirst(scene)
     THEN \E f \in Living(scene) : vFollow' = f /\ vActive' = TRUE /\ vChosen' = TRUE
     ELSE UNCHANGED <<vFollow, vActive, vChosen>>

\* applyAuthoritativeScene
SnapshotShown ==
  /\ vLink = "admitted"
  /\ UpdateFeed(vServer) /\ UpdateScene(vServer)
  /\ vWish' = IF vWish \in Fighters \ Living(vServer) THEN NoWish ELSE vWish
  /\ vDrawn' = NotDrawn /\ UNCHANGED <<vServer, vSession, vFallen>>

-----------------------------------------------------------------------------
(* The camera. *)

\* Mutant: those who are down as well.
TargetsAll == {f \in Fighters : vScene[f] # "absent"}

\* spectatorTargets, in the order of their ids
Targets == Living(vScene)
Least(set) == CHOOSE f \in set : \A g \in set : f <= g
Greatest(set) == CHOOSE f \in set : \A g \in set : g <= f

\* updateSpectatorCamera and renderFrame: another fighter when the followed one is gone
DrawFrame ==
  /\ vRole
  /\ IF vActive /\ vFollow \notin Living(vScene)
     THEN IF Targets # {} THEN vFollow' = Least(Targets) /\ UNCHANGED vActive
          ELSE vFollow' = 0 /\ vActive' = FALSE
     ELSE UNCHANGED <<vFollow, vActive>>
  /\ vDrawn' = IF vActive' THEN vFollow' ELSE 0
  /\ UNCHANGED <<vServer, vSession, vScene, vChosen, vWish, vFalls, vFallen>>

\* cycleSpectatorTarget, forwards or backwards; the buttons are there in a lost connection
Cycle ==
  /\ vRole /\ vDrawn' = NotDrawn
  /\ IF Targets = {}
     THEN vFollow' = 0 /\ vActive' = FALSE /\ vWish' = NoWish
     ELSE /\ LET after == {f \in Targets : f > vFollow}
                 before == {f \in Targets : f < vFollow}
             IN IF vFollow \notin Targets THEN vFollow' \in {Least(Targets), Greatest(Targets)}
                ELSE \/ vFollow' = Least(IF after = {} THEN Targets ELSE after)
                     \/ vFollow' = Greatest(IF before = {} THEN Targets ELSE before)
          /\ vActive' = TRUE /\ vWish' = vFollow'
  /\ UNCHANGED <<vServer, vSession, vScene, vChosen, vFalls, vFallen>>

\* returnToFreeSpectatorCamera.  Before there was a fighter it does not count.
FreeCamera ==
  /\ vRole /\ vActive' = FALSE /\ vFollow' = 0 /\ vDrawn' = NotDrawn
  /\ vWish' = IF vChosen THEN 0 ELSE NoWish
  /\ UNCHANGED <<vServer, vSession, vScene, vChosen, vFalls, vFallen>>

-----------------------------------------------------------------------------
(* The session. *)

ResetFollow == vActive' = FALSE /\ vFollow' = 0 /\ vChosen' = FALSE /\ vWish' = NoWish

\* Mutant: a retry begins like PLAY.
ResetAlways(retry) == ResetFollow

\* disconnect and connect, for another try or not
ResetUnless(retry) == IF retry THEN UNCHANGED vCamera ELSE ResetFollow

\* Mutant: the health of the last session stays.
BaselineKept == UNCHANGED <<vBaseline, vHealth>>

BaselineGone == vBaseline' = FALSE /\ vHealth' = NobodyThere

\* connect, by PLAY or by the timer that a loss starts
Connects(retry) ==
  /\ IF retry THEN vLink = "lost" ELSE vLink \in {"ended", "lost"}
  /\ vLink' = "joining" /\ vRole' = FALSE
  /\ ResetUnless(retry)
  /\ IF retry THEN UNCHANGED <<vScene, vFalls, vFallen>>
     ELSE /\ vScene' = NobodyThere /\ BaselineGone /\ vFeed' = <<>>
          /\ vFallen' = NoFalls /\ vTold' = NoFalls /\ vSaw' = {}
  /\ vDrawn' = NotDrawn /\ UNCHANGED vServer

Admitted ==
  /\ vLink = "joining" /\ vLink' = "admitted" /\ vRole' = TRUE /\ vDrawn' = NotDrawn
  /\ UNCHANGED <<vServer, vScene, vCamera, vFalls, vFallen>>

\* onclose
LinkLost ==
  /\ vLink \in {"joining", "admitted"} /\ vLink' = "lost" /\ vDrawn' = NotDrawn
  /\ UNCHANGED <<vServer, vRole, vScene, vCamera, vFalls, vFallen>>

\* disconnect, by the button or after an error of the protocol, which keeps the list
SessionEnds(explicit) ==
  /\ vLink \in {"joining", "admitted"} /\ vLink' = (IF explicit THEN "ended" ELSE "lost") /\ vRole' = FALSE /\ vScene' = NobodyThere
  /\ ResetFollow
  /\ IF explicit THEN vBaseline' = FALSE /\ vFeed' = <<>> /\ UNCHANGED <<vHealth, vTold, vSaw>>
     ELSE UNCHANGED vFalls
  /\ vDrawn' = NotDrawn /\ UNCHANGED <<vServer, vFallen>>

SpectatorNext ==
  \/ FighterChanges \/ SnapshotShown \/ DrawFrame \/ Cycle \/ FreeCamera \/ Admitted \/ LinkLost
  \/ \E choice \in BOOLEAN : Connects(choice) \/ SessionEnds(choice)

SpectatorSpec == SpectatorInit /\ [][SpectatorNext]_vVars

-----------------------------------------------------------------------------
(* Properties. *)

\* What the spectator has chosen stays: a fighter until it is shown to be gone, the free
\* camera until another choice, whoever joins or falls, and through lost connections.
ChoiceIsKept ==
  /\ vWish = 0 => ~vActive
  /\ vWish \in Fighters => vActive /\ vFollow = vWish

\* No frame is drawn from behind a fighter who is down or has left.
CameraOnTheLiving == vDrawn \in Fighters => vScene[vDrawn] = "alive"

\* The list tells no more falls than there were after PLAY, and of everyone who was shown
\* alive and is shown down, also when the connection was lost in between.
FeedTellsFalls == \A f \in Fighters :
  vTold[f] <= vFallen[f] /\ (vScene[f] = "down" => f \notin vSaw)

\* The spectator's camera and list are true.
SpectatorInv == ChoiceIsKept /\ CameraOnTheLiving /\ FeedTellsFalls
=============================================================================
