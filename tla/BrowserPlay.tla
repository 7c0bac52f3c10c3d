---------------------------- MODULE BrowserPlay ----------------------------
(***************************************************************************)
(* The input of one player: the frames of apps/web_alpha/                  *)
(* session_transport.js on their way to apps/web_server/main.kf, the ticks *)
(* that apply and acknowledge them, and the snapshots from which the page  *)
(* shows the player turned further by the frames it still holds.  The page *)
(* reads the acknowledgement of a snapshot but leaves it out of the scene  *)
(* it shows: frames are given up only when there are too many, at a death, *)
(* with the connection, or when numbers start again.                       *)
(*                                                                         *)
(* Only the look of a frame is kept: moves and held actions overwrite each *)
(* other at the server, looks add up.  A look is counted in tenths of a    *)
(* degree by the page and in whole degrees by the simulation; Fine is the  *)
(* number of the one in the other and Turn the degrees of a full turn.     *)
(***************************************************************************)
EXTENDS Integers, Sequences, Lists

CONSTANTS MaxSequence,  \* MAX_SEQUENCE, after which numbering starts again
          MaxPending,   \* MAX_PENDING_INPUT_FRAMES
          MaxFlight,    \* bound on the frames under way in each direction
          MaxLook,      \* sessionWebGameMaximumLookDelta
          Fine, Turn, Looks

ASSUME PlayAssumption ==
  /\ {MaxSequence, MaxPending, MaxFlight, MaxLook, Fine, Turn} \subseteq Nat \ {0}
  /\ Looks \subseteq -MaxLook .. MaxLook

VARIABLES
  sequence,  \* the last number the page gave to a frame
  pending,   \* pendingInputFrames, oldest first
  shown,     \* sceneState: yaw as displayed, health above 0; and, as history, the
             \* acknowledgement its snapshot carried
  ready,     \* authoritativeReady
  sentFrames, sentScenes,  \* under way to the server and to the page
  server,    \* the player and its connection at the server
  active     \* matchPhaseValue is active, not an intermission

playPage == <<sequence, pending, shown, ready>>
playVars == <<playPage, sentFrames, sentScenes, server, active>>

Frames == [seq : 1 .. MaxSequence, look : Looks]
Circle == 0 .. Turn * Fine - 1
PlayerSnapshots == [yaw : 0 .. Turn - 1, alive : BOOLEAN, ack : 0 .. MaxSequence,
              active : BOOLEAN]
Player == [last : 0 .. MaxSequence, input : 0 .. MaxSequence,
           applied : 0 .. MaxSequence, look : -MaxLook .. MaxLook,
           yaw : 0 .. Turn - 1, alive : BOOLEAN]

PlayTypeOK ==
  /\ sequence \in 0 .. MaxSequence
  /\ pending \in Seq(Frames) /\ Len(pending) <= MaxPending
  /\ shown \in [yaw : Circle, alive : BOOLEAN, ack : 0 .. MaxSequence]
  /\ sentFrames \in Seq(Frames) /\ Len(sentFrames) <= MaxFlight
  /\ sentScenes \in Seq(PlayerSnapshots) /\ Len(sentScenes) <= MaxFlight
  /\ server \in Player
  /\ {ready, active} \subseteq BOOLEAN

\* reserve, and addPlayer with the yaw of a new player.
NewPlayer == [last |-> 0, input |-> 0, applied |-> 0, look |-> 0, yaw |-> 0,
              alive |-> TRUE]

PlayInit ==
  /\ sequence = 0 /\ pending = <<>> /\ ready = FALSE
  /\ shown = [yaw |-> 0, alive |-> TRUE, ack |-> 0]
  /\ sentFrames = <<>> /\ sentScenes = <<>> /\ server = NewPlayer
  /\ active \in BOOLEAN

-----------------------------------------------------------------------------
(* The page. *)

Turned(yaw, frames) ==
  (yaw + Summed([k \in DOMAIN frames |-> frames[k].look])) % (Turn * Fine)

\* Mutant: the newest frame is dropped.
KeptOldest(frames) ==
  IF Len(frames) > MaxPending THEN SubSeq(frames, 1, MaxPending) ELSE frames

\* The oldest frame is dropped beyond MAX_PENDING_INPUT_FRAMES.
Kept(frames) == IF Len(frames) > MaxPending THEN Tail(frames) ELSE frames

\* nextSequence: the number of the next frame, and what stays pending; all of it
\* is forgotten when the numbering starts again.
NextSequence == IF sequence = MaxSequence THEN 1 ELSE sequence + 1
StillPending == IF sequence = MaxSequence THEN <<>> ELSE pending

SendGameplayInput(look) ==
  /\ ready /\ shown.alive
  /\ Len(sentFrames) < MaxFlight
  /\ LET f == [seq |-> NextSequence, look |-> look]
     IN /\ sequence' = f.seq
        /\ sentFrames' = Append(sentFrames, f)
        /\ pending' = Kept(Append(StillPending, f))
  /\ UNCHANGED <<shown, ready, sentScenes, server, active>>

\* Mutant: the connection's slot keeps the number of its last user's frame.
ReservedKeepingLast(p) == [NewPlayer EXCEPT !.last = p.last]

\* The slot of a new connection starts anew.
Reserved(p) == NewPlayer

Unacked(frames, ack) == Only(frames, {f \in Frames : f.seq > ack})

\* parseMultiplayerScene leaves the acknowledgement that it reads out of the scene, and
\* applyAuthoritativeScene takes 0 for what is not there.
LastInputSequence(snapshot) == 0

\* Mutant: the frames turn what was shown before.
DisplayedFromShown(snapshot, frames) == Turned(shown.yaw, frames)

\* The frames turn the player of the snapshot further.
DisplayedYaw(snapshot, frames) == Turned(snapshot.yaw * Fine, frames)

\* Mutant: a knocked out player's frames are still counted.
AfterDeathKept(frames, died) == frames

\* updateScene: the frames of a life end with it.
AfterDeath(frames, died) == IF died THEN <<>> ELSE frames

\* onmessage, applyAuthoritativeScene and updateScene.
ApplyAuthoritativeScene ==
  /\ sentScenes # <<>> /\ sentScenes' = Tail(sentScenes)
  /\ LET m == Head(sentScenes)
         left == Unacked(pending, LastInputSequence(m))
     IN /\ shown' = [yaw |-> DisplayedYaw(m, left), alive |-> m.alive, ack |-> m.ack]
        /\ pending' = AfterDeath(left, shown.alive /\ ~m.alive)
  /\ ready' = TRUE
  /\ UNCHANGED <<sequence, sentFrames, server, active>>

\* A connection ends and a new one is admitted (module BrowserSession).  The
\* numbering goes on, the player is a new one.
Rejoin ==
  /\ ready' = FALSE /\ pending' = <<>>
  /\ sentFrames' = <<>> /\ sentScenes' = <<>>
  /\ server' = Reserved(server)
  /\ UNCHANGED <<sequence, shown, active>>

-----------------------------------------------------------------------------
(* The server. *)

Clamped(look) ==
  IF look > MaxLook THEN MaxLook ELSE IF look < -MaxLook THEN -MaxLook ELSE look

\* webHandleGame: an input of a running match waits for the next tick, one of an
\* intermission is acknowledged and dropped.
Accepted(f) ==
  IF active THEN [server EXCEPT !.last = f.seq, !.input = f.seq,
                                !.look = Clamped(@ + f.look)]
  ELSE [server EXCEPT !.last = f.seq, !.input = f.seq, !.applied = f.seq, !.look = 0]

Read ==
  /\ sentFrames # <<>> /\ Head(sentFrames).seq > server.last
  /\ sentFrames' = Tail(sentFrames) /\ server' = Accepted(Head(sentFrames))
  /\ UNCHANGED <<playPage, sentScenes, active>>

\* A number that is not above the last ends the connection.
Refuse == sentFrames # <<>> /\ Head(sentFrames).seq <= server.last /\ Rejoin

\* Division that rounds towards zero.
Degrees(look) == IF look < 0 THEN -((-look) \div Fine) ELSE look \div Fine

\* Mutant: input is acknowledged in a running match only.
AppliedWhenPlaying(p, playing) ==
  [p EXCEPT !.applied = IF p.alive /\ playing THEN p.input ELSE @,
            !.look = 0,
            !.yaw = IF p.alive /\ playing THEN (@ + Degrees(p.look)) % Turn ELSE @]

\* Mutant: the looks of a tick are not reset.
AppliedAgain(p, playing) ==
  [p EXCEPT !.applied = IF p.alive THEN p.input ELSE @,
            !.yaw = IF p.alive /\ playing THEN (@ + Degrees(p.look)) % Turn ELSE @]

\* The input part of webTick with applyInputFrame, which refuses the fallen.
AppliedInput(p, playing) ==
  [p EXCEPT !.applied = IF p.alive THEN p.input ELSE @,
            !.look = 0,
            !.yaw = IF p.alive /\ playing THEN (@ + Degrees(p.look)) % Turn ELSE @]

\* webTransitionMap puts everybody back, alive and facing the same way.
Transitioned(p) == [p EXCEPT !.alive = TRUE, !.yaw = 0, !.applied = p.input]

\* advanceTick knocks a player out, or the respawn wave brings it back.
Advanced(p) == {p, [p EXCEPT !.alive = FALSE], [p EXCEPT !.alive = TRUE]}

\* webTick: the phase, the input, the simulation, the snapshot.
Tick ==
  /\ Len(sentScenes) < MaxFlight
  /\ active' \in BOOLEAN
  /\ \E p \in Advanced(AppliedInput(IF active' /\ ~active THEN Transitioned(server)
                                    ELSE server, active')) :
       /\ server' = p
       /\ sentScenes' = Append(sentScenes, [yaw |-> p.yaw, alive |-> p.alive,
                                              ack |-> p.applied, active |-> active'])
  /\ UNCHANGED <<playPage, sentFrames>>

PlayNext ==
  \/ \E look \in Looks : SendGameplayInput(look)
  \/ ApplyAuthoritativeScene
  \/ Rejoin
  \/ Read \/ Refuse \/ Tick

\* The server reads and ticks and the browser delivers.  Nothing is assumed of
\* the user, and a player may stay knocked out.
PlayFairness ==
  /\ WF_playVars(Read) /\ WF_playVars(Refuse) /\ WF_playVars(ApplyAuthoritativeScene)
  /\ WF_playVars(Tick)

PlaySpec == PlayInit /\ [][PlayNext]_playVars /\ PlayFairness

-----------------------------------------------------------------------------
(* Properties. *)

\* The held frames that the server has yet to acknowledge, and the others.
Awaited(frames, ack) == Only(frames, {f \in Frames : f.seq > ack})
Credited(frames, ack) == Only(frames, {f \in Frames : f.seq <= ack})

\* The page still has every frame it sent since the one the shown snapshot
\* acknowledges: no overflow, no death and no new numbering came between.
Complete ==
  /\ ready' /\ Len(Awaited(pending', shown'.ack)) = sequence' - shown'.ack
  /\ server.last <= sequence /\ \A k \in 1 .. Len(sentFrames) : sentFrames[k].seq <= sequence

\* The match goes on undisturbed from the shown snapshot to the server's state.
Undisturbed ==
  active /\ server.alive /\ \A k \in 1 .. Len(sentScenes) : sentScenes[k].alive /\ sentScenes[k].active

\* The page shows its player as far turned as the server will have turned it once
\* everything under way has arrived, and further by every frame that it holds although
\* the server has acknowledged it: those looks are counted twice.
LookKept ==
  [][ApplyAuthoritativeScene /\ Complete /\ Undisturbed =>
       shown'.yaw = Turned(server.yaw * Fine + server.look,
                           sentFrames \o Credited(pending', shown'.ack))]_playVars

\* Whoever comes back is shown as the server has it: no look of an earlier life counts.
RespawnIsExact ==
  [][ApplyAuthoritativeScene /\ ready /\ ~shown.alive /\ shown'.alive =>
       shown'.yaw = Head(sentScenes).yaw * Fine]_playVars

\* Nothing is under way, and the server has acknowledged all that it read.
AllArrived ==
  /\ ready /\ shown.alive /\ sentFrames = <<>> /\ sentScenes = <<>>
  /\ shown.ack = server.input

\* When all is quiet, the page shows its player turned further than the server has it,
\* by the frames it still holds and by nothing else.
OffByPending == AllArrived => shown.yaw = Turned(server.yaw * Fine, pending)

\* What the page holds are its newest frames, without a gap.
HeldAreNewest ==
  \A k \in 1 .. Len(pending) : pending[k].seq = sequence - Len(pending) + k

\* The page and the server agree on the player but for the last few looks.
PlayInv == PlayTypeOK /\ HeldAreNewest /\ OffByPending

\* Documented, and not so: once its inputs are acknowledged, the page returns to the
\* server's state.
ReturnsToServerState == AllArrived => shown.yaw = server.yaw * Fine

\* A frame that is sent is applied or dropped by the server and acknowledged to the
\* page, unless the connection or the player's life ends.
InputsArrive ==
  \A s \in 1 .. MaxSequence :
    (ready /\ \E k \in 1 .. Len(sentFrames) : sentFrames[k].seq = s)
      ~> (~ready \/ ~server.alive \/ shown.ack >= s)

\* The server ends a connection over a frame only when the numbering started
\* again on it.
RefusedAtWrap == [][Refuse => Head(sentFrames).seq = 1]_playVars

\* Every frame arrives, and how often each look counts is known.
FramesCount == LookKept /\ RespawnIsExact /\ InputsArrive /\ RefusedAtWrap
=============================================================================
