------------------------------ MODULE RemoteActors ------------------------------
(***************************************************************************)
(* Where the browser client draws a fighter between two snapshots           *)
(* (apps/web_alpha/session_transport.js): the page keeps the last snapshots *)
(* with the time they arrived, draws others as they were a while ago, and   *)
(* its own player as it may be by now.                                      *)
(*                                                                         *)
(* There is one fighter, on one axis.  Time is counted in ticks, and frames *)
(* are drawn at whole ticks.  A position is Grain times that of the world,  *)
(* and one that the times and ticks between two snapshots divide: nothing   *)
(* is left of those divisions.  The delay follows the jitter of the         *)
(* arrivals within its limits; here it is any within them.  The turn is     *)
(* drawn like the position.  The walls are left out, and so is the blend    *)
(* towards the place of a player who is in no snapshot.                     *)
(***************************************************************************)
EXTENDS Integers, Sequences, SequencesExt

CONSTANTS HistoryCap,  \* REMOTE_SNAPSHOT_HISTORY (16)
          Delays,      \* remoteRenderDelayMs, in ticks (3 .. 9)
          MaxAhead,    \* REMOTE_MAX_EXTRAPOLATION_MS, in ticks (6)
          LocalAhead,  \* LOCAL_MAX_EXTRAPOLATION_MS, in ticks (3)
          Grain,       \* positions for one of the world
          Gone,        \* no position: the fighter is in no snapshot
          Places,      \* bound: where the fighter can be
          Axes,        \* bound: inputs
          MaxTime,     \* bound: of the page's clock
          MaxTick,     \* bound: of the server
          MaxWire      \* bound: snapshots under way

ASSUME ActorAssumption ==
  /\ {HistoryCap, MaxAhead, LocalAhead, MaxTime, MaxTick, MaxWire} \subseteq Nat \ {0}
  /\ Delays \subseteq Nat /\ Places \subseteq Int /\ Axes \subseteq {-1, 0, 1}
  /\ Grain \in Nat \ {0} /\ Gone \notin Int
  /\ \A x \in Places, n \in 1 .. MaxTime \cup 1 .. MaxTick - 1 : x % n = 0

VARIABLES nTime,    \* performance.now
          nServer,  \* tick and place of the fighter
          nWire,    \* snapshots under way to the page
          nUp,      \* the page is connected
          nHistory, \* remoteSnapshots: tick, arrival, place
          nShown,   \* sceneState: tick, place; history: arrival, and if on this connection
          nDelay,   \* remoteRenderDelayMs
          nInput    \* the newest of pendingInputFrames: axis and time

nVars == <<nTime, nServer, nWire, nUp, nHistory, nShown, nDelay, nInput>>

NoInput == [axis |-> 0, at |-> -1]

ActorInit ==
  /\ nTime = 0 /\ nServer = [tick |-> 1, x |-> 0] /\ nWire = <<>> /\ nUp = TRUE
  /\ nHistory = <<>> /\ nShown = [tick |-> 0, x |-> Gone, at |-> 0, here |-> FALSE]
  /\ nDelay \in Delays /\ nInput = NoInput

-----------------------------------------------------------------------------
(* What is drawn, from the snapshots that are kept. *)

Newest == Last(nHistory)
Sign(n) == IF n < 0 THEN -1 ELSE IF n = 0 THEN 0 ELSE 1
Size(n) == IF n < 0 THEN -n ELSE n
Lesser(a, b) == IF a < b THEN a ELSE b
Greater(a, b) == IF a < b THEN b ELSE a

\* Mutant: the way that is still to go.
PartBackwards(done, span) == span - done

\* of a way of that many ticks, those that are done
Part(done, span) == Greater(0, Lesser(span, done))

\* Mutant: as long as the snapshots took to arrive.
SpanOfArrivals(older, newer) == newer.at - older.at

Span(older, newer) == newer.tick - older.tick

\* How far the fighter went in a tick between the two newest snapshots; none if it was gone.
Velocity ==
  IF Len(nHistory) < 2 THEN 0
  ELSE LET older == nHistory[Len(nHistory) - 1]
       IN IF Gone \in {older.x, Newest.x} THEN 0
          ELSE (Newest.x - older.x) \div Span(older, Newest)

\* sampleRemoteActor: between the two snapshots around the time, or ahead of the newest
Sample(time, ahead) ==
  LET past == {k \in DOMAIN nHistory : nHistory[k].at <= time}
      from == nHistory[IF past = {} THEN 1 ELSE CHOOSE k \in past : \A j \in past : j <= k]
      later == {k \in DOMAIN nHistory : nHistory[k].at > time}
      to == nHistory[CHOOSE k \in later : \A j \in later : k <= j]
      span == to.at - from.at
  IN CASE nHistory = <<>> \/ from.x = Gone -> Gone
       [] later # {} /\ to.x = Gone -> Gone
       [] later # {} /\ to.x # Gone ->
            IF span = 0 THEN to.x
            ELSE from.x + ((to.x - from.x) * Part(time - from.at, span)) \div span
       [] OTHER -> Newest.x + Velocity * Lesser(ahead, time - Newest.at)

\* updateRemoteRenderActors: the fighter of the scene stays there if it has no sample.
DrawnRemote(time) ==
  LET sample == Sample(time - nDelay, MaxAhead) IN IF sample = Gone THEN nShown.x ELSE sample

\* Mutant: always by as much as a tick allows.
FasterUnlimited(v, axis, grounded) == v + Sign(axis) * (IF grounded THEN 3 ELSE 1) * Grain

\* advancePredictedHorizontalVelocity, with an input
Faster(v, axis, grounded) ==
  LET along == Sign(axis) * v
      whole == Sign(along) * (Size(along) \div Grain)
      applied == Lesser(IF grounded THEN 3 ELSE 1, 8 - whole)
  IN IF applied > 0 THEN v + Sign(axis) * applied * Grain ELSE v

\* and without one
Slower(v, grounded) == Sign(v) * Greater(0, Size(v) - (IF grounded THEN 2 ELSE 1) * Grain)

StepsOn(v, axis, grounded) ==
  IF axis # 0 THEN Faster(v, axis, grounded) ELSE Slower(v, grounded)

\* Mutant: without a limit.
ElapsedUncapped(time) == Greater(0, time - Greater(Newest.at, nInput.at))

Elapsed(time) == Lesser(LocalAhead, Greater(0, time - Greater(Newest.at, nInput.at)))

IsPredicted(time) == nInput # NoInput /\ nHistory # <<>> /\ Newest.x # Gone /\ Elapsed(time) > 0

\* One tick with that input.
Moved(p, axis, grounded) ==
  LET v == StepsOn(p.v, axis, grounded) IN [x |-> p.x + v, v |-> v]

\* predictPendingLocalMovement, tick by tick from the newest snapshot
Predicted(time, grounded) ==
  LET ahead[k \in 0 .. Elapsed(time)] ==
        IF k = 0 THEN [x |-> Newest.x, v |-> Velocity] ELSE Moved(ahead[k - 1], nInput.axis, grounded)
  IN ahead[Elapsed(time)].x

\* currentLocalRenderPosition
DrawnLocal(time, grounded) ==
  IF IsPredicted(time) THEN Predicted(time, grounded)
  ELSE LET sample == Sample(time, LocalAhead) IN IF sample = Gone THEN nShown.x ELSE sample

-----------------------------------------------------------------------------
(* The server and the network. *)

\* A tick sends a snapshot.  The fighter walks, stands, is gone or is somewhere else.
ServerTicks ==
  /\ nServer.tick < MaxTick /\ Len(nWire) < MaxWire
  /\ \E x \in Places \cup {Gone} : nServer' = [tick |-> nServer.tick + 1, x |-> x]
  /\ nWire' = IF nUp THEN Append(nWire, nServer') ELSE nWire
  /\ UNCHANGED <<nTime, nUp, nHistory, nShown, nDelay, nInput>>

\* The server starts again, and its connections are gone.
ServerRestarts ==
  /\ nUp /\ nUp' = FALSE /\ nWire' = <<>> /\ nServer' = [tick |-> 1, x |-> 0]
  /\ UNCHANGED <<nTime, nHistory, nShown, nDelay, nInput>>

-----------------------------------------------------------------------------
(* The page. *)

Clock ==
  /\ nTime < MaxTime /\ nTime' = nTime + 1
  /\ UNCHANGED <<nServer, nWire, nUp, nHistory, nShown, nDelay, nInput>>

\* recordRemoteSnapshot: only one that is newer and arrives later than the last
RecordRemoteSnapshot(scene) ==
  IF nHistory # <<>> /\ (scene.tick <= Newest.tick \/ nTime <= Newest.at)
  THEN UNCHANGED <<nHistory, nDelay>>
  ELSE /\ LET all == Append(nHistory, [tick |-> scene.tick, at |-> nTime, x |-> scene.x])
          IN nHistory' = IF Len(all) > HistoryCap THEN Tail(all) ELSE all
       /\ IF nHistory = <<>> THEN UNCHANGED nDelay ELSE nDelay' \in Delays

\* applyAuthoritativeScene; the inputs the server has applied are no longer pending.
ApplyScene ==
  /\ nUp /\ nWire # <<>> /\ nWire' = Tail(nWire)
  /\ RecordRemoteSnapshot(Head(nWire))
  /\ nShown' = [tick |-> Head(nWire).tick, x |-> Head(nWire).x, at |-> nTime, here |-> TRUE]
  /\ nInput' \in {nInput, NoInput}
  /\ UNCHANGED <<nTime, nServer, nUp>>

\* sendGameplayInput
SendInput ==
  /\ nUp /\ nShown.here /\ \E axis \in Axes : nInput' = [axis |-> axis, at |-> nTime]
  /\ UNCHANGED <<nTime, nServer, nWire, nUp, nHistory, nShown, nDelay>>

\* Mutant: the snapshots of the last connection stay.
SnapshotsKept == nHistory

SnapshotsForgotten == <<>>

\* connect after the connection was lost, which calls disconnect; a scene is kept for a retry.
\* The server may have gone on, or have started again.
Reconnect ==
  /\ nUp' = TRUE /\ nWire' = <<>> /\ nHistory' = SnapshotsForgotten /\ nInput' = NoInput
  /\ nShown' \in {[nShown EXCEPT !.here = FALSE], [nShown EXCEPT !.here = FALSE, !.x = Gone]}
  /\ UNCHANGED <<nTime, nServer, nDelay>>

ActorNext == ServerTicks \/ ServerRestarts \/ Clock \/ ApplyScene \/ SendInput \/ Reconnect

ActorSpec == ActorInit /\ [][ActorNext]_nVars

-----------------------------------------------------------------------------
(* Properties. *)

Times == 0 .. MaxTime + MaxAhead + LocalAhead
NothingGone == \A k \in DOMAIN nHistory : nHistory[k].x # Gone
Recorded == {nHistory[k].x : k \in DOMAIN nHistory}

\* The snapshots that are kept end with the one that is shown, whatever the server's ticks
\* were before it started again; only one that arrives in the same instant as another is
\* left out.
HistoryFollows ==
  nShown.here => nHistory # <<>> /\ (Newest.tick = nShown.tick \/ Newest.at = nShown.at)

\* However late or bunched the snapshots arrive, a fighter is drawn between the places
\* they had it in, or as far beyond the newest as its last speed takes it in MaxAhead.
DrawnNear ==
  nHistory # <<>> /\ NothingGone =>
    \A time \in Times :
      \E low, high \in Recorded :
        LET older == nHistory[IF Len(nHistory) = 1 THEN 1 ELSE Len(nHistory) - 1]
            reach == IF Len(nHistory) = 1 THEN 0
                     ELSE (Size(Newest.x - older.x) * MaxAhead) \div (Newest.tick - older.tick)
        IN DrawnRemote(time) \in low - reach .. high + reach

\* As long as no snapshot arrives, a fighter that went one way is not drawn going back.
FramesRunForward ==
  nHistory # <<>> /\ NothingGone =>
    LET Rising(sign) == \A k \in 1 .. Len(nHistory) - 1 :
                          sign * nHistory[k].x <= sign * nHistory[k + 1].x
    IN \A sign \in {-1, 1} : Rising(sign) =>
         \A time \in Times : sign * DrawnRemote(time) <= sign * DrawnRemote(time + 1)

\* A player whom nothing arrives for is ahead of the newest snapshot for LocalAhead, and
\* then stands (docs/RUNNING_AND_PACKAGING.md:149).
PredictionStops ==
  nHistory # <<>> /\ Newest.x # Gone =>
    \A time \in Times, grounded \in BOOLEAN :
      time >= Greater(Newest.at, nInput.at) + LocalAhead =>
        DrawnLocal(time + 1, grounded) = DrawnLocal(time, grounded)

\* A prediction is never farther ahead than a walk from the speed of the newest snapshots
\* that gets three a tick faster, to less than nine: eight, and what the rounding leaves.
PredictionIsNear ==
  LET reach[k \in 0 .. LocalAhead] ==
        IF k = 0 THEN 0
        ELSE LET faster == Size(Velocity) + 3 * k * Grain
             IN reach[k - 1] + Greater(Size(Velocity), Lesser(9 * Grain - 1, faster))
  IN \A time \in Times, grounded \in BOOLEAN :
       IsPredicted(time) => Size(Predicted(time, grounded) - Newest.x) <= reach[Elapsed(time)]

\* What is drawn between and beyond the snapshots stays near them.
ActorsInv ==
  HistoryFollows /\ DrawnNear /\ FramesRunForward /\ PredictionStops /\ PredictionIsNear
=============================================================================
