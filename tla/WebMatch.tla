------------------------------ MODULE WebMatch ------------------------------
(***************************************************************************)
(* The authoritative web match: the connection table and the handlers of   *)
(* apps/web_server/main.kf together with the roster, training flag and     *)
(* respawn wave of src/session/web_multiplayer_simulation.kf.              *)
(*                                                                         *)
(* One thread runs the handlers and the tick, so a handler or a tick is    *)
(* one action.  Clocks are kept relative to the tick that reads them       *)
(* (left = matchPhaseEndsAt - serverTickValue, wave =                      *)
(* nextRespawnWaveTickValue - tickValue).  Movement and damage are         *)
(* abstracted to who falls in a tick and whether the body lies on a place  *)
(* the respawn search may choose; a living player may stand anywhere.      *)
(***************************************************************************)
EXTENDS Naturals, FiniteSets

CONSTANTS
  MaxConnections,    \* connectionUsed.length
  MaxPlayers,        \* webMultiplayerPlayerCapacity
  MaxSpectators,     \* spectator admission limit
  MaxTrainees,       \* players admitted while training
  MaxPlayerId,       \* the largest player id the server hands out
  SpawnCells,        \* distinct first spawn positions: lcm(4, 3) in the code
  ActiveTicks,       \* 2400
  IntermissionTicks, \* 300
  RespawnUnit,       \* ticks of respawn delay per connected player: 120
  RespawnCap         \* the most ticks a new respawn wave waits: 360

ASSUME MatchAssumption ==
  /\ {MaxConnections, MaxPlayers, MaxSpectators, MaxTrainees, MaxPlayerId,
      SpawnCells, ActiveTicks, IntermissionTicks} \subseteq Nat \ {0}
  /\ {RespawnUnit, RespawnCap} \subseteq Nat \ {0, 1}

Slots == 1 .. MaxConnections
Ids == 1 .. MaxPlayerId
Maps == {1, 2}
NoVote == 0

Route == {"free", "http", "session", "spectate", "admin"}
Seat == {"none", "player", "spectator"}

\* "out": not in the simulation.  A fallen player stays in the roster; its
\* body lies "clear" of the respawn places or "onSpawn", on one of them.
Fallen == {"clear", "onSpawn"}
Life == {"out", "alive"} \cup Fallen

VARIABLES
  up,       \* the process has not exited
  route,    \* connectionUsed and the route a connection was upgraded on
  seat,     \* connectionJoined and connectionSpectators
  pid,      \* connectionPlayerIds of the seated players; 0 where the code
            \* leaves an id it does not read before the next admission
  vote,     \* connectionMapVote
  nextId,   \* nextPlayerIdValue
  phase,    \* matchPhaseValue
  left,     \* ticks until matchPhaseEndsAt, 0 when it has passed
  map,      \* the arena of the simulation
  life,     \* the simulation's player of every id
  training, \* trainingModeValue
  wave      \* ticks until the respawn wave, 0 when none is scheduled

conns == <<route, seat, pid, vote, nextId>>
match == <<phase, left, map>>
arena == <<life, training, wave>>
vars == <<up, conns, match, arena>>

TypeOK ==
  /\ up \in BOOLEAN
  /\ route \in [Slots -> Route]
  /\ seat \in [Slots -> Seat]
  /\ pid \in [Slots -> 0 .. MaxPlayerId]
  /\ vote \in [Slots -> Maps \cup {NoVote}]
  /\ nextId \in 1 .. MaxPlayerId + 1
  /\ phase \in {"active", "intermission"}
  /\ left \in Nat
  /\ map \in Maps
  /\ life \in [Ids -> Life]
  /\ training \in BOOLEAN
  /\ wave \in 0 .. RespawnCap

Init ==
  /\ up = TRUE
  /\ route = [s \in Slots |-> "free"]
  /\ seat = [s \in Slots |-> "none"]
  /\ pid = [s \in Slots |-> 0]
  /\ vote = [s \in Slots |-> NoVote]
  /\ nextId = 1
  /\ phase = "active" /\ left = ActiveTicks /\ map = 1
  /\ life = [i \in Ids |-> "out"]
  /\ training = FALSE /\ wave = 0

-----------------------------------------------------------------------------
(* Connections. *)

Roster(l) == {i \in Ids : l[i] # "out"}
Players == Roster(life)
Seated(kind) == {s \in Slots : seat[s] = kind}

\* The roster once the ids in gone have been through removePlayer.
Without(l, gone) == [i \in Ids |-> IF i \in gone THEN "out" ELSE l[i]]

\* Mutant: training that only a map change ends.
TrainingKept(tr, l, gone) == tr

\* removePlayer ends training when it empties the roster.
TrainingAfter(tr, l, gone) == tr /\ (gone = {} \/ Roster(l) \ gone # {})

\* reserve: the first unused slot.
Connect(s) ==
  /\ up
  /\ route[s] = "free"
  /\ \A t \in Slots : t < s => route[t] # "free"
  /\ route' = [route EXCEPT ![s] = "http"]
  /\ seat' = [seat EXCEPT ![s] = "none"]
  /\ vote' = [vote EXCEPT ![s] = NoVote]
  /\ UNCHANGED <<up, pid, nextId, match, arena>>

Upgrade(s, r) ==
  /\ up
  /\ route[s] = "http"
  /\ r \in {"session", "spectate", "admin"}
  /\ route' = [route EXCEPT ![s] = r]
  /\ UNCHANGED <<up, seat, pid, vote, nextId, match, arena>>

SeatedIds == {pid[s] : s \in Seated("player")}

\* Mutant: a release that forgets the simulation.
RemovedNone(lost) == {}

\* The player ids that release takes out of the simulation.
Removed(lost) == {pid[s] : s \in lost \cap Seated("player")}

\* Whatever ends a connection (the peer, the idle limit, a rejected frame, a
\* failed send) reaches release exactly once.
Leave(s) ==
  /\ up
  /\ route[s] # "free"
  /\ route' = [route EXCEPT ![s] = "free"]
  /\ seat' = [seat EXCEPT ![s] = "none"]
  /\ pid' = [pid EXCEPT ![s] = 0]
  /\ life' = Without(life, Removed({s}))
  /\ training' = TrainingAfter(training, life, Removed({s}))
  /\ UNCHANGED <<up, vote, nextId, match, wave>>

-----------------------------------------------------------------------------
(* Joining. *)

\* Training is switched on by the first trainee, before it is admitted.
Trains(role) == training \/ (role = "training" /\ Players = {})

HasRoom(role) ==
  /\ nextId <= MaxPlayerId
  /\ CASE role = "player" -> ~training /\ Cardinality(Players) < MaxPlayers
       [] role = "training" -> Trains(role) /\ Cardinality(Players) < MaxTrainees
       [] role = "spectator" -> Cardinality(Seated("spectator")) < MaxSpectators

RolesOf(r) == CASE r = "session" -> {"player", "training"}
                [] r = "spectate" -> {"spectator"}
                [] OTHER -> {}

Asks(s, role) == up /\ seat[s] = "none" /\ role \in RolesOf(route[s])

JoinAccepted(s, role) ==
  /\ Asks(s, role) /\ HasRoom(role)
  /\ nextId' = nextId + 1
  /\ IF role = "spectator"
     THEN /\ seat' = [seat EXCEPT ![s] = "spectator"]
          /\ UNCHANGED <<pid, life>>
     ELSE /\ seat' = [seat EXCEPT ![s] = "player"]
          /\ pid' = [pid EXCEPT ![s] = nextId]
          /\ life' = [life EXCEPT ![nextId] = "alive"]
  /\ training' = Trains(role)
  /\ UNCHANGED <<up, route, vote, match, wave>>

\* No room, or addPlayer finds a player of the arena on the spawn position.
\* The refusal is answered and the connection closed once it is sent; frames
\* already queued may ask again before that.
JoinRefused(s, role) ==
  /\ Asks(s, role)
  /\ ~HasRoom(role) \/ (role # "spectator" /\ Players # {})
  /\ training' = Trains(role)
  /\ UNCHANGED <<up, conns, match, life, wave>>

\* Admitted, but the answer or the chat history cannot be sent: the handler
\* fails and the connection is released with the seat it just got.
JoinUnanswered(s, role) ==
  /\ Asks(s, role) /\ HasRoom(role)
  /\ nextId' = nextId + 1
  /\ route' = [route EXCEPT ![s] = "free"]
  /\ UNCHANGED <<up, seat, pid, vote, match, arena>>

-----------------------------------------------------------------------------
(* Votes and administration. *)

CastVote(s, m) ==
  /\ up
  /\ seat[s] = "player"
  /\ phase = "intermission"
  /\ vote' = [vote EXCEPT ![s] = m]
  /\ UNCHANGED <<up, route, seat, pid, nextId, match, arena>>

\* The kicked connection stays open until its output has drained.
Kick(a, t) ==
  /\ up
  /\ route[a] = "admin"
  /\ seat[t] = "player" /\ pid[t] \in Players
  /\ seat' = [seat EXCEPT ![t] = "none"]
  /\ pid' = [pid EXCEPT ![t] = 0]
  /\ life' = Without(life, {pid[t]})
  /\ training' = TrainingAfter(training, life, {pid[t]})
  /\ UNCHANGED <<up, route, vote, nextId, match, wave>>

\* webBeginMapIntermission
BeginIntermission ==
  /\ phase' = "intermission"
  /\ left' = IntermissionTicks
  /\ vote' = [s \in Slots |-> NoVote]
  /\ UNCHANGED map

StartMapVote(a) ==
  /\ up
  /\ route[a] = "admin"
  /\ phase = "active" /\ ~training
  /\ BeginIntermission
  /\ UNCHANGED <<up, route, seat, pid, nextId, arena>>

-----------------------------------------------------------------------------
(* The tick: phase change, inputs, advanceTick, snapshots. *)

Alive(l) == {i \in Ids : l[i] = "alive"}
Dead(l) == {i \in Ids : l[i] \in Fallen}

\* Mutant: the cap is forgotten.
IntervalUncapped(l) == Cardinality(Roster(l)) * RespawnUnit

\* respawnWaveIntervalTicks; somebody fell, so the roster is not empty.
Interval(l) == LET n == Cardinality(Roster(l)) * RespawnUnit
               IN IF n > RespawnCap THEN RespawnCap ELSE n

\* Mutant: a death that schedules nothing.
ScheduleNever(w, l, fell) == w

\* scheduleRespawnWave, with the wave w ticks away or not scheduled at all.
Schedule(w, l, fell) == IF fell # {} /\ w = 0 THEN Interval(l) ELSE w

Falls(l, fell, onSpawn) ==
  [i \in Ids |-> IF i \notin fell THEN l[i]
                 ELSE IF i \in onSpawn THEN "onSpawn" ELSE "clear"]

\* respawnPlayer for every fallen player.
Respawned(l) == [i \in Ids |-> IF l[i] \in Fallen THEN "alive" ELSE l[i]]

\* Respawning removes the player first: alone in the roster, that ends training.
TrainingRespawned(tr, l) == tr /\ (Dead(l) = {} \/ Cardinality(Roster(l)) > 1)

\* The respawn search keeps away from living players only, addPlayer refuses a
\* position any other player of the roster is on.
BodyInTheWay(l) == \E p, q \in Dead(l) : p # q /\ l[q] = "onSpawn"

\* webBroadcastSnapshots closes and releases every connection it cannot serve.
Broadcast(l, tr, lost) ==
  /\ route' = [s \in Slots |-> IF s \in lost THEN "free" ELSE route[s]]
  /\ seat' = [s \in Slots |-> IF s \in lost THEN "none" ELSE seat[s]]
  /\ pid' = [s \in Slots |-> IF s \in lost THEN 0 ELSE pid[s]]
  /\ life' = Without(l, Removed(lost))
  /\ training' = TrainingAfter(tr, l, Removed(lost))

\* The end of a tick: the respawn wave when it is due, then the snapshots.
Settle(l, tr, due, lost) ==
  IF due
  THEN \/ /\ up' = TRUE
          /\ Broadcast(Respawned(l), TrainingRespawned(tr, l), lost)
       \/ /\ BodyInTheWay(l)
          /\ up' = FALSE
          /\ life' = l
          /\ UNCHANGED <<route, seat, pid, training>>
  ELSE up' = TRUE /\ Broadcast(l, tr, lost)

\* applyInputFrame for every player (inputs), then advanceTick with its
\* projectiles (shots) and its respawn wave.
Advance(l, tr, w) ==
  /\ \E inputs \in SUBSET Alive(l) : \E shots \in SUBSET (Alive(l) \ inputs) :
     \E onSpawn \in SUBSET (inputs \cup shots) :
     \E lost \in SUBSET (Seated("player") \cup Seated("spectator")) :
       LET w1 == Schedule(w, l, inputs)
           w2 == IF w1 = 0 THEN 0 ELSE w1 - 1
           w3 == Schedule(w2, l, shots)
       IN /\ wave' = w3
          /\ Settle(Falls(l, inputs \cup shots, onSpawn), tr, w1 > 0 /\ w3 = 0, lost)
  /\ UNCHANGED nextId

\* Mutants: a deadline met only on its own tick; a map change that waits for
\* players.
BreakDueOnce == phase = "active" /\ left = 1 /\ Players # {} /\ ~training
MatchDueWithPlayers == phase = "intermission" /\ left <= 1 /\ Players # {}

BreakDue == phase = "active" /\ left <= 1 /\ Players # {} /\ ~training
MatchDue == phase = "intermission" /\ left <= 1

TickPlays ==
  /\ up /\ ~BreakDue /\ ~MatchDue
  /\ Advance(life, training, wave)
  /\ left' = IF left = 0 THEN 0 ELSE left - 1
  /\ UNCHANGED <<phase, map, vote>>

TickBreaks ==
  /\ up /\ BreakDue
  /\ Advance(life, training, wave)
  /\ BeginIntermission

\* Mutant: every connection that ever voted counts.
VotesOfAll(m) == Cardinality({s \in Slots : vote[s] = m})

\* webMapVoteCount: spectators and connections without a seat do not count.
Votes(m) == Cardinality({s \in Seated("player") : vote[s] = m})

Elected == IF Votes(2) > Votes(1) THEN 2
           ELSE IF Votes(1) > Votes(2) THEN 1 ELSE map

\* The position a joining or restored player is added at.
SpawnOf(i) == i % SpawnCells

\* Nobody is removed between two addPlayer calls of a transition, so a second
\* player on the same position is refused.
SpawnsFree == \A i, j \in SeatedIds : SpawnOf(i) = SpawnOf(j) => i = j

\* webTransitionMap and the rest of the tick: resetForMatch empties the arena,
\* then every seated player is added again.
TickTransitions ==
  /\ up /\ MatchDue /\ SpawnsFree
  /\ phase' = "active" /\ left' = ActiveTicks /\ map' = Elected
  /\ vote' = [s \in Slots |-> IF seat[s] = "player" THEN NoVote ELSE vote[s]]
  /\ Advance([i \in Ids |-> IF i \in SeatedIds THEN "alive" ELSE "out"],
             FALSE, 0)

\* webTransitionMap returns false, webTick returns false, the process exits.
TransitionFails ==
  /\ up /\ MatchDue /\ ~SpawnsFree
  /\ up' = FALSE
  /\ UNCHANGED <<conns, match, arena>>

Tick == TickPlays \/ TickBreaks \/ TickTransitions \/ TransitionFails

-----------------------------------------------------------------------------
Next ==
  \/ \E s \in Slots :
       \/ Connect(s)
       \/ \E r \in Route : Upgrade(s, r)
       \/ Leave(s)
       \/ \E role \in {"player", "training", "spectator"} :
            JoinAccepted(s, role) \/ JoinRefused(s, role) \/ JoinUnanswered(s, role)
       \/ \E m \in Maps : CastVote(s, m)
       \/ \E t \in Slots : Kick(s, t)
       \/ StartMapVote(s)
  \/ Tick

\* The main loop ticks whenever the deadline has passed, events or not.
Spec == Init /\ [][Next]_vars /\ WF_vars(Tick)

-----------------------------------------------------------------------------
(* Properties. *)

\* The simulation holds exactly the seated players, one seat each: no path of
\* joining, leaving, kicking, failing sends, waves or map changes leaks a
\* player or leaves a seat without one.
SeatsMatchPlayers ==
  /\ Players = SeatedIds
  /\ \A s, t \in Seated("player") : pid[s] = pid[t] => s = t

\* A fallen player always has a respawn wave to wait for: nothing clears the
\* shared wave while somebody needs it.
FallenAwaitWave == up /\ Dead(life) # {} => wave > 0

\* Training never outlives its trainees, unless the ids have run out (the flag
\* is raised before the id is checked).
TrainingHasPlayers == training /\ nextId <= MaxPlayerId => Players # {}

\* What is left of the match agrees with its roster.
TrainingInv == TypeOK /\ TrainingHasPlayers

\* The next map is the current one or was voted for by a player still seated:
\* a vote goes with its voter.
ElectedBySeated ==
  [][map' # map => \E s \in Seated("player") : vote[s] = map']_vars

\* Every intermission comes to an end, whoever joins or leaves meanwhile.
IntermissionEnds == phase = "intermission" ~> (phase = "active" \/ ~up)

\* A match that keeps having players reaches its map vote.
PlayersReachIntermission ==
  <>[](up /\ Players # {} /\ ~training) => []<>(phase = "intermission")

\* The phases of the match go on, to a map that was voted for.
PhasesGoOn == ElectedBySeated /\ IntermissionEnds /\ PlayersReachIntermission

-----------------------------------------------------------------------------
(* What the documentation says of the server. *)

\* A due map change resets the match and goes on ("Each transition respawns
\* players and resets match state").
TransitionCompletes == [][Tick /\ MatchDue => up']_vars

\* A scheduled respawn wave comes at its time (the wave is "capped at six
\* seconds"): a tick never moves it away again.
WaveKeepsItsTime == [][Tick /\ ~MatchDue /\ wave > 0 => wave' < wave]_vars

\* Fallen players are respawned, not the end of the server ("Eliminated
\* players respawn together at full health").
WaveRespawns == [][Tick /\ ~MatchDue => up']_vars
=============================================================================
