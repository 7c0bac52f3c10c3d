# Verification of KOOKIE

TLA+ modules of the parts of KOOKIE (a game engine in Kof and C with multiplayer,
durable saves, a worker pool and browser clients) whose correctness depends on the
order in which things happen. TLC checks every module on a small instance; TLAPS
proves most of the invariants for every value of the constants.

    tlc -config MCHost.cfg MCHost      # any MC module with one of its cfg files
    tlapm JobProofs.tla                # any *Proofs module

`PROJECT.json` lists the components, the runs, for every property the mutants it must
catch (a mutant is a plausible bug in one mapped definition), the source lines of every
definition, the hazards, the findings and the theorems.

Contents: 1 the system; 2 the modules; 3 the runs, with bounds, deadlock and
fairness; 4 what is proved; 5 what is only model-checked; 6 what is not modelled;
7 findings; 8 what is left.

## 1. The system

| Part | State | Operations | Talks to | Module |
|---|---|---|---|---|
| Native job pool (`native/kookie_jobs.c`) | job table, ring of tokens, stopping flag, threads | open, submit, poll, release, close; worker loop | owner thread and workers under one mutex and condition | `JobPool` |
| Job graph (`src/core/job_graph.kf`) | descriptors, generation, fold | begin, add, accept, commitAvailable | the pool, through the owner loop of `probes/g6_jobs` | `SafeJobs`, `OrderedFold` |
| Native publication of saves (`native/kookie_persistence_adapter.c`) | staging and target files | exclusive create, write, remove, publish (sync, rename, sync directory) | the file system | `SaveDisk` |
| Packaged client's save owner (`probes/shared/pe_durable_save_coordinator.kf`) | prepared flag, expected sections | bind, recover, restore, publish | native publication | `HostSave` |
| Durable save library (`durable_save_file.kf`, `durable_save_coordinator.kf`) | staged path and revision | stage, confirm, cancel, discard, restore | native publication | `DurableSave` |
| WAN channel (`src/session/wan_transport.kf`) | window of slots, sequences, retries | submit, pollTransmit, receiveFrame, acknowledge | its peer, over datagrams | `WanChannel` |
| Dedicated host and clients (`dedicated_server_transport.kf`, `native/kookie_transport.c`, `probes/g5_dedicated_network`) | admissions, views, the processes' places | offer, request, publish in chunks, leave and return | each other, over authenticated datagrams | `DedicatedNet` |
| Native web transport (`native/kookie_web_server.c`) | connection entries, event ring | accept, read, write; poll_event, upgrade, output, close | network thread and main thread under one mutex | `WebTransport` |
| Web match (`apps/web_server/main.kf`, `web_multiplayer_simulation.kf`) | connection table, seats, votes, phase clock; roster, training, respawn wave | frame handlers, `webTick` | native web transport | `WebMatch` |
| Chat of the web match (`main.kf`) | ring of messages, each connection's last chat tick | chat frames, replay | its connections | `WebChat` |
| Native client of the match (`native/kookie_kutter_sync.c`, `NativeWebGameClient`) | session epoch, one pending message, ring of received ones | open, send, poll, close; worker | its own workers, the server | `KutterSync` |
| Lobby (`src/session/lobby_server.kf`) | seats, gallery, owner, bindings, chat ring | join, leave, bots, teams, whisper | | `Lobby` |
| Browser session (`apps/web_alpha/session_transport.js`) | current socket and forgotten ones, admission, retry timer, scene | connect, socket callbacks, retry, disconnect | the server's connections | `BrowserSession` |
| Browser play (same file, and the server's input) | sequence, pending frames, looks | send, read, tick, show | server, snapshots | `BrowserPlay` |
| Drawing between snapshots (same file) | history of snapshots | interpolate, extrapolate, predict | | `RemoteActors` |
| Words of a snapshot (`main.kf` and same file) | | write; validate, parse for the page, parse for a bot | | `SnapshotLayout` |
| Browser controls (same file) | keys, clicks, stick, held actions | key, click, stick, blur, death, loss | the server's held actions | `BrowserInput` |
| Bot battle, bots (same file) | list of bots, their sockets; phase of a throw | start, tick, stop; decide | the server | `BotBattle`, `BotDecision` |
| Hit effects (simulation, page, `webgl_renderer.js`) | impact list; three lists of what was shown | hit, snapshot, show | | `HitEffects` |
| Spectator (page) | choice, camera, feed of falls | choose, snapshot, reconnect | | `Spectator` |
| Touch layout (page) | layout, presets, storage | drag, save, choose, resize, reload | localStorage | `TouchLayout` |
| Kutter editor (`main.kf`, `kutter_studio.kf`, `kutter_editor.js`) | the shared document with its history; each page's queue and copy | commands, uploads, broadcasts, time-outs | pages through the server | `KutterEditor` |
| Kutter document (`kutter_studio.kf`, `behavior_program.kf`, `bounded_graph.kf`, `kutter_editor.js`) | words of a document and of its behaviour program | encode, seal; decode, check, compile | | `KutterDocument` |
| Project library (`kutter_editor.js`) | each tab's list, localStorage | save, rename, delete, export, import | other tabs, through localStorage | `ProjectLibrary` |
| Kutter renderer (`webgl_renderer.js`, `kutter_editor.js`) | models, loads, GPU | prepare, load ends, pick, destroy | asynchronous loads | `RendererModels` |

The remaining parts (remote link, dedicated server step, netcode histories, sessions,
inventory and combat, physics, content pipeline, registries, replay, presentation,
scripts) are in `PROJECT.json` as `not_modelled` with the reason: sequential, numerical,
presentational, or called by tests only.

What is hard, and what makes each part correct:

* *Job pool and graph*: a worker parks while somebody submits or closes; slots are reused
  while older completions are unreported; completions come out of order and from batches
  that were abandoned. No wake-up is lost, no job runs twice or not at all, closing drains
  the ring and returns, the fold is in ordinal order.
* *Saves*: kills, power losses and failing calls at every step. The target is whole, a
  reported save survives, and a leftover never stops saving.
* *WAN channel, dedicated transport*: datagrams lost, repeated and overtaken, slots and
  generations reused. Delivery is in order and once, what a client shows is one tick's
  state, and both sides mean the same generation.
* *Web transport*: the event ring fills while connections die, and the main thread handles
  old events. Every death is announced, no entry is reused while events mention it.
* *Web match, chat, lobby*: joining, leaving, kicks, failing sends, votes, waves, map
  changes and messages interleave. Seats and players agree, the fallen are respawned, every
  phase ends, a message reaches exactly those it is for, a room has an owner in it.
* *Native client*: workers of earlier sessions still run when a session is opened. A
  session sees and sends only its own messages, in sequence.
* *Browser*: callbacks of forgotten sockets, retries and the user; inputs numbered anew
  while frames are under way; snapshots missed, bunched or of another match; storage that
  refuses or is written by another tab; loads that end after they were wanted.

## 2. Modules

State keeps the source's names; a comment at each variable says which. The modules
that a composite combines prefix theirs with a letter (`k` for the editor, `b` for the
battle and so on).

**JobPool.** One action per critical section. `owner` is the program counter of the owner
thread, `wpc`/`holds` those of the workers, `parked` the threads in `kookie_jobs_wait`,
`queue` the ring, `slot`/`job` the table. A failing `pthread_create` is `CreateFails`.
**SafeJobs** adds the graph and the owner loop and implements **OrderedFold**, the promise
of `docs/ARCHITECTURE.md` ("a strict ordinal owner fold").

**SaveDisk** is the POSIX file system seen by one save, and `kookie_durable_publish` step by
step. `exposed` holds the directories that a power loss may reveal; a file that was not
synced may then be torn. **HostSave** and **DurableSave** extend it with the two owners of a
save, **Saves** puts them side by side; both implement **AtomicSave**: one whole save whose
revision only grows, and falls back on a power loss at most to what was made durable.

**WanChannel** has the sender's ring, the receiver and a network of sets of frames and
acknowledgements (a set repeats and reorders by itself; `Lose` removes). `submitted` and
`delivered` are history variables. **DedicatedNet** has a program counter for the host and
each client, their admissions and views, and the datagrams on the wire; a state is the tick
it is of, sent in `Chunks` datagrams. A process that meets what it does not expect ends, as
the probe's assertions do.

**WebTransport.** Each native call holds the mutex, so a call is an action. The main thread
holds at most one event (`cur`) and can be overtaken by the network thread between the calls
of its handler. **WebMatch.** The main thread runs handlers and ticks one after the other,
so each is one action. Clocks are relative to the tick that reads them, which keeps the
state finite without a limit on running time. Movement and damage are abstracted to who
falls; `up` becomes FALSE when `main` calls `process.exit`. The two meet in `release`:
`WebMatch!Leave` is what the main thread does when `WebTransport` hands it a closing.
**WebChat** has the ring, the places of the connections and what each has been sent;
**Lobby** the room, the bindings that outlive it and the whispers.

**KutterSync** has the main thread, the worker of the current session and one of an earlier
one, each with a program counter between two locks, and the server's end of each
connection.

**BrowserSession** has the sockets of a page, by an id that is used again, with their two
ends, and the page's flags. **BrowserPlay** follows one player's looks from the page through
frames and ticks to snapshots; looks add up, so one that is lost or counted twice shows. The
page reads the server's acknowledgement and leaves it out of the scene (section 7), so what a
scene acknowledges is 0 (`LastInputSequence`); the history field `ack` keeps what the server said.
**RemoteActors** compares what is drawn with the places in the snapshots that are kept.
**SnapshotLayout** writes the words as `main.kf` does and reads them with the three readers
of the page. **BrowserInput**, **HitEffects**, **Spectator**, **TouchLayout** and
**RendererModels** are one action per event handler.

**BotBattle** is the console command with its promises and time-outs; **BotDecision** one
bot's throw, between frames and scenes that are under way. The bot gives a pick-up up by the
clock alone (500 ms), so at any decision, whatever answer is still on its way; the history
variable `tLate` marks such a throw until bot and server have agreed again.

**KutterEditor** has the live document with undo and redo, each page's queue of commands and
the one request on the wire. **KutterDocument** encodes, seals, decodes and checks all four
versions of the layout. `ServerAccepts` is all that `decodeDocumentWords` asks: the header and
its ranges, the reserved word of each node, what `configure`, `addNode` and the setters of
scale, colour and asset take (`NodeTaken`), parents that are nodes and on no cycle, the assets,
the behaviour program (decoded, its graph sorted, its tree compiled to the rules in the words,
budget and seal: `ProgramTaken`), and last the seal, over the words for an older version and
over what the studio now holds for version 4 (`Adopted`). **ProjectLibrary** has a list per tab
and what is stored.

**MCHost, MCConnections, MCWebServer, MCBrowserGame, MCBrowserParts** compose modules that
share no state: a behaviour is one of a single part, chosen in the initial state (`part`),
and the other parts stay as they were. Nothing is assumed of one part by another, so the
composition adds only up; it gives one run per question instead of one per module.

## 3. Runs

| Run | Parts | States it explores |
|---|---|---|
| `host` (MCHost) | pool, graph, gameplay saves, library saves | threads and files of the native processes |
| `connections` (MCConnections) | channel, sockets, rate and audience of the chat, dedicated | what passes over the connections |
| `web_server` (MCWebServer) | match, native client, lobby | the match, its clients, the room |
| `browser_game` (MCBrowserGame) | session, play, remote, battle | the page during a game |
| `browser_parts` (MCBrowserParts) | layout, input, hits, spectator, touch, bot, editor, document, library, renderer | what pages do on their own |
| `web_match_transition`, `_wave`, `_respawn` (MCWebMatch), `web_chat_rate` (MCWebChat), `native_join` (KutterSync), `browser_play_returns` (BrowserPlay), `snapshot_layout` (MCSnapshotLayout) | one module | findings, section 7 |

Several properties are conjunctions of named parts:

| Run | Property | Its parts |
|---|---|---|
| `host` | `JobsInv` | `TypeOK`, `SlotOwnership`, `GraphTypeOK`, `WaitingIsPooled` |
| | `NoLostWakeup`, `ImplementsOrderedFold`, `ImplementsAtomicSave` | |
| | `JobsFinish` | `CloseDrains`, `EveryJobExecuted`, `CloseReturns` |
| | `SavesInv` | `HostTypeOK`, `LibraryTypeOK`, `TargetNeverTorn`, `ConfirmedSurvives`, `ResumesConfirmed`, `PreparedIsOnDisk` |
| | `SavesGoOn` | `SavesContinue`, `RestoreNeverGoesBack` |
| `connections` | `WindowInv` | `ChannelTypeOK`, `WindowIsExact` |
| | `ReliableDelivery` | `DeliveredInOrder`, `AckedWasDelivered` |
| | `EntriesAgree` | `OwedOnlyWhenFull`, `EventsAreOfUsed`, `TableIsUsed` |
| | `ConnectionsServed` | `TypeOK`, `ReserveSucceeds`, `OpenIsServed` |
| | `ChatReaches` | `ChatTypeOK`, `NothingMissed`, `ChatIsPrivate` |
| | `DedicatedInv` | `ShownIsOneState`, `SidesAgree` |
| | `SpeaksInTurn` | |
| | `EverythingSettles` | `SenderSettles`, `DeadIsCleared`, `EverybodyEnds` |
| `web_server` | `SeatsMatchPlayers`, `FallenAwaitWave` | |
| | `TrainingInv` | `TypeOK`, `TrainingHasPlayers` |
| | `SyncInv` | `SyncTypeOK`, `OwnSession` |
| | `LobbyInv` | `LobbyTypeOK`, `OwnerIsHuman`, `RosterIsDistinct`, `BindingsHold`, `WhispersArePrivate` |
| | `PhasesGoOn` | `ElectedBySeated`, `IntermissionEnds`, `PlayersReachIntermission` |
| | `ClientGoesOn` | `InSequence`, `StaleWorkersEnd`, `InputsGoOut` |
| `browser_game` | `SessionInv` | `TypeOK`, `ReadyIsAdmitted`, `RetryIsAlone`, `NewestIsShown` |
| | `PlayInv` | `PlayTypeOK`, `HeldAreNewest`, `OffByPending` |
| | `BattleInv` | `NoStrayBot`, `BattleIsWhole` |
| | `ActorsInv` | `HistoryFollows`, `DrawnNear`, `FramesRunForward`, `PredictionStops`, `PredictionIsNear` |
| | `LossIsHandled` | `LossKeepsScene`, `RetriesEnd` |
| | `FramesCount` | `LookKept`, `RespawnIsExact`, `InputsArrive`, `RefusedAtWrap` |
| | `CommandSettles` | |
| `browser_parts` | `LayoutInv` | `SceneReadsBack`, `ActorReadsBack`, `CheckedAsRead` |
| | `NothingStuck` | |
| | `HitsInv` | `ShownOnce`, `HitsAreShown`, `NumbersGoAway` |
| | `SpectatorInv` | `ChoiceIsKept`, `CameraOnTheLiving`, `FeedTellsFalls` |
| | `TouchInv` | `ReloadKeepsLayout`, `ControlsOnScreen` |
| | `ThrowInv` | `ThrowIsCharged`, `AimsAtTarget` |
| | `EditorInv` | `KTypeOK`, `NoEditMissed`, `ShownIsWhole`, `ImportIsOneUpload`, `OneTimeline` |
| | `DocumentInv` | `DocumentReadsBack`, `SealHolds` |
| | `ProjectsInv` | `StoredIsShown`, `LibraryRestorable` |
| | `ModelsInv` | `ModelsAreHeld`, `PreviewIsPicked` |
| | `EditingGoesOn` | `QueueDrains`, `ImportPreserves` |

### Bounds, and why they are enough

* `host`: two workers give every race of a worker with another and with the owner; three
  slots leave one free while two are busy. The graph has two slots, two generations and
  batches of two, so the jobs of an abandoned batch can fill the table. Five (three) inodes
  cover the files of every directory a power loss can reveal; `MaxFaults` 3 (2) allows a fault
  while the damage of an earlier one is still on disk; `MaxRevision` 4 stands for 1000000,
  `MaxTick` 1 for the length of a session. The library's host skips revision 3.
* `connections`: a window of 2 with 4 sequences uses every slot twice, the least for which an
  old frame and a new one meet in one slot; retry limit 2, timeout 1; of two payloads the
  first is fixed, as they are alike. Two sockets, three ids
  and a ring of 3 let an entry be reused and every path with a full ring occur. The chat has
  three chatters, a ring of 2 (32 in the code) that 3 messages wrap, a spacing and a shortest
  match of 2 ticks; `rate` keeps to two chatters who speak to all, `audience` to one who speaks
  to anybody within a tick. The dedicated host runs three ticks, the second client leaves at
  the second; two chunks and two faults of the network.
* `web_server`: two connections allow two players, a player and a spectator, or a player and
  an administrator. `MaxPlayerId` 3 with `SpawnCells` 2 (12 in the code, the period of
  `(id % 4, id % 3)`) gives out one spawn position twice. The clocks (`ActiveTicks` 2400,
  `IntermissionTicks` 300, `RespawnUnit` 120, `RespawnCap` 360 in the code) only have to be
  long enough for something to happen in between: 2, 2, 2, 3. The client has one place in each
  ring, sequences that wrap after 3 and connections that may break, with the worker of one
  earlier session. The lobby has two seats, one place in the gallery, three ids, two
  identities and a chat ring of one.
* `browser_game`: two sockets (the current one and a forgotten one; more forgotten ones do not
  meet each other), two attempts, two snapshots. Play: sequences wrap after 4, two pending
  frames, two on the wire, looks counted in halves of a degree and turns of 3. Battle: four
  bots, teams of two. Drawing: a history of 2, three instants, four ticks; the places
  0 and 78 (six and a half of the world at `Grain` 12) leave nothing in any division by a time.
* `browser_parts`: up to 8 actors and 4 slices reach both numbers of words that two layouts
  share. Lists of 2, 4 and 2 impacts (8, 32 in the code), three hits, two matches, the second
  shorter. Two fighters, a feed of one, two falls. Two controls, two names, two margins. A
  throw of 2 ticks, counted to 3; two frames and two scenes under way; directions in multiples
  of 15 degrees. Documents of one or two nodes with coordinates of both signs, an asset or
  none, and five programs: those of the cards and one whose ids are not in the order of its tree.
  Two tabs, two projects, two names; two assets and three loads; two editors with a document
  of up to three nodes, a history and a queue of two and one lost answer.

The proved properties (section 4) hold for all values of the constants.

### Deadlock

Checked in `host`. Elsewhere the system really may stop: everything submitted is settled,
the ids of the instance are used up, the match's process has exited, pages have left.

### Fairness, and why the code justifies it

* `host`: workers run (threads of a preemptive system) and joins return; the probe's owner
  loop polls and admits. Recovering, restoring and leaving end (system calls return), and
  the player goes on entering gameplay (`SF(Bind)`: whoever is refused tries again some time).
  Nothing is assumed of submitting; faults are bounded.
* `connections`: the owner of the sender polls every tick; the main loop polls its events for
  ever and each handler is a finite program; host and clients of the dedicated match run.
  Nothing is assumed of the network, the network thread or the peers.
* `web_server`: `WF(Tick)`, since the main loop runs a tick whenever its deadline has passed,
  whatever events there are; the native client's frame runs, its workers run (threads), and
  the server reads, closes idle connections and sends snapshots.
* `browser_game`: timers fire; a socket that is connecting opens or closes; what has arrived is
  received; the server reads, drops the connections it is to drop, and collects; each frame is
  read, applied or refused; ticks come. Nothing is assumed of the user. In the battle, the
  configuration loads and a bot that gets no answer times out.
* `browser_parts`: the time-out of each editor page fires.

Each condition is guarded with `part = ...`, so it obliges only behaviours of its part.

## 4. What is proved

42 theorems in eight modules, each for every value of the constants that satisfies the
module's named assumption (`PoolAssumption`, `DiskAssumption`, ...). These say that the
constants are numbers of the ranges the code has (a capacity is positive, the respawn
interval is at least one tick); TLC evaluates all of them in the runs.

Each invariant is proved from an inductive one: `Init => IInv`,
`IInv /\ [Next]_vars => IInv'`, `IInv => Inv`. What had to be added, and why:

| Module | Theorem | Of | Argument |
|---|---|---|---|
| `JobProofs` | `TypeCorrect`, `NoWakeupIsLost` | `TypeOK`, `NoLostWakeup` | inductive as they stand: test and wait are one critical section, and every change a sleeper waits for broadcasts |
| | `JobsAreOwnedOnce` | `SlotOwnership` | a slot leaves the free ones only for the end of the ring, the ring only for the one worker that takes its head |
| | `CloseDrainsTheRing` | `CloseDrains` | a thread leaves only behind an empty ring, and after `stopping` nothing is submitted |
| | `WaitingJobsArePooled` | `JobsInv` | `GraphInv`: the generation of a table entry tells whether its descriptor is of this batch; the committed descriptors are a prefix |
| | `GraphFoldsInOrder` | safety half of `ImplementsOrderedFold` | each step of the graph is a step of the fold or a stutter, from `GraphInv` |
| `SaveProofs` | `SavesStaySafe` | `SavesInv` | `DiskInv` (no directory a power loss may reveal is newer than the current one) with `HostOrder`/`LibraryOrder`, which tie the place in the native publication to what is staged: synced before renamed, directory synced before success |
| | `RestoringNeverGoesBack` | `RestoreNeverGoesBack` | what was restored is not newer than what is published |
| | `SavesAreAtomic` | `ImplementsAtomicSave` | every step leaves the set of revealable revisions alone, adds a newer one or settles for one of them (`Kept`, `Replaced`, `Settled`); the oldest is a step of the atomic cell |
| `DatagramProofs` | `DeliveryIsReliable` | `ReliableDelivery` | `ChannelInv`: every copy of a payload, in a slot or a frame, is the one submitted under its sequence; acknowledgements are of delivered ones |
| | `WindowStaysExact`, `BackpressureIsFullness` | `WindowInv` | `WindowIInv`: a payload lies in the slot of its sequence, and no more than `Window` successive sequences are active, so no two share a slot |
| | `HostAndClientsAgree` | `DedicatedInv` | `DedicatedInvariant`: a late datagram says nothing its receiver has not come to (`WireIsOld`), and host and client are at most a frame apart (`SidesMeet`) |
| `WebTransportProofs` | `EntriesAlwaysAgree` | `EntriesAgree` | `TransportInv`: popping an event frees one place and announcing takes it, so the ring stays full while anything is owed; a closing is the last event of its connection |
| | `ConnectionsAreServed` | `ConnectionsServed` | `ServedInv`: an opening is in the ring once and is handled before its connection has a slot; the native table is no larger than the other |
| | `MessagesReach` | `ChatReaches` | `ChatInv`: an id belongs to one connection; the ring holds the last messages, each in the slot of its number; what a page was sent are the messages it may read, in order, from the oldest kept at its joining |
| | `TurnsAreKept` | `SpeaksInTurn` | `ClocksAgree`: the clock of the match never says that more ticks have passed since a message than really did, and a map change only sets it back |
| `WebServerProofs` | `SeatsAndPlayersAgree` | `SeatsMatchPlayers` | `SeatInv`: a free slot has no seat and every seated id was given out before, otherwise admitting could repeat an id |
| | `TheFallenAwaitAWave` | `FallenAwaitWave` | with `SeatInv`; scheduling never cancels a wave and leaves one when somebody fell, for which the interval must be positive, hence the roster not empty |
| | `TrainingEndsWithTrainees` | `TrainingInv` | removing the last player ends training, in a broadcast too; the clocks stay in their ranges |
| | `SeatedElect` | `ElectedBySeated` | with `SeatInv`; a vote leaves with its seat, and each seat counts once |
| | `LobbyStaysSound` | `LobbyInv` | `RosterInv`: ids of those present, and of whispers, were handed out before; identities present are bound; then `OwnerSits` |
| | `SessionsStayApart`, `WordsGoInOrder` | `SyncInv`, `InSequence` | `SyncInvariant`: what a worker carries is what is pending while its session lasts, and follows what it sent before |
| | `DocumentsReadBack`, `DocumentsOfAllSizes` | `DocumentInv` | `DocumentStands`: the words are laid out (`LaidOut`: each part at the place the counts before it give, sealed) as those of the document, of a copy or of a blank arena. What `encode` joins is laid out so (`EncodedIsLaidOut`, for up to 64 nodes, 32 assets and any program), both readers find the parts there, each check of `decodeDocumentWords` is one of what the document has (`SealedIsTaken`), and the page mixes the same words for the seal as the server did; the checksum itself stays unexpanded, since equal words have equal seals. Cards agree because the rules in the words are those the tree compiles to (`CardsAreShown`, from `RulesAreRead`). Programs are any that `ProgramTaken` holds of and `Recoded` leaves as they are, which is what the studio keeps (`DocumentAssumption`) |
| `BrowserProofs` | `SessionStaysSound`, `LossKeepsTheScene` | `SessionInv`, `LossKeepsScene` | `SessionInvariant`: the order of the frames on the way of a socket follows the server's state of it, and everything the page holds of a connection is of the current one |
| | `BattlesAreWhole` | `BattleInv` | `Stage`: a team that was stopped while it connected has a bot that is never admitted, so its command does not go on to the next stage |
| | `PageAndServerAgree` | `PlayInv` | `PlayAgrees`: a pending frame was read or is under way, the newest snapshot under way has the player as it is, and the page shows it as a snapshot had it, turned by the frames it holds, unless a frame that the snapshot does not know of was read or is under way |
| | `NumbersAreTaken` | `RefusedAtWrap` | the numbers under way follow each other and the one read last, but where the page starts again with 1 |
| | `FightersAreDrawnNear` | `ActorsInv` | `ActorsAgree`: snapshots under way of one connection have rising ticks, those kept rising ticks and times. Then any time has a place among those kept (`ReachedSome`), a sample is there, between two of them or beyond (`SampleReached`), and products and quotients keep the order (`WayIs`, `BeyondIs`); a tick adds at most three to a speed, and nothing at nine (`SpeedGrows`) |
| | `HitsShowOnce` | `HitsInv` | `HitsInvariant`: impacts that were in one list of the server are fewer than `ServerCap` numbers apart, so between the keys of two of them the page noticed fewer than `2 * ServerCap` (`HasRoom`, by counting) and has not forgotten the earlier one; the numbers on the screen are of the last keys |
| `PageProofs` | `SpectatorsSeeTheTruth` | `SpectatorInv` | `Camera` and `Feed`: a fall yet to be told is of one the page counts as alive |
| | `ModelsStayHeld` | `ModelsInv` | `Sound`: every entry of the cache is a load of its own, a load without an entry has not ended |
| | `ControlsStayWhereTheyWere` | `TouchInv` | `Origin`: the shown layout is a preset or a stored layout, confined; confining twice is confining to the narrower window |
| | `NothingStaysPressed` | `NothingStuck` | every hold has somebody who holds it; nothing is held for a player that lies or is not connected |
| | `ThrowsAreCharged` | `ThrowInv` | `DecisionInvariant`: the button from the server's last tick to the newest frame, and the item from the scene looked at to the newest, are words of a few patterns (pressed then not, and so on) that depend on the phase alone; a frame or scene that is read or skipped thins such a word and keeps its pattern. After a pick-up given up too early any word may be under way; `tLate` holds until a decision with nothing under way and empty hands, where the patterns begin again |
| | `LibrariesStayWhole`, `ImportsAdd` | `ProjectsInv`, `ImportPreserves` | `LibraryInvariant`: every library, in a tab, in the storage or exported, is `Neat` (distinct ids and names, no more than the limit), so reading it back leaves nothing out |
| | `EditorsAgree` | `EditorInv` | `EditingAgrees`: every document has an id that is given out in time order; the frames on the way to a page, read one after the other, bring what it shows to the accepted version (`ComesTo`); a page's queue, its request on the wire and its waiting agree |
| | `SnapshotsReadBack` | `LayoutInv` | `LayoutShape`: the frame is the words of the three parts for the fields kept beside it. Lists joined after each other keep their elements at known offsets (`FlattenReads`, `JoinsFour`), so each offset a reader computes from the counts is the one the writer put the list at, and the length guess it makes at the end has one answer |

A least element takes the place of induction where one is needed (the greatest fighter,
the oldest revision): the library's induction theorems take an operator as a parameter, which the installed
provers cannot instantiate, while well-foundedness of the naturals can be cited. `ListProofs`
makes of it one fact about sets of numbers (`ReachesAll`: a set that has 0 and, with a number,
the next one has all up to a bound); the set is then the indices for which the claim holds.
With it, what a loop over a list computes can be proved: `Lists` has `Only` (the elements that
are in a set) and `Summed` as recursive functions, `ListProofs` what they return (`OnlyPicks`,
`SummedIsWhole`).

What the proofs changed in the model: `BrowserSession!TypeOK` once bounded the frames from
the page to 2, which held only because two sockets bound the attempts; the bound is
gone. `DecisionAssumption` now says that a bot's time of charging is one the server counts
to, without which a throw would never come. `KutterDocument!MixAll` mixes the words by
halves, which is the same function and does not recur as deeply, and its ranges have names
(`Numbers`, `Positions`), since the provers enumerate an interval of literals; `Upright` and `Duplicate`, and
`SnapshotLayout!Ripe`, say by a function or a set what they said by several updates or a
selection. Loops over lists that were
folds or `SelectSeq` are recursive functions, in `WebChat` (the replay), `BrowserPlay`, `HitEffects`,
`RemoteActors` and `ProjectLibrary`; some modules have got a specification of their own.
`ProjectLibrary` assumes that there is a tab. In `RemoteActors` the place of a fighter that is
in no snapshot is a constant that is no number, and the assumption says which places the
divisions leave nothing of, where it once spoke of `Grain` alone.

## 5. What is only model-checked

* Liveness (`EveryJobExecuted`, `CloseReturns`, `SavesContinue`, `EverythingSettles`,
  `PhasesGoOn`, `StaleWorkersEnd`, `InputsGoOut`, `RetriesEnd`, `InputsArrive`,
  `CommandSettles`, `QueueDrains`, the liveness half of `ImplementsOrderedFold`) and with it
  `ENABLED`: the prover has no rules for them.
* `LookKept` and `RespawnIsExact`: sums of looks over a whole behaviour, not attempted.

## 6. What is not modelled

* Windows branches of the native code; HTTP, WebSocket and save encodings, beyond "a damaged
  one is refused"; cryptographic keys.
* Web match: damage, movement, power-ups and administration commands other than kicking and
  teams; ids of spectators, which nothing reads. Clocks are relative, so the wrap of the output
  sequence and the 10,000,000th tick, at which `advanceTick` fails
  (`web_multiplayer_simulation.kf:1709`), are not in the model.
* Web transport: the wrap of ids at 2^31, the index of an entry, partial reads and writes
  other than "bytes are left".
* Lobby: movement, scores, minigames, `LobbyRoster`. Native client: `NativeKutterSync`, which
  edits through the same worker, and the rest of the presentation.
* Drawing: one fighter on one axis, no walls. Editor: a document is its node ids and a number
  for the rest. Bots: walking and the choice of a target. Renderer: GLB files and drawing.
* Touch layout: a write of the presets that the storage refuses (`session_transport.js:895`).
  Editor: the limit on nodes is one on ids. Snapshot: the two guards of the suffix guess that
  never decide anything (`session_transport.js:4184`), and the word of the acknowledgement.
  Document: the lengths are compared with an empty body (`kutter_studio.kf:636`), so the code
  may read behind the words; `ServerAccepts` is asked of whole documents only. What enemies
  do with a behaviour program.
* The session that a save is restored into (`durable_save_coordinator.kf:130`), the remote link
  (`remote_endpoint.kf:191`; tests and probes alone use it), and the parts the component list
  marks `not_modelled`.

## 7. Findings

Each is a run whose property states a sentence of `docs/RUNNING_AND_PACKAGING.md` and is
violated by what the code does; the texts with lines are in `PROJECT.json`.

* `web_match_transition`: a map change adds all players again without anybody moving in
  between, on positions that repeat every 12 ids. Players 1 and 13 together make it fail, and
  the process exits.
* `web_match_wave`: a projectile kill in the very tick a wave is due reschedules it a whole
  interval away, for everybody who is waiting.
* `web_match_respawn`: the search for a respawn place avoids living players only, the admission
  refuses places of fallen ones too; a body in the way ends the server.
* `web_chat_rate`: the last chat tick of a connection survives the map change that sets the
  clock back, so its next message is refused and its connection closed.
* `native_join`: the native client's worker looks once for something to send and then waits for
  the server, which waits for the hello.
* `browser_play_returns`: `parseMultiplayerScene` reads the acknowledgement and does not return
  it, so no frame stops being pending for having been applied. The looks of up to 64 frames
  stay added to the authoritative direction, until newer frames push them out, the player dies,
  the connection ends or the numbers start again.
* `snapshot_layout`: a scene of one or five actors is refused by the page's check, which takes
  the 17 words the server writes for an older layout.

Seen while modelling, without a run (the property would be of a part that is left out, no
sentence of the repository says otherwise, or, for training, the run made room for one that
shows more):

* *Match*: respawning removes the player and adds it again, and for a lone trainee the removal
  ends the training session; the vote clock runs while nobody plays, against "120 seconds of
  active play"; the server ticks at 60 Hz while the document counts phases at 20 Hz (2400 ticks
  are 40 seconds).
* *Chat*: a second message within six ticks, a whisper to somebody who just left, team chat
  after changing the team selection, a spectator's whisper, or a recipient whose socket just
  dropped closes the sender's connection. After 1,000,000 messages all chat is refused. A
  reconnected page shows the history twice. A bot that joins a training session keeps a
  connection team that differs from the simulation's.
* *Native client*: any chat frame makes it disconnect; after sequence 1,000,000 it wraps to 1,
  which the server refuses; its disconnect does not set the retry delay.
* *Dedicated transport*: a view never recovers from a lost chunk, so the probe's processes end.
  *Remote link*: a link that was accepted cannot offer again when its peer reconnects, and an
  answer to an earlier connection is accepted. *Lobby*: a bot, or an owner without identity,
  may take a nickname bound to somebody, who then cannot join.
* *Drawing*: the page predicts its own player with velocities eight times the server's for up
  to 50 ms; after a respawn, extrapolation goes several jump lengths too far; of two snapshots
  in one instant the later is left out. A roll to the negative side shows as a power-up
  (`session_transport.js:2201`).
* *Session*: `disconnect()` forgets its socket without closing it. A look that is not of whole
  degrees is truncated (`simulation.kf:1117`), so `LookKept` is about whole degrees.
* *Controls*: a movement released while the page cannot send stays; a snapshot enables a dead
  player's controls again; the second keydown handler does not spare text fields.
* *Bots*: a pick-up that is given up while its answer is on the way is thrown uncharged by the
  next press (`session_transport.js:3782`); two time-outs are never initialised, so no bot uses
  melee or special; leaving while the configuration loads stops nothing and the battle starts unwatched; a missing own actor
  throws out of the tick and skips the remaining bots.
* *Hits*: impacts do not expire, so a joining page shows old numbers; switching the followed
  player flashes. *Spectator*: after a moment with no living fighter the camera stays free.
  *Touch layout*: two tabs overwrite each other's presets; narrowing the window moves an
  unnamed layout for good.
* *Kutter*: a document whose program has more than 32 rules, or revision 1, is taken and saved,
  and ends the server at its next start (`main.kf:1749`); deleting the last node leaves the
  document unsealed; a refused update keeps what it changed, drops redo and is not broadcast; libraries of two tabs overwrite each other,
  and one that cannot be read becomes empty. *Renderer*: loads that end after the renderer
  was destroyed, or fail half-way, leak; a failed model is not tried again while it is wanted.

## 8. What is left

In this order:

1. Proofs of `LookKept` and `RespawnIsExact`.
2. Models that would add most: the failing restore of a session, the netcode histories, and a
   common module of `WebMatch` and `WebTransport`.
