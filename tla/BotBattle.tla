------------------------------- MODULE BotBattle -------------------------------
(***************************************************************************)
(* The bot battle that a spectator's page runs from its console             *)
(* (apps/web_alpha/session_transport.js): a team of geese and then a team   *)
(* of cats connect, each with a socket of its own, and a timer lets every   *)
(* bot decide until a team is down or the time is over.                     *)
(*                                                                         *)
(* A bot stands for its socket and the promise of its admission.  The       *)
(* console runs one command at a time.  Sockets that are closing and        *)
(* forgotten are used again.                                                *)
(***************************************************************************)
EXTENDS Integers, FiniteSets

CONSTANTS Bots,       \* bound: sockets that are not closed yet, or still in the list
          TeamSize    \* browserBotTeamSize

ASSUME BattleAssumption ==
  TeamSize \in Nat \ {0} /\ IsFiniteSet(Bots) /\ Cardinality(Bots) >= 2 * TeamSize

VARIABLES bCommand,    \* what the command that starts a battle waits for
          bList,       \* browserBattleBots
          bBatch,      \* the bots whose admissions it waits for
          bSocket,     \* of each bot
          bAdmission,  \* of each bot: how its promise was settled
          bTimer,      \* browserBattleTimer
          bSpectator   \* the page is connected as a spectator

bVars == <<bCommand, bList, bBatch, bSocket, bAdmission, bTimer, bSpectator>>

BattleInit ==
  /\ bCommand = "none" /\ bList = {} /\ bBatch = {} /\ bTimer = FALSE /\ bSpectator = TRUE
  /\ bSocket = [b \in Bots |-> "closed"] /\ bAdmission = [b \in Bots |-> "none"]

Open == {"opening", "hello", "joining", "joined"}
\* Bots without a socket, or with one whose end nobody waits for.
FreshBot == {b \in Bots \ (bList \cup bBatch) : bSocket[b] \notin Open}

\* finish: an admission is settled once
Finish(b, how) == IF bAdmission[b] = "waits" THEN [bAdmission EXCEPT ![b] = how] ELSE bAdmission

-----------------------------------------------------------------------------
(* Starting and stopping. *)

\* Mutant: sockets that are being opened are left alone.
ClosedIfOpen(bots) ==
  [b \in Bots |-> IF b \in bots /\ bSocket[b] \in Open \ {"opening"} THEN "closing" ELSE bSocket[b]]

\* readyState < CLOSING: close
ClosedAll(bots) ==
  [b \in Bots |-> IF b \in bots /\ bSocket[b] \in Open THEN "closing" ELSE bSocket[b]]

\* stopBrowserBotBattle
Stop == bTimer' = FALSE /\ bList' = {} /\ bSocket' = ClosedAll(bList)

\* connectBrowserBattleBot, for every bot of a team
ConnectTeam == \E team \in SUBSET FreshBot :
  /\ Cardinality(team) = TeamSize
  /\ bList' = bList \cup team /\ bBatch' = team
  /\ bSocket' = [b \in Bots |-> IF b \in team THEN "opening" ELSE bSocket[b]]
  /\ bAdmission' = [b \in Bots |-> IF b \in team THEN "waits" ELSE bAdmission[b]]

\* The catch of startBrowserBotBattle
SetupFails ==
  /\ Stop /\ bCommand' = "none" /\ bBatch' = {} /\ UNCHANGED <<bAdmission, bSpectator>>

\* /b2teams4
StartBattle ==
  /\ bCommand = "none" /\ bSpectator /\ bList = {}
  /\ bCommand' = "config"
  /\ UNCHANGED <<bList, bBatch, bSocket, bAdmission, bTimer, bSpectator>>

\* loadBrowserBotAIConfig and loadBotPowerupWaypoints
ConfigLoads ==
  /\ bCommand = "config"
  /\ \/ ConnectTeam /\ bCommand' = "geese" /\ UNCHANGED <<bTimer, bSpectator>>
     \/ SetupFails

\* Mutant: bots that were not admitted are left out.
AllIn == \A b \in bBatch : bAdmission[b] # "waits"

AllAdmitted == \A b \in bBatch : bAdmission[b] = "admitted"
SomeRefused == \E b \in bBatch : bAdmission[b] = "refused"

\* The await of a team goes on before any other event is handled.
Due == bCommand \in {"geese", "cats"} /\ (AllAdmitted \/ SomeRefused)

TeamSettles ==
  /\ Due
  /\ IF AllAdmitted
     THEN \/ bCommand = "geese" /\ ConnectTeam /\ bCommand' = "cats" /\ UNCHANGED <<bTimer, bSpectator>>
          \/ /\ bCommand = "cats" /\ bCommand' = "none" /\ bTimer' = TRUE /\ bBatch' = {}
             /\ UNCHANGED <<bList, bSocket, bAdmission, bSpectator>>
     ELSE SetupFails

\* /stop
StopCommand ==
  /\ bCommand = "none" /\ bList # {}
  /\ Stop /\ UNCHANGED <<bCommand, bBatch, bAdmission, bSpectator>>

\* disconnect, of a spectator or of one who was, and a new connection
LeaveSession ==
  /\ bSpectator /\ bSpectator' = FALSE
  /\ Stop /\ UNCHANGED <<bCommand, bBatch, bAdmission>>
JoinSession ==
  ~bSpectator /\ bSpectator' = TRUE
  /\ UNCHANGED <<bCommand, bList, bBatch, bSocket, bAdmission, bTimer>>

\* The timer of the battle: the time is over, or a bot's scene shows a team without
\* players.  What the bots decide is in BotDecision.
BattleTimer ==
  /\ bTimer
  /\ Stop /\ UNCHANGED <<bCommand, bBatch, bAdmission, bSpectator>>

-----------------------------------------------------------------------------
(* The socket of a bot. *)

To(b, from, to) == bSocket[b] = from /\ bSocket' = [bSocket EXCEPT ![b] = to]
RestOfBattle == <<bCommand, bList, bBatch, bTimer, bSpectator>>

OpensBot(b) == To(b, "opening", "hello") /\ UNCHANGED bAdmission
BotAcknowledged(b) == To(b, "hello", "joining") /\ UNCHANGED bAdmission
BotJoins(b) ==
  /\ To(b, "joining", "joined") /\ bAdmission' = Finish(b, "admitted")

\* A refused join, or an error of the protocol: the socket stays open.
BotRefused(b) ==
  /\ bSocket[b] \in Open \ {"opening"}
  /\ bAdmission' = Finish(b, "refused") /\ UNCHANGED bSocket

\* onclose and onerror
BotCloses(b) ==
  /\ bSocket[b] \in Open \cup {"closing"} /\ bSocket' = [bSocket EXCEPT ![b] = "closed"]
  /\ bAdmission' = Finish(b, "refused")

\* Mutant: the time is only counted until the socket is open.
OverdueOpening(b) == bAdmission[b] = "waits" /\ bSocket[b] = "opening"

Overdue(b) == bAdmission[b] = "waits"

\* ten seconds
BotTimesOut(b) ==
  Overdue(b) /\ bAdmission' = Finish(b, "refused") /\ UNCHANGED bSocket

BotEvent(b) ==
  /\ OpensBot(b) \/ BotAcknowledged(b) \/ BotJoins(b) \/ BotRefused(b) \/ BotCloses(b) \/ BotTimesOut(b)
  /\ UNCHANGED RestOfBattle

BattleNext ==
  \/ TeamSettles
  \/ ~Due /\ ( \/ StartBattle \/ ConfigLoads \/ StopCommand \/ LeaveSession \/ JoinSession
               \/ BattleTimer \/ \E b \in Bots : BotEvent(b) )

\* Continuations run; requests for files end; timers fire.
BattleFairness ==
  /\ WF_bVars(TeamSettles)
  /\ WF_bVars(~Due /\ ConfigLoads)
  /\ \A b \in Bots : WF_bVars(~Due /\ BotTimesOut(b) /\ UNCHANGED RestOfBattle)

BattleSpec == BattleInit /\ [][BattleNext]_bVars /\ BattleFairness

-----------------------------------------------------------------------------
(* Properties. *)

\* No bot plays on unseen: whatever is being connected when a battle is stopped or
\* cannot start, and whoever stops it, every open socket is of a bot in the list,
\* which the next stop closes.
NoStrayBot == \A b \in Bots : bSocket[b] \in Open => b \in bList

\* A battle that runs has two whole teams, every bot of them admitted.
BattleIsWhole == bTimer =>
  Cardinality(bList) = 2 * TeamSize /\ \A b \in bList : bAdmission[b] = "admitted"

\* All bots of a battle play, or none.
BattleInv == NoStrayBot /\ BattleIsWhole

\* The console is free again some time after /b2teams4, whatever the server does.
CommandSettles == bCommand # "none" ~> bCommand = "none"
=============================================================================
