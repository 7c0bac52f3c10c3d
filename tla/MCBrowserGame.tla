---------------------------- MODULE MCBrowserGame ---------------------------
(* What the pages of players and the server do together: the connections of *)
(* a page, with the current socket and one that it has forgotten; a         *)
(* player's play on a connection; where fighters are drawn between          *)
(* snapshots; and the start of a bot battle.  They share no state: a        *)
(* behaviour is one of a single part, chosen at the beginning, while the    *)
(* others stay as they were.  Play sees a session only as a connection that *)
(* ends and another that is admitted.                                       *)
EXTENDS BrowserSession, BrowserPlay, BotBattle, RemoteActors

\* The player turns by whole degrees, as the Q and E keys do.
WholeDegrees == {2}

\* A fighter walks or is taken six and a half places away.
MCPlaces == {0, 78}

VARIABLE part

GameInit ==
  /\ part \in {"session", "play", "remote", "battle"}
  /\ Init /\ BattleInit
  /\ PlayInit /\ (part # "play" => active)
  /\ ActorInit /\ (part # "remote" => nDelay = CHOOSE d \in Delays : TRUE)

GameNext ==
  /\ part' = part
  /\ \/ part = "session" /\ Next /\ UNCHANGED <<playVars, bVars, nVars>>
     \/ part = "play" /\ PlayNext /\ UNCHANGED <<vars, bVars, nVars>>
     \/ part = "battle" /\ BattleNext /\ UNCHANGED <<vars, playVars, nVars>>
     \/ part = "remote" /\ ActorNext /\ UNCHANGED <<vars, playVars, bVars>>

\* The fairness of the parts, each within a behaviour of its own.
GameFairness ==
  /\ WF_vars(part = "session" /\ TimerFires)
  /\ \A n \in Sockets :
       /\ WF_vars(part = "session" /\ (Opens(n) \/ (net[n] = "connecting" /\ Closes(n))))
       /\ WF_vars(part = "session" /\ Receives(n))
       /\ WF_vars(part = "session" /\ ServerReads(n))
       /\ WF_vars(part = "session" /\ srv[n] = "gone" /\ down[n] = <<>> /\ Closes(n))
       /\ WF_vars(part = "session" /\ n # socket /\ ServerDrops(n))
       /\ WF_vars(part = "session" /\ Collect(n))
  /\ WF_playVars(part = "play" /\ Read)
  /\ WF_playVars(part = "play" /\ Refuse)
  /\ WF_playVars(part = "play" /\ ApplyAuthoritativeScene)
  /\ WF_playVars(part = "play" /\ Tick)
  /\ WF_bVars(part = "battle" /\ TeamSettles)
  /\ WF_bVars(part = "battle" /\ ~Due /\ ConfigLoads)
  /\ \A b \in Bots : WF_bVars(part = "battle" /\ ~Due /\ BotTimesOut(b) /\ UNCHANGED RestOfBattle)

GameSpec == GameInit /\ [][GameNext]_<<part, vars, playVars, bVars, nVars>> /\ GameFairness
=============================================================================
