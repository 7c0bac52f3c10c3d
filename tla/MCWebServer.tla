----------------------------- MODULE MCWebServer ----------------------------
(* The web match, a native client of it, and the lobby a match starts from. *)
(* A behaviour is one of a single part, chosen at the beginning, while the  *)
(* others stay as they were: the match, with the constants of MCWebMatch;   *)
(* the client, with room for one message everywhere and connections that    *)
(* may break; or the lobby, with two seats and a place in the gallery.      *)
EXTENDS WebMatch, KutterSync, Lobby

VARIABLE part

ServerInit == part \in {"match", "client", "lobby"} /\ Init /\ SyncInit /\ LobbyInit

ServerNext ==
  /\ part' = part
  /\ \/ part = "match" /\ Next /\ UNCHANGED <<syncVars, lobbyVars>>
     \/ part = "client" /\ SyncNext /\ UNCHANGED <<vars, lobbyVars>>
     \/ part = "lobby" /\ LobbyNext /\ UNCHANGED <<vars, syncVars>>

\* The fairness of the match and of the client, each within a behaviour of its own.
ServerFairness ==
  /\ WF_vars(part = "match" /\ Tick)
  /\ WF_syncVars(part = "client" /\ Service)
  /\ \A e \in Workers :
       /\ WF_syncVars(part = "client" /\ (Works(e) \/ (Stopped(e) /\ ConnectFails(e))))
       /\ WF_syncVars(part = "client" /\ (ServerReads(e) \/ IdleCloses(e)))
       /\ WF_syncVars(part = "client" /\ Tells(e, "snapshot"))

ServerSpec == ServerInit /\ [][ServerNext]_<<part, vars, syncVars, lobbyVars>> /\ ServerFairness
=============================================================================
