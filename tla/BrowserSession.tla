--------------------------- MODULE BrowserSession ---------------------------
(***************************************************************************)
(* The session of apps/web_alpha/session_transport.js: one page that       *)
(* connects, is admitted, joins, is refused, loses its connection, tries   *)
(* again and leaves, against the server side of its connections in         *)
(* apps/web_server/main.kf.                                                *)
(*                                                                         *)
(* disconnect forgets its WebSocket and does not close it, so a page has   *)
(* one current socket and any number of forgotten ones whose events still  *)
(* arrive.  A socket is named by an id that is used again once both sides  *)
(* are done with it.  Frames are abstracted to their kind, snapshots keep  *)
(* their sequence number.                                                  *)
(***************************************************************************)
EXTENDS Naturals, Sequences

CONSTANTS MaxSockets,    \* bound on the sockets alive at once
          MaxAttempts,   \* MAX_RECONNECT_ATTEMPTS
          MaxSnapshots   \* bound on the snapshots of one connection

ASSUME SessionAssumption ==
  {MaxSockets, MaxAttempts, MaxSnapshots} \subseteq Nat \ {0}

Sockets == 1 .. MaxSockets
NoSocket == 0
Roles == {"player", "admin"}
Msg(k, s) == [kind |-> k, seq |-> s]
Replies == [kind : {"ack", "joined", "refused"}, seq : {0}]
Snapshots == [kind : {"snapshot"}, seq : 1 .. MaxSnapshots]

VARIABLES
  net,         \* readyState of each socket, "free" when the id is not in use
  srv,         \* how far the server has got with each connection
  up, down,    \* frames under way to the server and to the page
  out,         \* snapshots the server has sent on each connection
  socket,      \* the current socket of the page
  connected, authoritativeReady,
  requestedRole, joinedRole,
  joinSequence,         \* whether the answer to a join request is awaited
  lastSnapshotSequence,
  scene,                \* what is shown: "preview", "live" or "blank"
  reconnectAttempt, reconnectTimer,
  intentionalDisconnect,
  renderer              \* sceneRenderer is not null

wire == <<net, srv, up, down, out>>
page == <<socket, connected, authoritativeReady, requestedRole, joinedRole,
          joinSequence, lastSnapshotSequence, scene, reconnectAttempt,
          reconnectTimer, intentionalDisconnect>>
vars == <<wire, page, renderer>>

TypeOK ==
  /\ net \in [Sockets -> {"free", "connecting", "open", "closed"}]
  /\ srv \in [Sockets -> {"none", "accepted", "admitted", "joined", "gone"}]
  /\ up \in [Sockets -> Seq({"hello", "join"})]
  /\ down \in [Sockets -> Seq(Replies \cup Snapshots)]
  /\ \A n \in Sockets : Len(down[n]) <= 2
  /\ out \in [Sockets -> 0 .. MaxSnapshots]
  /\ socket \in Sockets \cup {NoSocket}
  /\ {connected, authoritativeReady, joinSequence} \subseteq BOOLEAN
  /\ requestedRole \in Roles /\ joinedRole \in Roles \cup {"none"}
  /\ lastSnapshotSequence \in 0 .. MaxSnapshots
  /\ scene \in {"preview", "live", "blank"}
  /\ reconnectAttempt \in 0 .. MaxAttempts
  /\ {reconnectTimer, intentionalDisconnect, renderer} \subseteq BOOLEAN

Init ==
  /\ net = [n \in Sockets |-> "free"]
  /\ srv = [n \in Sockets |-> "none"]
  /\ up = [n \in Sockets |-> <<>>] /\ down = [n \in Sockets |-> <<>>]
  /\ out = [n \in Sockets |-> 0]
  /\ socket = NoSocket
  /\ connected = FALSE /\ authoritativeReady = FALSE
  /\ requestedRole = "player" /\ joinedRole = "none"
  /\ joinSequence = FALSE /\ lastSnapshotSequence = 0
  /\ scene = "preview"
  /\ reconnectAttempt = 0 /\ reconnectTimer = FALSE
  /\ intentionalDisconnect = FALSE
  /\ renderer = TRUE

-----------------------------------------------------------------------------
(* Ending a connection and trying again. *)

Fresh(n) == net[n] = "free" /\ \A m \in 1 .. n - 1 : net[m] # "free"

\* Mutant: the number of the last snapshot outlives its connection.
ForgetButSnapshot ==
  /\ connected' = FALSE /\ authoritativeReady' = FALSE
  /\ joinedRole' = "none" /\ joinSequence' = FALSE
  /\ UNCHANGED lastSnapshotSequence

\* The part of disconnect that every caller gets.
Forget ==
  /\ connected' = FALSE /\ authoritativeReady' = FALSE
  /\ joinedRole' = "none" /\ joinSequence' = FALSE
  /\ lastSnapshotSequence' = 0

\* Mutant: connecting again blanks the scene like leaving does.
Blanked(preserve) == "blank"

\* disconnect empties the shown scene unless it is asked to preserve it.
SceneAfter(preserve) == IF preserve THEN scene ELSE "blank"

\* Mutant: an attempt that is not counted.
ScheduleUncounted(pending, attempt) ==
  \/ reconnectTimer' = pending /\ reconnectAttempt' = attempt
  \/ /\ attempt < MaxAttempts
     /\ reconnectTimer' = TRUE /\ reconnectAttempt' = attempt

\* Mutant: one attempt more than the limit.
ScheduleOneMore(pending, attempt) ==
  \/ reconnectTimer' = pending /\ reconnectAttempt' = attempt
  \/ /\ attempt <= MaxAttempts
     /\ reconnectTimer' = TRUE /\ reconnectAttempt' = attempt + 1

\* scheduleReconnect: nothing with autoReconnect off or at the retry limit.
ScheduleReconnect(pending, attempt) ==
  \/ reconnectTimer' = pending /\ reconnectAttempt' = attempt
  \/ /\ attempt < MaxAttempts
     /\ reconnectTimer' = TRUE /\ reconnectAttempt' = attempt + 1

\* Mutant: leaving keeps the timer.
CancelNothing == UNCHANGED reconnectTimer

\* clearReconnectTimer
ClearReconnectTimer == reconnectTimer' = FALSE

\* disconnect() by the user.
Leave ==
  /\ socket' = NoSocket
  /\ Forget
  /\ scene' = SceneAfter(FALSE)
  /\ intentionalDisconnect' = TRUE
  /\ ClearReconnectTimer /\ reconnectAttempt' = 0
  /\ UNCHANGED <<wire, requestedRole, renderer>>

\* connect: the endpoint or the token is rejected, the constructor throws, or a
\* socket is opened.
Connect(isReconnect) ==
  LET attempt == IF isReconnect THEN reconnectAttempt ELSE 0 IN
  /\ renderer
  /\ Forget
  /\ scene' = SceneAfter(isReconnect)
  /\ requestedRole' \in Roles
  /\ \E n \in Sockets :
     /\ Fresh(n)
     /\ \/ /\ socket' = NoSocket /\ intentionalDisconnect' = TRUE
           /\ reconnectTimer' = FALSE /\ reconnectAttempt' = attempt
           /\ UNCHANGED net
        \/ /\ socket' = NoSocket /\ intentionalDisconnect' = FALSE
           /\ ScheduleReconnect(FALSE, attempt)
           /\ UNCHANGED net
        \/ /\ socket' = n /\ net' = [net EXCEPT ![n] = "connecting"]
           /\ intentionalDisconnect' = FALSE
           /\ reconnectTimer' = FALSE /\ reconnectAttempt' = attempt
  /\ UNCHANGED <<srv, up, down, out, renderer>>

InUse == connected \/ (socket # NoSocket /\ net[socket] = "connecting")

\* The button: LEAVE while in use, else PLAY.
Click == IF InUse THEN Leave ELSE Connect(FALSE)

\* disconnect from the console and from window.kookieSessionTransport.
Quit == ~InUse /\ (socket # NoSocket \/ reconnectTimer) /\ Leave

\* A timer that fires without a renderer starts nothing.
TimerFires ==
  /\ reconnectTimer
  /\ \/ Connect(TRUE)
     \/ /\ ~renderer /\ reconnectTimer' = FALSE
        /\ UNCHANGED <<wire, socket, connected, authoritativeReady, requestedRole,
                       joinedRole, joinSequence, lastSnapshotSequence, scene,
                       reconnectAttempt, intentionalDisconnect, renderer>>

\* failRenderer; the connection is left alone.
FailRenderer ==
  /\ renderer /\ renderer' = FALSE
  /\ UNCHANGED <<wire, page>>

-----------------------------------------------------------------------------
(* What the sockets report.  n is the socket of the event, clientSocket. *)

Push(channel, n, m) == [channel EXCEPT ![n] = Append(@, m)]

\* onopen is sendHello, which writes to the current socket whichever it is; it
\* throws when there is none or when it is still connecting.
Opens(n) ==
  /\ net[n] = "connecting"
  /\ net' = [net EXCEPT ![n] = "open"]
  /\ srv' = [srv EXCEPT ![n] = "accepted"]
  /\ IF socket # NoSocket /\ net'[socket] = "open"
     THEN Len(up[socket]) < 2 /\ up' = Push(up, socket, "hello")
     ELSE UNCHANGED up
  /\ UNCHANGED <<down, out, page, renderer>>

\* Mutant: the events of a forgotten socket are those of the current one.
AnySocket(n) == TRUE

\* Events of a forgotten socket stop here.
Current(n) == n = socket

\* onclose, after a connection that failed to open, broke, or was ended by the
\* server.  Frames that were under way are lost with it.
Closes(n) ==
  /\ net[n] \in {"connecting", "open"}
  /\ net' = [net EXCEPT ![n] = "closed"]
  /\ down' = [down EXCEPT ![n] = <<>>] /\ up' = [up EXCEPT ![n] = <<>>]
  /\ srv' = [srv EXCEPT ![n] = IF @ = "none" THEN "gone" ELSE @]
  /\ IF Current(n)
     THEN /\ socket' = NoSocket
          /\ connected' = FALSE /\ authoritativeReady' = FALSE
          /\ IF ~renderer \/ intentionalDisconnect
             THEN UNCHANGED <<reconnectTimer, reconnectAttempt>>
             ELSE ScheduleReconnect(reconnectTimer, reconnectAttempt)
     ELSE UNCHANGED <<socket, connected, authoritativeReady, reconnectTimer,
                      reconnectAttempt>>
  /\ UNCHANGED <<out, requestedRole, joinedRole, joinSequence,
                 lastSnapshotSequence, scene, intentionalDisconnect, renderer>>

\* sendJoinRequest; one answer is awaited.
SendJoinRequest(n) == joinSequence' = TRUE /\ up' = Push(up, n, "join")

\* An accepted hello.  An administrator is ready at once, everybody else joins.
Acknowledged(n) ==
  /\ connected' = TRUE /\ reconnectAttempt' = 0
  /\ IF requestedRole = "admin"
     THEN /\ joinedRole' = "admin" /\ authoritativeReady' = TRUE
          /\ UNCHANGED <<joinSequence, up>>
     ELSE /\ authoritativeReady' = FALSE
          /\ SendJoinRequest(n)
          /\ UNCHANGED joinedRole
  /\ UNCHANGED <<socket, lastSnapshotSequence, scene, reconnectTimer,
                 intentionalDisconnect>>

\* A refused join, or a frame that cannot be: disconnect(false) and try again.
Rejected ==
  /\ socket' = NoSocket
  /\ Forget
  /\ scene' = SceneAfter(FALSE)
  /\ intentionalDisconnect' = FALSE
  /\ ScheduleReconnect(reconnectTimer, reconnectAttempt)
  /\ UNCHANGED up

Joined ==
  /\ joinedRole' = requestedRole
  /\ UNCHANGED <<up, socket, connected, authoritativeReady, joinSequence,
                 lastSnapshotSequence, scene, reconnectAttempt, reconnectTimer,
                 intentionalDisconnect>>

\* applyAuthoritativeScene ignores a snapshot older than the last.
IsNew(s) == s >= lastSnapshotSequence

Snapshot(s) ==
  /\ authoritativeReady' = TRUE
  /\ IF IsNew(s)
     THEN lastSnapshotSequence' = s /\ scene' = "live"
     ELSE UNCHANGED <<lastSnapshotSequence, scene>>
  /\ UNCHANGED <<up, socket, connected, joinedRole, joinSequence, reconnectAttempt,
                 reconnectTimer, intentionalDisconnect>>

\* onmessage.  A snapshot is also rejected for its layout (SnapshotLayout).
Receives(n) ==
  /\ down[n] # <<>>
  /\ down' = [down EXCEPT ![n] = Tail(@)]
  /\ LET m == Head(down[n]) IN
     IF ~Current(n) THEN UNCHANGED <<up, page>>
     ELSE /\ UNCHANGED requestedRole
          /\ \/ m.kind = "ack" /\ Acknowledged(n)
             \/ m.kind = "joined" /\ IF joinSequence THEN Joined ELSE Rejected
             \/ m.kind = "refused" /\ Rejected
             \/ m.kind = "snapshot" /\ joinedRole # "none" /\ Snapshot(m.seq)
             \/ m.kind = "snapshot" /\ Rejected
  /\ UNCHANGED <<net, srv, out, renderer>>

-----------------------------------------------------------------------------
(* The server. *)

\* The first frame is a hello, the next of a player is a join; anything else,
\* a second hello of the page included, ends the connection.
ServerReads(n) ==
  /\ up[n] # <<>> /\ srv[n] \in {"accepted", "admitted", "joined"}
  /\ Len(down[n]) < 2
  /\ up' = [up EXCEPT ![n] = Tail(@)]
  /\ \/ /\ srv[n] = "accepted" /\ Head(up[n]) = "hello"
        /\ srv' = [srv EXCEPT ![n] = "admitted"]
        /\ down' = Push(down, n, Msg("ack", 0))
     \/ /\ srv[n] = "admitted" /\ Head(up[n]) = "join"
        /\ \/ /\ srv' = [srv EXCEPT ![n] = "joined"]
              /\ down' = Push(down, n, Msg("joined", 0))
           \/ /\ srv' = [srv EXCEPT ![n] = "gone"]
              /\ down' = Push(down, n, Msg("refused", 0))
     \/ /\ ~(srv[n] = "accepted" /\ Head(up[n]) = "hello")
        /\ ~(srv[n] = "admitted" /\ Head(up[n]) = "join")
        /\ srv' = [srv EXCEPT ![n] = "gone"]
        /\ UNCHANGED down
  /\ UNCHANGED <<net, out, page, renderer>>

ServerSends(n) ==
  /\ srv[n] = "joined" /\ out[n] < MaxSnapshots /\ Len(down[n]) < 2
  /\ net[n] = "open"
  /\ out' = [out EXCEPT ![n] = @ + 1]
  /\ down' = Push(down, n, Msg("snapshot", out[n] + 1))
  /\ UNCHANGED <<net, srv, up, page, renderer>>

\* A kick, a failed send, a shutdown, or 30 seconds without a frame.
ServerDrops(n) ==
  /\ srv[n] \in {"accepted", "admitted", "joined"}
  /\ srv' = [srv EXCEPT ![n] = "gone"]
  /\ UNCHANGED <<net, up, down, out, page, renderer>>

\* Both sides are done with the connection: its id may be used again.
Collect(n) ==
  /\ net[n] = "closed" /\ srv[n] = "gone"
  /\ net' = [net EXCEPT ![n] = "free"] /\ srv' = [srv EXCEPT ![n] = "none"]
  /\ out' = [out EXCEPT ![n] = 0]
  /\ UNCHANGED <<up, down, page, renderer>>

-----------------------------------------------------------------------------
User == Click \/ Quit
Events(n) == Opens(n) \/ Closes(n) \/ Receives(n)
Server(n) == ServerReads(n) \/ ServerSends(n) \/ ServerDrops(n) \/ Collect(n)

Next ==
  \/ User \/ TimerFires \/ FailRenderer
  \/ \E n \in Sockets : Events(n) \/ Server(n)

\* A timer fires; a connection attempt opens or fails; a frame that has arrived
\* is handled; the browser learns of the server's close; the server forgets a
\* connection it hears nothing from.  Nothing is assumed of the user, and
\* nothing keeps a connection alive.
Fairness ==
  /\ WF_vars(TimerFires)
  /\ \A n \in Sockets :
       /\ WF_vars(Opens(n) \/ (net[n] = "connecting" /\ Closes(n)))
       /\ WF_vars(Receives(n)) /\ WF_vars(ServerReads(n))
       /\ WF_vars(srv[n] = "gone" /\ down[n] = <<>> /\ Closes(n))
       /\ WF_vars(n # socket /\ ServerDrops(n))
       /\ WF_vars(Collect(n))

Spec == Init /\ [][Next]_vars /\ Fairness

-----------------------------------------------------------------------------
(* Properties. *)

\* A page that lets its user act has a live connection on which the server has
\* admitted it in the role it last asked for.
ReadyIsAdmitted ==
  authoritativeReady =>
    /\ connected /\ socket # NoSocket /\ net[socket] = "open"
    /\ joinedRole = requestedRole

\* A retry is only ever pending while there is nothing to wait for: no second
\* connection is opened beside a live one, and none after the user left.
RetryIsAlone == reconnectTimer => socket = NoSocket /\ ~intentionalDisconnect

\* The snapshots of the current connection still on their way.
Undelivered ==
  LET snaps == {k \in 1 .. Len(down[socket]) : down[socket][k].kind = "snapshot"}
  IN IF snaps = {} THEN out[socket]
     ELSE down[socket][CHOOSE k \in snaps : \A j \in snaps : k <= j].seq - 1

\* A player who is ready is shown the newest snapshot that reached the page,
\* whatever the connections before this one were shown.
NewestIsShown ==
  authoritativeReady /\ joinedRole = "player" =>
    scene = "live" /\ lastSnapshotSequence = Undelivered

\* One connection at a time, admitted and shown as it is.
SessionInv == TypeOK /\ ReadyIsAdmitted /\ RetryIsAlone /\ NewestIsShown

\* Losing the connection, and trying again, leave the shown scene alone; it is
\* emptied when the user leaves or connects, or when a join is refused.
LossKeepsScene ==
  [][scene' = "blank" => \/ scene = "blank" \/ User
                         \/ \E n \in Sockets : Receives(n) /\ Current(n)]_vars

\* Without a user the page tries for ever only if the server acknowledges it
\* again and again.
RetriesEnd ==
  \/ []<><<User>>_vars
  \/ []<><<~connected /\ connected'>>_vars
  \/ <>[](~reconnectTimer)

\* A lost connection changes nothing of what is shown and is not retried for ever.
LossIsHandled == LossKeepsScene /\ RetriesEnd
=============================================================================
