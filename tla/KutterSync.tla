------------------------------ MODULE KutterSync ----------------------------
(***************************************************************************)
(* How the native client takes part in a web match: NativeWebGameClient    *)
(* (probes/g0_native_presentation/main.kf) on the websocket transport of   *)
(* native/kookie_kutter_sync.c, and what the server of                     *)
(* apps/web_server/main.kf answers it.                                     *)
(*                                                                         *)
(* open starts a detached worker for a new session, close only declares    *)
(* its session over; a worker finds out between two waits, while a later   *)
(* one may already run.  The main thread hands over one message at a time  *)
(* and takes received ones from a bounded ring.  Between two locks the     *)
(* threads overtake one another.                                           *)
(*                                                                         *)
(* Bound: beside the worker of the last session at most one of an earlier  *)
(* session runs; open makes the one before it the earlier one.  Messages   *)
(* are whole; of their content the kind and the sequence are left.  begin, *)
(* word and commit are one step: only the main thread stages, and the      *)
(* worker looks at what is pending alone.                                  *)
(***************************************************************************)
EXTENDS Naturals, Sequences

CONSTANTS
  MaxReceived,   \* KS_QUEUE
  MaxUnderWay,   \* what the sockets of a connection hold in each direction
  LastSequence,  \* the sequence after which the client starts at 1 (1000000)
  MayBreak,      \* connections fail and break, and joins are refused
  NoWords

Workers == {"now", "earlier"}
Asked == {"hello", "join", "input"}
Answered == {"ack", "response", "snapshot", "chat"}
Words == [kind : Asked, seq : 1 .. LastSequence]

ASSUME SyncAssumption ==
  /\ {MaxReceived, MaxUnderWay, LastSequence} \subseteq Nat \ {0}
  /\ MayBreak \in BOOLEAN /\ NoWords \notin Words

VARIABLES
  wanted,    \* shell.gameplayVisible()
  client,    \* attempted, helloSent, joinSent and joined, one after the other
  following, \* hasSnapshot
  sequence,  \* sendSequence
  isOpen,    \* session_epoch is that of the last open, not of a close
  phaseOf,   \* state: 0 "closed", 1 "opening", 2 "open", -1 "failed"
  pending,   \* send_words while send_pending
  received,  \* recv_queue, with the worker that delivered each message
  worker,    \* where each worker is
  carries,   \* the message a worker sends or delivers
  peer,      \* what the server knows of the connection of a worker
  upward,    \* on the way to the server
  downward,  \* on the way to the client
  got        \* the server's connectionLastSequence

mainVars == <<wanted, client, following, sequence>>
nativeVars == <<isOpen, phaseOf, pending, received>>
workerVars == <<worker, carries>>
serverVars == <<peer, upward, downward, got>>
syncVars == <<mainVars, nativeVars, workerVars, serverVars>>

SyncTypeOK ==
  /\ wanted \in BOOLEAN
  /\ client \in {"idle", "opened", "greeting", "joining", "joined"}
  /\ following \in BOOLEAN
  /\ sequence \in 1 .. LastSequence
  /\ isOpen \in BOOLEAN
  /\ phaseOf \in {"closed", "opening", "open", "failed"}
  /\ pending \in Words \cup {NoWords}
  /\ received \in Seq([kind : Answered, of : Workers]) /\ Len(received) <= MaxReceived
  /\ worker \in [Workers -> {"none", "connecting", "looking", "sending", "sent",
                             "receiving", "delivering", "ending"}]
  /\ carries \in [Workers -> Words \cup [kind : Answered] \cup {NoWords}]
  /\ peer \in [Workers -> {"none", "new", "greeted", "joined"}]
  /\ upward \in [Workers -> Seq(Words)]
  /\ downward \in [Workers -> Seq(Answered)]
  /\ got \in [Workers -> 0 .. LastSequence]

SyncInit ==
  /\ wanted = FALSE /\ client = "idle" /\ following = FALSE /\ sequence = 1
  /\ isOpen = FALSE /\ phaseOf = "closed" /\ pending = NoWords /\ received = <<>>
  /\ worker = [e \in Workers |-> "none"]
  /\ carries = [e \in Workers |-> NoWords]
  /\ peer = [e \in Workers |-> "none"]
  /\ upward = [e \in Workers |-> <<>>]
  /\ downward = [e \in Workers |-> <<>>]
  /\ got = [e \in Workers |-> 0]

-----------------------------------------------------------------------------
(* open and close. *)

\* What f says of the workers once another one starts with v.
Started(f, v) ==
  [now |-> v, earlier |-> IF worker["now"] = "none" THEN f["earlier"] ELSE f["now"]]

OpenSession ==
  /\ \E e \in Workers : worker[e] = "none"
  /\ isOpen' = TRUE /\ phaseOf' = "opening"
  /\ pending' = NoWords /\ received' = <<>>
  /\ worker' = Started(worker, "connecting") /\ carries' = Started(carries, NoWords)
  /\ peer' = Started(peer, "none") /\ got' = Started(got, 0)
  /\ upward' = Started(upward, <<>>) /\ downward' = Started(downward, <<>>)

\* Mutant: what was received stays for the next session.
ClosesEmptied == received' = received

EmptiesRing == received' = <<>>

\* What is on the way to a worker whose session is over is never delivered.
CloseSession ==
  /\ isOpen' = FALSE /\ phaseOf' = "closed"
  /\ pending' = NoWords /\ EmptiesRing
  /\ downward' = [e \in Workers |-> <<>>]
  /\ UNCHANGED <<workerVars, peer, upward, got>>

-----------------------------------------------------------------------------
(* The main thread: NativeWebGameClient. *)

\* The player enters gameplay.
Enters ==
  /\ ~wanted /\ wanted' = TRUE
  /\ UNCHANGED <<client, following, sequence, nativeVars, workerVars, serverVars>>

StartsOver == client' = "idle" /\ following' = FALSE /\ sequence' = 1

\* disconnect()
Disconnect == StartsOver /\ CloseSession /\ wanted' = wanted

Proceeds(stage) == client' = stage /\ UNCHANGED <<wanted, following>>

\* send(): refused while the message before it is pending.
CanSend == phaseOf = "open" /\ pending = NoWords

SendsWords(kind) ==
  /\ CanSend
  /\ pending' = [kind |-> kind, seq |-> sequence]
  /\ sequence' = IF sequence = LastSequence THEN 1 ELSE sequence + 1
  /\ UNCHANGED <<isOpen, phaseOf, workerVars, serverVars>>

\* Mutant: messages are left in the ring while an input is pending.
TakesWhenSent == pending = NoWords /\ received # <<>> /\ received' = Tail(received)

TakesWords == received # <<>> /\ received' = Tail(received)

\* The player leaves gameplay: service(false) in the same frame.
ServiceOff ==
  /\ wanted /\ wanted' = FALSE
  /\ StartsOver
  /\ IF client = "idle" THEN UNCHANGED <<nativeVars, workerVars, serverVars>>
     ELSE CloseSession

ServiceOpens ==
  /\ wanted /\ client = "idle"
  /\ OpenSession /\ Proceeds("opened") /\ UNCHANGED sequence

ServiceFailed == wanted /\ client # "idle" /\ phaseOf = "failed" /\ Disconnect

Serviced == wanted /\ phaseOf = "open"

ServiceGreets ==
  /\ Serviced /\ client = "opened"
  /\ SendsWords("hello") /\ Proceeds("greeting") /\ UNCHANGED received

\* What the client waits for in each stage; anything else ends the session.
Expected == CASE client = "greeting" -> {"ack"}
              [] client = "joining" -> {"response"}
              [] client = "joined" -> {"snapshot"}
              [] OTHER -> {}

ServiceUnexpected ==
  /\ Serviced /\ client # "opened" /\ received # <<>>
  /\ \/ Head(received).kind \notin Expected
     \/ client = "greeting" /\ ~CanSend
  /\ Disconnect

ServiceJoins ==
  /\ Serviced /\ client = "greeting" /\ TakesWords /\ Head(received).kind = "ack"
  /\ SendsWords("join") /\ Proceeds("joining")

ServiceReceives ==
  /\ Serviced /\ client \in {"joining", "joined"} /\ TakesWords
  /\ Head(received).kind \in Expected
  /\ client' = "joined"
  /\ following' = (client = "joined")
  /\ UNCHANGED <<wanted, sequence, isOpen, phaseOf, pending, workerVars, serverVars>>

\* sendInput(), once a frame; a frame that finds a message pending keeps its
\* edges for the next.
SendInput ==
  /\ client = "joined" /\ following
  /\ SendsWords("input")
  /\ UNCHANGED <<wanted, client, following, received>>

Service ==
  \/ ServiceOpens \/ ServiceFailed \/ ServiceGreets
  \/ ServiceUnexpected \/ ServiceJoins \/ ServiceReceives

-----------------------------------------------------------------------------
(* worker_main. *)

\* Mutant: only the flag, which the next open clears again, stops a worker.
StoppedByFlag(e) == phaseOf = "closed"

\* worker_stopped: close and open both start another epoch.
Stopped(e) == e = "earlier" \/ ~isOpen

Goes(e, pc) == worker' = [worker EXCEPT ![e] = pc]
Carries(e, words) == carries' = [carries EXCEPT ![e] = words]

\* connect_server, the websocket handshake included.
Connects(e) ==
  /\ worker[e] = "connecting" /\ ~Stopped(e)
  /\ Goes(e, "looking") /\ phaseOf' = "open"
  /\ peer' = [peer EXCEPT ![e] = "new"]
  /\ UNCHANGED <<mainVars, isOpen, pending, received, carries, upward, downward, got>>

ConnectFails(e) ==
  /\ worker[e] = "connecting"
  /\ Stopped(e) \/ MayBreak
  /\ Goes(e, "ending")
  /\ UNCHANGED <<mainVars, nativeVars, carries, serverVars>>

\* The head of the loop: the one look at what is pending.
Looks(e) ==
  /\ worker[e] = "looking"
  /\ IF Stopped(e) THEN Goes(e, "ending") /\ UNCHANGED carries
     ELSE IF pending # NoWords THEN Goes(e, "sending") /\ Carries(e, pending)
     ELSE Goes(e, "receiving") /\ UNCHANGED carries
  /\ UNCHANGED <<mainVars, nativeVars, serverVars>>

\* send_frame waits for room and does not ask whether the session is over.
SendsFrame(e) ==
  /\ worker[e] = "sending"
  /\ IF peer[e] = "none"
     THEN Goes(e, "ending") /\ UNCHANGED upward
     ELSE /\ Len(upward[e]) < MaxUnderWay
          /\ Goes(e, "sent") /\ upward' = [upward EXCEPT ![e] = Append(@, carries[e])]
  /\ Carries(e, NoWords)
  /\ UNCHANGED <<mainVars, nativeVars, peer, downward, got>>

\* Mutant: the worker clears what a later session has pending.
ClearsPendingOfAny(e) == pending' = NoWords

ClearsPending(e) == pending' = IF Stopped(e) THEN pending ELSE NoWords

SentFrame(e) ==
  /\ worker[e] = "sent"
  /\ ClearsPending(e)
  /\ Goes(e, "receiving")
  /\ UNCHANGED <<mainVars, isOpen, phaseOf, received, carries, serverVars>>

\* receive_message: nothing but a whole message, the end of the session or of
\* the connection leaves it.
Receives(e) ==
  /\ worker[e] = "receiving"
  /\ IF Stopped(e) THEN Goes(e, "ending") /\ UNCHANGED <<carries, downward>>
     ELSE IF downward[e] # <<>>
     THEN /\ Goes(e, "delivering") /\ Carries(e, [kind |-> Head(downward[e])])
          /\ downward' = [downward EXCEPT ![e] = Tail(@)]
     ELSE peer[e] = "none" /\ Goes(e, "ending") /\ UNCHANGED <<carries, downward>>
  /\ UNCHANGED <<mainVars, nativeVars, peer, upward, got>>

\* Mutant: a worker whose session ended while it waited for room delivers.
DeliversLate(e) == FALSE

OverWhileWaiting(e) == Stopped(e)

\* Mutant: one message more than the ring holds.
RingFullLate == Len(received) > MaxReceived

RingFull == Len(received) = MaxReceived

\* deliver_message waits for room in the ring.
Delivers(e) ==
  /\ worker[e] = "delivering"
  /\ IF OverWhileWaiting(e)
     THEN Goes(e, "ending") /\ UNCHANGED received
     ELSE /\ ~RingFull
          /\ received' = Append(received, [kind |-> carries[e].kind, of |-> e]) /\ Goes(e, "looking")
  /\ Carries(e, NoWords)
  /\ UNCHANGED <<mainVars, isOpen, phaseOf, pending, serverVars>>

Ends(e) ==
  /\ worker[e] = "ending"
  /\ Goes(e, "none")
  /\ phaseOf' = IF Stopped(e) THEN phaseOf ELSE "failed"
  /\ peer' = [peer EXCEPT ![e] = "none"]
  /\ upward' = [upward EXCEPT ![e] = <<>>] /\ downward' = [downward EXCEPT ![e] = <<>>]
  /\ got' = [got EXCEPT ![e] = 0]
  /\ UNCHANGED <<mainVars, isOpen, pending, received, carries>>

Works(e) ==
  \/ Connects(e) \/ Looks(e) \/ SendsFrame(e) \/ SentFrame(e)
  \/ Receives(e) \/ Delivers(e) \/ Ends(e)

-----------------------------------------------------------------------------
(* The server. *)

ServerOnly == UNCHANGED <<mainVars, nativeVars, workerVars>>

\* The connection ends; what was sent before arrives.
Drops(e) == /\ peer' = [peer EXCEPT ![e] = "none"]
            /\ upward' = [upward EXCEPT ![e] = <<>>] /\ got' = [got EXCEPT ![e] = 0]
            /\ UNCHANGED downward

\* webHandleWebSocketEvent: a hello, then a join, then inputs that advance.
Welcome(e, m) ==
  \/ peer[e] = "new" /\ m.kind = "hello"
  \/ peer[e] = "greeted" /\ m.kind = "join"
  \/ peer[e] = "joined" /\ m.kind = "input" /\ m.seq > got[e]

ServerReads(e) ==
  /\ peer[e] # "none" /\ upward[e] # <<>>
  /\ LET m == Head(upward[e])
     IN IF Welcome(e, m)
        THEN /\ upward' = [upward EXCEPT ![e] = Tail(@)]
             /\ peer' = [peer EXCEPT ![e] = IF m.kind = "hello" THEN "greeted" ELSE "joined"]
             /\ downward' = [downward EXCEPT ![e] =
                  CASE m.kind = "hello" -> Append(@, "ack")
                    [] m.kind = "join" -> Append(@, "response")
                    [] OTHER -> @]
             /\ got' = [got EXCEPT ![e] = m.seq]
        ELSE Drops(e)
  /\ ServerOnly

\* The match is full.
ServerRefuses(e) ==
  /\ peer[e] = "greeted" /\ upward[e] # <<>> /\ Head(upward[e]).kind = "join"
  /\ MayBreak /\ Drops(e)
  /\ ServerOnly

\* A snapshot of every tick, and what other players say.
Tells(e, kind) ==
  /\ peer[e] = "joined" /\ ~Stopped(e) /\ Len(downward[e]) < MaxUnderWay
  /\ downward' = [downward EXCEPT ![e] = Append(@, kind)]
  /\ UNCHANGED <<peer, upward, got>> /\ ServerOnly

\* A connection that has not joined and says nothing for 30 seconds, in which
\* the client was serviced.
IdleCloses(e) ==
  /\ client # "opened" /\ received = <<>>
  /\ peer[e] \in {"new", "greeted"} /\ upward[e] = <<>> /\ downward[e] = <<>>
  /\ worker[e] = "receiving" /\ ~Stopped(e)
  /\ Drops(e) /\ ServerOnly

Breaks(e) ==
  /\ peer[e] # "none"
  /\ MayBreak /\ Drops(e)
  /\ ServerOnly

-----------------------------------------------------------------------------
SyncNext ==
  \/ Enters \/ ServiceOff \/ Service \/ SendInput
  \/ \E e \in Workers :
       \/ Works(e) \/ ConnectFails(e)
       \/ ServerReads(e) \/ ServerRefuses(e) \/ IdleCloses(e) \/ Breaks(e)
       \/ \E kind \in {"snapshot", "chat"} : Tells(e, kind)

\* The main loop calls service every frame, threads run, the server reads,
\* ticks and closes what is idle.
SyncFairness ==
  /\ WF_syncVars(Service)
  /\ \A e \in Workers :
       /\ WF_syncVars(Works(e) \/ (Stopped(e) /\ ConnectFails(e)))
       /\ WF_syncVars(ServerReads(e) \/ IdleCloses(e))
       /\ WF_syncVars(Tells(e, "snapshot"))

SyncSpec == SyncInit /\ [][SyncNext]_syncVars /\ SyncFairness

-----------------------------------------------------------------------------
(* Properties. *)

\* Whatever an earlier worker still does, what is pending and what was
\* received belongs to the session the client is in.
OwnSession ==
  /\ ~isOpen => pending = NoWords /\ received = <<>>
  /\ \A k \in DOMAIN received : received[k].of = "now"

\* Threads of two sessions keep to their own.
SyncInv == SyncTypeOK /\ OwnSession

\* Every message reaches the server once and in order: none is lost between
\* the threads, sent twice, or taken by another session's worker.
InSequence ==
  [][\A e \in Workers :
       worker[e] = "sending" /\ worker'[e] = "sent" =>
         LET m == upward'[e][Len(upward'[e])]
             last == IF upward[e] = <<>> THEN got[e] ELSE upward[e][Len(upward[e])].seq
         IN m.seq = (last % LastSequence) + 1]_syncVars

\* A worker whose session is over ends, wherever it was.
StaleWorkersEnd == worker["earlier"] # "none" ~> worker["earlier"] = "none"

\* An input handed over in a match is sent, or the session ends: the ring and
\* the one message pending never block each other.
InputsGoOut == client = "joined" /\ pending # NoWords ~> pending = NoWords

\* The client's threads hand everything on once and in order, and none waits for ever.
ClientGoesOn == InSequence /\ StaleWorkersEnd /\ InputsGoOut

-----------------------------------------------------------------------------
(* What the documentation says of the client. *)

\* The native client joins the match of the web clients, as long as the player
\* stays in gameplay and connections do not fail for ever.
ClientJoins == <>[]wanted => <>(client = "joined")
=============================================================================
