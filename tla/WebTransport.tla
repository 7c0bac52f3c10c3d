---------------------------- MODULE WebTransport ----------------------------
(***************************************************************************)
(* native/kookie_web_server.c and the connection table of                  *)
(* apps/web_server/main.kf.  A network thread accepts sockets, reads       *)
(* frames into one bounded event queue and writes output; the main thread  *)
(* polls one event at a time and calls back into the same structures.      *)
(* Both hold one mutex per call, so a call is one action; the main thread  *)
(* may be overtaken between the calls of a handler.                        *)
(*                                                                         *)
(* A native connection is named by its id; the array index it occupies is  *)
(* abstracted to the number of ids in use.  What a frame says is           *)
(* abstracted to what its handler does to connections.                     *)
(***************************************************************************)
EXTENDS Naturals, Sequences, FiniteSets

CONSTANTS MaxConnections,  \* NC, and the length of connectionUsed
          MaxEvents,       \* NE
          MaxId            \* bound on the ids a behaviour hands out

ASSUME TransportAssumption ==
  {MaxConnections, MaxEvents, MaxId} \subseteq Nat \ {0}

Ids == 1 .. MaxId
NoId == 0
Kinds == {"open", "http", "frame", "closed"}
Event == [kind : Kinds, id : Ids]

VARIABLES
  state,    \* "new": never accepted; "open", "dead": used; "gone": cleared
  nextid,   \* the next id accept gives
  closing,  \* close_after
  notified, \* dead connections whose closing has been queued
  ws,       \* upgraded connections
  output,   \* connections with bytes left to send
  queue,    \* the event ring, oldest first
  table,    \* main: the ids of the used connection slots
  cur       \* main: the event it is handling, Idle between events

native == <<state, nextid, closing, notified, ws, output, queue>>
vars == <<native, table, cur>>

Idle == [kind |-> "none", id |-> NoId]

TypeOK ==
  /\ state \in [Ids -> {"new", "open", "dead", "gone"}]
  /\ nextid \in 1 .. MaxId + 1
  /\ closing \in SUBSET Ids
  /\ notified \in SUBSET Ids
  /\ ws \in SUBSET Ids
  /\ output \in SUBSET Ids
  /\ queue \in Seq(Event) /\ Len(queue) <= MaxEvents
  /\ table \in SUBSET Ids
  /\ cur \in Event \cup {Idle}

Init ==
  /\ state = [i \in Ids |-> "new"]
  /\ nextid = 1
  /\ closing = {} /\ notified = {} /\ ws = {} /\ output = {}
  /\ queue = <<>>
  /\ table = {}
  /\ cur = Idle

-----------------------------------------------------------------------------
Used == {i \in Ids : state[i] \in {"open", "dead"}}
Ev(k, i) == [kind |-> k, id |-> i]

\* Mutant: a ring that forgets its bound.
FitsAlways(q) == TRUE

Fits(q) == Len(q) < MaxEvents

\* drop: emit may find the queue full, then the closing is queued later.
Drop(i) ==
  /\ state' = [state EXCEPT ![i] = "dead"]
  /\ output' = output \ {i}
  /\ IF Fits(queue)
     THEN /\ queue' = Append(queue, Ev("closed", i))
          /\ notified' = notified \cup {i}
     ELSE UNCHANGED <<queue, notified>>

-----------------------------------------------------------------------------
(* The network thread. *)

\* A socket accepted with the queue full is dropped unannounced; without a
\* free entry it is closed at once, which changes nothing here.
Accept ==
  /\ nextid <= MaxId
  /\ Cardinality(Used) < MaxConnections
  /\ nextid' = nextid + 1
  /\ IF Fits(queue)
     THEN /\ state' = [state EXCEPT ![nextid] = "open"]
          /\ queue' = Append(queue, Ev("open", nextid))
     ELSE /\ state' = [state EXCEPT ![nextid] = "dead"]
          /\ UNCHANGED queue
  /\ UNCHANGED <<closing, notified, ws, output, table, cur>>

\* Idle for 30 s, closed by the peer, a socket error or a malformed frame.
Lose(i) ==
  /\ state[i] = "open"
  /\ Drop(i)
  /\ UNCHANGED <<nextid, closing, ws, table, cur>>

\* parse: one request or one data frame becomes one event.
Receive(i) ==
  /\ state[i] = "open" /\ i \notin closing
  /\ IF Fits(queue)
     THEN /\ queue' = Append(queue, Ev(IF i \in ws THEN "frame" ELSE "http", i))
          /\ UNCHANGED <<state, notified, output>>
     ELSE Drop(i)
  /\ UNCHANGED <<nextid, closing, ws, table, cur>>

\* A ping is answered and a close frame echoed by the network thread itself.
Answer(i) ==
  /\ state[i] = "open" /\ i \in ws \ closing
  /\ output' = output \cup {i}
  /\ \/ UNCHANGED closing
     \/ closing' = closing \cup {i}
  /\ UNCHANGED <<state, nextid, notified, ws, queue, table, cur>>

\* The last byte is sent; a connection that was waiting for it is dropped.
Drain(i) ==
  /\ state[i] = "open" /\ i \in output
  /\ IF i \in closing
     THEN Drop(i)
     ELSE /\ output' = output \ {i}
          /\ UNCHANGED <<state, notified, queue>>
  /\ UNCHANGED <<nextid, closing, ws, table, cur>>

-----------------------------------------------------------------------------
(* The main thread.  Nobody else sees the table, so closing a connection and *)
(* releasing its slot is one action.                                         *)

Unannounced == {i \in Ids : state[i] = "dead" /\ i \notin notified}

\* Mutant: only drop announces.
Nobody == {}

\* Connections poll_event still has to announce, after popping an event.
Waiting == Unannounced

\* Mutant: an entry is cleared by whichever event of a dead connection comes.
FreedByAny(e) == IF state[e.id] = "dead" THEN {e.id} ELSE {}

\* The entry an event clears for reuse.
FreedBy(e) == IF e.kind = "closed" THEN {e.id} ELSE {}

\* poll_event: pop; clear a closed connection; announce one that could not be.
Poll ==
  /\ cur = Idle /\ queue # <<>>
  /\ LET freed == FreedBy(Head(queue))
     IN /\ state' = [i \in Ids |-> IF i \in freed THEN "gone" ELSE state[i]]
        /\ closing' = closing \ freed
        /\ ws' = ws \ freed
        /\ IF Waiting = {}
           THEN /\ queue' = Tail(queue)
                /\ notified' = notified \ freed
           ELSE \E i \in Waiting :
                  /\ queue' = Append(Tail(queue), Ev("closed", i))
                  /\ notified' = (notified \ freed) \cup {i}
  /\ cur' = Head(queue)
  /\ UNCHANGED <<nextid, output, table>>

\* Mutant: a table one shorter than the native one.
TableFullEarly == Cardinality(table) >= MaxConnections - 1

TableFull == Cardinality(table) >= MaxConnections

\* Mutants: a slot freed without closing its connection, or not freed at all.
CloseNothing(i) == UNCHANGED <<state, output, queue, notified>>
Keeps(i) == table

\* close_client: nothing to do when the connection is already dead.
Close(i) ==
  IF state[i] = "open" THEN Drop(i)
  ELSE UNCHANGED <<state, output, queue, notified>>

\* release
Without(i) == table \ {i}

HandleOpen ==
  /\ cur.kind = "open"
  /\ IF cur.id \in table \/ TableFull
     THEN Close(cur.id) /\ UNCHANGED table
     ELSE /\ table' = table \cup {cur.id}
          /\ UNCHANGED <<state, output, queue, notified>>
  /\ cur' = Idle
  /\ UNCHANGED <<nextid, closing, ws>>

HandleClosed ==
  /\ cur.kind = "closed"
  /\ table' = Without(cur.id)
  /\ cur' = Idle
  /\ UNCHANGED native

\* A request or frame handler makes any number of the three calls that follow,
\* then returns, successfully or not.
Handling == cur.kind \in {"http", "frame"} /\ cur.id \in table

\* Replies, relayed messages and, between events, the snapshots of a tick.
Send(i) ==
  /\ Handling \/ cur = Idle
  /\ i \in table /\ state[i] = "open"
  /\ output' = output \cup {i}
  /\ UNCHANGED <<state, nextid, closing, notified, ws, queue, table, cur>>

\* The same call on a connection that is dead or whose buffer is full, for a
\* connection other than the handler's own.
SendFails(i) ==
  /\ (Handling /\ i # cur.id) \/ cur = Idle
  /\ i \in table
  /\ Close(i)
  /\ table' = Without(i)
  /\ UNCHANGED <<nextid, closing, ws, cur>>

\* close_client_after_output: its own connection after a refusal, another one
\* after a kick.
CloseAfterOutput(i) ==
  /\ Handling
  /\ i \in table /\ state[i] = "open"
  /\ closing' = closing \cup {i}
  /\ IF i \in output THEN UNCHANGED <<state, output, queue, notified>> ELSE Drop(i)
  /\ UNCHANGED <<nextid, ws, table, cur>>

\* upgrade_websocket: a frame already buffered is parsed at once.  When the
\* queue cannot take it the connection is dropped and the handler fails, which
\* is Reject.
Upgrade ==
  /\ Handling /\ cur.kind = "http"
  /\ state[cur.id] = "open" /\ cur.id \notin ws \cup output
  /\ ws' = ws \cup {cur.id}
  /\ output' = output \cup {cur.id}
  /\ \/ UNCHANGED queue
     \/ Fits(queue) /\ queue' = Append(queue, Ev("frame", cur.id))
  /\ UNCHANGED <<state, nextid, closing, notified, table, cur>>

Return ==
  /\ Handling
  /\ cur' = Idle
  /\ UNCHANGED <<native, table>>

\* A handler that fails, or an event of a connection that is not in the table.
Reject ==
  /\ cur.kind \in {"http", "frame"}
  /\ Close(cur.id)
  /\ table' = Without(cur.id)
  /\ cur' = Idle
  /\ UNCHANGED <<nextid, closing, ws>>

Finish == HandleOpen \/ HandleClosed \/ Return \/ Reject

-----------------------------------------------------------------------------
Next ==
  \/ Accept
  \/ \E i \in Ids : Lose(i) \/ Receive(i) \/ Answer(i) \/ Drain(i)
  \/ Poll \/ Upgrade \/ Finish
  \/ \E i \in Ids : Send(i) \/ SendFails(i) \/ CloseAfterOutput(i)

\* Every handler returns and the main loop polls for ever.  Nothing is assumed
\* of the network thread or of the peers.
Spec == Init /\ [][Next]_vars /\ WF_vars(Poll) /\ WF_vars(Finish)

-----------------------------------------------------------------------------
(* Properties. *)

Queued(k) == {queue[n].id : n \in {m \in 1 .. Len(queue) : queue[m].kind = k}}

\* A closing that could not be queued is only ever owed while the queue is
\* full, so the next poll can always announce one.
OwedOnlyWhenFull == Unannounced # {} => Len(queue) = MaxEvents

\* No event outlives its connection: an entry is not cleared for reuse while
\* the queue still speaks of it.
EventsAreOfUsed == \A n \in 1 .. Len(queue) : queue[n].id \in Used

\* The table of the main thread lags behind the native one by the closing it
\* is handling and never more.
TableIsUsed ==
  table \subseteq Used \cup (IF cur.kind = "closed" THEN {cur.id} ELSE {})

\* Ring, native entries and main table agree, however full the ring was when
\* connections died.
EntriesAgree == OwedOnlyWhenFull /\ EventsAreOfUsed /\ TableIsUsed

\* So reserving a slot for an announced connection never fails.
ReserveSucceeds == cur.kind = "open" => cur.id \notin table /\ ~TableFull

\* A connection the peer can use is known to the main thread or announced to
\* it: none is left open without anybody to serve or close it.
OpenIsServed ==
  \A i \in Ids : state[i] = "open" =>
    i \in table \cup Queued("open") \/ cur = Ev("open", i)

\* Every connection finds its slot and its handler.
ConnectionsServed == TypeOK /\ ReserveSucceeds /\ OpenIsServed

\* A dead connection is announced, cleared and its entry reused, however full
\* the queue was when it died.
DeadIsCleared == \A i \in Ids : state[i] = "dead" ~> state[i] = "gone"
=============================================================================
