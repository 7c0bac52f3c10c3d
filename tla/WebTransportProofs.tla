------------------------- MODULE WebTransportProofs -------------------------
(* The event ring and the two connection tables agree, for every number of *)
(* connections, every ring size and every number of accepted sockets; and   *)
(* the chat that runs over the connections reaches everybody it is for and  *)
(* nobody else, for every length of its history and of a match.             *)
EXTENDS WebTransport, WebChat, ListProofs, FiniteSetTheorems, SequenceTheorems,
        WellFoundedInduction, TLAPS

\* What the ring q holds when the connections are in the states st and the
\* closings of nt have been announced: events of used connections, and a
\* closing is the last event of its connection.
RingInv(q, st, nt) ==
  /\ q \in Seq(Event) /\ Len(q) <= MaxEvents
  /\ \A n \in 1 .. Len(q) : st[q[n].id] \in {"open", "dead"}
  /\ \A n \in 1 .. Len(q) : q[n].kind = "closed" =>
       /\ st[q[n].id] = "dead" /\ q[n].id \in nt
       /\ \A m \in n + 1 .. Len(q) : q[m].id # q[n].id

\* The part of the invariant that only native calls change.
NativeInv ==
  /\ state \in [Ids -> {"new", "open", "dead", "gone"}]
  /\ nextid \in Nat \ {0}
  /\ \A i \in Ids : i >= nextid => state[i] = "new"
  /\ notified \subseteq {i \in Ids : state[i] = "dead"}
  /\ RingInv(queue, state, notified)
  /\ OwedOnlyWhenFull

\* The part about the main thread.
MainInv ==
  /\ cur \in Event \cup {Idle}
  /\ cur.kind \in {"open", "http", "frame"} => cur.id \in Used
  /\ TableIsUsed

TransportInv == NativeInv /\ MainInv

-----------------------------------------------------------------------------
\* An event appended to the ring is its last element.
LEMMA AppendFacts ==
  ASSUME NEW q \in Seq(Event), NEW e \in Event
  PROVE  /\ Append(q, e) \in Seq(Event) /\ Len(Append(q, e)) = Len(q) + 1
         /\ \A n \in 1 .. Len(q) : Append(q, e)[n] = q[n]
         /\ Append(q, e)[Len(q) + 1] = e
OBVIOUS

\* Popping an event moves the others one place forward.
LEMMA TailFacts ==
  ASSUME NEW q \in Seq(Event), q # <<>>
  PROVE  /\ Tail(q) \in Seq(Event) /\ Len(Tail(q)) = Len(q) - 1
         /\ Len(q) \in Nat \ {0}
         /\ \A n \in 1 .. Len(q) - 1 : Tail(q)[n] = q[n + 1]
         /\ Head(q) = q[1] /\ Head(q) \in Event
OBVIOUS

\* An event of an open connection that is not a closing fits any ring with room.
LEMMA PushKeepsRing ==
  ASSUME NEW q, NEW st, NEW nt, RingInv(q, st, nt), Fits(q),
         NEW e \in Event, e.kind # "closed", st[e.id] = "open"
  PROVE  RingInv(Append(q, e), st, nt)
<1> DEFINE r == Append(q, e)
<1>1. q \in Seq(Event) /\ Len(q) \in Nat /\ Len(q) < MaxEvents /\ MaxEvents \in Nat
  BY TransportAssumption DEF RingInv, Fits
<1>2. /\ r \in Seq(Event) /\ Len(r) = Len(q) + 1
      /\ \A n \in 1 .. Len(q) : r[n] = q[n]
      /\ r[Len(q) + 1] = e
  BY <1>1, AppendFacts
<1> HIDE DEF r
<1>3. \A n \in 1 .. Len(r) : st[r[n].id] \in {"open", "dead"}
  BY <1>1, <1>2 DEF RingInv
<1>4. \A n \in 1 .. Len(r) : r[n].kind = "closed" =>
       /\ st[r[n].id] = "dead" /\ r[n].id \in nt
       /\ \A m \in n + 1 .. Len(r) : r[m].id # r[n].id
  BY <1>1, <1>2 DEF RingInv
<1> QED
  BY <1>1, <1>2, <1>3, <1>4 DEF RingInv, r

\* The closing of a connection that is dead and was not announced fits too.
LEMMA AnnounceKeepsRing ==
  ASSUME NEW q, NEW st, NEW nt, RingInv(q, st, nt), Fits(q),
         NEW i \in Ids, st[i] = "dead", i \notin nt
  PROVE  RingInv(Append(q, Ev("closed", i)), st, nt \cup {i})
<1> DEFINE e == Ev("closed", i)
           r == Append(q, e)
<1>1. q \in Seq(Event) /\ Len(q) \in Nat /\ Len(q) < MaxEvents /\ MaxEvents \in Nat
  BY TransportAssumption DEF RingInv, Fits
<1>2. e \in Event /\ e.kind = "closed" /\ e.id = i
  BY DEF Ev, Event, Kinds
<1> HIDE DEF e
<1>3. /\ r \in Seq(Event) /\ Len(r) = Len(q) + 1
      /\ \A n \in 1 .. Len(q) : r[n] = q[n]
      /\ r[Len(q) + 1] = e
  BY <1>1, <1>2, AppendFacts
<1> HIDE DEF r
<1>4. \A n \in 1 .. Len(r) : st[r[n].id] \in {"open", "dead"}
  BY <1>1, <1>2, <1>3 DEF RingInv
<1>5. \A n \in 1 .. Len(r) : r[n].kind = "closed" =>
       /\ st[r[n].id] = "dead" /\ r[n].id \in nt \cup {i}
       /\ \A m \in n + 1 .. Len(r) : r[m].id # r[n].id
  BY <1>1, <1>2, <1>3 DEF RingInv
<1> QED
  BY <1>1, <1>3, <1>4, <1>5 DEF RingInv, r, e

\* The events of a ring name connections.
LEMMA EventIds ==
  ASSUME NEW q \in Seq(Event), NEW n \in 1 .. Len(q)
  PROVE  q[n] \in Event /\ q[n].id \in Ids
<1>1. q[n] \in Event
  OBVIOUS
<1> QED
  BY <1>1 DEF Event

\* What the ring says stays true when an open connection dies.
LEMMA DeathKeepsRing ==
  ASSUME NEW q, NEW st \in [Ids -> {"new", "open", "dead", "gone"}], NEW nt,
         RingInv(q, st, nt), NEW i \in Ids, st[i] = "open"
  PROVE  RingInv(q, [st EXCEPT ![i] = "dead"], nt)
<1>1. q \in Seq(Event) /\ \A n \in 1 .. Len(q) : q[n].id \in Ids
  BY EventIds DEF RingInv
<1> QED
  BY <1>1 DEF RingInv

-----------------------------------------------------------------------------
\* drop keeps the ring in order and owes a closing only when the ring is full.
LEMMA DropKeeps ==
  ASSUME NativeInv, NEW i \in Ids, state[i] = "open", Drop(i), UNCHANGED nextid
  PROVE  NativeInv' /\ Used' = Used
<1> DEFINE st == [state EXCEPT ![i] = "dead"]
<1> USE DEF NativeInv
<1>1. /\ state' = st /\ st \in [Ids -> {"new", "open", "dead", "gone"}]
      /\ st[i] = "dead"
      /\ \A j \in Ids : j # i => st[j] = state[j]
  BY DEF Drop
<1>2. RingInv(queue, st, notified)
  BY DeathKeepsRing
<1> HIDE DEF st
<1>3. Used' = Used
  BY <1>1 DEF Used
<1>4. \A j \in Ids : j >= nextid' => state'[j] = "new"
  BY <1>1
<1>5. CASE ~Fits(queue)
  <2>1. UNCHANGED <<queue, notified>>
    BY <1>5 DEF Drop
  <2>2. Len(queue') = MaxEvents
    BY <1>5, <2>1, TransportAssumption DEF Fits, RingInv
  <2>3. RingInv(queue', state', notified')
    BY <1>1, <1>2, <2>1
  <2>4. notified' \subseteq {j \in Ids : state'[j] = "dead"}
    BY <1>1, <2>1
  <2> QED
    BY <1>1, <1>3, <1>4, <2>2, <2>3, <2>4 DEF OwedOnlyWhenFull
<1>6. CASE Fits(queue)
  <2>1. queue' = Append(queue, Ev("closed", i)) /\ notified' = notified \cup {i}
    BY <1>6 DEF Drop
  <2>2. i \notin notified
    OBVIOUS
  <2>3. RingInv(queue', state', notified')
    BY <1>1, <1>2, <1>6, <2>1, <2>2, AnnounceKeepsRing
  <2>4. Unannounced' = {}
    <3>1. Unannounced = {}
      BY <1>6, TransportAssumption DEF OwedOnlyWhenFull, Fits
    <3> QED
      BY <1>1, <2>1, <3>1 DEF Unannounced
  <2>5. notified' \subseteq {j \in Ids : state'[j] = "dead"}
    BY <1>1, <2>1
  <2> QED
    BY <1>1, <1>3, <1>4, <2>3, <2>4, <2>5 DEF OwedOnlyWhenFull
<1> QED
  BY <1>3, <1>5, <1>6

\* Queueing an event of an open connection that is not a closing.
LEMMA PushKeeps ==
  ASSUME NativeInv, Fits(queue), NEW k \in Kinds \ {"closed"},
         NEW i \in Ids, state[i] = "open",
         queue' = Append(queue, Ev(k, i)), UNCHANGED <<state, nextid, notified>>
  PROVE  NativeInv' /\ Used' = Used
<1>1. /\ Ev(k, i) \in Event /\ Ev(k, i).kind # "closed"
      /\ state[Ev(k, i).id] = "open"
  BY DEF Ev, Event
<1>2. RingInv(queue', state', notified')
  BY <1>1, PushKeepsRing DEF NativeInv
<1>3. Unannounced' = {}
  BY TransportAssumption DEF NativeInv, OwedOnlyWhenFull, Fits, Unannounced
<1> QED
  BY <1>2, <1>3 DEF NativeInv, OwedOnlyWhenFull, Used

\* close_client drops an open connection and leaves any other alone.
LEMMA CloseKeeps ==
  ASSUME NativeInv, NEW i \in Ids, Close(i), UNCHANGED nextid
  PROVE  NativeInv' /\ Used' = Used
<1>1. CASE state[i] = "open"
  BY <1>1, DropKeeps DEF Close
<1>2. CASE state[i] # "open"
  BY <1>2 DEF Close, NativeInv, RingInv, OwedOnlyWhenFull, Unannounced, Used
<1> QED
  BY <1>1, <1>2

\* The native part depends on nothing else.
LEMMA NativeUnchanged ==
  ASSUME NativeInv, UNCHANGED <<state, nextid, notified, queue>>
  PROVE  NativeInv' /\ Used' = Used
BY DEF NativeInv, RingInv, OwedOnlyWhenFull, Unannounced, Used

\* A socket is accepted under an id nobody used before.
LEMMA AcceptKeeps ==
  ASSUME NativeInv, Accept
  PROVE  NativeInv' /\ Used \subseteq Used'
<1> USE DEF NativeInv
<1>1. nextid \in Ids /\ state[nextid] = "new" /\ nextid' = nextid + 1
      /\ UNCHANGED notified
  BY DEF Accept, Ids
<1>2. \A j \in Ids : j # nextid => state'[j] = state[j]
  BY <1>1 DEF Accept
<1>3. state' \in [Ids -> {"new", "open", "dead", "gone"}] /\ nextid' \in Nat \ {0}
  BY <1>1 DEF Accept
<1>4. Used \subseteq Used' /\ \A j \in Ids : j >= nextid' => state'[j] = "new"
  BY <1>1, <1>2 DEF Used, Ids
<1>5. notified' \subseteq {j \in Ids : state'[j] = "dead"}
  BY <1>1, <1>2
<1>6. RingInv(queue, state', notified)
  <2>1. queue \in Seq(Event) /\ \A n \in 1 .. Len(queue) : queue[n].id \in Ids
    BY EventIds DEF RingInv
  <2>2. \A n \in 1 .. Len(queue) : queue[n].id # nextid
    BY <1>1, <2>1 DEF RingInv
  <2> QED
    BY <1>2, <2>1, <2>2 DEF RingInv
<1>7. CASE Fits(queue)
  <2>1. queue' = Append(queue, Ev("open", nextid)) /\ state'[nextid] = "open"
    BY <1>1, <1>7 DEF Accept
  <2>2. /\ Ev("open", nextid) \in Event /\ Ev("open", nextid).kind # "closed"
        /\ Ev("open", nextid).id = nextid
    BY <1>1 DEF Ev, Event, Kinds
  <2>3. RingInv(queue', state', notified')
    BY <1>1, <1>6, <1>7, <2>1, <2>2, PushKeepsRing
  <2>4. Unannounced' = {}
    <3>1. Unannounced = {}
      BY <1>7, TransportAssumption DEF OwedOnlyWhenFull, Fits
    <3> QED
      BY <1>1, <1>2, <2>1, <3>1 DEF Unannounced
  <2> QED
    BY <1>3, <1>4, <1>5, <2>3, <2>4 DEF OwedOnlyWhenFull
<1>8. CASE ~Fits(queue)
  <2>1. queue' = queue
    BY <1>8 DEF Accept
  <2>2. Len(queue') = MaxEvents
    BY <1>8, <2>1, TransportAssumption DEF Fits, RingInv
  <2>3. RingInv(queue', state', notified')
    BY <1>1, <1>6, <2>1
  <2> QED
    BY <1>3, <1>4, <1>5, <2>2, <2>3 DEF OwedOnlyWhenFull
<1> QED
  BY <1>4, <1>7, <1>8

\* A poll takes the oldest event, clears what a closing ends and announces a
\* connection that was waiting.
LEMMA PollKeeps ==
  ASSUME NativeInv, Poll
  PROVE  NativeInv' /\ Used' = Used \ FreedBy(Head(queue))
                    /\ (cur'.kind # "closed" => cur'.id \in Used) /\ cur' \in Event
<1> DEFINE e == Head(queue)
           rest == Tail(queue)
           freed == FreedBy(e)
           left == notified \ freed
<1> USE DEF NativeInv
<1>1. /\ queue \in Seq(Event) /\ Len(queue) <= MaxEvents
      /\ rest \in Seq(Event) /\ Len(rest) = Len(queue) - 1
      /\ Len(queue) \in Nat \ {0} /\ MaxEvents \in Nat
      /\ \A n \in 1 .. Len(rest) : rest[n] = queue[n + 1]
      /\ e = queue[1] /\ e \in Event
  BY TailFacts, TransportAssumption DEF Poll, RingInv
<1>2. /\ cur' = e /\ nextid' = nextid
      /\ state' = [i \in Ids |-> IF i \in freed THEN "gone" ELSE state[i]]
  BY DEF Poll
<1>3. e.id \in Ids /\ e.id \in Used
  BY <1>1 DEF RingInv, Used, Event
<1>4. freed \subseteq notified /\ freed \subseteq {e.id}
  BY <1>1 DEF RingInv, FreedBy
<1>5. \A n \in 1 .. Len(rest) : rest[n].id \in Ids /\ rest[n].id \notin freed
  <2>1. \A n \in 1 .. Len(rest) : rest[n].id \in Ids
    BY <1>1, EventIds
  <2>2. \A n \in 1 .. Len(rest) : e.kind = "closed" => rest[n].id # e.id
    BY <1>1 DEF RingInv
  <2> QED
    BY <2>1, <2>2 DEF FreedBy
<1> HIDE DEF freed, rest, e
<1>6. /\ state' \in [Ids -> {"new", "open", "dead", "gone"}]
      /\ \A j \in Ids : state'[j] = IF j \in freed THEN "gone" ELSE state[j]
  BY <1>2
<1>7. freed \subseteq {j \in Ids : state[j] = "dead"}
  BY <1>4
<1>8. Used' = Used \ freed
  BY <1>6 DEF Used
<1>9. \A j \in Ids : j >= nextid' => state'[j] = "new"
  BY <1>2, <1>6, <1>7
<1>10. RingInv(rest, state', left)
  <2>1. \A n \in 1 .. Len(rest) : state'[rest[n].id] = state[rest[n].id]
    BY <1>5, <1>6
  <2>2. \A n \in 1 .. Len(rest) : state'[rest[n].id] \in {"open", "dead"}
    BY <1>1, <2>1 DEF RingInv
  <2>3. ASSUME NEW n \in 1 .. Len(rest), rest[n].kind = "closed"
        PROVE  /\ state'[rest[n].id] = "dead" /\ rest[n].id \in left
               /\ \A m \in n + 1 .. Len(rest) : rest[m].id # rest[n].id
    <3>1. rest[n] = queue[n + 1] /\ n + 1 \in 1 .. Len(queue)
      BY <1>1
    <3>2. state[rest[n].id] = "dead" /\ rest[n].id \in notified
      BY <2>3, <3>1 DEF RingInv
    <3>3. \A m \in n + 2 .. Len(queue) : queue[m].id # rest[n].id
      BY <2>3, <3>1 DEF RingInv
    <3>4. ASSUME NEW m \in n + 1 .. Len(rest)
          PROVE  rest[m].id # rest[n].id
      <4>1. m \in 1 .. Len(rest) /\ m + 1 \in n + 2 .. Len(queue)
        BY <1>1
      <4> QED
        BY <1>1, <3>3, <4>1
    <3> QED
      BY <1>5, <2>1, <3>2, <3>4
  <2> QED
    BY <1>1, <2>2, <2>3 DEF RingInv
<1>11. left \subseteq {j \in Ids : state'[j] = "dead"}
  BY <1>6
<1>12. CASE Waiting = {}
  <2>1. queue' = rest /\ notified' = left
    BY <1>12 DEF Poll, rest, freed, e
  <2>2. Unannounced' = {}
    BY <1>6, <1>12, <2>1 DEF Waiting, Unannounced
  <2>3. NativeInv'
    BY <1>2, <1>6, <1>9, <1>10, <1>11, <2>1, <2>2 DEF OwedOnlyWhenFull
  <2> QED
    BY <1>1, <1>2, <1>3, <1>8, <2>3 DEF freed, e
<1>13. CASE Waiting # {}
  <2>1. PICK i \in Waiting : /\ queue' = Append(rest, Ev("closed", i))
                             /\ notified' = left \cup {i}
    BY <1>13 DEF Poll, rest, freed, e
  <2>2. i \in Ids /\ state[i] = "dead" /\ i \notin notified
    BY <2>1 DEF Waiting, Unannounced
  <2>3. state'[i] = "dead" /\ i \notin left
    BY <1>4, <1>6, <2>2
  <2>4. Fits(rest)
    BY <1>1 DEF Fits
  <2>5. RingInv(queue', state', notified')
    BY <1>10, <2>1, <2>2, <2>3, <2>4, AnnounceKeepsRing
  <2>6. Len(queue') = MaxEvents
    <3>1. Len(queue) = MaxEvents
      BY <1>13 DEF Waiting, OwedOnlyWhenFull
    <3>2. Ev("closed", i) \in Event
      BY <2>2 DEF Ev, Event, Kinds
    <3> QED
      BY <1>1, <2>1, <3>1, <3>2, AppendFacts
  <2>7. notified' \subseteq {j \in Ids : state'[j] = "dead"}
    BY <1>11, <2>1, <2>2, <2>3
  <2>8. NativeInv'
    BY <1>2, <1>6, <1>9, <2>5, <2>6, <2>7 DEF OwedOnlyWhenFull
  <2> QED
    BY <1>1, <1>2, <1>3, <1>8, <2>8 DEF freed, e
<1> QED
  BY <1>12, <1>13

-----------------------------------------------------------------------------
\* Nothing happened yet.
LEMMA InitHolds == Init => TransportInv
<1> SUFFICES ASSUME Init PROVE TransportInv
  OBVIOUS
<1>1. state \in [Ids -> {"new", "open", "dead", "gone"}]
      /\ \A i \in Ids : state[i] = "new"
  BY DEF Init
<1>2. queue \in Seq(Event) /\ Len(queue) = 0 /\ MaxEvents \in Nat
  BY TransportAssumption DEF Init
<1>3. RingInv(queue, state, notified)
  BY <1>2 DEF RingInv
<1>4. Unannounced = {} /\ notified = {} /\ nextid = 1 /\ table = {} /\ cur = Idle
  BY <1>1 DEF Init, Unannounced
<1>5. cur.kind = "none"
  BY <1>4 DEF Idle
<1> QED
  BY <1>1, <1>3, <1>4, <1>5 DEF TransportInv, NativeInv, MainInv, OwedOnlyWhenFull,
                               TableIsUsed

\* What the main thread knows survives any step that leaves it and the used
\* connections alone.
LEMMA MainUnchanged ==
  ASSUME MainInv, UNCHANGED <<table, cur>>, Used \subseteq Used'
  PROVE  MainInv'
BY DEF MainInv, TableIsUsed

\* The same when the handler ends or gives up connections.
LEMMA MainReleases ==
  ASSUME MainInv, cur.kind # "closed", table' \subseteq table, Used' = Used,
         cur' \in {cur, Idle}
  PROVE  MainInv'
<1>1. Idle.kind = "none"
  BY DEF Idle
<1> QED
  BY <1>1 DEF MainInv, TableIsUsed

\* Every step of either thread keeps the ring and the two tables together.
LEMMA StepKeeps == TransportInv /\ [Next]_vars => TransportInv'
<1> SUFFICES ASSUME TransportInv, [Next]_vars PROVE TransportInv'
  OBVIOUS
<1>0. NativeInv /\ MainInv
  BY DEF TransportInv
<1> USE <1>0
<1>1. CASE Accept
  BY <1>1, AcceptKeeps, MainUnchanged DEF TransportInv, Accept
<1>2. CASE \E i \in Ids : Lose(i) \/ Receive(i) \/ Answer(i) \/ Drain(i)
  <2> PICK i \in Ids : Lose(i) \/ Receive(i) \/ Answer(i) \/ Drain(i)
    BY <1>2
  <2>1. CASE Lose(i)
    BY <2>1, DropKeeps, MainUnchanged DEF TransportInv, Lose
  <2>2. CASE Receive(i)
    <3>1. UNCHANGED <<nextid, table, cur>> /\ state[i] = "open"
      BY <2>2 DEF Receive
    <3>2. CASE Fits(queue)
      <4> DEFINE k == IF i \in ws THEN "frame" ELSE "http"
      <4>1. k \in Kinds \ {"closed"}
        BY DEF Kinds
      <4>2. queue' = Append(queue, Ev(k, i)) /\ UNCHANGED <<state, notified>>
        BY <2>2, <3>2 DEF Receive
      <4> HIDE DEF k
      <4> QED
        BY <3>1, <3>2, <4>1, <4>2, PushKeeps, MainUnchanged DEF TransportInv
    <3>3. CASE ~Fits(queue)
      BY <2>2, <3>1, <3>3, DropKeeps, MainUnchanged DEF TransportInv, Receive
    <3> QED
      BY <3>2, <3>3
  <2>3. CASE Answer(i)
    BY <2>3, NativeUnchanged, MainUnchanged DEF TransportInv, Answer
  <2>4. CASE Drain(i)
    <3>1. CASE i \in closing
      BY <2>4, <3>1, DropKeeps, MainUnchanged DEF TransportInv, Drain
    <3>2. CASE i \notin closing
      BY <2>4, <3>2, NativeUnchanged, MainUnchanged DEF TransportInv, Drain
    <3> QED
      BY <3>1, <3>2
  <2> QED
    BY <2>1, <2>2, <2>3, <2>4
<1>3. CASE Poll
  <2>1. table' = table /\ cur' = Head(queue) /\ table \subseteq Used
    BY <1>3 DEF Poll, MainInv, TableIsUsed, Idle
  <2>2. /\ NativeInv' /\ Used' = Used \ FreedBy(cur')
        /\ (cur'.kind # "closed" => cur'.id \in Used) /\ cur' \in Event
    BY <1>3, <2>1, PollKeeps
  <2>3. MainInv'
    BY <2>1, <2>2 DEF MainInv, TableIsUsed, FreedBy
  <2> QED
    BY <2>2, <2>3 DEF TransportInv
<1>4. CASE Upgrade
  <2>1. /\ UNCHANGED <<state, nextid, notified, table, cur>>
        /\ cur.id \in Ids /\ state[cur.id] = "open"
    <3>1. cur.kind = "http"
      BY <1>4 DEF Upgrade
    <3>2. cur.id \in Ids
      BY <3>1 DEF MainInv, Used
    <3> QED
      BY <1>4, <3>2 DEF Upgrade
  <2>2. CASE queue' = queue
    BY <2>1, <2>2, NativeUnchanged, MainUnchanged DEF TransportInv
  <2>3. CASE Fits(queue) /\ queue' = Append(queue, Ev("frame", cur.id))
    <3>1. "frame" \in Kinds \ {"closed"}
      BY DEF Kinds
    <3> QED
      BY <2>1, <2>3, <3>1, PushKeeps, MainUnchanged DEF TransportInv
  <2> QED
    BY <1>4, <2>2, <2>3 DEF Upgrade
<1>5. CASE Finish
  <2>1. CASE HandleOpen
    <3>1. cur.kind = "open" /\ cur.id \in Ids /\ cur.id \in Used
      BY <2>1 DEF HandleOpen, MainInv, Used
    <3>2. table \subseteq Used /\ cur' = Idle /\ nextid' = nextid
      BY <2>1, <3>1 DEF HandleOpen, MainInv, TableIsUsed
    <3>3. CASE cur.id \in table \/ TableFull
      <4>1. Close(cur.id) /\ table' = table
        BY <2>1, <3>3 DEF HandleOpen
      <4> QED
        BY <3>1, <3>2, <4>1, CloseKeeps, MainReleases DEF TransportInv
    <3>4. CASE ~(cur.id \in table \/ TableFull)
      <4>1. table' = table \cup {cur.id} /\ UNCHANGED <<state, notified, queue>>
        BY <2>1, <3>4 DEF HandleOpen
      <4>2. NativeInv' /\ Used' = Used
        BY <3>2, <4>1, NativeUnchanged
      <4>3. Idle.kind = "none"
        BY DEF Idle
      <4>4. MainInv'
        BY <3>1, <3>2, <4>1, <4>2, <4>3 DEF MainInv, TableIsUsed
      <4> QED
        BY <4>2, <4>4 DEF TransportInv
    <3> QED
      BY <3>3, <3>4
  <2>2. CASE HandleClosed
    <3>1. cur.kind = "closed" /\ table' = table \ {cur.id} /\ cur' = Idle
      BY <2>2 DEF HandleClosed, Without
    <3>2. NativeInv' /\ Used' = Used
      BY <2>2, NativeUnchanged DEF HandleClosed, native
    <3>3. Idle.kind = "none"
      BY DEF Idle
    <3>4. MainInv'
      BY <3>1, <3>2, <3>3 DEF MainInv, TableIsUsed
    <3> QED
      BY <3>2, <3>4 DEF TransportInv
  <2>3. CASE Return
    <3>1. cur.kind # "closed" /\ table' = table /\ cur' = Idle
      BY <2>3 DEF Return, Handling
    <3>2. NativeInv' /\ Used' = Used
      BY <2>3, NativeUnchanged DEF Return, native
    <3> QED
      BY <3>1, <3>2, MainReleases DEF TransportInv
  <2>4. CASE Reject
    <3>1. cur.kind \in {"http", "frame"} /\ cur.id \in Ids
      BY <2>4 DEF Reject, MainInv, Used
    <3>2. Close(cur.id) /\ nextid' = nextid
          /\ table' \subseteq table /\ cur' = Idle
      BY <2>4 DEF Reject, Without
    <3>3. cur.kind # "closed"
      BY <3>1
    <3> QED
      BY <3>1, <3>2, <3>3, CloseKeeps, MainReleases DEF TransportInv
  <2> QED
    BY <1>5, <2>1, <2>2, <2>3, <2>4 DEF Finish
<1>6. CASE \E i \in Ids : Send(i) \/ SendFails(i) \/ CloseAfterOutput(i)
  <2> PICK i \in Ids : Send(i) \/ SendFails(i) \/ CloseAfterOutput(i)
    BY <1>6
  <2>1. CASE Send(i)
    BY <2>1, NativeUnchanged, MainUnchanged DEF TransportInv, Send
  <2>2. CASE SendFails(i)
    <3>1. Close(i) /\ nextid' = nextid /\ table' \subseteq table /\ cur' = cur
      BY <2>2 DEF SendFails, Without
    <3>2. cur.kind # "closed"
      BY <2>2 DEF SendFails, Handling, Idle
    <3> QED
      BY <3>1, <3>2, CloseKeeps, MainReleases DEF TransportInv
  <2>3. CASE CloseAfterOutput(i)
    <3>1. CASE i \in output
      BY <2>3, <3>1, NativeUnchanged, MainUnchanged DEF TransportInv, CloseAfterOutput
    <3>2. CASE i \notin output
      BY <2>3, <3>2, DropKeeps, MainUnchanged DEF TransportInv, CloseAfterOutput
    <3> QED
      BY <3>1, <3>2
  <2> QED
    BY <2>1, <2>2, <2>3
<1>7. CASE UNCHANGED vars
  BY <1>7, NativeUnchanged, MainUnchanged DEF TransportInv, vars, native
<1> QED
  BY <1>1, <1>2, <1>3, <1>4, <1>5, <1>6, <1>7 DEF Next

\* The inductive invariant holds in every state.
LEMMA AlwaysTransportInv == Spec => []TransportInv
BY InitHolds, StepKeeps, PTL DEF Spec

-----------------------------------------------------------------------------
\* Ring, native entries and main table always agree: poll_event can announce
\* every connection that died while the ring was full, drop and poll_event leave
\* no event of a cleared entry in the ring, and the slots of
\* apps/web_server/main.kf are those of native connections, but for the closing
\* being handled.
THEOREM EntriesAlwaysAgree == Spec => []EntriesAgree
<1>1. ASSUME TransportInv PROVE EntriesAgree
  <2>1. \A n \in 1 .. Len(queue) : queue[n].id \in Ids
    BY <1>1, EventIds DEF TransportInv, NativeInv, RingInv
  <2>2. OwedOnlyWhenFull /\ EventsAreOfUsed /\ TableIsUsed
    BY <1>1, <2>1 DEF TransportInv, NativeInv, MainInv, RingInv, EventsAreOfUsed, Used
  <2> QED
    BY <2>2 DEF EntriesAgree
<1> QED
  BY <1>1, AlwaysTransportInv, PTL

-----------------------------------------------------------------------------
(* Every connection is served. *)

IsOpening(e) == e.kind = "open"

\* Why reserving a slot never fails and no open connection is forgotten: the
\* opening of a connection is in the ring once, is handled before the
\* connection has a slot, and the native table is no larger than the other.
ServedInv ==
  /\ \A n \in 1 .. Len(queue) : IsOpening(queue[n]) =>
       /\ queue[n].id \notin table
       /\ IsOpening(cur) => queue[n].id # cur.id
  /\ \A m, n \in 1 .. Len(queue) :
       IsOpening(queue[m]) /\ IsOpening(queue[n]) /\ queue[m].id = queue[n].id => m = n
  /\ IsOpening(cur) => cur.id \notin table
  /\ cur.kind = "closed" => state[cur.id] = "gone"
  /\ \A i \in table : i \in Ids /\ state[i] # "new"
  /\ Cardinality(Used) <= MaxConnections
  /\ \A i \in Ids : state[i] = "open" =>
       \/ i \in table
       \/ \E n \in 1 .. Len(queue) : queue[n] = Ev("open", i)
       \/ cur = Ev("open", i)

\* The native connections are finitely many.
LEMMA UsedIsFinite == IsFiniteSet(Used) /\ Cardinality(Used) \in Nat
<1>1. IsFiniteSet(Ids)
  BY TransportAssumption, FS_Interval DEF Ids
<1>2. IsFiniteSet(Used)
  BY <1>1, FS_Subset DEF Used
<1> QED
  BY <1>2, FS_CardinalityType

\* A step in which connections at most die, the ring at most grows by an event
\* that opens nothing, and slots are only given up for dead connections.
QuietStep ==
  /\ \A i \in Ids : state'[i] = state[i] \/ (state[i] = "open" /\ state'[i] = "dead")
  /\ queue' = queue \/ (\E e \in Event : ~IsOpening(e) /\ queue' = Append(queue, e))
  /\ table' \subseteq table /\ \A i \in table \ table' : state'[i] # "open"
  /\ cur' = cur \/ (~IsOpening(cur) /\ cur' = Idle)

\* Such a step leaves every connection served.
LEMMA QuietStepServes == TransportInv /\ ServedInv /\ QuietStep => ServedInv'
<1> SUFFICES ASSUME TransportInv, ServedInv, QuietStep PROVE ServedInv'
  OBVIOUS
<1>1. queue \in Seq(Event) /\ Len(queue) \in Nat
  BY DEF TransportInv, NativeInv, RingInv
<1>2. /\ Len(queue') \in Nat /\ Len(queue') >= Len(queue)
      /\ \A n \in 1 .. Len(queue) : queue'[n] = queue[n]
      /\ \A n \in 1 .. Len(queue') : IsOpening(queue'[n]) => n \in 1 .. Len(queue)
  <2>1. CASE queue' = queue
    BY <1>1, <2>1
  <2>2. ASSUME NEW e \in Event, ~IsOpening(e), queue' = Append(queue, e)
        PROVE  <1>2!1 /\ <1>2!2 /\ <1>2!3
    BY <1>1, <2>2, AppendFacts
  <2> QED
    BY <2>1, <2>2 DEF QuietStep
<1>3. Used' = Used /\ \A i \in Ids : state[i] = "gone" => state'[i] = "gone"
  BY DEF QuietStep, Used
<1>4. ~IsOpening(Idle) /\ Idle.kind # "closed" /\ \A i \in Ids : IsOpening(Ev("open", i))
  BY DEF IsOpening, Idle, Ev
<1>5. IsOpening(cur') => cur' = cur
  BY <1>4 DEF QuietStep
<1>6. \A n \in 1 .. Len(queue') : IsOpening(queue'[n]) =>
        /\ queue'[n].id \notin table'
        /\ IsOpening(cur') => queue'[n].id # cur'.id
  BY <1>2, <1>5 DEF ServedInv, QuietStep
<1>7. \A m, n \in 1 .. Len(queue') :
        IsOpening(queue'[m]) /\ IsOpening(queue'[n]) /\ queue'[m].id = queue'[n].id => m = n
  BY <1>2 DEF ServedInv
<1>8. IsOpening(cur') => cur'.id \notin table'
  BY <1>5 DEF ServedInv, QuietStep
<1>9. cur'.kind = "closed" => state'[cur'.id] = "gone"
  <2>1. cur'.kind = "closed" => cur' = cur /\ cur.id \in Ids
    BY <1>4 DEF QuietStep, TransportInv, MainInv, Event
  <2> QED
    BY <1>3, <2>1 DEF ServedInv
<1>10. \A i \in table' : i \in Ids /\ state'[i] # "new"
  BY DEF ServedInv, QuietStep
<1>11. ASSUME NEW i \in Ids, state'[i] = "open"
       PROVE  \/ i \in table'
              \/ \E n \in 1 .. Len(queue') : queue'[n] = Ev("open", i)
              \/ cur' = Ev("open", i)
  <2>1. state[i] = "open"
    BY <1>11 DEF QuietStep
  <2>2. CASE i \in table
    BY <1>11, <2>2 DEF QuietStep
  <2>3. CASE \E n \in 1 .. Len(queue) : queue[n] = Ev("open", i)
    BY <1>2, <2>3
  <2>4. CASE cur = Ev("open", i)
    BY <1>4, <2>4 DEF QuietStep
  <2> QED
    BY <2>1, <2>2, <2>3, <2>4 DEF ServedInv
<1> QED
  BY <1>3, <1>6, <1>7, <1>8, <1>9, <1>10, <1>11 DEF ServedInv

\* drop kills one connection and at most announces it.
LEMMA DropIsQuiet ==
  ASSUME TransportInv, NEW i \in Ids, state[i] = "open", Drop(i)
  PROVE  /\ \A j \in Ids : state'[j] = state[j] \/ (state[j] = "open" /\ state'[j] = "dead")
         /\ queue' = queue \/ (\E e \in Event : ~IsOpening(e) /\ queue' = Append(queue, e))
         /\ state'[i] = "dead"
<1>1. Ev("closed", i) \in Event /\ ~IsOpening(Ev("closed", i))
  BY DEF Ev, Event, Kinds, IsOpening
<1>2. state' = [state EXCEPT ![i] = "dead"]
      /\ (queue' = queue \/ queue' = Append(queue, Ev("closed", i)))
  BY DEF Drop
<1> QED
  BY <1>1, <1>2 DEF TransportInv, NativeInv

\* close_client leaves the connection it is called for dead or gone.
LEMMA CloseIsQuiet ==
  ASSUME TransportInv, NEW i \in Ids, Close(i)
  PROVE  /\ \A j \in Ids : state'[j] = state[j] \/ (state[j] = "open" /\ state'[j] = "dead")
         /\ queue' = queue \/ (\E e \in Event : ~IsOpening(e) /\ queue' = Append(queue, e))
         /\ state'[i] # "open"
<1>1. CASE state[i] = "open"
  BY <1>1, DropIsQuiet DEF Close
<1>2. CASE state[i] # "open"
  BY <1>2 DEF Close
<1> QED
  BY <1>1, <1>2

\* An accepted socket is announced, or dead from the start, and fills an entry
\* only when one is free.
LEMMA AcceptServes == TransportInv /\ ServedInv /\ Accept => ServedInv'
<1> SUFFICES ASSUME TransportInv, ServedInv, Accept PROVE ServedInv'
  OBVIOUS
<1>1. /\ nextid \in Ids /\ state[nextid] = "new"
      /\ UNCHANGED <<table, cur>>
      /\ queue \in Seq(Event) /\ Len(queue) \in Nat
      /\ state \in [Ids -> {"new", "open", "dead", "gone"}]
  BY DEF Accept, Ids, TransportInv, NativeInv, RingInv
<1>2. \A n \in 1 .. Len(queue) : queue[n].id \in Ids /\ queue[n].id # nextid
  BY <1>1, EventIds DEF TransportInv, NativeInv, RingInv
<1>3. nextid \notin table
  BY <1>1 DEF ServedInv
<1>4. cur.kind \in {"open", "closed"} => cur.id # nextid /\ cur.id \in Ids
  BY <1>1 DEF ServedInv, TransportInv, MainInv, Used, Event, Idle
<1>5. /\ \A i \in Ids : i # nextid => state'[i] = state[i]
      /\ state'[nextid] \in {"open", "dead"}
  BY <1>1 DEF Accept
<1>6. Cardinality(Used') <= MaxConnections
  <2>1. Used' = Used \cup {nextid} /\ nextid \notin Used
    BY <1>1, <1>5 DEF Used
  <2>2. Cardinality(Used') = Cardinality(Used) + 1
    BY <2>1, UsedIsFinite, FS_AddElement
  <2>3. Cardinality(Used) < MaxConnections
    BY DEF Accept
  <2> QED
    BY <2>2, <2>3, UsedIsFinite, TransportAssumption
<1>7. cur'.kind = "closed" => state'[cur'.id] = "gone"
  BY <1>1, <1>4, <1>5 DEF ServedInv
<1>8. \A i \in table' : i \in Ids /\ state'[i] # "new"
  BY <1>1, <1>3, <1>5 DEF ServedInv
<1>9. CASE ~Fits(queue)
  <2>1. queue' = queue /\ state'[nextid] = "dead"
    BY <1>1, <1>9 DEF Accept
  <2> QED
    BY <1>1, <1>5, <1>6, <1>7, <1>8, <2>1 DEF ServedInv
<1>10. CASE Fits(queue)
  <2> DEFINE e == Ev("open", nextid)
  <2>1. e \in Event /\ IsOpening(e) /\ e.id = nextid /\ queue' = Append(queue, e)
    BY <1>1, <1>10 DEF Accept, Ev, Event, Kinds, IsOpening
  <2>2. /\ Len(queue') = Len(queue) + 1 /\ queue'[Len(queue) + 1] = e
        /\ \A n \in 1 .. Len(queue) : queue'[n] = queue[n]
    BY <1>1, <2>1, AppendFacts
  <2>3. \A n \in 1 .. Len(queue') : IsOpening(queue'[n]) =>
          /\ queue'[n].id \notin table'
          /\ IsOpening(cur') => queue'[n].id # cur'.id
    <3> SUFFICES ASSUME NEW n \in 1 .. Len(queue'), IsOpening(queue'[n])
                 PROVE  /\ queue'[n].id \notin table
                        /\ IsOpening(cur) => queue'[n].id # cur.id
      BY <1>1
    <3>1. CASE n = Len(queue) + 1
      BY <1>3, <1>4, <2>1, <2>2, <3>1 DEF IsOpening
    <3>2. CASE n \in 1 .. Len(queue)
      BY <2>2, <3>2 DEF ServedInv
    <3> QED
      BY <1>1, <2>2, <3>1, <3>2
  <2>4. ASSUME NEW m \in 1 .. Len(queue'), NEW n \in 1 .. Len(queue'),
               IsOpening(queue'[m]), IsOpening(queue'[n]), queue'[m].id = queue'[n].id
        PROVE  m = n
    <3>1. CASE m \in 1 .. Len(queue) /\ n \in 1 .. Len(queue)
      BY <2>2, <2>4, <3>1 DEF ServedInv
    <3>2. CASE m = Len(queue) + 1 \/ n = Len(queue) + 1
      BY <1>1, <1>2, <2>1, <2>2, <2>4, <3>2
    <3> QED
      BY <1>1, <2>2, <3>1, <3>2
  <2>5. ASSUME NEW i \in Ids, state'[i] = "open"
        PROVE  \/ i \in table'
               \/ \E n \in 1 .. Len(queue') : queue'[n] = Ev("open", i)
               \/ cur' = Ev("open", i)
    <3>1. CASE i = nextid
      BY <1>1, <2>2, <3>1
    <3>2. CASE i # nextid
      BY <1>1, <1>5, <2>2, <2>5, <3>2 DEF ServedInv
    <3> QED
      BY <3>1, <3>2
  <2> QED
    BY <1>1, <1>6, <1>7, <1>8, <2>3, <2>4, <2>5 DEF ServedInv
<1> QED
  BY <1>9, <1>10

\* poll_event hands an opening to the main thread and leaves the others queued.
LEMMA PollServes == TransportInv /\ ServedInv /\ Poll => ServedInv'
<1> SUFFICES ASSUME TransportInv, ServedInv, Poll PROVE ServedInv'
  OBVIOUS
<1> DEFINE e == Head(queue)
           rest == Tail(queue)
           freed == FreedBy(e)
<1>1. /\ queue \in Seq(Event) /\ rest \in Seq(Event) /\ Len(rest) = Len(queue) - 1
      /\ Len(queue) \in Nat \ {0}
      /\ \A n \in 1 .. Len(rest) : rest[n] = queue[n + 1]
      /\ e = queue[1] /\ e \in Event
  BY TailFacts DEF Poll, TransportInv, NativeInv, RingInv
<1>2. /\ cur = Idle /\ cur' = e /\ table' = table
      /\ state' = [i \in Ids |-> IF i \in freed THEN "gone" ELSE state[i]]
  BY DEF Poll
<1>3. Used' = Used \ freed
  BY PollKeeps DEF TransportInv
<1>4. e.id \in Ids /\ (e.kind = "closed" => e.id \in freed)
  BY <1>1 DEF Event, FreedBy
<1>5. queue' = rest \/ \E i \in Ids : queue' = Append(rest, Ev("closed", i))
  BY DEF Poll, Waiting, Unannounced
<1> HIDE DEF e, rest, freed
<1>6. /\ Len(queue') \in Nat /\ Len(queue') >= Len(rest)
      /\ \A n \in 1 .. Len(rest) : queue'[n] = rest[n]
      /\ \A n \in 1 .. Len(queue') : IsOpening(queue'[n]) => n \in 1 .. Len(rest)
  <2>1. CASE queue' = rest
    BY <1>1, <2>1
  <2>2. ASSUME NEW i \in Ids, queue' = Append(rest, Ev("closed", i))
        PROVE  <1>6!1 /\ <1>6!2 /\ <1>6!3
    <3>1. Ev("closed", i) \in Event /\ ~IsOpening(Ev("closed", i))
      BY DEF Ev, Event, Kinds, IsOpening
    <3> QED
      BY <1>1, <2>2, <3>1, AppendFacts
  <2> QED
    BY <1>5, <2>1, <2>2
<1>7. \A n \in 1 .. Len(queue') : IsOpening(queue'[n]) =>
        n + 1 \in 2 .. Len(queue) /\ queue'[n] = queue[n + 1]
  BY <1>1, <1>6
<1>8. 1 \in 1 .. Len(queue) /\ 2 .. Len(queue) \subseteq 1 .. Len(queue)
  BY <1>1
<1>9. ASSUME NEW n \in 1 .. Len(queue'), IsOpening(queue'[n])
      PROVE  /\ queue'[n].id \notin table'
             /\ IsOpening(cur') => queue'[n].id # cur'.id
  <2>1. /\ n + 1 \in 1 .. Len(queue) /\ n + 1 # 1
        /\ queue'[n] = queue[n + 1] /\ IsOpening(queue[n + 1])
    BY <1>7, <1>8, <1>9
  <2>2. queue[n + 1].id \notin table
    BY <2>1 DEF ServedInv
  <2>3. IsOpening(queue[1]) => queue[n + 1].id # queue[1].id
    BY <1>8, <2>1 DEF ServedInv
  <2> QED
    BY <1>1, <1>2, <2>1, <2>2, <2>3
<1>10. ASSUME NEW m \in 1 .. Len(queue'), NEW n \in 1 .. Len(queue'),
              IsOpening(queue'[m]), IsOpening(queue'[n]), queue'[m].id = queue'[n].id
       PROVE  m = n
  <2>1. m + 1 = n + 1
    BY <1>7, <1>8, <1>10 DEF ServedInv
  <2> QED
    BY <2>1
<1>11. IsOpening(cur') => cur'.id \notin table'
  BY <1>1, <1>2, <1>8 DEF ServedInv
<1>12. cur'.kind = "closed" => state'[cur'.id] = "gone"
  BY <1>2, <1>4
<1>13. \A i \in table' : i \in Ids /\ state'[i] # "new"
  BY <1>2 DEF ServedInv
<1>14. Cardinality(Used') <= MaxConnections
  <2>1. Cardinality(Used') <= Cardinality(Used) /\ Cardinality(Used') \in Nat
    BY <1>3, UsedIsFinite, FS_Subset, FS_CardinalityType
  <2> QED
    BY <2>1, UsedIsFinite, TransportAssumption DEF ServedInv
<1>15. ASSUME NEW i \in Ids, state'[i] = "open"
       PROVE  \/ i \in table'
              \/ \E n \in 1 .. Len(queue') : queue'[n] = Ev("open", i)
              \/ cur' = Ev("open", i)
  <2>1. state[i] = "open" /\ cur # Ev("open", i)
    BY <1>2, <1>15 DEF Idle, Ev
  <2>2. CASE i \in table
    BY <1>2, <2>2
  <2>3. ASSUME NEW n \in 1 .. Len(queue), queue[n] = Ev("open", i)
        PROVE  \/ \E k \in 1 .. Len(queue') : queue'[k] = Ev("open", i)
               \/ cur' = Ev("open", i)
    <3>1. CASE n = 1
      BY <1>1, <1>2, <2>3, <3>1
    <3>2. CASE n # 1
      <4>1. n - 1 \in 1 .. Len(rest) /\ n - 1 \in 1 .. Len(queue') /\ n - 1 + 1 = n
        BY <1>1, <1>6, <3>2
      <4> QED
        BY <1>1, <1>6, <2>3, <4>1
    <3> QED
      BY <3>1, <3>2
  <2> QED
    BY <2>1, <2>2, <2>3 DEF ServedInv
<1> QED
  BY <1>9, <1>10, <1>11, <1>12, <1>13, <1>14, <1>15 DEF ServedInv

\* The main thread always finds a slot for the connection it is told of.
LEMMA ReserveWorks == TransportInv /\ ServedInv => ReserveSucceeds
<1> SUFFICES ASSUME TransportInv, ServedInv, cur.kind = "open"
             PROVE  cur.id \notin table /\ ~TableFull
  BY DEF ReserveSucceeds
<1>1. cur.id \notin table /\ cur.id \in Used /\ table \subseteq Used
  BY DEF ServedInv, IsOpening, TransportInv, MainInv, TableIsUsed
<1>2. /\ IsFiniteSet(table) /\ Cardinality(table) \in Nat
      /\ Cardinality(table \cup {cur.id}) = Cardinality(table) + 1
  BY <1>1, UsedIsFinite, FS_Subset, FS_CardinalityType, FS_AddElement
<1>3. Cardinality(table \cup {cur.id}) <= Cardinality(Used)
  <2>1. table \cup {cur.id} \subseteq Used
    BY <1>1
  <2> QED
    BY <2>1, UsedIsFinite, FS_Subset
<1> QED
  BY <1>1, <1>2, <1>3, UsedIsFinite, TransportAssumption DEF ServedInv, TableFull

\* The opening that is handled gives its connection a slot.
LEMMA HandleOpenServes == TransportInv /\ ServedInv /\ HandleOpen => ServedInv'
<1> SUFFICES ASSUME TransportInv, ServedInv, HandleOpen PROVE ServedInv'
  OBVIOUS
<1>1. cur.kind = "open" /\ cur.id \in Ids /\ state[cur.id] # "new" /\ IsOpening(cur)
  BY DEF HandleOpen, TransportInv, MainInv, Used, IsOpening
<1>2. table' = table \cup {cur.id} /\ UNCHANGED <<state, queue>> /\ cur' = Idle
  BY <1>1, ReserveWorks DEF HandleOpen, ReserveSucceeds
<1>3. ~IsOpening(Idle) /\ Idle.kind # "closed"
  BY DEF IsOpening, Idle
<1>4. \A i \in Ids : cur = Ev("open", i) => i = cur.id
  BY DEF Ev
<1>5. \A n \in 1 .. Len(queue) : IsOpening(queue[n]) => queue[n].id \notin table'
  BY <1>1, <1>2 DEF ServedInv
<1>6. Used' = Used
  BY <1>2 DEF Used
<1> QED
  BY <1>1, <1>2, <1>3, <1>4, <1>5, <1>6 DEF ServedInv

\* No step of either thread forgets a connection or announces one twice.
LEMMA ServedStep == TransportInv /\ ServedInv /\ [Next]_vars => ServedInv'
<1> SUFFICES ASSUME TransportInv, ServedInv, [Next]_vars PROVE ServedInv'
  OBVIOUS
<1>1. CASE \E i \in Ids : Lose(i) \/ Receive(i) \/ Answer(i) \/ Drain(i)
  <2> PICK i \in Ids : Lose(i) \/ Receive(i) \/ Answer(i) \/ Drain(i)
    BY <1>1
  <2>1. UNCHANGED <<table, cur>> /\ state[i] = "open"
    BY DEF Lose, Receive, Answer, Drain
  <2>2. CASE Drop(i)
    BY <2>1, <2>2, DropIsQuiet, QuietStepServes DEF QuietStep
  <2>3. CASE state' = state /\ queue' = queue
    BY <2>1, <2>3, QuietStepServes DEF QuietStep
  <2>4. ASSUME NEW k \in {"frame", "http"}, state' = state,
               queue' = Append(queue, Ev(k, i))
        PROVE  ServedInv'
    <3>1. Ev(k, i) \in Event /\ ~IsOpening(Ev(k, i))
      BY DEF Ev, Event, Kinds, IsOpening
    <3> QED
      BY <2>1, <2>4, <3>1, QuietStepServes DEF QuietStep
  <2> QED
    BY <2>2, <2>3, <2>4 DEF Lose, Receive, Answer, Drain
<1>2. CASE Upgrade
  <2>1. cur.id \in Ids /\ UNCHANGED <<state, table, cur>>
    BY <1>2 DEF Upgrade, TransportInv, MainInv, Used
  <2>2. Ev("frame", cur.id) \in Event /\ ~IsOpening(Ev("frame", cur.id))
    BY <2>1 DEF Ev, Event, Kinds, IsOpening
  <2>3. queue' = queue \/ queue' = Append(queue, Ev("frame", cur.id))
    BY <1>2 DEF Upgrade
  <2> QED
    BY <2>1, <2>2, <2>3, QuietStepServes DEF QuietStep
<1>3. CASE HandleClosed
  <2>1. /\ UNCHANGED <<state, queue>> /\ table' = table \ {cur.id} /\ cur' = Idle
        /\ ~IsOpening(cur) /\ state[cur.id] = "gone"
    BY <1>3 DEF HandleClosed, native, Without, IsOpening, ServedInv
  <2> QED
    BY <2>1, QuietStepServes DEF QuietStep
<1>4. CASE Return
  BY <1>4, QuietStepServes DEF QuietStep, Return, native, Handling, IsOpening
<1>5. CASE Reject
  <2>1. cur.id \in Ids /\ ~IsOpening(cur) /\ Close(cur.id)
        /\ table' = table \ {cur.id} /\ cur' = Idle
    BY <1>5 DEF Reject, TransportInv, MainInv, Used, IsOpening, Without
  <2> QED
    BY <2>1, CloseIsQuiet, QuietStepServes DEF QuietStep
<1>6. ASSUME NEW i \in Ids, Send(i) \/ SendFails(i) \/ CloseAfterOutput(i)
      PROVE  ServedInv'
  <2>1. CASE Send(i)
    BY <2>1, QuietStepServes DEF QuietStep, Send
  <2>2. CASE SendFails(i)
    BY <2>2, CloseIsQuiet, QuietStepServes DEF QuietStep, SendFails, Without
  <2>3. CASE CloseAfterOutput(i)
    <3>1. UNCHANGED <<table, cur>> /\ state[i] = "open"
      BY <2>3 DEF CloseAfterOutput
    <3>2. CASE i \in output
      BY <2>3, <3>1, <3>2, QuietStepServes DEF QuietStep, CloseAfterOutput
    <3>3. CASE i \notin output
      BY <2>3, <3>1, <3>3, DropIsQuiet, QuietStepServes DEF QuietStep, CloseAfterOutput
    <3> QED
      BY <3>2, <3>3
  <2> QED
    BY <1>6, <2>1, <2>2, <2>3
<1>7. CASE UNCHANGED vars
  BY <1>7, QuietStepServes DEF QuietStep, vars, native
<1> QED
  BY <1>1, <1>2, <1>3, <1>4, <1>5, <1>6, <1>7, AcceptServes, PollServes, HandleOpenServes
     DEF Next, Finish

\* The variables that the ring does not constrain keep their types too.
ExtrasTyped ==
  /\ nextid \in 1 .. MaxId + 1
  /\ closing \in SUBSET Ids /\ ws \in SUBSET Ids /\ output \in SUBSET Ids

\* They are only ever changed for a connection.
LEMMA ExtrasStep == TransportInv /\ ExtrasTyped /\ [Next]_vars => ExtrasTyped'
<1> SUFFICES ASSUME TransportInv, ExtrasTyped, [Next]_vars PROVE ExtrasTyped'
  OBVIOUS
<1>1. cur.kind \in {"http", "frame"} => cur.id \in Ids
  BY DEF TransportInv, MainInv, Used
<1>2. nextid' \in 1 .. MaxId + 1
  <2>1. CASE Accept
    BY <2>1, TransportAssumption DEF Accept, ExtrasTyped
  <2>2. CASE nextid' = nextid
    BY <2>2 DEF ExtrasTyped
  <2> QED
    BY <2>1, <2>2 DEF Next, Lose, Receive, Answer, Drain, Poll, Upgrade, Finish, HandleOpen,
       HandleClosed, Return, Reject, Send, SendFails, CloseAfterOutput, vars, native
<1>3. closing' \in SUBSET Ids
  BY DEF ExtrasTyped, Next, Accept, Lose, Receive, Answer, Drain, Poll, Upgrade, Finish,
     HandleOpen, HandleClosed, Return, Reject, Send, SendFails, CloseAfterOutput, vars, native
<1>4. ws' \in SUBSET Ids
  BY <1>1 DEF ExtrasTyped, Next, Accept, Lose, Receive, Answer, Drain, Poll, Upgrade, Finish,
     HandleOpen, HandleClosed, Return, Reject, Send, SendFails, CloseAfterOutput, vars, native
<1>5. output' \in SUBSET Ids
  <2>1. \A i \in Ids : Drop(i) \/ Close(i) => output' \in SUBSET Ids
    BY DEF Drop, Close, ExtrasTyped
  <2>2. ASSUME NEW i \in Ids, Lose(i) \/ Receive(i) \/ Answer(i) \/ Drain(i)
        PROVE  output' \in SUBSET Ids
    BY <2>1, <2>2 DEF ExtrasTyped, Lose, Receive, Answer, Drain
  <2>3. ASSUME NEW i \in Ids, Send(i) \/ SendFails(i) \/ CloseAfterOutput(i)
        PROVE  output' \in SUBSET Ids
    BY <2>1, <2>3 DEF ExtrasTyped, Send, SendFails, CloseAfterOutput
  <2>4. CASE HandleOpen
    <3>1. cur.id \in Ids
      BY <2>4 DEF HandleOpen, TransportInv, MainInv, Used
    <3> QED
      BY <2>1, <2>4, <3>1 DEF ExtrasTyped, HandleOpen
  <2>5. CASE Reject \/ Upgrade
    <3>1. cur.id \in Ids
      BY <1>1, <2>5 DEF Reject, Upgrade
    <3> QED
      BY <2>1, <2>5, <3>1 DEF ExtrasTyped, Reject, Upgrade
  <2>6. CASE Accept \/ Poll \/ HandleClosed \/ Return \/ UNCHANGED vars
    BY <2>6 DEF ExtrasTyped, Accept, Poll, HandleClosed, Return, vars, native
  <2> QED
    BY <2>2, <2>3, <2>4, <2>5, <2>6 DEF Next, Finish
<1> QED
  BY <1>2, <1>3, <1>4, <1>5 DEF ExtrasTyped

\* Every connection that main.kf is told of gets a slot, and none stays open at
\* the peer without a slot or an announcement, whatever the sizes of the two
\* tables and of the ring and however the two threads interleave.
THEOREM ConnectionsAreServed == Spec => []ConnectionsServed
<1>1. Init => ServedInv /\ ExtrasTyped
  <2> SUFFICES ASSUME Init PROVE ServedInv /\ ExtrasTyped
    OBVIOUS
  <2>1. /\ \A i \in Ids : state[i] = "new"
        /\ Len(queue) = 0 /\ table = {} /\ cur = Idle
        /\ nextid = 1 /\ closing = {} /\ ws = {} /\ output = {}
    BY DEF Init
  <2>2. ~IsOpening(Idle) /\ Idle.kind # "closed"
    BY DEF IsOpening, Idle
  <2>3. Cardinality(Used) <= MaxConnections
    <3>1. Used = {}
      BY <2>1 DEF Used
    <3> QED
      BY <3>1, FS_EmptySet, TransportAssumption
  <2>4. ServedInv
    BY <2>1, <2>2, <2>3 DEF ServedInv
  <2> QED
    BY <2>1, <2>4, TransportAssumption DEF ExtrasTyped
<1>2. TransportInv /\ ServedInv /\ ExtrasTyped => ConnectionsServed
  <2> SUFFICES ASSUME TransportInv, ServedInv, ExtrasTyped PROVE ConnectionsServed
    OBVIOUS
  <2>1. TypeOK
    BY DEF TransportInv, NativeInv, MainInv, RingInv, ServedInv, ExtrasTyped, TypeOK
  <2>2. OpenIsServed
    <3>1. ASSUME NEW i \in Ids, NEW n \in 1 .. Len(queue), queue[n] = Ev("open", i)
          PROVE  i \in Queued("open")
      BY <3>1 DEF Queued, Ev
    <3> QED
      BY <3>1 DEF ServedInv, OpenIsServed
  <2> QED
    BY <2>1, <2>2, ReserveWorks DEF ConnectionsServed
<1> QED
  BY <1>1, <1>2, AlwaysTransportInv, ServedStep, ExtrasStep, PTL DEF Spec

-----------------------------------------------------------------------------
(* Who speaks, and when. *)

\* A connection that may speak has waited: of one that has spoken, no more ticks passed on
\* the clock than in fact, since a map change only sets the clock back.
WaitCounted(s) ==
  /\ request[s] # NoMessage => place[s] # "out"
  /\ place[s] # "out" /\ spoke[s] = LongAgo => since[s] = ChatSpacing
  /\ spoke[s] # LongAgo => since[s] = ChatSpacing \/ chatTick - spoke[s] <= since[s]

ClocksAgree ==
  /\ chatTick \in Nat
  /\ place \in [Chatters -> {"out", "player", "spectator"}]
  /\ spoke \in [Chatters -> Nat \cup {LongAgo}]
  /\ since \in [Chatters -> 0 .. ChatSpacing]
  /\ request \in [Chatters -> Request \cup {NoMessage}]
  /\ \A s \in Chatters : WaitCounted(s)

\* Whoever speaks has waited, and asked for something it may say.
LEMMA SpeakerWaited ==
  ASSUME ClocksAgree, NEW s \in Chatters, Accepted(s)
  PROVE  /\ since[s] = ChatSpacing
         /\ request[s].channel = "team" => team[s] = request[s].to
<1>1. ChatSpacing \in Nat
  BY ChatAssumption
<1>2. WaitCounted(s) /\ place[s] # "out" /\ ~TooSoon(s)
  BY DEF ClocksAgree, WaitCounted, Accepted
<1>3. chatTick \in Nat /\ spoke[s] \in Nat \cup {LongAgo} /\ since[s] \in 0 .. ChatSpacing
  BY DEF ClocksAgree
<1>4. since[s] = ChatSpacing
  BY <1>1, <1>2, <1>3 DEF WaitCounted, TooSoon, LongAgo
<1>5. Allowed(s, request[s])
  BY DEF Accepted
<1> QED
  BY <1>4, <1>5 DEF Allowed

\* A release leaves nothing to count.
LEMMA ReleaseKeepsClocks ==
  ASSUME ClocksAgree, NEW gone \in SUBSET Chatters, ReleasedSeats(gone)
  PROVE  /\ place' \in [Chatters -> {"out", "player", "spectator"}]
         /\ request' \in [Chatters -> Request \cup {NoMessage}]
         /\ \A s \in gone : place'[s] = "out" /\ request'[s] = NoMessage
         /\ \A s \in Chatters \ gone : place'[s] = place[s] /\ request'[s] = request[s]
BY DEF ClocksAgree, ReleasedSeats, Cleared

LEMMA SpeakingIsCounted ==
  ASSUME ClocksAgree, NEW s \in Chatters, Accepted(s)
  PROVE  ClocksAgree'
<1>1. ChatSpacing \in Nat
  BY ChatAssumption
<1>2. chatTick' = chatTick /\ chatTick \in Nat
  BY DEF ClocksAgree, Accepted
<1>3. /\ spoke' \in [Chatters -> Nat \cup {LongAgo}] /\ spoke'[s] = chatTick
      /\ since' \in [Chatters -> 0 .. ChatSpacing] /\ since'[s] = 0
      /\ \A z \in Chatters \ {s} : spoke'[z] = spoke[z] /\ since'[z] = since[z]
  BY <1>1, <1>2 DEF ClocksAgree, Accepted
<1>4. /\ place' \in [Chatters -> {"out", "player", "spectator"}]
      /\ request' \in [Chatters -> Request \cup {NoMessage}]
      /\ request'[s] = NoMessage
      /\ \A z \in Chatters \ {s} : place'[z] = place[z] /\ request'[z] = request[z]
  <2>1. CASE ReleasedSeats({s})
    BY <2>1, ReleaseKeepsClocks
  <2>2. CASE request' = [request EXCEPT ![s] = NoMessage] /\ UNCHANGED roster
    BY <2>2 DEF ClocksAgree, roster
  <2> QED
    BY <2>1, <2>2 DEF Accepted
<1>5. ASSUME NEW z \in Chatters PROVE WaitCounted(z)'
  <2>1. CASE z = s
    BY <1>2, <1>3, <1>4, <2>1 DEF WaitCounted, LongAgo
  <2>2. CASE z # s
    BY <1>2, <1>3, <1>4, <2>2 DEF WaitCounted, ClocksAgree
  <2> QED
    BY <2>1, <2>2
<1> QED
  BY <1>2, <1>3, <1>4, <1>5 DEF ClocksAgree

LEMMA LeavingIsCounted ==
  ASSUME ClocksAgree, NEW s \in Chatters, Leaves(s)
  PROVE  ClocksAgree'
<1>1. ChatSpacing \in Nat
  BY ChatAssumption
<1>2. ReleasedSeats({s}) /\ chatTick' = chatTick
  BY DEF Leaves, Released
<1>3. /\ spoke' \in [Chatters -> Nat \cup {LongAgo}] /\ spoke'[s] = LongAgo
      /\ since' \in [Chatters -> 0 .. ChatSpacing] /\ since'[s] = ChatSpacing
      /\ \A z \in Chatters \ {s} : spoke'[z] = spoke[z] /\ since'[z] = since[z]
  BY <1>1 DEF ClocksAgree, Leaves, Released, Cleared
<1>4. ASSUME NEW z \in Chatters PROVE WaitCounted(z)'
  <2>1. CASE z = s
    BY <1>2, <1>3, <2>1, ReleaseKeepsClocks DEF WaitCounted
  <2>2. CASE z # s
    BY <1>2, <1>3, <2>2, ReleaseKeepsClocks DEF WaitCounted, ClocksAgree
  <2> QED
    BY <2>1, <2>2
<1> QED
  BY <1>2, <1>3, <1>4, ReleaseKeepsClocks DEF ClocksAgree

\* A map change sets the clock back to one, no later than it was.
LEMMA TicksAreCounted ==
  ASSUME ClocksAgree, NEW changes \in BOOLEAN, ChatTicks(changes), dropped \subseteq Chatters
  PROVE  ClocksAgree'
<1>1. ChatSpacing \in Nat /\ ShortestMatch \in Nat \ {0}
  BY ChatAssumption
<1>2. /\ chatTick \in Nat /\ chatTick' \in Nat /\ chatTick' <= chatTick + 1
  BY <1>1 DEF ClocksAgree, ChatTicks
<1>3. /\ since' \in [Chatters -> 0 .. ChatSpacing]
      /\ \A z \in Chatters : since'[z] = ChatSpacing \/ since'[z] = since[z] + 1
      /\ \A z \in Chatters : since[z] = ChatSpacing => since'[z] = ChatSpacing
  BY <1>1 DEF ClocksAgree, ChatTicks
<1>4. /\ spoke' \in [Chatters -> Nat \cup {LongAgo}]
      /\ \A z \in Chatters : spoke'[z] = IF z \in dropped THEN LongAgo ELSE spoke[z]
  BY DEF ClocksAgree, ChatTicks, Released, Cleared
<1>5. ReleasedSeats(dropped)
  BY DEF ChatTicks, Released
<1>6. ASSUME NEW z \in Chatters PROVE WaitCounted(z)'
  <2>1. CASE z \in dropped
    BY <1>4, <1>5, <2>1, ReleaseKeepsClocks DEF WaitCounted
  <2>2. CASE z \notin dropped
    <3>1. place'[z] = place[z] /\ request'[z] = request[z] /\ spoke'[z] = spoke[z]
      BY <1>4, <1>5, <2>2, ReleaseKeepsClocks
    <3>2. WaitCounted(z) /\ spoke[z] \in Nat \cup {LongAgo} /\ since[z] \in 0 .. ChatSpacing
      BY DEF ClocksAgree
    <3> QED
      BY <1>1, <1>2, <1>3, <3>1, <3>2 DEF WaitCounted
  <2> QED
    BY <2>1, <2>2
<1> QED
  BY <1>2, <1>3, <1>4, <1>5, <1>6, ReleaseKeepsClocks DEF ClocksAgree

LEMMA ClocksStart == ChatInit => ClocksAgree
<1> SUFFICES ASSUME ChatInit PROVE ClocksAgree
  OBVIOUS
<1>1. ChatSpacing \in Nat
  BY ChatAssumption
<1> QED
  BY <1>1 DEF ChatInit, ClocksAgree, WaitCounted

LEMMA ClocksStay ==
  ASSUME ClocksAgree, dropped \subseteq Chatters, [ChatNext]_chatVars
  PROVE  ClocksAgree' /\ (dropped \subseteq Chatters)'
<1>0. ChatSpacing \in Nat
  BY ChatAssumption
<1>1. (dropped \subseteq Chatters)'
  BY DEF ChatNext, Joins, SetTeam, Leaves, SocketDrops, Submits, Refused, Unnumbered, Accepted,
         ChatTicks, AdminSays, Released, ReleasedSeats, SeatedChatters, chatVars
<1>2. ASSUME UNCHANGED <<chatTick, place, spoke, since, request>> PROVE ClocksAgree'
  BY <1>2 DEF ClocksAgree, WaitCounted
<1>3. ASSUME NEW s \in Chatters, NEW seat \in {"player", "spectator"}, NEW side, Joins(s, seat, side)
      PROVE  ClocksAgree'
  BY <1>0, <1>3 DEF Joins, ClocksAgree, WaitCounted
<1>4. ASSUME NEW s \in Chatters, NEW m \in Request, Submits(s, m)
      PROVE  ClocksAgree'
  BY <1>4 DEF Submits, ClocksAgree, WaitCounted, SeatedChatters, roster
<1>5. ASSUME NEW s \in Chatters, Leaves(s) \/ Refused(s) \/ Unnumbered(s)
      PROVE  ClocksAgree'
  BY <1>5, LeavingIsCounted DEF Refused, Unnumbered
<1> QED
  BY <1>1, <1>2, <1>3, <1>4, <1>5, SpeakingIsCounted, TicksAreCounted
  DEF ChatNext, SetTeam, SocketDrops, AdminSays, chatVars, roster

\* Whoever speaks is in its turn, and may speak to whom it does.
LEMMA StepsSpeakInTurn ==
  ASSUME ClocksAgree, [ChatNext]_chatVars, NEW s \in Chatters,
         spoke'[s] # spoke[s], spoke'[s] # LongAgo
  PROVE  /\ since[s] = ChatSpacing
         /\ request[s].channel = "team" => team[s] = request[s].to
<1>1. CASE Accepted(s)
  BY <1>1, SpeakerWaited
<1>2. ASSUME NEW z \in Chatters, z # s, Accepted(z) PROVE FALSE
  BY <1>2 DEF Accepted, ClocksAgree
<1>3. ASSUME NEW gone, Released(gone) PROVE FALSE
  BY <1>3 DEF Released, Cleared
<1>4. ASSUME NEW z \in Chatters, NEW seat, NEW side, Joins(z, seat, side) PROVE FALSE
  BY <1>4 DEF Joins, ClocksAgree
<1> QED
  BY <1>1, <1>2, <1>3, <1>4
  DEF ChatNext, SetTeam, SocketDrops, AdminSays, chatVars, Leaves, Submits, Refused, Unnumbered, ChatTicks

\* Nobody speaks in the web match more often than the limit lets it, whatever map changes do
\* to the clock, nor for a team it is not in when its message is handled.
THEOREM TurnsAreKept == ChatSpec => SpeaksInTurn
<1> DEFINE I == ClocksAgree /\ dropped \subseteq Chatters
<1>1. ChatInit => I
  BY ClocksStart DEF ChatInit
<1>2. I /\ [ChatNext]_chatVars => I'
  BY ClocksStay
<1>3. I /\ [ChatNext]_chatVars =>
        [\A s \in Chatters :
           spoke'[s] # spoke[s] /\ spoke'[s] # LongAgo =>
             /\ since[s] = ChatSpacing
             /\ request[s].channel = "team" => team[s] = request[s].to]_chatVars
  BY StepsSpeakInTurn
<1> HIDE DEF I
<1> QED
  BY <1>1, <1>2, <1>3, PTL DEF ChatSpec, SpeaksInTurn

-----------------------------------------------------------------------------
(* Who is told what. *)

Message == [channel : {"global", "team", "whisper"}, to : ChatIds \cup ChatTeams \cup {NobodyId},
            from : 1 .. Console]

\* The ids of those connected are given once, and no whisper is between spectators.
IdsAreOwn ==
  /\ \A s \in SeatedChatters : chatId[s] \in 1 .. freeId - 1
  /\ \A s, t \in SeatedChatters : chatId[s] = chatId[t] => s = t
  /\ \A n \in 1 .. Len(said) : said[n].channel = "whisper" =>
       /\ said[n].from < freeId /\ said[n].to < freeId
       /\ \A s \in SeatedChatters : place[s] = "spectator" => chatId[s] \notin {said[n].from, said[n].to}

\* The ring holds what is kept.
RingHolds == \A n \in OldestKept .. Len(said) : ring[RingSlot(n)] = n

\* May a page in that seat, with that id, have been sent m at some time.
MayKnow(m, seat, id) ==
  /\ m.channel = "whisper" => seat = "player" /\ id \in {m.from, m.to}
  /\ m.channel = "team" => seat = "player"

\* What a page that was connected when "first" was the oldest kept was sent of
\* the messages up to "last".
Known(told, messages, first, last, seat, id) ==
  /\ \A k \in 1 .. Len(told) : told[k] \in first .. last /\ MayKnow(messages[told[k]], seat, id)
  /\ \A k \in 2 .. Len(told) : told[k - 1] < told[k]

AllOf(told, messages, first, last, id) ==
  \A n \in first .. last : Concerns(messages[n], id) => \E k \in 1 .. Len(told) : told[k] = n

ChatTypes ==
  /\ ChatTypeOK /\ said \in Seq(Message)
  /\ \A s \in Chatters : request[s] # NoMessage => place[s] # "out"

Told ==
  \A s \in SeatedChatters :
    /\ oldest[s] <= Len(said) + 1
    /\ Known(heard[s], said, oldest[s], Len(said), place[s], chatId[s])
    /\ s \notin dropped => AllOf(heard[s], said, oldest[s], Len(said), chatId[s])

ChatInv == ChatTypes /\ IdsAreOwn /\ RingHolds /\ Told

-----------------------------------------------------------------------------
(* What the ring replays. *)

LEMMA SlotOfNumber ==
  /\ \A n \in Nat \ {0} : RingSlot(n) \in 0 .. HistorySize - 1
  /\ \A m, n \in Nat \ {0} : m < n /\ n < m + HistorySize => RingSlot(m) # RingSlot(n)
<1>1. HistorySize \in Nat \ {0}
  BY ChatAssumption
<1>2. ASSUME NEW n \in Nat \ {0} PROVE RingSlot(n) \in 0 .. HistorySize - 1
  BY <1>1 DEF RingSlot
<1>3. ASSUME NEW m \in Nat \ {0}, NEW n \in Nat \ {0}, m < n, n < m + HistorySize,
             RingSlot(m) = RingSlot(n)
      PROVE  FALSE
  <2> DEFINE q == (n - 1) \div HistorySize
             p == (m - 1) \div HistorySize
  <2>1. /\ m - 1 = (HistorySize * p) + RingSlot(m) /\ n - 1 = (HistorySize * q) + RingSlot(n)
        /\ p \in Int /\ q \in Int
    BY <1>1 DEF RingSlot
  <2>2. RingSlot(m) \in Int /\ RingSlot(n) \in Int
    BY <1>2
  <2> HIDE DEF p, q
  <2>3. n - m = HistorySize * (q - p)
    BY <1>1, <1>3, <2>1, <2>2
  <2>4. 0 < HistorySize * (q - p) /\ HistorySize * (q - p) < HistorySize
    BY <1>1, <1>3, <2>3
  <2>5. CASE q - p <= 0
    <3>1. HistorySize * (q - p) <= 0
      BY <1>1, <2>1, <2>5
    <3> QED
      BY <1>1, <2>1, <2>4, <3>1
  <2>6. CASE q - p >= 1
    <3>1. HistorySize * (q - p) >= HistorySize
      BY <1>1, <2>1, <2>6
    <3> QED
      BY <1>1, <2>1, <2>4, <3>1
  <2> QED
    BY <2>1, <2>5, <2>6
<1> QED
  BY <1>2, <1>3

\* What is kept are the last numbers, no more than the ring has slots.
LEMMA KeptAreLast ==
  ASSUME said \in Seq(Message)
  PROVE  /\ Kept \in Nat /\ Kept <= HistorySize /\ Len(said) \in Nat
         /\ OldestKept \in Nat \ {0} /\ OldestKept + Kept = Len(said) + 1
         /\ OldestKept <= Len(said) + 1 /\ OldestKept + HistorySize > Len(said)
BY ChatAssumption DEF Kept, OldestKept

\* What has been replayed when the message in the slot of the k-th kept number was read.
ToldNext(before, k, seat, id, side) ==
  LET n == ring[RingSlot(OldestKept + k - 1)]
  IN IF VisibleTo(seat, id, side, said[n]) THEN Append(before, n) ELSE before

ToldBy(told, K, seat, id, side) ==
  told = [k \in 0 .. K |-> IF k = 0 THEN <<>> ELSE ToldNext(told[k - 1], k, seat, id, side)]

\* Its first values: nothing, then one message more or not.
ToldStepwise(told, K, seat, id, side) ==
  /\ DOMAIN told = 0 .. K /\ told[0] = <<>>
  /\ \A k \in 1 .. K : told[k] = ToldNext(told[k - 1], k, seat, id, side)

LEMMA ToldIsStepwise ==
  ASSUME NEW told, NEW K \in Nat, NEW seat, NEW id, NEW side, ToldBy(told, K, seat, id, side)
  PROVE  ToldStepwise(told, K, seat, id, side)
BY DEF ToldStepwise, ToldBy

LEMMA ReplayExists ==
  ASSUME NEW seat, NEW id, NEW side
  PROVE  \A K \in Nat : \E told : ToldBy(told, K, seat, id, side)
<1> DEFINE S == {K \in Nat : \E told : ToldBy(told, K, seat, id, side)}
<1>1. 0 \in S
  <2>1. ToldBy([k \in 0 .. 0 |-> <<>>], 0, seat, id, side)
    BY DEF ToldBy
  <2> QED
    BY <2>1
<1>2. ASSUME NEW K \in Nat, K \in S PROVE K + 1 \in S
  <2>1. PICK told : ToldBy(told, K, seat, id, side)
    BY <1>2
  <2>2. ToldStepwise(told, K, seat, id, side)
    BY <2>1, ToldIsStepwise
  <2> DEFINE last == ToldNext(told[K], K + 1, seat, id, side)
             more == [k \in 0 .. K + 1 |-> IF k = K + 1 THEN last ELSE told[k]]
  <2>3. /\ DOMAIN more = 0 .. K + 1 /\ more[0] = <<>> /\ more[K + 1] = last
        /\ \A k \in 0 .. K : more[k] = told[k]
    <3> HIDE DEF last
    <3> QED
      BY <2>2 DEF ToldStepwise
  <2>4. more = [k \in 0 .. K + 1 |-> more[k]]
    OBVIOUS
  <2> HIDE DEF more
  <2>5. ASSUME NEW k \in 0 .. K + 1
        PROVE  more[k] = IF k = 0 THEN <<>> ELSE ToldNext(more[k - 1], k, seat, id, side)
    <3>1. CASE k = 0
      BY <2>3, <3>1
    <3>2. CASE k = K + 1
      <4>1. more[k] = last /\ more[k - 1] = told[K] /\ k # 0
        BY <2>3, <3>2
      <4> QED
        BY <3>2, <4>1
    <3>3. CASE k # 0 /\ k # K + 1
      <4>1. k \in 1 .. K /\ k \in 0 .. K /\ k - 1 \in 0 .. K
        BY <3>3
      <4>2. told[k] = ToldNext(told[k - 1], k, seat, id, side)
        BY <2>2, <4>1 DEF ToldStepwise
      <4> QED
        BY <2>3, <4>1, <4>2, <3>3
    <3> QED
      BY <3>1, <3>2, <3>3
  <2>6. ToldBy(more, K + 1, seat, id, side)
    BY <2>4, <2>5 DEF ToldBy
  <2> QED
    BY <2>6
<1> HIDE DEF S
<1>3. \A K \in Nat : K \in S
  BY <1>1, <1>2, ReachesAll
<1> QED
  BY <1>3 DEF S

\* The replay is the last of them.
LEMMA ReplayIsTold ==
  ASSUME said \in Seq(Message), NEW seat, NEW id, NEW side
  PROVE  \E told : ToldStepwise(told, Kept, seat, id, side) /\ Replay(seat, id, side) = told[Kept]
<1> DEFINE told == CHOOSE t : ToldBy(t, Kept, seat, id, side)
<1>1. Kept \in Nat
  BY KeptAreLast
<1>2. ToldBy(told, Kept, seat, id, side)
  BY <1>1, ReplayExists, Zenon
<1>3. ToldStepwise(told, Kept, seat, id, side)
  BY <1>1, <1>2, ToldIsStepwise, Zenon
<1>4. Replay(seat, id, side) = told[Kept]
  BY Zenon DEF Replay, ToldBy, ToldNext
<1> QED
  BY <1>3, <1>4, Zenon

-----------------------------------------------------------------------------
(* What one more message does to what a page was sent. *)

\* The next number, sent.
LEMMA OneMoreTold ==
  ASSUME NEW told \in Seq(Nat), NEW messages, NEW first \in Nat, NEW n \in Nat, first <= n,
         NEW seat, NEW id,
         Known(told, messages, first, n - 1, seat, id), MayKnow(messages[n], seat, id)
  PROVE  /\ Append(told, n) \in Seq(Nat)
         /\ Known(Append(told, n), messages, first, n, seat, id)
         /\ AllOf(told, messages, first, n - 1, id) =>
              AllOf(Append(told, n), messages, first, n, id)
<1> DEFINE more == Append(told, n)
<1>1. /\ more \in Seq(Nat) /\ Len(more) = Len(told) + 1 /\ Len(told) \in Nat
      /\ \A k \in 1 .. Len(told) : more[k] = told[k] /\ told[k] \in Nat
      /\ more[Len(told) + 1] = n
  OBVIOUS
<1> HIDE DEF more
<1>2. ASSUME NEW k \in 1 .. Len(more)
      PROVE  more[k] \in first .. n /\ MayKnow(messages[more[k]], seat, id)
  <2>1. CASE k = Len(told) + 1
    BY <1>1, <2>1
  <2>2. CASE k # Len(told) + 1
    <3>1. k \in 1 .. Len(told) /\ more[k] = told[k]
      BY <1>1, <2>2
    <3> QED
      BY <1>1, <3>1 DEF Known
  <2> QED
    BY <2>1, <2>2
<1>3. ASSUME NEW k \in 2 .. Len(more) PROVE more[k - 1] < more[k]
  <2>1. k - 1 \in 1 .. Len(told) /\ more[k - 1] = told[k - 1] /\ told[k - 1] \in first .. n - 1
    BY <1>1 DEF Known
  <2>2. CASE k = Len(told) + 1
    BY <1>1, <2>1, <2>2
  <2>3. CASE k # Len(told) + 1
    <3>1. k \in 2 .. Len(told) /\ more[k] = told[k]
      BY <1>1, <2>3
    <3> QED
      BY <2>1, <3>1 DEF Known
  <2> QED
    BY <2>2, <2>3
<1>4. ASSUME AllOf(told, messages, first, n - 1, id), NEW j \in first .. n,
             Concerns(messages[j], id)
      PROVE  \E k \in 1 .. Len(more) : more[k] = j
  <2>1. CASE j = n
    BY <1>1, <2>1
  <2>2. CASE j # n
    <3>1. j \in first .. n - 1
      BY <2>2
    <3>2. PICK k \in 1 .. Len(told) : told[k] = j
      BY <1>4, <3>1 DEF AllOf
    <3> QED
      BY <1>1, <3>2, SMTT(60)
  <2> QED
    BY <2>1, <2>2
<1> QED
  BY <1>1, <1>2, <1>3, <1>4 DEF more, Known, AllOf

\* The next number, not sent.
LEMMA OneMoreUntold ==
  ASSUME NEW told \in Seq(Nat), NEW messages, NEW first \in Nat, NEW n \in Nat, NEW seat, NEW id,
         Known(told, messages, first, n - 1, seat, id)
  PROVE  /\ Known(told, messages, first, n, seat, id)
         /\ AllOf(told, messages, first, n - 1, id) /\ ~ Concerns(messages[n], id) =>
              AllOf(told, messages, first, n, id)
<1>1. \A j \in first .. n : j = n \/ j \in first .. n - 1
  OBVIOUS
<1>2. \A j \in first .. n - 1 : j \in first .. n
  OBVIOUS
<1> QED
  BY <1>1, <1>2, Zenon DEF Known, AllOf

\* What is said later changes nothing of what was said.
LEMMA LaterIsNoMatter ==
  ASSUME NEW told, NEW messages, NEW others, NEW first \in Nat, NEW last \in Nat, NEW seat, NEW id,
         \A n \in first .. last : messages[n] = others[n]
  PROVE  /\ Known(told, messages, first, last, seat, id) => Known(told, others, first, last, seat, id)
         /\ AllOf(told, messages, first, last, id) => AllOf(told, others, first, last, id)
BY Zenon DEF Known, AllOf

LEMMA VisibleMayBeKnown ==
  ASSUME NEW seat, NEW id, NEW side, NEW m, VisibleTo(seat, id, side, m)
  PROVE  MayKnow(m, seat, id)
BY DEF VisibleTo, MayKnow

\* The replay tells a page in that seat, whom nothing concerns that it cannot
\* see, all that is kept.
LEMMA ReplayTells ==
  ASSUME said \in Seq(Message), RingHolds, NEW seat, NEW id, NEW side,
         \A n \in 1 .. Len(said) : Concerns(said[n], id) => VisibleTo(seat, id, side, said[n])
  PROVE  /\ Replay(seat, id, side) \in Seq(Nat)
         /\ Known(Replay(seat, id, side), said, OldestKept, Len(said), seat, id)
         /\ AllOf(Replay(seat, id, side), said, OldestKept, Len(said), id)
<1> DEFINE first == OldestKept
<1>1. /\ Kept \in Nat /\ Len(said) \in Nat /\ first \in Nat \ {0}
      /\ first + Kept = Len(said) + 1
  BY KeptAreLast
<1>2. PICK told : /\ ToldStepwise(told, Kept, seat, id, side)
                  /\ Replay(seat, id, side) = told[Kept]
  BY ReplayIsTold
<1> DEFINE Good(t, k) == /\ t \in Seq(Nat) /\ Known(t, said, first, first + k - 1, seat, id)
                         /\ AllOf(t, said, first, first + k - 1, id)
           S == {k \in Nat : k <= Kept => Good(told[k], k)}
<1>3. Good(told[0], 0)
  <2>1. told[0] = <<>> /\ <<>> \in Seq(Nat) /\ Len(<<>>) = 0
    BY <1>2, EmptySeq DEF ToldStepwise
  <2>2. 1 .. 0 = {} /\ 2 .. 0 = {} /\ first .. first + 0 - 1 = {}
    BY <1>1
  <2> QED
    BY <2>1, <2>2, Zenon DEF Known, AllOf
<1>4. ASSUME NEW k \in Nat, k + 1 <= Kept, Good(told[k], k) PROVE Good(told[k + 1], k + 1)
  <2> DEFINE n == first + k
  <2>1. n \in Nat /\ n \in 1 .. Len(said) /\ n \in first .. Len(said) /\ first <= n
        /\ n = first + (k + 1) - 1 /\ k + 1 \in 1 .. Kept /\ (k + 1) - 1 = k
    BY <1>1, <1>4
  <2>2. ring[RingSlot(n)] = n
    BY <2>1 DEF RingHolds
  <2>3. told[k + 1] = ToldNext(told[k], k + 1, seat, id, side)
    BY <1>2, <2>1 DEF ToldStepwise
  <2>4. told[k + 1] = IF VisibleTo(seat, id, side, said[n]) THEN Append(told[k], n) ELSE told[k]
    <3>1. ring[RingSlot(OldestKept + (k + 1) - 1)] = n
      BY <2>1, <2>2
    <3> HIDE DEF n
    <3> QED
      BY <2>3, <3>1, Zenon DEF ToldNext
  <2>5. first \in Nat
    BY <1>1
  <2>6. n - 1 = first + k - 1
    BY <1>1
  <2> HIDE DEF first, n
  <2>7. Known(told[k], said, first, n - 1, seat, id) /\ AllOf(told[k], said, first, n - 1, id)
    BY <1>4, <2>6, Zenon
  <2>8. CASE VisibleTo(seat, id, side, said[n])
    <3>1. MayKnow(said[n], seat, id)
      BY <2>8, VisibleMayBeKnown
    <3>2. told[k + 1] = Append(told[k], n)
      BY <2>4, <2>8
    <3> QED
      BY <1>4, <2>1, <2>5, <2>7, <3>1, <3>2, OneMoreTold
  <2>9. CASE ~ VisibleTo(seat, id, side, said[n])
    <3>1. ~ Concerns(said[n], id)
      BY <2>1, <2>9
    <3>2. told[k + 1] = told[k]
      BY <2>4, <2>9
    <3> QED
      BY <1>4, <2>1, <2>5, <2>7, <3>1, <3>2, OneMoreUntold
  <2> QED
    BY <2>8, <2>9
<1> HIDE DEF Good
<1>5. 0 \in S /\ \A k \in Nat : k \in S => k + 1 \in S
  BY <1>1, <1>3, <1>4
<1> HIDE DEF S
<1>6. \A k \in Nat : k \in S
  BY <1>5, ReachesAll
<1>7. Good(told[Kept], Kept)
  BY <1>1, <1>6 DEF S
<1>8. first + Kept - 1 = Len(said)
  BY <1>1
<1> QED
  BY <1>2, <1>7, <1>8 DEF Good

-----------------------------------------------------------------------------
(* The steps. *)

\* Who stays connected keeps its seat, id and the beginning of its memory.
SeatsStay ==
  \A s \in Chatters : place'[s] # "out" =>
    /\ place'[s] = place[s] /\ chatId'[s] = chatId[s] /\ oldest'[s] = oldest[s]
    /\ s \in dropped => s \in dropped'

\* Nothing is said, and whoever stays was sent nothing.
Quiet ==
  /\ said' = said /\ ring' = ring /\ freeId' = freeId /\ SeatsStay
  /\ \A s \in Chatters : place'[s] # "out" => heard'[s] = heard[s]

LEMMA QuietKeeps ==
  ASSUME ChatInv, Quiet PROVE IdsAreOwn' /\ RingHolds' /\ Told'
<1>1. \A s \in SeatedChatters' : s \in SeatedChatters /\ s \in Chatters /\ place'[s] # "out"
  BY DEF Quiet, SeatsStay, SeatedChatters
<1>2. \A s \in SeatedChatters' : /\ place'[s] = place[s] /\ chatId'[s] = chatId[s]
                                 /\ oldest'[s] = oldest[s] /\ heard'[s] = heard[s]
                                 /\ s \notin dropped' => s \notin dropped
  BY <1>1 DEF Quiet, SeatsStay
<1>3. said' = said /\ ring' = ring /\ freeId' = freeId
  BY DEF Quiet
<1>4. IdsAreOwn'
  BY <1>1, <1>2, <1>3 DEF ChatInv, IdsAreOwn
<1>5. RingHolds'
  BY <1>3 DEF ChatInv, RingHolds, OldestKept, Kept
<1>6. Told'
  <2> SUFFICES ASSUME NEW s \in SeatedChatters'
               PROVE  /\ oldest'[s] <= Len(said') + 1
                      /\ Known(heard'[s], said', oldest'[s], Len(said'), place'[s], chatId'[s])
                      /\ s \notin dropped' => AllOf(heard'[s], said', oldest'[s], Len(said'), chatId'[s])
    BY DEF Told
  <2>1. /\ oldest[s] <= Len(said) + 1
        /\ Known(heard[s], said, oldest[s], Len(said), place[s], chatId[s])
        /\ s \notin dropped => AllOf(heard[s], said, oldest[s], Len(said), chatId[s])
    BY <1>1 DEF ChatInv, Told
  <2> QED
    BY <1>2, <1>3, <2>1
<1> QED
  BY <1>4, <1>5, <1>6

\* The messages are kept where the replay looks for them.
LEMMA RingTurns ==
  ASSUME ChatInv, NEW m \in Message, Len(said) < MaxMessages, said' = Append(said, m),
         ring' = [ring EXCEPT ![RingSlot(Len(said) + 1)] = Len(said) + 1]
  PROVE  RingHolds'
<1> DEFINE n == Len(said) + 1
<1>1. /\ Len(said) \in Nat /\ n \in Nat \ {0} /\ Len(said') = n
  BY DEF ChatInv, ChatTypes
<1>2. /\ HistorySize \in Nat \ {0}
      /\ OldestKept + HistorySize > Len(said)
      /\ OldestKept \in Nat \ {0}
  BY ChatAssumption, KeptAreLast DEF ChatInv, ChatTypes
<1>3. OldestKept' \in Nat \ {0} /\ OldestKept' >= OldestKept /\ OldestKept' + HistorySize > n
  <2>1. /\ Kept = IF Len(said) > HistorySize THEN HistorySize ELSE Len(said)
        /\ OldestKept = Len(said) + 1 - Kept
        /\ Kept' = IF n > HistorySize THEN HistorySize ELSE n
        /\ OldestKept' = n + 1 - Kept'
    BY <1>1 DEF OldestKept, Kept
  <2>2. CASE n > HistorySize
    <3>1. OldestKept' = n + 1 - HistorySize
      BY <1>1, <1>2, <2>1, <2>2
    <3>2. CASE Len(said) > HistorySize
      <4>1. OldestKept = Len(said) + 1 - HistorySize
        BY <2>1, <3>2
      <4> QED
        BY <1>1, <1>2, <3>1, <3>2, <4>1
    <3>3. CASE ~ (Len(said) > HistorySize)
      <4>1. OldestKept = 1 /\ Len(said) = HistorySize
        BY <1>1, <1>2, <2>1, <2>2, <3>3
      <4> QED
        BY <1>1, <1>2, <3>1, <4>1
    <3> QED
      BY <3>2, <3>3
  <2>3. CASE ~ (n > HistorySize)
    <3>1. OldestKept' = 1 /\ OldestKept = 1
      BY <1>1, <1>2, <2>1, <2>3
    <3> QED
      BY <1>1, <1>2, <2>3, <3>1
  <2> QED
    BY <2>2, <2>3
<1>4. ring \in [0 .. HistorySize - 1 -> 0 .. MaxMessages] /\ RingSlot(n) \in 0 .. HistorySize - 1
  BY <1>1, SlotOfNumber DEF ChatInv, ChatTypes, ChatTypeOK
<1>5. ring'[RingSlot(n)] = n
  BY <1>4
<1>6. ASSUME NEW k \in OldestKept' .. Len(said), k \in Nat \ {0}
      PROVE  ring'[RingSlot(k)] = k
  <2>1. k \in OldestKept .. Len(said) /\ k < n /\ n < k + HistorySize
    BY <1>1, <1>2, <1>3
  <2>2. ring[RingSlot(k)] = k
    BY <2>1 DEF ChatInv, RingHolds
  <2>3. RingSlot(k) # RingSlot(n) /\ RingSlot(k) \in 0 .. HistorySize - 1
    BY <1>1, <1>6, <2>1, SlotOfNumber
  <2> QED
    BY <1>4, <2>2, <2>3
<1>7. ASSUME NEW k \in OldestKept' .. Len(said') PROVE ring'[RingSlot(k)] = k
  <2>1. CASE k = n
    BY <1>5, <2>1
  <2>2. CASE k # n
    <3>1. k \in OldestKept' .. Len(said) /\ k \in Nat \ {0}
      BY <1>1, <1>3, <2>2
    <3> QED
      BY <1>6, <3>1
  <2> QED
    BY <2>1, <2>2
<1>8. RingHolds' <=> \A k \in OldestKept' .. Len(said') : ring'[RingSlot(k)] = k
  BY Zenon DEF RingHolds, RingSlot
<1> QED
  BY <1>7, <1>8

LEMMA NumbersAreNaturals ==
  ASSUME NEW N \in Nat, NEW told \in Seq(1 .. N) PROVE told \in Seq(Nat)
<1>1. 1 .. N \subseteq Nat
  OBVIOUS
<1> QED
  BY <1>1, SeqMonotonic

\* A message is sent to whom it is for.
LEMMA SentIsTold ==
  ASSUME ChatInv, NEW m \in Message, Len(said) < MaxMessages, Distributes(m), SeatsStay,
         \A s \in SeatedChatters : Concerns(m, chatId[s]) =>
           VisibleTo(place[s], chatId[s], team[s], m)
  PROVE  Told'
<1> DEFINE n == Len(said) + 1
<1>1. /\ Len(said) \in Nat /\ n \in Nat /\ n - 1 = Len(said) /\ n >= 1
      /\ said \in Seq(Message) /\ said' = Append(said, m)
  BY DEF ChatInv, ChatTypes, Distributes
<1>2. Len(said') = n /\ said'[n] = m /\ \A k \in 1 .. Len(said) : said'[k] = said[k]
  BY <1>1
<1> SUFFICES ASSUME NEW s \in SeatedChatters'
             PROVE  /\ oldest'[s] <= Len(said') + 1
                    /\ Known(heard'[s], said', oldest'[s], Len(said'), place'[s], chatId'[s])
                    /\ s \notin dropped' => AllOf(heard'[s], said', oldest'[s], Len(said'), chatId'[s])
  BY DEF Told
<1>3. /\ s \in Chatters /\ s \in SeatedChatters /\ place'[s] = place[s] /\ chatId'[s] = chatId[s]
      /\ oldest'[s] = oldest[s] /\ (s \notin dropped' => s \notin dropped)
  BY DEF SeatsStay, SeatedChatters
<1>4. /\ oldest[s] \in Nat /\ oldest[s] >= 1 /\ heard[s] \in Seq(Nat)
  <2>1. oldest[s] \in 1 .. MaxMessages + 1 /\ heard[s] \in Seq(1 .. MaxMessages)
    BY <1>3 DEF ChatInv, ChatTypes, ChatTypeOK
  <2>2. heard[s] \in Seq(Nat)
    BY <2>1, NumbersAreNaturals, ChatAssumption
  <2> QED
    BY <2>1, <2>2, ChatAssumption
<1>5. /\ oldest[s] <= n
      /\ Known(heard[s], said, oldest[s], n - 1, place[s], chatId[s])
      /\ s \notin dropped => AllOf(heard[s], said, oldest[s], n - 1, chatId[s])
  BY <1>1, <1>3 DEF ChatInv, Told
<1>6. \A k \in oldest[s] .. n - 1 : said[k] = said'[k]
  BY <1>1, <1>2, <1>4
<1>7. n - 1 \in Nat
  BY <1>1
<1> HIDE DEF n
<1>8. /\ Known(heard[s], said', oldest[s], n - 1, place[s], chatId[s])
      /\ s \notin dropped => AllOf(heard[s], said', oldest[s], n - 1, chatId[s])
  BY <1>4, <1>5, <1>6, <1>7, LaterIsNoMatter
<1>9. heard'[s] = IF s \in Reached(m) THEN Append(heard[s], n) ELSE heard[s]
  BY <1>3 DEF Distributes, Hears, n
<1>10. /\ Known(heard'[s], said', oldest[s], n, place[s], chatId[s])
       /\ s \notin dropped => AllOf(heard'[s], said', oldest[s], n, chatId[s])
  <2>1. CASE s \in Reached(m)
    <3>1. MayKnow(said'[n], place[s], chatId[s])
      BY <1>2, <2>1, VisibleMayBeKnown DEF Reached, Audience
    <3>2. heard'[s] = Append(heard[s], n)
      BY <1>9, <2>1
    <3> QED
      BY <1>1, <1>4, <1>5, <1>8, <3>1, <3>2, OneMoreTold
  <2>2. CASE s \notin Reached(m)
    <3>1. heard'[s] = heard[s]
      BY <1>9, <2>2
    <3>2. s \notin dropped => ~ Concerns(said'[n], chatId[s])
      BY <1>2, <1>3, <2>2 DEF Reached, Audience
    <3> QED
      BY <1>1, <1>4, <1>5, <1>8, <3>1, <3>2, OneMoreUntold
  <2> QED
    BY <2>1, <2>2
<1>11. oldest[s] <= n + 1
  BY <1>1, <1>4, <1>5
<1> QED
  BY <1>2, <1>3, <1>10, <1>11

LEMMA SentKeepsIds ==
  ASSUME ChatInv, NEW m \in Message, Distributes(m), SeatsStay, freeId' = freeId,
         m.channel = "whisper" =>
           /\ m.from < freeId /\ m.to < freeId
           /\ \A s \in SeatedChatters : place[s] = "spectator" => chatId[s] \notin {m.from, m.to}
  PROVE  IdsAreOwn'
<1>1. /\ said \in Seq(Message) /\ Len(said) \in Nat /\ said' = Append(said, m)
      /\ Len(said') = Len(said) + 1 /\ said'[Len(said) + 1] = m
      /\ \A k \in 1 .. Len(said) : said'[k] = said[k]
  BY DEF ChatInv, ChatTypes, Distributes
<1>2. \A s \in SeatedChatters' :
        /\ s \in Chatters /\ s \in SeatedChatters /\ place'[s] = place[s] /\ chatId'[s] = chatId[s]
  BY DEF SeatsStay, SeatedChatters
<1>3. ASSUME NEW n \in 1 .. Len(said'), said'[n].channel = "whisper"
      PROVE  /\ said'[n].from < freeId' /\ said'[n].to < freeId'
             /\ \A s \in SeatedChatters' : place'[s] = "spectator" =>
                  chatId'[s] \notin {said'[n].from, said'[n].to}
  <2>1. CASE n = Len(said) + 1
    BY <1>1, <1>2, <1>3, <2>1
  <2>2. CASE n # Len(said) + 1
    <3>1. n \in 1 .. Len(said) /\ said'[n] = said[n]
      BY <1>1, <2>2
    <3> QED
      BY <1>2, <1>3, <3>1 DEF ChatInv, IdsAreOwn
  <2> QED
    BY <2>1, <2>2
<1>4. /\ \A s \in SeatedChatters' : chatId'[s] \in 1 .. freeId' - 1
      /\ \A s, t \in SeatedChatters' : chatId'[s] = chatId'[t] => s = t
  BY <1>2 DEF ChatInv, IdsAreOwn
<1> QED
  BY <1>3, <1>4 DEF IdsAreOwn

\* The history, the page's memory and the ids after a joining.
LEMMA JoinKeeps ==
  ASSUME ChatInv, NEW s \in Chatters, NEW seat \in {"player", "spectator"}, NEW side, Joins(s, seat, side)
  PROVE  IdsAreOwn' /\ RingHolds' /\ Told' /\ Replay(seat, freeId, side) \in Seq(Nat)
<1>1. /\ place \in [Chatters -> {"out", "player", "spectator"}] /\ freeId \in 1 .. MaxChatId + 1
      /\ chatId \in [Chatters -> ChatIds \cup {NobodyId}] /\ oldest \in [Chatters -> 1 .. MaxMessages + 1]
      /\ heard \in [Chatters -> Seq(1 .. MaxMessages)] /\ said \in Seq(Message)
  BY DEF ChatInv, ChatTypes, ChatTypeOK
<1>2. /\ place'[s] = seat /\ chatId'[s] = freeId /\ oldest'[s] = OldestKept
      /\ heard'[s] = Replay(seat, freeId, side)
      /\ freeId' = freeId + 1 /\ said' = said /\ ring' = ring /\ dropped' = dropped
  BY <1>1 DEF Joins
<1>3. \A t \in Chatters \ {s} : /\ place'[t] = place[t] /\ chatId'[t] = chatId[t]
                                /\ oldest'[t] = oldest[t] /\ heard'[t] = heard[t]
  BY <1>1 DEF Joins
<1>4. \A t \in SeatedChatters' : t \in Chatters /\ (t # s => t \in SeatedChatters)
  BY <1>3 DEF SeatedChatters
<1>5. \A t \in SeatedChatters : chatId[t] \in 1 .. freeId - 1
  BY DEF ChatInv, IdsAreOwn
<1>6. ASSUME NEW n \in 1 .. Len(said), said[n].channel = "whisper"
      PROVE  said[n].from < freeId /\ said[n].to < freeId /\ freeId \notin {said[n].from, said[n].to}
  <2>1. said[n].from < freeId /\ said[n].to < freeId
    BY <1>6 DEF ChatInv, IdsAreOwn
  <2>2. said[n] \in Message /\ said[n].from \in Int
    <3>1. said[n] \in Message
      BY <1>1, ElementOfSeq
    <3> QED
      BY <3>1, ChatAssumption DEF Message, Console
  <2>3. said[n].to \in Int
    BY <2>2, ChatAssumption DEF Message, ChatIds, ChatTeams, NobodyId
  <2> QED
    BY <1>1, <2>1, <2>2, <2>3
<1>7. IdsAreOwn'
  <2>1. ASSUME NEW t \in SeatedChatters' PROVE chatId'[t] \in 1 .. freeId' - 1
    <3>1. CASE t = s
      BY <1>1, <1>2, <3>1
    <3>2. CASE t # s
      <4>1. chatId'[t] = chatId[t] /\ chatId[t] \in 1 .. freeId - 1
        BY <1>3, <1>4, <1>5, <3>2
      <4> QED
        BY <1>1, <1>2, <4>1
    <3> QED
      BY <3>1, <3>2
  <2>2. ASSUME NEW t \in SeatedChatters', NEW u \in SeatedChatters', chatId'[t] = chatId'[u]
        PROVE  t = u
    <3>1. \A v \in SeatedChatters' : v # s => chatId'[v] = chatId[v] /\ chatId'[v] # freeId
      BY <1>1, <1>3, <1>4, <1>5
    <3>2. CASE t = s \/ u = s
      BY <1>1, <1>2, <2>2, <3>1, <3>2
    <3>3. CASE t # s /\ u # s
      BY <1>4, <2>2, <3>1, <3>3 DEF ChatInv, IdsAreOwn
    <3> QED
      BY <3>2, <3>3
  <2>3. ASSUME NEW n \in 1 .. Len(said), said[n].channel = "whisper"
        PROVE  /\ said[n].from < freeId' /\ said[n].to < freeId'
               /\ \A t \in SeatedChatters' : place'[t] = "spectator" =>
                    chatId'[t] \notin {said[n].from, said[n].to}
    <3>1. said[n] \in Message
      BY <1>1, ElementOfSeq
    <3>2. said[n].from \in Int /\ said[n].to \in Int
      BY <3>1, ChatAssumption DEF Message, Console, ChatIds, ChatTeams, NobodyId
    <3>3. said[n].from < freeId' /\ said[n].to < freeId'
      BY <1>1, <1>2, <1>6, <2>3, <3>2
    <3>4. ASSUME NEW t \in SeatedChatters', place'[t] = "spectator"
          PROVE  chatId'[t] \notin {said[n].from, said[n].to}
      <4>1. CASE t = s
        BY <1>2, <1>6, <2>3, <4>1
      <4>2. CASE t # s
        BY <1>3, <1>4, <2>3, <3>4, <4>2 DEF ChatInv, IdsAreOwn
      <4> QED
        BY <4>1, <4>2
    <3> QED
      BY <3>3, <3>4
  <2> QED
    BY <1>2, <2>1, <2>2, <2>3 DEF IdsAreOwn
<1>8. RingHolds'
  BY <1>2 DEF ChatInv, RingHolds, OldestKept, Kept
<1>9. \A n \in 1 .. Len(said) : Concerns(said[n], freeId) => VisibleTo(seat, freeId, side, said[n])
  BY <1>6 DEF Concerns, VisibleTo
<1>10. /\ Replay(seat, freeId, side) \in Seq(Nat)
       /\ Known(Replay(seat, freeId, side), said, OldestKept, Len(said), seat, freeId)
       /\ AllOf(Replay(seat, freeId, side), said, OldestKept, Len(said), freeId)
  <2>1. RingHolds
    BY DEF ChatInv
  <2> QED
    BY <1>1, <1>9, <2>1, ReplayTells
<1>11. OldestKept <= Len(said) + 1
  BY <1>1, KeptAreLast
<1>12. ASSUME NEW t \in SeatedChatters'
       PROVE  /\ oldest'[t] <= Len(said) + 1
              /\ Known(heard'[t], said, oldest'[t], Len(said), place'[t], chatId'[t])
              /\ t \notin dropped => AllOf(heard'[t], said, oldest'[t], Len(said), chatId'[t])
  <2>1. CASE t = s
    BY <1>2, <1>10, <1>11, <2>1
  <2>2. CASE t # s
    <3>1. t \in SeatedChatters /\ t \in Chatters \ {s}
      BY <1>4, <2>2
    <3>2. /\ oldest[t] <= Len(said) + 1
          /\ Known(heard[t], said, oldest[t], Len(said), place[t], chatId[t])
          /\ t \notin dropped => AllOf(heard[t], said, oldest[t], Len(said), chatId[t])
      BY <3>1 DEF ChatInv, Told
    <3> QED
      BY <1>3, <3>1, <3>2
  <2> QED
    BY <2>1, <2>2
<1> QED
  BY <1>2, <1>7, <1>8, <1>10, <1>12 DEF Told

\* The replay is made of numbers a message has.
LEMMA ReplayIsNumbers ==
  ASSUME ChatInv, NEW told \in Seq(Nat), NEW seat, NEW id,
         Known(told, said, OldestKept, Len(said), seat, id)
  PROVE  told \in Seq(1 .. MaxMessages)
<1>1. /\ OldestKept \in Nat \ {0} /\ Len(said) \in Nat /\ Len(said) <= MaxMessages
      /\ MaxMessages \in Nat
  BY KeptAreLast, ChatAssumption DEF ChatInv, ChatTypes, ChatTypeOK
<1>2. \A k \in 1 .. Len(told) : told[k] \in 1 .. MaxMessages
  BY <1>1 DEF Known
<1>3. Len(told) \in Nat /\ told \in [1 .. Len(told) -> Nat]
  BY LenProperties
<1>4. told \in [1 .. Len(told) -> 1 .. MaxMessages]
  BY <1>2, <1>3
<1>5. \E n \in Nat : told \in [1 .. n -> 1 .. MaxMessages]
  BY <1>3, <1>4
<1>6. PICK n \in Nat : told \in [1 .. n -> 1 .. MaxMessages]
  BY <1>5
<1> QED
  BY <1>6, SeqOfElements

\* What an accepted message says of its sender.
LEMMA SentIsAMessage ==
  ASSUME ChatInv, NEW s \in Chatters, NEW m \in Request, Allowed(s, m), place[s] # "out"
  PROVE  /\ From(m, chatId[s]) \in Message
         /\ m.channel = "whisper" =>
              /\ From(m, chatId[s]).from < freeId /\ From(m, chatId[s]).to < freeId
              /\ \A t \in SeatedChatters :
                   chatId[t] \in {From(m, chatId[s]).from, From(m, chatId[s]).to} => place[t] = "player"
<1> DEFINE sent == From(m, chatId[s])
<1>1. sent.channel = m.channel /\ sent.to = m.to /\ sent.from = chatId[s]
  BY DEF From
<1>2. s \in SeatedChatters /\ freeId \in 1 .. MaxChatId + 1
  BY DEF SeatedChatters, ChatInv, ChatTypes, ChatTypeOK
<1>3. \A t \in SeatedChatters : chatId[t] \in 1 .. freeId - 1
  BY DEF ChatInv, IdsAreOwn
<1>4. /\ m.channel \in {"global", "team", "whisper"}
      /\ m.to \in ChatIds \cup ChatTeams \cup {NobodyId}
  BY DEF Request, Public, ToTeam, Whisper
<1>5. sent \in Message
  <2>1. chatId[s] \in 1 .. Console
    BY <1>2, <1>3, ChatAssumption DEF Console
  <2> QED
    BY <1>4, <2>1 DEF From, Message
<1>6. ASSUME m.channel = "whisper"
      PROVE  /\ place[s] = "player"
             /\ \E u \in SeatedChatters : place[u] = "player" /\ m.to = chatId[u]
  <2>1. place[s] = "player" /\ m.to \in PlayingIds
    BY <1>6 DEF Allowed
  <2>2. PICK u \in Chatters : place[u] = "player" /\ m.to = chatId[u]
    BY <2>1 DEF PlayingIds
  <2> QED
    BY <2>1, <2>2 DEF SeatedChatters
<1>7. ASSUME m.channel = "whisper"
      PROVE  /\ sent.from < freeId /\ sent.to < freeId
             /\ \A t \in SeatedChatters : chatId[t] \in {sent.from, sent.to} => place[t] = "player"
  <2>1. PICK u \in SeatedChatters : place[u] = "player" /\ m.to = chatId[u]
    BY <1>6, <1>7
  <2>2. sent.from < freeId /\ sent.to < freeId
    BY <1>1, <1>2, <1>3, <2>1
  <2>3. place[s] = "player"
    BY <1>6, <1>7
  <2>4. \A t \in SeatedChatters : (chatId[t] = chatId[s] => t = s) /\ (chatId[t] = chatId[u] => t = u)
    BY <1>2 DEF ChatInv, IdsAreOwn
  <2> HIDE DEF sent
  <2> QED
    BY <1>1, <2>1, <2>2, <2>3, <2>4
<1> QED
  BY <1>5, <1>7

\* A message everybody whom it concerns can see is distributed.
LEMMA DistributionKeeps ==
  ASSUME ChatInv, NEW m \in Message, Len(said) < MaxMessages, Distributes(m), SeatsStay,
         freeId' = freeId,
         m.channel = "whisper" =>
           /\ m.from < freeId /\ m.to < freeId
           /\ \A t \in SeatedChatters : chatId[t] \in {m.from, m.to} => place[t] = "player"
  PROVE  /\ IdsAreOwn' /\ RingHolds' /\ Told' /\ said' \in Seq(Message) /\ Len(said') <= MaxMessages
         /\ ring' \in [0 .. HistorySize - 1 -> 0 .. MaxMessages]
         /\ heard' \in [Chatters -> Seq(1 .. MaxMessages)]
<1>1. \A t \in SeatedChatters : Concerns(m, chatId[t]) => VisibleTo(place[t], chatId[t], team[t], m)
  BY DEF Concerns, VisibleTo
<1>2. Told'
  BY <1>1, SentIsTold
<1>3. m.channel = "whisper" =>
        /\ m.from < freeId /\ m.to < freeId
        /\ \A t \in SeatedChatters : place[t] = "spectator" => chatId[t] \notin {m.from, m.to}
  OBVIOUS
<1>4. IdsAreOwn'
  BY <1>3, SentKeepsIds
<1>5. /\ said' = Append(said, m)
      /\ ring' = [ring EXCEPT ![RingSlot(Len(said) + 1)] = Len(said) + 1]
      /\ heard' = [t \in Chatters |-> IF t \in Reached(m) THEN Append(heard[t], Len(said) + 1) ELSE heard[t]]
  BY Zenon DEF Distributes, Hears
<1>6. RingHolds'
  BY <1>5, RingTurns
<1>7. /\ said \in Seq(Message) /\ Len(said) \in Nat /\ MaxMessages \in Nat
      /\ ring \in [0 .. HistorySize - 1 -> 0 .. MaxMessages]
      /\ heard \in [Chatters -> Seq(1 .. MaxMessages)]
  BY ChatAssumption DEF ChatInv, ChatTypes, ChatTypeOK
<1>8. said' \in Seq(Message) /\ Len(said') = Len(said) + 1
  BY <1>5, <1>7, AppendProperties
<1>9. Len(said) + 1 \in 1 .. MaxMessages
  BY <1>7
<1>10. ring' \in [0 .. HistorySize - 1 -> 0 .. MaxMessages]
  <2>1. Len(said) + 1 \in 0 .. MaxMessages
    BY <1>9
  <2> QED
    BY <1>5, <1>7, <2>1
<1>11. ASSUME NEW t \in Chatters PROVE Append(heard[t], Len(said) + 1) \in Seq(1 .. MaxMessages)
  <2>1. heard[t] \in Seq(1 .. MaxMessages)
    BY <1>7
  <2> QED
    BY <1>9, <2>1, AppendProperties
<1>12. heard' \in [Chatters -> Seq(1 .. MaxMessages)]
  BY <1>5, <1>7, <1>11
<1> QED
  BY <1>2, <1>4, <1>6, <1>7, <1>8, <1>9, <1>10, <1>12

LEMMA ChatStarts == ChatInit => ChatInv
<1> SUFFICES ASSUME ChatInit PROVE ChatInv
  OBVIOUS
<1>1. /\ {MaxChatId, MaxMessages, HistorySize, ChatSpacing, MaxChatTick} \subseteq Nat \ {0}
  BY ChatAssumption
<1>2. said = <<>> /\ Len(said) = 0 /\ said \in Seq(Message)
  BY EmptySeq DEF ChatInit
<1>3. ChatTypeOK
  <2>1. heard \in [Chatters -> Seq(1 .. MaxMessages)]
    <3>1. <<>> \in Seq(1 .. MaxMessages)
      BY EmptySeq
    <3> QED
      BY <3>1 DEF ChatInit
  <2>2. /\ chatTick \in 0 .. MaxChatTick
        /\ place \in [Chatters -> {"out", "player", "spectator"}]
        /\ chatId \in [Chatters -> ChatIds \cup {NobodyId}]
        /\ team \in [Chatters -> ChatTeams \cup {0}]
        /\ dropped \in SUBSET Chatters
        /\ freeId \in 1 .. MaxChatId + 1
        /\ spoke \in [Chatters -> 0 .. MaxChatTick \cup {LongAgo}]
        /\ ring \in [0 .. HistorySize - 1 -> 0 .. MaxMessages]
        /\ request \in [Chatters -> Request \cup {NoMessage}]
        /\ since \in [Chatters -> 0 .. ChatSpacing]
        /\ oldest \in [Chatters -> 1 .. MaxMessages + 1]
    BY <1>1 DEF ChatInit
  <2> QED
    BY <1>1, <1>2, <2>1, <2>2, SMTT(60) DEF ChatTypeOK
<1>4. \A s \in Chatters : request[s] = NoMessage
  BY DEF ChatInit
<1>5. SeatedChatters = {}
  BY DEF ChatInit, SeatedChatters
<1>6. IdsAreOwn /\ Told
  BY <1>2, <1>5 DEF IdsAreOwn, Told
<1>7. RingHolds
  <2>1. OldestKept = 1
    BY <1>1, <1>2 DEF OldestKept, Kept
  <2> QED
    BY <1>2, <2>1 DEF RingHolds
<1> QED
  BY <1>2, <1>3, <1>4, <1>6, <1>7 DEF ChatInv, ChatTypes

\* A release leaves the types as they are.
LEMMA ReleasingTypes ==
  ASSUME ChatInv, NEW gone, ReleasedSeats(gone)
  PROVE  /\ place' \in [Chatters -> {"out", "player", "spectator"}]
         /\ chatId' \in [Chatters -> ChatIds \cup {NobodyId}]
         /\ team' \in [Chatters -> ChatTeams \cup {0}]
         /\ dropped' \in SUBSET Chatters
         /\ freeId' = freeId
         /\ request' \in [Chatters -> Request \cup {NoMessage}]
         /\ oldest' \in [Chatters -> 1 .. MaxMessages + 1]
         /\ \A s \in Chatters : request'[s] # NoMessage => place'[s] # "out"
         /\ SeatsStay
<1>1. /\ place \in [Chatters -> {"out", "player", "spectator"}]
      /\ chatId \in [Chatters -> ChatIds \cup {NobodyId}]
      /\ team \in [Chatters -> ChatTeams \cup {0}]
      /\ dropped \in SUBSET Chatters
      /\ request \in [Chatters -> Request \cup {NoMessage}]
      /\ oldest \in [Chatters -> 1 .. MaxMessages + 1]
      /\ \A s \in Chatters : request[s] # NoMessage => place[s] # "out"
  BY DEF ChatInv, ChatTypes, ChatTypeOK
<1>2. /\ place' = [s \in Chatters |-> IF s \in gone THEN "out" ELSE place[s]]
      /\ chatId' = [s \in Chatters |-> IF s \in gone THEN NobodyId ELSE chatId[s]]
      /\ team' = [s \in Chatters |-> IF s \in gone THEN 0 ELSE team[s]]
      /\ dropped' = dropped \ gone
      /\ request' = [s \in Chatters |-> IF s \in gone THEN NoMessage ELSE request[s]]
      /\ oldest' = [s \in Chatters |-> IF s \in gone THEN 1 ELSE oldest[s]]
      /\ freeId' = freeId
  BY DEF ReleasedSeats, Cleared
<1>3. /\ place' \in [Chatters -> {"out", "player", "spectator"}]
      /\ chatId' \in [Chatters -> ChatIds \cup {NobodyId}]
      /\ team' \in [Chatters -> ChatTeams \cup {0}]
      /\ dropped' \in SUBSET Chatters
  BY <1>1, <1>2
<1>4. request' \in [Chatters -> Request \cup {NoMessage}]
  BY <1>1, <1>2
<1>5. oldest' \in [Chatters -> 1 .. MaxMessages + 1]
  <2>1. 1 \in 1 .. MaxMessages + 1
    BY ChatAssumption
  <2> QED
    BY <1>1, <1>2, <2>1
<1>6. \A s \in Chatters : request'[s] # NoMessage => place'[s] # "out"
  BY <1>1, <1>2
<1>7. SeatsStay
  BY <1>2 DEF SeatsStay
<1> QED
  BY <1>2, <1>3, <1>4, <1>5, <1>6, <1>7

LEMMA LeavingKeeps == ASSUME ChatInv, NEW s \in Chatters, Leaves(s) PROVE ChatInv'
<1>1. /\ ReleasedSeats({s}) /\ spoke' = Cleared(spoke, {s}, LongAgo) /\ heard' = Cleared(heard, {s}, <<>>)
      /\ since' = [since EXCEPT ![s] = ChatSpacing]
      /\ chatTick' = chatTick /\ ring' = ring /\ said' = said
  BY DEF Leaves, Released
<1>2. /\ place' \in [Chatters -> {"out", "player", "spectator"}]
      /\ chatId' \in [Chatters -> ChatIds \cup {NobodyId}]
      /\ team' \in [Chatters -> ChatTeams \cup {0}]
      /\ dropped' \in SUBSET Chatters
      /\ freeId' = freeId
      /\ request' \in [Chatters -> Request \cup {NoMessage}]
      /\ oldest' \in [Chatters -> 1 .. MaxMessages + 1]
      /\ \A t \in Chatters : request'[t] # NoMessage => place'[t] # "out"
      /\ SeatsStay
  BY <1>1, ReleasingTypes
<1>3. Quiet
  <2>1. \A t \in Chatters : place'[t] # "out" => t # s
    BY <1>1 DEF ReleasedSeats, Cleared
  <2> QED
    BY <1>1, <1>2, <2>1 DEF Quiet, Cleared
<1>4. ChatTypes'
  <2>1. ChatTypeOK /\ said \in Seq(Message)
    BY DEF ChatInv, ChatTypes
  <2>2. spoke' \in [Chatters -> 0 .. MaxChatTick \cup {LongAgo}]
    BY <1>1, <2>1 DEF Cleared, ChatTypeOK
  <2>3. heard' \in [Chatters -> Seq(1 .. MaxMessages)]
    BY <1>1, <2>1, EmptySeq DEF Cleared, ChatTypeOK
  <2>4. since' \in [Chatters -> 0 .. ChatSpacing]
    <3>1. ChatSpacing \in 0 .. ChatSpacing
      BY ChatAssumption
    <3> QED
      BY <1>1, <2>1, <3>1 DEF ChatTypeOK
  <2> QED
    BY <1>1, <1>2, <2>1, <2>2, <2>3, <2>4, Zenon DEF ChatTypes, ChatTypeOK
<1> QED
  BY <1>3, <1>4, QuietKeeps DEF ChatInv

LEMMA TickingKeeps == ASSUME ChatInv, NEW changes \in BOOLEAN, ChatTicks(changes) PROVE ChatInv'
<1>1. /\ ReleasedSeats(dropped) /\ spoke' = Cleared(spoke, dropped, LongAgo)
      /\ heard' = Cleared(heard, dropped, <<>>)
      /\ since' = [s \in Chatters |-> IF since[s] < ChatSpacing THEN since[s] + 1 ELSE ChatSpacing]
      /\ ring' = ring /\ said' = said
  BY DEF ChatTicks, Released
<1>2. /\ place' \in [Chatters -> {"out", "player", "spectator"}]
      /\ chatId' \in [Chatters -> ChatIds \cup {NobodyId}]
      /\ team' \in [Chatters -> ChatTeams \cup {0}]
      /\ dropped' \in SUBSET Chatters
      /\ freeId' = freeId
      /\ request' \in [Chatters -> Request \cup {NoMessage}]
      /\ oldest' \in [Chatters -> 1 .. MaxMessages + 1]
      /\ \A t \in Chatters : request'[t] # NoMessage => place'[t] # "out"
      /\ SeatsStay
  BY <1>1, ReleasingTypes
<1>3. Quiet
  <2>1. \A t \in Chatters : place'[t] # "out" => t \notin dropped
    BY <1>1 DEF ReleasedSeats, Cleared
  <2> QED
    BY <1>1, <1>2, <2>1 DEF Quiet, Cleared
<1>4. ChatTypes'
  <2>1. ChatTypeOK /\ said \in Seq(Message)
    BY DEF ChatInv, ChatTypes
  <2>2. spoke' \in [Chatters -> 0 .. MaxChatTick \cup {LongAgo}]
    BY <1>1, <2>1 DEF Cleared, ChatTypeOK
  <2>3. heard' \in [Chatters -> Seq(1 .. MaxMessages)]
    BY <1>1, <2>1, EmptySeq DEF Cleared, ChatTypeOK
  <2>4. since' \in [Chatters -> 0 .. ChatSpacing]
    <3>1. ASSUME NEW s \in Chatters
          PROVE  (IF since[s] < ChatSpacing THEN since[s] + 1 ELSE ChatSpacing) \in 0 .. ChatSpacing
      <4>1. since[s] \in 0 .. ChatSpacing /\ ChatSpacing \in Nat
        BY <2>1, ChatAssumption DEF ChatTypeOK
      <4> QED
        BY <4>1
    <3> QED
      BY <1>1, <3>1
  <2>5. chatTick' \in 0 .. MaxChatTick
    BY <2>1, ChatAssumption DEF ChatTicks, ChatTypeOK
  <2> QED
    BY <1>1, <1>2, <2>1, <2>2, <2>3, <2>4, <2>5, Zenon DEF ChatTypes, ChatTypeOK
<1> QED
  BY <1>3, <1>4, QuietKeeps DEF ChatInv

LEMMA JoiningKeeps ==
  ASSUME ChatInv, NEW s \in Chatters, NEW seat \in {"player", "spectator"},
         NEW side \in ChatTeams \cup {0}, Joins(s, seat, side)
  PROVE  ChatInv'
<1>1. IdsAreOwn' /\ RingHolds' /\ Told' /\ Replay(seat, freeId, side) \in Seq(Nat)
  BY JoinKeeps
<1>2. ChatTypeOK /\ said \in Seq(Message) /\ \A t \in Chatters : request[t] # NoMessage => place[t] # "out"
  BY DEF ChatInv, ChatTypes
<1>3. /\ place' = [place EXCEPT ![s] = seat] /\ chatId' = [chatId EXCEPT ![s] = freeId]
      /\ team' = [team EXCEPT ![s] = side] /\ freeId' = freeId + 1 /\ freeId <= MaxChatId
      /\ spoke' = [spoke EXCEPT ![s] = LongAgo]
      /\ heard' = [heard EXCEPT ![s] = Replay(seat, freeId, side)]
      /\ oldest' = [oldest EXCEPT ![s] = OldestKept]
      /\ since' = [since EXCEPT ![s] = ChatSpacing]
      /\ UNCHANGED <<chatTick, dropped, ring, request, said>>
  BY DEF Joins, IdLeft
<1>4. /\ place' \in [Chatters -> {"out", "player", "spectator"}]
      /\ team' \in [Chatters -> ChatTeams \cup {0}]
      /\ spoke' \in [Chatters -> 0 .. MaxChatTick \cup {LongAgo}]
  BY <1>2, <1>3 DEF ChatTypeOK
<1>5. chatId' \in [Chatters -> ChatIds \cup {NobodyId}] /\ freeId' \in 1 .. MaxChatId + 1
  <2>1. freeId \in 1 .. MaxChatId + 1 /\ freeId \in ChatIds
    BY <1>2, <1>3, ChatAssumption DEF ChatTypeOK, ChatIds
  <2> QED
    BY <1>2, <1>3, <2>1, ChatAssumption DEF ChatTypeOK
<1>6. heard' \in [Chatters -> Seq(1 .. MaxMessages)]
  <2>1. s \in SeatedChatters'
    BY <1>2, <1>3 DEF SeatedChatters, ChatTypeOK
  <2>2. heard'[s] = Replay(seat, freeId, side) /\ place'[s] = seat /\ chatId'[s] = freeId
        /\ oldest'[s] = OldestKept /\ said' = said
    BY <1>2, <1>3 DEF ChatTypeOK
  <2>3. Known(Replay(seat, freeId, side), said, OldestKept, Len(said), seat, freeId)
    BY <1>1, <2>1, <2>2 DEF Told
  <2>4. Replay(seat, freeId, side) \in Seq(1 .. MaxMessages)
    BY <1>1, <2>3, ReplayIsNumbers
  <2> QED
    BY <1>2, <1>3, <2>4 DEF ChatTypeOK
<1>7. oldest' \in [Chatters -> 1 .. MaxMessages + 1]
  <2>1. OldestKept \in 1 .. MaxMessages + 1
    <3>1. OldestKept \in Nat \ {0} /\ OldestKept <= Len(said) + 1 /\ Len(said) \in Nat
      BY <1>2, KeptAreLast
    <3>2. Len(said) <= MaxMessages /\ MaxMessages \in Nat
      BY <1>2, ChatAssumption DEF ChatTypeOK
    <3> QED
      BY <3>1, <3>2
  <2> QED
    BY <1>2, <1>3, <2>1 DEF ChatTypeOK
<1>8. since' \in [Chatters -> 0 .. ChatSpacing]
  <2>1. ChatSpacing \in 0 .. ChatSpacing
    BY ChatAssumption
  <2> QED
    BY <1>2, <1>3, <2>1 DEF ChatTypeOK
<1>9. \A t \in Chatters : request'[t] # NoMessage => place'[t] # "out"
  BY <1>2, <1>3 DEF ChatTypeOK
<1>10. ChatTypes'
  BY <1>2, <1>3, <1>4, <1>5, <1>6, <1>7, <1>8, <1>9, Zenon DEF ChatTypes, ChatTypeOK
<1> QED
  BY <1>1, <1>10 DEF ChatInv

LEMMA SmallStepsKeep ==
  ASSUME ChatInv, NEW s \in Chatters,
         \/ SocketDrops(s)
         \/ \E side \in ChatTeams \cup {0} : SetTeam(s, side)
         \/ \E m \in Request : Submits(s, m)
  PROVE  ChatInv'
<1>1. ChatTypeOK /\ said \in Seq(Message) /\ \A t \in Chatters : request[t] # NoMessage => place[t] # "out"
  BY DEF ChatInv, ChatTypes
<1>2. CASE SocketDrops(s)
  <2>1. dropped' = dropped \cup {s}
        /\ UNCHANGED <<chatTick, roster, spoke, ring, request, said, heard, since, oldest>>
    BY <1>2 DEF SocketDrops
  <2>2. Quiet
    BY <2>1 DEF Quiet, SeatsStay, roster
  <2>3. dropped' \in SUBSET Chatters
    BY <1>1, <2>1 DEF ChatTypeOK
  <2>4. ChatTypes'
    BY <1>1, <2>1, <2>3, Zenon DEF ChatTypes, ChatTypeOK, roster
  <2> QED
    BY <2>2, <2>4, QuietKeeps DEF ChatInv
<1>3. CASE \E side \in ChatTeams \cup {0} : SetTeam(s, side)
  <2>1. PICK side \in ChatTeams \cup {0} : SetTeam(s, side)
    BY <1>3
  <2>2. /\ team' = [team EXCEPT ![s] = side]
        /\ UNCHANGED <<chatTick, place, chatId, freeId, dropped, spoke, ring, request, said,
                       heard, since, oldest>>
    BY <2>1 DEF SetTeam
  <2>3. Quiet
    BY <2>2 DEF Quiet, SeatsStay
  <2>4. team' \in [Chatters -> ChatTeams \cup {0}]
    BY <1>1, <2>2 DEF ChatTypeOK
  <2>5. ChatTypes'
    BY <1>1, <2>2, <2>4, Zenon DEF ChatTypes, ChatTypeOK
  <2> QED
    BY <2>3, <2>5, QuietKeeps DEF ChatInv
<1>4. CASE \E m \in Request : Submits(s, m)
  <2>1. PICK m \in Request : Submits(s, m)
    BY <1>4
  <2>2. /\ s \in SeatedChatters /\ request' = [request EXCEPT ![s] = m]
        /\ UNCHANGED <<chatTick, roster, dropped, spoke, ring, said, heard, since, oldest>>
    BY <2>1 DEF Submits
  <2>3. Quiet
    BY <2>2 DEF Quiet, SeatsStay, roster
  <2>4. request' \in [Chatters -> Request \cup {NoMessage}]
    BY <1>1, <2>2 DEF ChatTypeOK
  <2>5. \A t \in Chatters : request'[t] # NoMessage => place'[t] # "out"
    BY <1>1, <2>2 DEF SeatedChatters, roster, ChatTypeOK
  <2>6. ChatTypes'
    BY <1>1, <2>2, <2>4, <2>5, Zenon DEF ChatTypes, ChatTypeOK, roster
  <2> QED
    BY <2>3, <2>6, QuietKeeps DEF ChatInv
<1> QED
  BY <1>2, <1>3, <1>4

LEMMA SayingKeeps == ASSUME ChatInv, AdminSays PROVE ChatInv'
<1> DEFINE m == [channel |-> "global", to |-> NobodyId, from |-> Console]
<1>1. /\ Len(said) < MaxMessages /\ Distributes(m)
      /\ UNCHANGED <<chatTick, roster, dropped, spoke, request, since, oldest>>
  BY DEF AdminSays
<1>2. m \in Message /\ m.channel = "global"
  <2>1. Console \in 1 .. Console
    BY ChatAssumption DEF Console
  <2> QED
    BY <2>1 DEF Message
<1>3. SeatsStay /\ freeId' = freeId
  BY <1>1 DEF SeatsStay, roster
<1> HIDE DEF m
<1>4. /\ IdsAreOwn' /\ RingHolds' /\ Told' /\ said' \in Seq(Message) /\ Len(said') <= MaxMessages
      /\ ring' \in [0 .. HistorySize - 1 -> 0 .. MaxMessages]
      /\ heard' \in [Chatters -> Seq(1 .. MaxMessages)]
  BY <1>1, <1>2, <1>3, DistributionKeeps
<1>5. ChatTypeOK /\ \A t \in Chatters : request[t] # NoMessage => place[t] # "out"
  BY DEF ChatInv, ChatTypes
<1>6. ChatTypes'
  BY <1>1, <1>4, <1>5, Zenon DEF ChatTypes, ChatTypeOK, roster
<1> QED
  BY <1>4, <1>6 DEF ChatInv

LEMMA AcceptingKeeps == ASSUME ChatInv, NEW s \in Chatters, Accepted(s) PROVE ChatInv'
<1> DEFINE m == request[s]
           sent == From(m, chatId[s])
<1>1. /\ m # NoMessage /\ Allowed(s, m) /\ Len(said) < MaxMessages /\ Distributes(sent)
      /\ spoke' = [spoke EXCEPT ![s] = chatTick] /\ since' = [since EXCEPT ![s] = 0]
      /\ \/ /\ request' = [request EXCEPT ![s] = NoMessage] /\ UNCHANGED <<roster, dropped, oldest>>
         \/ ReleasedSeats({s})
      /\ chatTick' = chatTick
  BY DEF Accepted
<1>2. ChatTypeOK /\ said \in Seq(Message) /\ \A t \in Chatters : request[t] # NoMessage => place[t] # "out"
  BY DEF ChatInv, ChatTypes
<1>3. m \in Request /\ place[s] # "out"
  BY <1>1, <1>2 DEF ChatTypeOK
<1>4. /\ place' \in [Chatters -> {"out", "player", "spectator"}]
      /\ chatId' \in [Chatters -> ChatIds \cup {NobodyId}]
      /\ team' \in [Chatters -> ChatTeams \cup {0}]
      /\ dropped' \in SUBSET Chatters
      /\ freeId' = freeId
      /\ request' \in [Chatters -> Request \cup {NoMessage}]
      /\ oldest' \in [Chatters -> 1 .. MaxMessages + 1]
      /\ \A t \in Chatters : request'[t] # NoMessage => place'[t] # "out"
      /\ SeatsStay
  <2>1. CASE request' = [request EXCEPT ![s] = NoMessage] /\ UNCHANGED <<roster, dropped, oldest>>
    <3>1. place' = place /\ chatId' = chatId /\ team' = team /\ freeId' = freeId
          /\ dropped' = dropped /\ oldest' = oldest
      BY <2>1 DEF roster
    <3>2. SeatsStay
      BY <3>1 DEF SeatsStay
    <3>3. request' \in [Chatters -> Request \cup {NoMessage}]
      BY <1>2, <2>1 DEF ChatTypeOK
    <3>4. \A t \in Chatters : request'[t] # NoMessage => place'[t] # "out"
      BY <1>2, <2>1, <3>1 DEF ChatTypeOK
    <3> QED
      BY <1>2, <3>1, <3>2, <3>3, <3>4, Zenon DEF ChatTypeOK
  <2>2. CASE ReleasedSeats({s})
    BY <2>2, ReleasingTypes
  <2> QED
    BY <1>1, <2>1, <2>2
<1> HIDE DEF m
<1>5. /\ sent \in Message
      /\ sent.channel = m.channel
      /\ m.channel = "whisper" =>
           /\ sent.from < freeId /\ sent.to < freeId
           /\ \A t \in SeatedChatters : chatId[t] \in {sent.from, sent.to} => place[t] = "player"
  <2>1. sent.channel = m.channel
    BY DEF From
  <2> QED
    BY <1>1, <1>3, <2>1, SentIsAMessage
<1> HIDE DEF sent
<1>6. /\ IdsAreOwn' /\ RingHolds' /\ Told' /\ said' \in Seq(Message) /\ Len(said') <= MaxMessages
      /\ ring' \in [0 .. HistorySize - 1 -> 0 .. MaxMessages]
      /\ heard' \in [Chatters -> Seq(1 .. MaxMessages)]
  BY <1>1, <1>4, <1>5, DistributionKeeps
<1>7. spoke' \in [Chatters -> 0 .. MaxChatTick \cup {LongAgo}] /\ since' \in [Chatters -> 0 .. ChatSpacing]
  <2>1. 0 \in 0 .. ChatSpacing
    BY ChatAssumption
  <2> QED
    BY <1>1, <1>2, <2>1 DEF ChatTypeOK
<1>8. ChatTypes'
  BY <1>1, <1>2, <1>4, <1>6, <1>7, Zenon DEF ChatTypes, ChatTypeOK
<1> QED
  BY <1>6, <1>8 DEF ChatInv

LEMMA ChatStays == ChatInv /\ [ChatNext]_chatVars => ChatInv'
<1> SUFFICES ASSUME ChatInv, [ChatNext]_chatVars PROVE ChatInv'
  OBVIOUS
<1>1. ASSUME NEW s \in Chatters, NEW side \in ChatTeams \cup {0}, Joins(s, "player", side)
      PROVE  ChatInv'
  BY <1>1, JoiningKeeps
<1>2. ASSUME NEW s \in Chatters, Joins(s, "spectator", 0) PROVE ChatInv'
  BY <1>2, JoiningKeeps
<1>3. ASSUME NEW s \in Chatters, Leaves(s) \/ Refused(s) \/ Unnumbered(s) PROVE ChatInv'
  BY <1>3, LeavingKeeps DEF Refused, Unnumbered
<1>4. ASSUME NEW s \in Chatters,
             \/ SocketDrops(s)
             \/ \E side \in ChatTeams \cup {0} : SetTeam(s, side)
             \/ \E m \in Request : Submits(s, m)
      PROVE  ChatInv'
  BY <1>4, SmallStepsKeep
<1>5. ASSUME NEW s \in Chatters, Accepted(s) PROVE ChatInv'
  BY <1>5, AcceptingKeeps
<1>6. ASSUME NEW changes \in BOOLEAN, ChatTicks(changes) PROVE ChatInv'
  BY <1>6, TickingKeeps
<1>7. ASSUME AdminSays PROVE ChatInv'
  BY <1>7, SayingKeeps
<1>8. ASSUME UNCHANGED chatVars PROVE ChatInv'
  <2>1. /\ chatTick' = chatTick /\ place' = place /\ chatId' = chatId /\ team' = team
        /\ freeId' = freeId /\ dropped' = dropped /\ spoke' = spoke /\ ring' = ring
        /\ request' = request /\ said' = said /\ heard' = heard /\ since' = since /\ oldest' = oldest
    BY <1>8 DEF chatVars, roster
  <2>2. Quiet
    BY <2>1 DEF Quiet, SeatsStay
  <2>3. ChatTypes'
    <3>1. ChatTypes
      BY DEF ChatInv
    <3> QED
      BY <2>1, <3>1, Zenon DEF ChatTypes, ChatTypeOK
  <2> QED
    BY <2>2, <2>3, QuietKeeps DEF ChatInv
<1> QED
  BY <1>1, <1>2, <1>3, <1>4, <1>5, <1>6, <1>7, <1>8, Zenon DEF ChatNext

LEMMA ChatInvReaches == ChatInv => ChatReaches
<1> SUFFICES ASSUME ChatInv PROVE ChatReaches
  OBVIOUS
<1>1. ChatTypeOK
  BY DEF ChatInv, ChatTypes
<1>2. NothingMissed
  BY DEF ChatInv, Told, Known, AllOf, NothingMissed
<1>3. ChatIsPrivate
  <2> SUFFICES ASSUME NEW s \in SeatedChatters, NEW k \in 1 .. Len(heard[s])
               PROVE  LET m == said[heard[s][k]]
                      IN CASE m.channel = "global" -> TRUE
                           [] m.channel = "whisper" -> place[s] = "player" /\ chatId[s] \in {m.from, m.to}
                           [] m.channel = "team" -> place[s] = "player"
    BY DEF ChatIsPrivate
  <2> DEFINE m == said[heard[s][k]]
  <2>1. /\ heard[s][k] \in oldest[s] .. Len(said) /\ MayKnow(m, place[s], chatId[s])
    BY DEF ChatInv, Told, Known
  <2>2. oldest[s] \in Nat \ {0}
    <3>1. s \in Chatters /\ oldest \in [Chatters -> 1 .. MaxMessages + 1] /\ MaxMessages \in Nat
      BY <1>1, ChatAssumption DEF ChatTypeOK, SeatedChatters
    <3> QED
      BY <3>1
  <2>3. heard[s][k] \in 1 .. Len(said) /\ said \in Seq(Message)
    BY <2>1, <2>2 DEF ChatInv, ChatTypes
  <2>4. m \in Message
    BY <2>3, ElementOfSeq
  <2>5. m.channel \in {"global", "team", "whisper"}
    BY <2>4 DEF Message
  <2>6. CASE m.channel = "global"
    BY <2>6
  <2>7. CASE m.channel = "whisper"
    BY <2>1, <2>7 DEF MayKnow
  <2>8. CASE m.channel = "team"
    BY <2>1, <2>8 DEF MayKnow
  <2> QED
    BY <2>5, <2>6, <2>7, <2>8
<1> QED
  BY <1>1, <1>2, <1>3 DEF ChatReaches

\* A message reaches everybody it is for and nobody else: whoever is connected
\* was sent, once and in order, every global message and every whisper of its own
\* since the oldest that was kept at its joining, and no page what is private to others.
THEOREM MessagesReach == ChatSpec => []ChatReaches
<1>1. ChatInit => ChatInv
  BY ChatStarts
<1>2. ChatInv /\ [ChatNext]_chatVars => ChatInv'
  BY ChatStays
<1>3. ChatInv => ChatReaches
  BY ChatInvReaches
<1> QED
  BY <1>1, <1>2, <1>3, PTL DEF ChatSpec
=============================================================================
