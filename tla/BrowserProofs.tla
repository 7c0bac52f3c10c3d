----------------------------- MODULE BrowserProofs -----------------------------
(* What the pages of players and the server do together: the session of a  *)
(* page, proved for every number of sockets, attempts and snapshots, lets   *)
(* its user act on a live connection alone, tries again beside none, and    *)
(* shows the newest of what reached it; a battle of bots; the numbers of    *)
(* what a player does; where the fighters are drawn between snapshots; and  *)
(* how the page shows hits.                                                 *)
EXTENDS BrowserSession, BotBattle, BrowserPlay, RemoteActors, HitEffects, ListProofs,
        FiniteSetTheorems, SequenceTheorems, WellFoundedInduction, TLAPS

Flags ==
  /\ connected \in BOOLEAN /\ authoritativeReady \in BOOLEAN /\ joinSequence \in BOOLEAN
  /\ reconnectTimer \in BOOLEAN /\ intentionalDisconnect \in BOOLEAN /\ renderer \in BOOLEAN

Arrivals == Replies \cup Snapshots

WireTypes ==
  /\ net \in [Sockets -> {"free", "connecting", "open", "closed"}]
  /\ srv \in [Sockets -> {"none", "accepted", "admitted", "joined", "gone"}]
  /\ up \in [Sockets -> Seq({"hello", "join"})]
  /\ down \in [Sockets -> Seq(Arrivals)]
  /\ \A n \in Sockets : Len(down[n]) <= 2
  /\ out \in [Sockets -> 0 .. MaxSnapshots]

PageTypes ==
  /\ socket \in Sockets \cup {NoSocket}
  /\ requestedRole \in Roles /\ joinedRole \in Roles \cup {"none"}
  /\ lastSnapshotSequence \in 0 .. MaxSnapshots
  /\ scene \in {"preview", "live", "blank"}
  /\ reconnectAttempt \in 0 .. MaxAttempts

\* The parts of the types, as the runs check them together.
LEMMA TypesMean == Flags /\ WireTypes /\ PageTypes => TypeOK
BY Zenon DEF Flags, WireTypes, PageTypes, TypeOK, Arrivals

IsSnapshot(m) == m.kind = "snapshot"

\* Snapshots come last on their way to the page, without a gap up to the newest.
Aligned(n) ==
  \A k \in 1 .. Len(down[n]) : IsSnapshot(down[n][k]) =>
    /\ down[n][k].seq = out[n] - (Len(down[n]) - k)
    /\ \A j \in k .. Len(down[n]) : IsSnapshot(down[n][j])

\* Nothing is on the way of a connection that is not open, and no snapshot was
\* sent before the page has joined.
WireKnown ==
  \A n \in Sockets :
    /\ net[n] \in {"free", "connecting"} => srv[n] = "none"
    /\ up[n] # <<>> \/ down[n] # <<>> => net[n] = "open"
    /\ srv[n] \in {"none", "accepted", "admitted"} => out[n] = 0
    /\ Aligned(n)

\* The last snapshot of the current connection is the one before the next.
LastKnown ==
  socket # NoSocket =>
    /\ (\A k \in 1 .. Len(down[socket]) : ~IsSnapshot(down[socket][k]))
         => lastSnapshotSequence = out[socket]
    /\ \A k \in 1 .. Len(down[socket]) :
         /\ IsSnapshot(down[socket][k])
         /\ k = 1 \/ ~IsSnapshot(down[socket][k - 1])
         => lastSnapshotSequence = down[socket][k].seq - 1

WireInv == WireTypes /\ WireKnown

\* What the page holds of a connection belongs to the current one.
PageKnown ==
  /\ socket # NoSocket => net[socket] \in {"connecting", "open"}
  /\ joinSequence \/ joinedRole # "none" => socket = NoSocket \/ connected
  /\ joinedRole \in {"none", requestedRole}
  /\ authoritativeReady /\ joinedRole = "player" => scene = "live"

SessionInvariant ==
  /\ Flags /\ WireTypes /\ PageTypes
  /\ WireKnown /\ LastKnown /\ PageKnown /\ ReadyIsAdmitted /\ RetryIsAlone

\* Sockets count from one, so that no socket is none of them.
LEMMA SocketsAreNumbers == Sockets \subseteq Nat \ {0} /\ NoSocket \notin Sockets
BY SessionAssumption DEF Sockets, NoSocket

\* A page that has just been opened: no socket, no role, no snapshot.
LEMMA SessionStart == Init => SessionInvariant
<1> SUFFICES ASSUME Init PROVE SessionInvariant
  OBVIOUS
<1>1. Flags
  BY Zenon DEF Init, Flags
<1>2. WireTypes
  BY SessionAssumption DEF Init, WireTypes
<1>3. PageTypes
  BY SessionAssumption DEF Init, PageTypes, Roles
<1>4. WireKnown
  BY DEF Init, WireKnown, Aligned
<1>5. LastKnown /\ PageKnown /\ ReadyIsAdmitted /\ RetryIsAlone
  BY DEF Init, LastKnown, PageKnown, ReadyIsAdmitted, RetryIsAlone
<1> QED
  BY <1>1, <1>2, <1>3, <1>4, <1>5 DEF SessionInvariant

-----------------------------------------------------------------------------
(* Frames on their way to the page. *)

\* The server answers, before there are snapshots.
LEMMA ReplyKeeps ==
  ASSUME WireTypes, WireKnown, NEW n \in Sockets, NEW m \in Replies, out[n] = 0,
         Len(down[n]) < 2, out' = out, down' = [down EXCEPT ![n] = Append(@, m)]
  PROVE  /\ down' \in [Sockets -> Seq(Arrivals)] /\ \A s \in Sockets : Len(down'[s]) <= 2
         /\ \A s \in Sockets : Aligned(s)'
         /\ LastKnown /\ UNCHANGED <<socket, lastSnapshotSequence>> /\ PageTypes => LastKnown'
<1>1. down[n] \in Seq(Arrivals) /\ m \in Arrivals /\ ~IsSnapshot(m)
  BY DEF WireTypes, Arrivals, Replies, IsSnapshot
<1>2. /\ Append(down[n], m) \in Seq(Arrivals) /\ Len(Append(down[n], m)) = Len(down[n]) + 1
      /\ \A k \in 1 .. Len(down[n]) : Append(down[n], m)[k] = down[n][k]
      /\ Append(down[n], m)[Len(down[n]) + 1] = m
      /\ Len(down[n]) \in Nat
  BY <1>1
<1>3. \A k \in 1 .. Len(down[n]) : ~IsSnapshot(down[n][k])
  <2> SUFFICES ASSUME NEW k \in 1 .. Len(down[n]), IsSnapshot(down[n][k]) PROVE FALSE
    OBVIOUS
  <2>1. down[n][k].seq = 0 - (Len(down[n]) - k)
    BY DEF WireKnown, Aligned
  <2>2. down[n][k] \in Arrivals
    BY <1>1
  <2>3. down[n][k].seq \in 1 .. MaxSnapshots
    BY <2>2 DEF Arrivals, Replies, Snapshots, IsSnapshot
  <2> QED
    BY <1>2, <2>1, <2>3
<1>4. \A s \in Sockets : down'[s] = IF s = n THEN Append(down[n], m) ELSE down[s]
  BY DEF WireTypes
<1>5. \A k \in 1 .. Len(down'[n]) : ~IsSnapshot(down'[n][k])
  BY <1>1, <1>2, <1>3, <1>4
<1>6. \A s \in Sockets : Aligned(s)'
  <2> TAKE s \in Sockets
  <2>1. CASE s = n
    BY <1>5, <2>1 DEF Aligned
  <2>2. CASE s # n
    BY <1>4, <2>2 DEF WireKnown, Aligned
  <2> QED
    BY <2>1, <2>2
<1>7. down' \in [Sockets -> Seq(Arrivals)] /\ \A s \in Sockets : Len(down'[s]) <= 2
  BY <1>2, <1>4 DEF WireTypes
<1>8. ASSUME LastKnown, UNCHANGED <<socket, lastSnapshotSequence>>, PageTypes PROVE LastKnown'
  <2>1. CASE socket = n
    BY <1>3, <1>5, <1>8, <2>1 DEF LastKnown
  <2>2. CASE socket # n
    BY <1>4, <1>8, <2>2 DEF LastKnown, PageTypes
  <2> QED
    BY <2>1, <2>2
<1> QED
  BY <1>6, <1>7, <1>8

\* The server sends the next snapshot.
LEMMA SendKeeps ==
  ASSUME WireTypes, WireKnown, PageTypes, LastKnown, NEW n \in Sockets, ServerSends(n)
  PROVE  /\ down' \in [Sockets -> Seq(Arrivals)] /\ \A s \in Sockets : Len(down'[s]) <= 2
         /\ out' \in [Sockets -> 0 .. MaxSnapshots]
         /\ \A s \in Sockets : Aligned(s)'
         /\ LastKnown'
<1> DEFINE m == Msg("snapshot", out[n] + 1)
<1>0. /\ out' = [out EXCEPT ![n] = @ + 1] /\ down' = [down EXCEPT ![n] = Append(@, m)]
      /\ Len(down[n]) < 2 /\ out[n] < MaxSnapshots /\ UNCHANGED <<socket, lastSnapshotSequence>>
  BY DEF ServerSends, Push, page
<1>1. down[n] \in Seq(Arrivals) /\ out[n] \in 0 .. MaxSnapshots /\ MaxSnapshots \in Nat
  BY SessionAssumption DEF WireTypes
<1>2. m \in Arrivals /\ IsSnapshot(m) /\ m.seq = out[n] + 1
  BY <1>0, <1>1 DEF Arrivals, Snapshots, IsSnapshot, Msg
<1> HIDE DEF m
<1> DEFINE q == Append(down[n], m)
           L == Len(down[n])
<1>3. /\ q \in Seq(Arrivals) /\ Len(q) = L + 1 /\ L \in Nat
      /\ \A k \in 1 .. L : q[k] = down[n][k]
      /\ q[L + 1] = m
  BY <1>1, <1>2
<1>4. \A s \in Sockets : /\ down'[s] = IF s = n THEN q ELSE down[s]
                         /\ out'[s] = IF s = n THEN out[n] + 1 ELSE out[s]
  BY <1>0 DEF WireTypes
<1>7. /\ \A k \in 1 .. L : IsSnapshot(down[n][k]) =>
           down[n][k].seq = out[n] - (L - k) /\ \A j \in k .. L : IsSnapshot(down[n][j])
      /\ L < 2
  BY <1>0 DEF WireKnown, Aligned
<1>8. socket = n =>
        /\ (\A k \in 1 .. L : ~IsSnapshot(down[n][k])) => lastSnapshotSequence = out[n]
        /\ \A k \in 1 .. L :
             /\ IsSnapshot(down[n][k])
             /\ k = 1 \/ ~IsSnapshot(down[n][k - 1])
             => lastSnapshotSequence = down[n][k].seq - 1
  BY SocketsAreNumbers DEF LastKnown
<1>9. down' \in [Sockets -> Seq(Arrivals)] /\ out' \in [Sockets -> 0 .. MaxSnapshots]
  BY <1>0, <1>1, <1>3 DEF WireTypes
<1>11. \A s \in Sockets : Len(down[s]) <= 2
  BY DEF WireTypes
<1> HIDE DEF q, L
<1>10. \A s \in Sockets : Len(down'[s]) <= 2
  <2>1. Len(q) <= 2
    BY <1>3, <1>7
  <2> QED
    BY <1>4, <1>11, <2>1
<1>5. \A s \in Sockets : Aligned(s)'
  <2> TAKE s \in Sockets
  <2>1. CASE s = n
    <3>1. down'[n] = q /\ out'[n] = out[n] + 1
      BY <1>4
    <3>2. ASSUME NEW k \in 1 .. L + 1, IsSnapshot(q[k])
          PROVE  /\ q[k].seq = (out[n] + 1) - ((L + 1) - k)
                 /\ \A j \in k .. L + 1 : IsSnapshot(q[j])
      <4>1. CASE k = L + 1
        BY <1>1, <1>2, <1>3, <4>1
      <4>2. CASE k \in 1 .. L
        <5>1. IsSnapshot(down[n][k]) /\ q[k] = down[n][k]
          BY <1>3, <3>2, <4>2
        <5>2. q[k].seq = out[n] - (L - k)
          BY <1>7, <4>2, <5>1
        <5>3. \A j \in k .. L : IsSnapshot(q[j])
          BY <1>3, <1>7, <4>2, <5>1
        <5>4. \A j \in k .. L + 1 : j \in k .. L \/ j = L + 1
          BY <1>3, <4>2
        <5>5. \A j \in k .. L + 1 : IsSnapshot(q[j])
          BY <1>2, <1>3, <5>3, <5>4
        <5>6. q[k].seq = (out[n] + 1) - ((L + 1) - k)
          BY <1>1, <1>3, <4>2, <5>2
        <5> QED
          BY <5>5, <5>6
      <4> QED
        BY <1>3, <4>1, <4>2
    <3>3. Len(q) = L + 1
      BY <1>3
    <3>5. \A k \in 1 .. Len(down'[n]) : IsSnapshot(down'[n][k]) =>
            /\ down'[n][k].seq = out'[n] - (Len(down'[n]) - k)
            /\ \A j \in k .. Len(down'[n]) : IsSnapshot(down'[n][j])
      <4> SUFFICES ASSUME NEW k \in 1 .. L + 1, IsSnapshot(q[k])
                   PROVE  /\ q[k].seq = out'[n] - ((L + 1) - k)
                          /\ \A j \in k .. L + 1 : IsSnapshot(q[j])
        BY <3>1, <3>3, Zenon
      <4> QED
        BY <3>1, <3>2, Zenon
    <3>4. Aligned(n)'
      BY <3>5 DEF Aligned, IsSnapshot
    <3> QED
      BY <2>1, <3>4
  <2>2. CASE s # n
    BY <1>4, <2>2 DEF WireKnown, Aligned
  <2> QED
    BY <2>1, <2>2
<1>6. LastKnown'
  <2>1. CASE socket = n
    <3>0. down'[n] = q
      BY <1>4
    <3>1. IsSnapshot(q[L + 1])
      BY <1>2, <1>3
    <3>2. ASSUME NEW k \in 1 .. L + 1, IsSnapshot(q[k]), k = 1 \/ ~IsSnapshot(q[k - 1])
          PROVE  lastSnapshotSequence = q[k].seq - 1
      <4>1. CASE k \in 1 .. L
        <5>1. q[k] = down[n][k] /\ (k # 1 => q[k - 1] = down[n][k - 1])
          BY <1>3, <4>1
        <5> QED
          BY <1>8, <2>1, <3>2, <4>1, <5>1
      <4>2. CASE k = L + 1
        <5>1. \A i \in 1 .. L : ~IsSnapshot(down[n][i])
          <6> SUFFICES ASSUME NEW i \in 1 .. L, IsSnapshot(down[n][i]) PROVE FALSE
            OBVIOUS
          <6>1. L \in i .. L /\ L \in 1 .. L /\ k - 1 = L /\ k # 1
            BY <1>3, <4>2
          <6>2. IsSnapshot(q[L])
            BY <1>3, <1>7, <6>1
          <6> QED
            BY <3>2, <6>1, <6>2
        <5>2. lastSnapshotSequence = out[n]
          BY <1>8, <2>1, <5>1
        <5> QED
          BY <1>1, <1>2, <1>3, <4>2, <5>2, SMTT(60)
      <4> QED
        BY <1>3, <4>1, <4>2
    <3>3. L + 1 \in 1 .. L + 1
      BY <1>3
    <3> QED
      BY <1>0, <1>3, <2>1, <3>0, <3>1, <3>2, <3>3 DEF LastKnown
  <2>2. CASE socket # n
    BY <1>0, <1>4, <2>2 DEF LastKnown, PageTypes
  <2> QED
    BY <2>1, <2>2
<1> QED
  BY <1>5, <1>6, <1>9, <1>10

\* A frame arrives.  The page that takes a snapshot for the newest it has shown
\* knows the last one of its connection again.
LEMMA TailKeeps ==
  ASSUME WireTypes, WireKnown, PageTypes, LastKnown, NEW n \in Sockets, down[n] # <<>>,
         out' = out, down' = [down EXCEPT ![n] = Tail(@)],
         NEW m, m = Head(down[n])
  PROVE  /\ m \in Arrivals
         /\ down' \in [Sockets -> Seq(Arrivals)] /\ \A s \in Sockets : Len(down'[s]) <= 2
         /\ \A s \in Sockets : down'[s] # <<>> => down[s] # <<>>
         /\ \A s \in Sockets : Aligned(s)'
         /\ n # socket /\ UNCHANGED <<socket, lastSnapshotSequence>> => LastKnown'
         /\ n = socket /\ ~IsSnapshot(m) /\ UNCHANGED <<socket, lastSnapshotSequence>>
              => LastKnown'
         /\ n = socket /\ IsSnapshot(m) =>
              /\ m.seq = lastSnapshotSequence + 1
              /\ socket' = socket /\ lastSnapshotSequence' = m.seq => LastKnown'
<1> DEFINE d == down[n]
           q == Tail(down[n])
           L == Len(down[n])
<1>1. d \in Seq(Arrivals) /\ d # <<>> /\ L <= 2
  BY DEF WireTypes
<1>2. /\ q \in Seq(Arrivals) /\ Len(q) = L - 1 /\ L \in Nat \ {0}
      /\ \A k \in 1 .. L - 1 : q[k] = d[k + 1]
      /\ m = d[1] /\ m \in Arrivals
  BY <1>1
<1>3. \A s \in Sockets : down'[s] = IF s = n THEN q ELSE down[s]
  BY DEF WireTypes
<1>4. \A k \in 1 .. L : IsSnapshot(d[k]) =>
        d[k].seq = out[n] - (L - k) /\ \A j \in k .. L : IsSnapshot(d[j])
  BY DEF WireKnown, Aligned
<1>5. socket = n =>
        /\ (\A k \in 1 .. L : ~IsSnapshot(d[k])) => lastSnapshotSequence = out[n]
        /\ \A k \in 1 .. L :
             /\ IsSnapshot(d[k])
             /\ k = 1 \/ ~IsSnapshot(d[k - 1])
             => lastSnapshotSequence = d[k].seq - 1
  BY SocketsAreNumbers DEF LastKnown
<1>6. down' \in [Sockets -> Seq(Arrivals)]
  BY <1>2 DEF WireTypes
<1>7. \A s \in Sockets : Len(down[s]) <= 2
  BY DEF WireTypes
<1>8. out[n] \in Nat /\ \A k \in 1 .. L : IsSnapshot(d[k]) => d[k].seq \in Nat
  <2>1. \A f \in Arrivals : IsSnapshot(f) => f.seq \in Nat
    BY DEF Arrivals, Replies, Snapshots, IsSnapshot
  <2> QED
    BY <1>1, <2>1 DEF WireTypes
<1>16. lastSnapshotSequence \in Nat
  BY DEF PageTypes
<1>17. /\ d = down[n] /\ \A s \in Sockets : down'[s] # <<>> => down[s] # <<>>
  BY <1>3
<1> HIDE DEF q, L, d
<1>9. \A s \in Sockets : Len(down'[s]) <= 2
  BY <1>1, <1>2, <1>3, <1>7
<1>10. down'[n] = q /\ 1 \in 1 .. L
  <2>1. down'[n] = q
    BY <1>3
  <2>2. 1 \in 1 .. L
    BY <1>2
  <2> QED
    BY <2>1, <2>2
<1>11. \A s \in Sockets : Aligned(s)'
  <2> TAKE s \in Sockets
  <2>1. CASE s = n
    <3>1. ASSUME NEW k \in 1 .. L - 1, IsSnapshot(q[k])
          PROVE  q[k].seq = out[n] - (L - 1 - k) /\ \A j \in k .. L - 1 : IsSnapshot(q[j])
      <4>1. k + 1 \in 1 .. L /\ IsSnapshot(d[k + 1])
        BY <1>2, <3>1
      <4>2. d[k + 1].seq = out[n] - (L - (k + 1)) /\ \A j \in k + 1 .. L : IsSnapshot(d[j])
        BY <1>4, <4>1
      <4>3. \A j \in k .. L - 1 : j \in 1 .. L - 1 /\ j + 1 \in k + 1 .. L
        BY <1>2
      <4>4. q[k] = d[k + 1] /\ L - (k + 1) = L - 1 - k
        BY <1>2, <3>1
      <4>5. \A j \in k .. L - 1 : q[j] = d[j + 1] /\ IsSnapshot(d[j + 1])
        BY <1>2, <4>2, <4>3
      <4> QED
        BY <4>2, <4>4, <4>5
    <3>2. Aligned(n)'
      BY <1>2, <1>10, <3>1 DEF Aligned
    <3> QED
      BY <2>1, <3>2
  <2>2. CASE s # n
    BY <1>3, <2>2 DEF WireKnown, Aligned
  <2> QED
    BY <2>1, <2>2
<1>12. ASSUME n # socket, UNCHANGED <<socket, lastSnapshotSequence>> PROVE LastKnown'
  BY <1>3, <1>12 DEF LastKnown, PageTypes
<1>13. ASSUME n = socket, ~IsSnapshot(m), UNCHANGED <<socket, lastSnapshotSequence>>
       PROVE  LastKnown'
  <2>1. ASSUME \A k \in 1 .. L - 1 : ~IsSnapshot(q[k]) PROVE lastSnapshotSequence = out[n]
    <3>1. \A k \in 1 .. L : ~IsSnapshot(d[k])
      <4> TAKE k \in 1 .. L
      <4>1. CASE k = 1
        BY <1>2, <1>13, <4>1
      <4>2. CASE k # 1
        <5>1. k - 1 \in 1 .. L - 1 /\ k - 1 + 1 = k
          BY <1>2, <4>2
        <5> QED
          BY <1>2, <2>1, <5>1
      <4> QED
        BY <4>1, <4>2
    <3> QED
      BY <1>5, <1>13, <3>1
  <2>2. ASSUME NEW k \in 1 .. L - 1, IsSnapshot(q[k]), k = 1 \/ ~IsSnapshot(q[k - 1])
        PROVE  lastSnapshotSequence = q[k].seq - 1
    <3>1. k + 1 \in 1 .. L /\ q[k] = d[k + 1] /\ k + 1 # 1 /\ k + 1 - 1 = k
      BY <1>2
    <3>2. ~IsSnapshot(d[k])
      <4>1. CASE k = 1
        BY <1>2, <1>13, <4>1
      <4>2. CASE k # 1
        <5>1. k - 1 \in 1 .. L - 1 /\ k - 1 + 1 = k
          BY <1>2, <4>2
        <5> QED
          BY <1>2, <2>2, <4>2, <5>1
      <4> QED
        BY <4>1, <4>2
    <3> QED
      BY <1>5, <1>13, <2>2, <3>1, <3>2
  <2> QED
    BY <1>2, <1>10, <1>13, <2>1, <2>2 DEF LastKnown
<1>14. ASSUME n = socket, IsSnapshot(m) PROVE m.seq = lastSnapshotSequence + 1
  BY <1>2, <1>5, <1>8, <1>10, <1>14, <1>16
<1>15. ASSUME n = socket, IsSnapshot(m), socket' = socket, lastSnapshotSequence' = m.seq
       PROVE  LastKnown'
  <2>1. m.seq = out[n] - (L - 1) /\ \A j \in 1 .. L : IsSnapshot(d[j])
    BY <1>2, <1>4, <1>10, <1>15
  <2>2. \A k \in 1 .. L - 1 : IsSnapshot(q[k])
    <3> TAKE k \in 1 .. L - 1
    <3>1. k + 1 \in 1 .. L
      BY <1>2
    <3> QED
      BY <1>2, <2>1, <3>1
  <2>3. L = 1 => m.seq = out[n]
    BY <1>8, <2>1
  <2>4. L # 1 => 1 \in 1 .. L - 1 /\ 2 \in 1 .. L /\ q[1] = d[2]
    BY <1>2
  <2>5. L # 1 => q[1].seq = out[n] - (L - 2)
    BY <1>4, <2>1, <2>4
  <2>6. L # 1 => m.seq = q[1].seq - 1
    BY <1>2, <1>8, <2>1, <2>5
  <2>7. ASSUME \A k \in 1 .. L - 1 : ~IsSnapshot(q[k]) PROVE m.seq = out[n]
    BY <1>2, <2>2, <2>3, <2>4, <2>7
  <2>8. ASSUME NEW k \in 1 .. L - 1, k = 1 \/ ~IsSnapshot(q[k - 1]) PROVE m.seq = q[k].seq - 1
    <3>1. k = 1
      <4>1. k # 1 => k - 1 \in 1 .. L - 1
        BY <1>2
      <4> QED
        BY <2>2, <2>8, <4>1
    <3>2. L # 1
      BY <1>2, <3>1
    <3> QED
      BY <2>6, <3>1, <3>2
  <2> QED
    BY <1>2, <1>10, <1>15, <2>7, <2>8 DEF LastKnown
<1> QED
  BY <1>2, <1>6, <1>9, <1>11, <1>12, <1>13, <1>14, <1>15, <1>17

-----------------------------------------------------------------------------
(* The page ends a connection and starts another. *)

\* A page without a socket holds nothing of a connection.
LEMMA LeaveKeeps ==
  ASSUME SessionInvariant, Leave PROVE SessionInvariant'
<1>1. /\ socket' = NoSocket /\ ~connected' /\ ~authoritativeReady' /\ ~joinSequence'
      /\ joinedRole' = "none" /\ lastSnapshotSequence' = 0 /\ scene' = "blank"
      /\ ~reconnectTimer' /\ reconnectAttempt' = 0 /\ UNCHANGED <<wire, requestedRole>>
  BY DEF Leave, Forget, SceneAfter, ClearReconnectTimer
<1>2. Flags'
  BY Zenon DEF Leave, Forget, ClearReconnectTimer, SessionInvariant, Flags
<1>3. WireTypes' /\ WireKnown'
  BY <1>1 DEF wire, SessionInvariant, WireTypes, WireKnown, Aligned
<1>4. PageTypes'
  BY <1>1, SessionAssumption DEF SessionInvariant, PageTypes
<1>5. LastKnown' /\ PageKnown' /\ ReadyIsAdmitted' /\ RetryIsAlone'
  BY <1>1 DEF LastKnown, PageKnown, ReadyIsAdmitted, RetryIsAlone
<1> QED
  BY <1>2, <1>3, <1>4, <1>5 DEF SessionInvariant

\* scheduleReconnect keeps the types of what it writes.
LEMMA ScheduleTypes ==
  ASSUME NEW waiting \in BOOLEAN, NEW attempt \in 0 .. MaxAttempts,
         ScheduleReconnect(waiting, attempt)
  PROVE  reconnectTimer' \in BOOLEAN /\ reconnectAttempt' \in 0 .. MaxAttempts
<1>1. reconnectAttempt' \in 0 .. MaxAttempts
  BY SessionAssumption DEF ScheduleReconnect
<1>2. reconnectTimer' \in BOOLEAN
  BY Zenon DEF ScheduleReconnect
<1> QED
  BY <1>1, <1>2

\* connect, by the user or by the retry timer: it forgets the old socket and opens another.
LEMMA ConnectKeeps ==
  ASSUME SessionInvariant, NEW again \in BOOLEAN, Connect(again) PROVE SessionInvariant'
<1> DEFINE attempt == IF again THEN reconnectAttempt ELSE 0
<1>1. /\ ~connected' /\ ~authoritativeReady' /\ ~joinSequence'
      /\ joinedRole' = "none" /\ lastSnapshotSequence' = 0 /\ scene' \in {scene, "blank"}
      /\ requestedRole' \in Roles /\ UNCHANGED <<srv, up, down, out, renderer>>
  BY DEF Connect, Forget, SceneAfter
<1>2. attempt \in 0 .. MaxAttempts
  BY SessionAssumption DEF SessionInvariant, PageTypes
<1> HIDE DEF attempt
<1>3. PICK n \in Sockets :
        /\ net[n] = "free"
        /\ \/ /\ socket' = NoSocket /\ intentionalDisconnect' = TRUE
              /\ reconnectTimer' = FALSE /\ reconnectAttempt' = attempt
              /\ UNCHANGED net
           \/ /\ socket' = NoSocket /\ intentionalDisconnect' = FALSE
              /\ ScheduleReconnect(FALSE, attempt)
              /\ UNCHANGED net
           \/ /\ socket' = n /\ net' = [net EXCEPT ![n] = "connecting"]
              /\ intentionalDisconnect' = FALSE
              /\ reconnectTimer' = FALSE /\ reconnectAttempt' = attempt
  BY Zenon DEF Connect, Fresh, attempt
<1>4. reconnectTimer' \in BOOLEAN /\ intentionalDisconnect' \in BOOLEAN
  <2>1. FALSE \in BOOLEAN /\ TRUE \in BOOLEAN
    BY Zenon
  <2>2. ScheduleReconnect(FALSE, attempt) => reconnectTimer' \in BOOLEAN
    BY Zenon DEF ScheduleReconnect
  <2> QED
    BY <1>3, <2>1, <2>2, Zenon
<1>5. reconnectAttempt' \in 0 .. MaxAttempts
  <2>1. ScheduleReconnect(FALSE, attempt) => reconnectAttempt' \in 0 .. MaxAttempts
    BY <1>2, SessionAssumption DEF ScheduleReconnect
  <2> QED
    BY <1>2, <1>3, <2>1
<1>6. Flags'
  BY <1>1, <1>4, Zenon DEF SessionInvariant, Flags, Connect, Forget
<1>7. PageTypes'
  <2>1. socket' \in Sockets \cup {NoSocket}
    BY <1>3, Zenon
  <2>2. 0 \in 0 .. MaxSnapshots
    BY SessionAssumption
  <2> QED
    BY <1>1, <1>5, <2>1, <2>2 DEF SessionInvariant, PageTypes
<1>8. net' = net \/ net' = [net EXCEPT ![n] = "connecting"]
  BY <1>3
<1>9. WireTypes' /\ WireKnown'
  <2>1. WireTypes /\ WireKnown
    BY DEF SessionInvariant
  <2>2. WireTypes'
    BY <1>1, <1>8, <2>1 DEF WireTypes
  <2>3. \A s \in Sockets : Aligned(s)'
    BY <1>1, <2>1 DEF WireKnown, Aligned
  <2>4. \A s \in Sockets :
          /\ net'[s] \in {"free", "connecting"} => srv[s] = "none"
          /\ up[s] # <<>> \/ down[s] # <<>> => net'[s] = "open"
          /\ srv[s] \in {"none", "accepted", "admitted"} => out[s] = 0
    BY <1>3, <1>8, <2>1 DEF WireKnown, WireTypes
  <2> QED
    BY <1>1, <2>2, <2>3, <2>4 DEF WireKnown
<1>10. CASE socket' = NoSocket
  <2>1. RetryIsAlone'
    <3>1. reconnectTimer' => ~intentionalDisconnect'
      BY <1>3, <1>10, SocketsAreNumbers
    <3> QED
      BY <1>10, <3>1 DEF RetryIsAlone
  <2>2. LastKnown' /\ PageKnown' /\ ReadyIsAdmitted'
    BY <1>1, <1>10 DEF LastKnown, PageKnown, ReadyIsAdmitted
  <2> QED
    BY <1>6, <1>7, <1>9, <2>1, <2>2 DEF SessionInvariant
<1>11. CASE socket' # NoSocket
  <2>1. /\ socket' = n /\ net' = [net EXCEPT ![n] = "connecting"] /\ ~reconnectTimer'
    BY <1>3, <1>11
  <2>2. down[n] = <<>> /\ out[n] = 0 /\ net'[n] = "connecting"
    BY <1>3, <2>1 DEF SessionInvariant, WireKnown, WireTypes
  <2>3. LastKnown'
    BY <1>1, <2>1, <2>2 DEF LastKnown
  <2>4. PageKnown' /\ ReadyIsAdmitted' /\ RetryIsAlone'
    BY <1>1, <2>1, <2>2 DEF PageKnown, ReadyIsAdmitted, RetryIsAlone
  <2> QED
    BY <1>6, <1>7, <1>9, <2>3, <2>4 DEF SessionInvariant
<1> QED
  BY <1>10, <1>11

\* The timer fires for nothing, or the renderer fails.
LEMMA IdleKeeps ==
  ASSUME SessionInvariant, UNCHANGED <<wire, socket, connected, authoritativeReady, requestedRole,
                       joinedRole, joinSequence, lastSnapshotSequence, scene,
                       reconnectAttempt, intentionalDisconnect>>,
         reconnectTimer' \in {FALSE, reconnectTimer}, renderer' \in {FALSE, renderer}
  PROVE  SessionInvariant'
<1>1. Flags'
  BY Zenon DEF SessionInvariant, Flags
<1>2. WireTypes' /\ WireKnown' /\ PageTypes' /\ LastKnown'
  BY DEF wire, SessionInvariant, WireTypes, WireKnown, Aligned, PageTypes, LastKnown
<1>3. PageKnown' /\ ReadyIsAdmitted'
  BY DEF wire, SessionInvariant, PageKnown, ReadyIsAdmitted
<1>4. RetryIsAlone'
  <2>1. reconnectTimer' => reconnectTimer
    BY Zenon
  <2> QED
    BY <2>1 DEF SessionInvariant, RetryIsAlone
<1> QED
  BY <1>1, <1>2, <1>3, <1>4 DEF SessionInvariant

-----------------------------------------------------------------------------
(* What the sockets report. *)

\* The socket's open event: the page says hello.
LEMMA OpensKeeps ==
  ASSUME SessionInvariant, NEW n \in Sockets, Opens(n) PROVE SessionInvariant'
<1>1. /\ net[n] = "connecting" /\ net' = [net EXCEPT ![n] = "open"]
      /\ srv' = [srv EXCEPT ![n] = "accepted"] /\ UNCHANGED <<down, out, page, renderer>>
      /\ \/ up' = up
         \/ /\ socket # NoSocket /\ net'[socket] = "open"
            /\ up' = [up EXCEPT ![socket] = Append(@, "hello")]
  BY DEF Opens, Push
<1>2. WireTypes /\ WireKnown /\ PageTypes
  BY DEF SessionInvariant
<1>3. Flags'
  BY <1>1, Zenon DEF page, SessionInvariant, Flags
<1>4. PageTypes'
  BY <1>1, <1>2 DEF page, PageTypes
<1>5. WireTypes'
  <2>1. up' \in [Sockets -> Seq({"hello", "join"})]
    <3>1. \A s \in Sockets : Append(up[s], "hello") \in Seq({"hello", "join"})
      BY <1>2 DEF WireTypes
    <3> QED
      BY <1>1, <1>2, <3>1 DEF WireTypes, PageTypes
  <2> QED
    BY <1>1, <1>2, <2>1 DEF WireTypes
<1>6. WireKnown'
  <2>1. \A s \in Sockets : Aligned(s)'
    BY <1>1, <1>2 DEF WireKnown, Aligned
  <2>2. \A s \in Sockets :
          /\ net'[s] \in {"free", "connecting"} => srv'[s] = "none"
          /\ srv'[s] \in {"none", "accepted", "admitted"} => out[s] = 0
    BY <1>1, <1>2 DEF WireKnown, WireTypes
  <2>3. \A s \in Sockets : up'[s] # <<>> \/ down[s] # <<>> => net'[s] = "open"
    <3> TAKE s \in Sockets
    <3>1. up[s] # <<>> \/ down[s] # <<>> => net'[s] = "open"
      BY <1>1, <1>2 DEF WireKnown, WireTypes
    <3>2. up'[s] = up[s] \/ (s = socket /\ net'[s] = "open")
      BY <1>1, <1>2 DEF WireTypes
    <3> QED
      BY <3>1, <3>2
  <2> QED
    BY <1>1, <2>1, <2>2, <2>3 DEF WireKnown
<1>7. LastKnown'
  BY <1>1 DEF page, SessionInvariant, LastKnown
<1>8. \A s \in Sockets : net[s] = "open" => net'[s] = "open"
  BY <1>1, <1>2 DEF WireTypes
<1>9. \A s \in Sockets : net[s] = "connecting" => net'[s] \in {"connecting", "open"}
  BY <1>1, <1>2 DEF WireTypes
<1>10. PageKnown' /\ ReadyIsAdmitted' /\ RetryIsAlone'
  <2>1. socket # NoSocket => socket \in Sockets
    BY <1>2 DEF PageTypes
  <2> QED
    BY <1>1, <1>8, <1>9, <2>1
       DEF page, SessionInvariant, PageKnown, ReadyIsAdmitted, RetryIsAlone
<1> QED
  BY <1>3, <1>4, <1>5, <1>6, <1>7, <1>10 DEF SessionInvariant

\* The socket's close event: of the page's own socket it ends the session or retries, of
\* an earlier one it does nothing.
LEMMA ClosesKeeps ==
  ASSUME SessionInvariant, NEW n \in Sockets, Closes(n) PROVE SessionInvariant'
<1>1. /\ net' = [net EXCEPT ![n] = "closed"]
      /\ down' = [down EXCEPT ![n] = <<>>] /\ up' = [up EXCEPT ![n] = <<>>]
      /\ srv' = [srv EXCEPT ![n] = IF @ = "none" THEN "gone" ELSE @]
      /\ UNCHANGED <<out, requestedRole, joinedRole, joinSequence,
                     lastSnapshotSequence, scene, intentionalDisconnect, renderer>>
  BY DEF Closes
<1>2. WireTypes /\ WireKnown /\ PageTypes
  BY DEF SessionInvariant
<1>3. WireTypes' /\ WireKnown'
  <2>1. WireTypes'
    BY <1>1, <1>2 DEF WireTypes
  <2>2. \A s \in Sockets : Aligned(s)'
    <3> TAKE s \in Sockets
    <3>1. CASE s = n
      <4>1. \A k \in 1 .. Len(down'[n]) : FALSE
        BY <1>1, <1>2 DEF WireTypes
      <4> QED
        BY <3>1, <4>1 DEF Aligned
    <3>2. CASE s # n
      BY <1>1, <1>2, <3>2 DEF WireKnown, Aligned, WireTypes
    <3> QED
      BY <3>1, <3>2
  <2>3. \A s \in Sockets :
          /\ net'[s] \in {"free", "connecting"} => srv'[s] = "none"
          /\ up'[s] # <<>> \/ down'[s] # <<>> => net'[s] = "open"
          /\ srv'[s] \in {"none", "accepted", "admitted"} => out[s] = 0
    BY <1>1, <1>2 DEF WireKnown, WireTypes
  <2> QED
    BY <1>1, <2>1, <2>2, <2>3 DEF WireKnown
<1>4. CASE n = socket
  <2>1. /\ socket' = NoSocket /\ ~connected' /\ ~authoritativeReady' /\ ~reconnectTimer
        /\ \/ UNCHANGED <<reconnectTimer, reconnectAttempt>>
           \/ ~intentionalDisconnect /\ ScheduleReconnect(reconnectTimer, reconnectAttempt)
    BY <1>4, SocketsAreNumbers DEF Closes, Current, SessionInvariant, RetryIsAlone
  <2>2. reconnectTimer' \in BOOLEAN
    BY <2>1, Zenon DEF ScheduleReconnect, SessionInvariant, Flags
  <2>3. reconnectAttempt' \in 0 .. MaxAttempts
    BY <1>2, <2>1, SessionAssumption DEF ScheduleReconnect, PageTypes
  <2>4. Flags'
    <3>1. connected' = FALSE /\ authoritativeReady' = FALSE
      BY <1>4, Zenon DEF Closes, Current
    <3> QED
      BY <1>1, <2>2, <3>1, Zenon DEF SessionInvariant, Flags
  <2>5. PageTypes'
    BY <1>1, <1>2, <2>1, <2>3 DEF PageTypes
  <2>6. LastKnown' /\ PageKnown' /\ ReadyIsAdmitted' /\ RetryIsAlone'
    BY <1>1, <2>1 DEF LastKnown, SessionInvariant, PageKnown, ReadyIsAdmitted, RetryIsAlone
  <2> QED
    BY <1>3, <2>4, <2>5, <2>6 DEF SessionInvariant
<1>5. CASE n # socket
  <2>1. UNCHANGED <<socket, connected, authoritativeReady, reconnectTimer, reconnectAttempt>>
    BY <1>5 DEF Closes, Current
  <2>2. Flags'
    BY <1>1, <2>1, Zenon DEF SessionInvariant, Flags
  <2>3. PageTypes'
    BY <1>1, <1>2, <2>1 DEF PageTypes
  <2>4. socket # NoSocket => socket \in Sockets /\ net'[socket] = net[socket] /\ down'[socket] = down[socket]
    BY <1>1, <1>2, <1>5 DEF PageTypes, WireTypes
  <2>5. LastKnown'
    BY <1>1, <2>1, <2>4 DEF LastKnown, SessionInvariant
  <2>6. PageKnown' /\ ReadyIsAdmitted' /\ RetryIsAlone'
    BY <1>1, <2>1, <2>4 DEF SessionInvariant, PageKnown, ReadyIsAdmitted, RetryIsAlone
  <2> QED
    BY <1>3, <2>2, <2>3, <2>5, <2>6 DEF SessionInvariant
<1> QED
  BY <1>4, <1>5

\* What a page does with a frame of its current connection.
LEMMA HandledKeeps ==
  ASSUME SessionInvariant, NEW n \in Sockets, n = socket, down[n] # <<>>,
         NEW m, m = Head(down[n]),
         down' = [down EXCEPT ![n] = Tail(@)],
         UNCHANGED <<net, srv, out, renderer, requestedRole>>,
         \/ m.kind = "ack" /\ Acknowledged(n)
         \/ m.kind = "joined" /\ joinSequence /\ Joined
         \/ m.kind = "snapshot" /\ joinedRole # "none" /\ Snapshot(m.seq)
         \/ Rejected
  PROVE  SessionInvariant'
<1>1. WireTypes /\ WireKnown /\ PageTypes /\ LastKnown
  BY DEF SessionInvariant
<1>2. /\ m \in Arrivals
      /\ down' \in [Sockets -> Seq(Arrivals)] /\ \A s \in Sockets : Len(down'[s]) <= 2
      /\ \A s \in Sockets : down'[s] # <<>> => down[s] # <<>>
      /\ \A s \in Sockets : Aligned(s)'
      /\ ~IsSnapshot(m) /\ UNCHANGED <<socket, lastSnapshotSequence>> => LastKnown'
      /\ IsSnapshot(m) =>
           /\ m.seq = lastSnapshotSequence + 1
           /\ socket' = socket /\ lastSnapshotSequence' = m.seq => LastKnown'
  BY <1>1, TailKeeps
<1>3. net[n] = "open" /\ n # NoSocket
  BY <1>1, SocketsAreNumbers DEF WireKnown
<1>4. up' = up \/ up' = [up EXCEPT ![n] = Append(@, "join")]
  BY DEF Acknowledged, SendJoinRequest, Push, Joined, Snapshot, Rejected
<1>5. WireTypes'
  <2>1. Append(up[n], "join") \in Seq({"hello", "join"})
    BY <1>1 DEF WireTypes
  <2>2. up' \in [Sockets -> Seq({"hello", "join"})]
    BY <1>1, <1>4, <2>1 DEF WireTypes
  <2> QED
    BY <1>1, <1>2, <2>2 DEF WireTypes
<1>6. WireKnown'
  <2>1. \A s \in Sockets : up'[s] # <<>> \/ down'[s] # <<>> => net[s] = "open"
    <3> TAKE s \in Sockets
    <3>1. up[s] # <<>> \/ down[s] # <<>> => net[s] = "open"
      BY <1>1 DEF WireKnown
    <3>2. up'[s] = up[s] \/ s = n
      BY <1>1, <1>4 DEF WireTypes
    <3> QED
      BY <1>2, <1>3, <3>1, <3>2
  <2> QED
    BY <1>1, <1>2, <2>1 DEF WireKnown
<1>7. CASE m.kind = "ack" /\ Acknowledged(n)
  <2>1. /\ UNCHANGED <<socket, lastSnapshotSequence, scene, reconnectTimer,
                       intentionalDisconnect>>
        /\ reconnectAttempt' = 0 /\ joinedRole' \in {joinedRole, "admin"}
        /\ requestedRole # "admin" => ~authoritativeReady' /\ joinedRole' = joinedRole
        /\ requestedRole = "admin" => joinedRole' = "admin"
        /\ connected'
    BY <1>7 DEF Acknowledged
  <2>2. Flags'
    <3>1. UNCHANGED <<reconnectTimer, intentionalDisconnect>> /\ connected' = TRUE
      BY <1>7, Zenon DEF Acknowledged
    <3>2. authoritativeReady' \in BOOLEAN /\ joinSequence' \in BOOLEAN
      BY <1>7, Zenon DEF Acknowledged, SendJoinRequest, SessionInvariant, Flags
    <3> QED
      BY <3>1, <3>2, Zenon DEF SessionInvariant, Flags
  <2>3. PageTypes'
    BY <1>1, <2>1, SessionAssumption DEF PageTypes, Roles
  <2>4. LastKnown'
    BY <1>2, <1>7, <2>1 DEF IsSnapshot
  <2>5. PageKnown' /\ ReadyIsAdmitted' /\ RetryIsAlone'
    BY <1>3, <2>1 DEF SessionInvariant, PageKnown, ReadyIsAdmitted, RetryIsAlone
  <2> QED
    BY <1>5, <1>6, <2>2, <2>3, <2>4, <2>5 DEF SessionInvariant
<1>8. CASE m.kind = "joined" /\ joinSequence /\ Joined
  <2>1. /\ joinedRole' = requestedRole /\ joinSequence /\ m.kind = "joined"
        /\ UNCHANGED <<socket, connected, authoritativeReady, joinSequence,
                       lastSnapshotSequence, scene, reconnectAttempt, reconnectTimer,
                       intentionalDisconnect>>
    BY <1>8 DEF Joined
  <2>2. Flags'
    BY <2>1, Zenon DEF SessionInvariant, Flags
  <2>3. PageTypes'
    BY <1>1, <2>1 DEF PageTypes
  <2>4. LastKnown'
    BY <1>2, <2>1 DEF IsSnapshot
  <2>5. PageKnown' /\ ReadyIsAdmitted' /\ RetryIsAlone'
    BY <1>3, <2>1 DEF SessionInvariant, PageKnown, ReadyIsAdmitted, RetryIsAlone
  <2> QED
    BY <1>5, <1>6, <2>2, <2>3, <2>4, <2>5 DEF SessionInvariant
<1>9. CASE m.kind = "snapshot" /\ joinedRole # "none" /\ Snapshot(m.seq)
  <2>0. IsSnapshot(m) /\ m.seq \in 1 .. MaxSnapshots /\ lastSnapshotSequence \in Nat
    BY <1>1, <1>2, <1>9 DEF IsSnapshot, Arrivals, Replies, Snapshots, PageTypes
  <2>1. /\ authoritativeReady' /\ lastSnapshotSequence' = m.seq /\ scene' = "live"
        /\ joinedRole # "none"
        /\ UNCHANGED <<socket, connected, joinedRole, joinSequence, reconnectAttempt,
                       reconnectTimer, intentionalDisconnect>>
    BY <1>2, <1>9, <2>0 DEF Snapshot, IsNew
  <2>2. Flags'
    <3>1. authoritativeReady' = TRUE
      BY <1>9, Zenon DEF Snapshot
    <3> QED
      BY <2>1, <3>1, Zenon DEF SessionInvariant, Flags
  <2>3. PageTypes'
    <3>1. m.seq \in 0 .. MaxSnapshots
      BY <2>0, SessionAssumption
    <3> QED
      BY <1>1, <2>1, <3>1 DEF PageTypes
  <2>4. LastKnown'
    BY <1>2, <2>0, <2>1
  <2>5. PageKnown' /\ ReadyIsAdmitted' /\ RetryIsAlone'
    BY <1>3, <2>1 DEF SessionInvariant, PageKnown, ReadyIsAdmitted, RetryIsAlone
  <2> QED
    BY <1>5, <1>6, <2>2, <2>3, <2>4, <2>5 DEF SessionInvariant
<1>10. CASE Rejected
  <2>1. /\ socket' = NoSocket /\ scene' = "blank" /\ ~authoritativeReady' /\ ~joinSequence'
        /\ joinedRole' = "none" /\ lastSnapshotSequence' = 0 /\ ~intentionalDisconnect'
    BY <1>10 DEF Rejected, Forget, SceneAfter
  <2>2. reconnectTimer' \in BOOLEAN /\ reconnectAttempt' \in 0 .. MaxAttempts
    <3>1. reconnectTimer \in BOOLEAN
      BY Zenon DEF SessionInvariant, Flags
    <3>2. reconnectAttempt \in 0 .. MaxAttempts /\ ScheduleReconnect(reconnectTimer, reconnectAttempt)
      BY <1>1, <1>10 DEF PageTypes, Rejected
    <3> QED
      BY <3>1, <3>2, ScheduleTypes
  <2>3. Flags'
    BY <1>10, <2>2, Zenon DEF Rejected, Forget, SessionInvariant, Flags
  <2>4. PageTypes'
    <3>1. 0 \in 0 .. MaxSnapshots
      BY SessionAssumption
    <3> QED
      BY <1>1, <2>1, <2>2, <3>1 DEF PageTypes
  <2>5. LastKnown' /\ PageKnown' /\ ReadyIsAdmitted' /\ RetryIsAlone'
    BY <2>1 DEF LastKnown, PageKnown, ReadyIsAdmitted, RetryIsAlone
  <2> QED
    BY <1>5, <1>6, <2>3, <2>4, <2>5 DEF SessionInvariant
<1> QED
  BY <1>7, <1>8, <1>9, <1>10

\* A frame reaches the page, of its own socket or of an earlier one.
LEMMA ReceivesKeeps ==
  ASSUME SessionInvariant, NEW n \in Sockets, Receives(n) PROVE SessionInvariant'
<1>1. /\ down[n] # <<>> /\ down' = [down EXCEPT ![n] = Tail(@)]
      /\ UNCHANGED <<net, srv, out, renderer>>
  BY DEF Receives
<1>2. CASE n = socket
  <2>1. UNCHANGED requestedRole
    BY <1>2 DEF Receives, Current
  <2>2. LET m == Head(down[n]) IN
         \/ m.kind = "ack" /\ Acknowledged(n)
         \/ m.kind = "joined" /\ joinSequence /\ Joined
         \/ m.kind = "snapshot" /\ joinedRole # "none" /\ Snapshot(m.seq)
         \/ Rejected
    BY <1>2, Zenon DEF Receives, Current
  <2> QED
    BY <1>1, <1>2, <2>1, <2>2, HandledKeeps
<1>3. CASE n # socket
  <2>1. UNCHANGED <<up, page>>
    BY <1>3 DEF Receives, Current
  <2>2. WireTypes /\ WireKnown /\ PageTypes /\ LastKnown
    BY DEF SessionInvariant
  <2>3. UNCHANGED <<socket, lastSnapshotSequence>>
    BY <2>1 DEF page
  <2>4. /\ down' \in [Sockets -> Seq(Arrivals)] /\ \A s \in Sockets : Len(down'[s]) <= 2
        /\ \A s \in Sockets : down'[s] # <<>> => down[s] # <<>>
        /\ \A s \in Sockets : Aligned(s)'
        /\ LastKnown'
    BY <1>1, <1>3, <2>2, <2>3, TailKeeps
  <2>5. WireTypes' /\ WireKnown'
    BY <1>1, <2>1, <2>2, <2>4 DEF WireTypes, WireKnown
  <2>6. Flags'
    BY <1>1, <2>1, Zenon DEF page, SessionInvariant, Flags
  <2>7. PageTypes' /\ PageKnown' /\ ReadyIsAdmitted' /\ RetryIsAlone'
    BY <1>1, <2>1 DEF page, SessionInvariant, PageTypes, PageKnown, ReadyIsAdmitted, RetryIsAlone
  <2> QED
    BY <2>4, <2>5, <2>6, <2>7 DEF SessionInvariant
<1> QED
  BY <1>2, <1>3

-----------------------------------------------------------------------------
(* The server. *)

\* The server side touches neither the page nor a connection's readiness.
LEMMA ServerLeavesPage ==
  ASSUME SessionInvariant, UNCHANGED <<net, page, renderer>>
  PROVE  Flags' /\ PageTypes' /\ PageKnown' /\ ReadyIsAdmitted' /\ RetryIsAlone'
<1>1. Flags'
  BY Zenon DEF page, SessionInvariant, Flags
<1>2. PageTypes' /\ PageKnown' /\ ReadyIsAdmitted' /\ RetryIsAlone'
  BY DEF page, SessionInvariant, PageTypes, PageKnown, ReadyIsAdmitted, RetryIsAlone
<1> QED
  BY <1>1, <1>2

\* The server reads a hello or a join and answers it.
LEMMA ServerReadsKeeps ==
  ASSUME SessionInvariant, NEW n \in Sockets, ServerReads(n) PROVE SessionInvariant'
<1>1. /\ up[n] # <<>> /\ srv[n] \in {"accepted", "admitted", "joined"} /\ Len(down[n]) < 2
      /\ up' = [up EXCEPT ![n] = Tail(@)] /\ UNCHANGED <<net, out, page, renderer>>
  BY DEF ServerReads
<1>2. /\ srv' \in {[srv EXCEPT ![n] = "admitted"], [srv EXCEPT ![n] = "joined"],
                   [srv EXCEPT ![n] = "gone"]}
      /\ srv' = [srv EXCEPT ![n] = "admitted"] => srv[n] = "accepted"
      /\ down' = down \/ /\ srv[n] \in {"accepted", "admitted"}
                         /\ \E m \in Replies : down' = [down EXCEPT ![n] = Append(@, m)]
  <2>1. Msg("ack", 0) \in Replies /\ Msg("joined", 0) \in Replies /\ Msg("refused", 0) \in Replies
    BY DEF Msg, Replies
  <2>2. srv' = [srv EXCEPT ![n] = "admitted"] => srv'[n] = "admitted"
    BY DEF SessionInvariant, WireTypes
  <2>3. \/ /\ srv[n] = "accepted" /\ srv' = [srv EXCEPT ![n] = "admitted"]
           /\ down' = [down EXCEPT ![n] = Append(@, Msg("ack", 0))]
        \/ /\ srv[n] = "admitted" /\ srv' = [srv EXCEPT ![n] = "joined"]
           /\ down' = [down EXCEPT ![n] = Append(@, Msg("joined", 0))]
        \/ /\ srv[n] = "admitted" /\ srv' = [srv EXCEPT ![n] = "gone"]
           /\ down' = [down EXCEPT ![n] = Append(@, Msg("refused", 0))]
        \/ srv' = [srv EXCEPT ![n] = "gone"] /\ UNCHANGED down
    BY DEF ServerReads, Push
  <2>4. n \in Sockets /\ srv \in [Sockets -> {"none", "accepted", "admitted", "joined", "gone"}]
    BY DEF SessionInvariant, WireTypes
  <2> QED
    BY <2>1, <2>2, <2>3, <2>4
<1>3. WireTypes /\ WireKnown /\ PageTypes /\ LastKnown
  BY DEF SessionInvariant
<1>4. UNCHANGED <<socket, lastSnapshotSequence>>
  BY <1>1 DEF page
<1>5. /\ down' \in [Sockets -> Seq(Arrivals)] /\ \A s \in Sockets : Len(down'[s]) <= 2
      /\ \A s \in Sockets : Aligned(s)'
      /\ LastKnown'
  <2>1. CASE down' = down
    BY <1>1, <1>3, <1>4, <2>1 DEF WireTypes, WireKnown, Aligned, LastKnown
  <2>2. CASE srv[n] \in {"accepted", "admitted"}
             /\ \E m \in Replies : down' = [down EXCEPT ![n] = Append(@, m)]
    <3>1. PICK m \in Replies : down' = [down EXCEPT ![n] = Append(@, m)]
      BY <2>2
    <3>2. out[n] = 0 /\ out' = out
      BY <1>1, <1>3, <2>2 DEF WireKnown
    <3> QED
      BY <1>1, <1>3, <1>4, <3>1, <3>2, ReplyKeeps
  <2> QED
    BY <1>2, <2>1, <2>2
<1>6. WireTypes'
  <2>1. Tail(up[n]) \in Seq({"hello", "join"})
    BY <1>1, <1>3 DEF WireTypes
  <2>2. up' \in [Sockets -> Seq({"hello", "join"})]
    BY <1>1, <1>3, <2>1 DEF WireTypes
  <2>3. srv' \in [Sockets -> {"none", "accepted", "admitted", "joined", "gone"}]
    BY <1>2, <1>3 DEF WireTypes
  <2> QED
    BY <1>1, <1>3, <1>5, <2>2, <2>3 DEF WireTypes
<1>7. WireKnown'
  <2>1. net[n] = "open"
    BY <1>1, <1>3 DEF WireKnown
  <2>2. \A s \in Sockets :
          /\ net[s] \in {"free", "connecting"} => srv'[s] = "none"
          /\ srv'[s] \in {"none", "accepted", "admitted"} => out[s] = 0
    BY <1>1, <1>2, <1>3, <2>1 DEF WireKnown, WireTypes
  <2>3. \A s \in Sockets : up'[s] # <<>> \/ down'[s] # <<>> => net[s] = "open"
    BY <1>1, <1>2, <1>3, <2>1 DEF WireKnown, WireTypes
  <2> QED
    BY <1>1, <1>5, <2>2, <2>3 DEF WireKnown
<1> QED
  BY <1>1, <1>5, <1>6, <1>7, ServerLeavesPage DEF SessionInvariant

\* The server sends a snapshot to a player that has joined.
LEMMA ServerSendsKeeps ==
  ASSUME SessionInvariant, NEW n \in Sockets, ServerSends(n) PROVE SessionInvariant'
<1>1. /\ srv[n] = "joined" /\ net[n] = "open" /\ UNCHANGED <<net, srv, up, page, renderer>>
      /\ out' = [out EXCEPT ![n] = @ + 1]
      /\ down' = [down EXCEPT ![n] = Append(@, Msg("snapshot", out[n] + 1))]
  BY DEF ServerSends, Push
<1>2. WireTypes /\ WireKnown /\ PageTypes /\ LastKnown
  BY DEF SessionInvariant
<1>3. /\ down' \in [Sockets -> Seq(Arrivals)] /\ \A s \in Sockets : Len(down'[s]) <= 2
      /\ out' \in [Sockets -> 0 .. MaxSnapshots]
      /\ \A s \in Sockets : Aligned(s)'
      /\ LastKnown'
  BY <1>2, SendKeeps
<1>4. WireTypes'
  BY <1>1, <1>2, <1>3 DEF WireTypes
<1>5. \A s \in Sockets : s # n => down'[s] = down[s] /\ out'[s] = out[s]
  BY <1>1, <1>2 DEF WireTypes
<1>6. WireKnown'
  BY <1>1, <1>2, <1>3, <1>5 DEF WireKnown
<1> QED
  BY <1>1, <1>3, <1>4, <1>6, ServerLeavesPage DEF SessionInvariant

\* The server or the network ends a connection.
LEMMA ServerDropsKeeps ==
  ASSUME SessionInvariant, NEW n \in Sockets, ServerDrops(n) PROVE SessionInvariant'
<1>1. /\ srv[n] \in {"accepted", "admitted", "joined"} /\ srv' = [srv EXCEPT ![n] = "gone"]
      /\ UNCHANGED <<net, up, down, out, page, renderer>>
  BY DEF ServerDrops
<1>2. WireTypes /\ WireKnown /\ LastKnown
  BY DEF SessionInvariant
<1>3. WireTypes'
  BY <1>1, <1>2 DEF WireTypes
<1>4. WireKnown'
  BY <1>1, <1>2 DEF WireKnown, WireTypes, Aligned
<1>5. LastKnown'
  BY <1>1, <1>2 DEF LastKnown, page
<1> QED
  BY <1>1, <1>3, <1>4, <1>5, ServerLeavesPage DEF SessionInvariant

\* A socket that both sides have ended is used again by a later attempt.
LEMMA CollectKeeps ==
  ASSUME SessionInvariant, NEW n \in Sockets, Collect(n) PROVE SessionInvariant'
<1>1. /\ net[n] = "closed" /\ net' = [net EXCEPT ![n] = "free"]
      /\ srv' = [srv EXCEPT ![n] = "none"] /\ out' = [out EXCEPT ![n] = 0]
      /\ UNCHANGED <<up, down, page, renderer>>
  BY DEF Collect
<1>2. WireTypes /\ WireKnown /\ LastKnown /\ PageTypes
  BY DEF SessionInvariant
<1>3. down[n] = <<>> /\ up[n] = <<>>
  BY <1>1, <1>2 DEF WireKnown
<1>4. socket # NoSocket => socket \in Sockets /\ socket # n
  BY <1>1, <1>2 DEF SessionInvariant, PageTypes, PageKnown
<1>5. WireTypes'
  BY <1>1, <1>2, SessionAssumption DEF WireTypes
<1>6. WireKnown'
  <2>1. \A s \in Sockets : Aligned(s)'
    <3> TAKE s \in Sockets
    <3>1. CASE s = n
      <4>1. \A k \in 1 .. Len(down'[n]) : FALSE
        BY <1>1, <1>3
      <4> QED
        BY <3>1, <4>1 DEF Aligned
    <3>2. CASE s # n
      BY <1>1, <1>2, <3>2 DEF WireKnown, Aligned, WireTypes
    <3> QED
      BY <3>1, <3>2
  <2> QED
    BY <1>1, <1>2, <1>3, <2>1 DEF WireKnown, WireTypes
<1>7. LastKnown'
  BY <1>1, <1>2, <1>4 DEF LastKnown, page, WireTypes
<1>8. Flags' /\ PageTypes'
  <2>1. Flags'
    BY <1>1, Zenon DEF page, SessionInvariant, Flags
  <2> QED
    BY <1>1, <1>2, <2>1 DEF page, PageTypes
<1>9. PageKnown' /\ ReadyIsAdmitted' /\ RetryIsAlone'
  <2>1. socket # NoSocket => net'[socket] = net[socket]
    BY <1>1, <1>2, <1>4 DEF WireTypes
  <2> QED
    BY <1>1, <2>1 DEF page, SessionInvariant, PageKnown, ReadyIsAdmitted, RetryIsAlone
<1> QED
  BY <1>5, <1>6, <1>7, <1>8, <1>9 DEF SessionInvariant
-----------------------------------------------------------------------------
(* Every step. *)

\* Every step of the page and of its server keeps the invariant.
LEMMA SessionStep == SessionInvariant /\ [Next]_vars => SessionInvariant'
<1> SUFFICES ASSUME SessionInvariant, [Next]_vars PROVE SessionInvariant'
  OBVIOUS
<1>1. CASE User
  <2>1. Leave \/ Connect(FALSE)
    BY <1>1 DEF User, Click, Quit
  <2>2. ASSUME NEW again \in BOOLEAN, again = FALSE, Connect(again) PROVE SessionInvariant'
    BY <2>2, ConnectKeeps
  <2> QED
    BY <2>1, <2>2, LeaveKeeps, Zenon
<1>2. CASE TimerFires
  <2>1. CASE Connect(TRUE)
    <3>1. ASSUME NEW again \in BOOLEAN, again = TRUE, Connect(again) PROVE SessionInvariant'
      BY <3>1, ConnectKeeps
    <3> QED
      BY <2>1, <3>1, Zenon
  <2>2. CASE /\ ~renderer /\ reconnectTimer' = FALSE
             /\ UNCHANGED <<wire, socket, connected, authoritativeReady, requestedRole,
                            joinedRole, joinSequence, lastSnapshotSequence, scene,
                            reconnectAttempt, intentionalDisconnect, renderer>>
    BY <2>2, IdleKeeps, Zenon
  <2> QED
    BY <1>2, <2>1, <2>2 DEF TimerFires
<1>3. CASE FailRenderer
  <2>1. /\ UNCHANGED <<wire, socket, connected, authoritativeReady, requestedRole,
                       joinedRole, joinSequence, lastSnapshotSequence, scene,
                       reconnectAttempt, intentionalDisconnect>>
        /\ reconnectTimer' \in {FALSE, reconnectTimer} /\ renderer' \in {FALSE, renderer}
    BY <1>3, Zenon DEF FailRenderer, page
  <2> QED
    BY <2>1, IdleKeeps, Zenon
<1>4. ASSUME NEW n \in Sockets, Events(n) \/ Server(n) PROVE SessionInvariant'
  BY <1>4, OpensKeeps, ClosesKeeps, ReceivesKeeps, ServerReadsKeeps, ServerSendsKeeps,
     ServerDropsKeeps, CollectKeeps, Zenon DEF Events, Server
<1>5. CASE UNCHANGED vars
  <2>1. /\ UNCHANGED <<wire, socket, connected, authoritativeReady, requestedRole,
                       joinedRole, joinSequence, lastSnapshotSequence, scene,
                       reconnectAttempt, intentionalDisconnect>>
        /\ reconnectTimer' \in {FALSE, reconnectTimer} /\ renderer' \in {FALSE, renderer}
    BY <1>5, Zenon DEF vars, page
  <2> QED
    BY <2>1, IdleKeeps, Zenon
<1> QED
  BY <1>1, <1>2, <1>3, <1>4, <1>5 DEF Next

\* The first snapshot still on its way follows the last one the page was shown.
LEMMA LastIsNewest ==
  SessionInvariant /\ socket # NoSocket => lastSnapshotSequence = Undelivered
<1> SUFFICES ASSUME SessionInvariant, socket # NoSocket
             PROVE  lastSnapshotSequence = Undelivered
  OBVIOUS
<1> DEFINE snaps == {k \in 1 .. Len(down[socket]) : down[socket][k].kind = "snapshot"}
           first == CHOOSE k \in snaps : \A j \in snaps : k <= j
<1>1. socket \in Sockets /\ Len(down[socket]) \in Nat /\ Len(down[socket]) <= 2
  BY DEF SessionInvariant, PageTypes, WireTypes
<1>2. CASE snaps = {}
  BY <1>2 DEF SessionInvariant, LastKnown, IsSnapshot, Undelivered
<1>3. CASE snaps # {}
  <2>1. \E k \in snaps : \A j \in snaps : k <= j
    <3>1. snaps \subseteq {1, 2}
      BY <1>1
    <3> QED
      BY <1>3, <3>1
  <2>2. first \in snaps /\ \A j \in snaps : first <= j
    BY <2>1
  <2>3. first = 1 \/ ~IsSnapshot(down[socket][first - 1])
    <3>1. first \in 1 .. Len(down[socket])
      BY <2>2
    <3>2. first # 1 => first - 1 \in 1 .. Len(down[socket]) /\ ~(first <= first - 1)
      BY <1>1, <3>1
    <3> QED
      BY <2>2, <3>2 DEF IsSnapshot
  <2>4. lastSnapshotSequence = down[socket][first].seq - 1
    BY <2>2, <2>3 DEF SessionInvariant, LastKnown, IsSnapshot
  <2> QED
    BY <1>3, <2>4 DEF Undelivered
<1> QED
  BY <1>2, <1>3

\* The inductive invariant is at least what the runs check.
LEMMA InvariantIsEnough == SessionInvariant => SessionInv
<1> SUFFICES ASSUME SessionInvariant PROVE SessionInv
  OBVIOUS
<1>1. TypeOK /\ ReadyIsAdmitted /\ RetryIsAlone
  BY TypesMean DEF SessionInvariant
<1>2. NewestIsShown
  BY LastIsNewest DEF SessionInvariant, PageKnown, ReadyIsAdmitted, NewestIsShown
<1> QED
  BY <1>1, <1>2 DEF SessionInv

\* A page lets its user act only on a live connection on which the server has
\* admitted it in the role it asked for last, never tries again beside a
\* connection or after the user left, and shows a player the newest snapshot
\* that reached it: what connect, disconnect, the sockets' callbacks and the
\* retry timer of session_transport.js keep together, however their events and
\* those of forgotten sockets interleave.
THEOREM SessionStaysSound == Spec => []SessionInv
<1>1. Spec => []SessionInvariant
  BY SessionStart, SessionStep, PTL DEF Spec
<1> QED
  BY <1>1, InvariantIsEnough, PTL

\* A lost connection, a refused frame of a forgotten socket and a retry leave
\* the shown scene alone: only the user, or an answer of the current
\* connection, empties it.
THEOREM LossKeepsTheScene == Spec => LossKeepsScene
<1>1. ASSUME [Next]_vars, scene' # scene
      PROVE  scene' = "blank" => User \/ \E n \in Sockets : Receives(n) /\ Current(n)
  <2>1. CASE TimerFires
    BY <1>1, <2>1 DEF TimerFires, Connect, SceneAfter
  <2>2. CASE FailRenderer \/ UNCHANGED vars
    BY <1>1, <2>2 DEF FailRenderer, page, vars
  <2>3. ASSUME NEW n \in Sockets, Events(n) PROVE Receives(n) /\ Current(n)
    BY <1>1, <2>3, Zenon DEF Events, Opens, Closes, Receives, page
  <2>4. ASSUME NEW n \in Sockets, Server(n) PROVE FALSE
    BY <1>1, <2>4 DEF Server, ServerReads, ServerSends, ServerDrops, Collect, page
  <2> QED
    BY <1>1, <2>1, <2>2, <2>3, <2>4 DEF Next
<1>2. [Next]_vars => [scene' = "blank" => \/ scene = "blank" \/ User
                         \/ \E n \in Sockets : Receives(n) /\ Current(n)]_vars
  BY <1>1, Zenon
<1> QED
  BY <1>2, PTL DEF Spec, LossKeepsScene

-----------------------------------------------------------------------------
(* The battle of bots a page runs, for every set of bots and size of team.   *)

BattleTypes ==
  /\ bCommand \in {"none", "config", "geese", "cats"}
  /\ bList \in SUBSET Bots /\ bBatch \in SUBSET Bots
  /\ bSocket \in [Bots -> {"closed", "closing", "opening", "hello", "joining", "joined"}]
  /\ bAdmission \in [Bots -> {"none", "waits", "admitted", "refused"}]
  /\ bTimer \in BOOLEAN /\ bSpectator \in BOOLEAN

\* A team that was stopped while it was connecting has a bot that is never admitted: its
\* socket was not open when the list was emptied.
Doomed == \E b \in bBatch : bAdmission[b] # "admitted" /\ bSocket[b] \notin Open

\* Where the command is, and who is in the list.
Stage ==
  /\ bCommand \in {"none", "config"} => bBatch = {}
  /\ bCommand = "none" /\ ~bTimer => bList = {}
  /\ bCommand = "config" => bList = {}
  /\ bCommand = "geese" =>
       \/ bList = {} /\ Doomed
       \/ bList = bBatch /\ Cardinality(bBatch) = TeamSize
  /\ bCommand = "cats" =>
       \/ bList = {} /\ Doomed
       \/ /\ bBatch \subseteq bList /\ Cardinality(bList) = 2 * TeamSize
          /\ \A b \in bList \ bBatch : bAdmission[b] = "admitted"
  /\ bTimer => bCommand = "none"

BattleInvariant == BattleTypes /\ NoStrayBot /\ Stage /\ BattleIsWhole

\* No battle runs when the page is opened.
LEMMA BattleStart == BattleInit => BattleInvariant
BY DEF BattleInit, BattleInvariant, BattleTypes, NoStrayBot, Stage, BattleIsWhole, Open, Doomed

\* stopBrowserBotBattle, whoever calls it while a team is not yet all admitted.
LEMMA Stopping ==
  ASSUME BattleInvariant, ~Due, Stop, UNCHANGED <<bAdmission, bCommand, bBatch>>
  PROVE  /\ bList' = {} /\ bTimer' = FALSE /\ NoStrayBot' /\ Stage' /\ BattleIsWhole'
         /\ bSocket' \in [Bots -> {"closed", "closing", "opening", "hello", "joining", "joined"}]
<1> USE DEF BattleInvariant, BattleTypes
<1>1. bList' = {} /\ bTimer' = FALSE
  BY DEF Stop
<1>2. /\ bSocket' \in [Bots -> {"closed", "closing", "opening", "hello", "joining", "joined"}]
      /\ \A b \in Bots : bSocket'[b] \notin Open
  BY DEF Stop, ClosedAll, NoStrayBot, Open
<1>3. bCommand \in {"geese", "cats"} => Doomed'
  <2> SUFFICES ASSUME bCommand \in {"geese", "cats"}
               PROVE  Doomed'
    OBVIOUS
  <2>1. PICK b \in bBatch : bAdmission[b] # "admitted"
    BY DEF Due, AllAdmitted
  <2> QED
    BY <2>1, <1>2 DEF Doomed
<1>4. Stage'
  BY <1>1, <1>3 DEF Stage
<1> QED
  BY <1>1, <1>2, <1>4 DEF NoStrayBot, BattleIsWhole

\* Every step of the battle, of its timer and of a bot's socket keeps the invariant.
LEMMA BattleStep == BattleInvariant /\ [BattleNext]_bVars => BattleInvariant'
<1> SUFFICES ASSUME BattleInvariant, [BattleNext]_bVars
             PROVE  BattleInvariant'
  OBVIOUS
<1> USE DEF BattleInvariant
<1>1. CASE UNCHANGED bVars
  BY <1>1 DEF bVars, BattleTypes, NoStrayBot, Stage, BattleIsWhole, Doomed
<1>2. ASSUME Stop, bCommand' = "none", bBatch' = {}, UNCHANGED <<bAdmission, bSpectator>>
      PROVE  BattleInvariant'
  <2>1. /\ bSocket' \in [Bots -> {"closed", "closing", "opening", "hello", "joining", "joined"}]
        /\ \A b \in Bots : bSocket'[b] \notin Open
    BY <1>2 DEF Stop, ClosedAll, NoStrayBot, Open, BattleTypes
  <2> QED
    BY <1>2, <2>1 DEF Stop, BattleTypes, NoStrayBot, Stage, BattleIsWhole
<1>3. ASSUME ~Due, Stop, UNCHANGED <<bAdmission, bCommand, bBatch>>, bSpectator' \in BOOLEAN
      PROVE  BattleInvariant'
  BY <1>3, Stopping DEF BattleTypes
<1>4. ASSUME ConnectTeam, UNCHANGED <<bTimer, bSpectator>>, bTimer = FALSE,
             \/ bCommand = "config" /\ bCommand' = "geese"
             \/ bCommand = "geese" /\ bCommand' = "cats" /\ AllAdmitted
      PROVE  BattleInvariant'
  <2>1. PICK team \in SUBSET FreshBot :
          /\ Cardinality(team) = TeamSize
          /\ bList' = bList \cup team /\ bBatch' = team
          /\ bSocket' = [b \in Bots |-> IF b \in team THEN "opening" ELSE bSocket[b]]
          /\ bAdmission' = [b \in Bots |-> IF b \in team THEN "waits" ELSE bAdmission[b]]
    BY <1>4 DEF ConnectTeam
  <2>2. team \in SUBSET Bots /\ team \cap bList = {} /\ team \cap bBatch = {}
    BY <2>1 DEF FreshBot
  <2>3. BattleTypes'
    BY <1>4, <2>1, <2>2 DEF BattleTypes
  <2>4. NoStrayBot'
    BY <2>1, <2>2 DEF NoStrayBot, BattleTypes
  <2>5. CASE bCommand = "config"
    <3>1. bList = {} /\ bCommand' = "geese"
      BY <1>4, <2>5 DEF Stage
    <3> QED
      BY <3>1, <1>4, <2>1, <2>3, <2>4 DEF Stage, BattleIsWhole
  <2>6. CASE bCommand = "geese"
    <3>1. bCommand' = "cats" /\ AllAdmitted
      BY <1>4, <2>6
    <3>2. bList = bBatch /\ Cardinality(bBatch) = TeamSize
      BY <2>6, <3>1 DEF Stage, Doomed, AllAdmitted
    <3>3. IsFiniteSet(team) /\ IsFiniteSet(bList)
      BY <2>2, FS_Subset, BattleAssumption DEF BattleTypes
    <3>4. Cardinality(bList \cup team) = 2 * TeamSize
      <4>1. Cardinality(bList \cup team) = Cardinality(bList) + Cardinality(team)
        <5>1. Cardinality(bList \cap team) = 0
          <6>1. bList \cap team = {}
            BY <2>2
          <6> QED
            BY <6>1, FS_EmptySet
        <5>2. Cardinality(bList \cup team)
                = Cardinality(bList) + Cardinality(team) - Cardinality(bList \cap team)
          BY <3>3, FS_Union
        <5>3. Cardinality(bList) \in Nat /\ Cardinality(team) \in Nat
          BY <3>3, FS_CardinalityType
        <5> QED
          BY <5>1, <5>2, <5>3
      <4>2. Cardinality(bList) = TeamSize
        BY <3>2
      <4> QED
        BY <4>1, <4>2, <2>1, BattleAssumption
    <3>5. \A b \in bList' \ bBatch' : bAdmission'[b] = "admitted"
      BY <2>1, <2>2, <3>1, <3>2 DEF AllAdmitted, BattleTypes
    <3> QED
      BY <3>1, <3>4, <3>5, <1>4, <2>1, <2>3, <2>4 DEF Stage, BattleIsWhole
  <2> QED
    BY <1>4, <2>5, <2>6
<1>5. CASE TeamSettles
  <2>1. CASE AllAdmitted /\ bCommand = "geese" /\ ConnectTeam /\ bCommand' = "cats"
             /\ UNCHANGED <<bTimer, bSpectator>>
    BY <2>1, <1>4 DEF Stage, BattleTypes
  <2>2. CASE AllAdmitted /\ bCommand = "cats" /\ bCommand' = "none" /\ bTimer' = TRUE
             /\ bBatch' = {} /\ UNCHANGED <<bList, bSocket, bAdmission, bSpectator>>
    <3>1. /\ bBatch \subseteq bList /\ Cardinality(bList) = 2 * TeamSize
          /\ \A b \in bList \ bBatch : bAdmission[b] = "admitted"
      BY <2>2 DEF Stage, Doomed, AllAdmitted
    <3>2. \A b \in bList : bAdmission[b] = "admitted"
      BY <2>2, <3>1 DEF AllAdmitted
    <3> QED
      BY <2>2, <3>1, <3>2 DEF BattleTypes, NoStrayBot, Stage, BattleIsWhole
  <2>3. CASE SetupFails
    BY <2>3, <1>2 DEF SetupFails
  <2>4. CASE AllAdmitted
    BY <1>5, <2>1, <2>2, <2>4, Zenon DEF TeamSettles
  <2> QED
    BY <1>5, <2>3, <2>4, Zenon DEF TeamSettles
<1>6. CASE ~Due /\ StartBattle
  <2>1. ~bTimer
    <3> SUFFICES ASSUME bTimer
                 PROVE  FALSE
      OBVIOUS
    <3>1. bList = {} /\ Cardinality(bList) = 2 * TeamSize
      BY <1>6 DEF StartBattle, BattleIsWhole
    <3>2. Cardinality(bList) = 0
      BY <3>1, FS_EmptySet
    <3> QED
      BY <3>1, <3>2, BattleAssumption
  <2> QED
    BY <1>6, <2>1 DEF StartBattle, BattleTypes, NoStrayBot, Stage, BattleIsWhole
<1>7. CASE ~Due /\ ConfigLoads
  <2>1. CASE SetupFails
    BY <2>1, <1>2 DEF SetupFails
  <2>2. CASE ConnectTeam /\ bCommand' = "geese" /\ UNCHANGED <<bTimer, bSpectator>>
    BY <2>2, <1>4, <1>7 DEF ConfigLoads, Stage, BattleTypes
  <2> QED
    BY <1>7, <2>1, <2>2 DEF ConfigLoads
<1>8. CASE ~Due /\ (StopCommand \/ LeaveSession \/ BattleTimer)
  BY <1>8, <1>3 DEF StopCommand, LeaveSession, BattleTimer, BattleTypes
<1>9. CASE ~Due /\ JoinSession
  BY <1>9 DEF JoinSession, BattleTypes, NoStrayBot, Stage, BattleIsWhole, Doomed
<1>10. ASSUME NEW b \in Bots, BotEvent(b)
       PROVE  BattleInvariant'
  <2>1. UNCHANGED RestOfBattle
    BY <1>10 DEF BotEvent
  <2>2. BattleTypes'
    BY <1>10, <2>1 DEF BotEvent, OpensBot, BotAcknowledged, BotJoins, BotRefused, BotCloses,
                       BotTimesOut, To, Finish, RestOfBattle, BattleTypes, Open
  <2>3. \A c \in Bots : bSocket'[c] \in Open => bSocket[c] \in Open
    BY <1>10 DEF BotEvent, OpensBot, BotAcknowledged, BotJoins, BotRefused, BotCloses,
                 BotTimesOut, To, BattleTypes, Open
  <2>4. \A c \in Bots : bAdmission[c] = "admitted" => bAdmission'[c] = "admitted"
    BY <1>10 DEF BotEvent, OpensBot, BotAcknowledged, BotJoins, BotRefused, BotCloses,
                 BotTimesOut, Finish, BattleTypes
  <2>5. \A c \in Bots : bSocket[c] \notin Open /\ bAdmission[c] # "admitted"
                          => bAdmission'[c] # "admitted"
    BY <1>10 DEF BotEvent, OpensBot, BotAcknowledged, BotJoins, BotRefused, BotCloses,
                 BotTimesOut, To, Finish, BattleTypes, Open
  <2>6. Doomed => Doomed'
    BY <2>1, <2>3, <2>5 DEF Doomed, RestOfBattle, BattleTypes
  <2>7. Stage'
    BY <2>1, <2>4, <2>6 DEF Stage, RestOfBattle, BattleTypes
  <2> QED
    BY <2>1, <2>2, <2>3, <2>4, <2>7 DEF NoStrayBot, BattleIsWhole, RestOfBattle, BattleTypes
<1> QED
  BY <1>1, <1>5, <1>6, <1>7, <1>8, <1>9, <1>10 DEF BattleNext

\* A bot's socket is open only while the bot is in the list of the battle, and a battle that
\* is being played has both of its teams, every bot of them admitted: startBrowserBotBattle
\* and stopBrowserBotBattle never leave half of one, whichever socket fails and whenever.
THEOREM BattlesAreWhole == BattleSpec => []BattleInv
<1>1. BattleInvariant => BattleInv
  BY DEF BattleInvariant, BattleInv
<1> QED
  BY <1>1, BattleStart, BattleStep, PTL DEF BattleSpec

-----------------------------------------------------------------------------
(* What a player does on one connection. *)

\* The number that follows another.
Following(n) == IF n = MaxSequence THEN 1 ELSE n + 1

\* The frames under way are numbered one after the other up to the page's last, the first
\* of them above what the server has read unless the numbering starts again on it.
Numbered(frames, last, newest) ==
  /\ frames \in Seq([seq : 1 .. MaxSequence, look : Looks])
  /\ last \in 0 .. MaxSequence /\ newest \in 0 .. MaxSequence
  /\ frames = <<>> => last <= newest
  /\ frames # <<>> => /\ frames[1].seq = 1 \/ frames[1].seq > last
                      /\ frames[Len(frames)].seq = newest
  /\ \A k \in 1 .. Len(frames) - 1 : frames[k + 1].seq = Following(frames[k].seq)

\* The connection of the player is a record with the number read last.
HasLast(p) == "last" \in DOMAIN p

FramesFollow ==
  /\ Numbered(sentFrames, server.last, sequence)
  /\ HasLast(server)

LEMMA SendingFollows ==
  ASSUME NEW frames, NEW last, NEW newest, NEW look \in Looks, Numbered(frames, last, newest)
  PROVE  Numbered(Append(frames, [seq |-> Following(newest), look |-> look]), last, Following(newest))
<1> DEFINE f == [seq |-> Following(newest), look |-> look]
           longer == Append(frames, f)
<1>1. MaxSequence \in Nat \ {0}
  BY PlayAssumption
<1>2. Following(newest) \in 1 .. MaxSequence
  BY <1>1 DEF Following, Numbered
<1>3. f \in [seq : 1 .. MaxSequence, look : Looks]
  BY <1>2
<1>4. /\ longer \in Seq([seq : 1 .. MaxSequence, look : Looks])
      /\ Len(longer) = Len(frames) + 1 /\ Len(frames) \in Nat
      /\ longer[Len(frames) + 1] = f
      /\ \A k \in 1 .. Len(frames) : longer[k] = frames[k]
  BY <1>3 DEF Numbered
<1> HIDE DEF longer
<1>5. ASSUME NEW k \in 1 .. Len(longer) - 1
      PROVE  longer[k + 1].seq = Following(longer[k].seq)
  <2>1. CASE k = Len(frames)
    BY <1>4, <2>1 DEF Numbered
  <2>2. CASE k # Len(frames)
    <3>1. k \in 1 .. Len(frames) - 1 /\ longer[k] = frames[k] /\ longer[k + 1] = frames[k + 1]
      BY <1>4, <2>2
    <3> QED
      BY <3>1 DEF Numbered
  <2> QED
    BY <2>1, <2>2
<1>6. longer # <<>> /\ longer[Len(longer)].seq = Following(newest)
  BY <1>4
<1>7. longer[1].seq = 1 \/ longer[1].seq > last
  <2>1. CASE frames = <<>>
    BY <1>1, <1>4, <2>1 DEF Numbered, Following
  <2>2. CASE frames # <<>>
    BY <1>4, <2>2 DEF Numbered
  <2> QED
    BY <2>1, <2>2
<1>8. Numbered(longer, last, Following(newest))
  BY <1>2, <1>4, <1>5, <1>6, <1>7 DEF Numbered
<1> QED
  BY <1>8 DEF longer

LEMMA ReadingFollows ==
  ASSUME NEW frames, NEW last, NEW newest, Numbered(frames, last, newest), frames # <<>>
  PROVE  Numbered(Tail(frames), Head(frames).seq, newest)
<1> DEFINE rest == Tail(frames)
<1>1. MaxSequence \in Nat \ {0}
  BY PlayAssumption
<1>a. frames \in Seq([seq : 1 .. MaxSequence, look : Looks])
  BY DEF Numbered
<1>2. /\ rest \in Seq([seq : 1 .. MaxSequence, look : Looks])
      /\ Len(frames) \in Nat \ {0} /\ Len(rest) = Len(frames) - 1
      /\ \A k \in 1 .. Len(rest) : rest[k] = frames[k + 1]
      /\ Head(frames) = frames[1]
  BY <1>a, HeadTailProperties, EmptySeq
<1>3. ASSUME NEW k \in 1 .. Len(frames) PROVE frames[k].seq \in 1 .. MaxSequence
  <2>1. frames[k] \in [seq : 1 .. MaxSequence, look : Looks]
    BY <1>a, ElementOfSeq
  <2> QED
    BY <2>1
<1>4. \A k \in 1 .. Len(frames) - 1 : frames[k + 1].seq = Following(frames[k].seq)
  BY DEF Numbered
<1> HIDE DEF rest
<1>b. frames[Len(frames)].seq = newest /\ (rest = <<>> <=> Len(rest) = 0)
  BY <1>2, EmptySeq DEF Numbered
<1>5. rest = <<>> => frames[1].seq <= newest
  <2> SUFFICES ASSUME rest = <<>> PROVE frames[1].seq <= newest
    OBVIOUS
  <2>0. Len(frames) = 1
    BY <1>2, <1>b
  <2>1. frames[1].seq = newest /\ frames[1].seq \in 1 .. MaxSequence
    BY <1>3, <1>b, <2>0
  <2> QED
    BY <1>1, <2>1
<1>6. ASSUME rest # <<>>
      PROVE  /\ rest[1].seq = 1 \/ rest[1].seq > frames[1].seq
             /\ rest[Len(rest)].seq = newest
  <2>1. Len(rest) \in 1 .. Len(frames) - 1 /\ rest[1] = frames[2] /\ rest[Len(rest)] = frames[Len(frames)]
    BY <1>2, <1>6, <1>b
  <2>2. frames[1 + 1].seq = Following(frames[1].seq) /\ frames[1].seq \in 1 .. MaxSequence
    BY <1>2, <1>3, <1>4, <2>1
  <2> QED
    BY <1>1, <1>b, <2>1, <2>2 DEF Following
<1>7. \A k \in 1 .. Len(rest) - 1 : rest[k + 1].seq = Following(rest[k].seq)
  BY <1>2, <1>4, SMTT(60)
<1>8. frames[1].seq \in 0 .. MaxSequence /\ newest \in 0 .. MaxSequence
  BY <1>1, <1>2, <1>3 DEF Numbered
<1>9. Numbered(rest, frames[1].seq, newest)
  BY <1>2, <1>5, <1>6, <1>7, <1>8 DEF Numbered
<1> QED
  BY <1>2, <1>9 DEF rest

\* Who ticks reads nothing.
LEMMA PlayerHasLast == HasLast(NewPlayer) /\ NewPlayer.last = 0
BY Zenon DEF NewPlayer, HasLast

LEMMA LastIsKept ==
  ASSUME NEW p, HasLast(p), NEW playing
  PROVE  /\ HasLast(Transitioned(p)) /\ Transitioned(p).last = p.last
         /\ HasLast(AppliedInput(p, playing)) /\ AppliedInput(p, playing).last = p.last
         /\ \A q \in Advanced(p) : HasLast(q) /\ q.last = p.last
<1>1. HasLast(Transitioned(p)) /\ Transitioned(p).last = p.last
  BY DEF Transitioned, HasLast
<1>2. HasLast(AppliedInput(p, playing)) /\ AppliedInput(p, playing).last = p.last
  BY DEF AppliedInput, HasLast
<1>3. \A q \in Advanced(p) : HasLast(q) /\ q.last = p.last
  BY DEF Advanced, HasLast
<1> QED
  BY <1>1, <1>2, <1>3

LEMMA TickReadsNothing ==
  ASSUME HasLast(server), Tick
  PROVE  HasLast(server') /\ server'.last = server.last
<1>1. PICK q \in {server, Transitioned(server)} : server' \in Advanced(AppliedInput(q, active'))
  BY Zenon DEF Tick
<1>2. HasLast(q) /\ q.last = server.last
  BY <1>1, LastIsKept
<1>3. HasLast(AppliedInput(q, active')) /\ AppliedInput(q, active').last = server.last
  BY <1>2, LastIsKept
<1> QED
  BY <1>1, <1>3, LastIsKept

LEMMA ReadingIsLast ==
  ASSUME HasLast(server), NEW f
  PROVE  HasLast(Accepted(f)) /\ Accepted(f).last = f.seq
BY DEF Accepted, HasLast

LEMMA FollowStarts == PlayInit => FramesFollow
<1> SUFFICES ASSUME PlayInit PROVE FramesFollow
  OBVIOUS
<1>1. MaxSequence \in Nat \ {0}
  BY PlayAssumption
<1>2. sentFrames = <<>> /\ server.last = 0 /\ sequence = 0
  BY DEF PlayInit, NewPlayer
<1>3. sentFrames \in Seq([seq : 1 .. MaxSequence, look : Looks]) /\ Len(sentFrames) = 0
  BY <1>2, EmptySeq
<1>4. Numbered(sentFrames, 0, 0)
  BY <1>1, <1>2, <1>3 DEF Numbered
<1> QED
  BY <1>2, <1>4, PlayerHasLast DEF FramesFollow, PlayInit

LEMMA FollowStays == FramesFollow /\ [PlayNext]_playVars => FramesFollow'
<1> SUFFICES ASSUME FramesFollow, [PlayNext]_playVars PROVE FramesFollow'
  OBVIOUS
<1>1. ASSUME sentFrames' = sentFrames, sequence' = sequence, HasLast(server'),
             server'.last = server.last
      PROVE  FramesFollow'
  BY <1>1 DEF FramesFollow
<1>2. ASSUME NEW look \in Looks, SendGameplayInput(look) PROVE FramesFollow'
  <2>1. /\ sequence' = Following(sequence) /\ server' = server
        /\ sentFrames' = Append(sentFrames, [seq |-> Following(sequence), look |-> look])
    BY <1>2 DEF SendGameplayInput, NextSequence, Following
  <2> QED
    BY <2>1, SendingFollows DEF FramesFollow
<1>3. CASE Read
  <2>1. sentFrames # <<>> /\ sentFrames' = Tail(sentFrames) /\ sequence' = sequence
    BY <1>3 DEF Read, playPage
  <2>2. HasLast(server') /\ server'.last = Head(sentFrames).seq
    BY <1>3, ReadingIsLast DEF Read, FramesFollow
  <2>3. Numbered(Tail(sentFrames), Head(sentFrames).seq, sequence)
    BY <2>1, ReadingFollows DEF FramesFollow
  <2> QED
    BY <2>1, <2>2, <2>3 DEF FramesFollow
<1>4. ASSUME Rejoin PROVE FramesFollow'
  <2>1. sentFrames' = <<>> /\ server'.last = 0 /\ sequence' = sequence
    BY <1>4, PlayerHasLast DEF Rejoin, Reserved
  <2>2. MaxSequence \in Nat \ {0} /\ sequence \in 0 .. MaxSequence
    BY PlayAssumption DEF FramesFollow, Numbered
  <2>3. <<>> \in Seq([seq : 1 .. MaxSequence, look : Looks]) /\ Len(<<>>) = 0
    BY EmptySeq
  <2>4. Numbered(<<>>, 0, sequence)
    BY <2>2, <2>3 DEF Numbered
  <2>5. HasLast(server')
    BY <1>4, PlayerHasLast DEF Rejoin, Reserved
  <2> QED
    BY <2>1, <2>4, <2>5 DEF FramesFollow
<1>5. CASE Tick
  <2>1. sentFrames' = sentFrames /\ sequence' = sequence
    BY <1>5 DEF Tick, playPage
  <2> QED
    BY <1>1, <1>5, <2>1, TickReadsNothing DEF FramesFollow
<1>6. CASE ApplyAuthoritativeScene \/ UNCHANGED playVars
  <2>1. sentFrames' = sentFrames /\ sequence' = sequence /\ server' = server
    BY <1>6 DEF ApplyAuthoritativeScene, playVars, playPage
  <2> QED
    BY <2>1 DEF FramesFollow
<1> QED
  BY <1>2, <1>3, <1>4, <1>5, <1>6 DEF PlayNext, Refuse

\* The server ends a connection over the number of a frame only where the page starts its
\* numbering again, however many frames are under way and whatever was read before.
THEOREM NumbersAreTaken == PlaySpec => RefusedAtWrap
<1>1. FramesFollow /\ [PlayNext]_playVars => [Refuse => Head(sentFrames).seq = 1]_playVars
  <2> SUFFICES ASSUME FramesFollow, Refuse PROVE Head(sentFrames).seq = 1
    OBVIOUS
  <2>1. MaxSequence \in Nat \ {0}
    BY PlayAssumption
  <2>2. sentFrames # <<>> /\ Head(sentFrames).seq <= server.last
    BY DEF Refuse
  <2>3. Head(sentFrames) = sentFrames[1] /\ sentFrames[1].seq \in 1 .. MaxSequence
    <3>1. sentFrames \in Seq([seq : 1 .. MaxSequence, look : Looks])
      BY DEF FramesFollow, Numbered
    <3>2. Head(sentFrames) = sentFrames[1] /\ 1 \in 1 .. Len(sentFrames)
      BY <2>2, <3>1, EmptySeq
    <3>3. sentFrames[1] \in [seq : 1 .. MaxSequence, look : Looks]
      BY <3>1, <3>2, ElementOfSeq
    <3> QED
      BY <3>2, <3>3
  <2>4. /\ server.last \in 0 .. MaxSequence
        /\ sentFrames[1].seq = 1 \/ sentFrames[1].seq > server.last
    BY <2>2 DEF FramesFollow, Numbered
  <2> QED
    BY <2>1, <2>2, <2>3, <2>4
<1> QED
  BY <1>1, FollowStarts, FollowStays, PTL DEF PlaySpec, RefusedAtWrap

-----------------------------------------------------------------------------
(* What the page shows of its player, and what it still has of its frames. *)

\* The numbering has started again on this connection, and the server has yet to
\* read the frame it started with.
Wrapping ==
  \E k \in 1 .. Len(sentFrames) : sentFrames[k].seq = 1 /\ (k > 1 \/ server.last >= 1)

\* A frame after number "ack" is under way or was read.
Further(ack) ==
  server.last > ack \/ \E k \in 1 .. Len(sentFrames) : sentFrames[k].seq > ack

\* Frames under way follow what was read and each other, unless the numbers start again.
FramesKnown ==
  ~Wrapping => /\ server.last <= sequence
               /\ \A k \in 1 .. Len(sentFrames) : sentFrames[k].seq \in server.last + 1 .. sequence
               /\ \A j, k \in 1 .. Len(sentFrames) : j < k => sentFrames[j].seq < sentFrames[k].seq

\* Snapshots acknowledge what was read; the newest of them has the player as it is.
ScenesAgree ==
  /\ server.input = server.last /\ server.applied <= server.last
  /\ \A k \in 1 .. Len(sentScenes) : sentScenes[k].ack <= server.last
  /\ sentScenes # <<>> => sentScenes[Len(sentScenes)].yaw = server.yaw
  /\ ready => shown.ack <= server.last

\* The shown player is as a snapshot had it and turned further by the held frames, unless
\* frames were sent since.
ShownAgrees ==
  ready /\ shown.alive => \E yaw \in 0 .. Turn - 1 :
    /\ sentScenes = <<>> => yaw = server.yaw
    /\ shown.yaw = Turned(yaw * Fine, pending) \/ Further(shown.ack) \/ Wrapping

PlayAgrees == PlayTypeOK /\ FramesKnown /\ HeldAreNewest /\ ScenesAgree /\ ShownAgrees

LEMMA PlayNumbers ==
  /\ MaxSequence \in Nat \ {0} /\ MaxPending \in Nat \ {0} /\ MaxFlight \in Nat \ {0}
  /\ MaxLook \in Nat \ {0} /\ Fine \in Nat \ {0} /\ Turn \in Nat \ {0} /\ Looks \subseteq Int
BY PlayAssumption

\* A full turn is made of so many steps, and whole degrees are some of them.
LEMMA DegreesOfCircle ==
  /\ Turn * Fine \in Nat \ {0}
  /\ \A yaw \in 0 .. Turn - 1 : yaw * Fine \in Circle /\ (yaw * Fine) % (Turn * Fine) = yaw * Fine
  /\ \A sum \in Int : sum % (Turn * Fine) \in Circle
<1>1. Fine \in Nat \ {0} /\ Turn \in Nat \ {0}
  BY PlayNumbers
<1>2. Turn * Fine \in Nat \ {0}
  BY <1>1
<1>3. ASSUME NEW yaw \in 0 .. Turn - 1
      PROVE  yaw * Fine \in 0 .. Turn * Fine - 1
  <2>1. yaw * Fine >= 0 /\ yaw * Fine \in Int
    BY <1>1
  <2>2. (Turn - yaw) * Fine >= 1 * Fine
    BY <1>1
  <2>3. (Turn - yaw) * Fine = Turn * Fine - yaw * Fine
    BY <1>1
  <2> QED
    BY <1>1, <1>2, <2>1, <2>2, <2>3
<1> DEFINE N == Turn * Fine
<1>4. N \in Nat \ {0} /\ \A x \in 0 .. N - 1 : x % N = x
  <2> HIDE DEF N
  <2>1. N \in Nat \ {0}
    BY <1>2 DEF N
  <2> QED
    BY <2>1
<1>5. \A sum \in Int : sum % N \in 0 .. N - 1
  <2>1. N \in Nat \ {0}
    BY <1>4
  <2> HIDE DEF N
  <2> QED
    BY <2>1
<1> QED
  BY <1>2, <1>3, <1>4, <1>5 DEF Circle

LEMMA TurnedOnCircle ==
  ASSUME NEW frames \in Seq(Frames), NEW yaw \in 0 .. Turn - 1
  PROVE  /\ Turned(yaw * Fine, frames) \in Circle
         /\ frames = <<>> => Turned(yaw * Fine, frames) = yaw * Fine
<1> DEFINE looks == [k \in DOMAIN frames |-> frames[k].look]
<1>1. /\ Len(frames) \in Nat /\ DOMAIN frames = 1 .. Len(frames)
      /\ \A k \in 1 .. Len(frames) : frames[k] \in Frames
  BY LenProperties, ElementOfSeq
<1>2. \A k \in DOMAIN frames : frames[k].look \in Int
  BY <1>1, PlayNumbers DEF Frames
<1>3. looks \in [1 .. Len(frames) -> Int]
  BY <1>1, <1>2
<1>4. looks \in Seq(Int)
  BY <1>1, <1>3, SeqOfElements
<1>5. DOMAIN looks = 1 .. Len(frames) /\ Len(looks) \in Nat /\ DOMAIN looks = 1 .. Len(looks)
  BY <1>1, <1>4, LenProperties
<1>6. frames = <<>> => Len(looks) = 0
  BY <1>1, <1>5, EmptySeq
<1> HIDE DEF looks
<1>7. Summed(looks) \in Int /\ (frames = <<>> => Summed(looks) = 0)
  BY <1>4, <1>6, SummedIsWhole
<1>8. yaw * Fine \in Int
  BY PlayNumbers
<1>9. Turned(yaw * Fine, frames) = (yaw * Fine + Summed(looks)) % (Turn * Fine)
  BY Zenon DEF Turned, looks
<1>10. yaw * Fine + Summed(looks) \in Int /\ (frames = <<>> => yaw * Fine + Summed(looks) = yaw * Fine)
  BY <1>7, <1>8
<1> QED
  BY <1>9, <1>10, DegreesOfCircle

\* A snapshot that acknowledges nothing leaves all that is pending.
LEMMA AllAreLeft ==
  ASSUME NEW frames \in Seq(Frames)
  PROVE  /\ Unacked(frames, 0) \in Seq(Frames) /\ Len(Unacked(frames, 0)) = Len(frames)
         /\ \A k \in 1 .. Len(frames) : Unacked(frames, 0)[k] = frames[k]
<1> DEFINE S == {f \in Frames : f.seq > 0}
<1>1. Unacked(frames, 0) = Only(frames, S)
  BY DEF Unacked
<1>2. \A k \in 1 .. Len(frames) : frames[k] \in S
  <2>1. \A f \in Frames : f.seq > 0
    BY PlayNumbers DEF Frames
  <2>2. \A k \in 1 .. Len(frames) : frames[k] \in Frames
    BY ElementOfSeq
  <2> QED
    BY <2>1, <2>2
<1> HIDE DEF S
<1> QED
  BY <1>1, <1>2, OnlyLeavesAll

\* The newest of the pending frames are kept.
LEMMA KeptAreNewest ==
  ASSUME NEW frames \in Seq(Frames), Len(frames) <= MaxPending + 1
  PROVE  /\ Kept(frames) \in Seq(Frames) /\ Len(Kept(frames)) <= MaxPending
         /\ Len(Kept(frames)) \in Nat
         /\ \A k \in 1 .. Len(Kept(frames)) :
              /\ k + (Len(frames) - Len(Kept(frames))) \in 1 .. Len(frames)
              /\ Kept(frames)[k] = frames[k + (Len(frames) - Len(Kept(frames)))]
<1>1. Len(frames) \in Nat /\ MaxPending \in Nat \ {0}
  BY LenProperties, PlayNumbers
<1>2. CASE Len(frames) > MaxPending
  <2>1. Kept(frames) = Tail(frames) /\ frames # <<>>
    BY <1>1, <1>2, EmptySeq DEF Kept
  <2>2. /\ Tail(frames) \in Seq(Frames) /\ Len(Tail(frames)) = Len(frames) - 1
        /\ \A k \in 1 .. Len(Tail(frames)) : Tail(frames)[k] = frames[k + 1]
    BY <2>1, HeadTailProperties
  <2>3. \A k \in 1 .. Len(Tail(frames)) : k + 1 \in 1 .. Len(frames)
    BY <1>1, <2>2
  <2>4. Len(frames) - (Len(frames) - 1) = 1 /\ Len(frames) - 1 \in Nat /\ Len(frames) - 1 <= MaxPending
    BY <1>1, <1>2
  <2> QED
    BY <2>1, <2>2, <2>3, <2>4
<1>3. CASE ~ (Len(frames) > MaxPending)
  <2>1. Kept(frames) = frames
    BY <1>3 DEF Kept
  <2>2. Len(frames) - Len(frames) = 0 /\ \A k \in 1 .. Len(frames) : k + 0 = k
    BY <1>1
  <2> QED
    BY <1>1, <1>3, <2>1, <2>2
<1> QED
  BY <1>2, <1>3

LEMMA AgreeStarts == PlayInit => PlayAgrees
<1> SUFFICES ASSUME PlayInit PROVE PlayAgrees
  OBVIOUS
<1>1. sentFrames = <<>> /\ sentScenes = <<>> /\ pending = <<>> /\ Len(<<>>) = 0 /\ ready = FALSE
      /\ server = NewPlayer /\ sequence = 0
  BY DEF PlayInit
<1>2. /\ <<>> \in Seq(Frames) /\ <<>> \in Seq(PlayerSnapshots)
  BY EmptySeq
<1>3. server \in Player /\ shown \in [yaw : Circle, alive : BOOLEAN, ack : 0 .. MaxSequence]
  <2>1. 0 \in Circle /\ 0 \in 0 .. MaxSequence /\ 0 \in -MaxLook .. MaxLook /\ 0 \in 0 .. Turn - 1
    BY DegreesOfCircle, PlayNumbers DEF Circle
  <2> QED
    BY <1>1, <2>1 DEF PlayInit, NewPlayer, Player
<1>4. PlayTypeOK
  <2>1. sequence \in 0 .. MaxSequence /\ Len(<<>>) <= MaxPending /\ Len(<<>>) <= MaxFlight
    BY <1>1, PlayNumbers
  <2>2. {ready, active} \subseteq BOOLEAN
    BY <1>1, Zenon DEF PlayInit
  <2> QED
    BY <1>1, <1>2, <1>3, <2>1, <2>2, Zenon DEF PlayTypeOK
<1>5. FramesKnown /\ HeldAreNewest /\ ScenesAgree /\ ShownAgrees
  BY <1>1 DEF FramesKnown, HeldAreNewest, ScenesAgree, ShownAgrees, NewPlayer
<1> QED
  BY <1>4, <1>5 DEF PlayAgrees

\* A new connection knows nothing.
LEMMA RejoinAgrees == ASSUME PlayAgrees, Rejoin PROVE PlayAgrees'
<1>1. sentFrames' = <<>> /\ sentScenes' = <<>> /\ pending' = <<>> /\ Len(<<>>) = 0 /\ ready' = FALSE
      /\ server' = NewPlayer /\ sequence' = sequence /\ shown' = shown /\ active' = active
  BY DEF Rejoin, Reserved
<1>2. /\ <<>> \in Seq(Frames) /\ <<>> \in Seq(PlayerSnapshots)
  BY EmptySeq
<1>3. server' \in Player
  <2>1. 0 \in 0 .. MaxSequence /\ 0 \in -MaxLook .. MaxLook /\ 0 \in 0 .. Turn - 1
    BY PlayNumbers
  <2> QED
    BY <1>1, <2>1 DEF NewPlayer, Player
<1>4. PlayTypeOK'
  <2>1. PlayTypeOK
    BY DEF PlayAgrees
  <2>2. Len(<<>>) <= MaxPending /\ Len(<<>>) <= MaxFlight
    BY <1>1, PlayNumbers
  <2>3. {ready', active'} \subseteq BOOLEAN
    BY <1>1, <2>1, Zenon DEF PlayTypeOK
  <2> QED
    BY <1>1, <1>2, <1>3, <2>1, <2>2, <2>3, Zenon DEF PlayTypeOK
<1>5. sequence \in 0 .. MaxSequence
  BY DEF PlayAgrees, PlayTypeOK
<1>6. FramesKnown' /\ HeldAreNewest' /\ ScenesAgree' /\ ShownAgrees'
  BY <1>1, <1>5 DEF FramesKnown, HeldAreNewest, ScenesAgree, ShownAgrees, NewPlayer
<1> QED
  BY <1>4, <1>6 DEF PlayAgrees

\* What the conjuncts of the types are, for the steps that change some of them.
LEMMA PlayTyped ==
  ASSUME PlayAgrees
  PROVE  /\ sequence \in 0 .. MaxSequence /\ sequence \in Int
         /\ pending \in Seq(Frames) /\ Len(pending) <= MaxPending /\ Len(pending) \in Nat
         /\ \A k \in 1 .. Len(pending) : pending[k] \in Frames
         /\ shown \in [yaw : Circle, alive : BOOLEAN, ack : 0 .. MaxSequence] /\ shown.ack \in Int
         /\ sentFrames \in Seq(Frames) /\ Len(sentFrames) <= MaxFlight /\ Len(sentFrames) \in Nat
         /\ \A k \in 1 .. Len(sentFrames) : sentFrames[k] \in Frames
         /\ sentScenes \in Seq(PlayerSnapshots) /\ Len(sentScenes) <= MaxFlight /\ Len(sentScenes) \in Nat
         /\ \A k \in 1 .. Len(sentScenes) : sentScenes[k] \in PlayerSnapshots
         /\ server \in Player /\ server.last \in 0 .. MaxSequence /\ server.last \in Int
         /\ \A f \in Frames : f.seq \in 1 .. MaxSequence /\ f.seq \in Int /\ f.look \in Int
<1>1. /\ sequence \in 0 .. MaxSequence
      /\ pending \in Seq(Frames) /\ Len(pending) <= MaxPending
      /\ shown \in [yaw : Circle, alive : BOOLEAN, ack : 0 .. MaxSequence]
      /\ sentFrames \in Seq(Frames) /\ Len(sentFrames) <= MaxFlight
      /\ sentScenes \in Seq(PlayerSnapshots) /\ Len(sentScenes) <= MaxFlight
      /\ server \in Player
  BY Zenon DEF PlayAgrees, PlayTypeOK
<1>2. Len(pending) \in Nat /\ Len(sentFrames) \in Nat /\ Len(sentScenes) \in Nat
  BY <1>1, LenProperties
<1>3. /\ \A k \in 1 .. Len(pending) : pending[k] \in Frames
      /\ \A k \in 1 .. Len(sentFrames) : sentFrames[k] \in Frames
      /\ \A k \in 1 .. Len(sentScenes) : sentScenes[k] \in PlayerSnapshots
  BY <1>1, ElementOfSeq
<1>4. sequence \in Int /\ shown.ack \in Int /\ server.last \in 0 .. MaxSequence
  BY <1>1, PlayNumbers DEF Player
<1>5. server.last \in Int
  BY <1>4, PlayNumbers
<1>6. \A f \in Frames : f.seq \in 1 .. MaxSequence /\ f.seq \in Int /\ f.look \in Int
  <2>1. \A f \in Frames : f.seq \in 1 .. MaxSequence /\ f.look \in Looks
    BY DEF Frames
  <2>2. \A s \in 1 .. MaxSequence : s \in Int
    BY PlayNumbers
  <2> QED
    BY <2>1, <2>2, PlayNumbers
<1> QED
  BY <1>1, <1>2, <1>3, <1>4, <1>5, <1>6, Zenon

LEMMA SendAgrees ==
  ASSUME PlayAgrees, NEW look \in Looks, SendGameplayInput(look) PROVE PlayAgrees'
<1> DEFINE f == [seq |-> NextSequence, look |-> look]
           L == Len(sentFrames)
           q == Append(StillPending, f)
<1>1. /\ ready /\ L < MaxFlight /\ sequence' = f.seq /\ sentFrames' = Append(sentFrames, f)
      /\ pending' = Kept(q)
      /\ shown' = shown /\ ready' = ready /\ sentScenes' = sentScenes /\ server' = server
      /\ active' = active
  BY DEF SendGameplayInput
<1>2. /\ sequence \in 0 .. MaxSequence /\ sequence \in Int
      /\ pending \in Seq(Frames) /\ Len(pending) <= MaxPending /\ Len(pending) \in Nat
      /\ sentFrames \in Seq(Frames) /\ L \in Nat
      /\ \A k \in 1 .. Len(sentFrames) : sentFrames[k] \in Frames
      /\ server.last \in 0 .. MaxSequence /\ server.last \in Int /\ shown.ack \in Int
      /\ \A g \in Frames : g.seq \in 1 .. MaxSequence /\ g.seq \in Int /\ g.look \in Int
  BY PlayTyped
<1>3. f \in Frames /\ f.seq = NextSequence
  BY <1>2, PlayNumbers DEF Frames, NextSequence
<1> HIDE DEF f
<1>4. /\ sentFrames' \in Seq(Frames) /\ Len(sentFrames') = L + 1 /\ sentFrames'[L + 1] = f
      /\ \A k \in 1 .. L : sentFrames'[k] = sentFrames[k]
  BY <1>1, <1>2, <1>3, AppendProperties
<1>5. StillPending \in Seq(Frames) /\ Len(StillPending) <= MaxPending /\ Len(StillPending) \in Nat
      /\ \A k \in 1 .. Len(StillPending) : sequence # MaxSequence /\ StillPending = pending
  <2>1. CASE sequence = MaxSequence
    <3>1. StillPending = <<>>
      BY <2>1 DEF StillPending
    <3>2. Len(<<>>) = 0 /\ <<>> \in Seq(Frames)
      BY EmptySeq
    <3> QED
      BY <3>1, <3>2, PlayNumbers
  <2>2. CASE sequence # MaxSequence
    BY <1>2, <2>2 DEF StillPending
  <2> QED
    BY <2>1, <2>2
<1>6. /\ q \in Seq(Frames) /\ Len(q) = Len(StillPending) + 1 /\ q[Len(StillPending) + 1] = f
      /\ \A k \in 1 .. Len(StillPending) : q[k] = StillPending[k]
  BY <1>3, <1>5, AppendProperties
<1> HIDE DEF q
<1>7. Len(q) \in Nat /\ Len(q) <= MaxPending + 1
  BY <1>5, <1>6, PlayNumbers
<1>8. /\ pending' \in Seq(Frames) /\ Len(pending') <= MaxPending /\ Len(pending') \in Nat
      /\ \A k \in 1 .. Len(pending') : /\ k + (Len(q) - Len(pending')) \in 1 .. Len(q)
                                       /\ pending'[k] = q[k + (Len(q) - Len(pending'))]
  BY <1>1, <1>6, <1>7, KeptAreNewest
<1>9. HeldAreNewest'
  <2>1. ASSUME NEW k \in 1 .. Len(q) PROVE q[k].seq = f.seq - Len(q) + k
    <3>1. CASE k = Len(StillPending) + 1
      BY <1>2, <1>3, <1>5, <1>6, <3>1
    <3>2. CASE k # Len(StillPending) + 1
      <4>1. k \in 1 .. Len(StillPending)
        BY <1>5, <1>6, <3>2
      <4>2. sequence # MaxSequence /\ StillPending = pending /\ q[k] = pending[k]
        BY <1>5, <1>6, <4>1
      <4>3. pending[k].seq = sequence - Len(pending) + k
        BY <4>1, <4>2 DEF PlayAgrees, HeldAreNewest
      <4>4. f.seq = sequence + 1
        BY <1>3, <4>2 DEF NextSequence
      <4> QED
        BY <1>2, <1>6, <4>2, <4>3, <4>4
    <3> QED
      BY <3>1, <3>2
  <2>2. ASSUME NEW k \in 1 .. Len(pending') PROVE pending'[k].seq = sequence' - Len(pending') + k
    <3> DEFINE j == k + (Len(q) - Len(pending'))
    <3>1. j \in 1 .. Len(q) /\ pending'[k] = q[j] /\ j = k + (Len(q) - Len(pending'))
      BY <1>8
    <3> HIDE DEF j
    <3>2. pending'[k].seq = f.seq - Len(q) + j
      BY <2>1, <3>1
    <3>3. f.seq \in Int
      BY <1>2, <1>3
    <3> QED
      BY <1>1, <1>7, <1>8, <3>1, <3>2, <3>3
  <2> QED
    BY <2>2 DEF HeldAreNewest
<1>10. \A k \in 1 .. L : k \in 1 .. L + 1
  BY <1>2
<1>11. \A k \in 1 .. L + 1 : k = L + 1 \/ k \in 1 .. L
  BY <1>2
<1>12. L + 1 \in 1 .. L + 1
  BY <1>2
<1>13. PlayTypeOK'
  <2>1. PlayTypeOK
    BY DEF PlayAgrees
  <2>2. sequence' \in 0 .. MaxSequence /\ L + 1 <= MaxFlight
    <3>1. f.seq \in 1 .. MaxSequence
      BY <1>2, <1>3
    <3> QED
      BY <1>1, <1>2, <3>1, PlayNumbers
  <2>3. {ready', active'} \subseteq BOOLEAN
    BY <1>1, <2>1, Zenon DEF PlayTypeOK
  <2> QED
    BY <1>1, <1>4, <1>8, <2>1, <2>2, <2>3, Zenon DEF PlayTypeOK
<1>15. Wrapping => Wrapping'
  BY <1>1, <1>4, <1>10 DEF Wrapping
<1>16. shown.ack <= server.last
  BY <1>1 DEF PlayAgrees, ScenesAgree
<1>17. ASSUME ~Wrapping'
       PROVE  /\ server.last <= sequence'
              /\ \A k \in 1 .. L + 1 : sentFrames'[k].seq \in server.last + 1 .. sequence'
              /\ \A j, k \in 1 .. L + 1 : j < k => sentFrames'[j].seq < sentFrames'[k].seq
              /\ sentFrames'[L + 1].seq > shown.ack
  <2>1. /\ server.last <= sequence
        /\ \A k \in 1 .. L : sentFrames[k].seq \in server.last + 1 .. sequence
        /\ \A j, k \in 1 .. L : j < k => sentFrames[j].seq < sentFrames[k].seq
    BY <1>15, <1>17 DEF PlayAgrees, FramesKnown
  <2>2. CASE sequence = MaxSequence
    <3>1. f.seq = 1
      BY <1>3, <2>2 DEF NextSequence
    <3>2. ~ (L + 1 > 1) /\ ~ (server.last >= 1)
      BY <1>1, <1>4, <1>12, <1>17, <3>1 DEF Wrapping
    <3>3. L = 0 /\ server.last = 0
      BY <1>2, <3>2
    <3>4. /\ \A k \in 1 .. L + 1 : sentFrames'[k] = f
          /\ \A j, k \in 1 .. L + 1 : ~ (j < k)
      BY <1>4, <3>3
    <3> QED
      BY <1>1, <1>2, <1>4, <1>16, <3>1, <3>3, <3>4
  <2>3. CASE sequence # MaxSequence
    <3>1. f.seq = sequence + 1
      BY <1>3, <2>3 DEF NextSequence
    <3>2. server.last <= sequence'
      BY <1>1, <1>2, <2>1, <3>1
    <3>3. ASSUME NEW k \in 1 .. L + 1 PROVE sentFrames'[k].seq \in server.last + 1 .. sequence'
      <4>1. CASE k = L + 1
        BY <1>1, <1>2, <1>4, <2>1, <3>1, <4>1
      <4>2. CASE k \in 1 .. L
        BY <1>1, <1>2, <1>4, <2>1, <3>1, <4>2
      <4> QED
        BY <1>11, <4>1, <4>2
    <3>4. sentFrames'[L + 1].seq > shown.ack
      BY <1>2, <1>4, <1>16, <2>1, <3>1
    <3>5. ASSUME NEW j \in 1 .. L + 1, NEW k \in 1 .. L + 1, j < k
          PROVE  sentFrames'[j].seq < sentFrames'[k].seq
      <4>1. j \in 1 .. L
        BY <1>2, <3>5
      <4>2. CASE k = L + 1
        <5>1. sentFrames[j].seq \in server.last + 1 .. sequence
          BY <2>1, <4>1
        <5>2. sentFrames[j].seq < f.seq
          BY <1>2, <3>1, <5>1
        <5> QED
          BY <1>4, <4>1, <4>2, <5>2
      <4>3. CASE k \in 1 .. L
        BY <1>4, <2>1, <3>5, <4>1, <4>3
      <4> QED
        BY <1>11, <4>2, <4>3
    <3> QED
      BY <3>2, <3>3, <3>4, <3>5
  <2> QED
    BY <2>2, <2>3
<1>18. FramesKnown'
  BY <1>1, <1>4, <1>17 DEF FramesKnown
<1>19. ScenesAgree'
  BY <1>1 DEF PlayAgrees, ScenesAgree
<1>20. Further(shown.ack)' \/ Wrapping'
  BY <1>1, <1>4, <1>12, <1>17 DEF Further
<1>21. ShownAgrees'
  BY <1>1, <1>20 DEF PlayAgrees, ShownAgrees
<1> QED
  BY <1>9, <1>13, <1>18, <1>19, <1>21 DEF PlayAgrees

LEMMA ReadAgrees == ASSUME PlayAgrees, Read PROVE PlayAgrees'
<1> DEFINE f == Head(sentFrames)
           L == Len(sentFrames)
<1>1. /\ sentFrames # <<>> /\ f.seq > server.last /\ sentFrames' = Tail(sentFrames)
      /\ server' = Accepted(f)
      /\ sequence' = sequence /\ pending' = pending /\ shown' = shown /\ ready' = ready
      /\ sentScenes' = sentScenes /\ active' = active
  BY DEF Read, playPage
<1>2. /\ sequence \in Int /\ sentFrames \in Seq(Frames) /\ L \in Nat /\ L <= MaxFlight
      /\ \A k \in 1 .. L : sentFrames[k] \in Frames
      /\ server \in Player /\ server.last \in 0 .. MaxSequence /\ server.last \in Int /\ shown.ack \in Int
      /\ \A k \in 1 .. Len(pending) : pending[k] \in Frames
      /\ \A k \in 1 .. Len(sentScenes) : sentScenes[k] \in PlayerSnapshots
      /\ \A g \in Frames : g.seq \in 1 .. MaxSequence /\ g.seq \in Int /\ g.look \in Int
  BY PlayTyped
<1>3. /\ L >= 1 /\ f = sentFrames[1] /\ f \in Frames /\ sentFrames' \in Seq(Frames) /\ Len(sentFrames') = L - 1
      /\ \A k \in 1 .. L - 1 : sentFrames'[k] = sentFrames[k + 1] /\ k + 1 \in 1 .. L
  <2>1. L \in Nat \ {0} /\ 1 \in 1 .. L
    BY <1>1, <1>2, EmptySeq
  <2>2. /\ f = sentFrames[1] /\ sentFrames' \in Seq(Frames) /\ Len(sentFrames') = L - 1
        /\ \A k \in 1 .. L - 1 : sentFrames'[k] = sentFrames[k + 1]
    BY <1>1, <1>2, HeadTailProperties
  <2> QED
    BY <1>2, <2>1, <2>2
<1> HIDE DEF f
<1>4. /\ server' \in Player /\ server'.last = f.seq /\ server'.input = f.seq
      /\ server'.applied \in {server.applied, f.seq} /\ server'.yaw = server.yaw
  <2>1. f.seq \in 0 .. MaxSequence /\ f.look \in Int /\ server.look \in -MaxLook .. MaxLook
    BY <1>2, <1>3, PlayNumbers, SMTT(60) DEF Player
  <2>2. Clamped(server.look + f.look) \in -MaxLook .. MaxLook /\ 0 \in -MaxLook .. MaxLook
    BY <2>1, PlayNumbers DEF Clamped
  <2>3. CASE active
    <3>1. server' = [server EXCEPT !.last = f.seq, !.input = f.seq, !.look = Clamped(server.look + f.look)]
      BY <1>1, <2>3 DEF Accepted
    <3> QED
      BY <1>2, <2>1, <2>2, <3>1 DEF Player
  <2>4. CASE ~active
    <3>1. server' = [server EXCEPT !.last = f.seq, !.input = f.seq, !.applied = f.seq, !.look = 0]
      BY <1>1, <2>4 DEF Accepted
    <3> QED
      BY <1>2, <2>1, <2>2, <3>1 DEF Player
  <2> QED
    BY <2>3, <2>4
<1>5. \A k \in 1 .. L : k = 1 \/ (k - 1 \in 1 .. L - 1 /\ (k - 1) + 1 = k)
  BY <1>2
<1>6. f.seq \in 1 .. MaxSequence /\ f.seq \in Int /\ server.last < f.seq
  BY <1>1, <1>2, <1>3
<1>7. \A s \in Int : s <= server.last => s <= server'.last
  BY <1>2, <1>4, <1>6
<1>8. Wrapping => Wrapping'
  <2> SUFFICES ASSUME NEW k \in 1 .. L, sentFrames[k].seq = 1, k > 1 \/ server.last >= 1
               PROVE  \E j \in 1 .. L - 1 : sentFrames'[j].seq = 1 /\ server'.last >= 1
    BY <1>3 DEF Wrapping
  <2>1. k # 1
    BY <1>2, <1>3, <1>6
  <2>2. k - 1 \in 1 .. L - 1 /\ sentFrames'[k - 1] = sentFrames[k]
    BY <1>3, <1>5, <2>1
  <2>3. server'.last >= 1
    BY <1>4, <1>6
  <2> QED
    BY <2>2, <2>3
<1>9. ASSUME NEW ack \in Int PROVE Further(ack) => Further(ack)'
  <2>1. CASE server.last > ack
    <3>1. server'.last > ack
      BY <1>2, <1>4, <1>6, <2>1
    <3> QED
      BY <3>1 DEF Further
  <2>2. CASE \E k \in 1 .. L : sentFrames[k].seq > ack
    <3>1. PICK k \in 1 .. L : sentFrames[k].seq > ack
      BY <2>2
    <3>2. CASE k = 1
      BY <1>3, <1>4, <3>1, <3>2 DEF Further
    <3>3. CASE k # 1
      <4>1. k - 1 \in 1 .. L - 1 /\ sentFrames'[k - 1] = sentFrames[k]
        BY <1>3, <1>5, <3>3
      <4> QED
        BY <1>3, <3>1, <4>1 DEF Further
    <3> QED
      BY <3>2, <3>3
  <2> QED
    BY <2>1, <2>2 DEF Further
<1>10. HeldAreNewest'
  BY <1>1 DEF PlayAgrees, HeldAreNewest
<1>11. ASSUME ~Wrapping'
       PROVE  /\ server'.last <= sequence
              /\ \A k \in 1 .. L - 1 : sentFrames'[k].seq \in server'.last + 1 .. sequence
              /\ \A j, k \in 1 .. L - 1 : j < k => sentFrames'[j].seq < sentFrames'[k].seq
  <2>1. /\ \A k \in 1 .. L : sentFrames[k].seq \in server.last + 1 .. sequence
        /\ \A j, k \in 1 .. L : j < k => sentFrames[j].seq < sentFrames[k].seq
    BY <1>8, <1>11 DEF PlayAgrees, FramesKnown
  <2>2. 1 \in 1 .. L
    BY <1>2, <1>3
  <2>3. server'.last <= sequence
    BY <1>2, <1>3, <1>4, <2>1, <2>2
  <2>4. ASSUME NEW k \in 1 .. L - 1 PROVE sentFrames'[k].seq \in server'.last + 1 .. sequence
    <3>0. 1 < k + 1
      OBVIOUS
    <3>1. k + 1 \in 1 .. L /\ 1 < k + 1 /\ sentFrames'[k] = sentFrames[k + 1]
      BY <1>3, <3>0, Zenon
    <3>2. sentFrames[1].seq < sentFrames[k + 1].seq /\ sentFrames[k + 1].seq \in server.last + 1 .. sequence
      BY <2>1, <2>2, <3>1
    <3>3. sentFrames[k + 1].seq \in Int /\ sentFrames[k + 1].seq <= sequence
      BY <1>2, <3>2
    <3> QED
      BY <1>2, <1>3, <1>4, <1>6, <3>1, <3>2, <3>3
  <2>5. ASSUME NEW j \in 1 .. L - 1, NEW k \in 1 .. L - 1, j < k
        PROVE  sentFrames'[j].seq < sentFrames'[k].seq
    <3>1. /\ k + 1 \in 1 .. L /\ j + 1 \in 1 .. L /\ j + 1 < k + 1
          /\ sentFrames'[k] = sentFrames[k + 1] /\ sentFrames'[j] = sentFrames[j + 1]
      BY <1>2, <1>3, <2>5
    <3> QED
      BY <2>1, <3>1
  <2> QED
    BY <2>1, <2>3, <2>4, <2>5
<1>12. FramesKnown'
  BY <1>1, <1>3, <1>11 DEF FramesKnown
<1>13. ScenesAgree'
  <2>1. server.applied \in Int
    BY <1>2, PlayNumbers DEF Player
  <2>2. server'.applied <= server'.last
    BY <1>2, <1>4, <1>6, <2>1 DEF PlayAgrees, ScenesAgree
  <2>3. \A k \in 1 .. Len(sentScenes) : sentScenes[k].ack \in Int
    BY <1>2, PlayNumbers DEF PlayerSnapshots
  <2>4. \A k \in 1 .. Len(sentScenes) : sentScenes[k].ack <= server'.last
    BY <1>7, <2>3 DEF PlayAgrees, ScenesAgree
  <2>5. ready => shown.ack <= server'.last
    BY <1>2, <1>7 DEF PlayAgrees, ScenesAgree
  <2>6. sentScenes # <<>> => sentScenes[Len(sentScenes)].yaw = server'.yaw
    BY <1>4 DEF PlayAgrees, ScenesAgree
  <2> QED
    BY <1>1, <1>4, <2>2, <2>4, <2>5, <2>6, Zenon DEF ScenesAgree
<1>14. ShownAgrees'
  <2>1. Further(shown.ack) => Further(shown.ack)'
    BY <1>1, <1>2, <1>9 DEF Further
  <2> QED
    BY <1>1, <1>4, <1>8, <2>1 DEF PlayAgrees, ShownAgrees
<1>15. PlayTypeOK'
  <2>1. PlayTypeOK
    BY DEF PlayAgrees
  <2>2. L - 1 <= MaxFlight
    BY <1>2, PlayNumbers
  <2>3. {ready', active'} \subseteq BOOLEAN
    BY <1>1, <2>1, Zenon DEF PlayTypeOK
  <2> QED
    BY <1>1, <1>3, <1>4, <2>1, <2>2, <2>3, Zenon DEF PlayTypeOK
<1> QED
  BY <1>10, <1>12, <1>13, <1>14, <1>15 DEF PlayAgrees

\* The frames that are pending turn the player of the snapshot that arrives.
LEMMA ArriveAgrees == ASSUME PlayAgrees, ApplyAuthoritativeScene PROVE PlayAgrees'
<1> DEFINE m == Head(sentScenes)
           left == Unacked(pending, 0)
           S == Len(sentScenes)
<1>1. /\ sentScenes # <<>> /\ sentScenes' = Tail(sentScenes) /\ ready' = TRUE
      /\ shown' = [yaw |-> DisplayedYaw(m, left), alive |-> m.alive, ack |-> m.ack]
      /\ pending' = AfterDeath(left, shown.alive /\ ~m.alive)
      /\ sequence' = sequence /\ sentFrames' = sentFrames /\ server' = server /\ active' = active
  BY DEF ApplyAuthoritativeScene, LastInputSequence
<1>2. /\ pending \in Seq(Frames) /\ Len(pending) <= MaxPending /\ Len(pending) \in Nat
      /\ \A k \in 1 .. Len(pending) : pending[k] \in Frames
      /\ sentScenes \in Seq(PlayerSnapshots) /\ S \in Nat /\ S <= MaxFlight
      /\ \A k \in 1 .. S : sentScenes[k] \in PlayerSnapshots
      /\ \A k \in 1 .. Len(sentFrames) : sentFrames[k] \in Frames
      /\ \A g \in Frames : g.seq \in 1 .. MaxSequence /\ g.seq \in Int
      /\ server.last \in Int
  BY PlayTyped
<1>3. /\ S >= 1 /\ m = sentScenes[1] /\ m \in PlayerSnapshots
      /\ sentScenes' \in Seq(PlayerSnapshots) /\ Len(sentScenes') = S - 1
      /\ \A k \in 1 .. S - 1 : sentScenes'[k] = sentScenes[k + 1] /\ k + 1 \in 1 .. S
  <2>1. S \in Nat \ {0} /\ 1 \in 1 .. S
    BY <1>1, <1>2, EmptySeq
  <2>2. /\ m = sentScenes[1] /\ sentScenes' \in Seq(PlayerSnapshots) /\ Len(sentScenes') = S - 1
        /\ \A k \in 1 .. S - 1 : sentScenes'[k] = sentScenes[k + 1]
    BY <1>1, <1>2, HeadTailProperties
  <2> QED
    BY <1>2, <2>1, <2>2
<1>4. m.yaw \in 0 .. Turn - 1 /\ m.alive \in BOOLEAN /\ m.ack \in 0 .. MaxSequence
  BY <1>3 DEF PlayerSnapshots
<1>5. m.ack <= server.last
  BY <1>2, <1>3 DEF PlayAgrees, ScenesAgree
<1>6. m.ack \in Int
  BY <1>4, PlayNumbers
<1> HIDE DEF m
<1>7. /\ left \in Seq(Frames) /\ Len(left) = Len(pending)
      /\ \A k \in 1 .. Len(pending) : left[k] = pending[k]
  BY <1>2, AllAreLeft
<1>8. Turned(m.yaw * Fine, left) \in Circle
  BY <1>4, <1>7, TurnedOnCircle
<1> HIDE DEF left
<1>9. shown' = [yaw |-> Turned(m.yaw * Fine, left), alive |-> m.alive, ack |-> m.ack]
  BY <1>1, Zenon DEF DisplayedYaw
<1>10. shown'.yaw = Turned(m.yaw * Fine, left) /\ shown'.alive = m.alive /\ shown'.ack = m.ack
  BY <1>9
<1>11. pending' \in {left, <<>>}
  BY <1>1, Zenon DEF AfterDeath
<1>12. /\ pending' \in Seq(Frames) /\ Len(pending') <= MaxPending
       /\ \A k \in 1 .. Len(pending') : pending'[k].seq = sequence - Len(pending') + k
  <2>1. CASE pending' = left
    BY <1>2, <1>7, <2>1 DEF PlayAgrees, HeldAreNewest
  <2>2. CASE pending' = <<>>
    <3>1. <<>> \in Seq(Frames) /\ Len(<<>>) = 0
      BY EmptySeq
    <3> QED
      BY <2>2, <3>1, PlayNumbers
  <2> QED
    BY <1>11, <2>1, <2>2
<1>13. PlayTypeOK'
  <2>1. PlayTypeOK
    BY DEF PlayAgrees
  <2>2. S - 1 <= MaxFlight
    BY <1>2, PlayNumbers
  <2>3. {ready', active'} \subseteq BOOLEAN
    BY <1>1, <2>1, Zenon DEF PlayTypeOK
  <2>4. shown' \in [yaw : Circle, alive : BOOLEAN, ack : 0 .. MaxSequence]
    BY <1>4, <1>8, <1>9, Zenon
  <2> QED
    BY <1>1, <1>3, <1>12, <2>1, <2>2, <2>3, <2>4, Zenon DEF PlayTypeOK
<1>14. FramesKnown' /\ HeldAreNewest' /\ Wrapping' = Wrapping
  BY <1>1, <1>12 DEF PlayAgrees, FramesKnown, HeldAreNewest, Wrapping
<1>15. ScenesAgree'
  <2>1. ASSUME NEW k \in 1 .. S - 1 PROVE sentScenes'[k].ack <= server.last
    BY <1>3 DEF PlayAgrees, ScenesAgree
  <2>2. ASSUME sentScenes' # <<>> PROVE sentScenes'[S - 1].yaw = server.yaw
    <3>1. S - 1 \in 1 .. S - 1
      <4>1. S - 1 # 0
        BY <1>3, <2>2, EmptySeq
      <4> QED
        BY <1>2, <1>3, <4>1
    <3>2. sentScenes'[S - 1] = sentScenes[S]
      <4>1. (S - 1) + 1 = S
        BY <1>2
      <4> QED
        BY <1>3, <3>1, <4>1
    <3> QED
      BY <1>1, <3>2 DEF PlayAgrees, ScenesAgree
  <2> QED
    BY <1>1, <1>3, <1>5, <1>10, <2>1, <2>2 DEF PlayAgrees, ScenesAgree
<1>16. ShownAgrees'
  <2>1. sentScenes' = <<>> => m.yaw = server.yaw
    <3> SUFFICES ASSUME sentScenes' = <<>> PROVE m.yaw = server.yaw
      OBVIOUS
    <3>1. S - 1 = 0
      BY <1>3, EmptySeq
    <3>2. S = 1
      BY <1>2, <3>1
    <3> QED
      BY <1>1, <1>3, <3>2 DEF PlayAgrees, ScenesAgree
  <2>2. ASSUME shown'.alive PROVE pending' = left
    <3>1. ~ (shown.alive /\ ~m.alive)
      BY <1>10, <2>2, Zenon
    <3> QED
      BY <1>1, <3>1 DEF AfterDeath
  <2>3. ASSUME shown'.alive PROVE shown'.yaw = Turned(m.yaw * Fine, pending')
    BY <1>10, <2>2, <2>3, Zenon
  <2> QED
    BY <1>1, <1>4, <2>1, <2>3 DEF ShownAgrees
<1> QED
  BY <1>13, <1>14, <1>15, <1>16 DEF PlayAgrees

\* A tick applies what was read and sends what became of it.
LEMMA TickIsScene ==
  ASSUME PlayAgrees, Tick
  PROVE  \E p \in Player, now \in BOOLEAN :
           /\ p.last = server.last /\ p.input = server.input /\ p.applied <= server.last
           /\ server' = p /\ Len(sentScenes) < MaxFlight /\ active' = now
           /\ sentScenes' = Append(sentScenes, [yaw |-> p.yaw, alive |-> p.alive,
                                                  ack |-> p.applied, active |-> now])
<1> DEFINE p1 == IF active' /\ ~active THEN Transitioned(server) ELSE server
           p2 == AppliedInput(p1, active')
<1>1. server \in Player /\ server.input = server.last /\ server.applied <= server.last
  BY PlayTyped DEF PlayAgrees, ScenesAgree
<1>2. 0 \in 0 .. Turn - 1 /\ 0 \in -MaxLook .. MaxLook /\ \A x \in Int : x % Turn \in 0 .. Turn - 1
  BY PlayNumbers
<1>3. p1 \in Player /\ p1.last = server.last /\ p1.input = server.input /\ p1.applied <= server.last
  <2>1. /\ Transitioned(server) \in Player /\ Transitioned(server).last = server.last
        /\ Transitioned(server).input = server.input /\ Transitioned(server).applied = server.last
    BY <1>1, <1>2 DEF Transitioned, Player
  <2>2. server.last <= server.last
    BY <1>1, PlayNumbers DEF Player
  <2>3. CASE active' /\ ~active
    BY <2>1, <2>2, <2>3
  <2>4. CASE ~ (active' /\ ~active)
    BY <1>1, <2>4
  <2> QED
    BY <2>3, <2>4
<1> HIDE DEF p1
<1>4. p2 \in Player /\ p2.last = server.last /\ p2.input = server.input /\ p2.applied <= server.last
  <2>1. p1.yaw \in 0 .. Turn - 1 /\ p1.look \in Int /\ p1.applied \in 0 .. MaxSequence
        /\ p1.input \in 0 .. MaxSequence /\ p1.input = server.last
    BY <1>1, <1>3, PlayNumbers DEF Player
  <2>2. Degrees(p1.look) \in Int
    BY <2>1, PlayNumbers DEF Degrees
  <2>3. (p1.yaw + Degrees(p1.look)) % Turn \in 0 .. Turn - 1
    BY <1>2, <2>1, <2>2, PlayNumbers
  <2> DEFINE a == IF p1.alive THEN p1.input ELSE p1.applied
             y == IF p1.alive /\ active' THEN (p1.yaw + Degrees(p1.look)) % Turn ELSE p1.yaw
  <2>4. p2 = [p1 EXCEPT !.applied = a, !.look = 0, !.yaw = y]
    BY Zenon DEF AppliedInput
  <2>5. a \in 0 .. MaxSequence /\ a <= server.last
    <3>1. server.last \in 0 .. MaxSequence
      BY <1>1 DEF Player
    <3>2. server.last <= server.last
      BY <3>1, PlayNumbers
    <3> QED
      BY <1>3, <2>1, <3>2
  <2>6. y \in 0 .. Turn - 1
    BY <2>1, <2>3
  <2> HIDE DEF a, y, p2
  <2> QED
    BY <1>2, <1>3, <2>4, <2>5, <2>6 DEF Player
<1>5. PICK p \in Advanced(p2) :
        /\ server' = p /\ Len(sentScenes) < MaxFlight
        /\ sentScenes' = Append(sentScenes, [yaw |-> p.yaw, alive |-> p.alive,
                                               ack |-> p.applied, active |-> active'])
  BY Zenon DEF Tick, p1
<1> HIDE DEF p2
<1>6. p \in Player /\ p.last = server.last /\ p.input = server.input /\ p.applied <= server.last
  BY <1>4 DEF Advanced, Player
<1>7. active' \in BOOLEAN
  BY DEF Tick
<1> QED
  BY <1>5, <1>6, <1>7, Zenon

LEMMA TickAgrees == ASSUME PlayAgrees, Tick PROVE PlayAgrees'
<1>1. PICK p \in Player, now \in BOOLEAN :
           /\ p.last = server.last /\ p.input = server.input /\ p.applied <= server.last
           /\ server' = p /\ Len(sentScenes) < MaxFlight /\ active' = now
           /\ sentScenes' = Append(sentScenes, [yaw |-> p.yaw, alive |-> p.alive,
                                                  ack |-> p.applied, active |-> now])
  BY TickIsScene, Zenon
<1> DEFINE m == [yaw |-> p.yaw, alive |-> p.alive, ack |-> p.applied, active |-> now]
           S == Len(sentScenes)
<1>2. /\ sequence' = sequence /\ pending' = pending /\ shown' = shown /\ ready' = ready
      /\ sentFrames' = sentFrames
  BY DEF Tick, playPage
<1>3. sentScenes \in Seq(PlayerSnapshots) /\ S \in Nat
  BY PlayTyped
<1>4. m \in PlayerSnapshots /\ m.ack = p.applied /\ m.yaw = p.yaw
  BY DEF Player, PlayerSnapshots
<1>5. sentScenes' = Append(sentScenes, m)
  BY <1>1
<1> HIDE DEF m
<1>6. /\ sentScenes' \in Seq(PlayerSnapshots) /\ Len(sentScenes') = S + 1 /\ sentScenes'[S + 1] = m
      /\ \A k \in 1 .. S : sentScenes'[k] = sentScenes[k]
  BY <1>3, <1>4, <1>5, AppendProperties
<1>7. \A k \in 1 .. S + 1 : k = S + 1 \/ k \in 1 .. S
  BY <1>3
<1>8. PlayTypeOK'
  <2>1. PlayTypeOK
    BY DEF PlayAgrees
  <2>2. S + 1 <= MaxFlight
    BY <1>1, <1>3, PlayNumbers
  <2>3. {ready', active'} \subseteq BOOLEAN
    BY <1>1, <1>2, <2>1, Zenon DEF PlayTypeOK
  <2> QED
    BY <1>1, <1>2, <1>6, <2>1, <2>2, <2>3, Zenon DEF PlayTypeOK
<1>9. Wrapping' <=> Wrapping
  BY <1>1, <1>2 DEF Wrapping
<1>10. FramesKnown' /\ HeldAreNewest'
  BY <1>1, <1>2, <1>9 DEF PlayAgrees, FramesKnown, HeldAreNewest
<1>11. ScenesAgree'
  <2>1. ASSUME NEW k \in 1 .. S + 1 PROVE sentScenes'[k].ack <= server.last
    <3>1. CASE k = S + 1
      BY <1>1, <1>4, <1>6, <3>1
    <3>2. CASE k \in 1 .. S
      BY <1>6, <3>2 DEF PlayAgrees, ScenesAgree
    <3> QED
      BY <1>7, <3>1, <3>2
  <2>2. sentScenes'[S + 1].yaw = p.yaw
    BY <1>4, <1>6
  <2>3. server.input = server.last /\ (ready => shown.ack <= server.last)
    BY DEF PlayAgrees, ScenesAgree
  <2> QED
    BY <1>1, <1>2, <1>6, <2>1, <2>2, <2>3, Zenon DEF ScenesAgree
<1>12. ShownAgrees'
  <2>1. sentScenes' # <<>>
    <3>1. S + 1 # 0
      BY <1>3
    <3> QED
      BY <1>6, <3>1, EmptySeq
  <2>2. Further(shown.ack)' <=> Further(shown.ack)
    BY <1>1, <1>2 DEF Further
  <2> QED
    BY <1>2, <1>9, <2>1, <2>2 DEF PlayAgrees, ShownAgrees
<1> QED
  BY <1>8, <1>10, <1>11, <1>12 DEF PlayAgrees

LEMMA AgreeStays == PlayAgrees /\ [PlayNext]_playVars => PlayAgrees'
<1> SUFFICES ASSUME PlayAgrees, [PlayNext]_playVars PROVE PlayAgrees'
  OBVIOUS
<1>1. ASSUME UNCHANGED playVars PROVE PlayAgrees'
  <2>1. /\ sequence' = sequence /\ pending' = pending /\ shown' = shown /\ ready' = ready
        /\ sentFrames' = sentFrames /\ sentScenes' = sentScenes /\ server' = server /\ active' = active
    BY <1>1 DEF playVars, playPage
  <2> QED
    BY <2>1 DEF PlayAgrees, PlayTypeOK, FramesKnown, HeldAreNewest, Wrapping, ScenesAgree, ShownAgrees,
               Further
<1>2. ASSUME Refuse PROVE PlayAgrees'
  BY <1>2, RejoinAgrees DEF Refuse
<1> QED
  BY <1>1, <1>2, SendAgrees, ArriveAgrees, RejoinAgrees, ReadAgrees, TickAgrees DEF PlayNext

\* Nothing is under way and all is acknowledged: nothing but the held frames turned the
\* player.
LEMMA AgreeIsEnough == PlayAgrees => PlayInv
<1> SUFFICES ASSUME PlayAgrees, AllArrived PROVE shown.yaw = Turned(server.yaw * Fine, pending)
  BY DEF PlayInv, OffByPending, PlayAgrees
<1>1. server.last \in Int
  BY PlayTyped
<1>2. /\ ready /\ shown.alive /\ sentFrames = <<>> /\ sentScenes = <<>>
      /\ shown.ack = server.input
  BY DEF AllArrived
<1>3. \A k \in 1 .. Len(sentFrames) : FALSE
  <2>1. Len(sentFrames) = 0
    BY <1>2, EmptySeq
  <2> QED
    BY <2>1
<1>4. shown.ack = server.last
  BY <1>2 DEF PlayAgrees, ScenesAgree
<1>5. ~Wrapping /\ ~Further(shown.ack)
  BY <1>1, <1>3, <1>4 DEF Wrapping, Further
<1> QED
  BY <1>2, <1>5 DEF PlayAgrees, ShownAgrees

\* However many frames and snapshots are under way, however often the numbering starts
\* again, players fall, matches change and connections end: the page holds its newest
\* frames without a gap, and when all is read, acknowledged and shown, its player is as
\* the server has it, turned further by those frames and by nothing else.
THEOREM PageAndServerAgree == PlaySpec => []PlayInv
<1>1. PlaySpec => []PlayAgrees
  BY AgreeStarts, AgreeStays, PTL DEF PlaySpec
<1> QED
  BY <1>1, AgreeIsEnough, PTL

-----------------------------------------------------------------------------
(* Fighters between snapshots. *)

\* Positions that the ticks between two snapshots divide.
Whole == {x \in Int : \A n \in 1 .. MaxTick - 1 : x % n = 0}

Moments == [tick : 1 .. MaxTick, x : Whole \cup {Gone}]
Entry == [tick : 1 .. MaxTick, at : Nat, x : Whole \cup {Gone}]

\* The entries of the page's history, oldest first, were made and arrived one after the
\* other, and not later than now.
Arrived(history, now) ==
  /\ history \in Seq(Entry)
  /\ \A k \in DOMAIN history : history[k].at <= now
  /\ \A j, k \in DOMAIN history :
       j < k => history[j].at < history[k].at /\ history[j].tick < history[k].tick

\* What is under way on this connection is newer than what is kept of it, and the
\* snapshots follow each other as the server ticked.
Underway(under, history, tick) ==
  /\ \A k \in DOMAIN under : under[k].tick <= tick
  /\ \A j, k \in DOMAIN under : j < k => under[j].tick < under[k].tick
  /\ history # <<>> => /\ history[Len(history)].tick <= tick
                       /\ \A k \in DOMAIN under : history[Len(history)].tick < under[k].tick

ActorsAgree ==
  /\ nTime \in Nat /\ nServer \in Moments /\ nWire \in Seq(Moments)
  /\ Arrived(nHistory, nTime)
  /\ nUp => Underway(nWire, nHistory, nServer.tick)
  /\ ~nUp => nWire = <<>>
  /\ "here" \in DOMAIN nShown /\ nInput.at \in Int /\ nInput.axis \in {-1, 0, 1}
  /\ nDelay \in Int /\ HistoryFollows

LEMMA NewestIsLast == Newest = nHistory[Len(nHistory)]
BY DEF Newest, Last

LEMMA MomentsAndEntries ==
  /\ \A m \in Moments : m.tick \in Nat /\ m.x \in Whole \cup {Gone}
  /\ \A e \in Entry : e.tick \in Nat /\ e.at \in Nat /\ e.x \in Whole \cup {Gone}
BY ActorAssumption DEF Moments, Entry

LEMMA NothingMoves == [tick |-> 1, x |-> 0] \in Moments
<1>1. MaxTick \in Nat \ {0}
  BY ActorAssumption
<1>2. \A n \in 1 .. MaxTick - 1 : 0 % n = 0
  BY <1>1
<1> QED
  BY <1>1, <1>2 DEF Moments, Whole

LEMMA ActorsStart == ActorInit => ActorsAgree
<1> SUFFICES ASSUME ActorInit PROVE ActorsAgree
  OBVIOUS
<1>1. nTime = 0 /\ nServer = [tick |-> 1, x |-> 0] /\ nWire = <<>> /\ nHistory = <<>>
  BY DEF ActorInit
<1>2. /\ nWire \in Seq(Moments) /\ nHistory \in Seq(Entry)
      /\ Len(nWire) = 0 /\ Len(nHistory) = 0 /\ DOMAIN nWire = {} /\ DOMAIN nHistory = {}
  BY <1>1, EmptySeq
<1>3. /\ HistoryFollows /\ "here" \in DOMAIN nShown
      /\ nInput.at \in Int /\ nInput.axis \in {-1, 0, 1} /\ nDelay \in Int
  BY ActorAssumption DEF ActorInit, HistoryFollows, NoInput
<1> QED
  BY <1>1, <1>2, <1>3, NothingMoves DEF ActorsAgree, Arrived, Underway

\* A tick sends what is newer than all that was sent.
LEMMA TickIsNewest ==
  ASSUME ActorsAgree, ServerTicks
  PROVE  ActorsAgree'
<1>1. PICK x \in Places \cup {Gone} : nServer' = [tick |-> nServer.tick + 1, x |-> x]
  BY DEF ServerTicks
<1>2. x \in Whole \cup {Gone} /\ MaxTick \in Nat
  BY ActorAssumption DEF Whole
<1>3. nServer.tick \in Nat /\ nServer'.tick = nServer.tick + 1 /\ nServer' \in Moments
  BY <1>1, <1>2 DEF ActorsAgree, Moments, ServerTicks
<1>4. /\ nTime' = nTime /\ nHistory' = nHistory /\ nShown' = nShown /\ nUp' = nUp
      /\ nInput' = nInput /\ nDelay' = nDelay
      /\ nWire' = IF nUp THEN Append(nWire, nServer') ELSE nWire
  BY DEF ServerTicks
<1>5. /\ nWire' \in Seq(Moments)
      /\ nUp => /\ Len(nWire') = Len(nWire) + 1 /\ Len(nWire) \in Nat
                /\ \A k \in 1 .. Len(nWire) : nWire'[k] = nWire[k]
                /\ nWire'[Len(nWire) + 1] = nServer'
  <2>1. nWire \in Seq(Moments)
    BY DEF ActorsAgree
  <2> DEFINE s == nServer'
  <2>2. s \in Moments
    BY <1>3
  <2> HIDE DEF s
  <2>3. /\ Append(nWire, s) \in Seq(Moments)
        /\ Len(Append(nWire, s)) = Len(nWire) + 1 /\ Len(nWire) \in Nat
        /\ \A k \in 1 .. Len(nWire) : Append(nWire, s)[k] = nWire[k]
        /\ Append(nWire, s)[Len(nWire) + 1] = s
    BY <2>1, <2>2, AppendProperties
  <2> QED
    BY <1>4, <2>1, <2>3 DEF s
<1>6. /\ DOMAIN nWire = 1 .. Len(nWire) /\ DOMAIN nWire' = 1 .. Len(nWire')
      /\ \A k \in DOMAIN nWire : nWire[k].tick \in Nat
      /\ nHistory # <<>> => nHistory[Len(nHistory)].tick \in Nat
  <2>1. nWire \in Seq(Moments)
    BY DEF ActorsAgree
  <2>2. nHistory \in Seq(Entry)
    BY DEF ActorsAgree, Arrived
  <2>3. \A k \in 1 .. Len(nWire) : nWire[k] \in Moments
    BY <2>1, ElementOfSeq
  <2>4. nHistory # <<>> => nHistory[Len(nHistory)] \in Entry
    <3> SUFFICES ASSUME nHistory # <<>>
                 PROVE  nHistory[Len(nHistory)] \in Entry
      OBVIOUS
    <3>1. Len(nHistory) \in 1 .. Len(nHistory)
      BY <2>2, EmptySeq
    <3> QED
      BY <2>2, <3>1, ElementOfSeq
  <2>5. DOMAIN nWire = 1 .. Len(nWire) /\ DOMAIN nWire' = 1 .. Len(nWire')
    BY <1>5, <2>1, LenProperties
  <2>6. \A k \in DOMAIN nWire : nWire[k].tick \in Nat
    BY <2>3, <2>5, MomentsAndEntries
  <2>7. nHistory # <<>> => nHistory[Len(nHistory)].tick \in Nat
    BY <2>4, MomentsAndEntries
  <2> QED
    BY <2>5, <2>6, <2>7
<1>7. ASSUME nUp PROVE Underway(nWire, nHistory, nServer.tick)'
  <2>1. Underway(nWire, nHistory, nServer.tick)
    BY <1>7 DEF ActorsAgree
  <2>2. \A k \in DOMAIN nWire' : nWire'[k].tick <= nServer'.tick
    <3> SUFFICES ASSUME NEW k \in DOMAIN nWire' PROVE nWire'[k].tick <= nServer'.tick
      OBVIOUS
    <3>1. CASE k = Len(nWire) + 1
      BY <1>3, <1>5, <1>7, <3>1
    <3>2. CASE k # Len(nWire) + 1
      <4>1. k \in DOMAIN nWire /\ nWire'[k] = nWire[k]
        BY <1>5, <1>6, <1>7, <3>2, SMTT(60)
      <4> QED
        BY <1>3, <1>6, <2>1, <4>1 DEF Underway
    <3> QED
      BY <3>1, <3>2
  <2>3. \A j, k \in DOMAIN nWire' : j < k => nWire'[j].tick < nWire'[k].tick
    <3> SUFFICES ASSUME NEW j \in DOMAIN nWire', NEW k \in DOMAIN nWire', j < k
                 PROVE  nWire'[j].tick < nWire'[k].tick
      OBVIOUS
    <3>1. j \in DOMAIN nWire /\ nWire'[j] = nWire[j]
      BY <1>5, <1>6, <1>7, SMTT(60)
    <3>2. CASE k = Len(nWire) + 1
      BY <1>3, <1>5, <1>6, <1>7, <2>1, <3>1, <3>2, SMTT(60) DEF Underway
    <3>3. CASE k # Len(nWire) + 1
      <4>1. k \in DOMAIN nWire /\ nWire'[k] = nWire[k]
        BY <1>5, <1>6, <1>7, <3>3, SMTT(60)
      <4> QED
        BY <2>1, <3>1, <4>1 DEF Underway
    <3> QED
      BY <3>2, <3>3
  <2>4. ASSUME nHistory # <<>>
        PROVE  /\ nHistory[Len(nHistory)].tick <= nServer'.tick
               /\ \A k \in DOMAIN nWire' : nHistory[Len(nHistory)].tick < nWire'[k].tick
    <3>1. nHistory[Len(nHistory)].tick <= nServer.tick /\ nHistory[Len(nHistory)].tick \in Nat
      BY <1>6, <2>1, <2>4 DEF Underway
    <3>2. ASSUME NEW k \in DOMAIN nWire' PROVE nHistory[Len(nHistory)].tick < nWire'[k].tick
      <4>1. CASE k = Len(nWire) + 1
        BY <1>3, <1>5, <1>7, <3>1, <4>1, SMTT(60)
      <4>2. CASE k # Len(nWire) + 1
        <5>1. k \in DOMAIN nWire /\ nWire'[k] = nWire[k]
          BY <1>5, <1>6, <1>7, <4>2, SMTT(60)
        <5> QED
          BY <2>1, <2>4, <5>1 DEF Underway
      <4> QED
        BY <4>1, <4>2
    <3> QED
      BY <1>3, <3>1, <3>2
  <2> QED
    BY <1>4, <2>2, <2>3, <2>4 DEF Underway
<1>8. HistoryFollows'
  BY <1>4 DEF ActorsAgree, HistoryFollows, Newest, Last
<1> QED
  BY <1>3, <1>4, <1>5, <1>7, <1>8 DEF ActorsAgree, Arrived

\* What is kept with one more at its end.
LEMMA KeptWithNewest ==
  ASSUME NEW history, NEW e \in Entry, NEW now \in Nat, Arrived(history, now), e.at = now,
         history # <<>> => history[Len(history)].at < now /\ history[Len(history)].tick < e.tick,
         NEW kept, kept = IF Len(Append(history, e)) > HistoryCap THEN Tail(Append(history, e))
                          ELSE Append(history, e)
  PROVE  Arrived(kept, now) /\ kept # <<>> /\ kept[Len(kept)] = e
<1> DEFINE all == Append(history, e)
           n == Len(history)
<1>1. HistoryCap \in Nat \ {0}
  BY ActorAssumption
<1>2. history \in Seq(Entry) /\ n \in Nat /\ DOMAIN history = 1 .. n
  BY LenProperties DEF Arrived, Entry
<1>3. /\ all \in Seq(Entry) /\ Len(all) = n + 1 /\ DOMAIN all = 1 .. n + 1
      /\ \A k \in 1 .. n : all[k] = history[k]
      /\ all[n + 1] = e
  BY <1>2, AppendProperties, LenProperties
<1>4. ASSUME NEW k \in 1 .. n
      PROVE  /\ history[k].at \in Nat /\ history[k].at < now
             /\ history[k].tick \in Nat /\ history[k].tick < e.tick
  <2>1. history[k].at \in Nat /\ history[k].tick \in Nat /\ history[n].at \in Nat /\ history[n].tick \in Nat
    <3>1. n \in 1 .. n
      BY <1>2
    <3>2. history[k] \in Entry /\ history[n] \in Entry
      BY <1>2, <3>1, ElementOfSeq
    <3> QED
      BY <3>2, MomentsAndEntries
  <2>3. n \in 1 .. n /\ history # <<>>
    BY <1>2, EmptySeq
  <2>4. history[n].at < now /\ history[n].tick < e.tick /\ e.tick \in Nat
    BY <2>3, MomentsAndEntries
  <2>5. k = n \/ (history[k].at < history[n].at /\ history[k].tick < history[n].tick)
    <3>1. \A i, j \in DOMAIN history :
            i < j => history[i].at < history[j].at /\ history[i].tick < history[j].tick
      BY DEF Arrived
    <3> HIDE DEF n
    <3>2. k \in DOMAIN history /\ n \in DOMAIN history
      BY <1>2, <2>3
    <3>3. k = n \/ k < n
      BY <1>2
    <3> QED
      BY <3>1, <3>2, <3>3
  <2> QED
    BY <2>1, <2>4, <2>5
<1> HIDE DEF all, n
<1>5. /\ \A k \in 1 .. n + 1 : all[k].at <= now
      /\ \A j, k \in 1 .. n + 1 : j < k => all[j].at < all[k].at /\ all[j].tick < all[k].tick
  <2>1. ASSUME NEW k \in 1 .. n + 1 PROVE all[k].at <= now
    <3>1. CASE k = n + 1
      BY <1>3, <3>1
    <3>2. CASE k # n + 1
      <4>1. k \in 1 .. n
        BY <1>2, <3>2
      <4> QED
        BY <1>3, <1>4, <4>1
    <3> QED
      BY <3>1, <3>2
  <2>2. ASSUME NEW j \in 1 .. n + 1, NEW k \in 1 .. n + 1, j < k
        PROVE  all[j].at < all[k].at /\ all[j].tick < all[k].tick
    <3>1. j \in 1 .. n /\ all[j] = history[j]
      BY <1>2, <1>3, <2>2
    <3>2. CASE k = n + 1
      BY <1>3, <1>4, <3>1, <3>2
    <3>3. CASE k # n + 1
      <4>1. k \in 1 .. n
        BY <1>2, <3>3
      <4> QED
        BY <1>2, <1>3, <2>2, <3>1, <4>1 DEF Arrived
    <3> QED
      BY <3>2, <3>3
  <2> QED
    BY <2>1, <2>2
<1>6. CASE kept = all
  <2>1. kept \in Seq(Entry) /\ Len(kept) = n + 1 /\ DOMAIN kept = 1 .. n + 1 /\ kept[n + 1] = e
    BY <1>3, <1>6
  <2>2. kept # <<>>
    BY <1>2, <2>1, EmptySeq, SMTT(60)
  <2>3. Arrived(kept, now)
    BY <1>5, <1>6, <2>1 DEF Arrived
  <2> QED
    BY <2>1, <2>2, <2>3
<1>7. CASE kept = Tail(all) /\ n + 1 > HistoryCap
  <2>1. all # <<>>
    BY <1>2, <1>3, EmptySeq
  <2>2. /\ kept \in Seq(Entry) /\ Len(kept) = n
        /\ \A k \in 1 .. n : kept[k] = all[k + 1]
    <3>1. /\ Tail(all) \in Seq(Entry) /\ Len(Tail(all)) = Len(all) - 1
          /\ \A k \in 1 .. Len(Tail(all)) : Tail(all)[k] = all[k + 1]
      BY <1>3, <2>1, HeadTailProperties
    <3>2. Len(Tail(all)) = n
      BY <1>2, <1>3, <3>1
    <3> QED
      BY <1>7, <3>1, <3>2, Zenon
  <2>3. DOMAIN kept = 1 .. n
    BY <2>2, LenProperties
  <2>4. kept # <<>> /\ kept[n] = e
    <3>1. n \in 1 .. n /\ Len(kept) # 0
      BY <1>1, <1>2, <1>7, <2>2
    <3> QED
      BY <1>3, <2>2, <3>1, EmptySeq
  <2>5. \A k \in 1 .. n : k + 1 \in 1 .. n + 1
    BY <1>2
  <2>6. \A k \in DOMAIN kept : kept[k].at <= now
    BY <1>5, <2>2, <2>3, <2>5
  <2>7. ASSUME NEW j \in DOMAIN kept, NEW k \in DOMAIN kept, j < k
        PROVE  kept[j].at < kept[k].at /\ kept[j].tick < kept[k].tick
    <3>1. j + 1 \in 1 .. n + 1 /\ k + 1 \in 1 .. n + 1 /\ j + 1 < k + 1
      BY <1>2, <2>3, <2>5, <2>7
    <3> QED
      BY <1>5, <2>2, <2>3, <3>1
  <2> QED
    BY <2>2, <2>4, <2>6, <2>7 DEF Arrived
<1>8. Len(all) = n + 1 /\ (kept = IF Len(all) > HistoryCap THEN Tail(all) ELSE all)
  BY <1>3 DEF all
<1> QED
  BY <1>6, <1>7, <1>8

\* A snapshot of this connection is kept, unless another arrived in the same instant.
LEMMA SceneIsKept ==
  ASSUME ActorsAgree, ApplyScene
  PROVE  ActorsAgree'
<1> DEFINE head == Head(nWire)
           e == [tick |-> head.tick, at |-> nTime, x |-> head.x]
<1>1. /\ nUp /\ nWire # <<>> /\ nWire' = Tail(nWire) /\ nTime' = nTime /\ nServer' = nServer
      /\ nUp' = nUp /\ RecordRemoteSnapshot(head)
      /\ nShown' = [tick |-> head.tick, x |-> head.x, at |-> nTime, here |-> TRUE]
      /\ nInput' \in {nInput, NoInput}
  BY DEF ApplyScene
<1>i. nInput'.at \in Int /\ nInput'.axis \in {-1, 0, 1} /\ nDelay' \in Int
  <2>1. nDelay' \in Int
    <3>1. nDelay' \in {nDelay} \cup Delays
      BY <1>1, Zenon DEF RecordRemoteSnapshot
    <3> QED
      BY <3>1, ActorAssumption DEF ActorsAgree
  <2> QED
    BY <1>1, <2>1 DEF ActorsAgree, NoInput
<1>2. /\ nTime \in Nat /\ nWire \in Seq(Moments) /\ nServer \in Moments
      /\ Arrived(nHistory, nTime) /\ Underway(nWire, nHistory, nServer.tick)
  BY <1>1 DEF ActorsAgree
<1>3. /\ head = nWire[1] /\ head \in Moments
      /\ Len(nWire) \in Nat \ {0} /\ DOMAIN nWire = 1 .. Len(nWire)
      /\ nWire' \in Seq(Moments) /\ Len(nWire') = Len(nWire) - 1
      /\ DOMAIN nWire' = 1 .. Len(nWire')
      /\ \A k \in 1 .. Len(nWire') : nWire'[k] = nWire[k + 1]
  <2>1. Len(nWire) \in Nat \ {0} /\ DOMAIN nWire = 1 .. Len(nWire) /\ head = nWire[1]
    BY <1>1, <1>2, EmptySeq, LenProperties
  <2>2. /\ nWire' \in Seq(Moments) /\ Len(nWire') = Len(nWire) - 1
        /\ \A k \in 1 .. Len(nWire') : nWire'[k] = nWire[k + 1]
        /\ head \in Moments
    BY <1>1, <1>2, HeadTailProperties
  <2>3. DOMAIN nWire' = 1 .. Len(nWire')
    BY <2>2, LenProperties
  <2> QED
    BY <2>1, <2>2, <2>3
<1>4. head.tick \in Nat /\ e \in Entry /\ e.at = nTime /\ e.tick = head.tick
  BY <1>2, <1>3, MomentsAndEntries DEF Entry, Moments
<1> HIDE DEF head, e
<1>5. /\ \A k \in DOMAIN nWire : nWire[k].tick <= nServer.tick
      /\ \A j, k \in DOMAIN nWire : j < k => nWire[j].tick < nWire[k].tick
      /\ nHistory # <<>> => \A k \in DOMAIN nWire : nHistory[Len(nHistory)].tick < nWire[k].tick
  BY <1>2 DEF Underway
<1>6. /\ \A k \in DOMAIN nWire' : nWire'[k].tick <= nServer.tick
      /\ \A j, k \in DOMAIN nWire' : j < k => nWire'[j].tick < nWire'[k].tick
      /\ \A k \in DOMAIN nWire' : head.tick < nWire'[k].tick
      /\ head.tick <= nServer.tick
  <2>1. ASSUME NEW k \in DOMAIN nWire'
        PROVE  k \in Nat /\ k + 1 \in DOMAIN nWire /\ 1 < k + 1 /\ nWire'[k] = nWire[k + 1]
    <3>1. k \in 1 .. Len(nWire') /\ Len(nWire') = Len(nWire) - 1 /\ Len(nWire) \in Nat
      BY <1>3
    <3>2. k \in Nat /\ k + 1 \in 1 .. Len(nWire) /\ 1 < k + 1
      BY <3>1
    <3> QED
      BY <1>3, <3>1, <3>2
  <2>2. 1 \in DOMAIN nWire
    BY <1>3
  <2>3. ASSUME NEW j \in DOMAIN nWire', NEW k \in DOMAIN nWire', j < k PROVE nWire'[j].tick < nWire'[k].tick
    <3>1. j + 1 < k + 1
      BY <2>1, <2>3
    <3> QED
      BY <1>5, <2>1, <3>1
  <2> QED
    BY <1>3, <1>5, <2>1, <2>2, <2>3
<1>7. ASSUME nHistory # <<>>
      PROVE  Newest = nHistory[Len(nHistory)] /\ Newest.tick < head.tick /\ Newest.tick \in Nat
             /\ Newest.at <= nTime /\ Newest.at \in Nat
  <2>1. nHistory \in Seq(Entry)
    BY <1>2 DEF Arrived, Entry
  <2>2. Len(nHistory) \in 1 .. Len(nHistory) /\ DOMAIN nHistory = 1 .. Len(nHistory)
    BY <1>7, <2>1, EmptySeq, LenProperties
  <2>3. nHistory[Len(nHistory)] \in Entry
    BY <2>1, <2>2, ElementOfSeq
  <2>4. nHistory[Len(nHistory)].at <= nTime
    BY <1>2, <2>2 DEF Arrived
  <2>5. nHistory[Len(nHistory)].tick < head.tick
    BY <1>3, <1>5, <1>7
  <2> QED
    BY <2>3, <2>4, <2>5, NewestIsLast DEF Entry
<1>8. CASE nHistory # <<>> /\ nTime <= Newest.at
  <2>1. nHistory' = nHistory /\ Newest.at = nTime
    BY <1>1, <1>2, <1>7, <1>8 DEF RecordRemoteSnapshot
  <2>2. HistoryFollows'
    BY <1>1, <1>8, <2>1 DEF HistoryFollows, Newest, Last
  <2>3. \A k \in DOMAIN nWire' : nHistory[Len(nHistory)].tick < nWire'[k].tick
    <3> SUFFICES ASSUME NEW k \in DOMAIN nWire' PROVE nHistory[Len(nHistory)].tick < nWire'[k].tick
      OBVIOUS
    <3>1. k \in 1 .. Len(nWire')
      BY <1>3
    <3>2. nWire'[k] = nWire[k + 1]
      BY <1>3, <3>1
    <3>3. k + 1 \in DOMAIN nWire
      BY <1>3, <3>1, SMTT(60)
    <3> QED
      BY <1>5, <1>8, <3>2, <3>3
  <2>4. nHistory[Len(nHistory)].tick <= nServer.tick
    BY <1>2, <1>8 DEF Underway
  <2>5. Underway(nWire, nHistory, nServer.tick)'
    BY <1>1, <1>6, <2>1, <2>3, <2>4 DEF Underway
  <2> QED
    BY <1>1, <1>i, <1>2, <1>3, <2>1, <2>2, <2>5 DEF ActorsAgree
<1>9. CASE nHistory = <<>> \/ ~(nTime <= Newest.at)
  <2>1. nHistory # <<>> => nHistory[Len(nHistory)].at < nTime /\ ~(head.tick <= Newest.tick)
    BY <1>2, <1>4, <1>7, <1>9
  <2>2. nHistory' = IF Len(Append(nHistory, e)) > HistoryCap THEN Tail(Append(nHistory, e))
                    ELSE Append(nHistory, e)
    BY <1>1, <1>9, <2>1 DEF RecordRemoteSnapshot, e
  <2>3. Arrived(nHistory', nTime) /\ nHistory' # <<>> /\ nHistory'[Len(nHistory')] = e
    <3> HIDE <2>1
    <3>1. nHistory # <<>> => nHistory[Len(nHistory)].at < nTime /\ nHistory[Len(nHistory)].tick < e.tick
      BY <1>4, <1>7, <2>1
    <3> QED
      BY <1>2, <1>4, <2>2, <3>1, KeptWithNewest
  <2>4. HistoryFollows'
    BY <1>1, <1>4, <2>3 DEF HistoryFollows, Newest, Last
  <2>5. Underway(nWire, nHistory, nServer.tick)'
    BY <1>1, <1>4, <1>6, <2>3 DEF Underway
  <2> QED
    BY <1>1, <1>i, <1>2, <1>3, <2>3, <2>4, <2>5 DEF ActorsAgree
<1> QED
  BY <1>8, <1>9

LEMMA ActorsStay ==
  ASSUME ActorsAgree, [ActorNext]_nVars
  PROVE  ActorsAgree'
<1>1. CASE Clock
  <2>1. /\ nTime \in Nat /\ nTime' = nTime + 1 /\ nServer' = nServer /\ nWire' = nWire
        /\ nUp' = nUp /\ nHistory' = nHistory /\ nShown' = nShown /\ nInput' = nInput /\ nDelay' = nDelay
    BY <1>1 DEF Clock, ActorsAgree
  <2>2. Arrived(nHistory, nTime) /\ DOMAIN nHistory = 1 .. Len(nHistory)
    BY LenProperties DEF ActorsAgree, Arrived
  <2>3. ASSUME NEW k \in DOMAIN nHistory PROVE nHistory[k].at <= nTime + 1
    <3>1. nHistory[k] \in Entry
      BY <2>2, ElementOfSeq DEF Arrived
    <3>2. nHistory[k].at \in Nat /\ nHistory[k].at <= nTime
      BY <2>2, <3>1, MomentsAndEntries DEF Arrived
    <3> QED
      BY <2>1, <3>2
  <2>4. HistoryFollows'
    BY <2>1 DEF ActorsAgree, HistoryFollows, Newest, Last
  <2>5. Arrived(nHistory, nTime)'
    BY <2>1, <2>2, <2>3 DEF Arrived
  <2> QED
    BY <2>1, <2>4, <2>5 DEF ActorsAgree
<1>2. CASE ServerRestarts
  <2>1. /\ nTime' = nTime /\ nServer' \in Moments /\ nWire' = <<>>
        /\ nUp' = FALSE /\ nHistory' = nHistory /\ nShown' = nShown /\ nInput' = nInput /\ nDelay' = nDelay
    BY <1>2, NothingMoves DEF ServerRestarts
  <2>2. HistoryFollows'
    BY <2>1 DEF ActorsAgree, HistoryFollows, Newest, Last
  <2>3. nWire' \in Seq(Moments)
    BY <2>1, EmptySeq
  <2> QED
    BY <2>1, <2>2, <2>3 DEF ActorsAgree
<1>3. CASE Reconnect
  <2>1. /\ nTime' = nTime /\ nServer' = nServer /\ nWire' = <<>>
        /\ nUp' = TRUE /\ nHistory' = <<>> /\ nShown'.here = FALSE /\ nDelay' = nDelay
    <3>1. "here" \in DOMAIN nShown
      BY DEF ActorsAgree
    <3> QED
      BY <1>3, <3>1 DEF Reconnect, SnapshotsForgotten
  <2>2. HistoryFollows'
    BY <2>1 DEF HistoryFollows
  <2>3. /\ nWire' \in Seq(Moments) /\ nHistory' \in Seq(Entry)
        /\ DOMAIN nWire' = {} /\ DOMAIN nHistory' = {}
    BY <2>1, EmptySeq
  <2>4. "here" \in DOMAIN nShown'
    BY <1>3 DEF Reconnect, ActorsAgree
  <2>5. nInput'.at \in Int /\ nInput'.axis \in {-1, 0, 1}
    BY <1>3 DEF Reconnect, NoInput
  <2> QED
    BY <2>1, <2>2, <2>3, <2>4, <2>5 DEF ActorsAgree, Arrived, Underway
<1>4. ASSUME UNCHANGED <<nTime, nServer, nWire, nUp, nHistory, nShown, nDelay>>,
             nInput'.at \in Int, nInput'.axis \in {-1, 0, 1}
      PROVE  ActorsAgree'
  <2>1. HistoryFollows'
    BY <1>4 DEF ActorsAgree, HistoryFollows, Newest, Last
  <2> QED
    BY <1>4, <2>1 DEF ActorsAgree
<1>5. CASE SendInput
  BY <1>4, <1>5, ActorAssumption DEF SendInput, ActorsAgree
<1>6. CASE UNCHANGED nVars
  BY <1>4, <1>6 DEF nVars, ActorsAgree
<1> QED
  BY <1>1, <1>2, <1>3, <1>5, <1>6, TickIsNewest, SceneIsKept DEF ActorNext

\* The last of some of the snapshots that are kept.
LastOf(S) == nHistory[IF S = {} THEN 1 ELSE CHOOSE k \in S : \A j \in S : j <= k]

\* The sample of a time after everything arrived.
LEMMA SampleAhead ==
  ASSUME NEW t, NEW ahead, nHistory # <<>>,
         {k \in DOMAIN nHistory : nHistory[k].at <= t} = DOMAIN nHistory,
         {k \in DOMAIN nHistory : nHistory[k].at > t} = {},
         NEW from, from = LastOf(DOMAIN nHistory)
  PROVE  Sample(t, ahead) = IF from.x = Gone THEN Gone
                            ELSE Newest.x + Velocity * Lesser(ahead, t - Newest.at)
<1> DEFINE past == {k \in DOMAIN nHistory : nHistory[k].at <= t}
           later == {k \in DOMAIN nHistory : nHistory[k].at > t}
           first == nHistory[IF past = {} THEN 1 ELSE CHOOSE k \in past : \A j \in past : j <= k]
           to == nHistory[CHOOSE k \in later : \A j \in later : k <= j]
           span == to.at - first.at
           between == IF span = 0 THEN to.x
                      ELSE first.x + ((to.x - first.x) * Part(t - first.at, span)) \div span
           beyond == Newest.x + Velocity * Lesser(ahead, t - Newest.at)
<1>1. Sample(t, ahead) = CASE nHistory = <<>> \/ first.x = Gone -> Gone
                           [] later # {} /\ to.x = Gone -> Gone
                           [] later # {} /\ to.x # Gone -> between
                           [] OTHER -> beyond
  BY Zenon DEF Sample
<1>2. past = DOMAIN nHistory /\ later = {}
  OBVIOUS
<1>3. first = from
  <2>1. first = LastOf(past)
    BY Zenon DEF LastOf
  <2> HIDE DEF past, first
  <2> QED
    BY <1>2, <2>1, Zenon
<1> HIDE DEF past, later, first, to, span, between, beyond
<1>4. CASE from.x = Gone
  BY <1>1, <1>2, <1>3, <1>4
<1>5. CASE from.x # Gone
  <2>1. Sample(t, ahead) = beyond
    BY <1>1, <1>2, <1>3, <1>5
  <2> QED
    BY <1>5, <2>1, Zenon DEF beyond
<1> QED
  BY <1>4, <1>5

\* Nothing changes in what is drawn of the player once it is LocalAhead of what there is.
LEMMA ThenStands ==
  ASSUME ActorsAgree, nHistory # <<>>, NEW grounded \in BOOLEAN, NEW time \in Int,
         Newest.x # Gone, nInput.at \in Int,
         time >= Greater(Newest.at, nInput.at) + LocalAhead
  PROVE  DrawnLocal(time + 1, grounded) = DrawnLocal(time, grounded)
<1>1. LocalAhead \in Nat \ {0}
  BY ActorAssumption
<1>2. Arrived(nHistory, nTime) /\ nHistory \in Seq(Entry)
  BY DEF ActorsAgree, Arrived, Entry
<1>3. DOMAIN nHistory = 1 .. Len(nHistory) /\ Len(nHistory) \in 1 .. Len(nHistory)
  BY <1>2, EmptySeq, LenProperties
<1>4. Newest = nHistory[Len(nHistory)] /\ Newest.at \in Nat
  <2>1. nHistory[Len(nHistory)] \in Entry
    BY <1>2, <1>3, ElementOfSeq
  <2> QED
    BY <2>1, NewestIsLast DEF Entry
<1>5. time >= Newest.at + LocalAhead /\ time >= nInput.at + LocalAhead
  BY <1>1, <1>4 DEF Greater
<1>6. Elapsed(time) = LocalAhead /\ Elapsed(time + 1) = LocalAhead
  <2> DEFINE since == Greater(Newest.at, nInput.at)
  <2>1. since \in Int /\ time - since >= LocalAhead /\ time + 1 - since >= LocalAhead
    BY <1>1, <1>4 DEF Greater
  <2> HIDE DEF since
  <2>2. \A t : Elapsed(t) = Lesser(LocalAhead, Greater(0, t - since))
    BY Zenon DEF Elapsed, since
  <2>3. Lesser(LocalAhead, Greater(0, time - since)) = LocalAhead
    BY <1>1, <2>1 DEF Greater, Lesser
  <2>4. Lesser(LocalAhead, Greater(0, (time + 1) - since)) = LocalAhead
    BY <1>1, <2>1 DEF Greater, Lesser
  <2> QED
    BY <2>2, <2>3, <2>4, Zenon
<1>7. ASSUME NEW k \in DOMAIN nHistory
      PROVE  nHistory[k].at \in Nat /\ nHistory[k].at <= Newest.at
  <2>1. nHistory[k] \in Entry
    BY <1>2, <1>3, ElementOfSeq
  <2>2. k = Len(nHistory) \/ k < Len(nHistory)
    BY <1>3
  <2>3. k = Len(nHistory) \/ nHistory[k].at < Newest.at
    BY <1>2, <1>3, <1>4, <2>2 DEF Arrived
  <2> QED
    BY <1>4, <2>1, <2>3 DEF Entry
<1>8. ASSUME NEW t \in {time, time + 1}
      PROVE  /\ {k \in DOMAIN nHistory : nHistory[k].at <= t} = DOMAIN nHistory
             /\ {k \in DOMAIN nHistory : nHistory[k].at > t} = {}
             /\ Lesser(LocalAhead, t - Newest.at) = LocalAhead
  <2>1. t >= Newest.at + LocalAhead /\ t \in Int
    BY <1>1, <1>4, <1>5
  <2>2. \A k \in DOMAIN nHistory : nHistory[k].at <= t /\ ~(nHistory[k].at > t)
    BY <1>1, <1>4, <1>7, <2>1
  <2>3. Lesser(LocalAhead, t - Newest.at) = LocalAhead
    BY <1>1, <1>4, <2>1 DEF Lesser
  <2> QED
    BY <2>2, <2>3
<1>9. Sample(time + 1, LocalAhead) = Sample(time, LocalAhead)
  <2> DEFINE from == LastOf(DOMAIN nHistory)
  <2> HIDE DEF from
  <2>2. ASSUME NEW t \in {time, time + 1}
        PROVE  Sample(t, LocalAhead) = IF from.x = Gone THEN Gone ELSE Newest.x + Velocity * LocalAhead
    <3>1. /\ {k \in DOMAIN nHistory : nHistory[k].at <= t} = DOMAIN nHistory
          /\ {k \in DOMAIN nHistory : nHistory[k].at > t} = {}
          /\ Lesser(LocalAhead, t - Newest.at) = LocalAhead
      BY <1>8, <2>2
    <3> QED
      BY <3>1, SampleAhead DEF from
  <2> QED
    BY <2>2
<1>10. IsPredicted(time + 1) = IsPredicted(time)
  BY <1>6 DEF IsPredicted
<1>11. Predicted(time + 1, grounded) = Predicted(time, grounded)
  BY <1>6, Zenon DEF Predicted
<1> QED
  BY <1>9, <1>10, <1>11, Zenon DEF DrawnLocal

-----------------------------------------------------------------------------
(* Products and quotients. *)

LEMMA Products ==
  ASSUME NEW a \in Int, NEW b \in Int
  PROVE  /\ a >= 0 /\ b >= 0 => a * b >= 0
         /\ a <= 0 /\ b >= 0 => a * b <= 0
<1>1. ASSUME a >= 0, b >= 0 PROVE a * b >= 0
  BY <1>1
<1>2. ASSUME a <= 0, b >= 0 PROVE a * b <= 0
  BY <1>2
<1> QED
  BY <1>1, <1>2

LEMMA ProductsGrow ==
  ASSUME NEW a \in Int, NEW b \in Int, NEW c \in Int, b <= c
  PROVE  /\ a * b \in Int /\ a * c \in Int
         /\ a >= 0 => a * b <= a * c
         /\ a <= 0 => a * c <= a * b
<1>1. a * (c - b) = a * c - a * b
  OBVIOUS
<1>2. c - b \in Int /\ c - b >= 0 /\ a * b \in Int /\ a * c \in Int
  OBVIOUS
<1>3. (a >= 0 => a * (c - b) >= 0) /\ (a <= 0 => a * (c - b) <= 0)
  BY <1>2, Products
<1> QED
  BY <1>1, <1>2, <1>3

\* A quotient is the number whose multiples it lies between.
LEMMA Quotients ==
  ASSUME NEW a \in Int, NEW s \in Nat, s > 0
  PROVE  a \div s \in Int /\ s * (a \div s) <= a /\ a < s * (a \div s) + s
OBVIOUS

LEMMA QuotientIs ==
  ASSUME NEW a \in Int, NEW s \in Nat, s > 0, NEW q \in Int, s * q <= a, a < s * q + s
  PROVE  a \div s = q
<1>1. a \div s \in Int /\ s * (a \div s) <= a /\ a < s * (a \div s) + s
  BY Quotients
<1> DEFINE p == a \div s
<1> HIDE DEF p
<1>2. p \in Int /\ s * p <= a /\ a < s * p + s
  BY <1>1 DEF p
<1>3. ASSUME p < q PROVE FALSE
  <2>1. s * (p + 1) <= s * q
    BY <1>2, <1>3, ProductsGrow
  <2>2. s * (p + 1) = s * p + s
    BY <1>2
  <2> QED
    BY <1>2, <2>1, <2>2
<1>4. ASSUME q < p PROVE FALSE
  <2>1. s * (q + 1) <= s * p
    BY <1>2, <1>4, ProductsGrow
  <2>2. s * (q + 1) = s * q + s
    OBVIOUS
  <2> QED
    BY <1>2, <2>1, <2>2
<1> QED
  BY <1>2, <1>3, <1>4 DEF p

LEMMA QuotientsGrow ==
  ASSUME NEW a \in Int, NEW b \in Int, NEW s \in Nat, s > 0, a <= b
  PROVE  a \div s <= b \div s
<1> DEFINE p == a \div s  q == b \div s
<1>1. p \in Int /\ s * p <= a /\ a < s * p + s
  BY Quotients
<1>2. q \in Int /\ s * q <= b /\ b < s * q + s
  BY Quotients
<1> HIDE DEF p, q
<1>3. ASSUME q < p PROVE FALSE
  <2>1. s * (q + 1) <= s * p
    BY <1>1, <1>2, <1>3, ProductsGrow
  <2>2. s * (q + 1) = s * q + s
    BY <1>2
  <2> QED
    BY <1>1, <1>2, <2>1, <2>2
<1>4. p <= q
  BY <1>1, <1>2, <1>3
<1> QED
  BY <1>4 DEF p, q

LEMMA QuotientOfProduct ==
  ASSUME NEW q \in Int, NEW s \in Nat, s > 0
  PROVE  (q * s) \div s = q
<1>1. q * s \in Int /\ s * q <= q * s /\ q * s < s * q + s
  OBVIOUS
<1> QED
  BY <1>1, QuotientIs

LEMMA Multiples ==
  ASSUME NEW x \in Int, NEW g \in Nat, g > 0, x % g = 0
  PROVE  x \div g \in Int /\ x = g * (x \div g)
<1> DEFINE q == x \div g  r == x % g
<1>1. q \in Int /\ g * q \in Int /\ x = g * q + r
  OBVIOUS
<1>2. r = 0
  OBVIOUS
<1> HIDE DEF q, r
<1>3. x = g * q
  BY <1>1, <1>2
<1> QED
  BY <1>1, <1>3 DEF q

-----------------------------------------------------------------------------
(* Between two snapshots, and beyond the newest. *)

LEMMA PartIs ==
  ASSUME NEW done \in Int, NEW span \in Nat, span > 0
  PROVE  /\ Part(done, span) \in 0 .. span
         /\ done <= 0 => Part(done, span) = 0
         /\ \A more \in Int : done <= more => Part(done, span) <= Part(more, span)
BY DEF Part, Greater, Lesser

\* How far of a way somebody is.
Way(d, p, s) == (d * p) \div s

LEMMA WayIs ==
  ASSUME NEW d \in Int, NEW s \in Nat, s > 0, NEW p \in 0 .. s
  PROVE  /\ Way(d, p, s) \in Int
         /\ d >= 0 => 0 <= Way(d, p, s) /\ Way(d, p, s) <= d
         /\ d <= 0 => d <= Way(d, p, s) /\ Way(d, p, s) <= 0
         /\ p = 0 => Way(d, p, s) = 0
         /\ \A q \in 0 .. s : p <= q => /\ d >= 0 => Way(d, p, s) <= Way(d, q, s)
                                        /\ d <= 0 => Way(d, q, s) <= Way(d, p, s)
<1>1. /\ d * 0 = 0 /\ d * p \in Int /\ d * s \in Int /\ p \in Int
      /\ d >= 0 => 0 <= d * p /\ d * p <= d * s
      /\ d <= 0 => d * s <= d * p /\ d * p <= 0
  BY ProductsGrow, Products
<1>2. (d * s) \div s = d /\ 0 \div s = 0 /\ (d * p) \div s \in Int
  <2>1. (d * s) \div s = d
    BY QuotientOfProduct
  <2>2. 0 \div s = 0
    <3>1. s * 0 <= 0 /\ 0 < s * 0 + s
      OBVIOUS
    <3> QED
      BY <3>1, QuotientIs
  <2>3. (d * p) \div s \in Int
    BY <1>1, Quotients
  <2> QED
    BY <2>1, <2>2, <2>3
<1>3. d >= 0 => 0 \div s <= (d * p) \div s /\ (d * p) \div s <= (d * s) \div s
  BY <1>1, QuotientsGrow
<1>4. d <= 0 => (d * s) \div s <= (d * p) \div s /\ (d * p) \div s <= 0 \div s
  BY <1>1, QuotientsGrow
<1>5. ASSUME NEW q \in 0 .. s, p <= q
      PROVE  /\ d >= 0 => (d * p) \div s <= (d * q) \div s
             /\ d <= 0 => (d * q) \div s <= (d * p) \div s
  <2>1. /\ d * q \in Int
        /\ d >= 0 => d * p <= d * q
        /\ d <= 0 => d * q <= d * p
    BY <1>1, <1>5, ProductsGrow
  <2> QED
    BY <1>1, <2>1, QuotientsGrow
<1>6. p = 0 => (d * p) \div s = 0 \div s
  BY <1>1
<1> HIDE DEF Way
<1>7. \A q : Way(d, q, s) = (d * q) \div s
  BY Zenon DEF Way
<1> QED
  BY <1>2, <1>3, <1>4, <1>5, <1>6, <1>7

LEMMA HistoryIs ==
  ASSUME ActorsAgree, nHistory # <<>>, NothingGone
  PROVE  /\ Len(nHistory) \in Nat /\ Len(nHistory) > 0 /\ DOMAIN nHistory = 1 .. Len(nHistory)
         /\ Newest = nHistory[Len(nHistory)]
         /\ \A k \in 1 .. Len(nHistory) :
              /\ nHistory[k].tick \in 1 .. MaxTick /\ nHistory[k].tick \in Nat /\ nHistory[k].at \in Nat
              /\ nHistory[k].x \in Whole /\ nHistory[k].x \in Int /\ nHistory[k].x # Gone
         /\ \A j, k \in 1 .. Len(nHistory) :
              j < k => nHistory[j].at < nHistory[k].at /\ nHistory[j].tick < nHistory[k].tick
<1>1. Arrived(nHistory, nTime) /\ nHistory \in Seq(Entry)
  BY DEF ActorsAgree, Arrived
<1>2. DOMAIN nHistory = 1 .. Len(nHistory) /\ Len(nHistory) \in Nat /\ Len(nHistory) > 0
  BY <1>1, EmptySeq, LenProperties
<1>3. ASSUME NEW k \in 1 .. Len(nHistory)
      PROVE  /\ nHistory[k].tick \in 1 .. MaxTick /\ nHistory[k].tick \in Nat /\ nHistory[k].at \in Nat
             /\ nHistory[k].x \in Whole /\ nHistory[k].x \in Int /\ nHistory[k].x # Gone
  <2>1. nHistory[k] \in Entry /\ nHistory[k].x # Gone
    BY <1>1, <1>2, ElementOfSeq DEF NothingGone
  <2> QED
    BY <2>1, MomentsAndEntries DEF Entry, Whole
<1> QED
  BY <1>1, <1>2, <1>3, NewestIsLast DEF Arrived

\* Where the fighter is in a history, at a time.
PastAt(t) == {k \in DOMAIN nHistory : nHistory[k].at <= t}
LaterAt(t) == {k \in DOMAIN nHistory : nHistory[k].at > t}
FromAt(t) == nHistory[IF PastAt(t) = {} THEN 1 ELSE CHOOSE k \in PastAt(t) : \A j \in PastAt(t) : j <= k]
ToAt(t) == nHistory[CHOOSE k \in LaterAt(t) : \A j \in LaterAt(t) : k <= j]
SpanAt(t) == ToAt(t).at - FromAt(t).at

LEMMA SampleIs ==
  ASSUME NEW t, NEW ahead
  PROVE  Sample(t, ahead) =
           CASE nHistory = <<>> \/ FromAt(t).x = Gone -> Gone
             [] LaterAt(t) # {} /\ ToAt(t).x = Gone -> Gone
             [] LaterAt(t) # {} /\ ToAt(t).x # Gone ->
                  IF SpanAt(t) = 0 THEN ToAt(t).x
                  ELSE FromAt(t).x + ((ToAt(t).x - FromAt(t).x) * Part(t - FromAt(t).at, SpanAt(t))) \div SpanAt(t)
             [] OTHER -> Newest.x + Velocity * Lesser(ahead, t - Newest.at)
BY Zenon DEF Sample, PastAt, LaterAt, FromAt, ToAt, SpanAt

LEMMA LeastOne ==
  ASSUME NEW S \in SUBSET Nat, S # {}
  PROVE  \E m \in S : \A j \in S : m <= j
<1> DEFINE R == {p \in Nat \X Nat : p[1] < p[2]}
<1>1. IsWellFoundedOn(R, Nat)
  BY NatLessThanWellFounded DEF OpToRel
<1>2. \A j, k \in Nat : j < k => <<j, k>> \in R
  OBVIOUS
<1> HIDE DEF R
<1>3. PICK m \in S : \A j \in S : ~ (<<j, m>> \in R)
  BY <1>1, WFMin
<1>4. \A j \in S : ~ (j < m)
  BY <1>2, <1>3
<1> QED
  BY <1>4

\* The first k snapshots have arrived at time t.
Reached(t, k) ==
  /\ k = 0 \/ nHistory[k].at <= t
  /\ k = Len(nHistory) \/ t < nHistory[k + 1].at

LEMMA ReachedSome ==
  ASSUME ActorsAgree, nHistory # <<>>, NothingGone, NEW t \in Int
  PROVE  \E k \in 0 .. Len(nHistory) : Reached(t, k)
<1> DEFINE n == Len(nHistory)
           S == {k \in 1 .. n : nHistory[k].at > t}
<1>1. n \in Nat /\ n > 0 /\ \A k \in 1 .. n : nHistory[k].at \in Nat
  BY HistoryIs
<1> HIDE DEF n
<1>2. CASE S = {}
  <2>1. n \in 1 .. n /\ ~(nHistory[n].at > t) /\ n \in 0 .. n
    BY <1>1, <1>2
  <2>2. nHistory[n].at <= t
    BY <1>1, <2>1
  <2> QED
    BY <2>1, <2>2 DEF Reached, n
<1>3. CASE S # {}
  <2>1. S \in SUBSET Nat
    BY <1>1
  <2>2. PICK m \in S : \A j \in S : m <= j
    BY <1>3, <2>1, LeastOne
  <2>3. m \in 1 .. n /\ t < nHistory[m].at /\ m - 1 \in 0 .. n /\ (m - 1) + 1 = m
    BY <1>1, <2>2
  <2>4. m - 1 = 0 \/ nHistory[m - 1].at <= t
    <3> SUFFICES ASSUME m - 1 # 0 PROVE nHistory[m - 1].at <= t
      OBVIOUS
    <3>1. m - 1 \in 1 .. n /\ m - 1 < m
      BY <1>1, <2>3
    <3>2. m - 1 \notin S
      BY <1>1, <2>2, <2>3, <3>1
    <3> QED
      BY <1>1, <3>1, <3>2
  <2>5. Reached(t, m - 1)
    BY <2>3, <2>4, Zenon DEF Reached
  <2> QED
    BY <2>3, <2>5 DEF n
<1> QED
  BY <1>2, <1>3

\* They and no others.
LEMMA ReachedSplits ==
  ASSUME ActorsAgree, nHistory # <<>>, NothingGone, NEW t \in Int,
         NEW k \in 0 .. Len(nHistory), Reached(t, k)
  PROVE  /\ PastAt(t) = 1 .. k /\ LaterAt(t) = k + 1 .. Len(nHistory)
         /\ FromAt(t) = nHistory[IF k = 0 THEN 1 ELSE k]
         /\ k < Len(nHistory) => ToAt(t) = nHistory[k + 1]
<1> DEFINE n == Len(nHistory)
<1>1. /\ n \in Nat /\ n > 0 /\ DOMAIN nHistory = 1 .. n
      /\ \A j \in 1 .. n : nHistory[j].at \in Nat
      /\ \A i, j \in 1 .. n : i < j => nHistory[i].at < nHistory[j].at
  BY HistoryIs
<1>0. (k = 0 \/ nHistory[k].at <= t) /\ (k = n \/ t < nHistory[k + 1].at) /\ k \in 0 .. n
  BY DEF Reached
<1> HIDE DEF n
<1>2. ASSUME NEW j \in 1 .. n PROVE nHistory[j].at <= t <=> j <= k
  <2>1. CASE j <= k
    <3>1. k \in 1 .. n /\ (j = k \/ j < k)
      BY <1>0, <1>1, <2>1
    <3>2. nHistory[j].at <= nHistory[k].at /\ nHistory[k].at <= t
      BY <1>0, <1>1, <3>1
    <3> QED
      BY <1>1, <2>1, <3>1, <3>2
  <2>2. CASE ~(j <= k)
    <3>1. k + 1 \in 1 .. n /\ (j = k + 1 \/ k + 1 < j) /\ k # n
      BY <1>0, <1>1, <2>2
    <3>2. nHistory[k + 1].at <= nHistory[j].at /\ t < nHistory[k + 1].at
      BY <1>0, <1>1, <3>1
    <3> QED
      BY <1>1, <2>2, <3>1, <3>2
  <2> QED
    BY <2>1, <2>2
<1>3. ASSUME NEW j \in 1 .. n PROVE nHistory[j].at > t <=> j >= k + 1
  BY <1>0, <1>1, <1>2
<1>4. PastAt(t) = 1 .. k
  <2>1. \A j : j \in PastAt(t) <=> j \in 1 .. n /\ j <= k
    BY <1>1, <1>2 DEF PastAt
  <2>2. \A j : j \in 1 .. n /\ j <= k <=> j \in 1 .. k
    BY <1>0, <1>1
  <2> QED
    BY <2>1, <2>2
<1>5. LaterAt(t) = k + 1 .. n
  <2>1. \A j : j \in LaterAt(t) <=> j \in 1 .. n /\ j >= k + 1
    BY <1>1, <1>3 DEF LaterAt
  <2>2. \A j : j \in 1 .. n /\ j >= k + 1 <=> j \in k + 1 .. n
    BY <1>0, <1>1
  <2> QED
    BY <2>1, <2>2
<1>6. FromAt(t) = nHistory[IF k = 0 THEN 1 ELSE k]
  <2>1. CASE k = 0
    <3>1. PastAt(t) = {}
      BY <1>4, <2>1
    <3> QED
      BY <2>1, <3>1 DEF FromAt
  <2>2. CASE k # 0
    <3> DEFINE P == PastAt(t)
               c == CHOOSE m \in P : \A j \in P : j <= m
    <3>1. k \in P /\ \A j \in P : j <= k
      BY <1>0, <1>4, <2>2
    <3>2. c \in P /\ \A j \in P : j <= c
      BY <3>1, Zenon
    <3>3. c \in 1 .. k /\ k <= c
      BY <1>4, <3>1, <3>2
    <3>4. c = k /\ P # {}
      BY <1>0, <3>1, <3>3
    <3>5. FromAt(t) = nHistory[IF P = {} THEN 1 ELSE c]
      BY Zenon DEF FromAt
    <3> HIDE DEF P, c
    <3> QED
      BY <2>2, <3>4, <3>5
  <2> QED
    BY <2>1, <2>2
<1>7. ASSUME k < n PROVE ToAt(t) = nHistory[k + 1]
  <2> DEFINE Q == LaterAt(t)
             c == CHOOSE m \in Q : \A j \in Q : m <= j
  <2>1. k + 1 \in Q /\ \A j \in Q : k + 1 <= j
    BY <1>0, <1>1, <1>5, <1>7
  <2>2. c \in Q /\ \A j \in Q : c <= j
    BY <2>1, Zenon
  <2>3. c \in k + 1 .. n /\ c <= k + 1
    BY <1>5, <2>1, <2>2
  <2>4. c = k + 1
    BY <1>0, <1>1, <2>3
  <2>5. ToAt(t) = nHistory[c]
    BY Zenon DEF ToAt
  <2> HIDE DEF Q, c
  <2> QED
    BY <2>4, <2>5
<1> QED
  BY <1>4, <1>5, <1>6, <1>7 DEF n

\* Where the fighter is then.
LEMMA SampleReached ==
  ASSUME ActorsAgree, nHistory # <<>>, NothingGone, NEW t \in Int, NEW ahead,
         NEW k \in 0 .. Len(nHistory), Reached(t, k)
  PROVE  /\ k = 0 => Sample(t, ahead) = nHistory[1].x
         /\ k = Len(nHistory) => Sample(t, ahead) = Newest.x + Velocity * Lesser(ahead, t - Newest.at)
         /\ k > 0 /\ k < Len(nHistory) =>
              LET span == nHistory[k + 1].at - nHistory[k].at
              IN Sample(t, ahead) = nHistory[k].x
                   + Way(nHistory[k + 1].x - nHistory[k].x, Part(t - nHistory[k].at, span), span)
<1> DEFINE n == Len(nHistory)
<1>1. /\ n \in Nat /\ n > 0 /\ k \in 0 .. n
      /\ \A j \in 1 .. n : nHistory[j].at \in Nat /\ nHistory[j].x # Gone
      /\ \A i, j \in 1 .. n : i < j => nHistory[i].at < nHistory[j].at
  BY HistoryIs
<1>2. /\ LaterAt(t) = k + 1 .. n /\ FromAt(t) = nHistory[IF k = 0 THEN 1 ELSE k]
      /\ k < n => ToAt(t) = nHistory[k + 1]
  BY ReachedSplits
<1> DEFINE beyond == Newest.x + Velocity * Lesser(ahead, t - Newest.at)
           way == ((ToAt(t).x - FromAt(t).x) * Part(t - FromAt(t).at, SpanAt(t))) \div SpanAt(t)
<1>3. Sample(t, ahead) =
        CASE nHistory = <<>> \/ FromAt(t).x = Gone -> Gone
          [] LaterAt(t) # {} /\ ToAt(t).x = Gone -> Gone
          [] LaterAt(t) # {} /\ ToAt(t).x # Gone -> IF SpanAt(t) = 0 THEN ToAt(t).x ELSE FromAt(t).x + way
          [] OTHER -> beyond
  BY SampleIs, Zenon
<1>4. SpanAt(t) = ToAt(t).at - FromAt(t).at
  BY DEF SpanAt
<1>5. way = Way(ToAt(t).x - FromAt(t).x, Part(t - FromAt(t).at, SpanAt(t)), SpanAt(t))
  BY Zenon DEF Way
<1> HIDE DEF n, beyond, way
<1>6. FromAt(t).x # Gone
  BY <1>1, <1>2
<1>7. CASE k = n
  <2>1. LaterAt(t) = {} /\ k # 0
    BY <1>1, <1>2, <1>7
  <2>2. Sample(t, ahead) = beyond
    BY <1>3, <1>6, <2>1
  <2> QED
    BY <1>1, <1>7, <2>1, <2>2 DEF n, beyond
<1>8. CASE k < n
  <2>1. LaterAt(t) # {} /\ k + 1 \in 1 .. n
    BY <1>1, <1>2, <1>8
  <2>2. ToAt(t).x # Gone /\ ToAt(t) = nHistory[k + 1]
    BY <1>1, <1>2, <1>8, <2>1
  <2>3. Sample(t, ahead) = IF SpanAt(t) = 0 THEN ToAt(t).x ELSE FromAt(t).x + way
    BY <1>3, <1>6, <2>1, <2>2
  <2>4. CASE k = 0
    <3>1. FromAt(t) = nHistory[1] /\ ToAt(t) = nHistory[1] /\ nHistory[1].at \in Nat
      BY <1>1, <1>2, <2>2, <2>4
    <3>2. SpanAt(t) = 0
      BY <1>4, <3>1
    <3> QED
      BY <1>8, <2>3, <2>4, <3>1, <3>2 DEF n
  <2>5. CASE k # 0
    <3>1. FromAt(t) = nHistory[k] /\ k \in 1 .. n
      BY <1>1, <1>2, <2>5
    <3>2. nHistory[k].at < nHistory[k + 1].at /\ nHistory[k].at \in Nat /\ nHistory[k + 1].at \in Nat
      BY <1>1, <2>1, <3>1
    <3>3. SpanAt(t) = nHistory[k + 1].at - nHistory[k].at /\ SpanAt(t) # 0
      BY <1>4, <2>2, <3>1, <3>2
    <3>4. Sample(t, ahead) = FromAt(t).x + way
      BY <2>3, <3>3
    <3> QED
      BY <1>5, <1>8, <2>2, <2>5, <3>1, <3>3, <3>4 DEF n
  <2> QED
    BY <2>4, <2>5
<1> QED
  BY <1>1, <1>7, <1>8 DEF n

\* The speed between the two newest snapshots is exact.
LEMMA VelocityIs ==
  ASSUME ActorsAgree, nHistory # <<>>, NothingGone
  PROVE  /\ Velocity \in Int
         /\ Len(nHistory) = 1 => Velocity = 0
         /\ Len(nHistory) > 1 =>
              /\ Newest.tick - nHistory[Len(nHistory) - 1].tick \in Nat
              /\ Newest.tick - nHistory[Len(nHistory) - 1].tick > 0
              /\ Newest.x - nHistory[Len(nHistory) - 1].x
                   = (Newest.tick - nHistory[Len(nHistory) - 1].tick) * Velocity
<1> DEFINE n == Len(nHistory)
<1>1. /\ n \in Nat /\ n > 0 /\ Newest = nHistory[n]
      /\ \A k \in 1 .. n :
           /\ nHistory[k].tick \in 1 .. MaxTick /\ nHistory[k].tick \in Nat
           /\ nHistory[k].x \in Whole /\ nHistory[k].x \in Int /\ nHistory[k].x # Gone
      /\ \A j, k \in 1 .. n : j < k => nHistory[j].tick < nHistory[k].tick
  BY HistoryIs
<1> HIDE DEF n
<1>2. CASE n < 2
  <2>1. n = 1
    BY <1>1, <1>2
  <2>2. Velocity = 0
    BY <1>2 DEF Velocity, n
  <2> QED
    BY <2>1, <2>2 DEF n
<1>3. CASE ~(n < 2)
  <2> DEFINE older == nHistory[n - 1]
             s == Newest.tick - older.tick
             a == older.x \div s
             b == Newest.x \div s
  <2>1. n - 1 \in 1 .. n /\ n \in 1 .. n /\ n - 1 < n
    BY <1>1, <1>3
  <2>2. /\ older.tick \in 1 .. MaxTick /\ Newest.tick \in 1 .. MaxTick /\ older.tick < Newest.tick
        /\ older.x \in Whole /\ Newest.x \in Whole /\ older.x # Gone /\ Newest.x # Gone
    BY <1>1, <2>1
  <2>3. MaxTick \in Nat
    BY ActorAssumption
  <2>4. s \in 1 .. MaxTick - 1 /\ s \in Nat /\ s > 0
    BY <2>2, <2>3
  <2>5. older.x \in Int /\ Newest.x \in Int /\ older.x % s = 0 /\ Newest.x % s = 0
    <3> HIDE DEF older, s
    <3> QED
      BY <2>2, <2>4, Zenon DEF Whole
  <2>6. Velocity = (Newest.x - older.x) \div s
    <3>1. Velocity = IF n < 2 THEN 0
                     ELSE IF Gone \in {older.x, Newest.x} THEN 0 ELSE (Newest.x - older.x) \div Span(older, Newest)
      BY Zenon DEF Velocity, n
    <3>2. Span(older, Newest) = s
      BY DEF Span
    <3> HIDE DEF older, s
    <3> QED
      BY <1>3, <2>2, <3>1, <3>2
  <2> HIDE DEF older, s
  <2>7. a \in Int /\ older.x = s * a
    BY <2>4, <2>5, Multiples
  <2>8. b \in Int /\ Newest.x = s * b
    BY <2>4, <2>5, Multiples
  <2> HIDE DEF a, b
  <2> DEFINE q == b - a
  <2>9. q \in Int
    BY <2>7, <2>8
  <2>10. Newest.x - older.x = s * q /\ s * q = q * s
    BY <2>4, <2>7, <2>8
  <2> HIDE DEF q
  <2>11. Velocity = q
    BY <2>4, <2>6, <2>9, <2>10, QuotientOfProduct
  <2> QED
    BY <1>1, <1>3, <2>4, <2>9, <2>10, <2>11 DEF n, s, older
<1> QED
  BY <1>2, <1>3

\* What a fighter goes beyond its newest snapshot.
LEMMA BeyondIs ==
  ASSUME ActorsAgree, nHistory # <<>>, NothingGone, NEW m \in Nat
  PROVE  /\ Velocity * m \in Int /\ Velocity * 0 = 0
         /\ Velocity >= 0 => Velocity * m >= 0
         /\ Velocity <= 0 => Velocity * m <= 0
         /\ \A k \in Nat : m <= k => /\ Velocity >= 0 => Velocity * m <= Velocity * k
                                     /\ Velocity <= 0 => Velocity * k <= Velocity * m
<1>1. Velocity \in Int
  BY VelocityIs
<1> QED
  BY <1>1, Products, ProductsGrow

Older == nHistory[IF Len(nHistory) = 1 THEN 1 ELSE Len(nHistory) - 1]
Reach == IF Len(nHistory) = 1 THEN 0
         ELSE (Size(Newest.x - Older.x) * MaxAhead) \div (Newest.tick - Older.tick)

LEMMA ReachIs ==
  ASSUME ActorsAgree, nHistory # <<>>, NothingGone
  PROVE  Reach \in Nat /\ \A m \in 0 .. MaxAhead : -Reach <= Velocity * m /\ Velocity * m <= Reach
<1>1. Len(nHistory) \in Nat /\ Len(nHistory) > 0 /\ MaxAhead \in Nat /\ Velocity \in Int
  BY HistoryIs, VelocityIs, ActorAssumption
<1>2. CASE Len(nHistory) = 1
  <2>1. Velocity = 0 /\ Reach = 0
    BY <1>2, VelocityIs DEF Reach
  <2> QED
    BY <1>1, <2>1
<1>3. CASE Len(nHistory) # 1
  <2>0. Len(nHistory) > 1
    <3> DEFINE n == Len(nHistory)
    <3>1. n \in Nat /\ n > 0 /\ n # 1
      BY <1>1, <1>3
    <3> HIDE DEF n
    <3>2. n > 1
      BY <3>1
    <3> QED
      BY <3>2 DEF n
  <2> DEFINE s == Newest.tick - Older.tick  v == Velocity  d == Newest.x - Older.x  z == Size(v)
  <2>1. s \in Nat /\ s > 0 /\ d = s * v /\ v \in Int
    <3>1. Older = nHistory[Len(nHistory) - 1]
      BY <1>3, Zenon DEF Older
    <3> QED
      BY <1>1, <2>0, <3>1, VelocityIs
  <2>2. Reach = (Size(d) * MaxAhead) \div s
    BY <1>3 DEF Reach
  <2> HIDE DEF s, v, d, z
  <2>3. /\ z \in Nat
        /\ v >= 0 => z = v /\ s * v >= 0
        /\ v < 0 => z = -v /\ s * v <= 0 /\ s * (-v) = -(s * v)
    <3>1. /\ z \in Nat
          /\ v >= 0 => z = v
          /\ v < 0 => z = -v
      BY <2>1 DEF z, Size
    <3>2. v * s = s * v /\ (v >= 0 => v * s >= 0) /\ (v <= 0 => v * s <= 0) /\ s * (-v) = -(s * v)
      BY <2>1, Products
    <3> QED
      BY <2>1, <3>1, <3>2
  <2>4. Size(d) = s * z
    <3>1. CASE v >= 0
      BY <2>1, <2>3, <3>1 DEF Size
    <3>2. CASE v < 0
      <4>1. s * z = -d /\ d \in Int /\ d <= 0
        BY <2>1, <2>3, <3>2
      <4> QED
        BY <4>1 DEF Size
    <3> QED
      BY <2>1, <3>1, <3>2
  <2> DEFINE r == z * MaxAhead
  <2>5. r \in Nat /\ (s * z) * MaxAhead = r * s
    <3>1. z * MaxAhead \in Int /\ z * MaxAhead >= 0
      BY <1>1, <2>3, Products
    <3>2. (s * z) * MaxAhead = (z * MaxAhead) * s
      BY <1>1, <2>1, <2>3
    <3> QED
      BY <3>1, <3>2
  <2>6. r = z * MaxAhead
    OBVIOUS
  <2> HIDE DEF r
  <2>7. Reach = r
    BY <2>1, <2>2, <2>4, <2>5, QuotientOfProduct
  <2>8. ASSUME NEW m \in 0 .. MaxAhead PROVE -r <= v * m /\ v * m <= r
    <3>1. m \in Int /\ 0 <= m /\ m <= MaxAhead
      BY <1>1
    <3>2. z * m >= 0 /\ z * m <= r /\ z * m \in Int
      BY <1>1, <2>3, <2>6, <3>1, Products, ProductsGrow
    <3>3. (v >= 0 => v * m = z * m) /\ (v < 0 => v * m = -(z * m))
      <4>1. ASSUME v < 0 PROVE v * m = -(z * m)
        <5>1. z = -v
          BY <2>3, <4>1
        <5>2. (-v) * m = -(v * m) /\ v * m \in Int
          BY <2>1, <3>1
        <5> QED
          BY <5>1, <5>2
      <4> QED
        BY <2>3, <4>1
    <3> QED
      BY <2>1, <2>5, <3>2, <3>3
  <2> QED
    BY <2>5, <2>7, <2>8 DEF v
<1> QED
  BY <1>2, <1>3

\* Between two snapshots the sample is between their places.
LEMMA BetweenIs ==
  ASSUME ActorsAgree, nHistory # <<>>, NothingGone, NEW t \in Int, NEW ahead,
         NEW k \in 1 .. Len(nHistory) - 1, Reached(t, k)
  PROVE  /\ Sample(t, ahead) \in Int
         /\ nHistory[k].x <= nHistory[k + 1].x =>
              nHistory[k].x <= Sample(t, ahead) /\ Sample(t, ahead) <= nHistory[k + 1].x
         /\ nHistory[k + 1].x <= nHistory[k].x =>
              nHistory[k + 1].x <= Sample(t, ahead) /\ Sample(t, ahead) <= nHistory[k].x
<1> DEFINE span == nHistory[k + 1].at - nHistory[k].at
           p == Part(t - nHistory[k].at, span)
           d == nHistory[k + 1].x - nHistory[k].x
<1>1. /\ k \in 1 .. Len(nHistory) /\ k + 1 \in 1 .. Len(nHistory) /\ k < k + 1
      /\ k \in 0 .. Len(nHistory) /\ k > 0 /\ k < Len(nHistory)
  BY HistoryIs
<1>2. /\ nHistory[k].at \in Nat /\ nHistory[k + 1].at \in Nat /\ nHistory[k].at < nHistory[k + 1].at
      /\ nHistory[k].x \in Int /\ nHistory[k + 1].x \in Int
  BY <1>1, HistoryIs
<1>3. span \in Nat /\ span > 0 /\ d \in Int /\ t - nHistory[k].at \in Int
  BY <1>2
<1>4. p \in 0 .. span
  BY <1>3, PartIs
<1>5. Sample(t, ahead) = nHistory[k].x + Way(d, p, span)
  BY <1>1, SampleReached
<1> HIDE DEF span, p
<1>6. /\ Way(d, p, span) \in Int
      /\ d >= 0 => 0 <= Way(d, p, span) /\ Way(d, p, span) <= d
      /\ d <= 0 => d <= Way(d, p, span) /\ Way(d, p, span) <= 0
  BY <1>3, <1>4, WayIs
<1> DEFINE w == Way(d, p, span)
<1> HIDE DEF w
<1>7. w \in Int /\ (d >= 0 => 0 <= w /\ w <= d) /\ (d <= 0 => d <= w /\ w <= 0)
      /\ Sample(t, ahead) = nHistory[k].x + w
  BY <1>5, <1>6 DEF w
<1> DEFINE a == nHistory[k].x  b == nHistory[k + 1].x  c == Sample(t, ahead)
<1>8. a \in Int /\ b \in Int /\ d = b - a /\ c = a + w
  BY <1>2, <1>7
<1> HIDE DEF a, b, c, d
<1>9. c \in Int /\ (a <= b => a <= c /\ c <= b) /\ (b <= a => b <= c /\ c <= a)
  BY <1>7, <1>8
<1> QED
  BY <1>9 DEF a, b, c

\* Ahead of the newest snapshot, for how long it has been.
LEMMA AheadIs ==
  ASSUME ActorsAgree, nHistory # <<>>, NothingGone, NEW t \in Int, NEW ahead \in Nat,
         Reached(t, Len(nHistory))
  PROVE  \E m \in 0 .. ahead : /\ m = Lesser(ahead, t - Newest.at)
                               /\ Sample(t, ahead) = Newest.x + Velocity * m
<1>1. Len(nHistory) \in 0 .. Len(nHistory) /\ Newest.at \in Nat /\ Newest.at <= t
  <2>1. Len(nHistory) \in 1 .. Len(nHistory)
    BY HistoryIs
  <2>2. Newest.at \in Nat /\ Newest.at <= t
    BY <2>1, HistoryIs DEF Reached
  <2> QED
    BY <2>1, <2>2
<1>2. Sample(t, ahead) = Newest.x + Velocity * Lesser(ahead, t - Newest.at)
  BY <1>1, SampleReached
<1>3. Lesser(ahead, t - Newest.at) \in 0 .. ahead
  BY <1>1 DEF Lesser
<1> QED
  BY <1>2, <1>3

LEMMA DrawnNearHolds == ActorsAgree => DrawnNear
<1> SUFFICES ASSUME ActorsAgree, nHistory # <<>>, NothingGone, NEW time \in Times
             PROVE  \E low, high \in Recorded : DrawnRemote(time) \in low - Reach .. high + Reach
  BY Zenon DEF DrawnNear, Reach, Older
<1> DEFINE t == time - nDelay  n == Len(nHistory)  sample == Sample(t, MaxAhead)
<1>1. t \in Int /\ MaxAhead \in Nat /\ Reach \in Nat
  BY ReachIs, ActorAssumption DEF Times, ActorsAgree
<1>2. PICK k \in 0 .. n : Reached(t, k)
  BY <1>1, ReachedSome
<1>3. /\ n \in Nat /\ n > 0 /\ Newest = nHistory[n]
      /\ \A j \in 1 .. n : nHistory[j].x \in Int /\ nHistory[j].x \in Recorded
  BY HistoryIs DEF Recorded
<1>4. DrawnRemote(time) = IF sample = Gone THEN nShown.x ELSE sample
  BY Zenon DEF DrawnRemote
<1> HIDE DEF t, n, sample
<1>5. Gone \notin Int
  BY ActorAssumption
<1>6. \E low, high \in Recorded :
        /\ low \in Int /\ high \in Int /\ sample \in Int
        /\ low - Reach <= sample /\ sample <= high + Reach
  <2>1. CASE k = 0
    <3>1. sample = nHistory[1].x /\ 1 \in 1 .. n
      BY <1>1, <1>2, <1>3, <2>1, SampleReached DEF n, sample
    <3> QED
      BY <1>1, <1>3, <3>1
  <2>2. CASE k = n
    <3>1. PICK m \in 0 .. MaxAhead : sample = Newest.x + Velocity * m
      BY <1>1, <1>2, <2>2, AheadIs DEF n, sample
    <3>2. -Reach <= Velocity * m /\ Velocity * m <= Reach /\ Velocity * m \in Int
      BY <3>1, <1>1, ReachIs, BeyondIs
    <3>3. n \in 1 .. n /\ Newest.x \in Int /\ Newest.x \in Recorded
      BY <1>3
    <3>4. Newest.x - Reach <= sample /\ sample <= Newest.x + Reach /\ sample \in Int
      BY <1>1, <3>1, <3>2, <3>3
    <3> QED
      BY <3>3, <3>4
  <2>3. CASE k # 0 /\ k # n
    <3>1. k \in 1 .. n - 1 /\ k \in 1 .. n /\ k + 1 \in 1 .. n
      BY <1>2, <1>3, <2>3
    <3>2. /\ sample \in Int
          /\ nHistory[k].x <= nHistory[k + 1].x =>
               nHistory[k].x <= sample /\ sample <= nHistory[k + 1].x
          /\ nHistory[k + 1].x <= nHistory[k].x =>
               nHistory[k + 1].x <= sample /\ sample <= nHistory[k].x
      BY <1>1, <1>2, <3>1, BetweenIs DEF n, sample
    <3>3. nHistory[k].x \in Int /\ nHistory[k + 1].x \in Int
          /\ nHistory[k].x \in Recorded /\ nHistory[k + 1].x \in Recorded
      BY <1>3, <3>1
    <3>4. CASE nHistory[k].x <= nHistory[k + 1].x
      <4>1. nHistory[k].x - Reach <= sample /\ sample <= nHistory[k + 1].x + Reach
        BY <1>1, <3>2, <3>3, <3>4
      <4> QED
        BY <3>2, <3>3, <4>1
    <3>5. CASE nHistory[k + 1].x <= nHistory[k].x
      <4>1. nHistory[k + 1].x - Reach <= sample /\ sample <= nHistory[k].x + Reach
        BY <1>1, <3>2, <3>3, <3>5
      <4> QED
        BY <3>2, <3>3, <4>1
    <3> QED
      BY <3>3, <3>4, <3>5
  <2> QED
    BY <2>1, <2>2, <2>3
<1> QED
  <2>1. PICK low \in Recorded, high \in Recorded :
          /\ low \in Int /\ high \in Int /\ sample \in Int
          /\ low - Reach <= sample /\ sample <= high + Reach
    BY <1>6
  <2>2. DrawnRemote(time) = sample
    BY <1>4, <1>5, <2>1
  <2>3. DrawnRemote(time) \in low - Reach .. high + Reach
    BY <1>1, <2>1, <2>2
  <2> QED
    BY <2>3

\* A fighter is where a snapshot had it when that arrives.
LEMMA ArrivedNow ==
  ASSUME ActorsAgree, nHistory # <<>>, NothingGone, NEW t \in Int, NEW ahead \in Nat,
         NEW j \in 1 .. Len(nHistory), nHistory[j].at = t
  PROVE  Reached(t, j) /\ Sample(t, ahead) = nHistory[j].x
<1> DEFINE n == Len(nHistory)
<1>1. /\ n \in Nat /\ n > 0 /\ Newest = nHistory[n]
      /\ \A i \in 1 .. n : nHistory[i].at \in Nat /\ nHistory[i].x \in Int
      /\ \A i, k \in 1 .. n : i < k => nHistory[i].at < nHistory[k].at
  BY HistoryIs
<1>0. j \in 1 .. n
  OBVIOUS
<1> HIDE DEF n
<1>2. j \in 0 .. n /\ j > 0 /\ j \in Int
  BY <1>0, <1>1
<1>3. j = n \/ t < nHistory[j + 1].at
  <2> SUFFICES ASSUME j # n PROVE t < nHistory[j + 1].at
    OBVIOUS
  <2>1. j + 1 \in 1 .. n /\ j < j + 1
    BY <1>0, <1>1
  <2> QED
    BY <1>0, <1>1, <2>1
<1>4. Reached(t, j)
  BY <1>3 DEF Reached, n
<1>5. CASE j = n
  <2>1. PICK m \in 0 .. ahead : /\ m = Lesser(ahead, t - Newest.at)
                                /\ Sample(t, ahead) = Newest.x + Velocity * m
    BY <1>4, <1>5, AheadIs DEF n
  <2>2. Newest.at = t /\ Newest.x \in Int /\ Newest.x = nHistory[j].x
    BY <1>0, <1>1, <1>5
  <2>3. m = 0
    BY <2>1, <2>2 DEF Lesser
  <2>4. Velocity * 0 = 0
    BY BeyondIs
  <2> QED
    BY <1>4, <2>1, <2>2, <2>3, <2>4
<1>6. CASE j # n
  <2> DEFINE span == nHistory[j + 1].at - nHistory[j].at
             d == nHistory[j + 1].x - nHistory[j].x
             done == t - nHistory[j].at
             p == Part(done, span)
  <2>1. j + 1 \in 1 .. n /\ j < j + 1 /\ j < n
    BY <1>0, <1>1, <1>6
  <2>2. span \in Nat /\ span > 0 /\ d \in Int /\ nHistory[j].x \in Int /\ done = 0
    <3>1. /\ nHistory[j].at \in Nat /\ nHistory[j + 1].at \in Nat /\ nHistory[j].at < nHistory[j + 1].at
          /\ nHistory[j].x \in Int /\ nHistory[j + 1].x \in Int
      BY <1>0, <1>1, <2>1
    <3> QED
      BY <3>1
  <2>3. Sample(t, ahead) = nHistory[j].x + Way(d, p, span)
    BY <1>2, <1>4, <2>1, SampleReached DEF n
  <2> HIDE DEF span, d, done
  <2>4. p \in 0 .. span /\ p = 0
    <3>1. done \in Int /\ done <= 0
      BY <2>2
    <3> QED
      BY <2>2, <3>1, PartIs
  <2>5. Way(d, p, span) = 0
    BY <2>2, <2>4, WayIs
  <2> HIDE DEF p
  <2> DEFINE w == Way(d, p, span)
  <2>6. w = 0 /\ Sample(t, ahead) = nHistory[j].x + w
    BY <2>3, <2>5
  <2> HIDE DEF w
  <2> QED
    BY <1>4, <2>2, <2>6
<1> QED
  BY <1>5, <1>6

\* The places of the history go one way.
Ascends(sign) == \A k \in 1 .. Len(nHistory) - 1 : sign * nHistory[k].x <= sign * nHistory[k + 1].x

\* Then so does the speed.
LEMMA SpeedAscends ==
  ASSUME ActorsAgree, nHistory # <<>>, NothingGone, NEW sign \in {-1, 1}, Ascends(sign)
  PROVE  (sign = 1 => Velocity >= 0) /\ (sign = -1 => Velocity <= 0)
<1> DEFINE n == Len(nHistory)  v == Velocity  s == Newest.tick - nHistory[n - 1].tick
<1>1. n \in Nat /\ n > 0 /\ Newest = nHistory[n] /\ \A k \in 1 .. n : nHistory[k].x \in Int
  BY HistoryIs
<1>2. /\ v \in Int
      /\ n = 1 => v = 0
      /\ n > 1 => s \in Nat /\ s > 0 /\ Newest.x - nHistory[n - 1].x = s * v
  BY VelocityIs
<1>a. \A k \in 1 .. n - 1 : sign * nHistory[k].x <= sign * nHistory[k + 1].x
  BY DEF Ascends
<1> HIDE DEF n, v, s
<1>3. CASE n = 1
  BY <1>2, <1>3 DEF v
<1>4. CASE n # 1
  <2>1. n > 1 /\ n - 1 \in 1 .. n - 1 /\ n - 1 \in 1 .. n /\ n \in 1 .. n /\ (n - 1) + 1 = n
    BY <1>1, <1>4
  <2>2. sign * nHistory[n - 1].x <= sign * nHistory[n].x
    BY <1>a, <2>1
  <2> DEFINE a == nHistory[n - 1].x  b == nHistory[n].x
  <2>3. a \in Int /\ b \in Int /\ b - a = s * v /\ s \in Nat /\ s > 0 /\ v \in Int /\ sign * a <= sign * b
    BY <1>1, <1>2, <2>1, <2>2
  <2> HIDE DEF a, b
  <2>4. s * v \in Int
    BY <2>3
  <2>5. (v < 0 => s * v < 0) /\ (v > 0 => s * v > 0)
    <3>1. s * v = v * s /\ s * 0 = 0 /\ s * 1 = s /\ s * (-1) = -s
      BY <2>3
    <3>2. v < 0 => s * v <= s * (-1)
      BY <2>3, ProductsGrow
    <3>3. v > 0 => s * 1 <= s * v
      BY <2>3, ProductsGrow
    <3> QED
      BY <2>3, <2>4, <3>1, <3>2, <3>3
  <2>6. CASE sign = 1
    <3>1. b - a >= 0
      BY <2>3, <2>6
    <3> QED
      BY <2>3, <2>4, <2>5, <2>6, <3>1 DEF v
  <2>7. CASE sign = -1
    <3>1. b - a <= 0
      BY <2>3, <2>7
    <3> QED
      BY <2>3, <2>4, <2>5, <2>7, <3>1 DEF v
  <2> QED
    BY <2>6, <2>7
<1> QED
  BY <1>3, <1>4

\* While no snapshot arrives, and when one does, the sample goes the way the history went.
LEMMA SampleAscends ==
  ASSUME ActorsAgree, nHistory # <<>>, NothingGone, NEW sign \in {-1, 1}, Ascends(sign),
         NEW t \in Int, NEW ahead \in Nat
  PROVE  /\ Sample(t, ahead) \in Int /\ Sample(t + 1, ahead) \in Int
         /\ sign * Sample(t, ahead) <= sign * Sample(t + 1, ahead)
<1> DEFINE n == Len(nHistory)  one == Sample(t, ahead)  two == Sample(t + 1, ahead)
<1>1. /\ n \in Nat /\ n > 0 /\ Newest = nHistory[n] /\ t + 1 \in Int
      /\ \A i \in 1 .. n : nHistory[i].at \in Nat /\ nHistory[i].x \in Int
      /\ \A i, k \in 1 .. n : i < k => nHistory[i].at < nHistory[k].at
  <2>1. n \in Nat /\ n > 0 /\ Newest = nHistory[n]
    BY HistoryIs
  <2>2. \A i \in 1 .. n : nHistory[i].at \in Nat /\ nHistory[i].x \in Int
    BY HistoryIs
  <2>3. \A i, k \in 1 .. n : i < k => nHistory[i].at < nHistory[k].at
    BY HistoryIs
  <2> QED
    BY <2>1, <2>2, <2>3
<1>2. PICK k \in 0 .. n : Reached(t, k)
  BY ReachedSome
<1>3. (k = 0 \/ nHistory[k].at <= t) /\ (k = n \/ t < nHistory[k + 1].at)
  BY <1>2 DEF Reached
<1>a. \A j \in 1 .. n - 1 : sign * nHistory[j].x <= sign * nHistory[j + 1].x
  BY DEF Ascends
<1> HIDE DEF n, one, two
<1>4. CASE Reached(t + 1, k)
  <2>1. CASE k = 0
    <3>1. one = nHistory[1].x /\ two = nHistory[1].x /\ 1 \in 1 .. n
      BY <1>1, <1>2, <1>4, <2>1, SampleReached DEF n, one, two
    <3> QED
      BY <1>1, <3>1 DEF one, two
  <2>2. CASE k = n
    <3>1. PICK m \in 0 .. ahead : /\ m = Lesser(ahead, t - Newest.at)
                                  /\ one = Newest.x + Velocity * m
      BY <1>2, <2>2, AheadIs DEF n, one
    <3>2. PICK q \in 0 .. ahead : /\ q = Lesser(ahead, (t + 1) - Newest.at)
                                  /\ two = Newest.x + Velocity * q
      BY <1>1, <1>4, <2>2, AheadIs DEF n, two
    <3>3. n \in 1 .. n /\ Newest.at \in Nat /\ Newest.x \in Int
      BY <1>1
    <3>4. m <= q /\ m \in Nat /\ q \in Nat
      <4> DEFINE u == t - Newest.at
      <4>1. u \in Int /\ (t + 1) - Newest.at = u + 1
        BY <3>3
      <4>2. m = Lesser(ahead, u) /\ q = Lesser(ahead, u + 1)
        BY <3>1, <3>2, <4>1
      <4> HIDE DEF u
      <4>3. m <= q
        BY <4>1, <4>2 DEF Lesser
      <4> QED
        BY <4>3
    <3>5. Velocity * m \in Int /\ Velocity * q \in Int
          /\ (Velocity >= 0 => Velocity * m <= Velocity * q)
          /\ (Velocity <= 0 => Velocity * q <= Velocity * m)
      BY <3>4, BeyondIs
    <3> DEFINE vm == Velocity * m  vq == Velocity * q
    <3>6. vm \in Int /\ vq \in Int /\ (sign = 1 => vm <= vq) /\ (sign = -1 => vq <= vm)
      BY <3>5, SpeedAscends
    <3>7. one = Newest.x + vm /\ two = Newest.x + vq
      BY <3>1, <3>2
    <3> HIDE DEF vm, vq
    <3>8. one \in Int /\ two \in Int /\ (sign = 1 => one <= two) /\ (sign = -1 => two <= one)
      BY <3>3, <3>6, <3>7
    <3> QED
      BY <3>8 DEF one, two
  <2>3. CASE k # 0 /\ k # n
    <3> DEFINE span == nHistory[k + 1].at - nHistory[k].at
               d == nHistory[k + 1].x - nHistory[k].x
               p == Part(t - nHistory[k].at, span)
               q == Part((t + 1) - nHistory[k].at, span)
    <3>1. k \in 1 .. n - 1 /\ k \in 1 .. n /\ k + 1 \in 1 .. n /\ k < k + 1 /\ k > 0 /\ k < n
      BY <1>1, <1>2, <2>3
    <3>2. /\ nHistory[k].at \in Nat /\ nHistory[k + 1].at \in Nat /\ nHistory[k].at < nHistory[k + 1].at
          /\ nHistory[k].x \in Int /\ nHistory[k + 1].x \in Int
          /\ sign * nHistory[k].x <= sign * nHistory[k + 1].x
      BY <1>1, <1>a, <3>1
    <3>3. /\ span \in Nat /\ span > 0 /\ d \in Int /\ (sign = 1 => d >= 0) /\ (sign = -1 => d <= 0)
          /\ t - nHistory[k].at \in Int /\ (t + 1) - nHistory[k].at \in Int
          /\ t - nHistory[k].at <= (t + 1) - nHistory[k].at
      <4> DEFINE a == nHistory[k].x  b == nHistory[k + 1].x  e == nHistory[k].at  f == nHistory[k + 1].at
      <4>1. e \in Nat /\ f \in Nat /\ e < f /\ a \in Int /\ b \in Int /\ sign * a <= sign * b
        BY <3>2
      <4>2. span = f - e /\ d = b - a
        OBVIOUS
      <4> HIDE DEF a, b, e, f, span, d
      <4>3. (sign = 1 => a <= b) /\ (sign = -1 => b <= a)
        BY <4>1
      <4>4. span \in Nat /\ span > 0 /\ d \in Int /\ (sign = 1 => d >= 0) /\ (sign = -1 => d <= 0)
        BY <4>1, <4>2, <4>3
      <4>5. t - e \in Int /\ (t + 1) - e \in Int /\ t - e <= (t + 1) - e
        BY <4>1
      <4> QED
        BY <4>4, <4>5 DEF e
    <3>4. one = nHistory[k].x + Way(d, p, span)
      BY <1>2, <3>1, SampleReached DEF n, one
    <3>5. two = nHistory[k].x + Way(d, q, span)
      BY <1>1, <1>2, <1>4, <3>1, SampleReached DEF n, two
    <3> HIDE DEF span, d
    <3>6. p \in 0 .. span /\ q \in 0 .. span /\ p <= q
      BY <3>3, PartIs
    <3> HIDE DEF p, q
    <3> DEFINE v == Way(d, p, span)  w == Way(d, q, span)
    <3>7. v \in Int /\ w \in Int /\ (d >= 0 => v <= w) /\ (d <= 0 => w <= v)
      BY <3>3, <3>6, WayIs
    <3>8. one = nHistory[k].x + v /\ two = nHistory[k].x + w
      BY <3>4, <3>5
    <3> HIDE DEF v, w
    <3> DEFINE a == nHistory[k].x
    <3>9. a \in Int /\ d \in Int /\ one = a + v /\ two = a + w
          /\ (sign = 1 => d >= 0) /\ (sign = -1 => d <= 0)
      BY <3>2, <3>3, <3>8
    <3> HIDE DEF a
    <3>10. one \in Int /\ two \in Int /\ (sign = 1 => one <= two) /\ (sign = -1 => two <= one)
      BY <3>7, <3>9
    <3> QED
      BY <3>10 DEF one, two
  <2> QED
    BY <2>1, <2>2, <2>3
<1>5. CASE ~Reached(t + 1, k)
  <2>1. k # n /\ ~(t + 1 < nHistory[k + 1].at)
    <3>1. k = 0 \/ nHistory[k].at <= t + 1
      BY <1>1, <1>2, <1>3
    <3> QED
      BY <1>5, <3>1 DEF Reached, n
  <2>2. k + 1 \in 1 .. n /\ nHistory[k + 1].at = t + 1
    <3>1. k + 1 \in 1 .. n
      BY <1>1, <1>2, <2>1
    <3>2. nHistory[k + 1].at \in Nat
      BY <1>1, <3>1
    <3> QED
      BY <1>3, <2>1, <3>1, <3>2
  <2>3. two = nHistory[k + 1].x /\ two \in Int
    BY <1>1, <2>2, ArrivedNow DEF n, two
  <2>4. CASE k = 0
    <3>1. one = nHistory[1].x
      BY <1>2, <2>4, SampleReached DEF n, one
    <3> QED
      BY <2>3, <2>4, <3>1 DEF one, two
  <2>5. CASE k # 0
    <3>1. k \in 1 .. n - 1 /\ k \in 1 .. n
      BY <1>1, <1>2, <2>1, <2>5
    <3>2. /\ nHistory[k].x \in Int /\ nHistory[k + 1].x \in Int
          /\ sign * nHistory[k].x <= sign * nHistory[k + 1].x
      BY <1>1, <1>a, <2>2, <3>1
    <3>3. /\ one \in Int
          /\ nHistory[k].x <= nHistory[k + 1].x => one <= nHistory[k + 1].x
          /\ nHistory[k + 1].x <= nHistory[k].x => nHistory[k + 1].x <= one
      BY <1>2, <3>1, BetweenIs DEF n, one
    <3>4. (sign = 1 => one <= two) /\ (sign = -1 => two <= one)
      BY <2>3, <3>2, <3>3
    <3> QED
      BY <2>3, <3>3, <3>4 DEF one, two
  <2> QED
    BY <2>4, <2>5
<1> QED
  BY <1>4, <1>5

LEMMA FramesRunForwardHolds == ActorsAgree => FramesRunForward
<1> SUFFICES ASSUME ActorsAgree, nHistory # <<>>, NothingGone, NEW sign \in {-1, 1},
                    Ascends(sign), NEW time \in Times
             PROVE  sign * DrawnRemote(time) <= sign * DrawnRemote(time + 1)
  BY Zenon DEF FramesRunForward, Ascends
<1> DEFINE t == time - nDelay  one == Sample(t, MaxAhead)  two == Sample(t + 1, MaxAhead)
<1>1. t \in Int /\ MaxAhead \in Nat /\ (time + 1) - nDelay = t + 1 /\ Gone \notin Int
  BY ActorAssumption DEF Times, ActorsAgree
<1>2. one \in Int /\ two \in Int /\ sign * one <= sign * two
  BY <1>1, SampleAscends
<1>3. DrawnRemote(time) = IF one = Gone THEN nShown.x ELSE one
  BY Zenon DEF DrawnRemote
<1>4. DrawnRemote(time + 1) = IF two = Gone THEN nShown.x ELSE two
  <2>1. DrawnRemote(time + 1) = IF Sample((time + 1) - nDelay, MaxAhead) = Gone THEN nShown.x
                                ELSE Sample((time + 1) - nDelay, MaxAhead)
    BY Zenon DEF DrawnRemote
  <2> QED
    BY <1>1, <2>1
<1> HIDE DEF one, two
<1> QED
  BY <1>1, <1>2, <1>3, <1>4

-----------------------------------------------------------------------------
(* The walk of a prediction. *)

Resting == [x |-> Newest.x, v |-> Velocity]

WalkLoop(walk, grounded, K) ==
  /\ DOMAIN walk = 0 .. K /\ walk[0] = Resting
  /\ \A k \in 1 .. K : walk[k] = Moved(walk[k - 1], nInput.axis, grounded)

WalkBy(walk, grounded, K) ==
  walk = [k \in 0 .. K |->
           IF k = 0 THEN [x |-> Newest.x, v |-> Velocity] ELSE Moved(walk[k - 1], nInput.axis, grounded)]

LEMMA WalkByIsLoop ==
  ASSUME NEW walk, NEW grounded, NEW K \in Nat
  PROVE  /\ WalkBy(walk, grounded, K) => WalkLoop(walk, grounded, K)
         /\ WalkLoop(walk, grounded, K) /\ walk = [k \in 0 .. K |-> walk[k]] => WalkBy(walk, grounded, K)
<1>1. ASSUME WalkBy(walk, grounded, K) PROVE WalkLoop(walk, grounded, K)
  <2>1. DOMAIN walk = 0 .. K /\ walk[0] = Resting
    BY <1>1 DEF WalkBy, Resting
  <2>2. ASSUME NEW k \in 1 .. K PROVE walk[k] = Moved(walk[k - 1], nInput.axis, grounded)
    <3>1. k \in 0 .. K /\ k # 0
      OBVIOUS
    <3> QED
      BY <1>1, <3>1 DEF WalkBy
  <2> QED
    BY <2>1, <2>2 DEF WalkLoop
<1>2. ASSUME WalkLoop(walk, grounded, K), walk = [k \in 0 .. K |-> walk[k]]
      PROVE  WalkBy(walk, grounded, K)
  <2>0. \A k \in 0 .. K : k = 0 \/ k \in 1 .. K
    OBVIOUS
  <2>1. \A k \in 0 .. K : walk[k] = IF k = 0 THEN Resting
                                    ELSE Moved(walk[k - 1], nInput.axis, grounded)
    BY <1>2, <2>0, Zenon DEF WalkLoop
  <2>2. Resting = [x |-> Newest.x, v |-> Velocity]
    BY DEF Resting
  <2>3. \A k \in 0 .. K : walk[k] = IF k = 0 THEN [x |-> Newest.x, v |-> Velocity]
                                    ELSE Moved(walk[k - 1], nInput.axis, grounded)
    BY <2>1, <2>2, Zenon
  <2> QED
    BY <1>2, <2>3, Zenon DEF WalkBy
<1> QED
  BY <1>1, <1>2

LEMMA WalkExists ==
  ASSUME NEW grounded
  PROVE  \A K \in Nat : \E walk : WalkBy(walk, grounded, K)
<1> DEFINE R == {K \in Nat : \E walk : WalkBy(walk, grounded, K)}
<1>1. 0 \in R
  <2>1. WalkBy([k \in 0 .. 0 |-> [x |-> Newest.x, v |-> Velocity]], grounded, 0)
    BY DEF WalkBy
  <2> QED
    BY <2>1
<1>2. ASSUME NEW K \in Nat, K \in R PROVE K + 1 \in R
  <2>1. PICK walk : WalkBy(walk, grounded, K)
    BY <1>2
  <2>2. WalkLoop(walk, grounded, K)
    BY <2>1, WalkByIsLoop
  <2> DEFINE last == Moved(walk[K], nInput.axis, grounded)
  <2> DEFINE more == Longer(walk, K, last)
  <2>3. DOMAIN more = 0 .. K + 1
    BY LongerLoop
  <2>4. /\ more = [k \in 0 .. K + 1 |-> more[k]]
        /\ more[K + 1] = last /\ \A k \in 0 .. K : more[k] = walk[k]
    BY LongerLoop
  <2> HIDE DEF more
  <2>5. ASSUME NEW k \in 1 .. K + 1 PROVE more[k] = Moved(more[k - 1], nInput.axis, grounded)
    <3>1. CASE k = K + 1
      <4>0. k - 1 = K /\ K \in 0 .. K
        BY <3>1
      <4>1. more[k - 1] = walk[K] /\ more[k] = last
        BY <2>4, <3>1, <4>0, Zenon
      <4> QED
        BY <3>1, <4>1
    <3>2. CASE k # K + 1
      <4>1. k \in 1 .. K /\ k \in 0 .. K /\ k - 1 \in 0 .. K
        BY <3>2
      <4>2. walk[k] = Moved(walk[k - 1], nInput.axis, grounded)
        BY <2>2, <4>1 DEF WalkLoop
      <4>3. more[k] = walk[k] /\ more[k - 1] = walk[k - 1]
        BY <2>4, <4>1
      <4> QED
        BY <4>2, <4>3, Zenon
    <3> QED
      BY <3>1, <3>2
  <2>6. DOMAIN more = 0 .. K + 1 /\ more[0] = Resting
    <3>1. more[0] = walk[0]
      BY <2>4
    <3> QED
      BY <2>2, <2>3, <3>1 DEF WalkLoop
  <2>7. WalkLoop(more, grounded, K + 1)
    BY <2>5, <2>6, Zenon DEF WalkLoop
  <2>8. WalkBy(more, grounded, K + 1)
    BY <2>4, <2>7, WalkByIsLoop
  <2> QED
    BY <2>8
<1> HIDE DEF R
<1>3. \A K \in Nat : K \in R
  BY <1>1, <1>2, ReachesAll
<1> QED
  BY <1>3 DEF R

LEMMA PredictedIsWalk ==
  ASSUME NEW time, Elapsed(time) \in Nat, NEW grounded
  PROVE  \E walk : /\ WalkLoop(walk, grounded, Elapsed(time))
                   /\ Predicted(time, grounded) = walk[Elapsed(time)].x
<1> DEFINE walk == CHOOSE t : WalkBy(t, grounded, Elapsed(time))
<1>1. WalkBy(walk, grounded, Elapsed(time))
  BY WalkExists, Zenon
<1>2. WalkLoop(walk, grounded, Elapsed(time))
  BY <1>1, WalkByIsLoop, Zenon
<1>3. Predicted(time, grounded) = walk[Elapsed(time)].x
  BY Zenon DEF Predicted, WalkBy
<1> QED
  BY <1>2, <1>3, Zenon

\* A speed is at most that of the newest snapshots, or a bound that grows three a tick to 9.
SpeedAfter(k) == Greater(Size(Velocity), Lesser(9 * Grain - 1, Size(Velocity) + 3 * k * Grain))

ReachBy(reach, K) ==
  reach = [k \in 0 .. K |->
            IF k = 0 THEN 0
            ELSE LET faster == Size(Velocity) + 3 * k * Grain
                 IN reach[k - 1] + Greater(Size(Velocity), Lesser(9 * Grain - 1, faster))]

LEMMA ReachIsLoop ==
  ASSUME NEW K \in Nat, NEW reach, reach = CHOOSE t : ReachBy(t, K)
  PROVE  /\ reach[0] = 0
         /\ \A k \in 1 .. K : reach[k] = reach[k - 1] + SpeedAfter(k)
<1> DEFINE numbers == [k \in Nat |-> SpeedAfter(k)]
<1>1. PICK sum : SumBy(sum, numbers, K)
  BY SumExists
<1>2. SumLoop(sum, numbers, K)
  BY <1>1, SumByIsLoop
<1>3. \A k \in 0 .. K : numbers[k] = SpeedAfter(k)
  OBVIOUS
<1> HIDE DEF numbers
<1>4. ReachBy(sum, K)
  <2>1. sum = [k \in 0 .. K |-> IF k = 0 THEN 0 ELSE sum[k - 1] + numbers[k]]
    BY <1>1 DEF SumBy
  <2>2. \A k \in 0 .. K : (IF k = 0 THEN 0 ELSE sum[k - 1] + numbers[k])
                          = (IF k = 0 THEN 0 ELSE sum[k - 1] + SpeedAfter(k))
    BY <1>3, Zenon
  <2>3. sum = [k \in 0 .. K |-> IF k = 0 THEN 0 ELSE sum[k - 1] + SpeedAfter(k)]
    BY <2>1, <2>2, Zenon
  <2> QED
    BY <2>3, Zenon DEF ReachBy, SpeedAfter
<1>5. ReachBy(reach, K)
  BY <1>4, Zenon
<1>6. reach = [k \in 0 .. K |-> IF k = 0 THEN 0 ELSE reach[k - 1] + SpeedAfter(k)]
  BY <1>5, Zenon DEF ReachBy, SpeedAfter
<1>7. reach[0] = 0
  <2>1. 0 \in 0 .. K
    OBVIOUS
  <2> QED
    BY <1>6, <2>1
<1>8. ASSUME NEW k \in 1 .. K PROVE reach[k] = reach[k - 1] + SpeedAfter(k)
  <2>1. k \in 0 .. K /\ k # 0
    OBVIOUS
  <2> QED
    BY <1>6, <2>1
<1> QED
  BY <1>7, <1>8

LEMMA SpeedIsWhole ==
  ASSUME ActorsAgree, nHistory # <<>>, Newest.x # Gone
  PROVE  Velocity \in Int /\ Newest.x \in Int
<1> DEFINE n == Len(nHistory)  older == nHistory[n - 1]
<1>1. Arrived(nHistory, nTime) /\ nHistory \in Seq(Entry) /\ Newest = nHistory[n]
  BY NewestIsLast DEF ActorsAgree, Arrived
<1>2. DOMAIN nHistory = 1 .. n /\ n \in Nat /\ n > 0
  BY <1>1, EmptySeq, LenProperties
<1>v. Velocity = IF n < 2 THEN 0 ELSE IF Gone \in {older.x, Newest.x} THEN 0
                                 ELSE (Newest.x - older.x) \div Span(older, Newest)
  BY Zenon DEF Velocity
<1>s. Span(older, Newest) = Newest.tick - older.tick
  BY DEF Span
<1> HIDE DEF n
<1>3. ASSUME NEW k \in 1 .. n
      PROVE  nHistory[k].tick \in Nat /\ (nHistory[k].x # Gone => nHistory[k].x \in Int)
  <2>1. nHistory[k] \in Entry
    BY <1>1, <1>2, ElementOfSeq DEF n
  <2>2. nHistory[k].tick \in Nat /\ nHistory[k].x \in Whole \cup {Gone}
    BY <2>1, MomentsAndEntries
  <2> QED
    BY <2>2 DEF Whole
<1>4. Newest.x \in Int
  BY <1>1, <1>2, <1>3
<1>5. Velocity \in Int
  <2>1. CASE n < 2 \/ older.x = Gone
    BY <1>v, <2>1
  <2>2. CASE ~(n < 2) /\ older.x # Gone
    <3>1. n - 1 \in 1 .. n /\ n \in 1 .. n /\ n - 1 < n
      BY <1>2, <2>2
    <3>2. older.tick < Newest.tick
      BY <1>1, <1>2, <3>1 DEF Arrived
    <3>3. older.tick \in Nat /\ Newest.tick \in Nat /\ older.x \in Int
      BY <1>1, <1>3, <2>2, <3>1
    <3> DEFINE s == Newest.tick - older.tick  d == Newest.x - older.x
    <3>4. s \in Nat /\ s > 0 /\ d \in Int
      BY <1>4, <3>2, <3>3
    <3>5. Velocity = d \div s
      BY <1>v, <1>s, <2>2
    <3> HIDE DEF s, d
    <3> QED
      BY <3>4, <3>5, Quotients
  <2> QED
    BY <2>1, <2>2
<1> QED
  BY <1>4, <1>5

\* What a tick with an input does to the speed along it.
LEMMA AlongGrows ==
  ASSUME NEW a \in Int, NEW g \in Nat, g > 0, NEW c \in {1, 3}
  PROVE  LET applied == Lesser(c, 8 - Sign(a) * (Size(a) \div g))
         IN /\ applied \in Int
            /\ applied > 0 => /\ applied * g \in Int
                              /\ a <= a + applied * g /\ a + applied * g <= a + 3 * g
                              /\ a + applied * g <= 9 * g - 1
<1> DEFINE q == Size(a) \div g
           applied == Lesser(c, 8 - Sign(a) * q)
<1>1. Size(a) \in Nat /\ (a >= 0 => Size(a) = a)
  BY DEF Size
<1>2. q \in Int /\ g * q \in Int /\ g * q <= Size(a) /\ Size(a) < g * q + g
  BY <1>1, Quotients
<1>3. (a < 0 => Sign(a) = -1) /\ (a = 0 => Sign(a) = 0) /\ (a > 0 => Sign(a) = 1) /\ Sign(a) \in {-1, 0, 1}
  BY DEF Sign
<1> HIDE DEF q
<1>4. Sign(a) * q \in Int /\ (a > 0 => Sign(a) * q = q)
  BY <1>2, <1>3
<1>5. applied \in Int /\ applied <= 3 /\ applied <= 8 - Sign(a) * q
  BY <1>4 DEF Lesser
<1> HIDE DEF applied
<1>6. ASSUME applied > 0
      PROVE  /\ applied * g \in Int /\ a <= a + applied * g /\ a + applied * g <= a + 3 * g
             /\ a + applied * g <= 9 * g - 1
  <2>1. applied \in {1, 2, 3}
    BY <1>5, <1>6
  <2>2. applied * g \in Int /\ 0 <= applied * g /\ applied * g <= 3 * g
    BY <2>1
  <2>3. CASE a <= 0
    BY <2>2, <2>3
  <2>4. CASE a > 0
    <3>1. g * applied <= g * (8 - q)
      <4>1. applied <= 8 - q /\ 8 - q \in Int
        BY <1>2, <1>4, <1>5, <2>4
      <4> QED
        BY <1>5, <4>1, ProductsGrow
    <3>2. g * (8 - q) = 8 * g - g * q /\ g * applied = applied * g
      BY <1>2, <1>5
    <3> DEFINE m == applied * g  z == g * q
    <3>3. m \in Int /\ z \in Int /\ m <= 8 * g - z /\ a < z + g /\ 0 <= m /\ m <= 3 * g
      BY <1>1, <1>2, <2>2, <2>4, <3>1, <3>2
    <3> HIDE DEF m, z
    <3>4. a <= a + m /\ a + m <= a + 3 * g /\ a + m <= 9 * g - 1
      BY <3>3
    <3> QED
      BY <2>2, <3>4 DEF m
  <2> QED
    BY <2>3, <2>4
<1> QED
  BY <1>5, <1>6 DEF applied, q

\* A tick makes nobody faster than that.
LEMMA SpeedGrows ==
  ASSUME NEW v \in Int, NEW axis \in {-1, 0, 1}, NEW grounded \in BOOLEAN
  PROVE  /\ StepsOn(v, axis, grounded) \in Int
         /\ \/ Size(StepsOn(v, axis, grounded)) <= Size(v)
            \/ /\ Size(StepsOn(v, axis, grounded)) <= Size(v) + 3 * Grain
               /\ Size(StepsOn(v, axis, grounded)) <= 9 * Grain - 1
<1>1. Grain \in Nat /\ Grain > 0
  BY ActorAssumption
<1> DEFINE g == Grain  z == Size(v)
<1>2. z \in Nat /\ (v >= 0 => z = v) /\ (v < 0 => z = -v)
  BY DEF Size
<1>3. CASE axis = 0
  <2> DEFINE b == (IF grounded THEN 2 ELSE 1) * Grain  r == Greater(0, Size(v) - b)
  <2>1. StepsOn(v, axis, grounded) = Sign(v) * r
    BY <1>3, Zenon DEF StepsOn, Slower
  <2>2. b \in Nat
    BY <1>1
  <2> HIDE DEF b
  <2>3. r \in Nat /\ r <= Size(v)
    BY <1>2, <2>2 DEF Greater
  <2> HIDE DEF r
  <2>4. Sign(v) * r \in Int /\ Size(Sign(v) * r) <= Size(v)
    <3>1. CASE v < 0
      <4>1. Sign(v) * r = -r
        BY <2>3, <3>1 DEF Sign
      <4>2. Size(-r) = r
        BY <2>3 DEF Size
      <4> QED
        BY <2>3, <4>1, <4>2
    <3>2. CASE v >= 0
      <4>1. Sign(v) * r = r \/ Sign(v) * r = 0
        BY <2>3, <3>2 DEF Sign
      <4>2. Size(r) = r /\ Size(0) = 0
        BY <2>3 DEF Size
      <4> QED
        BY <1>2, <2>3, <4>1, <4>2
    <3> QED
      BY <3>1, <3>2
  <2> QED
    BY <2>1, <2>4
<1>4. CASE axis \in {-1, 1}
  <2> DEFINE c == IF grounded THEN 3 ELSE 1
             a == axis * v
             applied == Lesser(c, 8 - Sign(a) * (Size(a) \div Grain))
  <2>0. Sign(axis) = axis /\ axis # 0
    BY <1>4 DEF Sign
  <2>1. StepsOn(v, axis, grounded) = IF applied > 0 THEN v + axis * applied * Grain ELSE v
    <3>1. StepsOn(v, axis, grounded) = Faster(v, axis, grounded)
      BY <2>0, Zenon DEF StepsOn
    <3>2. Faster(v, axis, grounded) = LET s == Sign(axis)
                                          m == Lesser(c, 8 - Sign(s * v) * (Size(s * v) \div Grain))
                                      IN IF m > 0 THEN v + s * m * Grain ELSE v
      BY Zenon DEF Faster
    <3> QED
      BY <2>0, <3>1, <3>2, Zenon
  <2>2. a \in Int /\ c \in {1, 3} /\ (axis = 1 => a = v) /\ (axis = -1 => a = -v)
    BY <1>4
  <2>3. /\ applied \in Int
        /\ applied > 0 => /\ applied * Grain \in Int
                          /\ a <= a + applied * Grain /\ a + applied * Grain <= a + 3 * Grain
                          /\ a + applied * Grain <= 9 * Grain - 1
    <3> HIDE DEF a, c
    <3> QED
      BY <1>1, <2>2, AlongGrows
  <2> HIDE DEF applied, a, c
  <2>4. CASE ~(applied > 0)
    BY <1>2, <2>1, <2>4
  <2>5. CASE applied > 0
    <3> DEFINE m == applied * Grain
    <3>1. m \in Int /\ a <= a + m /\ a + m <= a + 3 * Grain /\ a + m <= 9 * Grain - 1
      BY <2>3, <2>5
    <3>2. axis * applied * Grain = axis * m
      BY <1>1, <1>4, <2>3
    <3>3. StepsOn(v, axis, grounded) = v + axis * m
      BY <2>1, <2>5, <3>2
    <3> HIDE DEF m
    <3>4. axis * m \in Int /\ (axis = 1 => v + axis * m = a + m) /\ (axis = -1 => v + axis * m = -(a + m))
      BY <1>4, <2>2, <3>1
    <3> DEFINE w == v + axis * m
    <3>5. w \in Int /\ (w = a + m \/ w = -(a + m)) /\ (z = a \/ z = -a) /\ z \in Nat
      BY <1>2, <1>4, <2>2, <3>4
    <3> HIDE DEF w, z
    <3>6. Size(w) = a + m \/ Size(w) = -(a + m)
      BY <2>2, <3>1, <3>5 DEF Size
    <3>7. \/ Size(w) <= z
          \/ Size(w) <= z + 3 * Grain /\ Size(w) <= 9 * Grain - 1
      BY <1>1, <2>2, <3>1, <3>5, <3>6
    <3> QED
      BY <3>3, <3>5, <3>7 DEF w, z
  <2> QED
    BY <2>4, <2>5
<1> QED
  BY <1>3, <1>4

LEMMA PredictionIsNearHolds == ActorsAgree => PredictionIsNear
<1> DEFINE reach == CHOOSE t : ReachBy(t, LocalAhead)
<1> SUFFICES ASSUME ActorsAgree, NEW time \in Times, NEW grounded \in BOOLEAN, IsPredicted(time)
             PROVE  Size(Predicted(time, grounded) - Newest.x) <= reach[Elapsed(time)]
  <2>1. PredictionIsNear = \A time \in Times, grounded \in BOOLEAN :
          IsPredicted(time) => Size(Predicted(time, grounded) - Newest.x) <= reach[Elapsed(time)]
    BY Zenon DEF PredictionIsNear, ReachBy
  <2> HIDE DEF reach
  <2> QED
    BY <2>1, Zenon
<1>1. LocalAhead \in Nat /\ Grain \in Nat /\ Grain > 0
  BY ActorAssumption
<1>2. reach[0] = 0 /\ \A k \in 1 .. LocalAhead : reach[k] = reach[k - 1] + SpeedAfter(k)
  BY <1>1, ReachIsLoop
<1> HIDE DEF reach
<1>3. nHistory # <<>> /\ Newest.x # Gone
  BY DEF IsPredicted
<1>4. Velocity \in Int /\ Newest.x \in Int
  BY <1>3, SpeedIsWhole
<1>5. Elapsed(time) \in 0 .. LocalAhead
  <2> DEFINE e == Greater(0, time - Greater(Newest.at, nInput.at))
  <2>1. Arrived(nHistory, nTime) /\ nInput.at \in Int /\ time \in Int
    BY DEF ActorsAgree, Times
  <2>2. Newest.at \in Int
    <3>1. Len(nHistory) \in 1 .. Len(nHistory)
      BY <1>3, <2>1, EmptySeq DEF Arrived
    <3>2. nHistory[Len(nHistory)] \in Entry
      BY <2>1, <3>1, ElementOfSeq DEF Arrived
    <3> QED
      BY <3>2, NewestIsLast, MomentsAndEntries
  <2>3. Greater(Newest.at, nInput.at) \in Int
    BY <2>1, <2>2 DEF Greater
  <2>4. e \in Int /\ e >= 0
    BY <2>1, <2>3 DEF Greater
  <2>5. Elapsed(time) = Lesser(LocalAhead, e)
    BY Zenon DEF Elapsed
  <2> HIDE DEF e
  <2> QED
    BY <1>1, <2>4, <2>5 DEF Lesser
<1> DEFINE K == Elapsed(time)
<1>6. PICK walk : WalkLoop(walk, grounded, K) /\ Predicted(time, grounded) = walk[K].x
  <2>1. Elapsed(time) \in Nat
    BY <1>1, <1>5
  <2> QED
    BY <2>1, PredictedIsWalk
<1>k. K \in 0 .. LocalAhead
  BY <1>5
<1> HIDE DEF K
<1>7. nInput.axis \in {-1, 0, 1}
  BY DEF ActorsAgree
<1> DEFINE V == Size(Velocity)
<1>8. V \in Nat
  BY <1>4 DEF Size
<1>9. \A k : SpeedAfter(k) = Greater(V, Lesser(9 * Grain - 1, V + 3 * k * Grain))
  BY Zenon DEF SpeedAfter
<1> HIDE DEF V
<1> DEFINE Close(k) == /\ walk[k].x \in Int /\ walk[k].v \in Int /\ reach[k] \in Int
                      /\ Size(walk[k].v) <= SpeedAfter(k)
                      /\ Size(walk[k].x - Newest.x) <= reach[k]
           R == {k \in Nat : k <= K => Close(k)}
<1>10. Close(0)
  <2>1. walk[0].x = Newest.x /\ walk[0].v = Velocity
    BY <1>6 DEF WalkLoop, Resting
  <2>2. Newest.x - Newest.x = 0 /\ Size(0) = 0
    BY <1>4 DEF Size
  <2>3. Size(Velocity) = V
    BY DEF V
  <2>4. SpeedAfter(0) = Greater(V, Lesser(9 * Grain - 1, V + 3 * 0 * Grain))
    BY <1>9
  <2>5. V <= SpeedAfter(0)
    <3>1. 3 * 0 * Grain = 0 /\ 9 * Grain - 1 \in Int
      BY <1>1
    <3> QED
      BY <1>8, <2>4, <3>1 DEF Greater, Lesser
  <2> QED
    BY <1>2, <1>4, <2>1, <2>2, <2>3, <2>5
<1>11. ASSUME NEW k \in Nat, k + 1 <= K, Close(k) PROVE Close(k + 1)
  <2>1. k + 1 \in 1 .. K /\ k + 1 \in 1 .. LocalAhead /\ (k + 1) - 1 = k
    BY <1>1, <1>k, <1>11
  <2> DEFINE v == walk[k].v  w == StepsOn(v, nInput.axis, grounded)
             m == 3 * k * Grain  s == SpeedAfter(k)  t == SpeedAfter(k + 1)
  <2>2. walk[k + 1].x = walk[k].x + w /\ walk[k + 1].v = w
    <3>1. walk[k + 1] = Moved(walk[(k + 1) - 1], nInput.axis, grounded)
      BY <1>6, <2>1, Zenon DEF WalkLoop
    <3>2. walk[k + 1] = [x |-> walk[k].x + w, v |-> w]
      BY <2>1, <3>1 DEF Moved
    <3> HIDE DEF w
    <3> QED
      BY <3>2
  <2>3. /\ w \in Int
        /\ \/ Size(w) <= Size(v)
           \/ Size(w) <= Size(v) + 3 * Grain /\ Size(w) <= 9 * Grain - 1
    BY <1>7, <1>11, SpeedGrows
  <2>4. m \in Int /\ m >= 0 /\ 3 * (k + 1) * Grain = m + 3 * Grain
    <3>1. k * Grain \in Int /\ k * Grain >= 0
      BY <1>1, Products
    <3> DEFINE p == k * Grain
    <3>2. 3 * k * Grain = 3 * p /\ 3 * (k + 1) * Grain = 3 * p + 3 * Grain
      BY <1>1
    <3> HIDE DEF p
    <3>3. 3 * p \in Int /\ 3 * p >= 0
      BY <3>1 DEF p
    <3> QED
      BY <3>2, <3>3
  <2>5. s = Greater(V, Lesser(9 * Grain - 1, V + m)) /\ t = Greater(V, Lesser(9 * Grain - 1, V + (m + 3 * Grain)))
    BY <1>9, <2>4
  <2>6. reach[k + 1] = reach[k] + t
    BY <1>2, <2>1
  <2>7. walk[k].x \in Int /\ v \in Int /\ reach[k] \in Int /\ Size(v) <= s /\ Size(walk[k].x - Newest.x) <= reach[k]
    BY <1>11
  <2> HIDE DEF v, w, m, s, t
  <2>8. Size(v) \in Nat /\ Size(w) \in Nat
    BY <2>3, <2>7 DEF Size
  <2>9. s \in Int /\ t \in Int /\ Size(w) <= t
    <3>1. s \in Int /\ t \in Int /\ s <= t
      BY <1>1, <1>8, <2>4, <2>5 DEF Greater, Lesser
    <3>2. s + 3 * Grain <= t \/ 9 * Grain - 1 <= t
      BY <1>1, <1>8, <2>4, <2>5 DEF Greater, Lesser
    <3> QED
      BY <1>1, <2>3, <2>7, <2>8, <3>1, <3>2
  <2> DEFINE d == walk[k].x - Newest.x
  <2>10. d \in Int /\ Size(d) <= reach[k] /\ walk[k + 1].x - Newest.x = d + w /\ walk[k + 1].x \in Int
    BY <1>4, <2>2, <2>3, <2>7
  <2> HIDE DEF d
  <2>11. Size(d + w) <= Size(d) + Size(w) /\ Size(d) \in Nat /\ Size(d + w) \in Nat
    BY <2>3, <2>10 DEF Size
  <2>12. Size(walk[k + 1].x - Newest.x) <= reach[k + 1] /\ reach[k + 1] \in Int
    BY <2>6, <2>7, <2>8, <2>9, <2>10, <2>11
  <2> QED
    BY <2>2, <2>3, <2>9, <2>10, <2>12 DEF t
<1> HIDE DEF Close
<1>12. 0 \in R /\ \A k \in Nat : k \in R => k + 1 \in R
  <2>1. 0 \in R
    BY <1>10
  <2>2. ASSUME NEW k \in Nat, k \in R PROVE k + 1 \in R
    <3> SUFFICES ASSUME k + 1 <= K PROVE Close(k + 1)
      OBVIOUS
    <3>1. k <= K
      BY <1>1, <1>k
    <3> QED
      BY <1>11, <2>2, <3>1
  <2> QED
    BY <2>1, <2>2
<1> HIDE DEF R
<1>13. \A k \in Nat : k \in R
  BY <1>12, ReachesAll
<1>14. Close(K)
  BY <1>1, <1>k, <1>13 DEF R
<1> QED
  BY <1>6, <1>14 DEF Close, K

\* However the snapshots of a connection arrive, and for every size of the history, of the
\* delays and of the predictions: the page keeps the snapshots up to the one it shows and
\* none of an earlier connection; draws a fighter between the places they had it in or as
\* far beyond as its last speed takes it, and never going back where they went one way;
\* and its own player no farther ahead than a walk, and at last standing.
THEOREM FightersAreDrawnNear == ActorSpec => []ActorsInv
<1>1. ActorsAgree => ActorsInv
  <2> SUFFICES ASSUME ActorsAgree PROVE ActorsInv
    OBVIOUS
  <2>1. HistoryFollows /\ nInput.at \in Int
    BY DEF ActorsAgree
  <2>2. Times \subseteq Int
    BY DEF Times
  <2>3. ASSUME nHistory # <<>>, Newest.x # Gone, NEW time \in Times, NEW grounded \in BOOLEAN,
               time >= Greater(Newest.at, nInput.at) + LocalAhead
        PROVE  DrawnLocal(time + 1, grounded) = DrawnLocal(time, grounded)
    BY <2>1, <2>2, <2>3, ThenStands
  <2>4. PredictionStops
    BY <2>3, Zenon DEF PredictionStops
  <2>5. DrawnNear /\ FramesRunForward /\ PredictionIsNear
    BY DrawnNearHolds, FramesRunForwardHolds, PredictionIsNearHolds
  <2> QED
    BY <2>1, <2>4, <2>5 DEF ActorsInv
<1> QED
  BY <1>1, ActorsStart, ActorsStay, PTL DEF ActorSpec

-----------------------------------------------------------------------------
(* Hits. *)

Impacts == [sequence : Nat, target : {0, 1, 2}, hurts : BOOLEAN, match : Nat]
Keys == Nat \X {0, 1, 2} \X BOOLEAN

MemoryFields == {"of", "keys", "tick", "told", "twice"}

HitTypes ==
  /\ DOMAIN hServer = {"match", "tick", "next", "list"} /\ hServer.list \in Seq(Impacts)
  /\ hServer.match \in Nat /\ hServer.tick \in Nat /\ hServer.next \in Nat
  /\ DOMAIN hScene = {"tick", "me", "impacts"} /\ hScene.impacts \in Seq(Impacts)
  /\ hScene.tick \in Nat /\ hShow \in BOOLEAN /\ DOMAIN hSeen = MemoryFields
  /\ hSeen.of \in {"numbers", "flash", "flinch"} /\ hSeen.tick \in Nat

\* The list of the server has the newest impacts of its match.
NewestListed ==
  /\ Len(hServer.list) <= ServerCap /\ Len(hServer.list) < hServer.next
  /\ \A k \in 1 .. Len(hServer.list) :
       /\ hServer.list[k].sequence = hServer.next - 1 - Len(hServer.list) + k
       /\ hServer.list[k].match = hServer.match

InScene == ToSet(hScene.impacts)
InList == ToSet(hServer.list)

\* Impacts of one match that were in one list.
Near(x, y) ==
  /\ x.match = y.match /\ x.sequence < y.sequence + ServerCap /\ y.sequence < x.sequence + ServerCap

\* What was told or is in the scene is of a past match or has a number given out.
Past(x) == x.match <= hServer.match /\ (x.match = hServer.match => x.sequence < hServer.next)

\* What was told is not newer than the scene.
Before(x, y) == x.match <= y.match /\ (x.match = y.match => x.sequence < y.sequence + ServerCap)

\* A number is given once in a match.
OneEach(S) == \A x, y \in S : x.match = y.match /\ x.sequence = y.sequence => x = y

InOrder ==
  /\ \A x \in hSeen.told \cup InScene : Past(x)
  /\ \A x \in hSeen.told, y \in InScene : Before(x, y)
  /\ \A x, y \in InScene : Near(x, y)
  /\ OneEach(hSeen.told \cup InScene \cup InList)

\* A tick that goes back comes with impacts of which nothing was told.
TicksGoOn ==
  /\ hSeen.told \cap (InScene \cup InList) # {} => hScene.tick >= hSeen.tick
  /\ (hSeen.told \cup InScene) \cap InList # {} => hServer.tick >= hScene.tick

\* The key of x is remembered, and the keys after it are of impacts near x.
KeptIn(keys, told, x) ==
  \E p \in 1 .. Len(keys) :
    /\ keys[p] = Key(x)
    /\ \A k \in p .. Len(keys) : \E y \in told : keys[k] = Key(y) /\ Near(x, y)

\* What is told is told once, and remembered while it is in S.
Remembers(memory, S) ==
  /\ memory.keys \in Seq(Keys) /\ memory.told \in SUBSET Impacts /\ memory.twice = FALSE
  /\ Len(memory.keys) <= PageCap
  /\ \A j, k \in 1 .. Len(memory.keys) : memory.keys[j] = memory.keys[k] => j = k
  /\ \A k \in 1 .. Len(memory.keys) : \E y \in memory.told : memory.keys[k] = Key(y)
  /\ \A x \in memory.told \cap S : KeptIn(memory.keys, memory.told, x)

\* The numbers on the screen are of the last keys.
Labels(labels, keys) ==
  /\ labels \in Seq(Keys) /\ Len(labels) <= LabelCap /\ Len(labels) <= Len(keys)
  /\ \A k \in 1 .. Len(labels) : labels[k] = keys[Len(keys) - Len(labels) + k]

NumbersAreNew ==
  /\ hElements = Len(hLabels) /\ Labels(hLabels, hSeen.keys)
  /\ ~hShow \/ hSeen.of # "numbers" => hLabels = <<>>

IsTold(told, x) == \E y \in told : Key(y) = Key(x)

AllTold ==
  \A x \in InScene :
    x.hurts /\ (hSeen.of = "numbers" \/ (hSeen.of = "flash" /\ x.target = hScene.me)) => IsTold(hSeen.told, x)

HitsInvariant ==
  /\ HitTypes /\ NewestListed /\ InOrder /\ TicksGoOn /\ Remembers(hSeen, InScene \cup InList)
  /\ NumbersAreNew /\ AllTold

-----------------------------------------------------------------------------
(* The loop over the impacts of a scene. *)

ShownLoop(seen, start, impacts, K) ==
  /\ DOMAIN seen = 0 .. K /\ seen[0] = start
  /\ \A k \in 1 .. K : seen[k] = Shown(seen[k - 1], impacts[k])

ShownBy(seen, start, impacts, K) ==
  seen = [k \in 0 .. K |-> IF k = 0 THEN start ELSE Shown(seen[k - 1], impacts[k])]

LEMMA ShownByIsLoop ==
  ASSUME NEW seen, NEW start, NEW impacts, NEW K \in Nat
  PROVE  /\ ShownBy(seen, start, impacts, K) => ShownLoop(seen, start, impacts, K)
         /\ ShownLoop(seen, start, impacts, K) /\ seen = [k \in 0 .. K |-> seen[k]]
              => ShownBy(seen, start, impacts, K)
<1>1. ASSUME ShownBy(seen, start, impacts, K) PROVE ShownLoop(seen, start, impacts, K)
  <2>1. DOMAIN seen = 0 .. K /\ seen[0] = start
    BY <1>1 DEF ShownBy
  <2>2. ASSUME NEW k \in 1 .. K PROVE seen[k] = Shown(seen[k - 1], impacts[k])
    <3>1. k \in 0 .. K /\ k # 0
      OBVIOUS
    <3> QED
      BY <1>1, <3>1 DEF ShownBy
  <2> QED
    BY <2>1, <2>2 DEF ShownLoop
<1>2. ASSUME ShownLoop(seen, start, impacts, K), seen = [k \in 0 .. K |-> seen[k]]
      PROVE  ShownBy(seen, start, impacts, K)
  <2>0. \A k \in 0 .. K : k = 0 \/ k \in 1 .. K
    OBVIOUS
  <2>1. \A k \in 0 .. K : seen[k] = IF k = 0 THEN start ELSE Shown(seen[k - 1], impacts[k])
    BY <1>2, <2>0, Zenon DEF ShownLoop
  <2> QED
    BY <1>2, <2>1 DEF ShownBy
<1> QED
  BY <1>1, <1>2

LEMMA ShownExists ==
  ASSUME NEW start, NEW impacts
  PROVE  \A K \in Nat : \E seen : ShownBy(seen, start, impacts, K)
<1> DEFINE R == {K \in Nat : \E seen : ShownBy(seen, start, impacts, K)}
<1>1. 0 \in R
  <2>1. ShownBy([k \in 0 .. 0 |-> start], start, impacts, 0)
    BY DEF ShownBy
  <2> QED
    BY <2>1
<1>2. ASSUME NEW K \in Nat, K \in R PROVE K + 1 \in R
  <2>1. PICK seen : ShownBy(seen, start, impacts, K)
    BY <1>2
  <2>2. ShownLoop(seen, start, impacts, K)
    BY <2>1, ShownByIsLoop
  <2> DEFINE last == Shown(seen[K], impacts[K + 1])
  <2> DEFINE more == Longer(seen, K, last)
  <2>3. DOMAIN more = 0 .. K + 1
    BY LongerLoop
  <2>4. /\ more = [k \in 0 .. K + 1 |-> more[k]]
        /\ more[K + 1] = last /\ \A k \in 0 .. K : more[k] = seen[k]
    BY LongerLoop
  <2> HIDE DEF more
  <2>5. ASSUME NEW k \in 1 .. K + 1 PROVE more[k] = Shown(more[k - 1], impacts[k])
    <3>1. CASE k = K + 1
      <4>0. k - 1 = K /\ K \in 0 .. K
        BY <3>1
      <4>1. more[k - 1] = seen[K] /\ more[k] = last
        BY <2>4, <3>1, <4>0, Zenon
      <4> QED
        BY <3>1, <4>1
    <3>2. CASE k # K + 1
      <4>1. k \in 1 .. K /\ k \in 0 .. K /\ k - 1 \in 0 .. K
        BY <3>2
      <4>2. seen[k] = Shown(seen[k - 1], impacts[k])
        BY <2>2, <4>1 DEF ShownLoop
      <4>3. more[k] = seen[k] /\ more[k - 1] = seen[k - 1]
        BY <2>4, <4>1
      <4> QED
        BY <4>2, <4>3, Zenon
    <3> QED
      BY <3>1, <3>2
  <2>6. DOMAIN more = 0 .. K + 1 /\ more[0] = start
    <3>1. more[0] = seen[0]
      BY <2>4
    <3> QED
      BY <2>2, <2>3, <3>1 DEF ShownLoop
  <2>7. ShownLoop(more, start, impacts, K + 1)
    BY <2>5, <2>6, Zenon DEF ShownLoop
  <2>8. ShownBy(more, start, impacts, K + 1)
    BY <2>4, <2>7, ShownByIsLoop
  <2> QED
    BY <2>8
<1> HIDE DEF R
<1>3. \A K \in Nat : K \in R
  BY <1>1, <1>2, ReachesAll
<1> QED
  BY <1>3 DEF R

Start(shot) == [memory |-> Rewound(hSeen, shot.tick), labels |-> LabelsRewound(shot.tick)]

LEMMA LookIsLoop ==
  ASSUME NEW shot, NEW impacts, Len(impacts) \in Nat
  PROVE  \E seen : /\ ShownLoop(seen, Start(shot), impacts, Len(impacts))
                   /\ Look(shot, impacts) = seen[Len(impacts)]
<1> DEFINE seen == CHOOSE t : ShownBy(t, Start(shot), impacts, Len(impacts))
<1>1. ShownBy(seen, Start(shot), impacts, Len(impacts))
  BY ShownExists, Zenon
<1>2. ShownLoop(seen, Start(shot), impacts, Len(impacts))
  BY <1>1, ShownByIsLoop, Zenon
<1>3. Look(shot, impacts) = seen[Len(impacts)]
  BY Zenon DEF Look, ShownBy, Start
<1> QED
  BY <1>2, <1>3, Zenon

-----------------------------------------------------------------------------
(* The keys that are remembered. *)

LEMMA KeyIs ==
  ASSUME NEW x \in Impacts, NEW y \in Impacts
  PROVE  /\ Key(x) \in Keys /\ Key(x)[1] = x.sequence
         /\ Key(x) = Key(y) => x.sequence = y.sequence /\ x.target = y.target /\ x.hurts = y.hurts
BY DEF Key, Keys, Impacts

LEMMA SameKey ==
  ASSUME NEW S \in SUBSET Impacts, OneEach(S), NEW x \in S, NEW y \in S, Near(x, y), Key(x) = Key(y)
  PROVE  x = y
BY KeyIs DEF OneEach, Near

\* Among as many different keys of impacts near x as are remembered there are not all.
LEMMA HasRoom ==
  ASSUME NEW keys \in Seq(Keys), NEW told \in SUBSET Impacts, OneEach(told),
         \A j, k \in 1 .. Len(keys) : keys[j] = keys[k] => j = k,
         NEW x \in Impacts, NEW p \in 1 .. Len(keys),
         \A k \in p .. Len(keys) : \E y \in told : keys[k] = Key(y) /\ Near(x, y)
  PROVE  Len(keys) - p + 2 <= PageCap
<1>1. Len(keys) \in Nat /\ p \in Nat /\ x.sequence \in Nat /\ ServerCap \in Nat /\ PageCap \in Nat
      /\ ServerCap > 0 /\ 2 * ServerCap <= PageCap
  BY LenProperties, HitAssumption DEF Impacts
<1> DEFINE S == p .. Len(keys)
           T == (x.sequence - ServerCap + 1) .. (x.sequence + ServerCap - 1)
           f == [k \in S |-> keys[k][1]]
<1>2. ASSUME NEW k \in S
      PROVE  \E y \in told : keys[k] = Key(y) /\ Near(x, y) /\ f[k] = y.sequence /\ y.sequence \in T
  <2>1. PICK y \in told : keys[k] = Key(y) /\ Near(x, y)
    OBVIOUS
  <2>2. Key(y)[1] = y.sequence /\ y.sequence \in Nat
    BY KeyIs DEF Impacts
  <2>3. y.sequence \in T
    <3>1. x.sequence < y.sequence + ServerCap /\ y.sequence < x.sequence + ServerCap
      BY <2>1, Zenon DEF Near
    <3>2. x.sequence - ServerCap + 1 <= y.sequence /\ y.sequence <= x.sequence + ServerCap - 1
      BY <1>1, <2>2, <3>1
    <3> HIDE DEF S, f
    <3> QED
      BY <1>1, <2>2, <3>2
  <2> QED
    BY <2>1, <2>2, <2>3
<1>3. f \in [S -> T]
  BY <1>2
<1>4. ASSUME NEW j \in S, NEW k \in S, f[j] = f[k] PROVE j = k
  <2>1. PICK y \in told : keys[j] = Key(y) /\ Near(x, y) /\ f[j] = y.sequence
    BY <1>2
  <2>2. PICK z \in told : keys[k] = Key(z) /\ Near(x, z) /\ f[k] = z.sequence
    BY <1>2
  <2>3. y.sequence = z.sequence /\ y.match = z.match
    BY <1>4, <2>1, <2>2, Zenon DEF Near
  <2>4. y = z
    BY <2>3 DEF OneEach
  <2>5. j \in 1 .. Len(keys) /\ k \in 1 .. Len(keys)
    BY <1>1
  <2> QED
    BY <2>1, <2>2, <2>4, <2>5
<1>5. IsFiniteSet(S) /\ IsFiniteSet(T) /\ Cardinality(S) = Len(keys) - p + 1 /\ Cardinality(T) = 2 * ServerCap - 1
  <2>1. /\ IsFiniteSet(S) /\ Cardinality(S) = IF p > Len(keys) THEN 0 ELSE Len(keys) - p + 1
    BY <1>1, FS_Interval
  <2> DEFINE a == x.sequence - ServerCap + 1  b == x.sequence + ServerCap - 1
  <2>2. a \in Int /\ b \in Int /\ b - a + 1 = 2 * ServerCap - 1 /\ a <= b
    BY <1>1
  <2>3. IsFiniteSet(a .. b) /\ Cardinality(a .. b) = IF a > b THEN 0 ELSE b - a + 1
    <3> HIDE DEF a, b
    <3> QED
      BY <2>2, FS_Interval
  <2> QED
    BY <1>1, <2>1, <2>2, <2>3
<1> HIDE DEF f, S, T
<1>6. ~(Cardinality(T) < Cardinality(S))
  <2> SUFFICES ASSUME Cardinality(T) < Cardinality(S) PROVE FALSE
    OBVIOUS
  <2>1. \A g \in [S -> T] : \E j, k \in S : j # k /\ g[j] = g[k]
    BY <1>5, FS_PigeonHole
  <2> QED
    BY <1>3, <1>4, <2>1
<1> QED
  BY <1>1, <1>5, <1>6

\* How many keys make room for one.
Out(keys) == IF Len(keys) = PageCap THEN 1 ELSE 0

LEMMA RememberIs ==
  ASSUME NEW keys \in Seq(Keys), NEW key \in Keys, Len(keys) <= PageCap
  PROVE  /\ Remember(keys, key) \in Seq(Keys) /\ Len(Remember(keys, key)) <= PageCap
         /\ Len(Remember(keys, key)) = Len(keys) + 1 - Out(keys)
         /\ Remember(keys, key)[Len(Remember(keys, key))] = key
         /\ \A k \in 1 .. Len(Remember(keys, key)) - 1 :
              k + Out(keys) \in 1 .. Len(keys) /\ Remember(keys, key)[k] = keys[k + Out(keys)]
<1>1. Len(keys) \in Nat /\ PageCap \in Nat /\ PageCap > 0
  BY LenProperties, HitAssumption
<1>2. CASE Len(keys) = PageCap
  <2>1. /\ Tail(keys) \in Seq(Keys) /\ Len(Tail(keys)) = Len(keys) - 1
        /\ \A k \in 1 .. Len(Tail(keys)) : Tail(keys)[k] = keys[k + 1]
    <3>1. keys # <<>>
      BY <1>1, <1>2, EmptySeq
    <3> QED
      BY <1>1, <3>1, HeadTailProperties
  <2> DEFINE rest == Tail(keys)
  <2> HIDE DEF rest
  <2>2. Remember(keys, key) = Append(rest, key) /\ Out(keys) = 1
    BY <1>2 DEF Remember, Out, rest
  <2>3. /\ Append(rest, key) \in Seq(Keys) /\ Len(Append(rest, key)) = Len(rest) + 1
        /\ Append(rest, key)[Len(rest) + 1] = key
        /\ \A k \in 1 .. Len(rest) : Append(rest, key)[k] = rest[k]
    BY <2>1, AppendProperties DEF rest
  <2> QED
    BY <1>1, <1>2, <2>1, <2>2, <2>3 DEF rest
<1>3. CASE Len(keys) # PageCap
  <2>1. Remember(keys, key) = Append(keys, key) /\ Out(keys) = 0
    BY <1>3 DEF Remember, Out
  <2>2. /\ Append(keys, key) \in Seq(Keys) /\ Len(Append(keys, key)) = Len(keys) + 1
        /\ Append(keys, key)[Len(keys) + 1] = key
        /\ \A k \in 1 .. Len(keys) : Append(keys, key)[k] = keys[k]
    BY AppendProperties
  <2> QED
    BY <1>1, <1>3, <2>1, <2>2
<1> QED
  BY <1>2, <1>3

\* What is told of z.
LEMMA NoticedIs ==
  ASSUME NEW m, DOMAIN m = MemoryFields, NEW z
  PROVE  /\ DOMAIN Noticed(m, z) = MemoryFields
         /\ Noticed(m, z).of = m.of /\ Noticed(m, z).tick = m.tick
         /\ ~IsNews(m, z) => Noticed(m, z) = m
         /\ IsNews(m, z) => /\ Noticed(m, z).keys = Remember(m.keys, Key(z))
                            /\ Noticed(m, z).told = m.told \cup {z}
                            /\ Noticed(m, z).twice = (m.twice \/ z \in m.told)
<1> DEFINE n1 == [m EXCEPT !.keys = Remember(@, Key(z))]
           n2 == [m EXCEPT !.keys = Remember(@, Key(z)), !.told = @ \cup {z}]
           n3 == [m EXCEPT !.keys = Remember(@, Key(z)), !.told = @ \cup {z}, !.twice = @ \/ z \in m.told]
<1>1. /\ DOMAIN n3 = MemoryFields /\ n3.of = m.of /\ n3.tick = m.tick
      /\ n3.keys = Remember(m.keys, Key(z)) /\ n3.told = m.told \cup {z}
      /\ n3.twice = (m.twice \/ z \in m.told)
  BY DEF MemoryFields
<1>2. Noticed(m, z) = IF IsNews(m, z) THEN n3 ELSE m
  BY Zenon DEF Noticed
<1> HIDE DEF n3
<1> QED
  BY <1>1, <1>2

\* Noticing an impact of a scene tells nothing twice and forgets nothing that may come again.
LEMMA NoticedRemembers ==
  ASSUME NEW m, DOMAIN m = MemoryFields, NEW S \in SUBSET Impacts, NEW z \in S,
         Remembers(m, S), OneEach(m.told \cup S), \A x \in m.told \cap S : Near(x, z), Near(z, z)
  PROVE  /\ Remembers(Noticed(m, z), S)
         /\ m.told \subseteq Noticed(m, z).told /\ Noticed(m, z).told \subseteq m.told \cup {z}
         /\ z.hurts => IsTold(Noticed(m, z).told, z)
<1> DEFINE keys == m.keys  told == m.told  n == Noticed(m, z)
<1>1. /\ keys \in Seq(Keys) /\ told \in SUBSET Impacts /\ m.twice = FALSE /\ Len(keys) <= PageCap
      /\ \A j, k \in 1 .. Len(keys) : keys[j] = keys[k] => j = k
      /\ \A k \in 1 .. Len(keys) : \E y \in told : keys[k] = Key(y)
      /\ \A x \in told \cap S : KeptIn(keys, told, x)
      /\ Len(keys) \in Nat
  BY LenProperties DEF Remembers
<1>2. CASE ~IsNews(m, z)
  <2>1. n = m
    BY <1>2, NoticedIs
  <2>2. ASSUME z.hurts PROVE IsTold(told, z)
    <3>1. \E k \in 1 .. Len(keys) : keys[k] = Key(z)
      BY <1>2, <2>2 DEF IsNews, Contains
    <3> QED
      BY <1>1, <3>1, Zenon DEF IsTold
  <2> QED
    BY <2>1, <2>2
<1>3. CASE IsNews(m, z)
  <2> DEFINE new == Remember(keys, Key(z))  more == told \cup {z}  c == Out(keys)
  <2>1. n.keys = new /\ n.told = more /\ n.twice = (m.twice \/ z \in told)
    BY <1>3, NoticedIs
  <2>2. ~(\E k \in 1 .. Len(keys) : keys[k] = Key(z))
    BY <1>3 DEF IsNews, Contains
  <2>3. z \notin told
    <3> SUFFICES ASSUME z \in told PROVE FALSE
      OBVIOUS
    <3>1. KeptIn(keys, told, z)
      BY <1>1
    <3> QED
      BY <2>2, <3>1, Zenon DEF KeptIn
  <2>4. n.twice = FALSE
    BY <1>1, <2>1, <2>3
  <2>5. Key(z) \in Keys /\ more \in SUBSET Impacts
    BY <1>1, KeyIs
  <2>6. /\ new \in Seq(Keys) /\ Len(new) <= PageCap /\ Len(new) = Len(keys) + 1 - c /\ new[Len(new)] = Key(z)
        /\ \A k \in 1 .. Len(new) - 1 : k + c \in 1 .. Len(keys) /\ new[k] = keys[k + c]
        /\ c \in {0, 1} /\ (c = 1 => Len(keys) = PageCap) /\ Len(new) \in Nat /\ PageCap \in Nat
        /\ Len(new) >= 1
    <3>1. /\ new \in Seq(Keys) /\ Len(new) <= PageCap /\ Len(new) = Len(keys) + 1 - c /\ new[Len(new)] = Key(z)
          /\ \A k \in 1 .. Len(new) - 1 : k + c \in 1 .. Len(keys) /\ new[k] = keys[k + c]
      BY <1>1, <2>5, RememberIs
    <3>2. c \in {0, 1} /\ (c = 1 => Len(keys) = PageCap) /\ PageCap \in Nat /\ PageCap > 0
      BY HitAssumption DEF Out
    <3> QED
      BY <1>1, <3>1, <3>2
  <2> HIDE DEF new, more, c
  <2>7. \A j, k \in 1 .. Len(new) : new[j] = new[k] => j = k
    <3> SUFFICES ASSUME NEW j \in 1 .. Len(new), NEW k \in 1 .. Len(new), j < k PROVE new[j] # new[k]
      BY <2>6
    <3>1. j \in 1 .. Len(new) - 1 /\ j + c \in 1 .. Len(keys) /\ new[j] = keys[j + c]
      BY <2>6
    <3>2. CASE k = Len(new)
      BY <2>2, <2>6, <3>1, <3>2
    <3>3. CASE k # Len(new)
      <4>0. k \in 1 .. Len(new) - 1 /\ j \in Int /\ k \in Int /\ c \in Int
        <5>1. Len(new) \in Nat /\ c \in {0, 1}
          BY <2>6
        <5> QED
          BY <3>3, <5>1
      <4>2. j + c # k + c
        BY <4>0
      <4>1. k + c \in 1 .. Len(keys) /\ new[k] = keys[k + c] /\ j + c # k + c
        BY <2>6, <4>0, <4>2
      <4> QED
        BY <1>1, <3>1, <4>1
    <3> QED
      BY <3>2, <3>3
  <2>8. \A k \in 1 .. Len(new) : \E y \in more : new[k] = Key(y)
    <3> SUFFICES ASSUME NEW k \in 1 .. Len(new) PROVE \E y \in more : new[k] = Key(y)
      OBVIOUS
    <3>1. CASE k = Len(new)
      BY <2>6, <3>1 DEF more
    <3>2. CASE k # Len(new)
      <4>1. k + c \in 1 .. Len(keys) /\ new[k] = keys[k + c]
        BY <2>6, <3>2
      <4> QED
        BY <1>1, <4>1 DEF more
    <3> QED
      BY <3>1, <3>2
  <2>9. ASSUME NEW x \in more \cap S PROVE KeptIn(new, more, x)
    <3>1. CASE x = z
      <4>1. Len(new) \in 1 .. Len(new) /\ new[Len(new)] = Key(x) /\ \A k \in Len(new) .. Len(new) : k = Len(new)
        BY <2>6, <3>1
      <4>2. \A k \in Len(new) .. Len(new) : new[k] = Key(z) /\ z \in more /\ Near(x, z)
        BY <2>6, <3>1, <4>1 DEF more
      <4> QED
        BY <4>1, <4>2, Zenon DEF KeptIn
    <3>2. CASE x # z
      <4>1. x \in told \cap S /\ x \in Impacts
        BY <1>1, <2>9, <3>2 DEF more
      <4>2. PICK p \in 1 .. Len(keys) :
              /\ keys[p] = Key(x)
              /\ \A k \in p .. Len(keys) : \E y \in told : keys[k] = Key(y) /\ Near(x, y)
        BY <1>1, <4>1, Zenon DEF KeptIn
      <4>3. OneEach(told)
        BY DEF OneEach
      <4>4. Len(keys) - p + 2 <= PageCap
        BY <1>1, <4>1, <4>2, <4>3, HasRoom
      <4>5. /\ p - c \in 1 .. Len(new) /\ p - c \in 1 .. Len(new) - 1 /\ (p - c) + c = p
        BY <1>1, <2>6, <4>2, <4>4
      <4>6. new[p - c] = Key(x)
        BY <2>6, <4>2, <4>5
      <4>7. ASSUME NEW k \in p - c .. Len(new) PROVE \E y \in more : new[k] = Key(y) /\ Near(x, y)
        <5>1. CASE k = Len(new)
          BY <2>6, <4>1, <5>1 DEF more
        <5>2. CASE k # Len(new)
          <6>0. /\ Len(new) = Len(keys) + 1 - c /\ c \in Int /\ p \in Int /\ Len(keys) \in Int
                /\ 1 <= p - c /\ k \in Int /\ p - c <= k /\ k < Len(new)
            <7>1. Len(new) = Len(keys) + 1 - c /\ c \in Int /\ Len(keys) \in Int /\ Len(new) \in Int
              BY <1>1, <2>6
            <7>2. p \in Int /\ 1 <= p - c
              BY <4>5, <7>1
            <7>3. k \in Int /\ p - c <= k /\ k <= Len(new)
              BY <4>7, <7>1, <7>2
            <7> QED
              BY <5>2, <7>1, <7>2, <7>3
          <6>1. k \in 1 .. Len(new) - 1 /\ k + c \in p .. Len(keys)
            BY <6>0
          <6>2. new[k] = keys[k + c]
            BY <2>6, <6>1
          <6> QED
            BY <4>2, <6>1, <6>2 DEF more
        <5> QED
          BY <5>1, <5>2
      <4> QED
        BY <4>5, <4>6, <4>7, Zenon DEF KeptIn
    <3> QED
      BY <3>1, <3>2
  <2>10. Remembers(n, S)
    <3> HIDE DEF n
    <3> QED
      BY <2>1, <2>4, <2>5, <2>6, <2>7, <2>8, <2>9, Zenon DEF Remembers
  <2>11. IsTold(more, z) /\ told \subseteq more /\ more \subseteq told \cup {z}
    BY DEF IsTold, more
  <2> QED
    BY <2>1, <2>10, <2>11
<1> QED
  BY <1>2, <1>3

LEMMA RemembersLess ==
  ASSUME NEW m, NEW S, NEW T, Remembers(m, S), m.told \cap T \subseteq S
  PROVE  Remembers(m, T)
<1>1. \A x \in m.told \cap T : KeptIn(m.keys, m.told, x)
  BY DEF Remembers
<1> QED
  BY <1>1, Zenon DEF Remembers

LEMMA InToSet ==
  ASSUME NEW T, NEW list \in Seq(T)
  PROVE  /\ ToSet(list) \subseteq T
         /\ \A k \in 1 .. Len(list) : list[k] \in ToSet(list)
         /\ \A x \in ToSet(list) : \E k \in 1 .. Len(list) : list[k] = x
<1>1. DOMAIN list = 1 .. Len(list) /\ \A k \in 1 .. Len(list) : list[k] \in T
  BY LenProperties, ElementOfSeq
<1> QED
  BY <1>1 DEF ToSet

-----------------------------------------------------------------------------
(* The numbers on the screen. *)

\* A number more is one of the newest key.
LEMMA LabelledIs ==
  ASSUME NEW labels, NEW keys \in Seq(Keys), Labels(labels.keys, keys), labels.elements = Len(labels.keys),
         Len(keys) <= PageCap, NEW key \in Keys, \A k \in 1 .. Len(keys) : keys[k] # key
  PROVE  /\ Labels(Labelled(labels, key).keys, Remember(keys, key))
         /\ Labelled(labels, key).elements = Len(Labelled(labels, key).keys)
<1> DEFINE old == labels.keys  new == Remember(keys, key)  c == Out(keys)  added == Append(old, key)
           l == Len(old)  n == Len(keys)
<1>1. /\ old \in Seq(Keys) /\ l <= LabelCap /\ l <= n /\ \A k \in 1 .. l : old[k] = keys[n - l + k]
      /\ l \in Nat /\ n \in Nat /\ n <= PageCap
      /\ LabelCap \in Nat /\ LabelCap > 0 /\ PageCap \in Nat /\ LabelCap <= PageCap
  <2>1. LabelCap \in Nat /\ LabelCap > 0 /\ PageCap \in Nat /\ LabelCap <= PageCap
    BY HitAssumption
  <2>2. old \in Seq(Keys) /\ l <= LabelCap /\ l <= n /\ \A k \in 1 .. l : old[k] = keys[n - l + k]
    BY Zenon DEF Labels
  <2> QED
    BY <2>1, <2>2, LenProperties
<1>2. /\ new \in Seq(Keys) /\ Len(new) = n + 1 - c /\ new[Len(new)] = key
      /\ \A k \in 1 .. Len(new) - 1 : k + c \in 1 .. n /\ new[k] = keys[k + c]
  BY RememberIs
<1>3. c \in {0, 1} /\ (c = 1 => n = PageCap)
  BY DEF Out
<1>4. /\ added \in Seq(Keys) /\ Len(added) = l + 1 /\ added[l + 1] = key
      /\ \A k \in 1 .. l : added[k] = old[k]
  BY <1>1, AppendProperties
<1>5. ~Contains(old, key)
  <2>1. \A k \in 1 .. l : n - l + k \in 1 .. n
    BY <1>1
  <2> QED
    BY <1>1, <2>1 DEF Contains
<1>6. Labelled(labels, key) = IF Len(added) > LabelCap
                              THEN [keys |-> Tail(added), elements |-> labels.elements]
                              ELSE [keys |-> added, elements |-> labels.elements + 1]
  BY <1>5 DEF Labelled
<1> HIDE DEF new, added, c, old, n, l
<1>9. /\ l \in Int /\ n \in Int /\ c \in Int /\ Len(new) \in Int /\ LabelCap \in Int /\ PageCap \in Int /\ 0 <= c /\ c <= 1 /\ 0 <= l
      /\ Len(new) = n + 1 - c /\ l <= n /\ (c = 1 => n = PageCap) /\ l <= LabelCap /\ LabelCap <= PageCap
  BY <1>1, <1>2, <1>3
<1>7. CASE l + 1 <= LabelCap
  <2>1. Labelled(labels, key).keys = added /\ Labelled(labels, key).elements = l + 1
    BY <1>1, <1>4, <1>6, <1>7 DEF l, old
  <2>2. ASSUME NEW k \in 1 .. l + 1 PROVE added[k] = new[Len(new) - (l + 1) + k]
    <3>1. CASE k = l + 1
      <4>1. Len(new) - (l + 1) + k = Len(new)
        BY <1>9, <3>1
      <4> QED
        BY <1>2, <1>4, <3>1, <4>1
    <3>2. CASE k # l + 1
      <4>1. k \in 1 .. l /\ n - l - c + k \in 1 .. Len(new) - 1 /\ Len(new) - (l + 1) + k = n - l - c + k
        <5>1. k \in Int /\ 1 <= k /\ k <= l /\ l + c <= n
          BY <1>9, <1>7, <3>2
        <5> QED
          BY <1>9, <5>1
      <4>2. new[n - l - c + k] = keys[(n - l - c + k) + c] /\ (n - l - c + k) + c = n - l + k
        <5>1. new[n - l - c + k] = keys[(n - l - c + k) + c]
          BY <1>2, <4>1
        <5>2. k \in Int
          BY <1>9
        <5> QED
          BY <1>9, <5>1, <5>2
      <4> QED
        BY <1>1, <1>4, <4>1, <4>2
    <3> QED
      BY <3>1, <3>2
  <2>3. l + 1 <= Len(new)
    BY <1>1, <1>2, <1>3, <1>7
  <2>4. Labels(added, new)
    BY <1>4, <1>7, <2>2, <2>3 DEF Labels
  <2> QED
    BY <1>4, <2>1, <2>4 DEF new
<1>8. CASE ~(l + 1 <= LabelCap)
  <2>0. l = LabelCap /\ l > 0
    BY <1>1, <1>8
  <2> DEFINE rest == Tail(added)
  <2>1. rest \in Seq(Keys) /\ Len(rest) = l /\ \A k \in 1 .. l : rest[k] = added[k + 1]
    <3>1. added # <<>>
      BY <1>1, <1>4, EmptySeq
    <3>2. /\ rest \in Seq(Keys) /\ Len(rest) = Len(added) - 1
          /\ \A k \in 1 .. Len(rest) : rest[k] = added[k + 1]
      BY <1>4, <3>1, HeadTailProperties
    <3> QED
      BY <1>1, <1>4, <3>2
  <2> HIDE DEF rest
  <2>2. Labelled(labels, key).keys = rest /\ Labelled(labels, key).elements = l
    BY <1>1, <1>4, <1>6, <1>8 DEF l, old, rest
  <2>3. ASSUME NEW k \in 1 .. l PROVE rest[k] = new[Len(new) - l + k]
    <3>1. CASE k = l
      <4>1. Len(new) - l + k = Len(new) /\ k + 1 = l + 1 /\ k \in 1 .. l
        BY <1>9, <3>1
      <4>2. rest[k] = added[l + 1]
        BY <2>1, <4>1
      <4> QED
        BY <1>2, <1>4, <4>1, <4>2
    <3>2. CASE k # l
      <4>1. /\ k + 1 \in 1 .. l /\ n - l - c + k + 1 \in 1 .. Len(new) - 1
            /\ Len(new) - l + k = n - l - c + k + 1
        <5>1. k \in Int /\ 1 <= k /\ k + 1 <= l /\ l <= n
          BY <1>9, <2>0, <3>2
        <5> QED
          BY <1>9, <5>1
      <4>2. new[n - l - c + k + 1] = keys[(n - l - c + k + 1) + c] /\ (n - l - c + k + 1) + c = n - l + (k + 1)
        <5>1. new[n - l - c + k + 1] = keys[(n - l - c + k + 1) + c]
          BY <1>2, <4>1
        <5>2. k \in Int
          BY <1>9
        <5> QED
          BY <1>9, <5>1, <5>2
      <4>3. k \in 1 .. l /\ rest[k] = added[k + 1]
        BY <2>1
      <4>4. added[k + 1] = old[k + 1]
        BY <1>4, <4>1
      <4>5. old[k + 1] = keys[n - l + (k + 1)]
        BY <1>1, <4>1
      <4> QED
        BY <4>1, <4>2, <4>3, <4>4, <4>5
    <3> QED
      BY <3>1, <3>2
  <2>4. l <= Len(new) /\ l <= LabelCap
    BY <1>1, <1>2, <1>3, <2>0
  <2>5. Labels(rest, new)
    BY <2>1, <2>3, <2>4 DEF Labels
  <2> QED
    BY <2>1, <2>2, <2>5 DEF new
<1> QED
  BY <1>7, <1>8

Shows(s) ==
  /\ Labels(s.labels.keys, s.memory.keys) /\ s.labels.elements = Len(s.labels.keys)
  /\ hShow \/ s.labels.keys = <<>>

LEMMA NoLabels ==
  ASSUME NEW keys \in Seq(Keys) PROVE Labels(<<>>, keys)
<1>1. Len(keys) \in Nat /\ LabelCap \in Nat /\ <<>> \in Seq(Keys) /\ Len(<<>>) = 0
  BY LenProperties, EmptySeq, HitAssumption
<1> QED
  BY <1>1 DEF Labels

LEMMA ShownShows ==
  ASSUME NEW s, DOMAIN s.memory = MemoryFields, NEW S, Remembers(s.memory, S), Shows(s), NEW z \in Impacts
  PROVE  Shows(Shown(s, z))
<1>1. /\ Shown(s, z).memory = Noticed(s.memory, z)
      /\ Shown(s, z).labels = IF IsNews(s.memory, z) /\ hShow THEN Labelled(s.labels, Key(z)) ELSE s.labels
  BY DEF Shown
<1>2. s.memory.keys \in Seq(Keys) /\ Len(s.memory.keys) <= PageCap /\ Key(z) \in Keys
  BY KeyIs DEF Remembers
<1>3. CASE ~IsNews(s.memory, z)
  <2>1. Shown(s, z).memory = s.memory /\ Shown(s, z).labels = s.labels
    BY <1>1, <1>3, NoticedIs
  <2> QED
    BY <2>1 DEF Shows
<1>4. CASE IsNews(s.memory, z)
  <2>1. Shown(s, z).memory.keys = Remember(s.memory.keys, Key(z))
    BY <1>1, <1>4, NoticedIs
  <2>2. \A k \in 1 .. Len(s.memory.keys) : s.memory.keys[k] # Key(z)
    BY <1>4 DEF IsNews, Contains
  <2>3. CASE hShow
    <3>1. Shown(s, z).labels = Labelled(s.labels, Key(z))
      BY <1>1, <1>4, <2>3
    <3>2. /\ Labels(Labelled(s.labels, Key(z)).keys, Remember(s.memory.keys, Key(z)))
          /\ Labelled(s.labels, Key(z)).elements = Len(Labelled(s.labels, Key(z)).keys)
      BY <1>2, <2>2, LabelledIs DEF Shows
    <3> QED
      BY <2>1, <2>3, <3>1, <3>2 DEF Shows
  <2>4. CASE ~hShow
    <3>1. Shown(s, z).labels = s.labels /\ s.labels.keys = <<>> /\ s.labels.elements = Len(s.labels.keys)
      BY <1>1, <2>4 DEF Shows
    <3>2. Remember(s.memory.keys, Key(z)) \in Seq(Keys)
      BY <1>2, RememberIs
    <3>3. Labels(<<>>, Remember(s.memory.keys, Key(z)))
      BY <3>2, NoLabels
    <3> QED
      BY <2>1, <3>1, <3>3 DEF Shows
  <2> QED
    BY <2>3, <2>4
<1> QED
  BY <1>3, <1>4

-----------------------------------------------------------------------------
(* A whole scene. *)

\* What is known before the impacts Z of a scene are looked at, while those in S may come again.
Ready(S, Z, tick) ==
  /\ S \in SUBSET Impacts /\ Z \subseteq S
  /\ DOMAIN hSeen = MemoryFields /\ Remembers(hSeen, S) /\ OneEach(hSeen.told \cup S)
  /\ \A x \in (hSeen.told \cap S) \cup Z, z \in Z : Near(x, z)
  /\ hSeen.told \cap S # {} => tick >= hSeen.tick
  /\ hElements = Len(hLabels) /\ Labels(hLabels, hSeen.keys) /\ (hShow \/ hLabels = <<>>)

\* After impacts Y.
LookedAt(s, S, Y, tick) ==
  /\ DOMAIN s.memory = MemoryFields /\ s.memory.of = hSeen.of /\ s.memory.tick = tick
  /\ Remembers(s.memory, S)
  /\ hSeen.told \subseteq s.memory.told /\ s.memory.told \subseteq hSeen.told \cup Y
  /\ \A z \in Y : z.hurts => IsTold(s.memory.told, z)
  /\ Shows(s)

LEMMA StartIs ==
  ASSUME NEW S, NEW Z, NEW shot, shot.tick \in Nat, hSeen.tick \in Nat, Ready(S, Z, shot.tick)
  PROVE  LookedAt(Start(shot), S, {}, shot.tick)
<1> DEFINE s == Start(shot)
<1>1. s.memory = Rewound(hSeen, shot.tick) /\ s.labels = LabelsRewound(shot.tick)
  BY DEF Start
<1>2. DOMAIN hSeen = MemoryFields /\ Remembers(hSeen, S) /\ hElements = Len(hLabels)
      /\ Labels(hLabels, hSeen.keys) /\ (hShow \/ hLabels = <<>>)
      /\ (hSeen.told \cap S # {} => shot.tick >= hSeen.tick)
  BY DEF Ready
<1> HIDE DEF s
<1>3. CASE shot.tick < hSeen.tick
  <2>1. s.memory = [hSeen EXCEPT !.keys = <<>>, !.tick = shot.tick]
    BY <1>1, <1>3 DEF Rewound
  <2>2. /\ DOMAIN s.memory = MemoryFields /\ s.memory.of = hSeen.of /\ s.memory.tick = shot.tick
        /\ s.memory.keys = <<>> /\ s.memory.told = hSeen.told /\ s.memory.twice = hSeen.twice
    BY <1>2, <2>1 DEF MemoryFields
  <2>3. s.memory.told \cap S = {}
    BY <1>2, <1>3, <2>2
  <2>4. <<>> \in Seq(Keys) /\ Len(<<>>) = 0 /\ PageCap \in Nat /\ 1 .. 0 = {}
    BY EmptySeq, HitAssumption
  <2>5. Remembers(s.memory, S)
    BY <1>2, <2>2, <2>3, <2>4 DEF Remembers
  <2>6. s.labels = [keys |-> <<>>, elements |-> hElements - Len(hLabels)]
    BY <1>1, <1>3 DEF LabelsRewound
  <2>7. s.labels.keys = <<>> /\ s.labels.elements = 0
    <3>1. Len(hLabels) \in Nat
      BY <1>2, LenProperties DEF Labels
    <3> QED
      BY <1>2, <2>6, <3>1
  <2>8. Shows(s)
    BY <2>2, <2>4, <2>7, NoLabels DEF Shows
  <2> QED
    BY <2>2, <2>5, <2>8 DEF LookedAt, s
<1>4. CASE ~(shot.tick < hSeen.tick)
  <2>1. s.memory = [hSeen EXCEPT !.tick = shot.tick]
    BY <1>1, <1>4 DEF Rewound
  <2>2. /\ DOMAIN s.memory = MemoryFields /\ s.memory.of = hSeen.of /\ s.memory.tick = shot.tick
        /\ s.memory.keys = hSeen.keys /\ s.memory.told = hSeen.told /\ s.memory.twice = hSeen.twice
    BY <1>2, <2>1 DEF MemoryFields
  <2>5. Remembers(s.memory, S)
    BY <1>2, <2>2 DEF Remembers
  <2>6. s.labels = [keys |-> hLabels, elements |-> hElements]
    BY <1>1, <1>4 DEF LabelsRewound
  <2>8. Shows(s)
    BY <1>2, <2>2, <2>6 DEF Shows
  <2> QED
    BY <2>2, <2>5, <2>8 DEF LookedAt, s
<1> QED
  BY <1>3, <1>4

LEMMA LooksAtOneMore ==
  ASSUME NEW s, NEW S, NEW Z, NEW tick, NEW from, Ready(S, Z, from), NEW Y \in SUBSET Z, LookedAt(s, S, Y, tick),
         NEW z \in Z
  PROVE  LookedAt(Shown(s, z), S, Y \cup {z}, tick)
<1> DEFINE m == s.memory  n == Noticed(m, z)
<1>1. /\ DOMAIN m = MemoryFields /\ Remembers(m, S) /\ m.of = hSeen.of /\ m.tick = tick
      /\ hSeen.told \subseteq m.told /\ m.told \subseteq hSeen.told \cup Y
      /\ (\A y \in Y : y.hurts => IsTold(m.told, y)) /\ Shows(s)
  BY DEF LookedAt
<1>2. S \in SUBSET Impacts /\ Z \subseteq S /\ z \in S /\ z \in Impacts
      /\ OneEach(hSeen.told \cup S) /\ \A x \in (hSeen.told \cap S) \cup Z : Near(x, z)
  BY DEF Ready
<1>3. Shown(s, z).memory = n
  BY DEF Shown
<1>4. OneEach(m.told \cup S)
  <2>1. m.told \cup S \subseteq hSeen.told \cup S
    BY <1>1, <1>2
  <2> QED
    BY <1>2, <2>1 DEF OneEach
<1>5. \A x \in m.told \cap S : Near(x, z)
  BY <1>1, <1>2
<1>6. Near(z, z)
  BY <1>2
<1> HIDE DEF m
<1>7. /\ Remembers(n, S) /\ m.told \subseteq n.told /\ n.told \subseteq m.told \cup {z}
      /\ (z.hurts => IsTold(n.told, z))
  BY <1>1, <1>2, <1>4, <1>5, <1>6, NoticedRemembers
<1>8. DOMAIN n = MemoryFields /\ n.of = m.of /\ n.tick = m.tick
  BY <1>1, NoticedIs
<1>9. Shows(Shown(s, z))
  BY <1>1, <1>2, ShownShows DEF m
<1> HIDE DEF n
<1>10. \A y \in Y \cup {z} : y.hurts => IsTold(n.told, y)
  BY <1>1, <1>7 DEF IsTold
<1>11. hSeen.told \subseteq n.told /\ n.told \subseteq hSeen.told \cup (Y \cup {z})
  BY <1>1, <1>7
<1> QED
  BY <1>1, <1>3, <1>7, <1>8, <1>9, <1>10, <1>11, Zenon DEF LookedAt

LEMMA LookIs ==
  ASSUME NEW S, NEW shot, NEW impacts \in Seq(Impacts), NEW Z, ToSet(impacts) \subseteq Z,
         shot.tick \in Nat, hSeen.tick \in Nat, Ready(S, Z, shot.tick)
  PROVE  LookedAt(Look(shot, impacts), S, ToSet(impacts), shot.tick)
<1> DEFINE L == Len(impacts)
           First(n) == {impacts[k] : k \in 1 .. n}
<1>1. L \in Nat
  BY LenProperties
<1>2. PICK seen : ShownLoop(seen, Start(shot), impacts, L) /\ Look(shot, impacts) = seen[L]
  BY <1>1, LookIsLoop
<1> DEFINE R == {n \in Nat : n <= L => LookedAt(seen[n], S, First(n), shot.tick)}
<1>3. 0 \in R
  <2>1. First(0) = {} /\ seen[0] = Start(shot)
    BY <1>2 DEF ShownLoop
  <2>2. LookedAt(Start(shot), S, {}, shot.tick)
    BY StartIs
  <2> HIDE DEF First
  <2> QED
    BY <2>1, <2>2
<1>4. ASSUME NEW n \in Nat, n \in R PROVE n + 1 \in R
  <2> SUFFICES ASSUME n + 1 <= L PROVE LookedAt(seen[n + 1], S, First(n + 1), shot.tick)
    OBVIOUS
  <2> DEFINE z == impacts[n + 1]
  <2>1. n + 1 \in 1 .. L /\ (n + 1) - 1 = n /\ n <= L
    BY <1>1
  <2>2. seen[n + 1] = Shown(seen[n], z)
    BY <1>2, <2>1 DEF ShownLoop
  <2>3. z \in ToSet(impacts) /\ First(n) \subseteq ToSet(impacts)
    BY <1>1, <2>1, InToSet
  <2>4. First(n + 1) = First(n) \cup {z}
    <3>1. 1 .. n + 1 = (1 .. n) \cup {n + 1}
      OBVIOUS
    <3> QED
      BY <3>1
  <2>5. LookedAt(seen[n], S, First(n), shot.tick)
    BY <1>4, <2>1
  <2>6. First(n) \in SUBSET Z /\ z \in Z
    BY <2>3
  <2> HIDE DEF First, z
  <2>7. LookedAt(Shown(seen[n], z), S, First(n) \cup {z}, shot.tick)
    BY <2>5, <2>6, LooksAtOneMore
  <2> QED
    BY <2>2, <2>4, <2>7
<1> HIDE DEF R
<1>5. \A n \in Nat : n \in R
  BY <1>3, <1>4, ReachesAll
<1>6. LookedAt(seen[L], S, First(L), shot.tick)
  <2>1. L \in R /\ L <= L
    BY <1>1, <1>5
  <2> HIDE DEF First, L
  <2> QED
    BY <2>1 DEF R
<1>7. First(L) = ToSet(impacts)
  BY InToSet
<1> QED
  BY <1>2, <1>6, <1>7

-----------------------------------------------------------------------------
(* The actions. *)

LEMMA HitsBegin == HitInit => HitsInvariant
<1> SUFFICES ASSUME HitInit PROVE HitsInvariant
  OBVIOUS
<1>1. /\ hServer = [match |-> 1, tick |-> 0, next |-> 1, list |-> <<>>]
      /\ hScene = [tick |-> 0, me |-> 0, impacts |-> <<>>] /\ hShow = TRUE
      /\ hLabels = <<>> /\ hElements = 0 /\ hSeen \in Memories
  BY DEF HitInit
<1>2. /\ DOMAIN hSeen = MemoryFields /\ hSeen.of \in {"numbers", "flash", "flinch"} /\ hSeen.keys = <<>>
      /\ hSeen.tick = 0 /\ hSeen.told = {} /\ hSeen.twice \in {FALSE}
  BY <1>1 DEF Memories, MemoryFields
<1>3. <<>> \in Seq(Impacts) /\ <<>> \in Seq(Keys) /\ Len(<<>>) = 0 /\ 1 .. 0 = {}
      /\ PageCap \in Nat /\ ServerCap \in Nat
  BY EmptySeq, HitAssumption
<1>4. InScene = {} /\ InList = {}
  <2>1. ToSet(<<>>) = {}
    BY <1>3, InToSet
  <2> QED
    BY <1>1, <2>1 DEF InScene, InList
<1>5. HitTypes
  <2>1. hShow \in BOOLEAN
    BY <1>1
  <2> QED
    BY <1>1, <1>2, <1>3, <2>1 DEF HitTypes
<1>6. NewestListed /\ InOrder /\ TicksGoOn
  BY <1>1, <1>2, <1>3, <1>4 DEF NewestListed, InOrder, TicksGoOn, OneEach
<1>7. Remembers(hSeen, InScene \cup InList)
  <2>1. hSeen.twice = FALSE
    BY <1>2
  <2> QED
    BY <1>2, <1>3, <1>4, <2>1 DEF Remembers
<1>8. NumbersAreNew
  BY <1>1, <1>2, <1>3, NoLabels DEF NumbersAreNew
<1>9. AllTold
  BY <1>4 DEF AllTold
<1> QED
  BY <1>5, <1>6, <1>7, <1>8, <1>9 DEF HitsInvariant

LEMMA HitFacts ==
  ASSUME HitsInvariant
  PROVE  /\ HitTypes /\ NewestListed /\ InOrder /\ TicksGoOn /\ NumbersAreNew /\ AllTold
         /\ Remembers(hSeen, InScene \cup InList)
         /\ InScene \in SUBSET Impacts /\ InList \in SUBSET Impacts /\ hSeen.told \in SUBSET Impacts
         /\ \A x \in InScene : \E k \in 1 .. Len(hScene.impacts) : hScene.impacts[k] = x
         /\ \A x \in InList : \E k \in 1 .. Len(hServer.list) : hServer.list[k] = x
<1>1. hScene.impacts \in Seq(Impacts) /\ hServer.list \in Seq(Impacts)
  BY DEF HitsInvariant, HitTypes
<1>2. hSeen.told \in SUBSET Impacts
  BY DEF HitsInvariant, Remembers
<1> QED
  BY <1>1, <1>2, InToSet DEF HitsInvariant, InScene, InList

\* The list has impacts of one match, near each other and with numbers given out.
LEMMA ListIs ==
  ASSUME HitsInvariant, NEW x \in InList
  PROVE  /\ x.match = hServer.match /\ x.sequence < hServer.next /\ x.sequence + ServerCap >= hServer.next
         /\ x \in Impacts
<1>1. PICK k \in 1 .. Len(hServer.list) : hServer.list[k] = x
  BY HitFacts
<1>2. Len(hServer.list) \in Nat /\ hServer.next \in Nat /\ ServerCap \in Nat /\ Len(hServer.list) <= ServerCap
  BY LenProperties, HitFacts, HitAssumption DEF HitTypes, NewestListed
<1>3. x.sequence = hServer.next - 1 - Len(hServer.list) + k /\ x.match = hServer.match
  BY <1>1, HitFacts DEF NewestListed
<1> QED
  BY <1>2, <1>3, HitFacts

LEMMA NearInList ==
  ASSUME HitsInvariant
  PROVE  /\ \A x, y \in InList : Near(x, y)
         /\ \A x \in hSeen.told \cap InList, z \in InScene : Near(x, z)
<1>1. ServerCap \in Nat /\ hServer.next \in Nat /\ hServer.match \in Nat
  BY HitAssumption, HitFacts DEF HitTypes
<1>2. ASSUME NEW x \in InList, NEW y \in InList PROVE Near(x, y)
  <2>1. x.sequence \in Nat /\ y.sequence \in Nat
    BY ListIs DEF Impacts
  <2>2. /\ x.match = hServer.match /\ x.sequence < hServer.next /\ x.sequence + ServerCap >= hServer.next
        /\ y.match = hServer.match /\ y.sequence < hServer.next /\ y.sequence + ServerCap >= hServer.next
    BY ListIs
  <2> QED
    BY <1>1, <2>1, <2>2 DEF Near
<1>3. ASSUME NEW x \in hSeen.told \cap InList, NEW z \in InScene PROVE Near(x, z)
  <2>1. x.sequence \in Nat /\ z.sequence \in Nat /\ x.match \in Nat /\ z.match \in Nat
    BY HitFacts DEF Impacts
  <2>2. x.match = hServer.match /\ x.sequence < hServer.next /\ x.sequence + ServerCap >= hServer.next
    BY ListIs
  <2>3. Before(x, z) /\ Past(z)
    BY HitFacts DEF InOrder
  <2> QED
    BY <1>1, <2>1, <2>2, <2>3 DEF Near, Before, Past
<1> QED
  BY <1>2, <1>3

LEMMA HitKeeps == HitsInvariant /\ Hit => HitsInvariant'
<1> SUFFICES ASSUME HitsInvariant, Hit PROVE HitsInvariant'
  OBVIOUS
<1>1. PICK target \in {0, 1, 2} :
        hServer' = [hServer EXCEPT !.tick = @ + 1, !.next = @ + 1,
                      !.list = Append(IF Len(hServer.list) = ServerCap THEN Tail(hServer.list) ELSE hServer.list,
                                      [sequence |-> hServer.next, target |-> target, hurts |-> target # 0,
                                       match |-> hServer.match])]
  BY DEF Hit
<1>2. UNCHANGED <<hMe, hScene, hSeen, hLabels, hElements, hShow>>
  BY DEF Hit
<1> DEFINE new == [sequence |-> hServer.next, target |-> target, hurts |-> target # 0, match |-> hServer.match]
           old == hServer.list
           kept == IF Len(old) = ServerCap THEN Tail(old) ELSE old
<1>3. /\ DOMAIN hServer' = {"match", "tick", "next", "list"} /\ hServer'.match = hServer.match
      /\ hServer'.tick = hServer.tick + 1 /\ hServer'.next = hServer.next + 1 /\ hServer'.list = Append(kept, new)
  BY <1>1, HitFacts DEF HitTypes
<1>4. /\ hServer.match \in Nat /\ hServer.tick \in Nat /\ hServer.next \in Nat /\ old \in Seq(Impacts)
      /\ Len(old) \in Nat /\ Len(old) <= ServerCap /\ Len(old) < hServer.next /\ ServerCap \in Nat /\ ServerCap > 0
      /\ hScene.tick \in Nat /\ hSeen.tick \in Nat
  BY LenProperties, HitFacts, HitAssumption DEF HitTypes, NewestListed
<1>5. new \in Impacts /\ new.sequence = hServer.next /\ new.match = hServer.match
  <2>1. (target # 0) \in BOOLEAN
    OBVIOUS
  <2> QED
    BY <1>4, <2>1 DEF Impacts
<1>6. PICK d \in {0, 1} :
        /\ kept \in Seq(Impacts) /\ Len(kept) = Len(old) - d /\ Len(kept) < ServerCap /\ Len(kept) \in Nat
        /\ \A k \in 1 .. Len(kept) : k + d \in 1 .. Len(old) /\ kept[k] = old[k + d]
  <2>1. CASE Len(old) = ServerCap
    <3>1. old # <<>>
      BY <1>4, <2>1, EmptySeq
    <3>2. /\ Tail(old) \in Seq(Impacts) /\ Len(Tail(old)) = Len(old) - 1
          /\ \A k \in 1 .. Len(Tail(old)) : Tail(old)[k] = old[k + 1]
      BY <1>4, <3>1, HeadTailProperties
    <3>3. kept = Tail(old)
      BY <2>1
    <3> HIDE DEF kept
    <3> QED
      BY <1>4, <2>1, <3>2, <3>3
  <2>2. CASE Len(old) # ServerCap
    <3>1. kept = old
      BY <2>2
    <3> HIDE DEF kept
    <3> QED
      BY <1>4, <2>2, <3>1
  <2> QED
    BY <2>1, <2>2
<1> HIDE DEF new, kept
<1>7. /\ hServer'.list \in Seq(Impacts) /\ Len(hServer'.list) = Len(kept) + 1
      /\ hServer'.list[Len(kept) + 1] = new
      /\ \A k \in 1 .. Len(kept) : hServer'.list[k] = kept[k]
  BY <1>3, <1>5, <1>6, AppendProperties
<1>8. InList' \subseteq InList \cup {new} /\ InScene' = InScene /\ InScene \subseteq Impacts /\ InList \subseteq Impacts
  <2>1. ASSUME NEW x \in InList' PROVE x \in InList \cup {new}
    <3>1. PICK k \in 1 .. Len(hServer'.list) : hServer'.list[k] = x
      <4>1. \A y \in ToSet(hServer'.list) : \E k \in 1 .. Len(hServer'.list) : hServer'.list[k] = y
        BY <1>7, InToSet
      <4> QED
        BY <2>1, <4>1 DEF InList
    <3>2. CASE k = Len(kept) + 1
      <4>1. x = new
        BY <1>7, <3>1, <3>2, Zenon
      <4> QED
        BY <4>1
    <3>3. CASE k # Len(kept) + 1
      <4>1. k \in 1 .. Len(kept)
        <5>1. Len(kept) \in Nat /\ Len(hServer'.list) = Len(kept) + 1
          BY <1>6, <1>7
        <5> QED
          BY <3>3, <5>1
      <4>2. x = old[k + d] /\ k + d \in 1 .. Len(old)
        BY <1>6, <1>7, <3>1, <4>1
      <4>3. x \in ToSet(old)
        BY <1>4, <4>2, InToSet
      <4> QED
        BY <4>3 DEF InList
    <3> QED
      BY <3>2, <3>3
  <2> QED
    BY <1>2, <2>1, HitFacts DEF InScene
<1>9. \A x \in hSeen.told \cup InScene \cup InList : ~(x.match = hServer.match /\ x.sequence = hServer.next)
  <2>1. ASSUME NEW x \in hSeen.told \cup InScene PROVE ~(x.match = hServer.match /\ x.sequence = hServer.next)
    <3>1. Past(x) /\ x.sequence \in Nat
      BY HitFacts DEF InOrder, Impacts
    <3> QED
      BY <1>4, <3>1 DEF Past
  <2>2. ASSUME NEW x \in InList PROVE ~(x.match = hServer.match /\ x.sequence = hServer.next)
    <3>1. x.sequence < hServer.next /\ x.sequence \in Nat
      BY ListIs DEF Impacts
    <3> QED
      BY <1>4, <3>1
  <2> QED
    BY <2>1, <2>2
<1>10. HitTypes'
  <2>1. HitTypes
    BY HitFacts
  <2>2. /\ DOMAIN hServer' = {"match", "tick", "next", "list"} /\ hServer'.list \in Seq(Impacts)
        /\ hServer'.match \in Nat /\ hServer'.tick \in Nat /\ hServer'.next \in Nat
    <3>1. hServer'.list \in Seq(Impacts)
      BY <1>7
    <3>2. DOMAIN hServer' = {"match", "tick", "next", "list"} /\ hServer'.match \in Nat
      BY <1>3, <1>4
    <3>3. hServer'.tick \in Nat /\ hServer'.next \in Nat
      <4>1. hServer'.tick = hServer.tick + 1 /\ hServer'.next = hServer.next + 1
        BY <1>3
      <4> QED
        BY <1>4, <4>1
    <3> QED
      BY <3>1, <3>2, <3>3
  <2> QED
    BY <1>2, <2>1, <2>2, SMTT(60) DEF HitTypes
<1>11. NewestListed'
  <2>1. ASSUME NEW k \in 1 .. Len(hServer'.list)
        PROVE  /\ hServer'.list[k].sequence = hServer'.next - 1 - Len(hServer'.list) + k
               /\ hServer'.list[k].match = hServer'.match
    <3>1. CASE k = Len(kept) + 1
      BY <1>3, <1>4, <1>5, <1>6, <1>7, <3>1
    <3>2. CASE k # Len(kept) + 1
      <4>1. k \in 1 .. Len(kept)
        BY <1>6, <1>7, <3>2
      <4>2. hServer'.list[k] = old[k + d] /\ k + d \in 1 .. Len(old)
        BY <1>6, <1>7, <4>1
      <4>3. old[k + d].sequence = hServer.next - 1 - Len(old) + (k + d) /\ old[k + d].match = hServer.match
        BY <4>2, HitFacts DEF NewestListed
      <4>4. hServer.next - 1 - Len(old) + (k + d) = hServer'.next - 1 - Len(hServer'.list) + k
        <5>1. /\ hServer'.next = hServer.next + 1 /\ Len(hServer'.list) = Len(old) - d + 1
              /\ hServer.next \in Int /\ Len(old) \in Int /\ d \in Int /\ k \in Int
          BY <1>3, <1>4, <1>6, <1>7, <4>1
        <5> QED
          BY <5>1
      <4> QED
        BY <1>3, <4>2, <4>3, <4>4
    <3> QED
      BY <3>1, <3>2
  <2>2. Len(hServer'.list) <= ServerCap /\ Len(hServer'.list) < hServer'.next
    BY <1>3, <1>4, <1>6, <1>7
  <2> QED
    BY <2>1, <2>2 DEF NewestListed
<1>12. InOrder'
  <2>1. ASSUME NEW x \in hSeen.told \cup InScene PROVE Past(x)'
    <3>1. Past(x) /\ x.sequence \in Nat
      BY HitFacts DEF InOrder, Impacts
    <3> QED
      BY <1>3, <1>4, <3>1 DEF Past
  <2>2. OneEach(hSeen.told \cup InScene \cup InList \cup {new})
    BY <1>5, <1>9, HitFacts DEF InOrder, OneEach
  <2>3. OneEach((hSeen.told \cup InScene \cup InList)')
    <3>1. (hSeen.told \cup InScene \cup InList)' \subseteq hSeen.told \cup InScene \cup InList \cup {new}
      BY <1>2, <1>8
    <3> QED
      BY <2>2, <3>1 DEF OneEach
  <2> QED
    BY <1>2, <1>8, <2>1, <2>3, HitFacts DEF InOrder, OneEach
<1>13. new \notin hSeen.told \cup InScene
  BY <1>5, <1>9
<1>14. TicksGoOn'
  <2>1. (hSeen.told \cap (InScene \cup InList))' \subseteq hSeen.told \cap (InScene \cup InList)
        /\ ((hSeen.told \cup InScene) \cap InList)' \subseteq (hSeen.told \cup InScene) \cap InList
    BY <1>2, <1>8, <1>13
  <2> QED
    BY <1>2, <1>3, <1>4, <2>1, HitFacts DEF TicksGoOn
<1>15. Remembers(hSeen, InScene \cup InList)'
  <2>1. hSeen.told \cap (InScene' \cup InList') \subseteq InScene \cup InList
    BY <1>8, <1>13
  <2>2. Remembers(hSeen, InScene' \cup InList')
    BY <2>1, HitFacts, RemembersLess
  <2> QED
    BY <1>2, <2>2 DEF Remembers, KeptIn, Near
<1>16. NumbersAreNew' /\ AllTold'
  BY <1>2, <1>8, HitFacts DEF NumbersAreNew, Labels, AllTold, IsTold, Key
<1> QED
  BY <1>10, <1>11, <1>12, <1>14, <1>15, <1>16 DEF HitsInvariant

\* A list that was given up is followed by an empty one of a later match.
LEMMA NewListKeeps ==
  ASSUME HitsInvariant, DOMAIN hServer' = {"match", "tick", "next", "list"}, hServer'.match = hServer.match + 1,
         hServer'.tick \in Nat, hServer'.next = 1, hServer'.list = <<>>,
         UNCHANGED <<hScene, hSeen, hLabels, hElements, hShow>>
  PROVE  HitsInvariant'
<1>1. <<>> \in Seq(Impacts) /\ Len(<<>>) = 0 /\ 1 .. 0 = {} /\ hServer.match \in Nat /\ ServerCap \in Nat /\ ServerCap > 0
  BY EmptySeq, HitFacts, HitAssumption DEF HitTypes
<1>2. InList' = {} /\ InScene' = InScene
  <2>1. ToSet(<<>>) = {}
    BY <1>1, InToSet
  <2> QED
    BY <2>1 DEF InList, InScene
<1>3. HitTypes' /\ NewestListed'
  BY <1>1, HitFacts DEF HitTypes, NewestListed
<1>4. InOrder'
  <2>1. ASSUME NEW x \in hSeen.told \cup InScene PROVE Past(x)'
    <3>1. Past(x) /\ x.match \in Nat
      BY HitFacts DEF InOrder, Impacts
    <3> QED
      BY <1>1, <3>1 DEF Past
  <2> QED
    BY <1>2, <2>1, HitFacts DEF InOrder, OneEach, Before, Near
<1>5. TicksGoOn'
  <2>1. (hSeen.told \cap (InScene \cup InList))' \subseteq hSeen.told \cap (InScene \cup InList)
        /\ ((hSeen.told \cup InScene) \cap InList)' = {}
    BY <1>2
  <2> QED
    BY <2>1, HitFacts DEF TicksGoOn
<1>6. Remembers(hSeen, InScene \cup InList)'
  <2>1. Remembers(hSeen, InScene' \cup InList')
    BY <1>2, HitFacts, RemembersLess
  <2> QED
    BY <2>1 DEF Remembers, KeptIn, Near
<1>7. NumbersAreNew' /\ AllTold'
  BY <1>2, HitFacts DEF NumbersAreNew, Labels, AllTold, IsTold, Key
<1> QED
  BY <1>3, <1>4, <1>5, <1>6, <1>7 DEF HitsInvariant

LEMMA NewMapKeeps == HitsInvariant /\ (NewMap \/ OtherServer) => HitsInvariant'
<1> SUFFICES ASSUME HitsInvariant, NewMap \/ OtherServer PROVE HitsInvariant'
  OBVIOUS
<1>1. hServer.match \in Nat /\ hServer.tick \in Nat
  BY HitFacts DEF HitTypes
<1>2. /\ DOMAIN hServer' = {"match", "tick", "next", "list"} /\ hServer'.match = hServer.match + 1
      /\ hServer'.tick \in Nat /\ hServer'.next = 1 /\ hServer'.list = <<>>
  BY <1>1 DEF NewMap, OtherServer
<1>3. UNCHANGED <<hScene, hSeen, hLabels, hElements, hShow>>
  BY DEF NewMap, OtherServer
<1> QED
  BY <1>2, <1>3, NewListKeeps

\* The page's own acts.
LEMMA ClearKeeps ==
  ASSUME HitsInvariant, ClearLabels, hShow' \in BOOLEAN, UNCHANGED <<hServer, hSeen>>,
         DOMAIN hScene' = {"tick", "me", "impacts"}, hScene'.tick = hScene.tick, hScene'.me = hScene.me,
         hScene'.impacts \in {hScene.impacts, <<>>}
  PROVE  HitsInvariant'
<1>1. <<>> \in Seq(Impacts) /\ Len(<<>>) = 0 /\ 1 .. 0 = {}
  BY EmptySeq
<1>2. InList' = InList /\ InScene' \subseteq InScene
  <2>1. ToSet(<<>>) = {}
    BY <1>1, InToSet
  <2> QED
    BY <2>1 DEF InList, InScene
<1>3. HitTypes' /\ NewestListed'
  <2>1. HitTypes /\ NewestListed
    BY HitFacts
  <2>2. NewestListed'
    BY <2>1 DEF NewestListed
  <2>3. hScene'.impacts \in Seq(Impacts)
    BY <1>1, <2>1 DEF HitTypes
  <2> QED
    BY <2>1, <2>2, <2>3 DEF HitTypes
<1>4. InOrder'
  <2>1. \A x \in (hSeen.told \cup InScene)' : Past(x)'
    BY <1>2, HitFacts DEF InOrder, Past
  <2>2. /\ \A x \in hSeen.told', y \in InScene' : Before(x, y)'
        /\ \A x, y \in InScene' : Near(x, y)'
    BY <1>2, HitFacts DEF InOrder, Before, Near
  <2>3. OneEach(hSeen.told \cup InScene \cup InList)'
    BY <1>2, HitFacts DEF InOrder, OneEach
  <2> QED
    BY <2>1, <2>2, <2>3 DEF InOrder
<1>5. TicksGoOn'
  <2>1. (hSeen.told \cap (InScene \cup InList))' \subseteq hSeen.told \cap (InScene \cup InList)
        /\ ((hSeen.told \cup InScene) \cap InList)' \subseteq (hSeen.told \cup InScene) \cap InList
    BY <1>2
  <2> QED
    BY <2>1, HitFacts DEF TicksGoOn
<1>6. Remembers(hSeen, InScene \cup InList)'
  <2>1. Remembers(hSeen, InScene' \cup InList')
    BY <1>2, HitFacts, RemembersLess
  <2> QED
    BY <2>1 DEF Remembers, KeptIn, Near
<1>7. AllTold'
  BY <1>2, HitFacts DEF AllTold, IsTold, Key
<1>8. NumbersAreNew'
  <2>1. hLabels' = <<>> /\ hElements' = 0
    <3>1. hElements = Len(hLabels) /\ Len(hLabels) \in Nat
      BY HitFacts, LenProperties DEF NumbersAreNew, Labels
    <3> QED
      BY <3>1 DEF ClearLabels
  <2>2. hSeen'.keys \in Seq(Keys)
    BY HitFacts DEF Remembers
  <2>3. Labels(hLabels', hSeen'.keys)
    BY <2>1, <2>2, NoLabels
  <2> QED
    BY <1>1, <2>1, <2>3 DEF NumbersAreNew, Labels
<1> QED
  BY <1>3, <1>4, <1>5, <1>6, <1>7, <1>8 DEF HitsInvariant

LEMMA PageActsKeep == HitsInvariant /\ (ShowNumbers \/ JoinAgain) => HitsInvariant'
<1> SUFFICES ASSUME HitsInvariant, ShowNumbers \/ JoinAgain PROVE HitsInvariant'
  OBVIOUS
<1>1. hShow \in BOOLEAN /\ DOMAIN hScene = {"tick", "me", "impacts"}
  BY HitFacts DEF HitTypes
<1>2. CASE ShowNumbers
  <2>1. ClearLabels /\ hShow' = ~hShow /\ UNCHANGED <<hServer, hScene, hSeen>>
    BY <1>2 DEF ShowNumbers
  <2>2. hShow' \in BOOLEAN
    BY <1>1, <2>1
  <2> QED
    BY <1>1, <2>1, <2>2, ClearKeeps
<1>3. CASE JoinAgain
  <2>1. ClearLabels /\ UNCHANGED <<hServer, hSeen, hShow>> /\ hScene' = [hScene EXCEPT !.impacts = <<>>]
    BY <1>3 DEF JoinAgain
  <2>2. /\ DOMAIN hScene' = {"tick", "me", "impacts"} /\ hScene'.tick = hScene.tick /\ hScene'.me = hScene.me
        /\ hScene'.impacts = <<>>
    BY <1>1, <2>1
  <2> QED
    BY <1>1, <2>1, <2>2, ClearKeeps
<1> QED
  BY <1>2, <1>3

\* What is told and a scene with impacts Z go together.
Ordered(told, Z) ==
  /\ \A x \in told \cup Z : Past(x)
  /\ \A x \in told, y \in Z : Before(x, y)
  /\ \A x, y \in Z : Near(x, y)
  /\ OneEach(told \cup Z \cup InList)

LEMMA MoreIsOrdered ==
  ASSUME NEW told, NEW Z \in SUBSET Impacts, Ordered(told, Z), NEW more, more \subseteq told \cup Z
  PROVE  Ordered(more, Z)
<1>1. \A x, y \in Z : Before(x, y)
  BY DEF Ordered, Near, Before, Impacts
<1>2. \A x \in more, y \in Z : Before(x, y)
  BY <1>1 DEF Ordered
<1>3. \A x \in more \cup Z : Past(x)
  BY DEF Ordered
<1>4. OneEach(more \cup Z \cup InList)
  BY DEF Ordered, OneEach
<1> QED
  BY <1>2, <1>3, <1>4 DEF Ordered

LEMMA ListIsOrdered ==
  ASSUME HitsInvariant PROVE Ordered(hSeen.told, InList)
<1>1. hServer.match \in Nat /\ hServer.next \in Nat /\ ServerCap \in Nat
  BY HitFacts, HitAssumption DEF HitTypes
<1>2. ASSUME NEW x \in hSeen.told \cup InList PROVE Past(x)
  <2>1. CASE x \in hSeen.told
    BY <2>1, HitFacts DEF InOrder
  <2>2. CASE x \in InList
    BY <1>1, <2>2, ListIs DEF Past
  <2> QED
    BY <2>1, <2>2
<1>3. ASSUME NEW x \in hSeen.told, NEW y \in InList PROVE Before(x, y)
  <2>1. Past(x) /\ x.match \in Nat /\ x.sequence \in Nat /\ y.sequence \in Nat
    BY <1>2, HitFacts DEF Impacts
  <2>2. y.match = hServer.match /\ y.sequence + ServerCap >= hServer.next
    BY ListIs
  <2> QED
    BY <1>1, <2>1, <2>2 DEF Past, Before
<1>4. OneEach(hSeen.told \cup InList \cup InList)
  BY HitFacts DEF InOrder, OneEach
<1> QED
  BY <1>2, <1>3, <1>4, NearInList DEF Ordered

LEMMA LabelsNow ==
  ASSUME HitsInvariant
  PROVE  hElements = Len(hLabels) /\ Labels(hLabels, hSeen.keys) /\ (hShow \/ hLabels = <<>>)
BY HitFacts DEF NumbersAreNew

LEMMA ReadyForList == HitsInvariant => Ready(InList, InList, hServer.tick)
<1> SUFFICES ASSUME HitsInvariant PROVE Ready(InList, InList, hServer.tick)
  OBVIOUS
<1>1. Remembers(hSeen, InList)
  BY HitFacts, RemembersLess
<1>2. OneEach(hSeen.told \cup InList)
  BY HitFacts DEF InOrder, OneEach
<1>3. \A x \in (hSeen.told \cap InList) \cup InList, z \in InList : Near(x, z)
  BY NearInList
<1>4. hSeen.told \cap InList # {} => hServer.tick >= hSeen.tick
  <2>1. hServer.tick \in Nat /\ hScene.tick \in Nat /\ hSeen.tick \in Nat
    BY HitFacts DEF HitTypes
  <2>2. hSeen.told \cap InList # {} => hServer.tick >= hScene.tick /\ hScene.tick >= hSeen.tick
    BY HitFacts DEF TicksGoOn
  <2> QED
    BY <2>1, <2>2
<1> QED
  BY <1>1, <1>2, <1>3, <1>4, LabelsNow, HitFacts DEF Ready, HitTypes

LEMMA ReadyForScene == HitsInvariant => Ready(InScene \cup InList, InScene, hScene.tick)
<1> SUFFICES ASSUME HitsInvariant PROVE Ready(InScene \cup InList, InScene, hScene.tick)
  OBVIOUS
<1>1. OneEach(hSeen.told \cup (InScene \cup InList))
  BY HitFacts DEF InOrder, OneEach
<1>2. \A x \in (hSeen.told \cap (InScene \cup InList)) \cup InScene, z \in InScene : Near(x, z)
  BY NearInList, HitFacts DEF InOrder
<1>3. hSeen.told \cap (InScene \cup InList) # {} => hScene.tick >= hSeen.tick
  BY HitFacts DEF TicksGoOn
<1> QED
  BY <1>1, <1>2, <1>3, LabelsNow, HitFacts DEF Ready, HitTypes

\* A scene with impacts Z has been looked at.
LEMMA LookedKeeps ==
  ASSUME HitsInvariant, NEW s, NEW Y, UNCHANGED <<hServer, hShow>>,
         DOMAIN hScene' = {"tick", "me", "impacts"}, hScene'.impacts \in Seq(Impacts), hScene'.tick \in Nat,
         LookedAt(s, InScene' \cup InList, Y, hScene'.tick), Y \subseteq InScene', hSeen' = s.memory,
         Ordered(hSeen.told, InScene'),
         (hSeen.told \cup InScene') \cap InList # {} => hServer.tick >= hScene'.tick,
         NumbersAreNew', AllTold'
  PROVE  HitsInvariant'
<1>1. /\ DOMAIN hSeen' = MemoryFields /\ hSeen'.of = hSeen.of /\ hSeen'.tick = hScene'.tick
      /\ hSeen'.told \subseteq hSeen.told \cup InScene' /\ Remembers(hSeen', InScene' \cup InList)
  BY DEF LookedAt
<1>2. InList' = InList /\ InScene' \in SUBSET Impacts
  BY InToSet DEF InList, InScene
<1>3. HitTypes' /\ NewestListed'
  BY <1>1, HitFacts DEF HitTypes, NewestListed
<1>4. InOrder'
  <2>1. Ordered(hSeen'.told, InScene')
    BY <1>1, <1>2, MoreIsOrdered
  <2> QED
    BY <1>2, <2>1 DEF Ordered, InOrder, OneEach, Past, Before, Near
<1>5. TicksGoOn'
  <2>1. hScene'.tick >= hSeen'.tick
    BY <1>1
  <2>2. (hSeen'.told \cup InScene') \cap InList # {} => hServer.tick >= hScene'.tick
    BY <1>1
  <2> QED
    BY <1>2, <2>1, <2>2 DEF TicksGoOn
<1>6. Remembers(hSeen, InScene \cup InList)'
  BY <1>1, <1>2 DEF Remembers, KeptIn, Near
<1> QED
  BY <1>3, <1>4, <1>5, <1>6 DEF HitsInvariant

\* Numbers whose time is over are the first.
LEMMA NumbersGo ==
  ASSUME HitsInvariant, NEW s, NEW S, NEW Y, NEW tick, LookedAt(s, S, Y, tick), hSeen.of = "numbers",
         hSeen' = s.memory, hShow' = hShow, NEW gone \in 0 .. Len(s.labels.keys),
         ~hShow => gone = Len(s.labels.keys),
         hLabels' = SubSeq(s.labels.keys, gone + 1, Len(s.labels.keys)),
         hElements' = s.labels.elements - gone
  PROVE  NumbersAreNew'
<1> DEFINE old == s.labels.keys  keys == s.memory.keys  l == Len(old)  n == Len(keys)  new == hLabels'
<1>1. /\ Labels(old, keys) /\ s.labels.elements = l /\ hSeen'.of = "numbers" /\ keys \in Seq(Keys)
      /\ hSeen'.keys = keys
  BY DEF LookedAt, Shows, Remembers
<1>2. /\ old \in Seq(Keys) /\ l <= LabelCap /\ l <= n /\ l \in Nat /\ n \in Nat
      /\ \A k \in 1 .. l : old[k] = keys[n - l + k]
  BY <1>1, LenProperties DEF Labels
<1>3. LabelCap \in Nat
  BY HitAssumption
<1>4. /\ new \in Seq(Keys) /\ Len(new) = l - gone /\ \A k \in 1 .. l - gone : new[k] = old[gone + k]
  <2> DEFINE first == gone + 1
  <2>1. gone \in Nat /\ gone <= l /\ first \in Int /\ l \in Int /\ \A k \in first .. l : k \in 1 .. l
    BY <1>2
  <2>2. \A k \in first .. l : old[k] \in Keys
    BY <1>2, <2>1, ElementOfSeq
  <2>3. new = SubSeq(old, first, l)
    OBVIOUS
  <2>4. /\ l - first + 1 = l - gone /\ (IF first <= l THEN l - first + 1 ELSE 0) = l - gone
        /\ \A k \in 1 .. l - gone : first + k - 1 = gone + k
    BY <2>1
  <2> HIDE DEF new, first, l, old
  <2>5. /\ SubSeq(old, first, l) \in Seq(Keys)
        /\ Len(SubSeq(old, first, l)) = IF first <= l THEN l - first + 1 ELSE 0
        /\ \A i \in 1 .. l - first + 1 : SubSeq(old, first, l)[i] = old[first + i - 1]
    BY <2>1, <2>2, SubSeqProperties
  <2> QED
    BY <2>3, <2>4, <2>5
<1> HIDE DEF new, l, n, old, keys
<1>5. gone \in Nat /\ gone <= l
  BY <1>2 DEF l, old
<1>6. Labels(new, keys)
  <2>1. \A k \in 1 .. l - gone : new[k] = keys[n - (l - gone) + k]
    <3> SUFFICES ASSUME NEW k \in 1 .. l - gone PROVE new[k] = keys[n - (l - gone) + k]
      OBVIOUS
    <3>1. gone + k \in 1 .. l /\ n - l + (gone + k) = n - (l - gone) + k
      BY <1>2, <1>5
    <3> QED
      BY <1>2, <1>4, <3>1
  <2>2. l - gone <= LabelCap /\ l - gone <= n
    BY <1>2, <1>3, <1>5
  <2> QED
    BY <1>4, <2>1, <2>2 DEF Labels, n
<1>7. hElements' = Len(hLabels')
  BY <1>1, <1>4 DEF new
<1>8. ~hShow => hLabels' = <<>>
  <2>1. ~hShow => Len(new) = 0
    BY <1>2, <1>4, <1>5 DEF l, old
  <2> QED
    BY <1>4, <2>1, EmptySeq DEF new
<1>9. Labels(hLabels', hSeen'.keys)
  BY <1>1, <1>6 DEF new
<1> QED
  BY <1>1, <1>7, <1>8, <1>9 DEF NumbersAreNew, Labels

\* The others have none.
LEMMA NoNumbers ==
  ASSUME HitsInvariant, hSeen.of # "numbers", hSeen'.of = hSeen.of, hSeen'.keys \in Seq(Keys),
         UNCHANGED <<hLabels, hElements, hShow>>
  PROVE  NumbersAreNew'
<1>1. hLabels = <<>> /\ hElements = Len(hLabels)
  BY HitFacts DEF NumbersAreNew
<1>2. Labels(hLabels', hSeen'.keys)
  BY <1>1, NoLabels
<1> QED
  BY <1>1, <1>2 DEF NumbersAreNew, Labels

LEMMA FrameKeeps == HitsInvariant /\ Frame => HitsInvariant'
<1> SUFFICES ASSUME HitsInvariant, Frame PROVE HitsInvariant'
  OBVIOUS
<1> DEFINE e == Look(hScene, hScene.impacts)  Z == ToSet(hScene.impacts)
<1>1. /\ hScene.impacts \in Seq(Impacts) /\ DOMAIN hScene = {"tick", "me", "impacts"} /\ hScene.tick \in Nat
      /\ hSeen.tick \in Nat /\ Z = InScene /\ Z \subseteq Z
  BY HitFacts DEF HitTypes, InScene
<1>2. LookedAt(e, InScene \cup InList, Z, hScene.tick)
  BY <1>1, ReadyForScene, LookIs
<1>3. UNCHANGED <<hServer, hMe, hScene, hShow>>
  BY DEF Frame
<1>4. InScene' = InScene /\ Ordered(hSeen.told, InScene)
      /\ ((hSeen.told \cup InScene) \cap InList # {} => hServer.tick >= hScene.tick)
  BY <1>3, HitFacts DEF InScene, InOrder, Ordered, TicksGoOn
<1>5. e.memory.of = hSeen.of /\ e.memory.keys \in Seq(Keys)
      /\ \A z \in InScene : z.hurts => IsTold(e.memory.told, z)
  BY <1>1, <1>2 DEF LookedAt, Remembers
<1> HIDE DEF e, Z
<1>6. CASE hSeen.of = "numbers" /\ UpdateDamageNumbers(hScene)
  <2>1. /\ hSeen' = e.memory
        /\ \E gone \in 0 .. Len(e.labels.keys) :
             /\ ~hShow => gone = Len(e.labels.keys)
             /\ hLabels' = SubSeq(e.labels.keys, gone + 1, Len(e.labels.keys))
             /\ hElements' = e.labels.elements - gone
    BY <1>6 DEF UpdateDamageNumbers, e
  <2>2. NumbersAreNew'
    BY <1>2, <1>3, <1>6, <2>1, NumbersGo
  <2>3. AllTold'
    BY <1>3, <1>4, <1>5, <2>1 DEF AllTold, IsTold, Key
  <2> QED
    BY <1>1, <1>2, <1>3, <1>4, <2>1, <2>2, <2>3, LookedKeeps
<1>7. CASE hSeen.of = "flinch" /\ UpdateFlinches /\ UNCHANGED <<hLabels, hElements>>
  <2>1. hSeen' = e.memory
    BY <1>7 DEF UpdateFlinches, e
  <2>2. NumbersAreNew'
    BY <1>3, <1>5, <1>7, <2>1, NoNumbers
  <2>3. AllTold'
    BY <1>5, <1>7, <2>1 DEF AllTold
  <2> QED
    BY <1>1, <1>2, <1>3, <1>4, <2>1, <2>2, <2>3, LookedKeeps
<1> QED
  BY <1>6, <1>7 DEF Frame

LEMMA ArrivesKeeps == HitsInvariant /\ Arrives => HitsInvariant'
<1> SUFFICES ASSUME HitsInvariant, Arrives PROVE HitsInvariant'
  OBVIOUS
<1> DEFINE shot == [tick |-> hServer.tick, me |-> hMe, impacts |-> hServer.list]
<1>1. /\ hScene' = shot /\ UNCHANGED <<hServer, hMe, hShow>>
      /\ \/ hSeen.of = "numbers" /\ UpdateDamageNumbers(shot)
         \/ hSeen.of = "flash" /\ UpdateLocalHitFeedback(shot) /\ UNCHANGED <<hLabels, hElements>>
         \/ hSeen.of = "flinch" /\ UNCHANGED <<hSeen, hLabels, hElements>>
  BY DEF Arrives
<1>2. /\ DOMAIN shot = {"tick", "me", "impacts"} /\ shot.tick = hServer.tick /\ shot.me = hMe
      /\ shot.impacts = hServer.list /\ hServer.list \in Seq(Impacts) /\ hServer.tick \in Nat
      /\ hSeen.tick \in Nat /\ hScene.tick \in Nat
  BY HitFacts DEF HitTypes
<1> HIDE DEF shot
<1>3. InScene' = InList /\ InList' = InList
  BY <1>1, <1>2 DEF InScene, InList
<1>4. Ordered(hSeen.told, InList) /\ Ready(InList, InList, shot.tick) /\ InList \cup InList = InList
  BY <1>2, ListIsOrdered, ReadyForList
<1>5. hServer.tick >= shot.tick
  BY <1>2
<1>6. CASE hSeen.of = "numbers" /\ UpdateDamageNumbers(shot)
  <2> DEFINE e == Look(shot, shot.impacts)  Z == ToSet(shot.impacts)
  <2>1. Z = InList
    BY <1>2 DEF InList
  <2>2. LookedAt(e, InList, Z, shot.tick)
    BY <1>2, <1>4, <2>1, LookIs
  <2>3. \A z \in InList : z.hurts => IsTold(e.memory.told, z)
    BY <2>1, <2>2 DEF LookedAt
  <2> HIDE DEF e, Z
  <2>4. /\ hSeen' = e.memory
        /\ \E gone \in 0 .. Len(e.labels.keys) :
             /\ ~hShow => gone = Len(e.labels.keys)
             /\ hLabels' = SubSeq(e.labels.keys, gone + 1, Len(e.labels.keys))
             /\ hElements' = e.labels.elements - gone
    BY <1>6 DEF UpdateDamageNumbers, e
  <2>5. NumbersAreNew'
    BY <1>1, <1>6, <2>2, <2>4, NumbersGo
  <2>6. AllTold'
    BY <1>3, <2>3, <2>4 DEF AllTold, IsTold, Key
  <2> QED
    BY <1>1, <1>2, <1>3, <1>4, <1>5, <2>1, <2>2, <2>4, <2>5, <2>6, LookedKeeps
<1>7. CASE hSeen.of = "flash" /\ UpdateLocalHitFeedback(shot) /\ UNCHANGED <<hLabels, hElements>>
  <2> DEFINE mine == {impact \in ToSet(shot.impacts) : impact.target = shot.me}
             own == Only(shot.impacts, mine)  e == Look(shot, own)  Z == ToSet(own)
  <2>1. own \in Seq(Impacts) /\ \E from : Picks(own, from, shot.impacts, Len(shot.impacts), mine)
    BY <1>2, OnlyPicks
  <2>2. PICK from : Picks(own, from, shot.impacts, Len(shot.impacts), mine)
    BY <2>1
  <2>3. mine \subseteq InList /\ \A x \in InList : x.target = hMe => x \in mine
    BY <1>2 DEF InList
  <2>4. hSeen' = e.memory
    BY <1>7 DEF UpdateLocalHitFeedback
  <2> HIDE DEF mine, own
  <2>5. Z \subseteq mine /\ mine \subseteq Z
    <3>1. ASSUME NEW x \in Z PROVE x \in mine
      <4>1. PICK k \in 1 .. Len(own) : own[k] = x
        BY <2>1, <3>1, InToSet
      <4> QED
        BY <2>2, <4>1 DEF Picks
    <3>2. ASSUME NEW x \in mine PROVE x \in Z
      <4>1. PICK i \in 1 .. Len(shot.impacts) : shot.impacts[i] = x
        BY <1>2, <2>3, <3>2, HitFacts
      <4>2. PICK k \in 1 .. Len(own) : from[k] = i
        BY <2>2, <3>2, <4>1 DEF Picks
      <4>3. own[k] = x
        BY <2>2, <4>1, <4>2 DEF Picks
      <4> QED
        BY <2>1, <4>3, InToSet
    <3> QED
      BY <3>1, <3>2
  <2>6. LookedAt(e, InList, Z, shot.tick)
    <3>1. Z \subseteq InList
      BY <2>3, <2>5
    <3> QED
      BY <1>2, <1>4, <2>1, <3>1, LookIs
  <2>7. e.memory.of = hSeen.of /\ e.memory.keys \in Seq(Keys)
        /\ \A z \in InList : z.target = hMe /\ z.hurts => IsTold(e.memory.told, z)
    BY <2>3, <2>5, <2>6 DEF LookedAt, Remembers
  <2> HIDE DEF e, Z
  <2>8. NumbersAreNew'
    BY <1>1, <1>7, <2>4, <2>7, NoNumbers
  <2>9. AllTold'
    BY <1>1, <1>2, <1>3, <1>7, <2>4, <2>7 DEF AllTold, IsTold, Key
  <2>10. Z \subseteq InList
    BY <2>3, <2>5
  <2> QED
    BY <1>1, <1>2, <1>3, <1>4, <1>5, <2>4, <2>6, <2>8, <2>9, <2>10, LookedKeeps
<1>8. CASE hSeen.of = "flinch" /\ UNCHANGED <<hSeen, hLabels, hElements>>
  <2>1. HitTypes' /\ NewestListed'
    BY <1>1, <1>2, <1>8, HitFacts DEF HitTypes, NewestListed
  <2>2. InOrder'
    BY <1>1, <1>3, <1>4, <1>8 DEF Ordered, InOrder, OneEach, Past, Before, Near
  <2>3. TicksGoOn'
    <3>1. hSeen.told \cap InList # {} => hServer.tick >= hSeen.tick
      BY <1>2, <1>4 DEF Ready
    <3> QED
      BY <1>1, <1>2, <1>3, <1>8, <3>1 DEF TicksGoOn
  <2>4. Remembers(hSeen, InScene \cup InList)'
    <3>1. Remembers(hSeen, InList)
      BY <1>4 DEF Ready
    <3> QED
      BY <1>3, <1>8, <3>1 DEF Remembers, KeptIn, Near
  <2>5. NumbersAreNew' /\ AllTold'
    BY <1>1, <1>8, HitFacts DEF NumbersAreNew, Labels, AllTold
  <2> QED
    BY <2>1, <2>2, <2>3, <2>4, <2>5 DEF HitsInvariant
<1> QED
  BY <1>1, <1>6, <1>7, <1>8

LEMMA HitsGo == HitsInvariant /\ [HitNext]_hVars => HitsInvariant'
<1> SUFFICES ASSUME HitsInvariant, [HitNext]_hVars PROVE HitsInvariant'
  OBVIOUS
<1>1. CASE UNCHANGED hVars
  <2>1. UNCHANGED <<hServer, hMe, hScene, hSeen, hLabels, hElements, hShow>>
    BY <1>1 DEF hVars
  <2>2. InScene' = InScene /\ InList' = InList
    BY <2>1 DEF InScene, InList
  <2>3. HitTypes' /\ NewestListed' /\ TicksGoOn'
    BY <2>1, <2>2, HitFacts DEF HitTypes, NewestListed, TicksGoOn
  <2>4. InOrder'
    BY <2>1, <2>2, HitFacts DEF InOrder, OneEach, Past, Before, Near
  <2>5. Remembers(hSeen, InScene \cup InList)'
    <3>1. Remembers(hSeen, InScene' \cup InList')
      BY <2>2, HitFacts
    <3> QED
      BY <2>1, <3>1 DEF Remembers, KeptIn, Near
  <2>6. NumbersAreNew' /\ AllTold'
    BY <2>1, <2>2, HitFacts DEF NumbersAreNew, Labels, AllTold, IsTold, Key
  <2> QED
    BY <2>3, <2>4, <2>5, <2>6 DEF HitsInvariant
<1> QED
  BY <1>1, HitKeeps, NewMapKeeps, PageActsKeep, FrameKeeps, ArrivesKeeps DEF HitNext

LEMMA HitsAreSound == HitsInvariant => HitsInv
<1> SUFFICES ASSUME HitsInvariant PROVE HitsInv
  OBVIOUS
<1>1. ShownOnce
  <2>1. hSeen.twice = FALSE
    BY HitFacts DEF Remembers
  <2> QED
    BY <2>1, Zenon DEF ShownOnce
<1>2. HitsAreShown
  <2> SUFFICES ASSUME NEW impact \in InScene, impact.hurts,
                      hSeen.of = "numbers" \/ (hSeen.of = "flash" /\ impact.target = hScene.me)
               PROVE  \E other \in hSeen.told : [other EXCEPT !.match = impact.match] = impact
    BY Zenon DEF HitsAreShown, InScene
  <2>1. PICK other \in hSeen.told : Key(other) = Key(impact)
    BY HitFacts DEF AllTold, IsTold
  <2>2. impact \in Impacts /\ other \in Impacts
    BY HitFacts
  <2>3. other.sequence = impact.sequence /\ other.target = impact.target /\ other.hurts = impact.hurts
    BY <2>1, <2>2, KeyIs
  <2>4. [other EXCEPT !.match = impact.match] = impact
    BY <2>2, <2>3 DEF Impacts
  <2> QED
    BY <2>4
<1>3. NumbersGoAway
  BY HitFacts DEF NumbersAreNew, NumbersGoAway
<1> QED
  BY <1>1, <1>2, <1>3 DEF HitsInv

\* Whatever hits come, snapshots are missed, maps and servers change and settings are
\* switched: no hit is shown twice, every hit in the scene has had its number or flash, and
\* every number is still to be removed (the invariant HitsInv).
THEOREM HitsShowOnce == HitSpec => []HitsInv
<1>1. HitsInvariant /\ [HitNext]_hVars => HitsInvariant'
  BY HitsGo
<1> QED
  BY <1>1, HitsBegin, HitsAreSound, PTL DEF HitSpec
===============================================================================
