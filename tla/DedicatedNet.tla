------------------------------ MODULE DedicatedNet ------------------------------
(***************************************************************************)
(* The dedicated host and its two clients (probes/g5_dedicated_network/     *)
(* main.kf) with the admissions and views of src/session/                   *)
(* dedicated_server_transport.kf, over the authenticated datagrams of       *)
(* native/kookie_transport.c.  At each tick the host takes a request of     *)
(* each client, runs the simulation and sends each the state in chunks; the *)
(* second client leaves at one tick and comes back as a new generation.     *)
(*                                                                         *)
(* A state is the tick it is of.  A process that meets anything unexpected  *)
(* ends at an assertion.  Contents are compatible; MACs are right.          *)
(***************************************************************************)
EXTENDS Integers, FiniteSets

CONSTANTS Ticks, LeaveTick, \* 256, and the tick at which the second client leaves, 128
          Chunks,          \* dedicatedWorkloadStateChunkCount
          MaxFaults        \* datagrams lost, repeated or overtaken, and processes killed

ASSUME DedicatedAssumption ==
  /\ Ticks \in Nat /\ LeaveTick \in 1 .. Ticks - 1 /\ Chunks \in Nat \ {0} /\ MaxFaults \in Nat

Clients == {1, 2}
Endpoints == {"host", "client"} \X Clients

VARIABLES host,        \* its place in dedicatedHost, the tick, the client it serves, the chunk
          client,      \* its place in dedicatedClient and the tick it is to ask for
          admission,   \* BoundedDedicatedClientAdmission
          view,        \* BoundedDedicatedClientView
          wire,        \* datagrams on their way to an endpoint
          sent, taken, \* send_sequence, receive_sequence
          faults

net == <<wire, sent, taken, faults>>
dedicatedVars == <<host, client, admission, view, net>>

NoState == [k \in 1 .. Chunks |-> 0]

DedicatedInit ==
  /\ host = [at |-> "admit", tick |-> 0, who |-> 1, chunk |-> 1]
  /\ client = [c \in Clients |-> [at |-> "offer", tick |-> 1]]
  /\ admission = [c \in Clients |-> [gen |-> 0, last |-> 0, ack |-> 0, connected |-> FALSE]]
  /\ view = [c \in Clients |-> [gen |-> 0, seq |-> 0, tick |-> 0, connected |-> FALSE,
                                pending |-> [seq |-> 0, tick |-> 0, connected |-> FALSE],
                                shown |-> NoState, chunk |-> 1, parts |-> NoState]]
  /\ wire = [e \in Endpoints |-> {}] /\ sent = [e \in Endpoints |-> 0]
  /\ taken = [e \in Endpoints |-> 0] /\ faults = 0

\* The generation a client has at a tick, and the number of its request.
GenAt(c, tick) == IF c = 2 /\ tick > LeaveTick THEN 2 ELSE 1
SeqAt(c, tick) == IF c = 2 /\ tick > LeaveTick THEN tick - LeaveTick ELSE tick
LeavesAt(c, tick) == c = 2 /\ tick = LeaveTick

Waits(e) == IF e[1] = "host" THEN host.at \in {"admit", "request"} /\ host.who = e[2]
            ELSE client[e[2]].at \in {"offered", "frame"}

-----------------------------------------------------------------------------
(* Transport. *)

\* kookie_transport_receive: d may be overtaking others, and may come again.
Receives(e, d, repeated) ==
  /\ Waits(e) /\ d \in wire[e]
  /\ faults' = faults + (IF \E o \in wire[e] : o.n < d.n THEN 1 ELSE 0)
                       + (IF repeated THEN 1 ELSE 0)
  /\ faults' <= MaxFaults
  /\ taken' = [taken EXCEPT ![e] = IF d.n > @ THEN d.n ELSE @]

Remaining(e, d, repeated) == IF repeated THEN wire[e] ELSE wire[e] \ {d}

\* kookie_transport_send_commit
Peer(e) == <<IF e[1] = "host" THEN "client" ELSE "host", e[2]>>
Datagram(e, body) == [n |-> sent[e] + 1, body |-> body]
Sends(e, body) ==
  /\ wire' = [wire EXCEPT ![Peer(e)] = @ \cup {Datagram(e, body)}]
  /\ sent' = [sent EXCEPT ![e] = @ + 1] /\ UNCHANGED <<taken, faults>>

LoseDatagram == /\ faults < MaxFaults /\ faults' = faults + 1
        /\ \E e \in Endpoints : \E d \in wire[e] : wire' = [wire EXCEPT ![e] = @ \ {d}]
        /\ UNCHANGED <<host, client, admission, view, sent, taken>>

Stopped(place) == place \in {"done", "failed"}

\* A process dies; verify_dedicated_network.sh kills what still runs when it ends early.
Kill ==
  /\ faults < MaxFaults /\ faults' = faults + 1
  /\ \/ ~Stopped(host.at) /\ host' = [host EXCEPT !.at = "failed"] /\ UNCHANGED client
     \/ \E c \in Clients : /\ ~Stopped(client[c].at) /\ client' = [client EXCEPT ![c].at = "failed"]
                           /\ UNCHANGED host
  /\ UNCHANGED <<admission, view, wire, sent, taken>>

\* SO_RCVTIMEO, which is long enough when nothing went wrong.
TimesOut(e) ==
  /\ faults > 0 /\ Waits(e) /\ wire[e] = {}
  /\ IF e[1] = "host" THEN host' = [host EXCEPT !.at = "failed"] /\ UNCHANGED client
     ELSE client' = [client EXCEPT ![e[2]].at = "failed"] /\ UNCHANGED host
  /\ UNCHANGED <<admission, view, net>>

-----------------------------------------------------------------------------
(* The host. *)

\* Mutant: a client resumes after the tick it acknowledged, also when it acknowledged none.
ResumesAfterAck(a, resume) == resume = a.ack + 1

\* The tick from which admitCompatibleGeneration lets a client go on.
Resumes(a, resume) ==
  IF a.gen = 0 THEN resume = 0 ELSE resume \in a.ack .. a.ack + 1

Admitted(a, gen, resume) == [gen |-> gen, last |-> 0, ack |-> resume, connected |-> TRUE]

\* hostCompatibility: the offer is the next one of the client the host waits for
Answers(d) ==
  /\ d.n > taken[<<"host", host.who>>]
  /\ d.body = [kind |-> "offer", seq |-> GenAt(host.who, host.tick + 1)]

\* admitCompatibleGeneration, after its response was sent
HostAdmits(d) ==
  LET c == host.who
      gen == GenAt(c, host.tick + 1)
      a == admission[c]
  IN IF Answers(d) /\ ~a.connected /\ gen = a.gen + 1 /\ Resumes(a, host.tick)
     THEN /\ admission' = [admission EXCEPT ![c] = Admitted(a, gen, host.tick)]
          /\ host' = IF host.tick = 0 /\ c = 1 THEN [host EXCEPT !.who = 2]
                     ELSE [host EXCEPT !.at = "request", !.who = 1, !.tick = @ + 1]
     ELSE host' = [host EXCEPT !.at = "failed"] /\ UNCHANGED admission

\* hostReceiveRequest, and after the second one runTicks
HostTakesRequest(d) ==
  LET c == host.who
      a == admission[c]
      r == d.body
      good == /\ d.n > taken[<<"host", c>>]
              /\ r = [kind |-> "request", gen |-> GenAt(c, host.tick), seq |-> SeqAt(c, host.tick),
                      ack |-> host.tick - 1, leaves |-> LeavesAt(c, host.tick)]
              /\ a.connected /\ r.gen = a.gen /\ r.seq > a.last /\ r.ack >= a.ack
  IN IF good
     THEN /\ admission' = [admission EXCEPT ![c] = [@ EXCEPT !.last = r.seq, !.ack = r.ack,
                                                             !.connected = ~r.leaves]]
          /\ host' = IF c = 1 THEN [host EXCEPT !.who = 2]
                     ELSE [host EXCEPT !.at = "publish", !.who = 1, !.chunk = 1]
     ELSE host' = [host EXCEPT !.at = "failed"] /\ UNCHANGED admission

HostReceives(c) ==
  \E d \in wire[<<"host", c>>], repeated \in BOOLEAN :
    LET e == <<"host", c>>
        left == [wire EXCEPT ![e] = Remaining(e, d, repeated)]
        response == Datagram(e, [kind |-> "response", seq |-> d.body.seq])
    IN /\ Receives(e, d, repeated)
       /\ IF host.at = "request" THEN HostTakesRequest(d) ELSE HostAdmits(d)
       /\ IF host.at = "admit" /\ Answers(d)
          THEN /\ wire' = [left EXCEPT ![Peer(e)] = @ \cup {response}]
               /\ sent' = [sent EXCEPT ![e] = @ + 1]
          ELSE wire' = left /\ UNCHANGED sent
       /\ UNCHANGED <<client, view>>

AfterFrame ==
  IF host.who = 1 THEN [host EXCEPT !.who = 2, !.chunk = 1]
  ELSE IF host.tick = LeaveTick THEN [host EXCEPT !.at = "admit", !.chunk = 1]
  ELSE IF host.tick = Ticks THEN [host EXCEPT !.at = "done"]
  ELSE [host EXCEPT !.at = "request", !.who = 1, !.tick = @ + 1, !.chunk = 1]

\* hostSendStateFrame, one chunk of it
HostPublishes ==
  LET c == host.who
  IN /\ host.at = "publish"
     /\ Sends(<<"host", c>>, [kind |-> "state", tick |-> host.tick, seq |-> SeqAt(c, host.tick),
                              gen |-> GenAt(c, host.tick), connected |-> ~LeavesAt(c, host.tick),
                              chunk |-> host.chunk])
     /\ host' = IF host.chunk < Chunks THEN [host EXCEPT !.chunk = @ + 1] ELSE AfterFrame
     /\ UNCHANGED <<client, admission, view>>

-----------------------------------------------------------------------------
(* A client. *)

\* clientCompatibility, up to its offer
Offers(c) ==
  /\ client[c].at = "offer"
  /\ Sends(<<"client", c>>, [kind |-> "offer", seq |-> GenAt(c, client[c].tick)])
  /\ client' = [client EXCEPT ![c].at = "offered"] /\ UNCHANGED <<host, admission, view>>

\* its response, and beginCompatibleGeneration
Begins(c, d) ==
  LET gen == GenAt(c, client[c].tick)
      v == view[c]
  IN IF /\ d.n > taken[<<"client", c>>] /\ d.body = [kind |-> "response", seq |-> gen]
        /\ ~v.connected /\ v.tick = client[c].tick - 1 /\ gen = v.gen + 1 /\ v.chunk = 1
     THEN /\ view' = [view EXCEPT ![c] = [@ EXCEPT !.gen = gen, !.seq = 0, !.connected = TRUE]]
          /\ client' = [client EXCEPT ![c].at = "ask"]
     ELSE client' = [client EXCEPT ![c].at = "failed"] /\ UNCHANGED view

\* clientRequestFrame, up to its request
Asks(c) ==
  /\ client[c].at = "ask"
  /\ LET t == client[c].tick
     IN Sends(<<"client", c>>, [kind |-> "request", gen |-> GenAt(c, t), seq |-> SeqAt(c, t),
                                ack |-> t - 1, leaves |-> LeavesAt(c, t)])
  /\ client' = [client EXCEPT ![c].at = "frame"] /\ UNCHANGED <<host, admission, view>>

\* Mutant: a chunk is shown when it arrives.
StagedAndShown(v, s) ==
  [v EXCEPT !.parts[s.chunk] = s.tick, !.chunk = @ + 1, !.shown[s.chunk] = s.tick]

\* decodeStatePayload
Staged(v, s) == [v EXCEPT !.parts[s.chunk] = s.tick, !.chunk = @ + 1]

FrameOf(s) == [seq |-> s.seq, tick |-> s.tick, connected |-> s.connected]

\* The chunks that applyStateChunk takes.
Applies(v, s) ==
  /\ s.kind = "state" /\ s.gen = v.gen /\ s.tick >= v.tick /\ s.chunk = v.chunk
  /\ IF s.chunk = 1 THEN s.seq > v.seq ELSE FrameOf(s) = v.pending

\* resetPendingTransaction
Reset(v) == [v EXCEPT !.chunk = 1, !.pending = [seq |-> 0, tick |-> 0, connected |-> FALSE]]

\* commitPendingState, and what applyStateChunk takes over with it
Committed(v) ==
  Reset([v EXCEPT !.shown = v.parts, !.seq = v.pending.seq, !.tick = v.pending.tick,
                  !.connected = v.pending.connected])

\* applyStateChunk
TakesChunk(c, d) ==
  LET v == view[c]
      s == d.body
      staged == Staged([v EXCEPT !.pending = IF s.chunk = 1 THEN FrameOf(s) ELSE @], s)
      last == staged.chunk > Chunks
      whole == \A k \in 1 .. Chunks : staged.parts[k] = staged.pending.tick
      now == IF ~last THEN staged ELSE IF whole THEN Committed(staged) ELSE Reset(staged)
      t == client[c].tick
  IN IF d.n > taken[<<"client", c>>] /\ s.kind = "state" /\ Applies(v, s)
     THEN /\ view' = [view EXCEPT ![c] = now]
          /\ client' = [client EXCEPT ![c] =
               IF ~last THEN @
               ELSE IF ~whole \/ now.tick # t \/ now.seq # SeqAt(c, t)
               THEN [@ EXCEPT !.at = "failed"]
               ELSE IF t = Ticks THEN [@ EXCEPT !.at = "done"]
               ELSE [at |-> IF LeavesAt(c, t) THEN "offer" ELSE "ask", tick |-> t + 1]]
     ELSE client' = [client EXCEPT ![c].at = "failed"] /\ UNCHANGED view

ClientReceives(c) ==
  \E d \in wire[<<"client", c>>], repeated \in BOOLEAN :
    /\ Receives(<<"client", c>>, d, repeated)
    /\ IF client[c].at = "offered" THEN Begins(c, d) ELSE TakesChunk(c, d)
    /\ wire' = [wire EXCEPT ![<<"client", c>>] = Remaining(<<"client", c>>, d, repeated)]
    /\ UNCHANGED <<host, admission, sent>>

-----------------------------------------------------------------------------
Host == HostPublishes \/ \E c \in Clients : HostReceives(c) \/ TimesOut(<<"host", c>>)
Client(c) == Offers(c) \/ Asks(c) \/ ClientReceives(c) \/ TimesOut(<<"client", c>>)
DedicatedNext == Host \/ (\E c \in Clients : Client(c)) \/ LoseDatagram \/ Kill

\* Every process is scheduled; the network and the script need do nothing.
DedicatedFair == WF_dedicatedVars(Host) /\ \A c \in Clients : WF_dedicatedVars(Client(c))
DedicatedSpec == DedicatedInit /\ [][DedicatedNext]_dedicatedVars /\ DedicatedFair

-----------------------------------------------------------------------------
\* What a client shows is the host's state of one tick, its own.
ShownIsOneState == \A c \in Clients : \A k \in 1 .. Chunks : view[c].shown[k] = view[c].tick

\* Host and client never part by more than the frame on its way, and while both
\* take each other for connected they mean the same generation.
SidesAgree ==
  \A c \in Clients :
    LET a == admission[c]
        v == view[c]
    IN /\ a.connected /\ v.connected => a.gen = v.gen
       /\ v.gen \in {a.gen, a.gen - 1} \cap Nat
       /\ v.tick \in a.ack .. a.ack + 1 /\ v.tick <= host.tick

\* Admissions and views, whatever the network does.
DedicatedInv == ShownIsOneState /\ SidesAgree

\* All three processes end, however the network fails, and when it does not,
\* at the last tick.
EverybodyEnds ==
  /\ <>(Stopped(host.at) /\ \A c \in Clients : Stopped(client[c].at))
  /\ <>(faults > 0 \/ (host.at = "done" /\ \A c \in Clients : client[c].at = "done"))
=============================================================================
