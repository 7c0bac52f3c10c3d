----------------------------- MODULE WanChannel ----------------------------
(***************************************************************************)
(* BoundedWanReliableChannel (src/session/wan_transport.kf): one endpoint  *)
(* submits payloads into a window of slots and transmits the oldest one    *)
(* until it is acknowledged, the other accepts frames in sequence only.    *)
(* The host of the receiver acknowledges what receiveFrame accepted and    *)
(* nothing else, as probes/g6_wan/main.kf does.  The network between them  *)
(* loses, duplicates and reorders frames and acknowledgements.             *)
(***************************************************************************)
EXTENDS Integers, Sequences, FiniteSets

CONSTANTS Payloads,
          NoPayload,   \* the payload of a slot that was never used
          Window,      \* windowCapacityValue
          RetryLimit,  \* retryLimitValue
          Timeout,     \* timeoutTicksValue
          MaxSequence  \* bound of the model: payloads submitted in a behaviour

ASSUME ChannelAssumption ==
  /\ Window \in Nat \ {0} /\ RetryLimit \in Nat \ {0}
  /\ Timeout \in Nat \ {0} /\ MaxSequence \in Nat
  /\ NoPayload \notin Payloads

VARIABLES
  slots,      \* the arrays of the window; wait is the deadline minus the tick
  next,       \* nextSequenceValue
  inFlight,   \* inFlightValue
  lastAcked,  \* lastAckedValue
  failed,     \* failedValue
  receive,    \* receiveSequenceValue of the receiver
  frames,     \* the frames that may still arrive, any number of times
  acks,       \* the acknowledgements that may still arrive
  submitted,  \* history: the payloads in the order submit() took them
  delivered   \* history: the payloads in the order receiveFrame() took them

sender == <<slots, next, inFlight, lastAcked, failed>>
network == <<frames, acks>>
channelVars == <<sender, receive, network, submitted, delivered>>

Slot == 0 .. Window - 1
Entry == [active : BOOLEAN, seq : Nat, payload : Payloads \cup {NoPayload},
          retries : 0 .. RetryLimit, wait : 0 .. Timeout]
Frame == [seq : Nat, payload : Payloads]

ChannelTypeOK ==
  /\ slots \in [Slot -> Entry]
  /\ next \in Nat \ {0} /\ inFlight \in 0 .. Window /\ lastAcked \in Nat
  /\ failed \in BOOLEAN
  /\ receive \in Nat \ {0}
  /\ frames \in SUBSET Frame /\ acks \in SUBSET Nat
  /\ submitted \in Seq(Payloads) /\ delivered \in Seq(Payloads)

ChannelInit ==
  /\ slots = [i \in Slot |-> [active |-> FALSE, seq |-> 0, payload |-> NoPayload,
                              retries |-> 0, wait |-> 0]]
  /\ next = 1 /\ inFlight = 0 /\ lastAcked = 0 /\ failed = FALSE
  /\ receive = 1
  /\ frames = {} /\ acks = {}
  /\ submitted = <<>> /\ delivered = <<>>

slotForSequence(n) == n % Window

Active == {i \in Slot : slots[i].active}

-----------------------------------------------------------------------------
(* The sender. *)

\* Mutant: no backpressure.
HasRoomAlways == TRUE

HasRoom == inFlight < Window /\ ~slots[slotForSequence(next)].active

Submit(p) ==
  /\ ~failed /\ next <= MaxSequence
  /\ HasRoom
  /\ slots' = [slots EXCEPT ![slotForSequence(next)] =
                 [active |-> TRUE, seq |-> next, payload |-> p, retries |-> 0, wait |-> 0]]
  /\ next' = next + 1
  /\ inFlight' = inFlight + 1
  /\ submitted' = Append(submitted, p)
  /\ UNCHANGED <<lastAcked, failed, receive, network, delivered>>

\* pollTransmit looks at the oldest active slot only.
Selected == {i \in Active : /\ slots[i].wait = 0
                            /\ \A k \in Active : slots[i].seq <= slots[k].seq}

\* Mutant: the retries are not counted.
CountedNever(i) == slots[i].retries

Counted(i) == slots[i].retries + 1

Transmit ==
  /\ ~failed
  /\ \E i \in Selected :
       /\ slots[i].retries < RetryLimit
       /\ slots' = [slots EXCEPT ![i].retries = Counted(i), ![i].wait = Timeout]
       /\ frames' = frames \cup {[seq |-> slots[i].seq, payload |-> slots[i].payload]}
  /\ UNCHANGED <<next, inFlight, lastAcked, failed, receive, acks, submitted, delivered>>

GiveUp ==
  /\ ~failed
  /\ \E i \in Selected : slots[i].retries >= RetryLimit
  /\ failed' = TRUE
  /\ UNCHANGED <<slots, next, inFlight, lastAcked, receive, network, submitted, delivered>>

Tick ==
  /\ \E i \in Active : slots[i].wait > 0
  /\ slots' = [i \in Slot |-> [slots[i] EXCEPT !.wait = IF @ > 0 THEN @ - 1 ELSE 0]]
  /\ UNCHANGED <<next, inFlight, lastAcked, failed, receive, network, submitted, delivered>>

Retired(n) == {i \in Active : slots[i].seq <= n}

\* acknowledge(sequence): cumulative, and refused when it goes back.
Acknowledge(n) ==
  /\ n \in acks
  /\ lastAcked <= n /\ n < next
  /\ slots' = [i \in Slot |->
                 IF i \in Retired(n)
                 THEN [slots[i] EXCEPT !.active = FALSE, !.retries = 0]
                 ELSE slots[i]]
  /\ inFlight' = inFlight - Cardinality(Retired(n))
  /\ lastAcked' = n
  /\ UNCHANGED <<next, failed, receive, network, submitted, delivered>>

-----------------------------------------------------------------------------
(* The receiver, and the network. *)

\* Mutant: a repeated frame is taken again.
InOrderOrRepeated(f) == f.seq <= receive

InOrder(f) == f.seq = receive

\* Mutant: the receiver reports the sequence it waits for.
AckOfNext(f) == f.seq + 1

\* acknowledgeWan(pending[2]).
AckOf(f) == f.seq

ReceiveFrame(f) ==
  /\ f \in frames /\ InOrder(f)
  /\ receive' = receive + 1
  /\ delivered' = Append(delivered, f.payload)
  /\ acks' = acks \cup {AckOf(f)}
  /\ UNCHANGED <<sender, frames, submitted>>

LoseFrame ==
  /\ \/ \E f \in frames : frames' = frames \ {f} /\ acks' = acks
     \/ \E n \in acks : acks' = acks \ {n} /\ frames' = frames
  /\ UNCHANGED <<sender, receive, submitted, delivered>>

ChannelNext == \/ \E p \in Payloads : Submit(p)
               \/ Transmit \/ GiveUp \/ Tick
               \/ \E n \in acks : Acknowledge(n)
               \/ \E f \in frames : ReceiveFrame(f)
               \/ LoseFrame

\* The owner of the sender polls on every tick; the network owes nothing.
ChannelFairness ==
  /\ WF_channelVars(Transmit) /\ WF_channelVars(GiveUp) /\ WF_channelVars(Tick)

ChannelSpec == ChannelInit /\ [][ChannelNext]_channelVars /\ ChannelFairness

-----------------------------------------------------------------------------
(* Properties. *)

\* The window is exactly the sequences between the last acknowledgement and
\* the next submission, each in its own slot: backpressure starts when and
\* only when the window is full, so a reused slot never hides a payload.
WindowIsExact ==
  /\ inFlight = Cardinality(Active)
  /\ {slots[i].seq : i \in Active} = lastAcked + 1 .. next - 1

\* The window of a well-typed channel is exact.
WindowInv == ChannelTypeOK /\ WindowIsExact

\* The receiver saw what the sender submitted, in order and each once, over a
\* network that repeats and reorders frames of slots used again since.
DeliveredInOrder ==
  /\ Len(delivered) <= Len(submitted)
  /\ \A n \in 1 .. Len(delivered) : delivered[n] = submitted[n]

\* The sender never retires a payload that the receiver has not accepted.
AckedWasDelivered == lastAcked <= Len(delivered)

\* Whatever the network does, delivery is in order and only what was delivered
\* is retired.
ReliableDelivery == DeliveredInOrder /\ AckedWasDelivered

\* What every copy of a payload holds: the inductive reason for the above.
ChannelInv ==
  /\ slots \in [Slot -> Entry] /\ frames \in SUBSET Frame /\ lastAcked \in Nat
  /\ submitted \in Seq(Payloads) /\ delivered \in Seq(Payloads)
  /\ next = Len(submitted) + 1
  /\ receive = Len(delivered) + 1
  /\ \A i \in Slot : slots[i].active =>
        slots[i].seq \in 1 .. Len(submitted) /\ slots[i].payload = submitted[slots[i].seq]
  /\ \A f \in frames : f.seq \in 1 .. Len(submitted) /\ f.payload = submitted[f.seq]
  /\ \A n \in acks : n \in 1 .. Len(delivered)
  /\ DeliveredInOrder
  /\ AckedWasDelivered

\* Every payload is acknowledged or the channel reports the retry limit, even
\* when nothing arrives any more.
SenderSettles ==
  \A n \in 1 .. MaxSequence :
    Len(submitted) >= n ~> lastAcked >= n \/ failed
=============================================================================
