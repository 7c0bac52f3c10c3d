---------------------------- MODULE DatagramProofs ----------------------------
(* What reaches the other side over datagrams that are lost, repeated and    *)
(* overtaken: the payloads of a WAN channel, and the states of a dedicated   *)
(* host.                                                                     *)
EXTENDS WanChannel, DedicatedNet, FiniteSetTheorems, TLAPS

\* The slot a sequence is stored in exists.
LEMMA SlotInWindow == \A n \in Nat : slotForSequence(n) \in Slot
BY ChannelAssumption DEF slotForSequence, Slot

\* Before anything is submitted every copy is right.
LEMMA InitialCopies == ChannelInit => ChannelInv
<1> SUFFICES ASSUME ChannelInit PROVE ChannelInv
  OBVIOUS
<1>1. slots \in [Slot -> Entry]
  BY ChannelAssumption DEF ChannelInit, Entry
<1>2. submitted \in Seq(Payloads) /\ delivered \in Seq(Payloads)
  BY DEF ChannelInit
<1>3. \A i \in Slot : ~slots[i].active
  BY DEF ChannelInit
<1>4. Len(submitted) = 0 /\ Len(delivered) = 0
  BY DEF ChannelInit
<1>5. lastAcked = 0 /\ next = 1 /\ receive = 1 /\ frames = {} /\ acks = {}
  BY DEF ChannelInit
<1>6. DeliveredInOrder /\ AckedWasDelivered
  BY <1>4, <1>5 DEF DeliveredInOrder, AckedWasDelivered
<1> QED
  BY <1>1, <1>2, <1>3, <1>4, <1>5, <1>6 DEF ChannelInv

\* Every step keeps every copy of a payload right.
LEMMA StepCopies == ChannelInv /\ [ChannelNext]_channelVars => ChannelInv'
<1> SUFFICES ASSUME ChannelInv, [ChannelNext]_channelVars PROVE ChannelInv'
  OBVIOUS
<1> USE ChannelAssumption
<1>1. ASSUME NEW p \in Payloads, Submit(p) PROVE ChannelInv'
  <2> DEFINE s == slotForSequence(next)
             e == [active |-> TRUE, seq |-> next, payload |-> p, retries |-> 0, wait |-> 0]
  <2>1. next \in Nat /\ s \in Slot /\ next = Len(submitted) + 1
    BY SlotInWindow DEF ChannelInv
  <2>2. e \in Entry
    BY <2>1 DEF Entry
  <2>3. slots' = [slots EXCEPT ![s] = e] /\ slots' \in [Slot -> Entry]
    BY <1>1, <2>1, <2>2 DEF Submit, ChannelInv
  <2>4. /\ submitted' \in Seq(Payloads) /\ Len(submitted') = Len(submitted) + 1
        /\ submitted'[next] = p
        /\ \A n \in 1 .. Len(submitted) : submitted'[n] = submitted[n]
    BY <1>1, <2>1 DEF Submit, ChannelInv
  <2>5. \A i \in Slot : slots'[i].active =>
          slots'[i].seq \in 1 .. Len(submitted') /\ slots'[i].payload = submitted'[slots'[i].seq]
    <3> SUFFICES ASSUME NEW i \in Slot, slots'[i].active
                 PROVE slots'[i].seq \in 1 .. Len(submitted')
                       /\ slots'[i].payload = submitted'[slots'[i].seq]
      OBVIOUS
    <3>1. CASE i = s
      BY <3>1, <2>1, <2>3, <2>4 DEF ChannelInv
    <3>2. CASE i # s
      BY <3>2, <2>1, <2>3, <2>4 DEF ChannelInv
    <3> QED
      BY <3>1, <3>2
  <2>6. UNCHANGED <<receive, frames, acks, delivered, lastAcked>> /\ next' = next + 1
    BY <1>1 DEF Submit, network
  <2>7. \A f \in frames' : f.seq \in 1 .. Len(submitted') /\ f.payload = submitted'[f.seq]
    BY <2>1, <2>4, <2>6 DEF ChannelInv
  <2>8. DeliveredInOrder'
    BY <2>4, <2>6 DEF ChannelInv, DeliveredInOrder
  <2> QED
    BY <2>1, <2>3, <2>4, <2>5, <2>6, <2>7, <2>8 DEF ChannelInv, AckedWasDelivered
<1>2. CASE Transmit
  <2>1. PICK i \in Selected :
          /\ slots[i].retries < RetryLimit
          /\ slots' = [slots EXCEPT ![i].retries = Counted(i), ![i].wait = Timeout]
          /\ frames' = frames \cup {[seq |-> slots[i].seq, payload |-> slots[i].payload]}
    BY <1>2 DEF Transmit
  <2>2. i \in Slot /\ slots[i].active
    BY DEF Selected, Active
  <2>3. slots[i].retries + 1 \in 0 .. RetryLimit
    BY <2>1, <2>2 DEF ChannelInv, Entry
  <2>4. slots' \in [Slot -> Entry]
    <3> DEFINE e == [slots[i] EXCEPT !.retries = slots[i].retries + 1, !.wait = Timeout]
    <3>1. slots[i] \in Entry /\ slots \in [Slot -> Entry]
      BY <2>2 DEF ChannelInv
    <3>2. e \in Entry
      <4>1. Timeout \in 0 .. Timeout
        OBVIOUS
      <4> QED
        BY <2>3, <3>1, <4>1 DEF Entry
    <3>3. slots' = [slots EXCEPT ![i] = e]
      BY <2>1, <2>2, <3>1 DEF Counted, Entry
    <3> QED
      BY <2>2, <3>1, <3>2, <3>3
  <2>5. \A k \in Slot : /\ slots'[k].active = slots[k].active
                        /\ slots'[k].seq = slots[k].seq
                        /\ slots'[k].payload = slots[k].payload
    BY <2>1, <2>2, SMTT(60) DEF ChannelInv, Entry
  <2>6. slots[i].seq \in 1 .. Len(submitted) /\ slots[i].payload = submitted[slots[i].seq]
    BY <2>2 DEF ChannelInv
  <2>7. slots[i].payload \in Payloads
    BY <2>6 DEF ChannelInv
  <2>8. UNCHANGED <<next, lastAcked, receive, acks, submitted, delivered>>
    BY <1>2 DEF Transmit
  <2>9. frames' \in SUBSET Frame
    BY <2>1, <2>6, <2>7 DEF ChannelInv, Frame
  <2>10. \A f \in frames' : f.seq \in 1 .. Len(submitted) /\ f.payload = submitted[f.seq]
    BY <2>1, <2>6 DEF ChannelInv
  <2> QED
    BY <2>4, <2>5, <2>8, <2>9, <2>10 DEF ChannelInv, DeliveredInOrder, AckedWasDelivered
<1>3. CASE GiveUp
  BY <1>3 DEF GiveUp, network, ChannelInv, DeliveredInOrder, AckedWasDelivered
<1>4. CASE Tick
  <2>1. slots' \in [Slot -> Entry]
    <3> DEFINE e(k) == [slots[k] EXCEPT !.wait = IF @ > 0 THEN @ - 1 ELSE 0]
    <3>1. ASSUME NEW k \in Slot PROVE e(k) \in Entry
      <4>1. slots[k] \in Entry
        BY DEF ChannelInv
      <4>2. (IF slots[k].wait > 0 THEN slots[k].wait - 1 ELSE 0) \in 0 .. Timeout
        BY <4>1 DEF Entry
      <4> QED
        BY <4>1, <4>2 DEF Entry
    <3> QED
      BY <1>4, <3>1 DEF Tick
  <2>2. \A k \in Slot : /\ slots'[k].active = slots[k].active
                        /\ slots'[k].seq = slots[k].seq
                        /\ slots'[k].payload = slots[k].payload
    BY <1>4, SMTT(60) DEF Tick, ChannelInv, Entry
  <2> QED
    BY <1>4, <2>1, <2>2 DEF Tick, network, ChannelInv, DeliveredInOrder, AckedWasDelivered
<1>5. ASSUME NEW n \in acks, Acknowledge(n) PROVE ChannelInv'
  <2>1. slots' \in [Slot -> Entry]
    <3> DEFINE e(k) == IF k \in Retired(n)
                       THEN [slots[k] EXCEPT !.active = FALSE, !.retries = 0]
                       ELSE slots[k]
    <3>1. ASSUME NEW k \in Slot PROVE e(k) \in Entry
      <4>1. slots[k] \in Entry /\ 0 \in 0 .. RetryLimit
        BY DEF ChannelInv
      <4>2. CASE k \in Retired(n)
        <5>1. [slots[k] EXCEPT !.active = FALSE, !.retries = 0] \in Entry
          BY <4>1 DEF Entry
        <5> QED
          BY <4>2, <5>1
      <4>3. CASE k \notin Retired(n)
        BY <4>1, <4>3
      <4> QED
        BY <4>2, <4>3
    <3>2. slots' = [k \in Slot |-> e(k)]
      BY <1>5 DEF Acknowledge
    <3> HIDE DEF e
    <3> QED
      BY <3>1, <3>2
  <2>2. \A k \in Slot : slots'[k].active =>
          /\ slots[k].active
          /\ slots'[k].seq = slots[k].seq
          /\ slots'[k].payload = slots[k].payload
    BY <1>5, ZenonT(60) DEF Acknowledge, ChannelInv, Entry
  <2>3. lastAcked' = n /\ n \in 1 .. Len(delivered)
    BY <1>5 DEF Acknowledge, ChannelInv
  <2>4. UNCHANGED <<next, receive, frames, acks, submitted, delivered>>
    BY <1>5 DEF Acknowledge, network
  <2> QED
    BY <2>1, <2>2, <2>3, <2>4 DEF ChannelInv, DeliveredInOrder, AckedWasDelivered
<1>6. ASSUME NEW f \in frames, ReceiveFrame(f) PROVE ChannelInv'
  <2>1. f.seq = Len(delivered) + 1 /\ f.seq \in 1 .. Len(submitted)
        /\ f.payload = submitted[f.seq] /\ f.payload \in Payloads
    BY <1>6 DEF ReceiveFrame, InOrder, ChannelInv, Frame
  <2>2. /\ delivered' \in Seq(Payloads) /\ Len(delivered') = Len(delivered) + 1
        /\ delivered'[Len(delivered) + 1] = f.payload
        /\ \A n \in 1 .. Len(delivered) : delivered'[n] = delivered[n]
    BY <1>6, <2>1 DEF ReceiveFrame, ChannelInv
  <2>3. UNCHANGED <<slots, next, lastAcked, frames, submitted>>
    BY <1>6 DEF ReceiveFrame, sender
  <2>4. DeliveredInOrder'
    BY <2>1, <2>2, <2>3 DEF DeliveredInOrder, ChannelInv
  <2>5. receive' = Len(delivered') + 1
    BY <1>6, <2>2 DEF ReceiveFrame, ChannelInv
  <2>6. \A n \in acks' : n \in 1 .. Len(delivered')
    BY <1>6, <2>1, <2>2 DEF ReceiveFrame, AckOf, ChannelInv
  <2>7. AckedWasDelivered'
    BY <2>2, <2>3 DEF AckedWasDelivered, ChannelInv
  <2> QED
    BY <2>2, <2>3, <2>4, <2>5, <2>6, <2>7 DEF ChannelInv
<1>7. CASE LoseFrame
  <2>1. frames' \subseteq frames /\ acks' \subseteq acks
    BY <1>7 DEF LoseFrame
  <2> QED
    BY <1>7, <2>1 DEF LoseFrame, sender, ChannelInv, DeliveredInOrder, AckedWasDelivered
<1>8. CASE UNCHANGED channelVars
  BY <1>8 DEF channelVars, sender, network, ChannelInv, DeliveredInOrder, AckedWasDelivered
<1> QED
  BY <1>1, <1>2, <1>3, <1>4, <1>5, <1>6, <1>7, <1>8 DEF ChannelNext

\* Every copy of a payload stays right.
LEMMA CopiesAreRight == ChannelSpec => []ChannelInv
BY InitialCopies, StepCopies, PTL DEF ChannelSpec

\* receiveFrame and acknowledge deliver the submitted payloads in order, each
\* once, and the sender retires only what the receiver has taken, whatever the
\* network loses, repeats or reorders.
THEOREM DeliveryIsReliable == ChannelSpec => []ReliableDelivery
<1>1. ChannelInv => ReliableDelivery
  BY DEF ChannelInv, ReliableDelivery
<1> QED
  BY InitialCopies, StepCopies, <1>1, PTL DEF ChannelSpec

-----------------------------------------------------------------------------
(* The window. *)

\* What makes the window exact from one step to the next: a payload lies in
\* the slot of its sequence, so no two slots hold the same sequence.
WindowIInv ==
  /\ WindowIsExact
  /\ \A i \in Active : slotForSequence(slots[i].seq) = i
  /\ lastAcked < next
  /\ failed \in BOOLEAN

\* The window has as many slots as windowCapacityValue says.
LEMMA WindowIsFinite == IsFiniteSet(Slot) /\ Cardinality(Slot) = Window
<1>1. Window - 1 \in Int /\ 0 <= Window - 1
  BY ChannelAssumption
<1> QED
  BY <1>1, ChannelAssumption, FS_Interval DEF Slot

\* Every set of slots is finite.
LEMMA SlotsAreFinite ==
  ASSUME NEW S \in SUBSET Slot
  PROVE  IsFiniteSet(S) /\ Cardinality(S) \in 0 .. Window
<1>1. IsFiniteSet(S) /\ Cardinality(S) <= Window
  BY WindowIsFinite, FS_Subset
<1> QED
  BY <1>1, FS_CardinalityType

\* The counters fit the window of slots that is in use.
LEMMA WindowTyped == ChannelInv /\ WindowIInv => WindowInv
<1> SUFFICES ASSUME ChannelInv, WindowIInv PROVE WindowInv
  OBVIOUS
<1>1. inFlight \in 0 .. Window
  BY SlotsAreFinite DEF WindowIInv, WindowIsExact, Active
<1>2. next \in Nat \ {0} /\ receive \in Nat \ {0}
  BY DEF ChannelInv
<1>3. acks \in SUBSET Nat
  BY DEF ChannelInv
<1> QED
  BY <1>1, <1>2, <1>3 DEF ChannelInv, WindowIInv, WindowInv, ChannelTypeOK

\* An unused window is empty.
LEMMA WindowInit == ChannelInit => WindowIInv
<1> SUFFICES ASSUME ChannelInit PROVE WindowIInv
  OBVIOUS
<1>1. Active = {}
  BY DEF ChannelInit, Active
<1>2. {slots[i].seq : i \in Active} = {} /\ lastAcked + 1 .. next - 1 = {}
  BY <1>1 DEF ChannelInit
<1>3. inFlight = Cardinality(Active)
  BY <1>1, FS_EmptySet DEF ChannelInit
<1>4. lastAcked < next
  BY DEF ChannelInit
<1>5. failed \in BOOLEAN
  BY DEF ChannelInit
<1> QED
  BY <1>1, <1>2, <1>3, <1>4, <1>5 DEF WindowIInv, WindowIsExact

\* submit takes a free slot and acknowledge clears exactly what it retires.
LEMMA WindowStep == ChannelInv /\ WindowIInv /\ [ChannelNext]_channelVars => WindowIInv'
<1> SUFFICES ASSUME ChannelInv, WindowIInv, [ChannelNext]_channelVars PROVE WindowIInv'
  OBVIOUS
<1> USE ChannelAssumption
<1>0. /\ slots \in [Slot -> Entry] /\ next \in Nat \ {0} /\ lastAcked \in Nat
      /\ Active \subseteq Slot
  BY DEF ChannelInv, Active
<1>1. ASSUME NEW p \in Payloads, Submit(p) PROVE WindowIInv'
  <2> DEFINE s == slotForSequence(next)
             e == [active |-> TRUE, seq |-> next, payload |-> p, retries |-> 0, wait |-> 0]
  <2>1. s \in Slot /\ s \notin Active
    BY <1>0, <1>1, SlotInWindow DEF Submit, HasRoom, Active
  <2>2. /\ slots' = [slots EXCEPT ![s] = e]
        /\ next' = next + 1 /\ inFlight' = inFlight + 1
        /\ UNCHANGED <<lastAcked, failed>>
    BY <1>1 DEF Submit
  <2>3. slots'[s].active /\ slots'[s].seq = next
    BY <1>0, <2>1, <2>2
  <2>4. \A i \in Slot : i # s => slots'[i] = slots[i]
    BY <1>0, <2>1, <2>2
  <2>5. slotForSequence(slots'[s].seq) = s
    BY <2>3
  <2> HIDE DEF s, e
  <2>6. Active' = Active \cup {s}
    BY <2>1, <2>3, <2>4 DEF Active
  <2>7. Cardinality(Active') = Cardinality(Active) + 1
    BY <1>0, <2>1, <2>6, SlotsAreFinite, FS_AddElement
  <2>8. {slots'[i].seq : i \in Active'} = {slots[i].seq : i \in Active} \cup {next}
    BY <1>0, <2>1, <2>3, <2>4, <2>6
  <2>9. {slots'[i].seq : i \in Active'} = lastAcked' + 1 .. next' - 1
    BY <1>0, <2>2, <2>8 DEF WindowIInv, WindowIsExact
  <2>10. \A i \in Active' : slotForSequence(slots'[i].seq) = i
    BY <1>0, <2>1, <2>4, <2>5, <2>6 DEF WindowIInv
  <2> QED
    BY <1>0, <2>2, <2>7, <2>9, <2>10 DEF WindowIInv, WindowIsExact
<1>2. ASSUME NEW n \in acks, Acknowledge(n) PROVE WindowIInv'
  <2>1. n \in Nat /\ lastAcked <= n /\ n < next /\ lastAcked' = n
        /\ UNCHANGED <<next, failed>>
    <3>1. n \in 1 .. Len(delivered) /\ Len(delivered) \in Nat
      BY DEF ChannelInv
    <3>2. lastAcked <= n /\ n < next /\ lastAcked' = n /\ next' = next
      BY <1>2 DEF Acknowledge
    <3>3. failed' = failed
      BY <1>2 DEF Acknowledge
    <3> QED
      BY <3>1, <3>2, <3>3
  <2>2. \A i \in Slot : /\ i \in Retired(n) => ~slots'[i].active
                        /\ i \notin Retired(n) => slots'[i] = slots[i]
    BY <1>0, <1>2 DEF Acknowledge, Entry
  <2>3. Active' = Active \ Retired(n) /\ Retired(n) \subseteq Active
    BY <2>2 DEF Active, Retired
  <2>4. Cardinality(Active') = Cardinality(Active) - Cardinality(Retired(n))
    <3>1. IsFiniteSet(Active) /\ Active \cap Retired(n) = Retired(n)
      BY <1>0, <2>3, SlotsAreFinite
    <3> QED
      BY <2>3, <3>1, FS_Difference
  <2>5. Active' = {i \in Active : slots[i].seq > n}
    BY <1>0, <2>1, <2>3 DEF Retired, Entry
  <2>6. \A i \in Active' : slots'[i] = slots[i]
    BY <1>0, <2>2, <2>3
  <2>7. {slots'[i].seq : i \in Active'} = {q \in lastAcked + 1 .. next - 1 : q > n}
    BY <2>5, <2>6 DEF WindowIInv, WindowIsExact
  <2>8. {slots'[i].seq : i \in Active'} = lastAcked' + 1 .. next' - 1
    BY <1>0, <2>1, <2>7
  <2>9. inFlight' = Cardinality(Active')
    BY <1>2, <2>4 DEF Acknowledge, WindowIInv, WindowIsExact
  <2> QED
    BY <2>1, <2>5, <2>6, <2>8, <2>9 DEF WindowIInv, WindowIsExact
<1>3. ASSUME UNCHANGED <<next, inFlight, lastAcked>>, failed' \in BOOLEAN,
             \A i \in Slot : slots'[i].active = slots[i].active /\ slots'[i].seq = slots[i].seq
      PROVE  WindowIInv'
  <2>1. Active' = Active
    BY <1>3 DEF Active
  <2>2. {slots'[i].seq : i \in Active'} = {slots[i].seq : i \in Active}
    BY <1>0, <1>3, <2>1
  <2> QED
    BY <1>0, <1>3, <2>1, <2>2 DEF WindowIInv, WindowIsExact
<1>4. CASE Transmit
  BY <1>0, <1>3, <1>4 DEF Transmit, Selected, Active, Entry, WindowIInv
<1>5. CASE GiveUp
  BY <1>3, <1>5 DEF GiveUp
<1>6. CASE Tick
  BY <1>0, <1>3, <1>6 DEF Tick, Entry, WindowIInv
<1>7. CASE (\E f \in frames : ReceiveFrame(f)) \/ LoseFrame
  BY <1>3, <1>7 DEF ReceiveFrame, LoseFrame, sender, WindowIInv
<1>8. CASE UNCHANGED channelVars
  BY <1>3, <1>8 DEF channelVars, sender, WindowIInv
<1> QED
  BY <1>1, <1>2, <1>4, <1>5, <1>6, <1>7, <1>8 DEF ChannelNext

\* The window of BoundedWanReliableChannel is exactly the sequences between the
\* last acknowledgement and the next submission, whatever its capacity.
THEOREM WindowStaysExact == ChannelSpec => []WindowInv
BY WindowInit, WindowStep, WindowTyped, CopiesAreRight, PTL DEF ChannelSpec

\* Two sequences that share a slot are a whole window apart.
LEMMA SharedSlot ==
  ASSUME NEW m \in Nat, NEW n \in Nat, m < n, slotForSequence(m) = slotForSequence(n)
  PROVE  Window <= n - m
<1> DEFINE qm == m \div Window
           qn == n \div Window
           r == n % Window
<1>1. qm \in Int /\ qn \in Int /\ r \in Int /\ m = Window * qm + r /\ n = Window * qn + r
  BY ChannelAssumption DEF slotForSequence
<1> HIDE DEF qm, qn, r
<1>2. Window \in Nat \ {0}
  BY ChannelAssumption
<1>3. n - m = Window * (qn - qm)
  BY <1>1, <1>2
<1>4. qn - qm >= 1
  BY <1>1, <1>2, <1>3
<1> QED
  BY <1>1, <1>2, <1>3, <1>4

\* inFlightValue counts the sequences that are not acknowledged.
LEMMA InFlightCounts == ChannelInv /\ WindowIInv => inFlight = next - 1 - lastAcked
<1> SUFFICES ASSUME ChannelInv, WindowIInv PROVE inFlight = next - 1 - lastAcked
  OBVIOUS
<1>1. Active \subseteq Slot /\ next \in Nat \ {0} /\ lastAcked \in Nat /\ lastAcked < next
  BY DEF Active, ChannelInv, WindowIInv
<1> DEFINE T == lastAcked + 1 .. next - 1
           f == [i \in Active |-> slots[i].seq]
<1>2. f \in [Active -> T] /\ (\A q \in T : \E i \in Active : f[i] = q)
  BY DEF WindowIInv, WindowIsExact
<1>3. \A i, k \in Active : f[i] = f[k] => i = k
  BY DEF WindowIInv
<1> HIDE DEF f, T
<1>4. f \in Bijection(Active, T)
  BY <1>2, <1>3 DEF Bijection, Injection, Surjection, IsInjective
<1>5. Cardinality(T) = Cardinality(Active)
  BY <1>1, <1>4, SlotsAreFinite, FS_Bijection DEF ExistsBijection
<1>6. Cardinality(T) = next - 1 - lastAcked
  BY <1>1, FS_Interval DEF T
<1> QED
  BY <1>5, <1>6 DEF WindowIInv, WindowIsExact

\* submit refuses a payload only while the window is full: the slot of the next
\* sequence is never taken by an older payload before that.
THEOREM BackpressureIsFullness == ChannelSpec => [](HasRoom <=> inFlight < Window)
<1>1. ChannelInv /\ WindowIInv => (HasRoom <=> inFlight < Window)
  <2> SUFFICES ASSUME ChannelInv, WindowIInv, inFlight < Window,
                      slots[slotForSequence(next)].active
               PROVE  FALSE
    BY DEF HasRoom
  <2> DEFINE s == slotForSequence(next)
             q == slots[s].seq
  <2>1. next \in Nat \ {0} /\ lastAcked \in Nat /\ s \in Active
    BY SlotInWindow DEF ChannelInv, Active
  <2>2. q \in lastAcked + 1 .. next - 1 /\ slotForSequence(q) = s
    BY <2>1 DEF WindowIInv, WindowIsExact
  <2> HIDE DEF q
  <2>3. Window <= next - q
    BY <2>1, <2>2, SharedSlot
  <2>4. inFlight = next - 1 - lastAcked
    BY InFlightCounts
  <2> QED
    BY <2>1, <2>2, <2>3, <2>4, ChannelAssumption
<1>2. ChannelSpec => []WindowIInv
  BY WindowInit, WindowStep, CopiesAreRight, PTL DEF ChannelSpec
<1> QED
  BY <1>1, <1>2, CopiesAreRight, PTL

-----------------------------------------------------------------------------
(* The dedicated host and its clients. *)

\* What travels: a client's offer and request, the host's response and state.
Offer(g) == [kind |-> "offer", seq |-> g]
Request(c, t) == [kind |-> "request", gen |-> GenAt(c, t), seq |-> SeqAt(c, t),
                  ack |-> t - 1, leaves |-> LeavesAt(c, t)]
Response(g) == [kind |-> "response", seq |-> g]
State(c, t, k) == [kind |-> "state", tick |-> t, seq |-> SeqAt(c, t), gen |-> GenAt(c, t),
                   connected |-> ~LeavesAt(c, t), chunk |-> k]

ShownFrame == [seq : Nat, tick : Nat, connected : BOOLEAN]

Hosts == [at : {"admit", "request", "publish", "done", "failed"},
          tick : 0 .. Ticks, who : Clients, chunk : 1 .. Chunks]
Waiting == [at : {"offer", "offered", "ask", "frame", "done", "failed"},
            tick : Nat \ {0}]
Admissions == [gen : 0 .. 2, last : Nat, ack : Nat, connected : BOOLEAN]
Contents == [1 .. Chunks -> Nat]
Views == [gen : 0 .. 2, seq : Nat, tick : Nat, connected : BOOLEAN, pending : ShownFrame,
          shown : Contents, chunk : Nat \ {0}, parts : Contents]

DedicatedTypes ==
  /\ host \in Hosts /\ client \in [Clients -> Waiting] /\ admission \in [Clients -> Admissions]
  /\ view \in [Clients -> Views] /\ wire = [e \in Endpoints |-> wire[e]]

\* A datagram that is late says nothing the receiver's side has not come to.
HostBound(c, d) ==
  \/ \E g \in {1, 2} : /\ d.body = Offer(g) /\ g - 1 <= view[c].gen
                       /\ g = 2 => c = 2 /\ view[c].tick >= LeaveTick
  \/ \E t \in 1 .. view[c].tick + 1 : d.body = Request(c, t)
ClientBound(c, d) ==
  \/ \E g \in {1, 2} : d.body = Response(g) /\ g <= admission[c].gen
  \/ \E t \in 1 .. host.tick, k \in 1 .. Chunks :
       d.body = State(c, t, k) /\ t <= admission[c].ack + 1

WireIsOld ==
  \A c \in Clients : /\ \A d \in wire[<<"host", c>>] : HostBound(c, d)
                     /\ \A d \in wire[<<"client", c>>] : ClientBound(c, d)

\* A client that waits shows the tick before the one it is to ask for.
ClientKnows ==
  \A c \in Clients :
    /\ client[c].at \in {"offer", "offered"} => view[c].gen = GenAt(c, client[c].tick) - 1
    /\ client[c].at \in {"offer", "offered", "ask", "frame"} => view[c].tick = client[c].tick - 1
    /\ view[c].connected => view[c].gen = GenAt(c, view[c].tick + 1)

\* The host has taken the request of this tick of the client.
HasAsked(c) ==
  /\ admission[c].ack = host.tick - 1 /\ admission[c].gen = GenAt(c, host.tick)
  /\ admission[c].connected = ~LeavesAt(c, host.tick)

HostKnows ==
  /\ \A c \in Clients : /\ admission[c].ack <= host.tick
                        /\ admission[c].gen = 2 => c = 2 /\ view[c].tick >= LeaveTick
  /\ host.at = "admit" =>
       \/ /\ host.tick = 0
          /\ \A c \in Clients : c >= host.who => admission[c].gen = 0 /\ ~admission[c].connected
       \/ /\ host.tick = LeaveTick /\ host.who = 2 /\ admission[2].gen = 1
          /\ ~admission[2].connected /\ admission[2].ack = LeaveTick - 1
  /\ host.at \in {"request", "publish"} => host.tick # 0
  /\ host.at = "request" /\ host.who = 2 => HasAsked(1)
  /\ host.at = "publish" => \A c \in Clients : HasAsked(c)

SidesMeet ==
  \A c \in Clients :
    /\ view[c].gen \in {admission[c].gen, admission[c].gen - 1}
    /\ view[c].tick \in admission[c].ack .. admission[c].ack + 1 /\ view[c].tick <= host.tick

DedicatedInvariant ==
  DedicatedTypes /\ WireIsOld /\ ClientKnows /\ HostKnows /\ SidesMeet /\ ShownIsOneState

\* A client is in its first life, or the second client in its second, once it has left.
LEMMA GenerationsAre ==
  \A c \in Clients, t \in Nat : GenAt(c, t) \in {1, 2} /\ (GenAt(c, t) = 2 => c = 2 /\ t > LeaveTick)
BY DedicatedAssumption DEF GenAt, Clients

\* A host and its clients before anybody connects.
LEMMA DedicatedStart == DedicatedInit => DedicatedInvariant
<1> SUFFICES ASSUME DedicatedInit PROVE DedicatedInvariant
  OBVIOUS
<1>0. Ticks \in Nat /\ LeaveTick \in Nat \ {0} /\ Chunks \in Nat \ {0} /\ LeaveTick < Ticks
  BY DedicatedAssumption
<1>1. DedicatedTypes
  <2>1. host \in Hosts
    BY <1>0 DEF DedicatedInit, Hosts, Clients
  <2>2. client \in [Clients -> Waiting]
    BY DEF DedicatedInit, Waiting
  <2>3. admission \in [Clients -> Admissions]
    BY DEF DedicatedInit, Admissions
  <2>4. view \in [Clients -> Views]
    <3>1. [seq |-> 0, tick |-> 0, connected |-> FALSE] \in ShownFrame
      BY DEF ShownFrame
    <3>2. NoState \in Contents
      BY DEF NoState, Contents
    <3> HIDE DEF NoState
    <3> QED
      BY <3>1, <3>2 DEF DedicatedInit, Views
  <2> QED
    BY <2>1, <2>2, <2>3, <2>4 DEF DedicatedInit, DedicatedTypes
<1>2. WireIsOld
  BY DEF DedicatedInit, WireIsOld, Endpoints
<1>3. ClientKnows
  BY <1>0 DEF DedicatedInit, ClientKnows, GenAt
<1>4. HostKnows
  BY DEF DedicatedInit, HostKnows
<1>5. SidesMeet
  BY DEF DedicatedInit, SidesMeet
<1>6. ShownIsOneState
  BY DEF DedicatedInit, ShownIsOneState, NoState
<1> QED
  BY <1>1, <1>2, <1>3, <1>4, <1>5, <1>6 DEF DedicatedInvariant
-----------------------------------------------------------------------------
(* What is on its way stays old. *)

\* Every client has an endpoint of its own at the host.
LEMMA EndpointsAre ==
  /\ \A c \in Clients : <<"host", c>> \in Endpoints /\ <<"client", c>> \in Endpoints
  /\ \A c \in Clients : Peer(<<"host", c>>) = <<"client", c>> /\ Peer(<<"client", c>>) = <<"host", c>>
  /\ \A b, c \in Clients : <<"host", b>> # <<"client", c>>
  /\ \A b, c \in Clients : <<"host", b>> = <<"host", c>> => b = c
  /\ \A b, c \in Clients : <<"client", b>> = <<"client", c>> => b = c
BY DEF Endpoints, Peer

\* What the invariant says of the types, part by part.
LEMMA TypedParts ==
  ASSUME DedicatedTypes, NEW c \in Clients
  PROVE  /\ view[c] \in Views /\ admission[c] \in Admissions /\ client[c] \in Waiting
         /\ view[c].gen \in 0 .. 2 /\ view[c].tick \in Nat
         /\ admission[c].gen \in 0 .. 2 /\ admission[c].ack \in Nat /\ client[c].tick \in Nat \ {0}
         /\ host.tick \in 0 .. Ticks /\ host.who \in Clients /\ Ticks \in Nat
<1>1. view[c] \in Views /\ admission[c] \in Admissions /\ client[c] \in Waiting /\ host \in Hosts
  BY DEF DedicatedTypes
<1> QED
  BY <1>1, DedicatedAssumption DEF Views, Admissions, Waiting, Hosts

\* What was said before is old news.
LEMMA OldStaysOld ==
  ASSUME DedicatedTypes, DedicatedTypes', NEW c \in Clients, NEW d,
         view[c].gen <= view'[c].gen, view[c].tick <= view'[c].tick,
         admission[c].gen <= admission'[c].gen, admission[c].ack <= admission'[c].ack,
         host.tick <= host'.tick
  PROVE  /\ HostBound(c, d) => HostBound(c, d)'
         /\ ClientBound(c, d) => ClientBound(c, d)'
<1>1. /\ view[c].gen \in Nat /\ view[c].tick \in Nat /\ admission[c].gen \in Nat
      /\ admission[c].ack \in Nat /\ host.tick \in Nat
  BY TypedParts
<1>2. /\ view'[c].gen \in Nat /\ view'[c].tick \in Nat /\ admission'[c].gen \in Nat
      /\ admission'[c].ack \in Nat /\ host'.tick \in Nat
  <2>1. /\ view'[c] \in Views /\ admission'[c] \in Admissions /\ host' \in Hosts
    BY DEF DedicatedTypes
  <2> QED
    BY <2>1, DedicatedAssumption DEF Views, Admissions, Hosts
<1>0. LeaveTick \in Nat
  BY DedicatedAssumption
<1>3. ASSUME HostBound(c, d) PROVE HostBound(c, d)'
  <2>1. ASSUME NEW g \in {1, 2}, d.body = Offer(g), g - 1 <= view[c].gen,
               g = 2 => c = 2 /\ view[c].tick >= LeaveTick
        PROVE  HostBound(c, d)'
    <3>1. g - 1 <= view'[c].gen /\ (g = 2 => c = 2 /\ view'[c].tick >= LeaveTick)
      BY <1>0, <1>1, <1>2, <2>1
    <3> QED
      BY <2>1, <3>1 DEF HostBound, Offer
  <2>2. ASSUME NEW t \in 1 .. view[c].tick + 1, d.body = Request(c, t) PROVE HostBound(c, d)'
    <3>1. t \in 1 .. view'[c].tick + 1
      BY <1>1, <1>2
    <3> QED
      BY <2>2, <3>1 DEF HostBound, Request, GenAt, SeqAt, LeavesAt
  <2> QED
    BY <1>3, <2>1, <2>2 DEF HostBound
<1>4. ASSUME ClientBound(c, d) PROVE ClientBound(c, d)'
  <2>1. ASSUME NEW g \in {1, 2}, d.body = Response(g), g <= admission[c].gen
        PROVE  ClientBound(c, d)'
    <3>1. g <= admission'[c].gen
      BY <1>1, <1>2, <2>1
    <3> QED
      BY <2>1, <3>1 DEF ClientBound, Response
  <2>2. ASSUME NEW t \in 1 .. host.tick, NEW k \in 1 .. Chunks, d.body = State(c, t, k),
               t <= admission[c].ack + 1
        PROVE  ClientBound(c, d)'
    <3>1. t \in 1 .. host'.tick /\ t <= admission'[c].ack + 1
      BY <1>1, <1>2, <2>2
    <3> QED
      BY <2>2, <3>1 DEF ClientBound, State, GenAt, SeqAt, LeavesAt
  <2> QED
    BY <1>4, <2>1, <2>2 DEF ClientBound
<1> QED
  BY <1>3, <1>4

\* Ticks that are on their way stay in the past.
LEMMA WireStaysOld ==
  ASSUME DedicatedTypes, DedicatedTypes', WireIsOld,
         \A c \in Clients :
           /\ view[c].gen <= view'[c].gen /\ view[c].tick <= view'[c].tick
           /\ admission[c].gen <= admission'[c].gen /\ admission[c].ack <= admission'[c].ack,
         host.tick <= host'.tick,
         \A c \in Clients : \A d \in wire'[<<"host", c>>] : d \in wire[<<"host", c>>] \/ HostBound(c, d)',
         \A c \in Clients :
           \A d \in wire'[<<"client", c>>] : d \in wire[<<"client", c>>] \/ ClientBound(c, d)'
  PROVE  WireIsOld'
<1>1. ASSUME NEW c \in Clients, NEW d \in wire'[<<"host", c>>] PROVE HostBound(c, d)'
  <2>1. CASE d \in wire[<<"host", c>>]
    <3>1. HostBound(c, d)
      BY <2>1 DEF WireIsOld
    <3> QED
      BY <3>1, OldStaysOld
  <2> QED
    BY <2>1, <1>1
<1>2. ASSUME NEW c \in Clients, NEW d \in wire'[<<"client", c>>] PROVE ClientBound(c, d)'
  <2>1. CASE d \in wire[<<"client", c>>]
    <3>1. ClientBound(c, d)
      BY <2>1 DEF WireIsOld
    <3> QED
      BY <3>1, OldStaysOld
  <2> QED
    BY <2>1, <1>2
<1> QED
  BY <1>1, <1>2 DEF WireIsOld

\* Sending puts one frame on its way.
LEMMA SendingAdds ==
  ASSUME DedicatedTypes, NEW e \in Endpoints, NEW body, Sends(e, body)
  PROVE  /\ wire' = [x \in Endpoints |-> wire'[x]]
         /\ \A x \in Endpoints : \A d \in wire'[x] : d \in wire[x] \/ (x = Peer(e) /\ d.body = body)
<1>1. wire' = [wire EXCEPT ![Peer(e)] = @ \cup {Datagram(e, body)}] /\ Datagram(e, body).body = body
  BY DEF Sends, Datagram
<1>2. \A x \in Endpoints : wire'[x] = IF x = Peer(e) THEN wire[x] \cup {Datagram(e, body)} ELSE wire[x]
  BY <1>1 DEF DedicatedTypes
<1>3. wire' = [x \in Endpoints |-> wire'[x]]
  BY <1>1 DEF DedicatedTypes
<1> QED
  BY <1>1, <1>2, <1>3

-----------------------------------------------------------------------------
(* The network and the ends of the processes. *)

\* Datagrams go, processes stop, nothing else happens.
LEMMA LosingKeeps ==
  ASSUME DedicatedInvariant, UNCHANGED <<admission, view>>,
         wire' = [x \in Endpoints |-> wire'[x]], \A x \in Endpoints : wire'[x] \subseteq wire[x],
         host' \in {host, [host EXCEPT !.at = "failed"]},
         \/ client' = client
         \/ \E c \in Clients : client' = [client EXCEPT ![c].at = "failed"]
  PROVE  DedicatedInvariant'
<1>1. /\ DedicatedTypes /\ WireIsOld /\ ClientKnows /\ HostKnows /\ SidesMeet /\ ShownIsOneState
  BY DEF DedicatedInvariant
<1>2. /\ host' \in Hosts /\ host'.tick = host.tick /\ host'.who = host.who
      /\ host'.at = "failed" \/ host' = host
  BY <1>1 DEF DedicatedTypes, Hosts
<1>3. /\ client' \in [Clients -> Waiting]
      /\ \A c \in Clients : client'[c].tick = client[c].tick
                            /\ (client'[c].at = "failed" \/ client'[c] = client[c])
  <2>1. ASSUME NEW b \in Clients, client' = [client EXCEPT ![b].at = "failed"]
        PROVE  client' = [c \in Clients |-> IF c = b THEN [client[c] EXCEPT !.at = "failed"] ELSE client[c]]
    BY <1>1, <2>1 DEF DedicatedTypes
  <2>2. \A c \in Clients : /\ [client[c] EXCEPT !.at = "failed"] \in Waiting
                           /\ [client[c] EXCEPT !.at = "failed"].tick = client[c].tick
                           /\ [client[c] EXCEPT !.at = "failed"].at = "failed"
    BY <1>1 DEF DedicatedTypes, Waiting
  <2>3. CASE client' = client
    BY <1>1, <2>3 DEF DedicatedTypes
  <2>4. ASSUME NEW b \in Clients, client' = [client EXCEPT ![b].at = "failed"]
        PROVE  /\ client' \in [Clients -> Waiting]
               /\ \A c \in Clients : client'[c].tick = client[c].tick
                                     /\ (client'[c].at = "failed" \/ client'[c] = client[c])
    <3>1. \A c \in Clients : client'[c] = IF c = b THEN [client[c] EXCEPT !.at = "failed"] ELSE client[c]
      BY <2>1, <2>4, ZenonT(60)
    <3>2. client' = [c \in Clients |-> client'[c]]
      BY <2>1, <2>4
    <3>3. \A c \in Clients : client[c] \in Waiting
      BY <1>1 DEF DedicatedTypes
    <3>4. \A c \in Clients : client'[c] \in Waiting
      BY <2>2, <3>1, <3>3
    <3>5. client' \in [Clients -> Waiting]
      BY <3>2, <3>4
    <3> QED
      BY <2>2, <3>1, <3>5
  <2> QED
    BY <2>3, <2>4
<1>4. DedicatedTypes'
  BY <1>1, <1>2, <1>3 DEF DedicatedTypes
<1>5. WireIsOld'
  <2>1. \A c \in Clients : /\ view[c].gen <= view[c].gen /\ view[c].tick <= view[c].tick
                           /\ admission[c].gen <= admission[c].gen
                           /\ admission[c].ack <= admission[c].ack /\ host.tick <= host.tick
    BY <1>1, TypedParts
  <2>2. 1 \in Clients
    BY DEF Clients
  <2>3. /\ \A c \in Clients : \A d \in wire'[<<"host", c>>] : d \in wire[<<"host", c>>]
        /\ \A c \in Clients : \A d \in wire'[<<"client", c>>] : d \in wire[<<"client", c>>]
    BY EndpointsAre
  <2> QED
    BY <1>1, <1>2, <1>4, <2>1, <2>2, <2>3, WireStaysOld
<1>6. ClientKnows'
  BY <1>1, <1>3 DEF ClientKnows, GenAt
<1>7. HostKnows'
  BY <1>1, <1>2 DEF HostKnows, HasAsked, GenAt, LeavesAt
<1>8. SidesMeet' /\ ShownIsOneState'
  BY <1>1, <1>2 DEF SidesMeet, ShownIsOneState
<1> QED
  BY <1>4, <1>5, <1>6, <1>7, <1>8 DEF DedicatedInvariant

\* A datagram is lost, an endpoint's process ends or its connection times out.
LEMMA NetworkKeeps ==
  ASSUME DedicatedInvariant,
         LoseDatagram \/ Kill \/ (\E e \in Endpoints : TimesOut(e)) \/ UNCHANGED dedicatedVars
  PROVE  DedicatedInvariant'
<1>1. UNCHANGED <<admission, view>>
  BY DEF LoseDatagram, Kill, TimesOut, dedicatedVars, net
<1>2. wire = [x \in Endpoints |-> wire[x]]
  BY DEF DedicatedInvariant, DedicatedTypes
<1>3. wire' = [x \in Endpoints |-> wire'[x]] /\ \A x \in Endpoints : wire'[x] \subseteq wire[x]
  <2>1. CASE wire' = wire
    BY <1>2, <2>1
  <2>2. ASSUME NEW e \in Endpoints, NEW d, wire' = [wire EXCEPT ![e] = @ \ {d}]
        PROVE  wire' = [x \in Endpoints |-> wire'[x]] /\ \A x \in Endpoints : wire'[x] \subseteq wire[x]
    <3>1. wire' = [x \in Endpoints |-> IF x = e THEN wire[x] \ {d} ELSE wire[x]]
      BY <1>2, <2>2
    <3>2. \A x \in Endpoints : wire'[x] = IF x = e THEN wire[x] \ {d} ELSE wire[x]
      BY <3>1
    <3> QED
      BY <3>1, <3>2
  <2> QED
    BY <2>1, <2>2 DEF LoseDatagram, Kill, TimesOut, dedicatedVars, net
<1>4. host' \in {host, [host EXCEPT !.at = "failed"]}
  BY DEF LoseDatagram, Kill, TimesOut, dedicatedVars
<1>5. client' = client \/ \E c \in Clients : client' = [client EXCEPT ![c].at = "failed"]
  <2>1. \A e \in Endpoints : e[2] \in Clients
    BY DEF Endpoints
  <2> QED
    BY <2>1 DEF LoseDatagram, Kill, TimesOut, dedicatedVars
<1> QED
  BY <1>1, <1>3, <1>4, <1>5, LosingKeeps

-----------------------------------------------------------------------------
(* The host. *)

\* The host publishes a chunk of the tick whose requests it has taken.
LEMMA PublishingKeeps ==
  ASSUME DedicatedInvariant, HostPublishes PROVE DedicatedInvariant'
<1> DEFINE c == host.who
           e == <<"host", c>>
           body == State(c, host.tick, host.chunk)
<1> HIDE DEF body
<1>1. /\ DedicatedTypes /\ WireIsOld /\ ClientKnows /\ HostKnows /\ SidesMeet /\ ShownIsOneState
  BY DEF DedicatedInvariant
<1>2. /\ host.at = "publish" /\ Sends(e, body) /\ UNCHANGED <<client, admission, view>>
      /\ host' = IF host.chunk < Chunks THEN [host EXCEPT !.chunk = @ + 1] ELSE AfterFrame
  BY DEF HostPublishes, State, body
<1>3. /\ host \in Hosts /\ c \in Clients /\ host.tick \in 1 .. Ticks /\ host.chunk \in 1 .. Chunks
      /\ \A b \in Clients : HasAsked(b)
  BY <1>1, <1>2 DEF DedicatedTypes, Hosts, HostKnows
<1>4. /\ wire' = [x \in Endpoints |-> wire'[x]]
      /\ \A x \in Endpoints : \A d \in wire'[x] : d \in wire[x] \/ (x = <<"client", c>> /\ d.body = body)
  <2>1. e \in Endpoints /\ Peer(e) = <<"client", c>>
    BY <1>3, EndpointsAre
  <2> QED
    BY <1>1, <1>2, <2>1, SendingAdds, ZenonT(60)
<1>5. /\ host' \in Hosts /\ host'.at \in {"publish", "admit", "done", "request"}
      /\ host'.tick \in {host.tick, host.tick + 1}
      /\ host'.at = "publish" => host'.tick = host.tick
      /\ host'.at = "admit" => host'.tick = host.tick /\ host.tick = LeaveTick /\ host'.who = 2
      /\ host'.at = "request" => host'.who = 1
  <2>1. CASE host.chunk < Chunks
    BY <1>2, <1>3, <2>1, DedicatedAssumption DEF Hosts
  <2>2. CASE ~(host.chunk < Chunks)
    <3>1. host' = AfterFrame
      BY <1>2, <2>2
    <3>2. 1 \in 1 .. Chunks /\ {1, 2} = Clients /\ Ticks \in Nat
      BY DedicatedAssumption DEF Clients
    <3>3. CASE host.who = 1
      BY <1>2, <1>3, <3>1, <3>2, <3>3 DEF AfterFrame, Hosts
    <3>4. CASE host.who = 2 /\ host.tick = LeaveTick
      BY <1>2, <1>3, <3>1, <3>2, <3>4 DEF AfterFrame, Hosts
    <3>5. CASE host.who = 2 /\ host.tick # LeaveTick /\ host.tick = Ticks
      BY <1>2, <1>3, <3>1, <3>2, <3>5 DEF AfterFrame, Hosts
    <3>6. CASE host.who = 2 /\ host.tick # LeaveTick /\ host.tick # Ticks
      <4>1. host.tick + 1 \in 0 .. Ticks
        BY <1>3, <3>2, <3>6
      <4> QED
        BY <1>2, <1>3, <3>1, <3>2, <3>6, <4>1 DEF AfterFrame, Hosts
    <3> QED
      BY <1>3, <3>2, <3>3, <3>4, <3>5, <3>6
  <2> QED
    BY <2>1, <2>2
<1>6. DedicatedTypes'
  BY <1>1, <1>2, <1>4, <1>5 DEF DedicatedTypes
<1>7. WireIsOld'
  <2>1. \A b \in Clients : /\ view[b].gen <= view[b].gen /\ view[b].tick <= view[b].tick
                           /\ admission[b].gen <= admission[b].gen
                           /\ admission[b].ack <= admission[b].ack
    BY <1>1, TypedParts
  <2>2. host.tick <= host'.tick
    BY <1>3, <1>5
  <2>3. \A b \in Clients : \A d \in wire'[<<"host", b>>] : d \in wire[<<"host", b>>]
    BY <1>3, <1>4, EndpointsAre
  <2>4. ASSUME NEW b \in Clients, NEW d \in wire'[<<"client", b>>], d \notin wire[<<"client", b>>]
        PROVE  ClientBound(b, d)'
    <3>1. b = c /\ d.body = body
      BY <1>3, <1>4, <2>4, EndpointsAre
    <3>2. host.tick \in 1 .. host'.tick /\ host.tick <= admission[c].ack + 1
      BY <1>3, <1>5 DEF HasAsked
    <3> QED
      BY <1>2, <1>3, <3>1, <3>2 DEF ClientBound, State, body, GenAt, SeqAt, LeavesAt
  <2> QED
    BY <1>1, <1>2, <1>6, <2>1, <2>2, <2>3, <2>4, WireStaysOld
<1>8. ClientKnows'
  BY <1>1, <1>2 DEF ClientKnows, GenAt
<1>9. HostKnows'
  <2>1. \A b \in Clients : admission[b].ack <= host'.tick
    BY <1>1, <1>3, <1>5, TypedParts DEF HostKnows
  <2>2. \A b \in Clients : admission[b].gen = 2 => b = 2 /\ view[b].tick >= LeaveTick
    BY <1>1 DEF HostKnows
  <2>3. host'.at = "admit" =>
          /\ host'.tick = LeaveTick /\ host'.who = 2 /\ admission[2].gen = 1
          /\ ~admission[2].connected /\ admission[2].ack = LeaveTick - 1
    <3>1. 2 \in Clients /\ GenAt(2, LeaveTick) = 1 /\ LeavesAt(2, LeaveTick)
      BY DedicatedAssumption DEF Clients, GenAt, LeavesAt
    <3> QED
      BY <1>3, <1>5, <3>1 DEF HasAsked
  <2>4. host'.at \in {"request", "publish"} => host'.tick # 0
    BY <1>3, <1>5
  <2>5. host'.at = "publish" => \A b \in Clients : HasAsked(b)'
    BY <1>2, <1>3, <1>5 DEF HasAsked, GenAt, LeavesAt
  <2>6. ~(host'.at = "request" /\ host'.who = 2)
    BY <1>5
  <2> QED
    BY <1>2, <2>1, <2>2, <2>3, <2>4, <2>5, <2>6 DEF HostKnows
<1>10. SidesMeet' /\ ShownIsOneState'
  <2>1. host.tick <= host'.tick
    BY <1>3, <1>5
  <2>2. \A b \in Clients : view[b].tick <= host.tick => view[b].tick <= host'.tick
    BY <1>1, <1>3, <1>5, TypedParts
  <2> QED
    BY <1>1, <1>2, <2>2 DEF SidesMeet, ShownIsOneState
<1> QED
  BY <1>6, <1>7, <1>8, <1>9, <1>10 DEF DedicatedInvariant

\* What a datagram that the host takes leaves on the wire.
LEMMA HostTakingLeaves ==
  ASSUME DedicatedTypes, NEW c \in Clients, NEW d, NEW repeated \in BOOLEAN, NEW responds \in BOOLEAN,
         LET e == <<"host", c>>
             left == [wire EXCEPT ![e] = Remaining(e, d, repeated)]
             response == Datagram(e, [kind |-> "response", seq |-> d.body.seq])
         IN IF responds THEN wire' = [left EXCEPT ![Peer(e)] = @ \cup {response}] ELSE wire' = left
  PROVE  /\ wire' = [x \in Endpoints |-> wire'[x]]
         /\ \A x \in Endpoints : \A o \in wire'[x] :
              o \in wire[x] \/ (responds /\ x = <<"client", c>> /\ o.body = Response(d.body.seq))
<1> DEFINE e == <<"host", c>>
           left == [wire EXCEPT ![e] = Remaining(e, d, repeated)]
           response == Datagram(e, [kind |-> "response", seq |-> d.body.seq])
<1>1. /\ left = [x \in Endpoints |-> left[x]] /\ \A x \in Endpoints : left[x] \subseteq wire[x]
  <2>1. left = [x \in Endpoints |-> IF x = e THEN Remaining(e, d, repeated) ELSE wire[x]]
    BY DEF DedicatedTypes
  <2>2. Remaining(e, d, repeated) \subseteq wire[e]
    BY DEF Remaining
  <2> QED
    BY <2>1, <2>2
<1>2. response.body = Response(d.body.seq) /\ Peer(e) = <<"client", c>>
  BY EndpointsAre DEF Datagram, Response
<1> HIDE DEF left, response
<1>3. CASE responds
  <2>1. wire' = [left EXCEPT ![Peer(e)] = @ \cup {response}]
    BY <1>3 DEF left, response
  <2>2. wire' = [x \in Endpoints |-> IF x = Peer(e) THEN left[x] \cup {response} ELSE left[x]]
    BY <1>1, <2>1
  <2>3. \A x \in Endpoints : wire'[x] = IF x = Peer(e) THEN left[x] \cup {response} ELSE left[x]
    BY <2>2
  <2>4. wire' = [x \in Endpoints |-> wire'[x]]
    BY <2>2
  <2> QED
    BY <1>1, <1>2, <1>3, <2>3, <2>4
<1>4. CASE ~responds
  <2>1. wire' = left
    BY <1>4 DEF left
  <2> QED
    BY <1>1, <2>1
<1> QED
  BY <1>3, <1>4

\* The host takes the request of its tick.
LEMMA TakingKeeps ==
  ASSUME DedicatedInvariant, NEW c \in Clients, c = host.who, host.at = "request",
         NEW d \in wire[<<"host", c>>], d.body = Request(c, host.tick),
         admission[c].gen = GenAt(c, host.tick), admission[c].ack <= host.tick - 1,
         admission' = [admission EXCEPT ![c] =
           [@ EXCEPT !.last = SeqAt(c, host.tick), !.ack = host.tick - 1,
                     !.connected = ~LeavesAt(c, host.tick)]],
         host' = IF c = 1 THEN [host EXCEPT !.who = 2]
                 ELSE [host EXCEPT !.at = "publish", !.who = 1, !.chunk = 1],
         UNCHANGED <<client, view>>,
         wire' = [x \in Endpoints |-> wire'[x]],
         \A x \in Endpoints : \A o \in wire'[x] : o \in wire[x]
  PROVE  DedicatedInvariant'
<1>1. /\ DedicatedTypes /\ WireIsOld /\ ClientKnows /\ HostKnows /\ SidesMeet /\ ShownIsOneState
  BY DEF DedicatedInvariant
<1>2. /\ host \in Hosts /\ host.tick \in 1 .. Ticks /\ Ticks \in Nat /\ LeaveTick \in Nat
      /\ 1 \in 1 .. Chunks
  BY <1>1, DedicatedAssumption DEF DedicatedTypes, Hosts, HostKnows
<1>3. /\ host' \in Hosts /\ host'.tick = host.tick
      /\ host'.at = (IF c = 1 THEN "request" ELSE "publish")
      /\ host'.who = (IF c = 1 THEN 2 ELSE 1)
  BY <1>2 DEF Hosts, Clients
<1>4. /\ admission[c] \in Admissions /\ SeqAt(c, host.tick) \in Nat /\ host.tick - 1 \in Nat
      /\ (~LeavesAt(c, host.tick)) \in BOOLEAN
  BY <1>1, <1>2 DEF DedicatedTypes, SeqAt
<1>5. /\ admission' \in [Clients -> Admissions]
      /\ admission'[c].gen = admission[c].gen /\ admission'[c].ack = host.tick - 1
      /\ admission'[c].connected = ~LeavesAt(c, host.tick)
      /\ \A b \in Clients : b # c => admission'[b] = admission[b]
  <2> DEFINE new == [admission[c] EXCEPT !.last = SeqAt(c, host.tick), !.ack = host.tick - 1,
                                         !.connected = ~LeavesAt(c, host.tick)]
  <2>1. /\ new \in Admissions /\ new.gen = admission[c].gen /\ new.ack = host.tick - 1
        /\ new.connected = ~LeavesAt(c, host.tick)
    BY <1>4 DEF Admissions
  <2>2. admission' = [admission EXCEPT ![c] = new]
    OBVIOUS
  <2> HIDE DEF new
  <2> QED
    BY <1>1, <2>1, <2>2 DEF DedicatedTypes
<1>6. host.tick - 1 <= view[c].tick /\ view[c].tick \in Nat
  <2>1. HostBound(c, d)
    BY <1>1 DEF WireIsOld
  <2>2. \A g \in {1, 2} : d.body # Offer(g)
    <3>1. \A g \in {1, 2} : Offer(g).kind = "offer"
      BY DEF Offer
    <3>2. d.body.kind = "request"
      BY DEF Request
    <3> QED
      BY <3>1, <3>2
  <2>3. PICK t \in 1 .. view[c].tick + 1 : d.body = Request(c, t)
    BY <2>1, <2>2 DEF HostBound
  <2>4. t - 1 = host.tick - 1
    BY <2>3 DEF Request
  <2> QED
    BY <1>1, <2>4, TypedParts
<1>7. DedicatedTypes'
  BY <1>1, <1>3, <1>5 DEF DedicatedTypes
<1>8. \A b \in Clients : /\ view[b].gen <= view[b].gen /\ view[b].tick <= view[b].tick
                         /\ admission[b].gen <= admission'[b].gen
                         /\ admission[b].ack <= admission'[b].ack
  BY <1>1, <1>5, TypedParts
<1>9. WireIsOld'
  <2>1. host.tick <= host'.tick
    BY <1>2, <1>3
  <2>2. /\ \A b \in Clients : \A o \in wire'[<<"host", b>>] : o \in wire[<<"host", b>>]
        /\ \A b \in Clients : \A o \in wire'[<<"client", b>>] : o \in wire[<<"client", b>>]
    BY EndpointsAre
  <2> QED
    BY <1>1, <1>7, <1>8, <2>1, <2>2, WireStaysOld
<1>10. ClientKnows'
  BY <1>1 DEF ClientKnows, GenAt
<1>11. HasAsked(c)' /\ \A b \in Clients : b # c /\ HasAsked(b) => HasAsked(b)'
  BY <1>3, <1>5 DEF HasAsked, GenAt, LeavesAt
<1>12. HostKnows'
  <2>1. \A b \in Clients : /\ admission'[b].ack <= host'.tick
                           /\ admission'[b].gen = 2 => b = 2 /\ view[b].tick >= LeaveTick
    <3>1. host.tick - 1 <= host.tick
      BY <1>2
    <3> QED
      BY <1>1, <1>3, <1>5, <3>1 DEF HostKnows
  <2>2. host'.at \in {"request", "publish"} /\ host'.tick # 0
    BY <1>2, <1>3
  <2>3. host'.at = "request" => c = 1
    BY <1>3
  <2>4. host'.at = "publish" => \A b \in Clients : HasAsked(b)'
    <3>1. host'.at = "publish" => c = 2 /\ HasAsked(1)
      BY <1>1, <1>3 DEF HostKnows, Clients
    <3> QED
      BY <1>11, <3>1 DEF Clients
  <2>5. \A b \in Clients : view'[b] = view[b]
    OBVIOUS
  <2>6. host'.at # "admit"
    BY <2>2
  <2> QED
    BY <1>11, <2>1, <2>2, <2>3, <2>4, <2>5, <2>6 DEF HostKnows
<1>13. SidesMeet' /\ ShownIsOneState'
  <2>1. SidesMeet'
    <3> SUFFICES ASSUME NEW b \in Clients
                 PROVE  /\ view[b].gen \in {admission'[b].gen, admission'[b].gen - 1}
                        /\ view[b].tick \in admission'[b].ack .. admission'[b].ack + 1
                        /\ view[b].tick <= host'.tick
      BY DEF SidesMeet
    <3>1. /\ view[b].gen \in {admission[b].gen, admission[b].gen - 1}
          /\ view[b].tick \in admission[b].ack .. admission[b].ack + 1 /\ view[b].tick <= host.tick
      BY <1>1 DEF SidesMeet
    <3>2. CASE b = c
      <4>1. admission[c].ack \in Nat
        BY <1>1, TypedParts
      <4> QED
        BY <1>2, <1>3, <1>5, <1>6, <3>1, <3>2, <4>1
    <3>3. CASE b # c
      BY <1>3, <1>5, <3>1, <3>3
    <3> QED
      BY <3>2, <3>3
  <2> QED
    BY <1>1, <2>1 DEF ShownIsOneState
<1> QED
  BY <1>7, <1>9, <1>10, <1>12, <1>13 DEF DedicatedInvariant

\* The host admits the next generation of a client.
LEMMA AdmittingKeeps ==
  ASSUME DedicatedInvariant, NEW c \in Clients, c = host.who, host.at = "admit",
         NEW gen, gen = GenAt(c, host.tick + 1),
         NEW d \in wire[<<"host", c>>], d.body = Offer(gen), gen = admission[c].gen + 1,
         admission' = [admission EXCEPT ![c] = Admitted(admission[c], gen, host.tick)],
         host' = IF host.tick = 0 /\ c = 1 THEN [host EXCEPT !.who = 2]
                 ELSE [host EXCEPT !.at = "request", !.who = 1, !.tick = @ + 1],
         UNCHANGED <<client, view>>,
         wire' = [x \in Endpoints |-> wire'[x]],
         \A x \in Endpoints : \A o \in wire'[x] :
           o \in wire[x] \/ (x = <<"client", c>> /\ o.body = Response(gen))
  PROVE  DedicatedInvariant'
<1>1. /\ DedicatedTypes /\ WireIsOld /\ ClientKnows /\ HostKnows /\ SidesMeet /\ ShownIsOneState
  BY DEF DedicatedInvariant
<1>2. /\ host \in Hosts /\ host.tick \in 0 .. Ticks /\ Ticks \in Nat /\ LeaveTick \in 1 .. Ticks - 1
      /\ host.tick = 0 \/ (host.tick = LeaveTick /\ c = 2)
  BY <1>1, DedicatedAssumption DEF DedicatedTypes, Hosts, HostKnows
<1>3. gen \in {1, 2} /\ (gen = 2 => c = 2 /\ host.tick = LeaveTick) /\ (host.tick = LeaveTick => gen = 2)
  <2>1. host.tick = LeaveTick => c = 2
    BY <1>2
  <2> QED
    BY <1>2, <2>1 DEF GenAt
<1>4. gen - 1 <= view[c].gen /\ (gen = 2 => view[c].tick >= LeaveTick)
  <2>1. HostBound(c, d)
    BY <1>1 DEF WireIsOld
  <2>2. \A t \in 1 .. view[c].tick + 1 : d.body # Request(c, t)
    <3>1. \A t \in 1 .. view[c].tick + 1 : Request(c, t).kind = "request"
      BY DEF Request
    <3>2. d.body.kind = "offer"
      BY DEF Offer
    <3> QED
      BY <3>1, <3>2
  <2>3. PICK g \in {1, 2} : d.body = Offer(g) /\ g - 1 <= view[c].gen
                            /\ (g = 2 => c = 2 /\ view[c].tick >= LeaveTick)
    BY <2>1, <2>2 DEF HostBound
  <2>4. g = gen
    BY <2>3 DEF Offer
  <2> QED
    BY <2>3, <2>4
<1>5. /\ host' \in Hosts /\ host'.tick \in {host.tick, host.tick + 1}
      /\ \/ host'.at = "admit" /\ host'.who = 2 /\ c = 1 /\ host'.tick = 0
         \/ host'.at = "request" /\ host'.who = 1 /\ host'.tick # 0
  <2>1. CASE host.tick = 0 /\ c = 1
    BY <1>2, <2>1 DEF Hosts, Clients
  <2>2. CASE ~(host.tick = 0 /\ c = 1)
    <3>1. host.tick + 1 \in 0 .. Ticks /\ host.tick + 1 # 0
      BY <1>2
    <3> QED
      BY <1>2, <2>2, <3>1 DEF Hosts, Clients
  <2> QED
    BY <2>1, <2>2
<1>6. /\ admission' \in [Clients -> Admissions]
      /\ admission'[c].gen = gen /\ admission'[c].ack = host.tick
      /\ \A b \in Clients : b # c => admission'[b] = admission[b]
  <2>1. /\ Admitted(admission[c], gen, host.tick) \in Admissions
        /\ Admitted(admission[c], gen, host.tick).gen = gen
        /\ Admitted(admission[c], gen, host.tick).ack = host.tick
    BY <1>2, <1>3 DEF Admitted, Admissions
  <2> QED
    BY <1>1, <2>1 DEF DedicatedTypes
<1>7. DedicatedTypes'
  BY <1>1, <1>5, <1>6 DEF DedicatedTypes
<1>8. \A b \in Clients : /\ view[b].gen <= view[b].gen /\ view[b].tick <= view[b].tick
                         /\ admission[b].gen <= admission'[b].gen
                         /\ admission[b].ack <= admission'[b].ack
  <2>1. admission[c].ack <= host.tick
    BY <1>1 DEF HostKnows
  <2> QED
    BY <1>1, <1>6, <2>1, TypedParts
<1>9. WireIsOld'
  <2>1. host.tick <= host'.tick
    BY <1>2, <1>5
  <2>2. \A b \in Clients : \A o \in wire'[<<"host", b>>] : o \in wire[<<"host", b>>]
    BY EndpointsAre, ZenonT(60)
  <2>3. ASSUME NEW b \in Clients, NEW o \in wire'[<<"client", b>>], o \notin wire[<<"client", b>>]
        PROVE  ClientBound(b, o)'
    <3>1. b = c /\ o.body = Response(gen)
      BY <2>3, EndpointsAre, ZenonT(60)
    <3>2. gen <= admission'[c].gen
      BY <1>3, <1>6
    <3> QED
      BY <1>3, <3>1, <3>2 DEF ClientBound, Response
  <2> QED
    BY <1>1, <1>7, <1>8, <2>1, <2>2, <2>3, WireStaysOld
<1>10. ClientKnows'
  BY <1>1 DEF ClientKnows, GenAt
<1>11. HostKnows'
  <2>1. \A b \in Clients : admission'[b].ack <= host'.tick
    <3>1. \A b \in Clients : admission[b].ack <= host.tick /\ admission[b].ack \in Nat
      BY <1>1, TypedParts DEF HostKnows
    <3> QED
      BY <1>2, <1>5, <1>6, <3>1
  <2>2. \A b \in Clients : admission'[b].gen = 2 => b = 2 /\ view[b].tick >= LeaveTick
    BY <1>1, <1>3, <1>4, <1>6 DEF HostKnows
  <2>3. host'.at = "admit" =>
          \A b \in Clients : b >= 2 => admission'[b].gen = 0 /\ ~admission'[b].connected
    <3>1. host'.at = "admit" => host.tick = 0 /\ c = 1
      BY <1>2, <1>5
    <3>2. 2 \in Clients /\ \A b \in Clients : b >= 2 => b = 2
      BY DEF Clients
    <3>3. host'.at = "admit" => admission'[2] = admission[2]
      BY <1>6, <3>1, <3>2
    <3>4. host.tick = 0 /\ c = 1 => admission[2].gen = 0 /\ ~admission[2].connected
      BY <1>1, <1>2, <3>2 DEF HostKnows
    <3> QED
      BY <3>1, <3>2, <3>3, <3>4
  <2>4. \A b \in Clients : view'[b] = view[b]
    OBVIOUS
  <2> QED
    BY <1>5, <2>1, <2>2, <2>3, <2>4, SMTT(60) DEF HostKnows
<1>12. SidesMeet' /\ ShownIsOneState'
  <2>1. SidesMeet'
    <3> SUFFICES ASSUME NEW b \in Clients
                 PROVE  /\ view[b].gen \in {admission'[b].gen, admission'[b].gen - 1}
                        /\ view[b].tick \in admission'[b].ack .. admission'[b].ack + 1
                        /\ view[b].tick <= host'.tick
      BY DEF SidesMeet
    <3>1. /\ view[b].gen \in {admission[b].gen, admission[b].gen - 1}
          /\ view[b].tick \in admission[b].ack .. admission[b].ack + 1 /\ view[b].tick <= host.tick
          /\ view[b].tick \in Nat /\ view[b].gen \in Nat
          /\ admission[b].ack <= host.tick /\ admission[b].ack \in Nat
      BY <1>1, TypedParts DEF SidesMeet, HostKnows
    <3>2. view[b].tick <= host'.tick
      BY <1>2, <1>5, <3>1
    <3>3. CASE b = c
      <4>1. host.tick <= view[c].tick
        BY <1>2, <1>3, <1>4, <3>1, <3>3
      <4>2. view[c].gen = gen - 1
        <5>1. admission[c].gen \in Nat /\ gen = admission[c].gen + 1
          BY <1>1, TypedParts
        <5> QED
          BY <1>3, <1>4, <3>1, <3>3, <5>1, SMTT(60)
      <4>3. admission'[b].gen = gen /\ admission'[b].ack = host.tick
        BY <1>6, <3>3
      <4>4. view[b].tick = host.tick
        BY <1>2, <3>1, <3>3, <4>1
      <4> QED
        BY <1>2, <3>2, <3>3, <4>2, <4>3, <4>4
    <3>4. CASE b # c
      BY <1>6, <3>1, <3>2, <3>4
    <3> QED
      BY <3>3, <3>4
  <2> QED
    BY <1>1, <2>1 DEF ShownIsOneState
<1> QED
  BY <1>7, <1>9, <1>10, <1>11, <1>12 DEF DedicatedInvariant

\* The host reads a command or an acknowledgement.
LEMMA HostReceivesKeeps ==
  ASSUME DedicatedInvariant, NEW c \in Clients, HostReceives(c) PROVE DedicatedInvariant'
<1> DEFINE e == <<"host", c>>
<1>1. PICK d \in wire[e] : \E repeated \in BOOLEAN :
        LET left == [wire EXCEPT ![e] = Remaining(e, d, repeated)]
            response == Datagram(e, [kind |-> "response", seq |-> d.body.seq])
        IN /\ Receives(e, d, repeated)
           /\ IF host.at = "request" THEN HostTakesRequest(d) ELSE HostAdmits(d)
           /\ IF host.at = "admit" /\ Answers(d)
              THEN /\ wire' = [left EXCEPT ![Peer(e)] = @ \cup {response}]
                   /\ sent' = [sent EXCEPT ![e] = @ + 1]
              ELSE wire' = left /\ UNCHANGED sent
           /\ UNCHANGED <<client, view>>
  BY Zenon DEF HostReceives
<1>2. PICK repeated \in BOOLEAN :
        LET left == [wire EXCEPT ![e] = Remaining(e, d, repeated)]
            response == Datagram(e, [kind |-> "response", seq |-> d.body.seq])
        IN /\ Receives(e, d, repeated)
           /\ IF host.at = "request" THEN HostTakesRequest(d) ELSE HostAdmits(d)
           /\ IF host.at = "admit" /\ Answers(d)
              THEN /\ wire' = [left EXCEPT ![Peer(e)] = @ \cup {response}]
                   /\ sent' = [sent EXCEPT ![e] = @ + 1]
              ELSE wire' = left /\ UNCHANGED sent
           /\ UNCHANGED <<client, view>>
  BY <1>1, Zenon
<1>3. /\ host.at \in {"admit", "request"} /\ c = host.who /\ UNCHANGED <<client, view>>
      /\ host.at = "request" => HostTakesRequest(d)
      /\ host.at # "request" => HostAdmits(d)
  BY <1>2 DEF Receives, Waits
<1>4. /\ DedicatedTypes /\ WireIsOld /\ ClientKnows /\ HostKnows /\ SidesMeet /\ ShownIsOneState
  BY DEF DedicatedInvariant
<1> DEFINE responds == host.at = "admit" /\ Answers(d)
<1>5. /\ wire' = [x \in Endpoints |-> wire'[x]]
      /\ \A x \in Endpoints : \A o \in wire'[x] :
           o \in wire[x] \/ (responds /\ x = <<"client", c>> /\ o.body = Response(d.body.seq))
  <2>1. responds \in BOOLEAN
    BY Zenon
  <2>2. LET left == [wire EXCEPT ![e] = Remaining(e, d, repeated)]
            response == Datagram(e, [kind |-> "response", seq |-> d.body.seq])
        IN IF responds THEN wire' = [left EXCEPT ![Peer(e)] = @ \cup {response}] ELSE wire' = left
    BY <1>2, Zenon
  <2>3. ASSUME NEW r \in BOOLEAN, r = responds
        PROVE  /\ wire' = [x \in Endpoints |-> wire'[x]]
               /\ \A x \in Endpoints : \A o \in wire'[x] :
                    o \in wire[x] \/ (r /\ x = <<"client", c>> /\ o.body = Response(d.body.seq))
    <3> HIDE DEF responds
    <3>1. LET left == [wire EXCEPT ![e] = Remaining(e, d, repeated)]
              response == Datagram(e, [kind |-> "response", seq |-> d.body.seq])
          IN IF r THEN wire' = [left EXCEPT ![Peer(e)] = @ \cup {response}] ELSE wire' = left
      BY <2>2, <2>3, Zenon
    <3> QED
      BY <1>4, <3>1, HostTakingLeaves, Zenon
  <2> HIDE DEF responds
  <2> QED
    BY <2>1, <2>3, Zenon
<1>6. CASE ~responds /\ host' = [host EXCEPT !.at = "failed"] /\ UNCHANGED admission
  <2>1. \A x \in Endpoints : wire'[x] \subseteq wire[x]
    BY <1>5, <1>6
  <2> QED
    BY <1>3, <1>5, <1>6, <2>1, LosingKeeps
<1>7. CASE host.at = "request"
  <2>1. CASE host' = [host EXCEPT !.at = "failed"] /\ UNCHANGED admission
    BY <1>6, <1>7, <2>1
  <2>2. CASE ~(host' = [host EXCEPT !.at = "failed"] /\ UNCHANGED admission)
    <3>1. /\ d.body = Request(c, host.tick) /\ d.body.gen = admission[c].gen
          /\ d.body.ack >= admission[c].ack
          /\ admission' = [admission EXCEPT ![c] =
               [@ EXCEPT !.last = d.body.seq, !.ack = d.body.ack, !.connected = ~d.body.leaves]]
          /\ host' = IF c = 1 THEN [host EXCEPT !.who = 2]
                     ELSE [host EXCEPT !.at = "publish", !.who = 1, !.chunk = 1]
      BY <1>3, <1>7, <2>2, Zenon DEF HostTakesRequest, Request
    <3>2. /\ d.body.gen = GenAt(c, host.tick) /\ d.body.ack = host.tick - 1
          /\ d.body.seq = SeqAt(c, host.tick) /\ d.body.leaves = LeavesAt(c, host.tick)
      BY <3>1 DEF Request
    <3>3. admission[c].ack <= host.tick - 1
      BY <1>4, <3>1, <3>2, TypedParts
    <3>4. admission' = [admission EXCEPT ![c] =
            [@ EXCEPT !.last = SeqAt(c, host.tick), !.ack = host.tick - 1,
                      !.connected = ~LeavesAt(c, host.tick)]]
      BY <3>1, <3>2, Zenon
    <3>5. \A x \in Endpoints : \A o \in wire'[x] : o \in wire[x]
      BY <1>5, <1>7
    <3>6. admission[c].gen = GenAt(c, host.tick)
      BY <3>1, <3>2
    <3> QED
      BY <1>3, <1>5, <1>7, <3>1, <3>3, <3>4, <3>5, <3>6, TakingKeeps
  <2> QED
    BY <2>1, <2>2
<1>8. CASE host.at = "admit"
  <2>1. CASE ~Answers(d)
    <3>1. host' = [host EXCEPT !.at = "failed"] /\ UNCHANGED admission
      BY <1>3, <1>8, <2>1 DEF HostAdmits
    <3> QED
      BY <1>6, <2>1, <3>1
  <2>2. CASE Answers(d)
    <3> DEFINE gen == GenAt(c, host.tick + 1)
    <3>1. d.body = Offer(gen) /\ d.body.seq = gen
      BY <1>3, <2>2 DEF Answers, Offer
    <3>2. ~admission[c].connected /\ gen = admission[c].gen + 1 /\ Resumes(admission[c], host.tick)
      <4>1. CASE host.tick = 0
        <5>1. admission[c].gen = 0 /\ ~admission[c].connected
          <6>1. LeaveTick # 0 /\ c >= c
            BY DedicatedAssumption DEF Clients
          <6> QED
            BY <1>3, <1>4, <1>8, <4>1, <6>1 DEF HostKnows
        <5>2. gen = 1
          BY <4>1, DedicatedAssumption DEF GenAt
        <5> QED
          BY <4>1, <5>1, <5>2 DEF Resumes
      <4>2. CASE host.tick # 0
        <5>1. /\ host.tick = LeaveTick /\ c = 2 /\ admission[c].gen = 1
              /\ ~admission[c].connected /\ admission[c].ack = LeaveTick - 1
          BY <1>3, <1>4, <1>8, <4>2 DEF HostKnows
        <5>2. gen = 2
          BY <5>1, DedicatedAssumption DEF GenAt
        <5>3. Resumes(admission[c], host.tick)
          BY <5>1, DedicatedAssumption DEF Resumes
        <5> QED
          BY <5>1, <5>2, <5>3
      <4> QED
        BY <4>1, <4>2
    <3>3. /\ admission' = [admission EXCEPT ![c] = Admitted(admission[c], gen, host.tick)]
          /\ host' = IF host.tick = 0 /\ c = 1 THEN [host EXCEPT !.who = 2]
                     ELSE [host EXCEPT !.at = "request", !.who = 1, !.tick = @ + 1]
      BY <1>3, <1>8, <2>2, <3>2, Zenon DEF HostAdmits
    <3> HIDE DEF gen
    <3>4. gen = GenAt(c, host.tick + 1)
      BY DEF gen
    <3>5. \A x \in Endpoints : \A o \in wire'[x] :
            o \in wire[x] \/ (x = <<"client", c>> /\ o.body = Response(gen))
      BY <1>5, <3>1
    <3> QED
      BY <1>3, <1>5, <1>8, <3>1, <3>2, <3>3, <3>4, <3>5, AdmittingKeeps
  <2> QED
    BY <2>1, <2>2
<1> QED
  BY <1>3, <1>7, <1>8

-----------------------------------------------------------------------------
(* A client. *)

\* A client offers, or asks.
LEMMA SayingKeeps ==
  ASSUME DedicatedInvariant, NEW c \in Clients, Offers(c) \/ Asks(c) PROVE DedicatedInvariant'
<1> DEFINE t == client[c].tick
           e == <<"client", c>>
<1>1. /\ DedicatedTypes /\ WireIsOld /\ ClientKnows /\ HostKnows /\ SidesMeet /\ ShownIsOneState
  BY DEF DedicatedInvariant
<1>2. UNCHANGED <<host, admission, view>>
  BY DEF Offers, Asks
<1>3. \/ /\ client[c].at = "offer" /\ Sends(e, Offer(GenAt(c, t)))
         /\ client' = [client EXCEPT ![c].at = "offered"]
      \/ /\ client[c].at = "ask" /\ Sends(e, Request(c, t))
         /\ client' = [client EXCEPT ![c].at = "frame"]
  BY Zenon DEF Offers, Asks, Offer, Request
<1>4. /\ view[c].gen \in 0 .. 2 /\ view[c].tick \in Nat /\ t \in Nat \ {0}
      /\ view[c].tick = t - 1 /\ (client[c].at = "offer" => view[c].gen = GenAt(c, t) - 1)
  BY <1>1, <1>3, TypedParts DEF ClientKnows
<1>5. PICK body : /\ Sends(e, body)
                  /\ \A d : d.body = body => HostBound(c, d)
  <2>1. CASE client[c].at = "offer" /\ Sends(e, Offer(GenAt(c, t)))
    <3>1. /\ GenAt(c, t) \in {1, 2} /\ GenAt(c, t) - 1 <= view[c].gen
          /\ GenAt(c, t) = 2 => c = 2 /\ view[c].tick >= LeaveTick
      BY <1>4, <2>1, GenerationsAre, DedicatedAssumption
    <3> QED
      BY <2>1, <3>1 DEF HostBound
  <2>2. CASE Sends(e, Request(c, t))
    <3>1. t \in 1 .. view[c].tick + 1
      BY <1>4
    <3> QED
      BY <2>2, <3>1 DEF HostBound
  <2> QED
    BY <1>3, <2>1, <2>2
<1>6. /\ wire' = [x \in Endpoints |-> wire'[x]]
      /\ \A x \in Endpoints : \A d \in wire'[x] : d \in wire[x] \/ (x = <<"host", c>> /\ d.body = body)
  <2>1. e \in Endpoints /\ Peer(e) = <<"host", c>>
    BY EndpointsAre
  <2> QED
    BY <1>1, <1>5, <2>1, SendingAdds, Zenon
<1>7. /\ client' \in [Clients -> Waiting]
      /\ \A b \in Clients : b # c => client'[b] = client[b]
      /\ client'[c].tick = t /\ client'[c].at \in {"offered", "frame"}
      /\ client'[c].at = "offered" => client[c].at = "offer"
  BY <1>1, <1>3 DEF DedicatedTypes, Waiting
<1>8. DedicatedTypes'
  BY <1>1, <1>2, <1>6, <1>7 DEF DedicatedTypes
<1>9. WireIsOld'
  <2>1. \A b \in Clients : /\ view[b].gen <= view[b].gen /\ view[b].tick <= view[b].tick
                           /\ admission[b].gen <= admission[b].gen
                           /\ admission[b].ack <= admission[b].ack /\ host.tick <= host.tick
    BY <1>1, TypedParts
  <2>2. host.tick <= host'.tick
    BY <1>2, <2>1
  <2>3. \A b \in Clients : \A d \in wire'[<<"client", b>>] : d \in wire[<<"client", b>>]
    BY <1>6, EndpointsAre
  <2>4. ASSUME NEW b \in Clients, NEW d \in wire'[<<"host", b>>], d \notin wire[<<"host", b>>]
        PROVE  HostBound(b, d)'
    <3>1. b = c /\ d.body = body
      BY <1>6, <2>4, EndpointsAre
    <3>2. HostBound(c, d)
      BY <1>5, <3>1
    <3> QED
      BY <1>2, <3>1, <3>2 DEF HostBound, Offer, Request, GenAt, SeqAt, LeavesAt
  <2> QED
    BY <1>1, <1>2, <1>8, <2>1, <2>2, <2>3, <2>4, WireStaysOld
<1>10. ClientKnows'
  <2> SUFFICES ASSUME NEW b \in Clients
               PROVE  /\ client'[b].at \in {"offer", "offered"} => view[b].gen = GenAt(b, client'[b].tick) - 1
                      /\ client'[b].at \in {"offer", "offered", "ask", "frame"}
                           => view[b].tick = client'[b].tick - 1
                      /\ view[b].connected => view[b].gen = GenAt(b, view[b].tick + 1)
    BY <1>2 DEF ClientKnows, GenAt
  <2>1. CASE b = c
    BY <1>1, <1>4, <1>7, <2>1 DEF ClientKnows
  <2>2. CASE b # c
    BY <1>1, <1>7, <2>2 DEF ClientKnows
  <2> QED
    BY <2>1, <2>2
<1>11. HostKnows' /\ SidesMeet' /\ ShownIsOneState'
  BY <1>1, <1>2 DEF HostKnows, HasAsked, GenAt, LeavesAt, SidesMeet, ShownIsOneState
<1> QED
  BY <1>8, <1>9, <1>10, <1>11 DEF DedicatedInvariant

\* What a datagram that a client takes leaves on the wire.
LEMMA ClientTakingLeaves ==
  ASSUME DedicatedTypes, NEW e \in Endpoints, NEW d, NEW repeated \in BOOLEAN,
         wire' = [wire EXCEPT ![e] = Remaining(e, d, repeated)]
  PROVE  wire' = [x \in Endpoints |-> wire'[x]] /\ \A x \in Endpoints : wire'[x] \subseteq wire[x]
<1>1. Remaining(e, d, repeated) \subseteq wire[e]
  BY DEF Remaining
<1>2. wire' = [x \in Endpoints |-> IF x = e THEN Remaining(e, d, repeated) ELSE wire[x]]
  BY DEF DedicatedTypes
<1> QED
  BY <1>1, <1>2

\* A client whose view moves forward to what the host has said.
LEMMA ViewMoves ==
  ASSUME DedicatedInvariant, NEW c \in Clients, NEW v \in Views, NEW w \in Waiting,
         view' = [view EXCEPT ![c] = v], client' = [client EXCEPT ![c] = w],
         view[c].gen <= v.gen, v.gen <= admission[c].gen,
         view[c].tick <= v.tick, v.tick <= host.tick, v.tick <= admission[c].ack + 1,
         \A k \in 1 .. Chunks : v.shown[k] = v.tick,
         w.at \in {"offer", "offered"} => v.gen = GenAt(c, w.tick) - 1,
         w.at \in {"offer", "offered", "ask", "frame"} => v.tick = w.tick - 1,
         v.connected => v.gen = GenAt(c, v.tick + 1),
         UNCHANGED <<host, admission>>,
         wire' = [x \in Endpoints |-> wire'[x]], \A x \in Endpoints : wire'[x] \subseteq wire[x]
  PROVE  DedicatedInvariant'
<1>1. /\ DedicatedTypes /\ WireIsOld /\ ClientKnows /\ HostKnows /\ SidesMeet /\ ShownIsOneState
  BY DEF DedicatedInvariant
<1>2. /\ view' \in [Clients -> Views] /\ client' \in [Clients -> Waiting]
      /\ view'[c] = v /\ client'[c] = w
      /\ \A b \in Clients : b # c => view'[b] = view[b] /\ client'[b] = client[b]
  BY <1>1 DEF DedicatedTypes
<1>3. v.gen \in 0 .. 2 /\ v.tick \in Nat
  BY DEF Views
<1>4. DedicatedTypes'
  BY <1>1, <1>2 DEF DedicatedTypes
<1>5. \A b \in Clients : /\ view[b].gen <= view'[b].gen /\ view[b].tick <= view'[b].tick
                         /\ admission[b].gen <= admission[b].gen
                         /\ admission[b].ack <= admission[b].ack
  BY <1>1, <1>2, TypedParts
<1>6. WireIsOld'
  <2>1. host.tick <= host'.tick
    BY <1>1, TypedParts
  <2>2. /\ \A b \in Clients : \A d \in wire'[<<"host", b>>] : d \in wire[<<"host", b>>]
        /\ \A b \in Clients : \A d \in wire'[<<"client", b>>] : d \in wire[<<"client", b>>]
    BY EndpointsAre
  <2> QED
    BY <1>1, <1>4, <1>5, <2>1, <2>2, WireStaysOld
<1>7. ClientKnows'
  <2> SUFFICES ASSUME NEW b \in Clients
               PROVE  /\ client'[b].at \in {"offer", "offered"} => view'[b].gen = GenAt(b, client'[b].tick) - 1
                      /\ client'[b].at \in {"offer", "offered", "ask", "frame"}
                           => view'[b].tick = client'[b].tick - 1
                      /\ view'[b].connected => view'[b].gen = GenAt(b, view'[b].tick + 1)
    BY DEF ClientKnows, GenAt
  <2>1. CASE b = c
    BY <1>2, <2>1
  <2>2. CASE b # c
    BY <1>1, <1>2, <2>2 DEF ClientKnows
  <2> QED
    BY <2>1, <2>2
<1>8. HostKnows'
  <2>1. \A b \in Clients : admission[b].gen = 2 => b = 2 /\ view'[b].tick >= LeaveTick
    <3>1. \A b \in Clients : view[b].tick \in Nat /\ view'[b].tick \in Nat
      BY <1>1, <1>2, <1>3, TypedParts
    <3> QED
      BY <1>1, <1>5, <3>1, DedicatedAssumption DEF HostKnows
  <2> QED
    BY <1>1, <2>1 DEF HostKnows, HasAsked, GenAt, LeavesAt
<1>9. SidesMeet'
  <2> SUFFICES ASSUME NEW b \in Clients
               PROVE  /\ view'[b].gen \in {admission[b].gen, admission[b].gen - 1}
                      /\ view'[b].tick \in admission[b].ack .. admission[b].ack + 1
                      /\ view'[b].tick <= host.tick
    BY DEF SidesMeet
  <2>1. /\ view[b].gen \in {admission[b].gen, admission[b].gen - 1}
        /\ view[b].tick \in admission[b].ack .. admission[b].ack + 1 /\ view[b].tick <= host.tick
        /\ view[b].tick \in Nat /\ view[b].gen \in Nat
        /\ admission[b].ack \in Nat /\ admission[b].gen \in Nat
    BY <1>1, TypedParts DEF SidesMeet
  <2>2. CASE b = c
    BY <1>2, <1>3, <2>1, <2>2
  <2>3. CASE b # c
    BY <1>2, <2>1, <2>3
  <2> QED
    BY <2>2, <2>3
<1>10. ShownIsOneState'
  BY <1>1, <1>2 DEF ShownIsOneState
<1> QED
  BY <1>4, <1>6, <1>7, <1>8, <1>9, <1>10 DEF DedicatedInvariant

\* A response begins the generation that the host has admitted.
LEMMA BeginningKeeps ==
  ASSUME DedicatedInvariant, NEW c \in Clients, NEW d \in wire[<<"client", c>>],
         client[c].at = "offered", Begins(c, d), client' # [client EXCEPT ![c].at = "failed"],
         UNCHANGED <<host, admission>>,
         wire' = [x \in Endpoints |-> wire'[x]], \A x \in Endpoints : wire'[x] \subseteq wire[x]
  PROVE  DedicatedInvariant'
<1> DEFINE t == client[c].tick
           gen == GenAt(c, t)
           v == [view[c] EXCEPT !.gen = gen, !.seq = 0, !.connected = TRUE]
           w == [client[c] EXCEPT !.at = "ask"]
<1>1. /\ DedicatedTypes /\ WireIsOld /\ ClientKnows /\ HostKnows /\ SidesMeet /\ ShownIsOneState
  BY DEF DedicatedInvariant
<1>2. /\ d.body = Response(gen) /\ view[c].tick = t - 1 /\ gen = view[c].gen + 1
      /\ view' = [view EXCEPT ![c] = v] /\ client' = [client EXCEPT ![c] = w]
  <2>1. /\ d.body = Response(gen) /\ view[c].tick = t - 1 /\ gen = view[c].gen + 1
        /\ view' = [view EXCEPT ![c] = [@ EXCEPT !.gen = gen, !.seq = 0, !.connected = TRUE]]
        /\ client' = [client EXCEPT ![c].at = "ask"]
    BY Zenon DEF Begins, Response
  <2> QED
    BY <2>1, Zenon
<1>3. /\ view[c] \in Views /\ client[c] \in Waiting /\ t \in Nat \ {0}
      /\ view[c].gen \in 0 .. 2 /\ view[c].tick \in Nat
      /\ admission[c].gen \in 0 .. 2 /\ admission[c].ack \in Nat /\ host.tick \in Nat
  BY <1>1, TypedParts
<1>4. gen \in {1, 2}
  BY <1>3, GenerationsAre
<1>5. gen <= admission[c].gen
  <2>1. ClientBound(c, d)
    BY <1>1 DEF WireIsOld
  <2>2. \A i \in 1 .. host.tick, k \in 1 .. Chunks : d.body # State(c, i, k)
    <3>1. \A i \in 1 .. host.tick, k \in 1 .. Chunks : State(c, i, k).kind = "state"
      BY DEF State
    <3>2. d.body.kind = "response"
      BY <1>2 DEF Response
    <3> QED
      BY <3>1, <3>2
  <2>3. PICK g \in {1, 2} : d.body = Response(g) /\ g <= admission[c].gen
    BY <2>1, <2>2 DEF ClientBound
  <2>4. g = gen
    BY <1>2, <2>3 DEF Response
  <2> QED
    BY <2>3, <2>4
<1>6. /\ v \in Views /\ v.gen = gen /\ v.tick = view[c].tick /\ v.shown = view[c].shown
      /\ w \in Waiting /\ w.tick = t /\ w.at = "ask"
  <2>1. ASSUME NEW g \in 0 .. 2, g = gen
        PROVE  v \in Views /\ v.gen = g /\ v.tick = view[c].tick /\ v.shown = view[c].shown
    <3>1. v = [view[c] EXCEPT !.gen = g, !.seq = 0, !.connected = TRUE]
      BY <2>1
    <3> HIDE DEF v
    <3> QED
      BY <1>3, <3>1 DEF Views
  <2>2. w \in Waiting /\ w.tick = t /\ w.at = "ask"
    BY <1>3 DEF Waiting
  <2>3. gen \in 0 .. 2
    BY <1>4
  <2> HIDE DEF v, w, gen
  <2> QED
    BY <2>1, <2>2, <2>3
<1> HIDE DEF v, w
<1>7. /\ view[c].gen <= v.gen /\ v.gen <= admission[c].gen
      /\ view[c].tick <= v.tick /\ v.tick <= host.tick /\ v.tick <= admission[c].ack + 1
  BY <1>1, <1>2, <1>3, <1>4, <1>5, <1>6 DEF SidesMeet
<1>8. \A k \in 1 .. Chunks : v.shown[k] = v.tick
  BY <1>1, <1>6 DEF ShownIsOneState
<1>9. v.tick = w.tick - 1 /\ v.gen = GenAt(c, v.tick + 1)
  BY <1>2, <1>3, <1>6
<1> QED
  BY <1>2, <1>6, <1>7, <1>8, <1>9, ViewMoves

\* A staged chunk touches nothing that is shown; a commit shows it all.
LEMMA StagedMeans ==
  ASSUME NEW v \in Views, NEW s, s.seq \in Nat, s.tick \in Nat, s.connected \in BOOLEAN,
         s.chunk = v.chunk, v.chunk \in 1 .. Chunks,
         s.chunk = 1 \/ FrameOf(s) = v.pending,
         NEW staged,
         staged = Staged([v EXCEPT !.pending = IF s.chunk = 1 THEN FrameOf(s) ELSE @], s)
  PROVE  /\ staged \in Views /\ Reset(staged) \in Views /\ Committed(staged) \in Views
         /\ \A o \in {staged, Reset(staged)} :
              o.gen = v.gen /\ o.tick = v.tick /\ o.shown = v.shown /\ o.connected = v.connected
         /\ staged.pending = FrameOf(s)
         /\ Committed(staged).gen = v.gen /\ Committed(staged).tick = s.tick
         /\ Committed(staged).connected = s.connected /\ Committed(staged).seq = s.seq
         /\ Committed(staged).shown = staged.parts
<1>1. FrameOf(s) \in ShownFrame /\ [seq |-> 0, tick |-> 0, connected |-> FALSE] \in ShownFrame
  BY DEF FrameOf, ShownFrame
<1>2. PICK f \in ShownFrame : f = FrameOf(s)
  BY <1>1
<1>3. f.seq = s.seq /\ f.tick = s.tick /\ f.connected = s.connected
  BY <1>2 DEF FrameOf
<1>4. /\ v.gen \in 0 .. 2 /\ v.seq \in Nat /\ v.tick \in Nat /\ v.connected \in BOOLEAN
      /\ v.pending \in ShownFrame /\ v.shown \in Contents /\ v.chunk \in Nat \ {0} /\ v.parts \in Contents
  BY DEF Views
<1>5. PICK ps \in Contents : ps = [v.parts EXCEPT ![s.chunk] = s.tick]
  BY <1>4 DEF Contents
<1>0. PICK idle \in ShownFrame, one \in Nat \ {0} :
        one = 1 /\ idle = [seq |-> 0, tick |-> 0, connected |-> FALSE]
  BY <1>1
<1> DEFINE st == [gen |-> v.gen, seq |-> v.seq, tick |-> v.tick, connected |-> v.connected,
                  pending |-> f, shown |-> v.shown, chunk |-> v.chunk + 1, parts |-> ps]
           rs == [st EXCEPT !.chunk = one, !.pending = idle]
           cm == [st EXCEPT !.shown = ps, !.seq = f.seq, !.tick = f.tick, !.connected = f.connected]
<1>6. staged = st
  <2>1. (IF s.chunk = 1 THEN FrameOf(s) ELSE v.pending) = f
    BY <1>2
  <2>2. staged = Staged([v EXCEPT !.pending = f], s)
    BY <2>1
  <2>3. [v EXCEPT !.pending = f] = [gen |-> v.gen, seq |-> v.seq, tick |-> v.tick, connected |-> v.connected,
                  pending |-> f, shown |-> v.shown, chunk |-> v.chunk, parts |-> v.parts]
    BY DEF Views
  <2> QED
    BY <1>5, <2>2, <2>3, ZenonT(60) DEF Staged
<1>7. st \in Views /\ st.parts = ps /\ st.pending = f
  BY <1>4, <1>5 DEF Views
<1>8. rs = Reset(staged) /\ cm = [staged EXCEPT !.shown = staged.parts, !.seq = staged.pending.seq,
             !.tick = staged.pending.tick, !.connected = staged.pending.connected]
  BY <1>0, <1>6, <1>7 DEF Reset
<1>9. f.seq \in Nat /\ f.tick \in Nat /\ f.connected \in BOOLEAN
  BY <1>3
<1>10. /\ st.gen = v.gen /\ st.tick = v.tick /\ st.shown = v.shown /\ st.connected = v.connected
  OBVIOUS
<1> HIDE DEF st
<1>11. rs \in Views
  BY <1>0, <1>7 DEF Views
<1>12. rs.gen = v.gen /\ rs.tick = v.tick /\ rs.shown = v.shown /\ rs.connected = v.connected
  BY <1>7, <1>10 DEF Views
<1>13. /\ cm \in Views /\ cm.gen = v.gen /\ cm.tick = f.tick /\ cm.seq = f.seq
       /\ cm.connected = f.connected /\ cm.shown = ps
  BY <1>5, <1>7, <1>9, <1>10 DEF Views
<1>14. Committed(staged) = [cm EXCEPT !.chunk = one, !.pending = idle]
  <2>1. Committed(staged) = Reset(cm)
    BY <1>8, Zenon DEF Committed
  <2> QED
    BY <1>0, <2>1 DEF Reset
<1> HIDE DEF cm, rs
<1>15. /\ Committed(staged) \in Views /\ Committed(staged).gen = v.gen
       /\ Committed(staged).tick = f.tick /\ Committed(staged).seq = f.seq
       /\ Committed(staged).connected = f.connected /\ Committed(staged).shown = ps
  BY <1>0, <1>13, <1>14 DEF Views
<1> QED
  BY <1>2, <1>3, <1>6, <1>7, <1>8, <1>10, <1>11, <1>12, <1>15

\* A client takes a chunk of a state.
LEMMA ChunkKeeps ==
  ASSUME DedicatedInvariant, NEW c \in Clients, NEW d \in wire[<<"client", c>>],
         client[c].at = "frame", TakesChunk(c, d),
         d.body.kind = "state", Applies(view[c], d.body),
         UNCHANGED <<host, admission>>,
         wire' = [x \in Endpoints |-> wire'[x]], \A x \in Endpoints : wire'[x] \subseteq wire[x],
         d.n > taken[<<"client", c>>]
  PROVE  DedicatedInvariant'
<1> DEFINE v == view[c]
           s == d.body
           t == client[c].tick
           staged == Staged([v EXCEPT !.pending = IF s.chunk = 1 THEN FrameOf(s) ELSE @], s)
           last == staged.chunk > Chunks
           whole == \A k \in 1 .. Chunks : staged.parts[k] = staged.pending.tick
           now == IF ~last THEN staged ELSE IF whole THEN Committed(staged) ELSE Reset(staged)
           after == IF ~last THEN client[c]
                   ELSE IF ~whole \/ now.tick # t \/ now.seq # SeqAt(c, t)
                   THEN [client[c] EXCEPT !.at = "failed"]
                   ELSE IF t = Ticks THEN [client[c] EXCEPT !.at = "done"]
                   ELSE [at |-> IF LeavesAt(c, t) THEN "offer" ELSE "ask", tick |-> t + 1]
<1>1. /\ DedicatedTypes /\ WireIsOld /\ ClientKnows /\ HostKnows /\ SidesMeet /\ ShownIsOneState
  BY DEF DedicatedInvariant
<1>2. view' = [view EXCEPT ![c] = now] /\ client' = [client EXCEPT ![c] = after]
  BY Zenon DEF TakesChunk
<1>3. /\ v \in Views /\ client[c] \in Waiting /\ t \in Nat \ {0}
      /\ v.gen \in 0 .. 2 /\ v.tick \in Nat /\ v.tick = t - 1
      /\ admission[c].gen \in 0 .. 2 /\ admission[c].ack \in Nat /\ host.tick \in Nat
      /\ LeaveTick \in Nat \ {0}
  BY <1>1, TypedParts, DedicatedAssumption DEF ClientKnows
<1>4. PICK i \in 1 .. host.tick, k \in 1 .. Chunks : s = State(c, i, k) /\ i <= admission[c].ack + 1
  <2>1. ClientBound(c, d)
    BY <1>1 DEF WireIsOld
  <2>2. \A g \in {1, 2} : d.body # Response(g)
    <3>1. \A g \in {1, 2} : Response(g).kind = "response"
      BY DEF Response
    <3> QED
      BY <3>1
  <2> QED
    BY <2>1, <2>2, Zenon DEF ClientBound
<1>5. /\ s.tick = i /\ s.seq = SeqAt(c, i) /\ s.gen = GenAt(c, i) /\ s.chunk = k
      /\ s.connected = ~LeavesAt(c, i) /\ i \in Nat
  BY <1>3, <1>4 DEF State
<1>6. /\ s.gen = v.gen /\ s.tick >= v.tick /\ s.chunk = v.chunk
      /\ s.chunk = 1 \/ FrameOf(s) = v.pending
  BY DEF Applies
<1>7. s.connected \in BOOLEAN /\ s.seq \in Nat
  <2>1. s.connected \in BOOLEAN
    BY <1>5, Zenon DEF LeavesAt
  <2>2. s.seq \in Nat
    BY <1>3, <1>5 DEF SeqAt
  <2> QED
    BY <2>1, <2>2
<1>8. /\ staged \in Views /\ Reset(staged) \in Views /\ Committed(staged) \in Views
      /\ \A o \in {staged, Reset(staged)} :
           o.gen = v.gen /\ o.tick = v.tick /\ o.shown = v.shown /\ o.connected = v.connected
      /\ staged.pending = FrameOf(s)
      /\ Committed(staged).gen = v.gen /\ Committed(staged).tick = s.tick
      /\ Committed(staged).connected = s.connected /\ Committed(staged).seq = s.seq
      /\ Committed(staged).shown = staged.parts
  <2>1. s.tick \in Nat /\ v.chunk \in 1 .. Chunks
    BY <1>4, <1>5, <1>6
  <2>2. ASSUME NEW st, st = staged
        PROVE  /\ st \in Views /\ Reset(st) \in Views /\ Committed(st) \in Views
               /\ \A o \in {st, Reset(st)} :
                    o.gen = v.gen /\ o.tick = v.tick /\ o.shown = v.shown /\ o.connected = v.connected
               /\ st.pending = FrameOf(s)
               /\ Committed(st).gen = v.gen /\ Committed(st).tick = s.tick
               /\ Committed(st).connected = s.connected /\ Committed(st).seq = s.seq
               /\ Committed(st).shown = st.parts
    BY <1>3, <1>6, <1>7, <2>1, <2>2, StagedMeans
  <2> HIDE DEF staged
  <2> QED
    BY <2>2, Zenon
<1>9. staged.pending.tick = s.tick
  BY <1>8 DEF FrameOf
<1> HIDE DEF staged
<1>10. \/ /\ after \in {client[c], [client[c] EXCEPT !.at = "failed"]} /\ now \in {staged, Reset(staged)}
       \/ /\ now = Committed(staged) /\ whole /\ now.tick # t
          /\ after = [client[c] EXCEPT !.at = "failed"]
       \/ /\ now = Committed(staged) /\ whole /\ now.tick = t
          /\ after \in {[client[c] EXCEPT !.at = "failed"], [client[c] EXCEPT !.at = "done"],
                       [at |-> IF LeavesAt(c, t) THEN "offer" ELSE "ask", tick |-> t + 1]}
  BY Zenon
<1>11. /\ [client[c] EXCEPT !.at = "failed"] \in Waiting /\ [client[c] EXCEPT !.at = "done"] \in Waiting
       /\ [client[c] EXCEPT !.at = "failed"].at = "failed" /\ [client[c] EXCEPT !.at = "done"].at = "done"
  BY <1>3 DEF Waiting
<1> DEFINE on == [at |-> IF LeavesAt(c, t) THEN "offer" ELSE "ask", tick |-> t + 1]
<1>12. /\ on \in Waiting /\ on.tick = t + 1 /\ on.at \in {"offer", "ask"}
       /\ on.at = "offer" => LeavesAt(c, t)
  BY <1>3 DEF Waiting
<1> HIDE DEF on
<1>13. after \in Waiting /\ now \in Views
  BY <1>3, <1>8, <1>10, <1>11, <1>12 DEF on
<1>14. ASSUME NEW x, NEW y, x = now, y = after
       PROVE  /\ v.gen <= x.gen /\ x.gen <= admission[c].gen
              /\ v.tick <= x.tick /\ x.tick <= host.tick /\ x.tick <= admission[c].ack + 1
              /\ \A j \in 1 .. Chunks : x.shown[j] = x.tick
              /\ y.at \in {"offer", "offered"} => x.gen = GenAt(c, y.tick) - 1
              /\ y.at \in {"offer", "offered", "ask", "frame"} => x.tick = y.tick - 1
              /\ x.connected => x.gen = GenAt(c, x.tick + 1)
  <2>0. /\ v.gen <= v.gen /\ v.gen <= admission[c].gen
        /\ v.tick <= v.tick /\ v.tick <= host.tick /\ v.tick <= admission[c].ack + 1
        /\ \A j \in 1 .. Chunks : v.shown[j] = v.tick
        /\ v.connected => v.gen = GenAt(c, v.tick + 1)
    BY <1>1, <1>3 DEF SidesMeet, ShownIsOneState, ClientKnows
  <2>1. CASE after \in {client[c], [client[c] EXCEPT !.at = "failed"]} /\ now \in {staged, Reset(staged)}
    <3>1. x.gen = v.gen /\ x.tick = v.tick /\ x.shown = v.shown /\ x.connected = v.connected
      BY <1>8, <1>14, <2>1, Zenon
    <3>2. y.at = "failed" \/ (y.at = "frame" /\ y.tick = t)
      BY <1>11, <1>14, <2>1
    <3> QED
      BY <1>3, <2>0, <3>1, <3>2
  <2>2. ASSUME now = Committed(staged), whole
        PROVE  /\ v.gen <= x.gen /\ x.gen <= admission[c].gen
               /\ v.tick <= x.tick /\ x.tick <= host.tick /\ x.tick <= admission[c].ack + 1
               /\ \A j \in 1 .. Chunks : x.shown[j] = x.tick
               /\ x.connected => x.gen = GenAt(c, x.tick + 1)
               /\ x.gen = v.gen /\ x.tick = i /\ x.gen = GenAt(c, i)
    <3>1. /\ x.gen = v.gen /\ x.tick = s.tick /\ x.connected = s.connected /\ x.shown = staged.parts
      BY <1>8, <1>14, <2>2, Zenon
    <3>2. \A j \in 1 .. Chunks : x.shown[j] = x.tick
      BY <1>9, <2>2, <3>1
    <3>3. x.connected => x.gen = GenAt(c, x.tick + 1)
      <4>1. x.connected => ~LeavesAt(c, i)
        BY <1>5, <3>1, Zenon
      <4>2. ~LeavesAt(c, i) => GenAt(c, i + 1) = GenAt(c, i)
        BY <1>3, <1>5 DEF LeavesAt, GenAt
      <4>3. x.gen = GenAt(c, i) /\ x.tick = i
        BY <1>5, <1>6, <3>1
      <4> QED
        BY <4>1, <4>2, <4>3
    <3> QED
      BY <1>3, <1>4, <1>5, <1>6, <2>0, <3>1, <3>2, <3>3
  <2>3. CASE now = Committed(staged) /\ whole /\ after = [client[c] EXCEPT !.at = "failed"]
    BY <1>11, <1>14, <2>2, <2>3
  <2>4. CASE now = Committed(staged) /\ whole /\ after = [client[c] EXCEPT !.at = "done"]
    BY <1>11, <1>14, <2>2, <2>4
  <2>5. CASE now = Committed(staged) /\ whole /\ now.tick = t /\ after = on
    <3>1. x.tick = t /\ i = t
      BY <1>14, <2>2, <2>5
    <3>2. y.tick = t + 1 /\ y.at \in {"offer", "ask"} /\ (y.at = "offer" => LeavesAt(c, t))
      BY <1>12, <1>14, <2>5
    <3>3. LeavesAt(c, t) => GenAt(c, t) = GenAt(c, t + 1) - 1
      BY <1>3 DEF LeavesAt, GenAt
    <3>4. y.at \in {"offer", "offered"} => x.gen = GenAt(c, y.tick) - 1
      BY <2>2, <2>5, <3>1, <3>2, <3>3
    <3>5. x.tick = y.tick - 1
      BY <1>3, <3>1, <3>2
    <3> QED
      BY <2>2, <2>5, <3>4, <3>5
  <2> QED
    BY <1>10, <2>1, <2>3, <2>4, <2>5 DEF on
<1> HIDE DEF now, after
<1> QED
  BY <1>2, <1>13, <1>14, ViewMoves

\* A client reads a chunk of a frame.
LEMMA ClientReceivesKeeps ==
  ASSUME DedicatedInvariant, NEW c \in Clients, ClientReceives(c) PROVE DedicatedInvariant'
<1> DEFINE e == <<"client", c>>
<1>1. PICK d \in wire[e] : \E repeated \in BOOLEAN :
        /\ Receives(e, d, repeated)
        /\ IF client[c].at = "offered" THEN Begins(c, d) ELSE TakesChunk(c, d)
        /\ wire' = [wire EXCEPT ![e] = Remaining(e, d, repeated)]
        /\ UNCHANGED <<host, admission, sent>>
  BY Zenon DEF ClientReceives
<1>2. PICK repeated \in BOOLEAN :
        /\ Receives(e, d, repeated)
        /\ IF client[c].at = "offered" THEN Begins(c, d) ELSE TakesChunk(c, d)
        /\ wire' = [wire EXCEPT ![e] = Remaining(e, d, repeated)]
        /\ UNCHANGED <<host, admission, sent>>
  BY <1>1, Zenon
<1>3. UNCHANGED <<host, admission>> /\ client[c].at \in {"offered", "frame"}
  BY <1>2 DEF Receives, Waits
<1>4. wire' = [x \in Endpoints |-> wire'[x]] /\ \A x \in Endpoints : wire'[x] \subseteq wire[x]
  <2>1. DedicatedTypes /\ e \in Endpoints
    BY EndpointsAre DEF DedicatedInvariant
  <2> QED
    BY <1>2, <2>1, ClientTakingLeaves, Zenon
<1>5. CASE client' = [client EXCEPT ![c].at = "failed"] /\ UNCHANGED view
  BY <1>3, <1>4, <1>5, LosingKeeps
<1>6. CASE client[c].at = "offered"
  <2>1. Begins(c, d)
    BY <1>2, <1>6
  <2>2. client' = [client EXCEPT ![c].at = "failed"] => UNCHANGED view
    <3>1. client \in [Clients -> Waiting]
      BY DEF DedicatedInvariant, DedicatedTypes
    <3>2. [client EXCEPT ![c].at = "failed"] # [client EXCEPT ![c].at = "ask"]
      <4>1. [client EXCEPT ![c].at = "failed"][c].at = "failed"
        BY <3>1 DEF Waiting
      <4>2. [client EXCEPT ![c].at = "ask"][c].at = "ask"
        BY <3>1 DEF Waiting
      <4> QED
        BY <4>1, <4>2
    <3>3. client' = [client EXCEPT ![c].at = "ask"] \/ UNCHANGED view
      BY <2>1, Zenon DEF Begins
    <3> QED
      BY <3>2, <3>3
  <2> QED
    BY <1>3, <1>4, <1>5, <1>6, <2>1, <2>2, BeginningKeeps
<1>7. CASE client[c].at = "frame"
  <2>1. TakesChunk(c, d)
    BY <1>2, <1>7
  <2>2. CASE d.n > taken[e] /\ d.body.kind = "state" /\ Applies(view[c], d.body)
    BY <1>3, <1>4, <1>7, <2>1, <2>2, ChunkKeeps
  <2>3. CASE ~(d.n > taken[e] /\ d.body.kind = "state" /\ Applies(view[c], d.body))
    <3>1. client' = [client EXCEPT ![c].at = "failed"] /\ UNCHANGED view
      BY <2>1, <2>3, Zenon DEF TakesChunk
    <3> QED
      BY <1>5, <3>1
  <2> QED
    BY <2>2, <2>3
<1> QED
  BY <1>3, <1>6, <1>7

\* Every step of the host, of the clients and of the network keeps the invariant.
LEMMA DedicatedStep == DedicatedInvariant /\ [DedicatedNext]_dedicatedVars => DedicatedInvariant'
<1> SUFFICES ASSUME DedicatedInvariant, [DedicatedNext]_dedicatedVars PROVE DedicatedInvariant'
  OBVIOUS
<1>1. CASE LoseDatagram \/ Kill \/ (\E e \in Endpoints : TimesOut(e)) \/ UNCHANGED dedicatedVars
  BY <1>1, NetworkKeeps
<1>2. CASE HostPublishes
  BY <1>2, PublishingKeeps
<1>3. ASSUME NEW c \in Clients, HostReceives(c) PROVE DedicatedInvariant'
  BY <1>3, HostReceivesKeeps
<1>4. ASSUME NEW c \in Clients, Offers(c) \/ Asks(c) PROVE DedicatedInvariant'
  BY <1>4, SayingKeeps
<1>5. ASSUME NEW c \in Clients, ClientReceives(c) PROVE DedicatedInvariant'
  BY <1>5, ClientReceivesKeeps
<1>6. ASSUME NEW c \in Clients, TimesOut(<<"host", c>>) \/ TimesOut(<<"client", c>>)
      PROVE  \E e \in Endpoints : TimesOut(e)
  BY <1>6, EndpointsAre, Zenon
<1> QED
  BY <1>1, <1>2, <1>3, <1>4, <1>5, <1>6, Zenon DEF DedicatedNext, Host, Client

\* The inductive invariant is at least what the runs check.
LEMMA SidesMeetMeans == DedicatedInvariant => DedicatedInv
<1> SUFFICES ASSUME DedicatedInvariant PROVE DedicatedInv
  OBVIOUS
<1>1. SidesAgree
  <2> SUFFICES ASSUME NEW c \in Clients
               PROVE  LET a == admission[c]
                          v == view[c]
                      IN /\ a.connected /\ v.connected => a.gen = v.gen
                         /\ v.gen \in {a.gen, a.gen - 1} \cap Nat
                         /\ v.tick \in a.ack .. a.ack + 1 /\ v.tick <= host.tick
    BY DEF SidesAgree
  <2>1. /\ view[c].gen \in {admission[c].gen, admission[c].gen - 1}
        /\ view[c].tick \in admission[c].ack .. admission[c].ack + 1 /\ view[c].tick <= host.tick
        /\ view[c].gen \in 0 .. 2 /\ admission[c].gen \in 0 .. 2 /\ view[c].tick \in Nat
        /\ admission[c].gen = 2 => c = 2 /\ view[c].tick >= LeaveTick
        /\ view[c].connected => view[c].gen = GenAt(c, view[c].tick + 1)
    BY TypedParts DEF DedicatedInvariant, SidesMeet, HostKnows, ClientKnows
  <2>2. view[c].connected => view[c].gen = admission[c].gen
    <3>1. view[c].tick + 1 \in Nat
      BY <2>1
    <3>2. GenAt(c, view[c].tick + 1) \in {1, 2}
      BY <3>1, GenerationsAre
    <3>3. admission[c].gen = 2 => GenAt(c, view[c].tick + 1) = 2
      BY <2>1, DedicatedAssumption DEF GenAt
    <3> QED
      BY <2>1, <3>2, <3>3
  <2> QED
    BY <2>1, <2>2
<1> QED
  BY <1>1 DEF DedicatedInv, DedicatedInvariant

\* Whatever the network loses, repeats or lets overtake, and whichever process
\* dies when, a client shows the host's state of one tick and no mixture, and
\* host and client never part by more than the frame on its way: the admissions
\* and views of dedicated_server_transport.kf between the processes of the probe.
THEOREM HostAndClientsAgree == DedicatedSpec => []DedicatedInv
<1>1. DedicatedSpec => []DedicatedInvariant
  BY DedicatedStart, DedicatedStep, PTL DEF DedicatedSpec
<1> QED
  BY <1>1, SidesMeetMeans, PTL
==============================================================================
