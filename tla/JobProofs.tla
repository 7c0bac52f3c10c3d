------------------------------ MODULE JobProofs ------------------------------
(* The native pool and the owner's job graph on top of it, proved for every *)
(* number of workers, slots, generations and descriptors: no wakeup is lost *)
(* and no slot has two owners, a waiting descriptor is always in the pool,  *)
(* and what is committed implements the strict ordinal fold.                *)
EXTENDS SafeJobs, SequenceTheorems, WellFoundedInduction, TLAPS

-----------------------------------------------------------------------------
(* The pool. *)

\* The closed pool is well-typed.
LEMMA TypeInit == Init => TypeOK
<1> SUFFICES ASSUME Init PROVE TypeOK
  OBVIOUS
<1>1. owner \in OwnerState /\ stopping \in BOOLEAN
  BY DEF Init, OwnerState
<1>2. wpc \in [Workers -> WorkerState] /\ holds \in [Workers -> Slots \cup {0}]
  BY DEF Init, WorkerState
<1>3. parked \in SUBSET Workers /\ queue \in Seq(Slots)
  BY DEF Init
<1>4. slot \in [Slots -> SlotState] /\ job \in [Slots -> Jobs \cup {NoJob}]
  BY DEF Init, SlotState
<1> QED
  BY <1>1, <1>2, <1>3, <1>4 DEF TypeOK

\* Every variable keeps its type under every step of the pool.
LEMMA TypeStep == TypeOK /\ [Next]_vars => TypeOK'
<1> SUFFICES ASSUME TypeOK, [Next]_vars PROVE TypeOK'
  OBVIOUS
<1> USE PoolAssumption DEF TypeOK, OwnerState, WorkerState, SlotState
<1>1. CASE OpenBegin \/ CreateFails \/ OpenDone \/ CloseBegin
  BY <1>1 DEF OpenBegin, CreateFails, OpenDone, CloseBegin, WakeAll
<1>2. CASE CloseDone
  <2>1. owner' \in OwnerState /\ stopping' \in BOOLEAN
    BY <1>2 DEF CloseDone
  <2>2. wpc' \in [Workers -> WorkerState]
    BY <1>2 DEF CloseDone
  <2>3. queue' \in Seq(Slots)
    BY <1>2 DEF CloseDone
  <2>4. slot' \in [Slots -> SlotState] /\ job' \in [Slots -> Jobs \cup {NoJob}]
    BY <1>2 DEF CloseDone
  <2> QED
    BY <1>2, <2>1, <2>2, <2>3, <2>4 DEF CloseDone
<1>3. ASSUME NEW w \in Workers, CreateThread(w) PROVE TypeOK'
  BY <1>3 DEF CreateThread
<1>4. ASSUME NEW j \in Jobs, Submit(j) PROVE TypeOK'
  <2>1. PICK s \in FirstFree : slot' = [slot EXCEPT ![s] = "queued"]
                               /\ job' = [job EXCEPT ![s] = j]
                               /\ Enqueue(s)
    BY <1>4 DEF Submit
  <2>2. s \in Slots
    BY DEF FirstFree
  <2>3. queue' \in Seq(Slots)
    BY <2>1, <2>2 DEF Enqueue
  <2> QED
    BY <1>4, <2>1, <2>2, <2>3 DEF Submit, WakeAll
<1>5. ASSUME NEW s \in Slots, Poll(s) \/ Release(s) PROVE TypeOK'
  BY <1>5 DEF Poll, Release
<1>6. ASSUME NEW w \in Workers, Park(w) \/ Exit(w) PROVE TypeOK'
  BY <1>6 DEF Park, Exit
<1>7. ASSUME NEW w \in Workers, Take(w) PROVE TypeOK'
  <2>1. Head(queue) \in Slots /\ Tail(queue) \in Seq(Slots)
    BY <1>7 DEF Take
  <2> QED
    BY <1>7, <2>1 DEF Take
<1>8. ASSUME NEW w \in Workers, Finish(w) PROVE TypeOK'
  BY <1>8 DEF Finish, WakeAll
<1>9. CASE UNCHANGED vars
  BY <1>9 DEF vars
<1> QED
  BY <1>1, <1>2, <1>3, <1>4, <1>5, <1>6, <1>7, <1>8, <1>9
     DEF Next, Owner, Worker

\* The functions of kookie_jobs.c keep their state well-typed.
THEOREM TypeCorrect == Spec => []TypeOK
BY TypeInit, TypeStep, PTL DEF Spec

\* kookie_jobs_wait never sleeps through work or through a stop: the test of
\* the ring and the wait are one critical section, and every change that a
\* sleeper waits for broadcasts.
THEOREM NoWakeupIsLost == Spec => []NoLostWakeup
<1>1. Init => NoLostWakeup
  BY DEF Init, NoLostWakeup
<1>2. NoLostWakeup /\ [Next]_vars => NoLostWakeup'
  <2> SUFFICES ASSUME NoLostWakeup, [Next]_vars PROVE NoLostWakeup'
    OBVIOUS
  <2> USE DEF NoLostWakeup
  <2>1. CASE OpenBegin \/ CreateFails \/ OpenDone \/ CloseBegin \/ CloseDone
    BY <2>1 DEF OpenBegin, CreateFails, OpenDone, CloseBegin, CloseDone, WakeAll
  <2>2. ASSUME NEW w \in Workers, CreateThread(w) PROVE NoLostWakeup'
    BY <2>2 DEF CreateThread
  <2>3. ASSUME NEW j \in Jobs, Submit(j) PROVE NoLostWakeup'
    BY <2>3 DEF Submit, WakeAll
  <2>4. ASSUME NEW s \in Slots, Poll(s) \/ Release(s) PROVE NoLostWakeup'
    BY <2>4 DEF Poll, Release
  <2>5. ASSUME NEW w \in Workers, Worker(w) PROVE NoLostWakeup'
    <3>1. CASE Park(w)
      BY <3>1 DEF Park
    <3>2. CASE Take(w)
      BY <3>2 DEF Take
    <3>3. CASE Finish(w)
      BY <3>3 DEF Finish, WakeAll
    <3>4. CASE Exit(w)
      BY <3>4 DEF Exit
    <3> QED
      BY <2>5, <3>1, <3>2, <3>3, <3>4 DEF Worker
  <2>6. CASE UNCHANGED vars
    BY <2>6 DEF vars
  <2> QED
    BY <2>1, <2>2, <2>3, <2>4, <2>5, <2>6 DEF Next, Owner
<1> QED
  BY <1>1, <1>2, PTL DEF Spec

\* Nothing is owned twice while the pool is closed.
LEMMA OwnershipInit == Init => SlotOwnership
<1> SUFFICES ASSUME Init PROVE SlotOwnership
  OBVIOUS
<1>1. queue = <<>> /\ \A s \in Slots : slot[s] = "free"
  BY DEF Init
<1>2. \A w \in Workers : wpc[w] = "none"
  BY DEF Init
<1> QED
  BY <1>1, <1>2 DEF SlotOwnership

\* Every critical section moves a slot between the table, the ring and a
\* worker as a whole.
LEMMA OwnershipStep == TypeOK /\ SlotOwnership /\ [Next]_vars => SlotOwnership'
<1> SUFFICES ASSUME TypeOK, SlotOwnership, [Next]_vars PROVE SlotOwnership'
  OBVIOUS
<1> USE PoolAssumption
<1>1. CASE OpenBegin \/ CreateFails \/ OpenDone \/ CloseBegin
  BY <1>1 DEF OpenBegin, CreateFails, OpenDone, CloseBegin, SlotOwnership
<1>2. CASE CloseDone
  <2>1. queue' = <<>> /\ \A s \in Slots : slot'[s] = "free"
    BY <1>2 DEF CloseDone
  <2>2. \A w \in Workers : wpc'[w] = "none"
    BY <1>2 DEF CloseDone
  <2>3. \A i \in 1 .. Len(queue') : FALSE
    BY <2>1
  <2> QED
    BY <2>1, <2>2, <2>3 DEF SlotOwnership
<1>3. ASSUME NEW w \in Workers, CreateThread(w) PROVE SlotOwnership'
  BY <1>3 DEF CreateThread, SlotOwnership, TypeOK
<1>4. ASSUME NEW j \in Jobs, Submit(j) PROVE SlotOwnership'
  <2>1. PICK s \in FirstFree : slot' = [slot EXCEPT ![s] = "queued"]
                               /\ job' = [job EXCEPT ![s] = j]
                               /\ Enqueue(s)
    BY <1>4 DEF Submit
  <2>2. s \in Slots /\ slot[s] = "free"
    BY DEF FirstFree
  <2>3. /\ queue' \in Seq(Slots) /\ Len(queue') = Len(queue) + 1
        /\ queue'[Len(queue) + 1] = s
        /\ \A i \in 1 .. Len(queue) : queue'[i] = queue[i]
    BY <2>1, <2>2 DEF Enqueue, TypeOK
  <2>4. \A i \in 1 .. Len(queue) : queue[i] # s
    BY <2>2 DEF SlotOwnership
  <2>5. Len(queue) \in Nat
    BY DEF TypeOK
  <2>6. \A t \in Slots : slot'[t] = IF t = s THEN "queued" ELSE slot[t]
    BY <2>1, <2>2 DEF TypeOK
  <2>7. \A t \in Slots : slot'[t] = "queued" <=> \E i \in 1 .. Len(queue') : queue'[i] = t
    <3> TAKE t \in Slots
    <3>1. CASE t = s
      BY <3>1, <2>3, <2>5, <2>6
    <3>2. CASE t # s
      BY <3>2, <2>3, <2>5, <2>6 DEF SlotOwnership
    <3> QED
      BY <3>1, <3>2
  <2>8. \A i, k \in 1 .. Len(queue') : queue'[i] = queue'[k] => i = k
    BY <2>3, <2>4, <2>5 DEF SlotOwnership
  <2>9. UNCHANGED <<wpc, holds>>
    BY <1>4 DEF Submit
  <2>10. \A t \in Slots : slot'[t] = "running" <=> slot[t] = "running"
    BY <2>2, <2>6
  <2> QED
    BY <2>7, <2>8, <2>9, <2>10 DEF SlotOwnership
<1>5. ASSUME NEW s \in Slots, Poll(s) \/ Release(s) PROVE SlotOwnership'
  <2>1. /\ \A t \in Slots : slot'[t] = "queued" <=> slot[t] = "queued"
        /\ \A t \in Slots : slot'[t] = "running" <=> slot[t] = "running"
    BY <1>5 DEF Poll, Release, Releasable, FirstCompleted, TypeOK
  <2>2. UNCHANGED <<queue, wpc, holds>>
    BY <1>5 DEF Poll, Release
  <2> QED
    BY <2>1, <2>2 DEF SlotOwnership
<1>6. ASSUME NEW w \in Workers, Park(w) \/ Exit(w) PROVE SlotOwnership'
  BY <1>6 DEF Park, Exit, Awake, SlotOwnership, TypeOK
<1>7. ASSUME NEW w \in Workers, Take(w) PROVE SlotOwnership'
  <2> DEFINE s == Head(queue)
  <2>1. /\ s \in Slots /\ s = queue[1] /\ Len(queue) \in Nat \ {0}
        /\ Len(queue') = Len(queue) - 1
        /\ \A i \in 1 .. Len(queue) - 1 : queue'[i] = queue[i + 1]
    BY <1>7 DEF Take, TypeOK
  <2>2. slot[s] = "queued"
    <3> HIDE DEF s
    <3>1. 1 \in 1 .. Len(queue) /\ queue[1] = s
      BY <2>1
    <3> QED
      BY <2>1, <3>1 DEF SlotOwnership
  <2>3. /\ \A t \in Slots : slot'[t] = IF t = s THEN "running" ELSE slot[t]
        /\ \A v \in Workers : wpc'[v] = IF v = w THEN "running" ELSE wpc[v]
        /\ \A v \in Workers : holds'[v] = IF v = w THEN s ELSE holds[v]
    BY <1>7, <2>1 DEF Take, TypeOK
  <2> HIDE DEF s
  <2>4. wpc[w] # "running"
    BY <1>7 DEF Take, Awake
  <2>5. \A i \in 1 .. Len(queue) : queue[i] = s => i = 1
    BY <2>1 DEF SlotOwnership
  <2>6. \A t \in Slots : slot'[t] = "queued" <=> \E i \in 1 .. Len(queue') : queue'[i] = t
    <3> TAKE t \in Slots
    <3>1. CASE t = s
      BY <3>1, <2>1, <2>3, <2>5, SMTT(60)
    <3>2. CASE t # s
      <4>1. slot'[t] = "queued" <=> \E i \in 1 .. Len(queue) : queue[i] = t
        BY <3>2, <2>3 DEF SlotOwnership
      <4>2. \A i \in 1 .. Len(queue) : queue[i] = t => i # 1 /\ queue'[i - 1] = t
        BY <3>2, <2>1
      <4> QED
        BY <4>1, <4>2, <2>1
    <3> QED
      BY <3>1, <3>2
  <2>7. \A i, k \in 1 .. Len(queue') : queue'[i] = queue'[k] => i = k
    <3> TAKE i, k \in 1 .. Len(queue')
    <3>1. i + 1 \in 1 .. Len(queue) /\ k + 1 \in 1 .. Len(queue)
      BY <2>1
    <3>2. queue[i + 1] = queue[k + 1] => i + 1 = k + 1
      BY <3>1 DEF SlotOwnership
    <3> QED
      BY <2>1, <3>2
  <2>8. \A v \in Workers : wpc[v] = "running" => holds[v] # s
    BY <2>1, <2>2 DEF SlotOwnership
  <2>9. \A t \in Slots :
          slot'[t] = "running" <=> \E v \in Workers : wpc'[v] = "running" /\ holds'[v] = t
    <3> TAKE t \in Slots
    <3>1. CASE t = s
      BY <3>1, <2>3
    <3>2. CASE t # s
      BY <3>2, <2>3, <2>4 DEF SlotOwnership
    <3> QED
      BY <3>1, <3>2
  <2>10. \A u, v \in Workers :
           wpc'[u] = "running" /\ wpc'[v] = "running" /\ holds'[u] = holds'[v] => u = v
    BY <2>3, <2>8 DEF SlotOwnership
  <2> QED
    BY <2>6, <2>7, <2>9, <2>10 DEF SlotOwnership
<1>8. ASSUME NEW w \in Workers, Finish(w) PROVE SlotOwnership'
  <2>1. /\ wpc[w] = "running"
        /\ \A t \in Slots : slot'[t] = IF t = holds[w] THEN "completed" ELSE slot[t]
        /\ \A v \in Workers : wpc'[v] = IF v = w THEN "ready" ELSE wpc[v]
        /\ \A v \in Workers : v # w => holds'[v] = holds[v]
        /\ queue' = queue
    BY <1>8 DEF Finish, TypeOK
  <2>2. holds[w] \in Slots => slot[holds[w]] = "running"
    BY <2>1 DEF SlotOwnership
  <2>3. \A t \in Slots : slot'[t] = "queued" <=> slot[t] = "queued"
    BY <2>1, <2>2
  <2>4. \A v \in Workers : wpc[v] = "running" /\ holds[v] = holds[w] => v = w
    BY <2>1 DEF SlotOwnership
  <2>5. \A t \in Slots :
          slot'[t] = "running" <=> \E v \in Workers : wpc'[v] = "running" /\ holds'[v] = t
    <3> TAKE t \in Slots
    <3>1. CASE t = holds[w]
      BY <3>1, <2>1, <2>4
    <3>2. CASE t # holds[w]
      BY <3>2, <2>1 DEF SlotOwnership
    <3> QED
      BY <3>1, <3>2
  <2>6. \A u, v \in Workers :
          wpc'[u] = "running" /\ wpc'[v] = "running" /\ holds'[u] = holds'[v] => u = v
    BY <2>1 DEF SlotOwnership
  <2> QED
    BY <2>1, <2>3, <2>5, <2>6 DEF SlotOwnership
<1>9. CASE UNCHANGED vars
  BY <1>9 DEF vars, SlotOwnership
<1> QED
  BY <1>1, <1>2, <1>3, <1>4, <1>5, <1>6, <1>7, <1>8, <1>9
     DEF Next, Owner, Worker

\* No job is executed twice and none is dropped between kookie_jobs_submit and
\* its completion, whatever the number of workers and slots.
THEOREM JobsAreOwnedOnce == Spec => []SlotOwnership
BY OwnershipInit, OwnershipStep, TypeCorrect, PTL DEF Spec

\* The threads of a pool exit only after the ring is drained.
LEMMA DrainStep == TypeOK /\ DrainInv /\ [Next]_vars => DrainInv'
<1> SUFFICES ASSUME TypeOK, DrainInv, [Next]_vars PROVE DrainInv'
  OBVIOUS
<1>1. CASE OpenBegin \/ CreateFails \/ CloseBegin
  BY <1>1 DEF OpenBegin, CreateFails, CloseBegin, DrainInv
<1>2. CASE OpenDone
  <2>1. \E w \in Workers : wpc'[w] # "none"
    BY <1>2 DEF OpenDone, Live
  <2> QED
    BY <1>2, <2>1 DEF OpenDone, DrainInv
<1>3. CASE CloseDone
  BY <1>3 DEF CloseDone, DrainInv
<1>4. ASSUME NEW w \in Workers, CreateThread(w) PROVE DrainInv'
  BY <1>4 DEF CreateThread, DrainInv, TypeOK
<1>5. ASSUME NEW j \in Jobs, Submit(j) PROVE DrainInv'
  BY <1>5 DEF Submit, DrainInv
<1>6. ASSUME NEW s \in Slots, Poll(s) \/ Release(s) PROVE DrainInv'
  BY <1>6 DEF Poll, Release, DrainInv
<1>7. ASSUME NEW w \in Workers, Park(w) PROVE DrainInv'
  BY <1>7 DEF Park, DrainInv
<1>8. ASSUME NEW w \in Workers, Take(w) \/ Finish(w) \/ Exit(w) PROVE DrainInv'
  <2>1. \A v \in Workers : wpc'[v] = IF v = w THEN wpc'[w] ELSE wpc[v]
    BY <1>8 DEF Take, Finish, Exit, TypeOK
  <2>2. wpc'[w] # "none" /\ (wpc'[w] = "exited" => stopping /\ queue = <<>>)
    BY <1>8 DEF Take, Finish, Exit, ExitGuard, TypeOK
  <2>3. queue = <<>> => queue' = <<>>
    BY <1>8 DEF Take, Finish, Exit
  <2>4. UNCHANGED <<owner, stopping>>
    BY <1>8 DEF Take, Finish, Exit
  <2> QED
    BY <2>1, <2>2, <2>3, <2>4 DEF DrainInv
<1>9. CASE UNCHANGED vars
  BY <1>9 DEF vars, DrainInv
<1> QED
  BY <1>1, <1>2, <1>3, <1>4, <1>5, <1>6, <1>7, <1>8, <1>9
     DEF Next, Owner, Worker

\* What close relies on holds from the start.
LEMMA Drains == Spec => []DrainInv
<1>1. Init => DrainInv
  BY DEF Init, DrainInv
<1> QED
  BY <1>1, DrainStep, TypeCorrect, PTL DEF Spec

\* kookie_jobs_close clears the table only when every accepted job was
\* executed: the threads it joins have left behind an empty ring, and none of
\* them holds a slot any more.
THEOREM CloseDrainsTheRing == Spec => CloseDrains
<1>1. SlotOwnership /\ DrainInv /\ TypeOK /\ [Next]_vars
        => (owner = "joining" /\ owner' = "closed"
              => \A s \in Slots : slot[s] \notin {"queued", "running"})
  <2> SUFFICES ASSUME SlotOwnership, DrainInv, TypeOK, [Next]_vars,
                      owner = "joining", owner' = "closed", NEW s \in Slots
               PROVE slot[s] \notin {"queued", "running"}
    OBVIOUS
  <2>1. CloseDone
    BY DEF Next, Owner, Worker, vars, OpenBegin, CreateFails, OpenDone, CloseBegin,
           CreateThread, Submit, Poll, Release, Park, Take, Finish, Exit
  <2>2. Live = {}
    BY <2>1 DEF CloseDone, Joined
  <2>3. \A w \in Workers : wpc[w] \in {"none", "exited"}
    BY <2>2 DEF Live, TypeOK, WorkerState
  <2>4. queue = <<>>
    BY <2>3 DEF DrainInv
  <2>5. \A i \in 1 .. Len(queue) : FALSE
    BY <2>4
  <2> QED
    BY <2>3, <2>5 DEF SlotOwnership
<1> QED
  BY <1>1, JobsAreOwnedOnce, Drains, TypeCorrect, PTL DEF Spec, CloseDrains

-----------------------------------------------------------------------------
(* The graph. *)

\* Every set of numbers that is not empty has a least one.
LEMMA LeastNumber ==
  ASSUME NEW S \in SUBSET Nat, S # {}
  PROVE  \E n \in S : \A m \in S : n <= m
<1> DEFINE R == {p \in Nat \X Nat : p[1] < p[2]}
<1>1. IsWellFoundedOn(R, Nat)
  BY NatLessThanWellFounded DEF OpToRel
<1>2. PICK n \in S : \A m \in S : ~ (<<m, n>> \in R)
  <2> HIDE DEF R
  <2> QED
    BY <1>1, WFMin
<1>3. \A m \in S : ~ (m < n)
  BY <1>2
<1> QED
  BY <1>3

\* commitAvailable stops at the first descriptor that still waits, and there
\* always is such a place to stop.
LEMMA AvailableStops ==
  ASSUME NEW st \in Seq(1 .. 3)
  PROVE  /\ Available(st) \in 0 .. Len(st)
         /\ \A i \in 1 .. Available(st) : st[i] # 1
         /\ Available(st) < Len(st) => st[Available(st) + 1] = 1
<1> DEFINE Stop == {k \in 0 .. Len(st) : k < Len(st) => st[k + 1] = 1}
<1>1. Len(st) \in Stop /\ Stop \in SUBSET Nat
  OBVIOUS
<1>2. PICK n \in Stop : \A m \in Stop : n <= m
  <2> HIDE DEF Stop
  <2> QED
    BY <1>1, LeastNumber
<1>3. \A i \in 1 .. n : st[i] # 1
  <2> SUFFICES ASSUME NEW i \in 1 .. n, st[i] = 1 PROVE FALSE
    OBVIOUS
  <2>1. i - 1 \in Stop /\ i - 1 < n
    OBVIOUS
  <2> QED
    BY <1>2, <2>1
<1>4. \E k \in 0 .. Len(st) : /\ \A i \in 1 .. k : st[i] # 1
                              /\ k < Len(st) => st[k + 1] = 1
  BY <1>3
<1> QED
  BY <1>4, Zenon DEF Available

-----------------------------------------------------------------------------
\* Exactly the free slots hold no descriptor, and a pool that is not open is left by
\* no waiting one.
Pooled ==
  /\ WaitingIsPooled
  /\ \A s \in Slots : slot[s] = "free" <=> job[s] = NoJob
  /\ owner # "open" => \A i \in 1 .. Len(state) : state[i] # 1

\* The committed descriptors are the first ones, the fold is their operands
\* and whatever was accepted brought back the operands it was submitted with.
Folded ==
  /\ Len(fold) <= Len(args)
  /\ \A i \in 1 .. Len(state) : state[i] = 3 <=> i <= Len(fold)
  /\ \A i \in 1 .. Len(state) : state[i] # 1 => results[i] = args[i]
  /\ \A i \in 1 .. Len(fold) : fold[i] = args[i]

\* The inductive invariant of the owner and its pool.
GraphInv == GraphTypeOK /\ SlotOwnership /\ Pooled /\ Folded

\* A step of the owner's loop is a step of the pool, or leaves it alone.
LEMMA GraphStepsThePool == GraphTypeOK /\ [GraphNext]_allVars => [Next]_vars
<1> SUFFICES ASSUME GraphTypeOK, [GraphNext]_allVars PROVE [Next]_vars
  OBVIOUS
<1>1. CASE PoolOnly
  BY <1>1 DEF PoolOnly, Close, Next, Owner
<1>2. ASSUME NEW g \in Generations, Begin(g) PROVE [Next]_vars
  BY <1>2 DEF Begin
<1>3. ASSUME NEW a \in Args, AddJob(a) PROVE [Next]_vars
  <2>1. [gen |-> generation, ord |-> Len(args), arg |-> a] \in Jobs
    BY <1>3, GraphAssumption DEF AddJob, HasRoom, GraphTypeOK
  <2> QED
    BY <1>3, <2>1 DEF AddJob, Next, Owner
<1>4. ASSUME NEW s \in Slots, Admit(s) PROVE [Next]_vars
  BY <1>4 DEF Admit, Next, Owner
<1> QED
  BY <1>1, <1>2, <1>3, <1>4 DEF GraphNext, allVars

\* What accept and commitAvailable leave behind, given the states and results
\* they commit.
LEMMA CommitKeepsFold ==
  ASSUME GraphTypeOK, Folded, NEW st \in Seq(1 .. 3), Len(st) = Len(args),
         NEW res \in Seq(Args \cup {NoArg}), Len(res) = Len(args),
         \A i \in 1 .. Len(st) : st[i] = 3 <=> i <= Len(fold),
         \A i \in 1 .. Len(st) : st[i] # 1 => res[i] = args[i],
         results' = res, Commit(st, res), UNCHANGED <<active, generation, args>>,
         TypeOK'
  PROVE  /\ GraphTypeOK' /\ Folded'
         /\ Len(state') = Len(state)
         /\ \A i \in 1 .. Len(state) : state'[i] = 1 <=> st[i] = 1
         /\ Len(fold') = Available(st) /\ Len(fold) <= Len(fold')
<1> DEFINE n == Available(st)
<1>1. /\ n \in 0 .. Len(args)
      /\ \A i \in 1 .. n : st[i] # 1
      /\ n < Len(args) => st[n + 1] = 1
  BY AvailableStops
<1>2. /\ state' = [i \in 1 .. Len(st) |-> IF i <= n THEN 3 ELSE st[i]]
      /\ fold' = fold \o SubSeq(res, Len(fold) + 1, n)
  BY DEF Commit
<1> HIDE DEF n
<1>3. Len(fold) \in Nat /\ Len(args) \in Nat /\ Len(fold) <= n
  <2>1. Len(fold) \in Nat /\ Len(args) \in Nat /\ Len(fold) <= Len(args)
    BY DEF GraphTypeOK, Folded
  <2>2. n < Len(args) => ~(n + 1 <= Len(fold))
    BY <1>1, <2>1
  <2> QED
    BY <1>1, <2>1, <2>2
<1>4. state' \in Seq(1 .. 3) /\ Len(state') = Len(args)
      /\ \A i \in 1 .. Len(args) : state'[i] = IF i <= n THEN 3 ELSE st[i]
  BY <1>2, <1>3
<1>5. SubSeq(res, Len(fold) + 1, n) \in Seq(Args)
  <2>1. \A i \in Len(fold) + 1 .. n : i \in 1 .. Len(args) /\ res[i] = args[i] /\ args[i] \in Args
    BY <1>1, <1>3 DEF GraphTypeOK
  <2> QED
    BY <1>1, <1>3, <2>1
<1>6. /\ fold' \in Seq(Args) /\ Len(fold') = n
      /\ \A i \in 1 .. n : fold'[i] = IF i <= Len(fold) THEN fold[i] ELSE res[i]
  <2> DEFINE tail == SubSeq(res, Len(fold) + 1, n)
  <2>1. tail \in Seq(Args) /\ Len(tail) = n - Len(fold)
        /\ \A i \in 1 .. Len(tail) : tail[i] = res[Len(fold) + i]
    BY <1>1, <1>3, <1>5
  <2>2. fold \in Seq(Args) /\ fold' = fold \o tail
    BY <1>2 DEF GraphTypeOK
  <2> HIDE DEF tail
  <2>3. fold' \in Seq(Args) /\ Len(fold') = n
    BY <1>1, <1>3, <2>1, <2>2
  <2>4. ASSUME NEW i \in 1 .. n
        PROVE  fold'[i] = IF i <= Len(fold) THEN fold[i] ELSE res[i]
    <3>1. CASE i <= Len(fold)
      BY <1>1, <1>3, <2>1, <2>2, <3>1
    <3>2. CASE i > Len(fold)
      <4>1. i - Len(fold) \in 1 .. Len(tail)
        BY <1>1, <1>3, <2>1, <3>2
      <4> QED
        BY <1>1, <1>3, <2>1, <2>2, <3>2, <4>1
    <3> QED
      BY <1>1, <1>3, <3>1, <3>2
  <2> QED
    BY <2>3, <2>4
<1>7. \A i \in 1 .. n : fold'[i] = args[i]
  <2> TAKE i \in 1 .. n
  <2>1. i \in 1 .. Len(args) /\ res[i] = args[i]
    BY <1>1, <1>3
  <2>2. i <= Len(fold) => fold[i] = args[i]
    BY <1>3 DEF Folded
  <2> QED
    BY <1>6, <2>1, <2>2
<1>8. \A i \in 1 .. Len(args) : state'[i] = 3 <=> i <= n
  BY <1>1, <1>3, <1>4
<1>9. \A i \in 1 .. Len(args) : state'[i] # 1 => results'[i] = args'[i]
  BY <1>1, <1>3, <1>4
<1>10. Folded'
  BY <1>1, <1>4, <1>6, <1>7, <1>8, <1>9 DEF Folded
<1>11. GraphTypeOK'
  BY <1>4, <1>6 DEF GraphTypeOK
<1>12. \A i \in 1 .. Len(args) : state'[i] = 1 <=> st[i] = 1
  BY <1>1, <1>3, <1>4
<1> QED
  BY <1>3, <1>4, <1>6, <1>10, <1>11, <1>12 DEF n, GraphTypeOK

\* Starting a batch forgets every descriptor, whatever the pool still holds.
LEMMA BeginKeeps ==
  ASSUME GraphInv, NEW g \in Generations, Begin(g)
  PROVE  GraphTypeOK' /\ Pooled' /\ Folded'
<1>1. /\ args' = <<>> /\ results' = <<>> /\ state' = <<>> /\ fold' = <<>>
      /\ active' \in BOOLEAN /\ generation' \in Generations /\ UNCHANGED vars
  BY DEF Begin
<1>2. Len(args') = 0 /\ Len(results') = 0 /\ Len(state') = 0 /\ Len(fold') = 0
  BY <1>1
<1>3. TypeOK' /\ Capacity \in Nat
  BY <1>1, GraphAssumption DEF GraphInv, GraphTypeOK, TypeOK, vars
<1>4. GraphTypeOK'
  BY <1>1, <1>2, <1>3 DEF GraphTypeOK
<1>5. Pooled'
  BY <1>1, <1>2 DEF GraphInv, Pooled, WaitingIsPooled, vars
<1>6. Folded'
  BY <1>2 DEF Folded
<1> QED
  BY <1>4, <1>5, <1>6

\* A new descriptor goes into the pool together with its job.
LEMMA AddKeeps ==
  ASSUME GraphInv, NEW a \in Args, AddJob(a), TypeOK'
  PROVE  GraphTypeOK' /\ Pooled' /\ Folded'
<1> DEFINE j == [gen |-> generation, ord |-> Len(args), arg |-> a]
           n == Len(args)
<1>1. /\ n \in Nat /\ n < Capacity /\ Capacity \in Nat
      /\ Len(state) = n /\ Len(results) = n /\ Len(fold) \in Nat /\ Len(fold) <= n
  BY GraphAssumption DEF GraphInv, GraphTypeOK, Folded, AddJob, HasRoom
<1>2. /\ args' \in Seq(Args) /\ Len(args') = n + 1 /\ args'[n + 1] = a
      /\ \A i \in 1 .. n : args'[i] = args[i]
  BY DEF GraphInv, GraphTypeOK, AddJob
<1>3. /\ results' \in Seq(Args \cup {NoArg}) /\ Len(results') = n + 1
      /\ \A i \in 1 .. n : results'[i] = results[i]
  BY <1>1 DEF GraphInv, GraphTypeOK, AddJob
<1>4. /\ state' \in Seq(1 .. 3) /\ Len(state') = n + 1 /\ state'[n + 1] = 1
      /\ \A i \in 1 .. n : state'[i] = state[i]
  BY <1>1 DEF GraphInv, GraphTypeOK, AddJob
<1>5. UNCHANGED <<active, generation, fold>>
  BY DEF AddJob
<1>6. owner = "open" /\ owner' = "open"
  BY DEF AddJob, Submit
<1>7. PICK s \in Slots : /\ slot[s] = "free" /\ slot' = [slot EXCEPT ![s] = "queued"]
                         /\ job' = [job EXCEPT ![s] = j]
  BY DEF AddJob, Submit, FirstFree
<1>8. /\ job'[s] = j
      /\ \A t \in Slots : t # s => job'[t] = job[t] /\ slot'[t] = slot[t]
      /\ slot'[s] = "queued"
  BY <1>7 DEF GraphInv, GraphTypeOK, TypeOK
<1>9. GraphTypeOK'
  BY <1>1, <1>2, <1>3, <1>4, <1>5 DEF GraphInv, GraphTypeOK
<1>10. Folded'
  <2>1. \A i \in 1 .. n + 1 : state'[i] = 3 <=> i <= Len(fold)
    BY <1>1, <1>4 DEF GraphInv, Folded
  <2>2. \A i \in 1 .. n + 1 : state'[i] # 1 => results'[i] = args'[i]
    <3> TAKE i \in 1 .. n + 1
    <3>1. i \in 1 .. n => (state[i] # 1 => results[i] = args[i])
      BY <1>1 DEF GraphInv, Folded
    <3> QED
      BY <1>1, <1>2, <1>3, <1>4, <3>1
  <2>3. \A i \in 1 .. Len(fold) : fold[i] = args'[i]
    BY <1>1, <1>2 DEF GraphInv, Folded
  <2> QED
    BY <1>1, <1>2, <1>4, <1>5, <2>1, <2>2, <2>3 DEF Folded
<1>11. j \in Jobs
  BY <1>1, GraphAssumption DEF GraphInv, GraphTypeOK
<1>12. WaitingIsPooled'
  <2> SUFFICES ASSUME NEW o \in 0 .. Len(state') - 1, state'[o + 1] = 1
               PROVE  \E t \in Slots : job'[t] = Descriptor(o)'
    BY DEF WaitingIsPooled
  <2>1. CASE o = n
    <3>1. Descriptor(o)' = j
      BY <1>2, <1>5, <2>1 DEF Descriptor
    <3> QED
      BY <1>8, <3>1
  <2>2. CASE o # n
    <3>1. o \in 0 .. Len(state) - 1 /\ o + 1 \in 1 .. n /\ state[o + 1] = 1
      BY <1>1, <1>4, <2>2
    <3>2. PICK t \in Slots : job[t] = Descriptor(o)
      BY <3>1 DEF GraphInv, Pooled, WaitingIsPooled
    <3>3. Descriptor(o)' = Descriptor(o)
      BY <1>2, <1>5, <3>1 DEF Descriptor
    <3>4. Descriptor(o) \in Jobs
      BY <1>1, <3>1, GraphAssumption DEF Descriptor, GraphInv, GraphTypeOK
    <3>5. t # s
      BY <1>7, <3>2, <3>4, PoolAssumption DEF GraphInv, Pooled
    <3> QED
      BY <1>8, <3>2, <3>3, <3>5
  <2> QED
    BY <2>1, <2>2
<1>13. \A t \in Slots : slot'[t] = "free" <=> job'[t] = NoJob
  BY <1>8, <1>11, PoolAssumption DEF GraphInv, Pooled
<1> QED
  BY <1>6, <1>9, <1>10, <1>12, <1>13 DEF Pooled

\* A completion is admitted by the descriptor that waits for it, or by none.
LEMMA AdmitKeeps ==
  ASSUME GraphInv, NEW s \in Slots, Admit(s), TypeOK'
  PROVE  /\ GraphTypeOK' /\ Pooled' /\ Folded'
         /\ Len(fold) <= Len(fold')
<1> DEFINE j == job[s]
           st == IF Admits(j) THEN [state EXCEPT ![j.ord + 1] = 2] ELSE state
           res == IF Admits(j) THEN [results EXCEPT ![j.ord + 1] = j.arg] ELSE results
<1>1. /\ results' = res /\ Commit(st, res) /\ UNCHANGED <<active, generation, args>>
      /\ Release(s)
  <2>1. CASE Admits(j)
    BY <2>1 DEF Admit
  <2>2. CASE ~Admits(j)
    BY <2>2 DEF Admit
  <2> QED
    BY <2>1, <2>2
<1>2. /\ owner = "open" /\ owner' = "open" /\ slot[s] = "reported"
      /\ slot' = [slot EXCEPT ![s] = "free"] /\ job' = [job EXCEPT ![s] = NoJob]
  BY <1>1 DEF Release, Releasable
<1>3. /\ Len(args) \in Nat /\ Len(state) = Len(args) /\ Len(results) = Len(args)
      /\ state \in Seq(1 .. 3) /\ results \in Seq(Args \cup {NoArg}) /\ args \in Seq(Args)
      /\ Len(fold) \in Nat /\ Len(fold) <= Len(args)
  BY DEF GraphInv, GraphTypeOK, Folded
<1>4. Admits(j) => /\ j.ord \in 0 .. Len(args) - 1 /\ state[j.ord + 1] = 1
                   /\ j.arg = args[j.ord + 1] /\ j = Descriptor(j.ord)
  <2> SUFFICES ASSUME Admits(j)
               PROVE  /\ j.ord \in 0 .. Len(args) - 1 /\ state[j.ord + 1] = 1
                      /\ j.arg = args[j.ord + 1] /\ j = Descriptor(j.ord)
    OBVIOUS
  <2>1. j = Descriptor(j.ord) /\ j.ord < Len(args) /\ state[j.ord + 1] = 1
    BY DEF Admits
  <2>2. j.arg = args[j.ord + 1]
    BY <2>1 DEF Descriptor
  <2>3. j \in Jobs
    BY <1>2 DEF GraphInv, GraphTypeOK, TypeOK, Pooled
  <2>4. j.ord \in Nat
    BY <2>3, GraphAssumption
  <2> QED
    BY <1>3, <2>1, <2>2, <2>4
<1> HIDE DEF j
<1>5. st \in Seq(1 .. 3) /\ Len(st) = Len(args)
  <2>1. 2 \in 1 .. 3
    OBVIOUS
  <2> QED
    BY <1>3, <1>4, <2>1
<1>6. \A i \in 1 .. Len(args) : st[i] = IF Admits(j) /\ i = j.ord + 1 THEN 2 ELSE state[i]
  BY <1>3, <1>4
<1>7. res \in Seq(Args \cup {NoArg}) /\ Len(res) = Len(args)
  <2>1. Admits(j) => j.ord + 1 \in 1 .. Len(args) /\ j.arg \in Args
    BY <1>3, <1>4
  <2> QED
    BY <1>3, <2>1
<1>8. \A i \in 1 .. Len(args) : res[i] = IF Admits(j) /\ i = j.ord + 1 THEN j.arg ELSE results[i]
  BY <1>3, <1>4
<1> HIDE DEF st, res
<1>9. \A i \in 1 .. Len(st) : st[i] = 3 <=> i <= Len(fold)
  BY <1>3, <1>4, <1>5, <1>6 DEF GraphInv, Folded
<1>10. \A i \in 1 .. Len(st) : st[i] # 1 => res[i] = args[i]
  BY <1>3, <1>4, <1>5, <1>6, <1>8 DEF GraphInv, Folded
<1>11. /\ GraphTypeOK' /\ Folded'
       /\ Len(state') = Len(state)
       /\ \A i \in 1 .. Len(state) : state'[i] = 1 <=> st[i] = 1
       /\ Len(fold) <= Len(fold')
  BY <1>1, <1>5, <1>7, <1>9, <1>10, CommitKeepsFold DEF GraphInv
<1>12. WaitingIsPooled'
  <2> SUFFICES ASSUME NEW o \in 0 .. Len(state') - 1, state'[o + 1] = 1
               PROVE  \E t \in Slots : job'[t] = Descriptor(o)'
    BY DEF WaitingIsPooled
  <2>1. o + 1 \in 1 .. Len(state) /\ o \in 0 .. Len(state) - 1
    BY <1>3, <1>11
  <2>2. st[o + 1] = 1
    BY <1>11, <2>1
  <2>3. state[o + 1] = 1 /\ ~(Admits(j) /\ j.ord = o)
    BY <1>3, <1>4, <1>6, <2>1, <2>2
  <2>4. PICK t \in Slots : job[t] = Descriptor(o)
    BY <2>1, <2>3 DEF GraphInv, Pooled, WaitingIsPooled
  <2>5. Descriptor(o)' = Descriptor(o)
    BY <1>1 DEF Descriptor
  <2>6. t # s
    <3> SUFFICES ASSUME t = s PROVE FALSE
      OBVIOUS
    <3>1. j = Descriptor(o)
      BY <2>4 DEF j
    <3>2. j.ord = o
      BY <3>1 DEF Descriptor
    <3> QED
      BY <1>3, <2>1, <2>3, <3>1, <3>2 DEF Admits
  <2> QED
    BY <1>2, <2>4, <2>5, <2>6 DEF GraphInv, GraphTypeOK, TypeOK
<1>13. \A t \in Slots : slot'[t] = "free" <=> job'[t] = NoJob
  BY <1>2 DEF GraphInv, GraphTypeOK, TypeOK, Pooled
<1> QED
  BY <1>2, <1>11, <1>12, <1>13 DEF Pooled

\* The steps of the pool alone, the workers' among them, touch no descriptor.
LEMMA PoolKeeps ==
  ASSUME GraphInv, PoolOnly \/ UNCHANGED allVars, TypeOK'
  PROVE  GraphTypeOK' /\ Pooled' /\ Folded'
<1>1. UNCHANGED graph
  BY DEF PoolOnly, allVars
<1>2. GraphTypeOK' /\ Folded'
  BY <1>1 DEF GraphInv, GraphTypeOK, Folded, graph
<1> SUFFICES Pooled'
  BY <1>2
<1>3. ASSUME UNCHANGED job, \A s \in Slots : slot'[s] = "free" <=> slot[s] = "free",
             owner # "open" \/ owner' = "open" PROVE Pooled'
  <2>1. \A p : Descriptor(p)' = Descriptor(p)
    BY <1>1 DEF Descriptor, graph
  <2>2. UNCHANGED state
    BY <1>1 DEF graph
  <2> QED
    BY <1>3, <2>1, <2>2 DEF GraphInv, Pooled, WaitingIsPooled
<1>4. CASE OpenBegin \/ CreateFails \/ OpenDone
  <2>1. UNCHANGED <<job, slot>> /\ (owner # "open" \/ owner' = "open")
    BY <1>4, Zenon DEF OpenBegin, CreateFails, OpenDone
  <2> QED
    BY <1>3, <2>1
<1>5. CASE CloseDone
  <2>1. \A i \in 1 .. Len(state) : state[i] # 1
    BY <1>5 DEF CloseDone, GraphInv, Pooled
  <2>2. \A s \in Slots : slot'[s] = "free" /\ job'[s] = NoJob
    BY <1>5 DEF CloseDone
  <2>3. UNCHANGED state /\ Len(state) \in Nat
    BY <1>1 DEF graph, GraphInv, GraphTypeOK
  <2>4. WaitingIsPooled'
    BY <2>1, <2>3 DEF WaitingIsPooled
  <2> QED
    BY <2>1, <2>2, <2>3, <2>4 DEF Pooled
<1>6. CASE Close
  <2>1. \A i \in 1 .. Len(state) : state[i] # 1
    <3>1. Len(fold) = Len(state) /\ Len(state) \in Nat
      BY <1>6 DEF Close, AllCommitted, GraphInv, GraphTypeOK
    <3> QED
      BY <3>1 DEF GraphInv, Folded
  <2>2. UNCHANGED <<slot, job, state>> /\ Len(state) \in Nat
    BY <1>1, <1>6 DEF Close, CloseBegin, graph, GraphInv, GraphTypeOK
  <2>3. WaitingIsPooled'
    BY <2>1, <2>2 DEF WaitingIsPooled
  <2> QED
    BY <2>1, <2>2, <2>3 DEF GraphInv, Pooled
<1>7. ASSUME NEW w \in Workers, CreateThread(w) \/ Park(w) \/ Exit(w) PROVE Pooled'
  BY <1>3, <1>7 DEF CreateThread, Park, Exit
<1>8. ASSUME NEW w \in Workers, Take(w) PROVE Pooled'
  <2>1. Head(queue) = queue[1] /\ 1 \in 1 .. Len(queue) /\ queue[1] \in Slots
    BY <1>8 DEF Take, GraphInv, GraphTypeOK, TypeOK
  <2>2. slot[Head(queue)] = "queued"
    BY <2>1 DEF GraphInv, SlotOwnership
  <2>3. UNCHANGED <<job, owner>> /\ slot' = [slot EXCEPT ![Head(queue)] = "running"]
    BY <1>8 DEF Take
  <2>4. \A s \in Slots : slot'[s] = "free" <=> slot[s] = "free"
    BY <2>2, <2>3 DEF GraphInv, GraphTypeOK, TypeOK
  <2> QED
    BY <1>3, <2>3, <2>4
<1>9. ASSUME NEW w \in Workers, Finish(w) PROVE Pooled'
  <2>1. holds[w] \in Slots => slot[holds[w]] = "running"
    BY <1>9 DEF Finish, GraphInv, SlotOwnership
  <2>2. UNCHANGED <<job, owner>> /\ slot' = [slot EXCEPT ![holds[w]] = "completed"]
    BY <1>9 DEF Finish
  <2>3. \A s \in Slots : slot'[s] = "free" <=> slot[s] = "free"
    BY <2>1, <2>2 DEF GraphInv, GraphTypeOK, TypeOK
  <2> QED
    BY <1>3, <2>2, <2>3
<1>10. ASSUME NEW s \in Slots, Poll(s) PROVE Pooled'
  <2>1. UNCHANGED <<job, owner>> /\ slot' = [slot EXCEPT ![s] = "reported"]
        /\ slot[s] = "completed"
    BY <1>10 DEF Poll, FirstCompleted
  <2>2. \A t \in Slots : slot'[t] = "free" <=> slot[t] = "free"
    BY <2>1 DEF GraphInv, GraphTypeOK, TypeOK
  <2> QED
    BY <1>3, <2>1, <2>2
<1>11. CASE UNCHANGED allVars
  <2>1. UNCHANGED <<job, slot, owner>>
    BY <1>11 DEF allVars, vars
  <2> QED
    BY <1>3, <2>1
<1> QED
  BY <1>4, <1>5, <1>6, <1>7, <1>8, <1>9, <1>10, <1>11 DEF PoolOnly, Worker

\* Every step of the owner's loop and of its workers.
LEMMA GraphStep == GraphInv /\ [GraphNext]_allVars => GraphInv'
<1> SUFFICES ASSUME GraphInv, [GraphNext]_allVars PROVE GraphInv'
  OBVIOUS
<1>1. TypeOK' /\ SlotOwnership'
  BY GraphStepsThePool, TypeStep, OwnershipStep DEF GraphInv, GraphTypeOK
<1>2. GraphTypeOK' /\ Pooled' /\ Folded'
  BY <1>1, PoolKeeps, BeginKeeps, AddKeeps, AdmitKeeps DEF GraphNext
<1> QED
  BY <1>1, <1>2 DEF GraphInv

\* The graph starts empty, on a closed pool.
LEMMA GraphStart == GraphInit => GraphInv
<1> SUFFICES ASSUME GraphInit PROVE GraphInv
  OBVIOUS
<1>1. TypeOK /\ SlotOwnership
  BY TypeInit, OwnershipInit DEF GraphInit
<1>2. args = <<>> /\ results = <<>> /\ state = <<>> /\ fold = <<>>
  BY DEF GraphInit
<1>3. Len(args) = 0 /\ Len(results) = 0 /\ Len(state) = 0 /\ Len(fold) = 0
  BY <1>2
<1>4. GraphTypeOK
  <2>1. active \in BOOLEAN /\ generation \in Generations
    BY DEF GraphInit
  <2>2. args \in Seq(Args) /\ results \in Seq(Args \cup {NoArg}) /\ fold \in Seq(Args)
    BY <1>2
  <2>3. state \in Seq(1 .. 3) /\ Len(args) <= Capacity
    BY <1>2, <1>3, GraphAssumption
  <2> QED
    BY <1>1, <1>3, <2>1, <2>2, <2>3, Zenon DEF GraphTypeOK
<1>5. \A s \in Slots : slot[s] = "free" /\ job[s] = NoJob
  BY DEF GraphInit, Init
<1>6. Pooled
  BY <1>3, <1>5 DEF Pooled, WaitingIsPooled
<1>7. Folded
  BY <1>3 DEF Folded
<1> QED
  BY <1>1, <1>4, <1>6, <1>7 DEF GraphInv

\* A batch can always be finished: its waiting descriptors are in the pool,
\* however many abandoned jobs fill the table and whatever generation number
\* the owner begins again; ring, table and workers own every job once.
THEOREM WaitingJobsArePooled == GraphSpec => []JobsInv
<1>1. GraphInv => JobsInv
  BY DEF GraphInv, JobsInv, GraphTypeOK, Pooled
<1> QED
  BY <1>1, GraphStart, GraphStep, PTL DEF GraphSpec

-----------------------------------------------------------------------------
\* A completion that is admitted publishes the next operands of the batch, or
\* changes nothing the fold promises.
LEMMA AdmitPublishes ==
  ASSUME GraphInv, NEW s \in Slots, Admit(s), TypeOK'
  PROVE  Promise!Publish \/ UNCHANGED Promise!vars
<1>1. GraphTypeOK' /\ Folded' /\ Len(fold) <= Len(fold')
  BY AdmitKeeps
<1>2. args' = args
  BY DEF Admit
<1>3. /\ args \in Seq(Args) /\ fold' \in Seq(Args) /\ fold \in Seq(Args)
      /\ Len(fold') <= Len(args)
      /\ \A i \in 1 .. Len(fold') : fold'[i] = args[i]
      /\ \A i \in 1 .. Len(fold) : fold[i] = args[i]
  BY <1>1, <1>2 DEF GraphInv, GraphTypeOK, Folded
<1>4. CASE Len(fold') = Len(fold)
  <2>1. fold' = fold
    BY <1>3, <1>4, SeqEqual
  <2> QED
    BY <1>2, <2>1 DEF Promise!vars
<1>5. CASE Len(fold') # Len(fold)
  <2>1. Len(fold') \in Len(fold) + 1 .. Len(args)
    BY <1>1, <1>3, <1>5
  <2>2. fold' = SubSeq(args, 1, Len(fold'))
    BY <1>3, SeqEqual
  <2> QED
    BY <1>2, <2>1, <2>2 DEF Promise!Publish
<1> QED
  BY <1>4, <1>5

\* Every step of the job graph is a step of the strict ordinal fold, or leaves
\* batch and fold alone: nothing is folded out of order, twice, or from a batch
\* that was abandoned.
THEOREM GraphFoldsInOrder ==
  GraphSpec => Promise!Init /\ [][Promise!Next]_(Promise!vars)
<1>1. GraphInit => Promise!Init
  BY DEF GraphInit, Promise!Init
<1>2. GraphInv /\ [GraphNext]_allVars => [Promise!Next]_(Promise!vars)
  <2> SUFFICES ASSUME GraphInv, [GraphNext]_allVars
               PROVE  Promise!Next \/ UNCHANGED Promise!vars
    OBVIOUS
  <2>1. TypeOK'
    BY GraphStepsThePool, TypeStep DEF GraphInv, GraphTypeOK
  <2>2. CASE PoolOnly \/ UNCHANGED allVars
    BY <2>2 DEF PoolOnly, allVars, graph, Promise!vars
  <2>3. ASSUME NEW g \in Generations, Begin(g) PROVE Promise!Next
    BY <2>3 DEF Begin, Promise!Next, Promise!Begin
  <2>4. ASSUME NEW a \in Args, AddJob(a) PROVE Promise!Next
    BY <2>4 DEF AddJob, Promise!Next, Promise!Add
  <2>5. ASSUME NEW s \in Slots, Admit(s) PROVE Promise!Next \/ UNCHANGED Promise!vars
    BY <2>1, <2>5, AdmitPublishes DEF Promise!Next
  <2> QED
    BY <2>2, <2>3, <2>4, <2>5 DEF GraphNext
<1> QED
  BY <1>1, <1>2, GraphStart, GraphStep, PTL DEF GraphSpec
=============================================================================
