----------------------------- MODULE SafeJobs ------------------------------
(***************************************************************************)
(* The owner's job graph (src/core/job_graph.kf) on top of the worker pool *)
(* of JobPool, driven as probes/g6_jobs/main.kf drives it: add a           *)
(* descriptor and submit a copy of it, poll, admit the completion, release *)
(* its slot, commit what became available.  begin() abandons a batch while *)
(* workers may still hold its jobs, and may be called with a generation    *)
(* that was used before.                                                   *)
(*                                                                         *)
(* The checksum of a descriptor and the result of a job are functions of   *)
(* its generation, ordinal and operands; distinct descriptors of a run are *)
(* taken to have distinct checksums.                                       *)
(***************************************************************************)
EXTENDS JobPool

CONSTANTS Generations, \* the generations the owner may begin
          Args,        \* the operands (kind, left, right) of a job
          NoArg,       \* the result field of a descriptor that has none
          Capacity     \* capacityValue of the graph

ASSUME GraphAssumption ==
  /\ Capacity \in Nat \ {0}
  /\ NoArg \notin Args
  /\ Jobs = [gen : Generations, ord : 0 .. Capacity - 1, arg : Args]

VARIABLES
  active,      \* activeValue
  generation,  \* generationValue
  args,        \* the operands of the descriptors, in ordinal order
  results,     \* the operands of the results copied from completions
  state,       \* states: 1 submitted, 2 accepted, 3 committed
  fold         \* the operands of the results mixed into committedSumValue

graph == <<active, generation, args, results, state, fold>>
allVars == <<vars, graph>>

GraphTypeOK ==
  /\ TypeOK
  /\ active \in BOOLEAN
  /\ generation \in Generations
  /\ args \in Seq(Args) /\ Len(args) <= Capacity
  /\ results \in Seq(Args \cup {NoArg}) /\ Len(results) = Len(args)
  /\ state \in Seq(1 .. 3) /\ Len(state) = Len(args)
  /\ fold \in Seq(Args)

GraphInit ==
  /\ Init
  /\ active = FALSE
  /\ generation \in Generations
  /\ args = <<>> /\ results = <<>> /\ state = <<>> /\ fold = <<>>

\* The descriptor of the graph entry with this ordinal.
Descriptor(o) == [gen |-> generation, ord |-> o, arg |-> args[o + 1]]

AllCommitted == args # <<>> /\ Len(fold) = Len(args)

-----------------------------------------------------------------------------
Begin(g) ==
  /\ active' = TRUE
  /\ generation' = g
  /\ args' = <<>> /\ results' = <<>> /\ state' = <<>> /\ fold' = <<>>
  /\ UNCHANGED vars

\* Mutant: one descriptor more than the arrays hold.
HasRoomLate == Len(args) <= Capacity

HasRoom == Len(args) < Capacity

\* add, kookie_jobs_submit and attachNativeToken, as the probe calls them.
AddJob(a) ==
  /\ active /\ HasRoom
  /\ Submit([gen |-> generation, ord |-> Len(args), arg |-> a])
  /\ args' = Append(args, a)
  /\ results' = Append(results, NoArg)
  /\ state' = Append(state, 1)
  /\ UNCHANGED <<active, generation, fold>>

\* Mutant: a completion is matched by its ordinal alone.
AdmitsByOrdinal(j) == j.ord < Len(args) /\ state[j.ord + 1] = 1

\* Mutant: only the next ordinal to commit is accepted.
AdmitsInOrder(j) ==
  j.ord < Len(args) /\ j.ord = Len(fold) /\ j = Descriptor(j.ord)

\* accept: the copied scalars name a waiting descriptor of this generation.
Admits(j) ==
  /\ j.ord < Len(args)
  /\ state[j.ord + 1] = 1
  /\ j = Descriptor(j.ord)

\* Mutant: the loop of commitAvailable does not stop at a gap.
AvailableOverGaps(st) == Len(st)

\* The prefix of ordinals that were accepted: what commitAvailable reaches.
Available(st) ==
  CHOOSE n \in 0 .. Len(st) :
    /\ \A i \in 1 .. n : st[i] # 1
    /\ n < Len(st) => st[n + 1] = 1

Commit(st, res) ==
  LET n == Available(st)
  IN /\ state' = [i \in 1 .. Len(st) |-> IF i <= n THEN 3 ELSE st[i]]
     /\ fold' = fold \o SubSeq(res, Len(fold) + 1, n)

\* accept, release and commitAvailable for a slot that poll reported.
Admit(s) ==
  /\ Release(s)
  /\ LET j == job[s] IN
       IF Admits(j)
       THEN /\ results' = [results EXCEPT ![j.ord + 1] = j.arg]
            /\ Commit([state EXCEPT ![j.ord + 1] = 2], results')
       ELSE results' = results /\ Commit(state, results)
  /\ UNCHANGED <<active, generation, args>>

\* The probe closes the pool when every job of the batch is committed.
Close == AllCommitted /\ CloseBegin

PoolOnly == /\ \/ OpenBegin \/ CreateFails \/ OpenDone \/ CloseDone \/ Close
               \/ \E w \in Workers : CreateThread(w) \/ Worker(w)
               \/ \E s \in Slots : Poll(s)
            /\ UNCHANGED graph

GraphNext == \/ PoolOnly
             \/ \E g \in Generations : Begin(g)
             \/ \E a \in Args : AddJob(a)
             \/ \E s \in Slots : Admit(s)

\* The owner loop keeps polling and admitting.
GraphFairness ==
  /\ \A w \in Workers : WF_allVars(Worker(w) /\ UNCHANGED graph)
  /\ WF_allVars(CloseDone /\ UNCHANGED graph)
  /\ \A s \in Slots : WF_allVars(Poll(s) /\ UNCHANGED graph) /\ WF_allVars(Admit(s))

GraphSpec == GraphInit /\ [][GraphNext]_allVars /\ GraphFairness

-----------------------------------------------------------------------------
(* Properties. *)

\* Every descriptor that waits has its job in the pool: the batch can always
\* be finished, however many jobs of abandoned batches share the table.
WaitingIsPooled ==
  \A o \in 0 .. Len(state) - 1 :
    state[o + 1] = 1 => \E s \in Slots : job[s] = Descriptor(o)

\* Ring, table, workers and the owner's descriptors agree on where each job is.
JobsInv == TypeOK /\ SlotOwnership /\ GraphTypeOK /\ WaitingIsPooled

\* What is folded is the results of the current batch in ordinal order, each
\* once, and in the end all of them: a completion of an abandoned batch never
\* enters the fold and a gap holds back what was accepted after it.
Promise == INSTANCE OrderedFold WITH batch <- args
ImplementsOrderedFold == Promise!Spec
=============================================================================
