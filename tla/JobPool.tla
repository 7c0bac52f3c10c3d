------------------------------ MODULE JobPool ------------------------------
(***************************************************************************)
(* The native worker pool of native/kookie_jobs.c.  An owner thread opens  *)
(* the pool, submits jobs, polls for completions, releases slots and       *)
(* closes the pool; the worker threads take slots from one FIFO queue      *)
(* guarded by one mutex and one condition variable.                        *)
(*                                                                         *)
(* A critical section of the C code is one action.  The flags of a job     *)
(* (used, running, completed, reported) only occur in the combinations     *)
(* named by SlotState, so a slot carries the name of its combination.      *)
(***************************************************************************)
EXTENDS Naturals, Sequences

CONSTANTS Workers,   \* identities the pool may give to its threads
          Slots,     \* the job table: 1 .. KOOKIE_JOBS_MAX_JOBS
          Jobs,      \* the copied scalar descriptors (generation, ordinal)
          NoJob      \* a slot cleared by memset

ASSUME PoolAssumption == /\ Workers # {}
                         /\ Slots \in SUBSET Nat /\ Slots # {} /\ 0 \notin Slots
                         /\ NoJob \notin Jobs

SlotState == {"free", "queued", "running", "completed", "reported"}

VARIABLES
  owner,     \* what the owner thread is doing: see OwnerState
  stopping,  \* jobs_state.stopping
  wpc,       \* program counter of every worker thread
  holds,     \* the slot a running worker copied out of the queue
  parked,    \* the workers blocked in kookie_jobs_wait
  queue,     \* the ring of queued slots, oldest first
  slot,      \* the combination of flags of every job slot
  job        \* the descriptor stored in every slot

vars == <<owner, stopping, wpc, holds, parked, queue, slot, job>>

\* "closed": !opened.  "opening": inside the thread creation loop.
\* "open": the API is usable.  "joining"/"aborting": waiting in
\* kookie_jobs_thread_join on behalf of close or of a failed open.
OwnerState == {"closed", "opening", "open", "joining", "aborting"}
WorkerState == {"none", "ready", "running", "exited"}

TypeOK ==
  /\ owner \in OwnerState
  /\ stopping \in BOOLEAN
  /\ wpc \in [Workers -> WorkerState]
  /\ holds \in [Workers -> Slots \cup {0}]
  /\ parked \in SUBSET Workers
  /\ queue \in Seq(Slots)
  /\ slot \in [Slots -> SlotState]
  /\ job \in [Slots -> Jobs \cup {NoJob}]

Init ==
  /\ owner = "closed"
  /\ stopping = FALSE
  /\ wpc = [w \in Workers |-> "none"]
  /\ holds = [w \in Workers |-> 0]
  /\ parked = {}
  /\ queue = <<>>
  /\ slot = [s \in Slots |-> "free"]
  /\ job = [s \in Slots |-> NoJob]

Live == {w \in Workers : wpc[w] \in {"ready", "running"}}

\* Mutant: a missing broadcast.
WakeNone == UNCHANGED parked

\* kookie_jobs_signal_all: a broadcast leaves nobody blocked.
WakeAll == parked' = {}

-----------------------------------------------------------------------------
(* The owner thread. *)

OpenBegin ==
  /\ owner = "closed"
  /\ owner' = "opening"
  /\ UNCHANGED <<stopping, wpc, holds, parked, queue, slot, job>>

\* The threads run as soon as they exist, while the owner still creates more.
CreateThread(w) ==
  /\ owner = "opening"
  /\ wpc[w] = "none"
  /\ wpc' = [wpc EXCEPT ![w] = "ready"]
  /\ UNCHANGED <<owner, stopping, holds, parked, queue, slot, job>>

CreateFails ==
  /\ owner = "opening"
  /\ owner' = "aborting"
  /\ stopping' = TRUE
  /\ WakeAll
  /\ UNCHANGED <<wpc, holds, queue, slot, job>>

OpenDone ==
  /\ owner = "opening"
  /\ Live # {}
  /\ owner' = "open"
  /\ UNCHANGED <<stopping, wpc, holds, parked, queue, slot, job>>

FirstFree == {s \in Slots : /\ slot[s] = "free"
                            /\ \A t \in Slots : slot[t] = "free" => s <= t}

\* Mutant: the ring receives the token handed to the caller, not the slot.
EnqueueToken(s) == queue' = Append(queue, s + 1)

Enqueue(s) == queue' = Append(queue, s)

Submit(j) ==
  /\ owner = "open"
  /\ \E s \in FirstFree :
       /\ slot' = [slot EXCEPT ![s] = "queued"]
       /\ job' = [job EXCEPT ![s] = j]
       /\ Enqueue(s)
  /\ WakeAll
  /\ UNCHANGED <<owner, stopping, wpc, holds>>

FirstCompleted == {s \in Slots :
                     /\ slot[s] = "completed"
                     /\ \A t \in Slots : slot[t] = "completed" => s <= t}

\* kookie_jobs_poll hands every completion out exactly once.
Poll(s) ==
  /\ owner = "open"
  /\ s \in FirstCompleted
  /\ slot' = [slot EXCEPT ![s] = "reported"]
  /\ UNCHANGED <<owner, stopping, wpc, holds, parked, queue, job>>

\* Mutant: a slot whose job still runs may be released.
ReleasableEarly(s) == slot[s] \in {"running", "reported"}

\* The three flags kookie_jobs_release requires.
Releasable(s) == slot[s] = "reported"

Release(s) ==
  /\ owner = "open"
  /\ Releasable(s)
  /\ slot' = [slot EXCEPT ![s] = "free"]
  /\ job' = [job EXCEPT ![s] = NoJob]
  /\ UNCHANGED <<owner, stopping, wpc, holds, parked, queue>>

CloseBegin ==
  /\ owner = "open"
  /\ owner' = "joining"
  /\ stopping' = TRUE
  /\ WakeAll
  /\ UNCHANGED <<wpc, holds, queue, slot, job>>

\* Mutant: the state is cleared once the queue is empty, without the join.
JoinedEarly == queue = <<>>

\* kookie_jobs_thread_join returned for every thread that was created.
Joined == Live = {}

\* close, or the failed open, clears jobs_state with memset and returns.
CloseDone ==
  /\ owner \in {"joining", "aborting"}
  /\ Joined
  /\ owner' = "closed"
  /\ stopping' = FALSE
  /\ wpc' = [w \in Workers |-> "none"]
  /\ queue' = <<>>
  /\ slot' = [s \in Slots |-> "free"]
  /\ job' = [s \in Slots |-> NoJob]
  /\ UNCHANGED <<holds, parked>>

-----------------------------------------------------------------------------
(* The worker threads: kookie_jobs_worker. *)

Awake(w) == wpc[w] = "ready" /\ w \notin parked

Park(w) ==
  /\ Awake(w)
  /\ queue = <<>> /\ ~stopping
  /\ parked' = parked \cup {w}
  /\ UNCHANGED <<owner, stopping, wpc, holds, queue, slot, job>>

Take(w) ==
  /\ Awake(w)
  /\ queue # <<>>
  /\ LET s == Head(queue) IN
       /\ holds' = [holds EXCEPT ![w] = s]
       /\ slot' = [slot EXCEPT ![s] = "running"]
  /\ queue' = Tail(queue)
  /\ wpc' = [wpc EXCEPT ![w] = "running"]
  /\ UNCHANGED <<owner, stopping, parked, job>>

Finish(w) ==
  /\ wpc[w] = "running"
  /\ slot' = [slot EXCEPT ![holds[w]] = "completed"]
  /\ holds' = [holds EXCEPT ![w] = 0]
  /\ wpc' = [wpc EXCEPT ![w] = "ready"]
  /\ WakeAll
  /\ UNCHANGED <<owner, stopping, queue, job>>

\* Mutant: a stopping pool abandons what is still queued.
ExitGuardEarly == stopping

\* A worker leaves only when the queue is drained as well.
ExitGuard == queue = <<>> /\ stopping

Exit(w) ==
  /\ Awake(w)
  /\ ExitGuard
  /\ wpc' = [wpc EXCEPT ![w] = "exited"]
  /\ UNCHANGED <<owner, stopping, holds, parked, queue, slot, job>>

-----------------------------------------------------------------------------
Worker(w) == Park(w) \/ Take(w) \/ Finish(w) \/ Exit(w)

Owner == \/ OpenBegin \/ CreateFails \/ OpenDone \/ CloseBegin \/ CloseDone
         \/ \E w \in Workers : CreateThread(w)
         \/ \E j \in Jobs : Submit(j)
         \/ \E s \in Slots : Poll(s) \/ Release(s)

Next == Owner \/ \E w \in Workers : Worker(w)

\* The operating system runs every runnable thread; nothing obliges the
\* owner to call any function of the pool, but a call it made returns.
Fairness == /\ \A w \in Workers : WF_vars(Worker(w))
            /\ WF_vars(CloseDone)

Spec == Init /\ [][Next]_vars /\ Fairness

-----------------------------------------------------------------------------
(* Properties. *)

\* A queued slot is in the ring exactly once, a running slot is held by
\* exactly one worker, and the ring and the workers hold nothing else: no job
\* is executed twice and none is dropped between submit and completion, even
\* though slots are reused while older completions are still unreported.
SlotOwnership ==
  /\ \A s \in Slots :
       slot[s] = "queued" <=> \E i \in 1 .. Len(queue) : queue[i] = s
  /\ \A i, k \in 1 .. Len(queue) : queue[i] = queue[k] => i = k
  /\ \A s \in Slots :
       slot[s] = "running" <=> \E w \in Workers : wpc[w] = "running" /\ holds[w] = s
  /\ \A v, w \in Workers :
       wpc[v] = "running" /\ wpc[w] = "running" /\ holds[v] = holds[w] => v = w

\* No lost wake-up: nobody sleeps in kookie_jobs_wait while the ring holds a
\* job or the pool is stopping, whatever the order of the critical sections.
NoLostWakeup == parked # {} => queue = <<>> /\ ~stopping

\* When close clears the table, every job it had accepted was executed:
\* kookie_jobs_close drains the ring before the threads may exit.
CloseDrains ==
  [][owner = "joining" /\ owner' = "closed"
       => \A s \in Slots : slot[s] \notin {"queued", "running"}]_vars

\* Why close drains: workers exit only from a stopping pool with an empty
\* ring, the ring is filled only while the pool is open, and an opened pool
\* has threads to join.
DrainInv ==
  /\ stopping <=> owner \in {"joining", "aborting"}
  /\ (\E w \in Workers : wpc[w] = "exited") => stopping /\ queue = <<>>
  /\ owner \in {"open", "joining"} => \E w \in Workers : wpc[w] # "none"
  /\ owner \in {"closed", "opening", "aborting"} => queue = <<>>

\* Every job that was accepted is executed, also when the owner closes the
\* pool right after submitting it.
EveryJobExecuted == \A s \in Slots : slot[s] = "queued" ~> slot[s] = "completed"

\* close, and an open that fails half way, return: the joins terminate.
CloseReturns == owner \in {"joining", "aborting"} ~> owner = "closed"

\* No accepted job is lost, whenever the owner closes the pool, and closing ends.
JobsFinish == CloseDrains /\ EveryJobExecuted /\ CloseReturns
=============================================================================
