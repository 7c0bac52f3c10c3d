------------------------------- MODULE MCHost -------------------------------
(* What the native processes do with threads and files.  A behaviour is one *)
(* of a single part, chosen at the beginning, while the others stay as they *)
(* were: the job pool alone, with two workers, three slots and an owner     *)
(* that calls what it likes; the job graph over the pool, with batches of   *)
(* up to two and two slots, so that the jobs of an abandoned batch can fill *)
(* the table; the saves of the packaged client, with four revisions and     *)
(* three faults, enough for faults while the damage of an earlier one is    *)
(* still on disk; or those of the core library, with a revision skipped and *)
(* two faults.                                                              *)
EXTENDS SafeJobs, Saves

CONSTANTS w1, w2, a1, a2

MCWorkers == {w1, w2}
MCSlots == 1 .. 3
MCArgs == {a1, a2}
MCGenerations == 1 .. 2
MCCapacity == 2
MCJobs == [gen : MCGenerations, ord : 0 .. MCCapacity - 1, arg : MCArgs]

PoolJobs == [gen : {1}, ord : {0}, arg : MCArgs]
GraphSlots == 1 .. 2

MCInodes == 1 .. 5
LibraryInodes == 1 .. 3
SkippedRevision == 3

VARIABLE part

saves == <<hostVars, coordinator>>

MCInit ==
  /\ part \in {"pool", "graph", "gameplay", "library"}
  /\ GraphInit /\ HostInit /\ LibraryInit
  /\ part \in {"gameplay", "library"} => generation = 1

MCNext ==
  /\ part' = part
  /\ \/ /\ part = "pool" /\ Next /\ UNCHANGED <<graph, saves>>
        /\ \A s \in Slots : job'[s] \in PoolJobs \cup {NoJob}
     \/ /\ part = "graph" /\ GraphNext /\ UNCHANGED saves
        /\ \A s \in Slots \ GraphSlots : slot'[s] = "free"
     \/ part = "gameplay" /\ HostNext /\ UNCHANGED <<allVars, coordinator>>
     \/ /\ part = "library" /\ LibraryNext /\ UNCHANGED <<allVars, hostOnly>>
        /\ dir'.stage \in LibraryInodes \cup {NoInode} /\ faults' < MaxFaults
        /\ \A i \in Inodes : data'[i].rev # SkippedRevision

JobParts == part \in {"pool", "graph"}

\* The fairness of the parts.  Polling and admitting is an obligation of the graph's owner
\* loop alone.
MCFairness ==
  /\ \A w \in Workers : WF_allVars(JobParts /\ Worker(w) /\ UNCHANGED graph)
  /\ WF_allVars(JobParts /\ CloseDone /\ UNCHANGED graph)
  /\ \A s \in GraphSlots :
       /\ WF_allVars(part = "graph" /\ Poll(s) /\ UNCHANGED graph)
       /\ WF_allVars(part = "graph" /\ Admit(s))
  /\ WF_hostVars(part = "gameplay" /\ Recover) /\ WF_hostVars(part = "gameplay" /\ Restore)
  /\ WF_hostVars(part = "gameplay" /\ Leave) /\ SF_hostVars(part = "gameplay" /\ Bind)

MCSpec == MCInit /\ [][MCNext]_<<part, allVars, saves>> /\ MCFairness

=============================================================================
