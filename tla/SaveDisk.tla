------------------------------ MODULE SaveDisk -----------------------------
(***************************************************************************)
(* The files of one save and kookie_durable_publish, the native operation  *)
(* of native/kookie_persistence_adapter.c that replaces the target by the  *)
(* staging file.  The processes that use it are HostSave and DurableSave.  *)
(*                                                                         *)
(* The file system is the POSIX one: rename is atomic, what was not synced *)
(* may be lost.  A power loss reveals one of the directories since the     *)
(* last directory sync, and any file that was not synced may be torn.  A   *)
(* torn file fails the checksum of both copies of its envelope; a file     *)
(* that still decodes holds the revision that was written to it.           *)
(***************************************************************************)
EXTENDS Integers, FiniteSets

CONSTANTS Inodes,      \* file identities, enough for every exposed directory
          NoInode,
          MaxRevision, \* the largest revision (1000000)
          MaxFaults    \* bound: failures, kills and power losses

ASSUME DiskAssumption ==
  NoInode \notin Inodes /\ MaxRevision \in Nat \ {0} /\ MaxFaults \in Nat

VARIABLES
  dir,        \* the directory entries of the staging and the target path
  exposed,    \* the directories a power loss may reveal, dir among them
  data,       \* the files
  step,       \* how far kookie_durable_publish is, then what it returned
  live,       \* the revision the session was restored from, 0 for none
  confirmed,  \* history: the newest revision that was reported as saved
  faults      \* history: how many faults happened

disk == <<dir, exposed, data>>
history == <<confirmed, faults>>
diskVars == <<disk, step>>

Revision == 0 .. MaxRevision
Dir == [stage : Inodes \cup {NoInode}, target : Inodes \cup {NoInode}]
PublishStep == {"idle", "open", "synced", "renamed", "ok", "failed"}

DiskTypeOK ==
  /\ dir \in Dir
  /\ exposed \in SUBSET Dir /\ dir \in exposed
  /\ data \in [Inodes -> [rev : Revision, whole : BOOLEAN, synced : BOOLEAN]]
  /\ step \in PublishStep
  /\ {live, confirmed} \subseteq Revision
  /\ faults \in 0 .. MaxFaults

DiskInit ==
  /\ dir = [stage |-> NoInode, target |-> NoInode]
  /\ exposed = {dir}
  /\ data = [i \in Inodes |-> [rev |-> 0, whole |-> FALSE, synced |-> TRUE]]
  /\ step = "idle"
  /\ live = 0 /\ confirmed = 0 /\ faults = 0

Fault == faults < MaxFaults /\ faults' = faults + 1

StageExists == dir.stage # NoInode
TargetExists == dir.target # NoInode

\* What decoding the file returns: its revision, -2 for a damaged one.
Decoded(i) == IF data[i].whole THEN data[i].rev ELSE -2

\* publishedRevision(), with 0 for an absent save.
RevisionIn(d) == IF d.target = NoInode THEN 0 ELSE Decoded(d.target)

Free == {i \in Inodes : \A d \in exposed : i \notin {d.stage, d.target}}

SetDir(d) == dir' = d /\ exposed' = exposed \cup {d}

-----------------------------------------------------------------------------
(* File operations. *)

\* A new file under the staging path; its bytes are not all there yet.
CreateStage(r) ==
  LET i == CHOOSE i \in Free : TRUE
  IN /\ Free # {}
     /\ SetDir([dir EXCEPT !.stage = i])
     /\ data' = [data EXCEPT ![i] = [rev |-> r, whole |-> FALSE, synced |-> FALSE]]

FillStage == /\ data' = [data EXCEPT ![dir.stage].whole = TRUE]
             /\ UNCHANGED <<dir, exposed>>

\* Mutant: an interrupted stage is left where it is.
KeepStage == UNCHANGED disk

\* unlink; an absent staging file is not an error.
RemoveStage == SetDir([dir EXCEPT !.stage = NoInode]) /\ data' = data

-----------------------------------------------------------------------------
(* kookie_durable_publish, system call by system call. *)

OpenStage ==
  /\ step = "idle"
  /\ step' = IF StageExists THEN "open" ELSE "failed"
  /\ UNCHANGED disk

\* Mutant: the file is renamed before its bytes reached the disk.
FlushNothing == data' = data

FlushStage == data' = [data EXCEPT ![dir.stage].synced = TRUE]

SyncFile ==
  /\ step = "open"
  /\ FlushStage
  /\ step' = "synced"
  /\ UNCHANGED <<dir, exposed>>

RenameStage ==
  /\ step = "synced"
  /\ SetDir([stage |-> NoInode, target |-> dir.stage])
  /\ step' = "renamed"
  /\ UNCHANGED data

\* Mutant: the directory is not synced.
FlushNoEntries == exposed' = exposed

FlushEntries == exposed' = {dir}

SyncDirectory ==
  /\ step = "renamed"
  /\ FlushEntries
  /\ step' = "ok"
  /\ UNCHANGED <<dir, data>>

\* Any system call may fail; what was done before it stays done.
PublishFails ==
  /\ step \in {"open", "synced", "renamed"}
  /\ step' = "failed"
  /\ UNCHANGED disk

PublishStepNext == OpenStage \/ SyncFile \/ RenameStage \/ SyncDirectory

-----------------------------------------------------------------------------
(* The kernel, the end of the process, and of the power. *)

\* The file system commits its metadata on its own some time.
Journal ==
  /\ exposed # {dir}
  /\ exposed' = {dir}
  /\ UNCHANGED <<dir, data, step>>

ProcessEnds == step' = "idle" /\ UNCHANGED disk

PowerLoss ==
  /\ \E d \in exposed : dir' = d /\ exposed' = {d}
  /\ \E torn \in SUBSET {i \in Inodes : ~data[i].synced} :
       data' = [i \in Inodes |-> [data[i] EXCEPT !.synced = TRUE,
                                                 !.whole = @ /\ i \notin torn]]
  /\ step' = "idle"

-----------------------------------------------------------------------------
(* Properties that every user of the disk has to keep. *)

\* Whatever a power loss reveals under the target path is a whole save: a
\* file is renamed over the target only after it was written and synced.
TargetNeverTorn ==
  \A d \in exposed : d.target # NoInode => data[d.target].whole /\ data[d.target].synced

\* A save that was reported is never lost, whatever is staged, cancelled or interrupted
\* afterwards: after any crash the target path holds that revision or a newer one.
ConfirmedSurvives == \A d \in exposed : RevisionIn(d) >= confirmed

OldestRevision ==
  CHOOSE r \in {RevisionIn(d) : d \in exposed} :
    \A d \in exposed : r <= RevisionIn(d)

Cell == INSTANCE AtomicSave WITH visible <- RevisionIn(dir), floor <- OldestRevision

\* The target path behaves like one atomic cell of revisions.
ImplementsAtomicSave == Cell!Spec
=============================================================================
