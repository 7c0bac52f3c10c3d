---------------------------- MODULE DurableSave ----------------------------
(***************************************************************************)
(* The save publication of the core library: BoundedDurableSavePublication *)
(* (src/core/durable_save_file.kf) behind BoundedSessionSaveCoordinator    *)
(* (src/session/durable_save_coordinator.kf), on the disk of SaveDisk.     *)
(* The host, as probes/g5_durable_save/main.kf, stages a revision of its   *)
(* choice, calls the native publish while a save is prepared, and confirms *)
(* after the native operation succeeded; it may cancel or discard a stage  *)
(* and restore at any time the coordinator allows it.                      *)
(***************************************************************************)
EXTENDS SaveDisk

VARIABLES
  writing,    \* inside stage(), the staging file is being written
  prepared,   \* prepared
  staged      \* stagedRevisionValue: the revision of the expected sections

coordinator == <<writing, prepared, staged>>
libraryVars == <<diskVars, coordinator, live, confirmed, faults>>

LibraryTypeOK ==
  /\ DiskTypeOK
  /\ writing \in BOOLEAN /\ prepared \in BOOLEAN
  /\ staged \in Revision \cup {-1}

LibraryInit ==
  /\ DiskInit
  /\ writing = FALSE /\ prepared = FALSE /\ staged = -1

\* Mutant: a prepared save may be staged over.
UnpreparedAnyway == ~writing

Unprepared == ~writing /\ ~prepared
ClearStaged == prepared' = FALSE /\ staged' = -1

-----------------------------------------------------------------------------
\* Mutant: one revision too many.
ValidLate(r) == r <= MaxRevision + 1

\* setRevision of the sections.
Valid(r) == r <= MaxRevision

\* Mutant: the published revision is not looked at.
FreshAlways(r) == TRUE

\* stage() refuses a revision that does not advance a readable target.
Fresh(r) == TargetExists => RevisionIn(dir) >= 0 /\ r > RevisionIn(dir)

\* The old staging file is deleted and the new one created.  Revision 0 is
\* left to stand for an absent save.
StagingBegins(r) ==
  /\ Unprepared /\ Valid(r) /\ Fresh(r)
  /\ CreateStage(r)
  /\ writing' = TRUE
  /\ UNCHANGED <<step, prepared, staged, live, confirmed, faults>>

\* The file was written, read back and compared.
StagingEnds ==
  /\ writing
  /\ FillStage
  /\ writing' = FALSE /\ prepared' = TRUE /\ staged' = data[dir.stage].rev
  /\ UNCHANGED <<step, live, confirmed, faults>>

\* writeBytes fails: the partial file stays.
StagingFails ==
  /\ writing /\ Fault
  /\ writing' = FALSE
  /\ UNCHANGED <<diskVars, prepared, staged, live, confirmed>>

\* The read back or the comparison fails: the staging file is deleted.
StagingUnverified ==
  /\ writing /\ Fault
  /\ RemoveStage
  /\ writing' = FALSE
  /\ UNCHANGED <<step, prepared, staged, live, confirmed>>

LibraryPublish ==
  /\ prepared
  /\ \/ PublishStepNext /\ faults' = faults
     \/ PublishFails /\ Fault
  /\ UNCHANGED <<coordinator, live, confirmed>>

Matches == ~StageExists /\ TargetExists /\ RevisionIn(dir) = staged

ConfirmPublished ==
  /\ prepared /\ step = "ok"
  /\ Matches
  /\ ClearStaged
  /\ confirmed' = staged
  /\ step' = "idle"
  /\ UNCHANGED <<disk, writing, live, faults>>

\* The host gives up on a native publish that failed, and may try it again.
Retry ==
  /\ prepared /\ step = "failed"
  /\ step' = "idle"
  /\ UNCHANGED <<disk, coordinator, live, confirmed, faults>>

CancelStaged ==
  /\ prepared /\ step \in {"idle", "ok", "failed"}
  /\ RemoveStage /\ ClearStaged
  /\ step' = "idle"
  /\ UNCHANGED <<writing, live, confirmed, faults>>

RecoverInterruptedStage ==
  /\ Unprepared /\ StageExists
  /\ RemoveStage
  /\ UNCHANGED <<step, coordinator, live, confirmed, faults>>

\* restore: the whole save or, after the rollback, the session as it was.
LibraryRestore ==
  /\ Unprepared /\ TargetExists /\ Decoded(dir.target) >= 0
  /\ live' = Decoded(dir.target)
  /\ UNCHANGED <<diskVars, coordinator, confirmed, faults>>

LibraryRestarts == /\ writing' = FALSE /\ ClearStaged /\ live' = 0
                   /\ UNCHANGED confirmed

LibraryKilled == Fault /\ ProcessEnds /\ LibraryRestarts
LibraryPowerLost == Fault /\ PowerLoss /\ LibraryRestarts

LibraryKernelCommits == Journal /\ UNCHANGED <<coordinator, live, confirmed, faults>>

LibraryNext ==
  \/ \E r \in 1 .. MaxRevision + 1 : StagingBegins(r)
  \/ StagingEnds \/ StagingFails \/ StagingUnverified
  \/ LibraryPublish \/ ConfirmPublished \/ Retry \/ CancelStaged
  \/ RecoverInterruptedStage \/ LibraryRestore
  \/ LibraryKilled \/ LibraryPowerLost \/ LibraryKernelCommits

LibrarySpec == LibraryInit /\ [][LibraryNext]_libraryVars

-----------------------------------------------------------------------------
(* Properties. *)

\* What confirmPublished() will compare with is either still staged and whole
\* or already the target: a prepared coordinator cannot be confirmed by
\* somebody else's file.
PreparedIsOnDisk ==
  prepared => \/ StageExists /\ Decoded(dir.stage) = staged
              \/ ~StageExists /\ RevisionIn(dir) = staged

\* A session restored in this process never goes back: what restore() reads
\* was not older than what an earlier restore() read, except after a crash.
RestoreNeverGoesBack == [][live' # 0 => live' >= live]_libraryVars
=============================================================================
