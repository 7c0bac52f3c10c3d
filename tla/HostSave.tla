------------------------------ MODULE HostSave -----------------------------
(***************************************************************************)
(* The gameplay save of the packaged client (BoundedHostGameplaySaveOwner, *)
(* probes/shared/pe_durable_save_coordinator.kf) on the disk of SaveDisk.  *)
(* Entering gameplay binds a session, discards an interrupted stage and    *)
(* restores the published save; leaving it stages a new revision,          *)
(* publishes it and confirms it.  The process may be killed, the machine   *)
(* may lose power, and system calls may fail at any step.                  *)
(***************************************************************************)
EXTENDS SaveDisk

CONSTANT MaxTick  \* the longest session; longer ones cannot be saved

ASSUME HostAssumption == MaxTick \in Revision

VARIABLES
  phase,         \* where the owner is in its calls
  preparedValue, \* whether a save is staged
  expected,      \* the revision of the expected sections
  tick           \* currentServerTick() of the bound session

hostOwner == <<phase, preparedValue, expected, tick, live>>
hostVars == <<diskVars, hostOwner, history>>

Phase == {"out", "bound", "recovered", "playing", "staging", "publishing", "refused"}

HostTypeOK ==
  /\ DiskTypeOK
  /\ phase \in Phase
  /\ preparedValue \in BOOLEAN
  /\ {expected, tick} \subseteq Revision

HostInit ==
  /\ DiskInit
  /\ phase = "out" /\ preparedValue = FALSE
  /\ expected = 0 /\ tick = 0

-----------------------------------------------------------------------------
(* Entering gameplay. *)

\* bind: a new session and a new coordinator.
Bind ==
  /\ phase \in {"out", "refused"}
  /\ phase' = "bound"
  /\ preparedValue' = FALSE /\ expected' = 0
  /\ tick' = 0 /\ live' = 0
  /\ step' = "idle"
  /\ UNCHANGED <<disk, history>>

\* recoverInterruptedStage.
Recover ==
  /\ phase = "bound" /\ ~preparedValue
  /\ RemoveStage
  /\ phase' = "recovered"
  /\ UNCHANGED <<step, preparedValue, expected, tick, live, history>>

Restore ==
  /\ phase = "recovered"
  /\ IF TargetExists
     THEN IF Decoded(dir.target) < 0
          THEN phase' = "refused" /\ live' = live
          ELSE phase' = "playing" /\ live' = Decoded(dir.target)
     ELSE phase' = "playing" /\ live' = live
  /\ UNCHANGED <<diskVars, preparedValue, expected, tick, history>>

Tick ==
  /\ phase = "playing" /\ tick < MaxTick
  /\ tick' = tick + 1
  /\ UNCHANGED <<diskVars, phase, preparedValue, expected, live, history>>

-----------------------------------------------------------------------------
(* Leaving gameplay: publish(). *)

\* Mutant: the revision is the tick of the session, whatever is published.
NextRevisionFromTick == tick + 1

NextRevision ==
  IF TargetExists /\ RevisionIn(dir) >= tick + 1 THEN RevisionIn(dir) + 1 ELSE tick + 1

\* Mutant: one revision too many.
WithinLimitLate == NextRevision <= MaxRevision + 1

WithinLimit == NextRevision <= MaxRevision

\* Everything publish() and stage() check before the staging file exists;
\* the file is created with O_EXCL.
Stageable ==
  /\ TargetExists => RevisionIn(dir) >= 0
  /\ WithinLimit
  /\ ~preparedValue
  /\ ~StageExists

StageBegin ==
  /\ phase = "playing" /\ Stageable
  /\ CreateStage(NextRevision)
  /\ phase' = "staging"
  /\ UNCHANGED <<step, preparedValue, expected, tick, live, history>>

PublishRefused ==
  /\ phase = "playing" /\ ~Stageable
  /\ phase' = "refused"
  /\ UNCHANGED <<diskVars, preparedValue, expected, tick, live, history>>

StageEnd ==
  /\ phase = "staging"
  /\ FillStage
  /\ phase' = "publishing"
  /\ preparedValue' = TRUE /\ expected' = data[dir.stage].rev
  /\ step' = "idle"
  /\ UNCHANGED <<tick, live, history>>

\* A failed write leaves the partial staging file behind.
StageFails ==
  /\ phase = "staging" /\ Fault
  /\ phase' = "refused"
  /\ UNCHANGED <<diskVars, preparedValue, expected, tick, live, confirmed>>

NativePublish ==
  /\ phase = "publishing"
  /\ \/ PublishStepNext /\ faults' = faults
     \/ PublishFails /\ Fault
  /\ UNCHANGED <<hostOwner, confirmed>>

\* Mutant: publish() succeeds once the target was replaced, whatever the
\* native operation returned.
PublishSucceededEarly == step \in {"ok", "failed"}

\* kookie_durable_publish_default() and the full trace.
PublishSucceeded == step = "ok"

Confirms == PublishSucceeded /\ ~StageExists /\ RevisionIn(dir) = expected

PublishReturns ==
  /\ phase = "publishing" /\ step \in {"ok", "failed"}
  /\ IF Confirms
     THEN /\ phase' = "out"
          /\ preparedValue' = FALSE /\ expected' = 0
          /\ confirmed' = expected
     ELSE phase' = "refused" /\ UNCHANGED <<preparedValue, expected, confirmed>>
  /\ step' = "idle"
  /\ UNCHANGED <<disk, tick, live, faults>>

\* The player plays on after a save that was refused.
PlayOn ==
  /\ phase = "refused" /\ step = "idle"
  /\ phase' = "playing"
  /\ UNCHANGED <<diskVars, preparedValue, expected, tick, live, history>>

-----------------------------------------------------------------------------
NewProcess == /\ phase' = "out" /\ preparedValue' = FALSE
              /\ expected' = 0 /\ tick' = 0 /\ live' = 0
              /\ UNCHANGED confirmed

Killed == Fault /\ ProcessEnds /\ NewProcess
PowerLost == Fault /\ PowerLoss /\ NewProcess

KernelCommits == Journal /\ UNCHANGED <<hostOwner, history>>

Enter == Bind \/ Recover \/ Restore
Leave == StageBegin \/ PublishRefused \/ StageEnd \/ NativePublish \/ PublishReturns

HostNext == Enter \/ Tick \/ Leave \/ StageFails \/ PlayOn \/ Killed \/ PowerLost \/ KernelCommits

\* The calls the owner is in return, and the player keeps entering and
\* leaving gameplay: after a refusal it re-enters some time.
HostFairness ==
  /\ WF_hostVars(Recover) /\ WF_hostVars(Restore) /\ WF_hostVars(Leave)
  /\ SF_hostVars(Bind)

HostSpec == HostInit /\ [][HostNext]_hostVars /\ HostFairness

-----------------------------------------------------------------------------
(* Properties. *)

\* The session that gameplay continues from is never older than the last
\* save the player was told of.
ResumesConfirmed == phase = "playing" => live >= confirmed

\* Partial stages, stuck coordinators and crashes never stop the saves for
\* good: once gameplay was entered and faults stop, revisions go on to the largest one.
SavesContinue == phase # "out" ~> RevisionIn(dir) = MaxRevision
=============================================================================
