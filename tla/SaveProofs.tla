----------------------------- MODULE SaveProofs -----------------------------
(* Crash-durable saves, proved for every number of files, revisions,        *)
(* failed system calls, kills and power losses.                             *)
EXTENDS Saves, WellFoundedInduction, TLAPS

\* What both owners keep of the disk: whole targets, no older than what was
\* reported, and no entry a power loss may reveal is newer than the current one.
DiskInv ==
  /\ DiskTypeOK
  /\ TargetNeverTorn /\ ConfirmedSurvives
  /\ \A d \in exposed : RevisionIn(d) <= RevisionIn(dir)

\* A staging file that, once whole and synced, may replace the target.
StageIsNewer == StageExists /\ data[dir.stage].rev > RevisionIn(dir)

\* What a power loss may reveal is a revision.
LEMMA RevisionsAreNumbers ==
  ASSUME DiskInv, NEW d \in exposed
  PROVE  /\ d \in Dir /\ RevisionIn(d) \in Revision
         /\ d.target # NoInode => d.target \in Inodes /\ RevisionIn(d) = data[d.target].rev
BY DiskAssumption DEF DiskInv, DiskTypeOK, TargetNeverTorn, RevisionIn, Decoded, Dir, Revision

\* The steps of an owner, seen from the disk.  "kept": the revisions that a
\* power loss may reveal, and the one in force, stay.  "replaced": a newer
\* revision joins them.  "settled": one of them is left.
Kept == /\ RevisionIn(dir)' = RevisionIn(dir)
        /\ {RevisionIn(d) : d \in exposed}' = {RevisionIn(d) : d \in exposed}
Replaced == /\ RevisionIn(dir)' > RevisionIn(dir)
            /\ {RevisionIn(d) : d \in exposed}'
                 = {RevisionIn(d) : d \in exposed} \cup {RevisionIn(dir)'}
Settled == /\ RevisionIn(dir)' \in {RevisionIn(d) : d \in exposed}
           /\ exposed' = {dir'}

\* The files under the target path stay as they are: nothing is torn and no
\* revision changes.
LEMMA SameTargets ==
  ASSUME DiskInv, DiskTypeOK', UNCHANGED confirmed, dir'.target = dir.target,
         \A d \in exposed' : \E e \in exposed : d.target = e.target,
         \A d \in exposed : d.target # NoInode =>
           /\ data'[d.target].rev = data[d.target].rev
           /\ data[d.target].whole => data'[d.target].whole
           /\ data[d.target].synced => data'[d.target].synced
  PROVE  /\ DiskInv'
         /\ RevisionIn(dir)' = RevisionIn(dir)
         /\ (\A e \in exposed : \E d \in exposed' : d.target = e.target) => Kept
         /\ exposed' = {dir'} => Settled
<1>1. dir \in exposed /\ dir' \in exposed'
  BY DEF DiskInv, DiskTypeOK
<1>2. ASSUME NEW d, NEW e \in exposed, d.target = e.target
      PROVE  RevisionIn(d)' = RevisionIn(e)
  BY <1>2 DEF RevisionIn, Decoded, DiskInv, TargetNeverTorn
<1>3. RevisionIn(dir)' = RevisionIn(dir)
  BY <1>1, <1>2 DEF RevisionIn, Decoded
<1>4. TargetNeverTorn'
  BY DEF DiskInv, TargetNeverTorn
<1>5. ConfirmedSurvives'
  BY <1>2 DEF DiskInv, ConfirmedSurvives
<1>6. \A d \in exposed' : RevisionIn(d)' <= RevisionIn(dir)'
  BY <1>2, <1>3 DEF DiskInv
<1>7. DiskInv'
  BY <1>4, <1>5, <1>6 DEF DiskInv
<1>8. ASSUME \A e \in exposed : \E d \in exposed' : d.target = e.target PROVE Kept
  BY <1>2, <1>3, <1>8 DEF Kept
<1>9. ASSUME exposed' = {dir'} PROVE Settled
  BY <1>1, <1>3, <1>9 DEF Settled
<1> QED
  BY <1>3, <1>7, <1>8, <1>9

\* Creating the staging file changes no target: it is a file no power loss
\* could reveal.
LEMMA CreateKeeps ==
  ASSUME DiskInv, NEW r \in Revision, CreateStage(r), r > RevisionIn(dir),
         UNCHANGED <<confirmed, live, step, faults>>
  PROVE  DiskInv' /\ StageIsNewer' /\ Kept /\ RevisionIn(dir)' = RevisionIn(dir)
<1>1. PICK i \in Free : /\ SetDir([dir EXCEPT !.stage = i])
                        /\ data' = [data EXCEPT ![i] = [rev |-> r, whole |-> FALSE,
                                                        synced |-> FALSE]]
  BY DEF CreateStage
<1>2. i \in Inodes /\ i # NoInode /\ \A d \in exposed : d.target # i
  BY DiskAssumption DEF Free
<1>3. dir \in exposed /\ dir \in Dir
  BY DEF DiskInv, DiskTypeOK
<1>4. /\ dir' \in Dir /\ dir'.stage = i /\ dir'.target = dir.target
      /\ exposed' = exposed \cup {dir'}
  BY <1>1, <1>2, <1>3 DEF SetDir, Dir
<1>5. \A k \in Inodes : data'[k] = IF k = i THEN [rev |-> r, whole |-> FALSE, synced |-> FALSE]
                                   ELSE data[k]
  BY <1>1, <1>2 DEF DiskInv, DiskTypeOK
<1>6. DiskTypeOK'
  <2>1. data' \in [Inodes -> [rev : Revision, whole : BOOLEAN, synced : BOOLEAN]]
    BY <1>1 DEF DiskInv, DiskTypeOK
  <2> QED
    BY <1>4, <2>1 DEF DiskInv, DiskTypeOK
<1>7. \A d \in exposed : d.target # NoInode => data'[d.target] = data[d.target]
  BY <1>2, <1>5, RevisionsAreNumbers
<1>8. DiskInv' /\ Kept /\ RevisionIn(dir)' = RevisionIn(dir)
  BY <1>3, <1>4, <1>6, <1>7, SameTargets
<1>9. StageIsNewer'
  BY <1>2, <1>4, <1>5, <1>8 DEF StageIsNewer, StageExists
<1> QED
  BY <1>8, <1>9

\* Removing the staging file changes no target.
LEMMA RemoveKeeps ==
  ASSUME DiskInv, RemoveStage, UNCHANGED confirmed,
         step' \in PublishStep, live' \in Revision, faults' \in 0 .. MaxFaults
  PROVE  DiskInv' /\ Kept /\ RevisionIn(dir)' = RevisionIn(dir) /\ ~StageExists'
<1>1. dir \in exposed /\ dir \in Dir
  BY DEF DiskInv, DiskTypeOK
<1>2. /\ dir' \in Dir /\ dir'.stage = NoInode /\ dir'.target = dir.target
      /\ exposed' = exposed \cup {dir'} /\ data' = data
  BY <1>1 DEF RemoveStage, SetDir, Dir
<1>3. DiskTypeOK'
  BY <1>2 DEF DiskInv, DiskTypeOK
<1> QED
  BY <1>1, <1>2, <1>3, SameTargets DEF StageExists

\* Writing the bytes of the staging file, or flushing them, changes no target.
LEMMA WriteKeeps ==
  ASSUME DiskInv, FillStage \/ (FlushStage /\ UNCHANGED <<dir, exposed>>), UNCHANGED confirmed,
         step' \in PublishStep, live' \in Revision, faults' \in 0 .. MaxFaults
  PROVE  /\ DiskInv' /\ Kept /\ RevisionIn(dir)' = RevisionIn(dir)
         /\ dir' = dir
         /\ \A i \in Inodes : /\ data'[i].rev = data[i].rev
                              /\ data[i].whole => data'[i].whole
                              /\ data[i].synced => data'[i].synced
         /\ FillStage /\ StageExists => data'[dir.stage].whole
         /\ FlushStage /\ StageExists => data'[dir.stage].synced
<1>1. dir' = dir /\ exposed' = exposed /\ dir \in exposed /\ dir \in Dir
  BY DEF FillStage, DiskInv, DiskTypeOK
<1>2. /\ data' \in [Inodes -> [rev : Revision, whole : BOOLEAN, synced : BOOLEAN]]
      /\ \A i \in Inodes : /\ data'[i].rev = data[i].rev
                           /\ data[i].whole => data'[i].whole
                           /\ data[i].synced => data'[i].synced
  <2>1. \A i \in Inodes : data[i] \in [rev : Revision, whole : BOOLEAN, synced : BOOLEAN]
    BY DEF DiskInv, DiskTypeOK
  <2>2. CASE FillStage
    <3>1. data' = [i \in Inodes |-> IF i = dir.stage THEN [data[i] EXCEPT !.whole = TRUE]
                                    ELSE data[i]]
      BY <2>2 DEF FillStage, DiskInv, DiskTypeOK
    <3> QED
      BY <2>1, <3>1
  <2>3. CASE FlushStage
    <3>1. data' = [i \in Inodes |-> IF i = dir.stage THEN [data[i] EXCEPT !.synced = TRUE]
                                    ELSE data[i]]
      BY <2>3 DEF FlushStage, DiskInv, DiskTypeOK
    <3> QED
      BY <2>1, <3>1
  <2> QED
    BY <2>2, <2>3
<1>3. DiskTypeOK'
  BY <1>1, <1>2 DEF DiskInv, DiskTypeOK
<1>4. DiskInv' /\ Kept /\ RevisionIn(dir)' = RevisionIn(dir)
  BY <1>1, <1>2, <1>3, SameTargets, RevisionsAreNumbers
<1>5. StageExists => dir.stage \in Inodes
  BY <1>1 DEF StageExists, Dir
<1>6. FillStage /\ StageExists => data'[dir.stage].whole
  BY <1>5 DEF FillStage, DiskInv, DiskTypeOK
<1>7. FlushStage /\ StageExists => data'[dir.stage].synced
  BY <1>5 DEF FlushStage, DiskInv, DiskTypeOK
<1> QED
  BY <1>1, <1>2, <1>4, <1>6, <1>7

\* A commit of the directory, by the native operation or by the kernel.
LEMMA CommitKeeps ==
  ASSUME DiskInv, exposed' = {dir}, UNCHANGED <<dir, data, confirmed>>,
         step' \in PublishStep, live' \in Revision, faults' \in 0 .. MaxFaults
  PROVE  DiskInv' /\ Settled /\ RevisionIn(dir)' = RevisionIn(dir)
<1>1. dir \in exposed /\ DiskTypeOK'
  BY DEF DiskInv, DiskTypeOK
<1> QED
  BY <1>1, SameTargets

\* Nothing of the disk changes.
LEMMA IdleKeeps ==
  ASSUME DiskInv, UNCHANGED <<disk, confirmed>>,
         step' \in PublishStep, live' \in Revision, faults' \in 0 .. MaxFaults
  PROVE  DiskInv' /\ Kept /\ RevisionIn(dir)' = RevisionIn(dir)
<1>1. DiskTypeOK' /\ UNCHANGED <<dir, exposed, data>>
  BY DEF DiskInv, DiskTypeOK, disk
<1> QED
  BY <1>1, SameTargets

\* The rename puts a whole, synced and newer file in force.
LEMMA RenameReplaces ==
  ASSUME DiskInv, RenameStage, StageIsNewer, data[dir.stage].whole, data[dir.stage].synced,
         UNCHANGED <<confirmed, live, faults>>
  PROVE  /\ DiskInv' /\ Replaced
         /\ ~StageExists' /\ RevisionIn(dir)' = data[dir.stage].rev
<1>1. dir \in exposed /\ dir \in Dir /\ dir.stage \in Inodes /\ dir.stage # NoInode
  BY DEF DiskInv, DiskTypeOK, StageIsNewer, StageExists, Dir
<1>2. /\ dir' = [stage |-> NoInode, target |-> dir.stage] /\ dir' \in Dir
      /\ exposed' = exposed \cup {dir'} /\ data' = data
  BY <1>1 DEF RenameStage, SetDir, Dir
<1>3. RevisionIn(dir)' = data[dir.stage].rev
  BY <1>1, <1>2 DEF RevisionIn, Decoded
<1>4. \A d : RevisionIn(d)' = RevisionIn(d)
  BY <1>2 DEF RevisionIn, Decoded
<1>5. RevisionIn(dir) \in Int /\ data[dir.stage].rev \in Int /\ confirmed \in Int
      /\ \A d \in exposed : RevisionIn(d) \in Int
  BY <1>1, RevisionsAreNumbers DEF DiskInv, DiskTypeOK, Revision
<1>6. RevisionIn(dir)' > RevisionIn(dir)
  BY <1>3 DEF StageIsNewer
<1>7. DiskTypeOK'
  <2>1. step' \in PublishStep
    BY DEF RenameStage, PublishStep
  <2> QED
    BY <1>2, <2>1 DEF DiskInv, DiskTypeOK
<1>8. TargetNeverTorn'
  BY <1>1, <1>2 DEF DiskInv, TargetNeverTorn
<1>9. \A d \in exposed' : d = dir' \/ d \in exposed
  BY <1>2
<1>10. \A d \in exposed' : RevisionIn(d)' <= RevisionIn(dir)'
  BY <1>3, <1>4, <1>5, <1>6, <1>9 DEF DiskInv
<1>11. ConfirmedSurvives'
  <2>1. RevisionIn(dir)' >= confirmed
    BY <1>1, <1>3, <1>5, <1>6 DEF DiskInv, ConfirmedSurvives
  <2>2. RevisionIn(dir)' = RevisionIn(dir') 
    BY <1>4
  <2> QED
    BY <1>4, <1>9, <2>1 DEF DiskInv, ConfirmedSurvives
<1>12. Replaced
  BY <1>2, <1>4, <1>6 DEF Replaced
<1>13. ~StageExists'
  BY <1>2 DEF StageExists
<1> QED
  BY <1>3, <1>7, <1>8, <1>10, <1>11, <1>12, <1>13 DEF DiskInv

\* A power loss leaves one of the directories it may reveal, with its target whole.
LEMMA PowerLossSettles ==
  ASSUME DiskInv, PowerLoss, UNCHANGED confirmed, live' \in Revision, faults' \in 0 .. MaxFaults
  PROVE  DiskInv' /\ Settled
<1>1. PICK d \in exposed : dir' = d /\ exposed' = {d}
  BY DEF PowerLoss
<1>2. PICK torn \in SUBSET {i \in Inodes : ~data[i].synced} :
        data' = [i \in Inodes |-> [data[i] EXCEPT !.synced = TRUE,
                                                  !.whole = @ /\ i \notin torn]]
  BY DEF PowerLoss
<1>3. d \in Dir /\ RevisionIn(d) \in Revision
  BY RevisionsAreNumbers
<1>4. /\ data' \in [Inodes -> [rev : Revision, whole : BOOLEAN, synced : BOOLEAN]]
      /\ \A i \in Inodes : /\ data'[i].rev = data[i].rev /\ data'[i].synced
                           /\ data[i].synced => data'[i].whole = data[i].whole
  <2>1. \A i \in Inodes : data[i] \in [rev : Revision, whole : BOOLEAN, synced : BOOLEAN]
    BY DEF DiskInv, DiskTypeOK
  <2> QED
    BY <1>2, <2>1
<1>5. d.target # NoInode =>
        /\ d.target \in Inodes /\ data'[d.target].whole /\ data'[d.target].synced
        /\ data'[d.target].rev = data[d.target].rev
  BY <1>3, <1>4 DEF DiskInv, TargetNeverTorn, Dir
<1>6. RevisionIn(dir)' = RevisionIn(d)
  BY <1>1, <1>5, RevisionsAreNumbers DEF RevisionIn, Decoded
<1>7. DiskTypeOK'
  <2>1. step' \in PublishStep
    BY DEF PowerLoss, PublishStep
  <2> QED
    BY <1>1, <1>3, <1>4, <2>1 DEF DiskInv, DiskTypeOK
<1>8. TargetNeverTorn'
  BY <1>1, <1>5 DEF TargetNeverTorn
<1>9. ConfirmedSurvives'
  BY <1>1, <1>6 DEF DiskInv, ConfirmedSurvives
<1>10. \A e \in exposed' : RevisionIn(e)' <= RevisionIn(dir)'
  BY <1>1, <1>3, <1>6 DEF Revision
<1>11. Settled
  BY <1>1, <1>6 DEF Settled
<1> QED
  BY <1>7, <1>8, <1>9, <1>10, <1>11 DEF DiskInv

-----------------------------------------------------------------------------
(* The packaged client. *)

\* Where the native operation is agrees with what is staged: only a file that
\* is newer than the target is published, whole once it is prepared, synced
\* once it may be renamed; success means the rename is durable.
HostOrder ==
  /\ phase # "publishing" => step = "idle"
  /\ phase = "staging" => StageIsNewer
  /\ phase = "publishing" /\ step \in {"idle", "open", "synced"} =>
       StageIsNewer /\ data[dir.stage].whole
  /\ step = "synced" => data[dir.stage].synced
  /\ step = "ok" => exposed = {dir}
  /\ phase \in {"playing", "staging", "publishing", "refused"} => live >= confirmed

HostInv == HostTypeOK /\ DiskInv /\ HostOrder

\* How the disk may look from one state to the next.
DiskStep == Kept \/ Replaced \/ Settled

\* The variables of the owner keep their types.
LEMMA HostTypes == HostInv /\ [HostNext]_hostVars =>
                     /\ phase' \in Phase /\ preparedValue' \in BOOLEAN
                     /\ {expected', tick'} \subseteq Revision
<1> SUFFICES ASSUME HostInv, [HostNext]_hostVars
             PROVE  /\ phase' \in Phase /\ preparedValue' \in BOOLEAN
                    /\ {expected', tick'} \subseteq Revision
  OBVIOUS
<1>1. /\ phase \in Phase /\ preparedValue \in BOOLEAN
      /\ expected \in Revision /\ tick \in Revision /\ 0 \in Revision
  BY DiskAssumption DEF HostInv, HostTypeOK, Revision
<1>2. phase' \in Phase
  BY <1>1, Zenon
     DEF HostNext, Enter, Bind, Recover, Restore, Tick, Leave, StageBegin, PublishRefused,
         StageEnd, NativePublish, PublishReturns, StageFails, PlayOn, Killed, PowerLost,
         NewProcess, KernelCommits, hostOwner, hostVars, Phase
<1>3. preparedValue' \in BOOLEAN
  BY <1>1, Zenon
     DEF HostNext, Enter, Bind, Recover, Restore, Tick, Leave, StageBegin, PublishRefused,
         StageEnd, NativePublish, PublishReturns, StageFails, PlayOn, Killed, PowerLost,
         NewProcess, KernelCommits, hostOwner, hostVars
<1>4. tick' = tick \/ tick' = 0 \/ (tick < MaxTick /\ tick' = tick + 1)
  BY Zenon
     DEF HostNext, Enter, Bind, Recover, Restore, Tick, Leave, StageBegin, PublishRefused,
         StageEnd, NativePublish, PublishReturns, StageFails, PlayOn, Killed, PowerLost,
         NewProcess, KernelCommits, hostOwner, hostVars
<1>5. tick' \in Revision
  BY <1>1, <1>4, HostAssumption, DiskAssumption DEF Revision
<1>6. expected' = expected \/ expected' = 0 \/ (phase = "staging" /\ expected' = data[dir.stage].rev)
  BY Zenon
     DEF HostNext, Enter, Bind, Recover, Restore, Tick, Leave, StageBegin, PublishRefused,
         StageEnd, NativePublish, PublishReturns, StageFails, PlayOn, Killed, PowerLost,
         NewProcess, KernelCommits, hostOwner, hostVars
<1>7. phase = "staging" => data[dir.stage].rev \in Revision
  BY DEF HostInv, HostOrder, StageIsNewer, StageExists, DiskInv, DiskTypeOK, Dir
<1>8. expected' \in Revision
  BY <1>1, <1>6, <1>7
<1> QED
  BY <1>2, <1>3, <1>5, <1>8

\* Every step of the packaged client's owner, of the kernel and of a crash.
LEMMA HostStep == HostInv /\ [HostNext]_hostVars => DiskInv' /\ HostOrder' /\ DiskStep
<1> SUFFICES ASSUME HostInv, [HostNext]_hostVars PROVE DiskInv' /\ HostOrder' /\ DiskStep
  OBVIOUS
<1>0. /\ DiskInv /\ dir \in exposed /\ dir \in Dir
      /\ confirmed \in Revision /\ live \in Revision /\ Revision \subseteq Nat
      /\ MaxRevision \in Nat /\ tick \in Revision /\ 0 \in Revision
      /\ step \in PublishStep /\ faults \in 0 .. MaxFaults
      /\ RevisionIn(dir) \in Revision /\ confirmed <= RevisionIn(dir)
      /\ {"idle", "open", "synced", "renamed", "ok", "failed"} = PublishStep
  BY RevisionsAreNumbers, DiskAssumption
     DEF HostInv, HostTypeOK, DiskInv, DiskTypeOK, Revision, ConfirmedSurvives, PublishStep
<1>a. HostOrder
  BY DEF HostInv
<1> USE DEF DiskStep
<1>1. CASE Bind
  <2>1. phase' = "bound" /\ live' = 0 /\ step' = "idle" /\ UNCHANGED <<disk, confirmed, faults>>
    BY <1>1 DEF Bind, history
  <2>2. DiskInv' /\ Kept
    BY <1>0, <2>1, IdleKeeps
  <2> QED
    BY <2>1, <2>2 DEF HostOrder
<1>2. CASE Recover
  <2>1. phase' = "recovered" /\ step = "idle" /\ RemoveStage
        /\ UNCHANGED <<step, live, confirmed, faults>>
    BY <1>a, <1>2 DEF Recover, HostOrder, history
  <2>2. DiskInv' /\ Kept
    BY <1>0, <2>1, RemoveKeeps
  <2> QED
    BY <2>1, <2>2 DEF HostOrder
<1>3. CASE Restore
  <2>1. /\ phase' = "playing" /\ live' = IF TargetExists THEN Decoded(dir.target) ELSE live
        /\ UNCHANGED <<disk, step, confirmed, faults>> /\ step = "idle"
    <3>1. TargetExists => Decoded(dir.target) = RevisionIn(dir)
      BY DEF TargetExists, RevisionIn
    <3>2. TargetExists => ~(Decoded(dir.target) < 0)
      <4>1. RevisionIn(dir) \in Nat
        BY <1>0
      <4> QED
        BY <3>1, <4>1
    <3> QED
      BY <1>a, <1>3, <3>2 DEF Restore, HostOrder, diskVars, history
  <2>2. live' \in Revision /\ live' >= confirmed
    <3>1. CASE TargetExists
      BY <1>0, <2>1, <3>1 DEF TargetExists, RevisionIn
    <3>2. CASE ~TargetExists
      <4>1. RevisionIn(dir) = 0
        BY <3>2 DEF TargetExists, RevisionIn
      <4> QED
        BY <1>0, <2>1, <3>2, <4>1
    <3> QED
      BY <3>1, <3>2
  <2>3. DiskInv' /\ Kept
    BY <1>0, <2>1, <2>2, IdleKeeps
  <2> QED
    BY <2>1, <2>2, <2>3 DEF HostOrder
<1>4. CASE Tick
  <2>1. UNCHANGED <<disk, step, phase, live, confirmed, faults>>
    BY <1>4 DEF Tick, diskVars, history
  <2>2. DiskInv' /\ Kept /\ UNCHANGED <<dir, exposed, data>>
    BY <1>0, <2>1, IdleKeeps DEF disk
  <2> QED
    BY <1>a, <1>4, <2>1, <2>2 DEF HostOrder, Tick
<1>5. CASE StageBegin
  <2>1. /\ phase = "playing" /\ phase' = "staging" /\ CreateStage(NextRevision)
        /\ UNCHANGED <<step, live, confirmed, faults>> /\ Stageable
    BY <1>5 DEF StageBegin, history
  <2>2. NextRevision \in Revision /\ NextRevision > RevisionIn(dir)
    <3>1. ~TargetExists => RevisionIn(dir) = 0
      BY DEF TargetExists, RevisionIn
    <3>2. NextRevision \in Nat /\ NextRevision > RevisionIn(dir)
      <4>1. RevisionIn(dir) \in Nat /\ tick \in Nat
        BY <1>0
      <4> QED
        BY <3>1, <4>1 DEF NextRevision
    <3> QED
      BY <1>0, <2>1, <3>2 DEF Stageable, WithinLimit, Revision
  <2>3. DiskInv' /\ StageIsNewer' /\ Kept
    BY <1>0, <2>1, <2>2, CreateKeeps
  <2> QED
    BY <1>a, <2>1, <2>3 DEF HostOrder
<1>6. CASE PublishRefused \/ PlayOn
  <2>1. /\ phase \in {"playing", "refused"} /\ phase' \in {"playing", "refused"}
        /\ UNCHANGED <<disk, step, live, confirmed, faults>>
    BY <1>6 DEF PublishRefused, PlayOn, diskVars, history
  <2>2. DiskInv' /\ Kept
    BY <1>0, <2>1, IdleKeeps
  <2> QED
    BY <1>a, <2>1, <2>2 DEF HostOrder
<1>7. CASE StageEnd
  <2>1. /\ phase = "staging" /\ phase' = "publishing" /\ FillStage /\ step' = "idle"
        /\ UNCHANGED <<live, confirmed, faults>> /\ StageIsNewer
    BY <1>a, <1>7 DEF StageEnd, HostOrder, history
  <2>2. /\ DiskInv' /\ Kept /\ RevisionIn(dir)' = RevisionIn(dir) /\ dir' = dir
        /\ data'[dir.stage].rev = data[dir.stage].rev /\ data'[dir.stage].whole
    <3>1. dir.stage \in Inodes
      BY <1>0, <2>1 DEF StageIsNewer, StageExists, Dir
    <3> QED
      BY <1>0, <2>1, <3>1, WriteKeeps DEF StageIsNewer
  <2>3. StageIsNewer'
    BY <2>1, <2>2 DEF StageIsNewer, StageExists
  <2> QED
    BY <1>a, <2>1, <2>2, <2>3 DEF HostOrder
<1>8. CASE StageFails
  <2>1. /\ phase = "staging" /\ phase' = "refused" /\ faults' \in 0 .. MaxFaults
        /\ UNCHANGED <<disk, step, live, confirmed>>
    BY <1>0, <1>8, DiskAssumption DEF StageFails, Fault, diskVars
  <2>2. DiskInv' /\ Kept
    BY <1>0, <2>1, IdleKeeps
  <2> QED
    BY <1>a, <2>1, <2>2 DEF HostOrder
<1>9. CASE NativePublish
  <2>1. phase = "publishing" /\ UNCHANGED <<phase, live, confirmed>>
    BY <1>9 DEF NativePublish, hostOwner
  <2>2. step \in {"idle", "open", "synced"} => dir.stage \in Inodes
    BY <1>0, <1>a, <2>1 DEF HostOrder, StageIsNewer, StageExists, Dir
  <2>3. CASE OpenStage /\ faults' = faults
    <3>1. step = "idle" /\ step' = "open" /\ UNCHANGED <<disk, faults>>
      BY <1>a, <2>1, <2>3 DEF OpenStage, HostOrder, StageIsNewer
    <3>2. DiskInv' /\ Kept /\ UNCHANGED <<dir, exposed, data>> /\ RevisionIn(dir)' = RevisionIn(dir)
      BY <1>0, <2>1, <3>1, IdleKeeps DEF disk
    <3>3. StageIsNewer' /\ data'[dir'.stage].whole
      BY <1>a, <2>1, <3>1, <3>2 DEF HostOrder, StageIsNewer, StageExists
    <3> QED
      BY <1>a, <2>1, <3>1, <3>2, <3>3 DEF HostOrder
  <2>4. CASE SyncFile /\ faults' = faults
    <3>1. step = "open" /\ step' = "synced" /\ FlushStage /\ UNCHANGED <<dir, exposed, faults>>
      BY <2>4 DEF SyncFile
    <3>2. /\ DiskInv' /\ Kept /\ RevisionIn(dir)' = RevisionIn(dir)
          /\ data'[dir.stage].rev = data[dir.stage].rev
          /\ data[dir.stage].whole => data'[dir.stage].whole
          /\ StageExists => data'[dir.stage].synced
      BY <1>0, <2>1, <2>2, <3>1, WriteKeeps
    <3>3. StageIsNewer' /\ data'[dir'.stage].whole /\ data'[dir'.stage].synced
      BY <1>a, <2>1, <3>1, <3>2 DEF HostOrder, StageIsNewer, StageExists
    <3> QED
      BY <1>a, <2>1, <3>1, <3>2, <3>3 DEF HostOrder
  <2>5. CASE RenameStage /\ faults' = faults
    <3>1. step = "synced" /\ step' = "renamed"
      BY <2>5 DEF RenameStage
    <3>2. DiskInv' /\ Replaced
      BY <1>0, <1>a, <2>1, <2>5, <3>1, RenameReplaces DEF HostOrder
    <3> QED
      BY <1>a, <2>1, <3>1, <3>2 DEF HostOrder
  <2>6. CASE SyncDirectory /\ faults' = faults
    <3>1. step' = "ok" /\ exposed' = {dir} /\ UNCHANGED <<dir, data>>
      BY <2>6 DEF SyncDirectory, FlushEntries
    <3>2. DiskInv' /\ Settled
      BY <1>0, <2>1, <2>6, <3>1, CommitKeeps
    <3> QED
      BY <1>a, <2>1, <3>1, <3>2 DEF HostOrder
  <2>7. CASE PublishFails /\ Fault
    <3>1. step' = "failed" /\ UNCHANGED disk /\ faults' \in 0 .. MaxFaults
      BY <1>0, <2>7, DiskAssumption DEF PublishFails, Fault
    <3>2. DiskInv' /\ Kept
      BY <1>0, <2>1, <3>1, IdleKeeps
    <3> QED
      BY <1>a, <2>1, <3>1, <3>2 DEF HostOrder
  <2> QED
    BY <1>9, <2>3, <2>4, <2>5, <2>6, <2>7 DEF NativePublish, PublishStepNext
<1>10. CASE PublishReturns
  <2>1. /\ phase = "publishing" /\ step' = "idle" /\ UNCHANGED <<disk, live, faults>>
        /\ UNCHANGED <<dir, exposed, data>>
    BY <1>10 DEF PublishReturns, disk
  <2>2. CASE Confirms
    <3>1. phase' = "out" /\ confirmed' = expected /\ exposed = {dir} /\ RevisionIn(dir) = expected
      BY <1>a, <1>10, <2>2 DEF PublishReturns, Confirms, PublishSucceeded, HostOrder
    <3>2. DiskTypeOK'
      BY <1>0, <2>1, <3>1 DEF DiskInv, DiskTypeOK
    <3>3. \A d : RevisionIn(d)' = RevisionIn(d)
      BY <2>1 DEF RevisionIn, Decoded
    <3>4. TargetNeverTorn'
      BY <1>0, <2>1 DEF DiskInv, TargetNeverTorn
    <3>5. ConfirmedSurvives'
      <4>1. \A d \in exposed' : RevisionIn(d)' = confirmed' /\ confirmed' \in Nat
        BY <1>0, <2>1, <3>1, <3>3
      <4> QED
        BY <4>1 DEF ConfirmedSurvives
    <3>6. \A d \in exposed' : RevisionIn(d)' <= RevisionIn(dir)'
      BY <1>0, <2>1, <3>3 DEF DiskInv
    <3>7. DiskInv' /\ Kept
      BY <2>1, <3>2, <3>3, <3>4, <3>5, <3>6 DEF DiskInv, Kept
    <3> QED
      BY <2>1, <3>1, <3>7 DEF HostOrder
  <2>3. CASE ~Confirms
    <3>1. phase' = "refused" /\ UNCHANGED confirmed
      BY <1>10, <2>3 DEF PublishReturns
    <3>2. DiskInv' /\ Kept
      BY <1>0, <2>1, <3>1, IdleKeeps
    <3> QED
      BY <1>a, <2>1, <3>1, <3>2 DEF HostOrder
  <2> QED
    BY <2>2, <2>3
<1>11. CASE Killed
  <2>1. /\ phase' = "out" /\ step' = "idle" /\ live' = 0 /\ faults' \in 0 .. MaxFaults
        /\ UNCHANGED <<disk, confirmed>>
    BY <1>0, <1>11, DiskAssumption DEF Killed, ProcessEnds, NewProcess, Fault
  <2>2. DiskInv' /\ Kept
    BY <1>0, <2>1, IdleKeeps
  <2> QED
    BY <2>1, <2>2 DEF HostOrder
<1>12. CASE PowerLost
  <2>1. /\ phase' = "out" /\ step' = "idle" /\ live' = 0 /\ faults' \in 0 .. MaxFaults
        /\ PowerLoss /\ UNCHANGED confirmed
    <3>1. PowerLoss => step' = "idle"
      BY DEF PowerLoss
    <3> QED
      BY <1>0, <1>12, <3>1, DiskAssumption DEF PowerLost, NewProcess, Fault
  <2>2. DiskInv' /\ Settled
    BY <1>0, <2>1, PowerLossSettles
  <2> QED
    BY <2>1, <2>2 DEF HostOrder
<1>13. CASE KernelCommits
  <2>1. exposed' = {dir} /\ UNCHANGED <<dir, data, step, phase, live, confirmed, faults>>
    BY <1>13 DEF KernelCommits, Journal, hostOwner, history
  <2>2. DiskInv' /\ Settled /\ RevisionIn(dir)' = RevisionIn(dir)
    BY <1>0, <2>1, CommitKeeps
  <2> QED
    BY <1>a, <2>1, <2>2 DEF HostOrder, StageIsNewer, StageExists
<1>14. CASE UNCHANGED hostVars
  <2>1. UNCHANGED <<disk, step, phase, live, confirmed, faults>> /\ UNCHANGED <<dir, exposed, data>>
    BY <1>14 DEF hostVars, hostOwner, diskVars, disk, history
  <2>2. DiskInv' /\ Kept /\ RevisionIn(dir)' = RevisionIn(dir)
    BY <1>0, <2>1, IdleKeeps
  <2> QED
    BY <1>a, <2>1, <2>2 DEF HostOrder, StageIsNewer, StageExists
<1> QED
  BY <1>1, <1>2, <1>3, <1>4, <1>5, <1>6, <1>7, <1>8, <1>9, <1>10, <1>11, <1>12, <1>13, <1>14
     DEF HostNext, Enter, Leave

\* An empty disk holds revision 0 for everybody.
LEMMA EmptyDisk == DiskInit => DiskInv
<1> SUFFICES ASSUME DiskInit PROVE DiskInv
  OBVIOUS
<1>1. /\ dir = [stage |-> NoInode, target |-> NoInode] /\ exposed = {dir}
      /\ confirmed = 0 /\ 0 \in Revision
  BY DiskAssumption DEF DiskInit, Revision
<1>2. DiskTypeOK
  <2>1. data \in [Inodes -> [rev : Revision, whole : BOOLEAN, synced : BOOLEAN]]
    BY <1>1 DEF DiskInit
  <2>2. step \in PublishStep /\ {live, confirmed} \subseteq Revision /\ faults \in 0 .. MaxFaults
    BY <1>1, DiskAssumption DEF DiskInit, PublishStep
  <2> QED
    BY <1>1, <2>1, <2>2 DEF DiskTypeOK, Dir
<1>3. RevisionIn(dir) = 0
  BY <1>1 DEF RevisionIn
<1> QED
  BY <1>1, <1>2, <1>3 DEF DiskInv, TargetNeverTorn, ConfirmedSurvives

\* The owner starts outside gameplay.
LEMMA HostStart == HostInit => HostInv
<1> SUFFICES ASSUME HostInit PROVE HostInv
  OBVIOUS
<1>1. DiskInv /\ step = "idle" /\ phase = "out"
  BY EmptyDisk DEF HostInit, DiskInit
<1>2. HostTypeOK
  <2>1. phase \in Phase /\ preparedValue \in BOOLEAN
    BY DEF HostInit, Phase
  <2>2. {expected, tick} \subseteq Revision
    BY DiskAssumption DEF HostInit, Revision
  <2> QED
    BY <1>1, <2>1, <2>2 DEF HostTypeOK, DiskInv
<1> QED
  BY <1>1, <1>2 DEF HostInv, HostOrder

\* The inductive invariant of the packaged client's owner.
LEMMA HostInvariant == HostSpec => []HostInv
<1>1. HostInv /\ [HostNext]_hostVars => HostInv'
  <2> SUFFICES ASSUME HostInv, [HostNext]_hostVars PROVE HostInv'
    OBVIOUS
  <2>1. DiskInv' /\ HostOrder'
    BY HostStep
  <2>2. HostTypeOK'
    BY <2>1, HostTypes DEF HostTypeOK, DiskInv
  <2> QED
    BY <2>1, <2>2 DEF HostInv
<1> QED
  BY <1>1, HostStart, PTL DEF HostSpec

-----------------------------------------------------------------------------
(* The core library. *)

\* A prepared save is staged, whole and newer than the target, or it already is
\* the target; only a prepared one is published; what was restored is not newer
\* than what is published.
LibraryOrder ==
  /\ step # "idle" => prepared
  /\ writing => ~prepared /\ StageIsNewer
  /\ prepared => \/ StageIsNewer /\ data[dir.stage].whole /\ data[dir.stage].rev = staged
                 \/ ~StageExists /\ RevisionIn(dir) = staged
  /\ step \in {"open", "synced"} => StageExists
  /\ step = "synced" => data[dir.stage].synced
  /\ step = "ok" => exposed = {dir}
  /\ live <= RevisionIn(dir)

LibraryInv == LibraryTypeOK /\ DiskInv /\ LibraryOrder

\* The coordinator's variables keep their types.
LEMMA LibraryTypes == LibraryInv /\ [LibraryNext]_libraryVars =>
                        /\ writing' \in BOOLEAN /\ prepared' \in BOOLEAN
                        /\ staged' \in Revision \cup {-1}
<1> SUFFICES ASSUME LibraryInv, [LibraryNext]_libraryVars
             PROVE  /\ writing' \in BOOLEAN /\ prepared' \in BOOLEAN
                    /\ staged' \in Revision \cup {-1}
  OBVIOUS
<1>1. writing \in BOOLEAN /\ prepared \in BOOLEAN /\ staged \in Revision \cup {-1}
  BY DEF LibraryInv, LibraryTypeOK
<1>2. writing' \in BOOLEAN /\ prepared' \in BOOLEAN
  BY <1>1, Zenon
     DEF LibraryNext, StagingBegins, StagingEnds, StagingFails, StagingUnverified,
         LibraryPublish, ConfirmPublished, Retry, CancelStaged, RecoverInterruptedStage,
         LibraryRestore, LibraryKilled, LibraryPowerLost, LibraryRestarts,
         LibraryKernelCommits, ClearStaged, coordinator, libraryVars
<1>3. staged' = staged \/ staged' = -1 \/ (writing /\ staged' = data[dir.stage].rev)
  BY Zenon
     DEF LibraryNext, StagingBegins, StagingEnds, StagingFails, StagingUnverified,
         LibraryPublish, ConfirmPublished, Retry, CancelStaged, RecoverInterruptedStage,
         LibraryRestore, LibraryKilled, LibraryPowerLost, LibraryRestarts,
         LibraryKernelCommits, ClearStaged, coordinator, libraryVars
<1>4. writing => data[dir.stage].rev \in Revision
  BY DEF LibraryInv, LibraryOrder, StageIsNewer, StageExists, DiskInv, DiskTypeOK, Dir
<1> QED
  BY <1>1, <1>2, <1>3, <1>4

\* Every step of the library's host, of the kernel and of a crash.
LEMMA LibraryStep == LibraryInv /\ [LibraryNext]_libraryVars =>
                       /\ DiskInv' /\ LibraryOrder' /\ DiskStep
                       /\ live' # 0 => live' >= live
<1> SUFFICES ASSUME LibraryInv, [LibraryNext]_libraryVars
             PROVE  /\ DiskInv' /\ LibraryOrder' /\ DiskStep
                    /\ live' # 0 => live' >= live
  OBVIOUS
<1>0. /\ DiskInv /\ dir \in exposed /\ dir \in Dir
      /\ confirmed \in Revision /\ live \in Revision /\ live \in Nat /\ Revision \subseteq Nat
      /\ MaxRevision \in Nat /\ 0 \in Revision
      /\ step \in PublishStep /\ faults \in 0 .. MaxFaults
      /\ RevisionIn(dir) \in Revision /\ RevisionIn(dir) \in Nat
      /\ {"idle", "open", "synced", "renamed", "ok", "failed"} = PublishStep
  BY RevisionsAreNumbers, DiskAssumption
     DEF LibraryInv, LibraryTypeOK, DiskInv, DiskTypeOK, Revision, PublishStep
<1>a. LibraryOrder
  BY DEF LibraryInv
<1> USE DEF DiskStep
<1>1. ASSUME NEW r \in 1 .. MaxRevision + 1, StagingBegins(r)
      PROVE  DiskInv' /\ LibraryOrder' /\ DiskStep /\ (live' # 0 => live' >= live)
  <2>1. /\ CreateStage(r) /\ writing' = TRUE /\ Unprepared /\ Valid(r) /\ Fresh(r)
        /\ UNCHANGED <<step, prepared, staged, live, confirmed, faults>>
    BY <1>1 DEF StagingBegins
  <2>2. r \in Revision /\ r > RevisionIn(dir)
    BY <1>0, <2>1 DEF Valid, Fresh, Revision, TargetExists, RevisionIn
  <2>3. DiskInv' /\ StageIsNewer' /\ Kept /\ RevisionIn(dir)' = RevisionIn(dir)
    BY <1>0, <2>1, <2>2, CreateKeeps
  <2>4. ~prepared /\ ~prepared' /\ step = "idle" /\ step' = "idle"
    BY <1>a, <2>1 DEF Unprepared, LibraryOrder
  <2>5. live' <= RevisionIn(dir)' /\ live' >= live
    BY <1>0, <1>a, <2>1, <2>3 DEF LibraryOrder
  <2> QED
    BY <2>3, <2>4, <2>5 DEF LibraryOrder
<1>2. CASE StagingEnds
  <2>1. /\ writing /\ StageIsNewer /\ ~prepared /\ FillStage /\ step = "idle"
        /\ UNCHANGED <<step, live, confirmed, faults>>
        /\ writing' = FALSE /\ prepared' = TRUE /\ staged' = data[dir.stage].rev
    BY <1>a, <1>2 DEF StagingEnds, LibraryOrder
  <2>2. /\ DiskInv' /\ Kept /\ RevisionIn(dir)' = RevisionIn(dir) /\ dir' = dir
        /\ data'[dir.stage].rev = data[dir.stage].rev /\ data'[dir.stage].whole
    <3>1. dir.stage \in Inodes
      BY <1>0, <2>1 DEF StageIsNewer, StageExists, Dir
    <3> QED
      BY <1>0, <2>1, <3>1, WriteKeeps DEF StageIsNewer
  <2>3. StageIsNewer'
    BY <2>1, <2>2 DEF StageIsNewer, StageExists
  <2>4. live' <= RevisionIn(dir)' /\ live' >= live
    BY <1>0, <1>a, <2>1, <2>2 DEF LibraryOrder
  <2> QED
    BY <2>1, <2>2, <2>3, <2>4 DEF LibraryOrder
<1>3. CASE StagingFails
  <2>1. /\ writing /\ ~prepared /\ ~prepared' /\ writing' = FALSE /\ step = "idle"
        /\ faults' \in 0 .. MaxFaults /\ UNCHANGED <<disk, step, live, confirmed>>
    BY <1>0, <1>a, <1>3, DiskAssumption DEF StagingFails, Fault, LibraryOrder, diskVars
  <2>2. DiskInv' /\ Kept /\ RevisionIn(dir)' = RevisionIn(dir)
    BY <1>0, <2>1, IdleKeeps
  <2>3. live' <= RevisionIn(dir)' /\ live' >= live
    BY <1>0, <1>a, <2>1, <2>2 DEF LibraryOrder
  <2> QED
    BY <2>1, <2>2, <2>3 DEF LibraryOrder
<1>4. CASE StagingUnverified \/ RecoverInterruptedStage
  <2>1. /\ ~prepared /\ ~prepared' /\ ~writing' /\ step = "idle" /\ RemoveStage
        /\ faults' \in 0 .. MaxFaults /\ UNCHANGED <<step, live, confirmed>>
    BY <1>0, <1>a, <1>4, DiskAssumption
       DEF StagingUnverified, RecoverInterruptedStage, Unprepared, Fault, LibraryOrder, coordinator
  <2>2. DiskInv' /\ Kept /\ RevisionIn(dir)' = RevisionIn(dir)
    BY <1>0, <2>1, RemoveKeeps
  <2>3. live' <= RevisionIn(dir)' /\ live' >= live
    BY <1>0, <1>a, <2>1, <2>2 DEF LibraryOrder
  <2> QED
    BY <2>1, <2>2, <2>3 DEF LibraryOrder
<1>5. CASE LibraryPublish
  <2>1. prepared /\ prepared' = prepared /\ ~writing /\ ~writing' /\ staged' = staged
    BY <1>a, <1>5 DEF LibraryPublish, LibraryOrder, coordinator
  <2>2. UNCHANGED <<live, confirmed>>
    BY <1>5 DEF LibraryPublish
  <2>3. /\ \/ StageIsNewer /\ data[dir.stage].whole /\ data[dir.stage].rev = staged
           \/ ~StageExists /\ RevisionIn(dir) = staged
        /\ StageIsNewer => dir.stage \in Inodes /\ StageExists
        /\ live <= RevisionIn(dir)
    BY <1>0, <1>a, <2>1 DEF LibraryOrder, StageIsNewer, StageExists, Dir
  <2>4. CASE OpenStage /\ faults' = faults
    <3>1. /\ step' \in PublishStep /\ UNCHANGED <<disk, faults>>
          /\ (step' = "open" /\ StageExists) \/ step' = "failed"
      BY <1>0, <2>4 DEF OpenStage
    <3>2. DiskInv' /\ Kept /\ UNCHANGED <<dir, exposed, data>> /\ RevisionIn(dir)' = RevisionIn(dir)
      BY <1>0, <2>2, <3>1, IdleKeeps DEF disk
    <3>3. /\ \/ StageIsNewer' /\ data'[dir'.stage].whole /\ data'[dir'.stage].rev = staged'
             \/ ~StageExists' /\ RevisionIn(dir)' = staged'
          /\ StageExists' = StageExists
      BY <2>1, <2>3, <3>2 DEF StageIsNewer, StageExists
    <3>4. live' <= RevisionIn(dir)' /\ live' >= live
      BY <1>0, <2>2, <2>3, <3>2
    <3> QED
      BY <2>1, <3>1, <3>2, <3>3, <3>4 DEF LibraryOrder
  <2>5. CASE SyncFile /\ faults' = faults
    <3>1. /\ step = "open" /\ step' = "synced" /\ FlushStage /\ UNCHANGED <<dir, exposed, faults>>
          /\ StageExists /\ StageIsNewer /\ data[dir.stage].whole /\ data[dir.stage].rev = staged
      BY <1>a, <2>3, <2>5 DEF SyncFile, LibraryOrder
    <3>2. /\ DiskInv' /\ Kept /\ RevisionIn(dir)' = RevisionIn(dir)
          /\ data'[dir.stage].rev = data[dir.stage].rev
          /\ data'[dir.stage].whole /\ data'[dir.stage].synced
      BY <1>0, <2>2, <2>3, <3>1, WriteKeeps
    <3>3. StageIsNewer' /\ StageExists'
      BY <3>1, <3>2 DEF StageIsNewer, StageExists
    <3>4. live' <= RevisionIn(dir)' /\ live' >= live
      BY <1>0, <2>2, <2>3, <3>2
    <3>5. data'[dir'.stage].whole /\ data'[dir'.stage].rev = staged' /\ data'[dir'.stage].synced
      BY <2>1, <3>1, <3>2
    <3> QED
      BY <2>1, <3>1, <3>2, <3>3, <3>4, <3>5 DEF LibraryOrder
  <2>6. CASE RenameStage /\ faults' = faults
    <3>1. /\ step = "synced" /\ step' = "renamed" /\ StageIsNewer /\ data[dir.stage].whole
          /\ data[dir.stage].rev = staged /\ data[dir.stage].synced
      BY <1>a, <2>3, <2>6 DEF RenameStage, LibraryOrder
    <3>2. DiskInv' /\ Replaced /\ ~StageExists' /\ RevisionIn(dir)' = data[dir.stage].rev
      BY <1>0, <2>2, <2>6, <3>1, RenameReplaces
    <3>3. live' <= RevisionIn(dir)' /\ live' >= live
      <4>1. RevisionIn(dir)' > RevisionIn(dir) /\ RevisionIn(dir)' \in Nat
        BY <2>3, <3>1, <3>2, <1>0 DEF Replaced, DiskInv, DiskTypeOK
      <4> QED
        BY <1>0, <2>2, <2>3, <4>1
    <3>4. ~StageExists' /\ RevisionIn(dir)' = staged'
      BY <2>1, <3>1, <3>2
    <3> QED
      BY <2>1, <3>1, <3>2, <3>3, <3>4 DEF LibraryOrder
  <2>7. CASE SyncDirectory /\ faults' = faults
    <3>1. step' = "ok" /\ exposed' = {dir} /\ UNCHANGED <<dir, data, faults>>
      BY <2>7 DEF SyncDirectory, FlushEntries
    <3>2. DiskInv' /\ Settled /\ RevisionIn(dir)' = RevisionIn(dir)
      BY <1>0, <2>2, <3>1, CommitKeeps
    <3>3. \/ StageIsNewer' /\ data'[dir'.stage].whole /\ data'[dir'.stage].rev = staged'
          \/ ~StageExists' /\ RevisionIn(dir)' = staged'
      BY <2>1, <2>3, <3>1, <3>2 DEF StageIsNewer, StageExists
    <3>4. live' <= RevisionIn(dir)' /\ live' >= live
      BY <1>0, <2>2, <2>3, <3>2
    <3> QED
      BY <2>1, <3>1, <3>2, <3>3, <3>4 DEF LibraryOrder
  <2>8. CASE PublishFails /\ Fault
    <3>1. step' = "failed" /\ UNCHANGED <<dir, exposed, data>> /\ UNCHANGED disk
          /\ faults' \in 0 .. MaxFaults
      BY <1>0, <2>8, DiskAssumption DEF PublishFails, Fault, disk
    <3>2. DiskInv' /\ Kept /\ RevisionIn(dir)' = RevisionIn(dir)
      BY <1>0, <2>2, <3>1, IdleKeeps
    <3>3. \/ StageIsNewer' /\ data'[dir'.stage].whole /\ data'[dir'.stage].rev = staged'
          \/ ~StageExists' /\ RevisionIn(dir)' = staged'
      BY <2>1, <2>3, <3>1, <3>2 DEF StageIsNewer, StageExists
    <3>4. live' <= RevisionIn(dir)' /\ live' >= live
      BY <1>0, <2>2, <2>3, <3>2
    <3> QED
      BY <2>1, <3>1, <3>2, <3>3, <3>4 DEF LibraryOrder
  <2> QED
    BY <1>5, <2>4, <2>5, <2>6, <2>7, <2>8 DEF LibraryPublish, PublishStepNext
<1>6. CASE ConfirmPublished
  <2>1. /\ step = "ok" /\ exposed = {dir} /\ RevisionIn(dir) = staged /\ confirmed' = staged
        /\ step' = "idle" /\ UNCHANGED <<dir, exposed, data>> /\ UNCHANGED <<live, faults>>
        /\ prepared' = FALSE /\ ~writing /\ ~writing'
    BY <1>a, <1>6 DEF ConfirmPublished, Matches, ClearStaged, LibraryOrder, disk
  <2>2. DiskTypeOK'
    BY <1>0, <2>1 DEF DiskInv, DiskTypeOK
  <2>3. \A d : RevisionIn(d)' = RevisionIn(d)
    BY <2>1 DEF RevisionIn, Decoded
  <2>4. TargetNeverTorn'
    BY <1>0, <2>1 DEF DiskInv, TargetNeverTorn
  <2>5. ConfirmedSurvives'
    <3>1. \A d \in exposed' : RevisionIn(d)' = confirmed' /\ confirmed' \in Nat
      BY <1>0, <2>1, <2>3
    <3> QED
      BY <3>1 DEF ConfirmedSurvives
  <2>6. RevisionIn(dir)' = RevisionIn(dir)
    BY <2>1, <2>3
  <2>7. \A d \in exposed' : RevisionIn(d)' <= RevisionIn(dir)'
    BY <1>0, <2>1, <2>3, <2>6 DEF DiskInv
  <2>8. DiskInv' /\ Kept
    BY <2>1, <2>2, <2>3, <2>4, <2>5, <2>6, <2>7 DEF DiskInv, Kept
  <2>9. live' <= RevisionIn(dir)' /\ live' >= live
    BY <1>0, <1>a, <2>1, <2>6 DEF LibraryOrder
  <2> QED
    BY <2>1, <2>8, <2>9 DEF LibraryOrder
<1>7. CASE Retry
  <2>1. /\ prepared /\ prepared' = prepared /\ ~writing /\ ~writing' /\ staged' = staged
        /\ step' = "idle" /\ UNCHANGED <<dir, exposed, data>> /\ UNCHANGED disk
        /\ UNCHANGED <<live, confirmed, faults>>
    BY <1>a, <1>7 DEF Retry, LibraryOrder, coordinator, disk
  <2>2. DiskInv' /\ Kept /\ RevisionIn(dir)' = RevisionIn(dir)
    BY <1>0, <2>1, IdleKeeps
  <2>3. \/ StageIsNewer' /\ data'[dir'.stage].whole /\ data'[dir'.stage].rev = staged'
        \/ ~StageExists' /\ RevisionIn(dir)' = staged'
    BY <1>a, <2>1, <2>2 DEF StageIsNewer, StageExists, LibraryOrder
  <2>4. live' <= RevisionIn(dir)' /\ live' >= live
    BY <1>0, <1>a, <2>1, <2>2 DEF LibraryOrder
  <2> QED
    BY <2>1, <2>2, <2>3, <2>4 DEF LibraryOrder
<1>8. CASE CancelStaged
  <2>1. /\ RemoveStage /\ step' = "idle" /\ ~prepared' /\ ~writing /\ ~writing'
        /\ UNCHANGED <<live, confirmed, faults>>
    BY <1>a, <1>8 DEF CancelStaged, ClearStaged, LibraryOrder
  <2>2. DiskInv' /\ Kept /\ RevisionIn(dir)' = RevisionIn(dir)
    BY <1>0, <2>1, RemoveKeeps
  <2>3. live' <= RevisionIn(dir)' /\ live' >= live
    BY <1>0, <1>a, <2>1, <2>2 DEF LibraryOrder
  <2> QED
    BY <2>1, <2>2, <2>3 DEF LibraryOrder
<1>9. CASE LibraryRestore
  <2>1. /\ live' = RevisionIn(dir) /\ ~prepared /\ ~prepared' /\ ~writing' /\ step = "idle"
        /\ UNCHANGED <<disk, step, confirmed, faults>> /\ live <= RevisionIn(dir)
    BY <1>a, <1>9
       DEF LibraryRestore, Unprepared, LibraryOrder, diskVars, coordinator, TargetExists, RevisionIn
  <2>2. DiskInv' /\ Kept /\ RevisionIn(dir)' = RevisionIn(dir)
    BY <1>0, <2>1, IdleKeeps
  <2>3. live' <= RevisionIn(dir)' /\ live' >= live
    BY <1>0, <2>1, <2>2
  <2> QED
    BY <2>1, <2>2, <2>3 DEF LibraryOrder
<1>10. CASE LibraryKilled \/ LibraryPowerLost
  <2>1. /\ step' = "idle" /\ live' = 0 /\ ~prepared' /\ ~writing' /\ UNCHANGED confirmed
    BY <1>10
       DEF LibraryKilled, LibraryPowerLost, ProcessEnds, PowerLoss, LibraryRestarts, ClearStaged
  <2>2. faults' \in 0 .. MaxFaults /\ (UNCHANGED disk \/ PowerLoss)
    BY <1>0, <1>10, DiskAssumption DEF LibraryKilled, LibraryPowerLost, ProcessEnds, Fault
  <2>3. DiskInv' /\ (Kept \/ Settled)
    BY <1>0, <2>1, <2>2, IdleKeeps, PowerLossSettles
  <2>4. live' <= RevisionIn(dir)'
    <3>1. RevisionIn(dir)' \in Nat
      BY <1>0, <2>3, RevisionsAreNumbers DEF Kept, Settled
    <3> QED
      BY <2>1, <3>1
  <2> QED
    BY <2>1, <2>3, <2>4 DEF LibraryOrder
<1>11. CASE LibraryKernelCommits
  <2>1. exposed' = {dir} /\ UNCHANGED <<dir, data, step, writing, prepared, staged>>
        /\ UNCHANGED <<live, confirmed, faults>>
    BY <1>11 DEF LibraryKernelCommits, Journal, coordinator
  <2>2. DiskInv' /\ Settled /\ RevisionIn(dir)' = RevisionIn(dir)
    BY <1>0, <2>1, CommitKeeps
  <2>3. live' <= RevisionIn(dir)' /\ live' >= live
    BY <1>0, <1>a, <2>1, <2>2 DEF LibraryOrder
  <2>4. UNCHANGED <<StageIsNewer, StageExists>>
    BY <2>1, <2>2 DEF StageIsNewer, StageExists
  <2> QED
    BY <1>a, <2>1, <2>2, <2>3, <2>4 DEF LibraryOrder
<1>12. CASE UNCHANGED libraryVars
  <2>1. UNCHANGED <<dir, exposed, data>> /\ UNCHANGED <<step, writing, prepared, staged>>
        /\ UNCHANGED <<live, confirmed, faults>> /\ UNCHANGED disk
    BY <1>12 DEF libraryVars, coordinator, diskVars, disk
  <2>2. DiskInv' /\ Kept /\ RevisionIn(dir)' = RevisionIn(dir)
    BY <1>0, <2>1, IdleKeeps
  <2>3. live' <= RevisionIn(dir)' /\ live' >= live
    BY <1>0, <1>a, <2>1, <2>2 DEF LibraryOrder
  <2>4. UNCHANGED <<StageIsNewer, StageExists>>
    BY <2>1, <2>2 DEF StageIsNewer, StageExists
  <2> QED
    BY <1>a, <2>1, <2>2, <2>3, <2>4 DEF LibraryOrder
<1> QED
  BY <1>1, <1>2, <1>3, <1>4, <1>5, <1>6, <1>7, <1>8, <1>9, <1>10, <1>11, <1>12 DEF LibraryNext

\* The library starts with no save.
LEMMA LibraryStart == LibraryInit => LibraryInv
<1> SUFFICES ASSUME LibraryInit PROVE LibraryInv
  OBVIOUS
<1>1. /\ DiskInv /\ step = "idle" /\ live = 0 /\ RevisionIn(dir) = 0
      /\ writing = FALSE /\ prepared = FALSE /\ staged = -1
  BY EmptyDisk DEF LibraryInit, DiskInit, RevisionIn
<1>2. LibraryTypeOK
  BY <1>1 DEF LibraryTypeOK, DiskInv
<1> QED
  BY <1>1, <1>2 DEF LibraryInv, LibraryOrder

\* The inductive invariant of the library.
LEMMA LibraryInvariant == LibrarySpec => []LibraryInv
<1>1. LibraryInv /\ [LibraryNext]_libraryVars => LibraryInv'
  <2> SUFFICES ASSUME LibraryInv, [LibraryNext]_libraryVars PROVE LibraryInv'
    OBVIOUS
  <2>1. DiskInv' /\ LibraryOrder'
    BY LibraryStep
  <2>2. LibraryTypeOK'
    BY <2>1, LibraryTypes DEF LibraryTypeOK, DiskInv
  <2> QED
    BY <2>1, <2>2 DEF LibraryInv
<1> QED
  BY <1>1, LibraryStart, PTL DEF LibrarySpec

-----------------------------------------------------------------------------
\* While one owner lives, the other has nothing staged and plays nothing.
HostIdle == phase = "out" /\ preparedValue = FALSE /\ expected = 0 /\ tick = 0
CoordinatorIdle == writing = FALSE /\ prepared = FALSE /\ staged = -1

\* No schedule of staging, cancelling, failing system calls, kills and power
\* losses tears or loses a reported save, resumes gameplay from an older one,
\* or lets a prepared save vanish: kookie_durable_publish syncs the file before
\* the rename and the directory before it reports success.
THEOREM SavesStaySafe == SavesSpec => []SavesInv
<1>1. HostInv /\ CoordinatorIdle => SavesInv
  <2> SUFFICES ASSUME HostInv, CoordinatorIdle PROVE SavesInv
    OBVIOUS
  <2>1. LibraryTypeOK /\ PreparedIsOnDisk
    BY DEF HostInv, DiskInv, CoordinatorIdle, LibraryTypeOK, PreparedIsOnDisk
  <2>2. ResumesConfirmed
    BY DEF HostInv, HostOrder, ResumesConfirmed
  <2> QED
    BY <2>1, <2>2 DEF SavesInv, HostInv, DiskInv
<1>2. LibraryInv /\ HostIdle => SavesInv
  <2> SUFFICES ASSUME LibraryInv, HostIdle PROVE SavesInv
    OBVIOUS
  <2>1. HostTypeOK
    <3>1. phase \in Phase /\ preparedValue \in BOOLEAN
      BY DEF HostIdle, Phase
    <3>2. {expected, tick} \subseteq Revision
      BY DiskAssumption DEF HostIdle, Revision
    <3> QED
      BY <3>1, <3>2 DEF LibraryInv, DiskInv, HostTypeOK
  <2>3. ResumesConfirmed
    BY DEF HostIdle, ResumesConfirmed
  <2>2. PreparedIsOnDisk
    BY DEF LibraryInv, LibraryOrder, PreparedIsOnDisk, Decoded, StageIsNewer
  <2> QED
    BY <2>1, <2>2, <2>3 DEF SavesInv, LibraryInv, DiskInv
<1>3. /\ LibraryInit => CoordinatorIdle
      /\ CoordinatorIdle /\ [FALSE]_coordinator => CoordinatorIdle'
  BY DEF LibraryInit, CoordinatorIdle, coordinator
<1>4. HostInit => HostIdle
  BY DEF HostInit, HostIdle
<1>5. HostIdle /\ [FALSE]_hostOnly => HostIdle'
  BY DEF HostIdle, hostOnly
<1> QED
  BY <1>1, <1>2, <1>3, <1>4, <1>5, HostInvariant, LibraryInvariant, PTL DEF SavesSpec

\* A session that was restored is never replaced by an older one while the
\* process lives.
THEOREM RestoringNeverGoesBack == LibrarySpec => RestoreNeverGoesBack
BY LibraryInvariant, LibraryStep, PTL DEF LibrarySpec, RestoreNeverGoesBack

-----------------------------------------------------------------------------
(* The refinement of the atomic cell. *)

\* The revision a power loss falls back to at most.
IsOldest ==
  /\ OldestRevision \in {RevisionIn(d) : d \in exposed}
  /\ \A d \in exposed : OldestRevision <= RevisionIn(d) /\ RevisionIn(d) \in Nat
  /\ \A d \in exposed : RevisionIn(d) <= RevisionIn(dir)
  /\ dir \in exposed

\* There is one: the directories that may be revealed hold revisions.
LEMMA OldestExists == DiskInv => IsOldest
<1> SUFFICES ASSUME DiskInv PROVE IsOldest
  OBVIOUS
<1>1. \A d \in exposed : RevisionIn(d) \in Nat
  BY RevisionsAreNumbers DEF Revision
<1>2. dir \in exposed /\ \A d \in exposed : RevisionIn(d) <= RevisionIn(dir)
  BY DEF DiskInv, DiskTypeOK
<1> DEFINE S == {RevisionIn(d) : d \in exposed}
           R == {p \in Nat \X Nat : p[1] < p[2]}
<1>3. S \in SUBSET Nat /\ S # {}
  BY <1>1, <1>2
<1>4. PICK r \in S : \A m \in S : ~ (<<m, r>> \in R)
  <2>1. IsWellFoundedOn(R, Nat)
    BY NatLessThanWellFounded DEF OpToRel
  <2> HIDE DEF S, R
  <2> QED
    BY <1>3, <2>1, WFMin
<1>5. \A m \in S : r <= m
  <2> HIDE DEF S
  <2>1. \A m \in S : ~ (m < r)
    BY <1>3, <1>4
  <2> QED
    BY <1>3, <2>1
<1>6. \A d \in exposed : r <= RevisionIn(d)
  BY <1>5
<1>7. OldestRevision \in S /\ \A d \in exposed : OldestRevision <= RevisionIn(d)
  BY <1>4, <1>6, Zenon DEF OldestRevision
<1> QED
  BY <1>1, <1>2, <1>7 DEF IsOldest

\* Whatever an owner, the kernel or a crash does to the disk, the cell does too.
LEMMA DiskStepIsACellStep ==
  IsOldest /\ IsOldest' /\ DiskStep =>
    Cell!Replace \/ Cell!Harden \/ Cell!PowerLoss \/ UNCHANGED Cell!vars
<1> SUFFICES ASSUME IsOldest, IsOldest', DiskStep
             PROVE  Cell!Replace \/ Cell!Harden \/ Cell!PowerLoss \/ UNCHANGED Cell!vars
  OBVIOUS
<1> DEFINE S == {RevisionIn(d) : d \in exposed}
           v == RevisionIn(dir)
           f == OldestRevision
<1>1. /\ f \in S /\ (\A m \in S : f <= m) /\ S \subseteq Nat /\ v \in S /\ \A m \in S : m <= v
      /\ f' \in S' /\ (\A m \in S' : f' <= m) /\ S' \subseteq Nat /\ v' \in S'
  BY DEF IsOldest
<1>2. CASE Kept
  <2>1. v' = v /\ S' = S
    BY <1>2 DEF Kept
  <2> HIDE DEF S, v, f
  <2>2. f' = f
    BY <1>1, <2>1
  <2> QED
    BY <2>1, <2>2 DEF Cell!vars, v, f
<1>3. CASE Replaced
  <2>1. v' > v /\ S' = S \cup {v'}
    BY <1>3 DEF Replaced
  <2> HIDE DEF S, v, f
  <2>2. f' = f
    BY <1>1, <2>1
  <2> QED
    BY <2>1, <2>2 DEF Cell!Replace, v, f
<1>4. CASE Settled
  <2>1. v' \in S /\ S' = {v'}
    BY <1>4 DEF Settled
  <2> HIDE DEF S, v, f
  <2>2. f' = v' /\ v' \in f .. v
    BY <1>1, <2>1
  <2> QED
    BY <2>2 DEF Cell!PowerLoss, v, f
<1> QED
  BY <1>2, <1>3, <1>4 DEF DiskStep

\* The cell starts with revision 0.
LEMMA CellStart == DiskInit => Cell!Init
<1> SUFFICES ASSUME DiskInit PROVE Cell!Init
  OBVIOUS
<1>1. IsOldest
  BY EmptyDisk, OldestExists
<1>2. exposed = {dir} /\ RevisionIn(dir) = 0
  BY DEF DiskInit, RevisionIn
<1> QED
  BY <1>1, <1>2 DEF IsOldest, Cell!Init

\* The target path behaves like one atomic cell of revisions that only a power
\* loss takes back, at most to what was made durable: of the packaged client's
\* saves and of the library's.
THEOREM SavesAreAtomic == HostSpec \/ LibrarySpec => ImplementsAtomicSave
<1>1. HostInv => IsOldest
  BY OldestExists DEF HostInv
<1>2. LibraryInv => IsOldest
  BY OldestExists DEF LibraryInv
<1>3. /\ HostInit => Cell!Init
      /\ LibraryInit => Cell!Init
  BY CellStart DEF HostInit, LibraryInit
<1>4. IsOldest /\ IsOldest' /\ HostInv /\ [HostNext]_hostVars =>
        [Cell!Replace \/ Cell!Harden \/ Cell!PowerLoss]_(Cell!vars)
  BY HostStep, DiskStepIsACellStep
<1>5. IsOldest /\ IsOldest' /\ LibraryInv /\ [LibraryNext]_libraryVars =>
        [Cell!Replace \/ Cell!Harden \/ Cell!PowerLoss]_(Cell!vars)
  BY LibraryStep, DiskStepIsACellStep
<1> QED
  BY <1>1, <1>2, <1>3, <1>4, <1>5, HostInvariant, LibraryInvariant, PTL
     DEF HostSpec, LibrarySpec, ImplementsAtomicSave, Cell!Spec
=============================================================================
