------------------------------- MODULE Saves --------------------------------
(* The two owners of crash-durable saves, the packaged client's and the     *)
(* core library's.  Each has a disk of its own: they share the definitions  *)
(* of the disk, and a behaviour is one of either, while the other rests.    *)
EXTENDS HostSave, DurableSave

hostOnly == <<phase, preparedValue, expected, tick>>

SavesSpec == \/ HostSpec /\ LibraryInit /\ [][FALSE]_coordinator
             \/ LibrarySpec /\ HostInit /\ [][FALSE]_hostOnly

\* Whatever is staged, cancelled or interrupted, a whole save as new as the last one
\* reported is there, gameplay goes on from it and a prepared one is found.
SavesInv ==
  /\ HostTypeOK /\ LibraryTypeOK
  /\ TargetNeverTorn /\ ConfirmedSurvives /\ ResumesConfirmed /\ PreparedIsOnDisk

\* Saves never stop for good, and restoring never goes back.
SavesGoOn == SavesContinue /\ RestoreNeverGoesBack
=============================================================================
