---------------------------- MODULE MCQuietSync ----------------------------
(* The instances of MCKubeSync with the watched Sync of QuietSync.         *)
EXTENDS MCKubeSync, QuietSync

(* A Sync is watched from the time it has read the table until it ends.    *)
Watched ==
  IF quiet # Absent /\ pc[quiet] \in {"idle", "lock", "list"} THEN Absent ELSE quiet
WatchedView == <<View, Watched>>
=============================================================================
