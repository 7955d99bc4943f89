-------------------------- MODULE BlueGreenRefinement --------------------------
(***************************************************************************)
(* The committed database of BlueGreen implements ReleaseHistory.          *)
(***************************************************************************)
EXTENDS BlueGreen

\* The tier the rows record for each version.
RecordedTier ==
  [v \in Versions |->
     IF \E r \in Jobs : Present(r) /\ rows[r].version = v
     THEN rows[CHOOSE r \in Jobs : Present(r) /\ rows[r].version = v].status
     ELSE "absent"]

Releases == INSTANCE ReleaseHistory
              WITH counter <- project.counter, limit <- project.limit, tier <- RecordedTier,
                   KeepInactive <- TRUE

\* Whatever fails between the steps of a deploy, a rollback, a limit change or a
\* delete, what the database records moves in whole steps of ReleaseHistory.
ImplementsReleaseHistory == Releases!Spec
=============================================================================
