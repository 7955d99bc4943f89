--------------------------- MODULE ComposeRefinement ---------------------------
(***************************************************************************)
(* The committed database of ComposeDeploy implements ReleaseHistory       *)
(* without the inactive tier.                                              *)
(***************************************************************************)
EXTENDS ComposeDeploy

\* The tier the rows record for each version.
RecordedTier ==
  [v \in Versions |->
     IF \E r \in Jobs : Present(r) /\ rows[r].version = v
     THEN rows[CHOOSE r \in Jobs : Present(r) /\ rows[r].version = v].status
     ELSE "absent"]

Releases == INSTANCE ReleaseHistory
              WITH counter <- project.counter, limit <- project.limit, tier <- RecordedTier,
                   KeepInactive <- FALSE

\* Whatever fails between the phases of a deploy, a rollback, a limit change or a
\* delete, and whatever a start-up finds after a crash, what the database records
\* moves in whole steps of ReleaseHistory.
ImplementsReleaseHistory == Releases!Spec
=============================================================================
