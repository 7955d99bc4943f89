---------------------------- MODULE ReleaseHistory ----------------------------
(***************************************************************************)
(* What the version bookkeeping of one project promises, whichever way its *)
(* containers are brought up: a deploy appends one version and makes it    *)
(* the active one, a rollback makes an earlier recorded version active     *)
(* again, and in both cases the previous active version is demoted one     *)
(* tier, the one below it is archived, and the oldest archived versions    *)
(* beyond the limit are forgotten.  Each of these is one atomic change.    *)
(*                                                                         *)
(* BlueGreen and ComposeDeploy, the two deploy machineries, are shown to   *)
(* implement it; compose deploys keep no inactive version.                 *)
(***************************************************************************)
EXTENDS Naturals, FiniteSets

CONSTANTS
  MaxVersions,   \* versions a behaviour may cut
  Limits,        \* values backup_limit may take
  DefaultLimit,  \* backup_limit of a new project
  KeepInactive   \* the previous version stays at hand before it is archived

VARIABLES
  counter,       \* the last version number assigned
  limit,         \* how many archived versions are kept
  tier           \* what is recorded of each version

history == <<counter, limit, tier>>

Versions == 1..MaxVersions

Tiers == {"absent", "active", "inactive", "archived"}

TypeOK ==
  /\ counter \in 0..MaxVersions
  /\ limit \in Limits \cup {DefaultLimit}
  /\ tier \in [Versions -> Tiers]

\* The archived versions of t that have at least l newer archived ones.
Excess(t, l) ==
  {v \in Versions :
     /\ t[v] = "archived"
     /\ Cardinality({w \in Versions : t[w] = "archived" /\ w > v}) >= l}

Pruned(t, l) == [v \in Versions |-> IF v \in Excess(t, l) THEN "absent" ELSE t[v]]

\* Every version but n moves down one tier; n becomes the active one.
Shifted(t, n) ==
  [v \in Versions |->
     IF v = n THEN "active"
     ELSE CASE t[v] = "active"   -> IF KeepInactive THEN "inactive" ELSE "archived"
            [] t[v] = "inactive" -> "archived"
            [] OTHER             -> t[v]]

Init ==
  /\ counter = 0
  /\ limit = DefaultLimit
  /\ tier = [v \in Versions |-> "absent"]

Deploy ==
  /\ counter < MaxVersions
  /\ counter' = counter + 1
  /\ tier' = Pruned(Shifted(tier, counter + 1), limit)
  /\ UNCHANGED limit

Rollback(v) ==
  /\ tier[v] \in {"inactive", "archived"}
  /\ tier' = Pruned(Shifted(tier, v), limit)
  /\ UNCHANGED <<counter, limit>>

SetLimit(l) ==
  /\ limit' = l
  /\ UNCHANGED <<counter, tier>>

EnforceLimit ==
  /\ tier' = Pruned(tier, limit)
  /\ UNCHANGED <<counter, limit>>

\* The project is deleted; a later deploy under its name starts afresh.
Erase ==
  /\ counter' = 0
  /\ limit' = DefaultLimit
  /\ tier' = [v \in Versions |-> "absent"]

Next ==
  \/ Deploy
  \/ \E v \in Versions : Rollback(v)
  \/ \E l \in Limits : SetLimit(l)
  \/ EnforceLimit
  \/ Erase

Spec == Init /\ [][Next]_history
=============================================================================
