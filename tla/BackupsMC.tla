----------------------------- MODULE BackupsMC ------------------------------
(* Instances of Backups: two schedules, and two ways to set a scope up.       *)
EXTENDS Backups, TLC

EarlyFires == "often" :> {0, 1} @@ "later" :> {1}
LateFires == "often" :> {1, 2} @@ "later" :> {3}

Set(enabled, cron, on_deploy, keep_local, keep_remote, target) ==
  [enabled |-> enabled, cron |-> cron, on_deploy |-> on_deploy,
   keep_local |-> keep_local, keep_remote |-> keep_remote, target |-> target]

OperatorSettings ==
  {Set(TRUE, "often", TRUE, 1, 1, TRUE), Set(TRUE, "later", FALSE, 2, 0, FALSE)}
=============================================================================
