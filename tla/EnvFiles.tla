------------------------------ MODULE EnvFiles ------------------------------
(* The environment of a project: the rows of services/env_service.py, the     *)
(* files they are written to, the env_file list of the generated override     *)
(* (compose_service.py), and what the container was created with. One         *)
(* container stands for the project: that of a dockerfile project, or a       *)
(* compose service with the shared scope and its own.                         *)
(*                                                                            *)
(* Rows change at any time; files are written when something is launched and  *)
(* by a backup; the container gets the files' text when it is created. A text *)
(* is its normalized form: NoText is an empty one, no row or no file.         *)
EXTENDS Naturals, FiniteSets

CONSTANTS
  Texts,    \* the non-empty environments
  NoText,
  Modes     \* the deploy modes a project may have

ASSUME EnvAssumption == NoText \notin Texts /\ Modes \subseteq {"dockerfile", "compose"}

VARIABLES
  mode,       \* Project.deploy_mode
  row,        \* ProjectEnvFile.content, per scope
  file,       \* the materialized file, per scope
  override,   \* the scopes the override's env_file list names
  live,       \* what the container was created with
  job,        \* the job under the deploy key
  seen        \* what each row held since the job was launched

vars == <<mode, row, file, override, live, job, seen>>

Scopes == {"project", "service"}
Content == Texts \cup {NoText}
Ops == {"none", "deploy", "rollback", "restart", "restore", "rollback_data"}

\* The scopes a project has, and the environment of a container: from env_file or
\* --env-file by scope, and the one ${VAR} was resolved from.
ScopesOf(m) == IF m = "compose" THEN Scopes ELSE {"project"}
Environment == [files : [Scopes -> Content], variables : Content]

Nothing == [s \in Scopes |-> NoText]
Idle == [op |-> "none", pc |-> "none", env_file |-> FALSE]

\* Types.
TypeOK ==
  /\ mode \in Modes
  /\ row \in [Scopes -> Content] /\ file \in [Scopes -> Content]
  /\ \A s \in Scopes \ ScopesOf(mode) : row[s] = NoText /\ file[s] = NoText
  /\ override \subseteq ScopesOf(mode)
  /\ live \in Environment
  /\ job \in [op : Ops, pc : {"none", "launched", "down", "up", "data", "done"},
              env_file : BOOLEAN]
  /\ seen \in [Scopes -> SUBSET Content]

\* A project that is deployed and has no environment yet.
Init ==
  /\ mode \in Modes
  /\ row = Nothing /\ file = Nothing
  /\ override = {}
  /\ live = [files |-> Nothing, variables |-> NoText]
  /\ job = Idle
  /\ seen = [s \in Scopes |-> {}]

----------------------------------------------------------------------------
(* Requests about the environment *)

\* What a job in progress may go by: every content since it was launched.
Notes(rows) ==
  seen' = IF job.op = "none" THEN seen ELSE [s \in Scopes |-> seen[s] \cup {rows[s]}]

\* Mutant: a service's environment is accepted of any project.
AcceptsAnyScope(s) == TRUE

\* _get_service: a service of a compose project.
AcceptsScope(s) == s \in ScopesOf(mode)

\* The row, and nothing else: an empty text is stored as well as deleted.
Stores(s) ==
  /\ \E text \in Content \ {row[s]} : row' = [row EXCEPT ![s] = text]
  /\ Notes(row')
  /\ UNCHANGED <<mode, file, override, live, job>>

\* PUT and DELETE /projects/{name}/env.
SetEnv == Stores("project")

\* PUT and DELETE /projects/{name}/services/{service}/env.
SetServiceEnv == AcceptsScope("service") /\ Stores("service")

----------------------------------------------------------------------------
(* Writing the files *)

\* Every non-empty text is written, every other file is removed.
Written(rows) == [s \in Scopes |-> rows[s]]

\* What materialize returns for the service, and write_override puts into the override.
EnvFileList(rows) == {s \in Scopes : rows[s] # NoText}

\* create_backup writes the files of a project whatever else is going on.
BackupWrites ==
  /\ file' = Written(row)
  /\ file' # file
  /\ UNCHANGED <<mode, row, override, live, job, seen>>

----------------------------------------------------------------------------
(* Launching *)

Launch(op, env_file, rows) ==
  /\ job = Idle
  /\ job' = [op |-> op, pc |-> "launched", env_file |-> env_file]
  /\ seen' = [s \in Scopes |-> {rows[s]}]

\* An upload or a clone: the env that came with it, the override when the project is
\* provisioned, and the deploy, which writes the files again.
Deploys ==
  /\ \/ UNCHANGED row
     \/ \E text \in Texts : row' = [row EXCEPT !["project"] = text]
  /\ file' = Written(row')
  /\ override' = IF mode = "compose" THEN EnvFileList(row') ELSE {}
  /\ Launch("deploy", row'["project"] # NoText, row')
  /\ UNCHANGED <<mode, live>>

\* Mutant: the override is left as the last deploy wrote it.
RestartsAsDeployed ==
  /\ file' = Written(row)
  /\ Launch("restart", row["project"] # NoText, row)
  /\ UNCHANGED <<mode, row, override, live>>

\* launch_restart: the files and, for compose, the override are written again.
Restarts ==
  /\ file' = Written(row)
  /\ override' = IF mode = "compose" THEN EnvFileList(row) ELSE {}
  /\ Launch("restart", row["project"] # NoText, row)
  /\ UNCHANGED <<mode, row, live>>

\* A rollback of a dockerfile project writes the files before its job, one of a compose
\* project within it.
Rollbacks ==
  /\ \E op \in {"rollback", "rollback_data"} :
       IF mode = "compose"
       THEN Launch(op, FALSE, row) /\ UNCHANGED file
       ELSE file' = Written(row) /\ Launch(op, row["project"] # NoText, row)
  /\ UNCHANGED <<mode, row, override, live>>

\* volume_restore names the file and writes none.
RestoresVolume ==
  /\ Launch("restore", row["project"] # NoText /\ file["project"] # NoText, row)
  /\ UNCHANGED <<mode, row, file, override, live>>

----------------------------------------------------------------------------
(* The job *)

At(ops, pc) == job.op \in ops /\ job.pc = pc

\* The files a command reads: the ones the override lists, or --env-file, and the project's
\* for ${VAR}. It fails when one is missing.
Listed == IF mode = "compose" THEN override
          ELSE IF job.env_file THEN {"project"} ELSE {}

Present(env_file) ==
  /\ \A s \in Listed : file[s] # NoText
  /\ env_file => file["project"] # NoText

Created(env_file) ==
  [files |-> [s \in Scopes |-> IF s \in Listed THEN file[s] ELSE NoText],
   variables |-> IF mode = "compose" /\ env_file THEN file["project"] ELSE NoText]

\* The rollback of a compose project: down, the snapshot, and provisioning, which writes
\* files and override.
Provisions ==
  /\ mode = "compose" /\ At({"rollback", "rollback_data"}, "launched")
  /\ file' = Written(row) /\ override' = EnvFileList(row)
  /\ job' = [job EXCEPT !.pc = "down"]
  /\ UNCHANGED <<mode, row, live, seen>>

\* current_env_file, after provisioning.
FindsEnvFile ==
  /\ At({"rollback", "rollback_data"}, "down")
  /\ file' = Written(row)
  /\ job' = [job EXCEPT !.pc = "up", !.env_file = row["project"] # NoText]
  /\ UNCHANGED <<mode, row, override, live, seen>>

\* docker rm and docker run, or compose up: the container is created anew.
Up ==
  /\ \/ At({"deploy", "restart"}, "launched")
     \/ At({"rollback", "rollback_data"}, IF mode = "compose" THEN "up" ELSE "launched")
  /\ Present(job.env_file)
  /\ live' = Created(job.env_file)
  /\ job' = [job EXCEPT !.pc = IF job.op = "rollback_data" THEN "data" ELSE "done"]
  /\ UNCHANGED <<mode, row, file, override, seen>>

\* After an extract: compose up with the override as it is, or the same container again.
StartsAgain ==
  /\ At({"restore"}, "launched")
  /\ mode = "compose" => Present(job.env_file)
  /\ live' = IF mode = "compose" THEN Created(job.env_file) ELSE live
  /\ job' = [job EXCEPT !.pc = "done"]
  /\ UNCHANGED <<mode, row, file, override, seen>>

\* apply_env_from_archive: a scope the archive has no text for keeps its own.
Archived(rows, archive) ==
  [s \in Scopes |-> IF s \in ScopesOf(mode) /\ archive[s] # NoText THEN archive[s] ELSE rows[s]]

\* The texts become rows and files, and the container is started again: the same one, or
\* compose up without --env-file, with the old override and whatever its exit code is.
RestoresData ==
  /\ At({"rollback_data"}, "data")
  /\ \E archive \in [Scopes -> Content] : row' = Archived(row, archive)
  /\ file' = Written(row')
  /\ Notes(row')
  /\ live' = IF mode = "compose" /\ (\A s \in Listed : row'[s] # NoText)
             THEN [files |-> [s \in Scopes |-> IF s \in Listed THEN row'[s] ELSE NoText],
                   variables |-> NoText]
             ELSE live
  /\ job' = [job EXCEPT !.pc = "done"]
  /\ UNCHANGED <<mode, override>>

\* No usable archive, or a volume that cannot be restored: the rollback ends well all the same.
LeavesData ==
  /\ At({"rollback_data"}, "data")
  /\ job' = [job EXCEPT !.pc = "done"]
  /\ UNCHANGED <<mode, row, file, override, live, seen>>

\* A phase fails or the job is aborted. When the up of a compose deploy failed, the previous
\* version comes back from its snapshot, whose override may name other files.
Fails ==
  /\ job.pc \notin {"none", "done"}
  /\ \/ UNCHANGED live
     \/ /\ mode = "compose" /\ At({"deploy"}, "launched")
        /\ \E list \in SUBSET Scopes :
             /\ \A s \in list : file[s] # NoText
             /\ live' = [files |-> [s \in Scopes |-> IF s \in list THEN file[s] ELSE NoText],
                         variables |-> NoText]
  /\ job' = Idle
  /\ seen' = [s \in Scopes |-> {}]
  /\ UNCHANGED <<mode, row, file, override>>

Ends ==
  /\ job.pc = "done"
  /\ job' = Idle
  /\ seen' = [s \in Scopes |-> {}]
  /\ UNCHANGED <<mode, row, file, override, live>>

Next ==
  \/ SetEnv \/ SetServiceEnv
  \/ BackupWrites
  \/ Deploys \/ Restarts \/ Rollbacks \/ RestoresVolume
  \/ Provisions \/ FindsEnvFile \/ Up \/ StartsAgain \/ RestoresData \/ LeavesData \/ Fails \/ Ends

Spec == Init /\ [][Next]_vars

----------------------------------------------------------------------------
(* Properties *)

Recreates == {"deploy", "rollback", "restart"}

\* A deploy, a rollback or a restart that ended well made the environment live: what the
\* container was created with, in every scope and for ${VAR}, is what the row held at some
\* moment since the launch, so for a row nobody edited its text, whoever wrote the files.
StartsWithCurrentEnv ==
  At(Recreates, "done") =>
    /\ \A s \in ScopesOf(mode) : live.files[s] \in seen[s]
    /\ mode = "compose" => live.variables \in seen["project"]
=============================================================================
