------------------------------ MODULE Backups -------------------------------
(* Backups of one scope (services/backup_service.py, routers/backups.py) and  *)
(* the thread that starts the scheduled ones (services/backup_scheduler.py):  *)
(* the rows, the archives on the disk and at the destination, the threads     *)
(* that build archives, the importer, and the cron clock.                     *)
(*                                                                            *)
(* An archive is named by its version and the time it was started at. A row's *)
(* id is the database's: one more than the largest in use, so the id of a     *)
(* deleted last row is given out again. Deploys and rollbacks are the steps   *)
(* they are to a backup: a new version, another active one.                   *)
EXTENDS Naturals, FiniteSets, FiniteSetsExt

CONSTANTS
  MaxRows,      \* rows a scope has at a time
  MaxThreads,   \* backups in the making at a time
  MaxVersions,  \* versions of the project
  MaxClock,     \* the last moment
  MaxRemote,    \* archives the destination has room for
  Fires,        \* cron expression -> the moments it matches
  NoCron,       \* no schedule
  CatchUp,      \* CATCHUP_WINDOW
  Settings,     \* what the operator may set a scope's configuration to
  Faults        \* what may go wrong: see BackupsAssumption

Ids == 1..MaxRows
Threads == 1..MaxThreads
Times == 0..MaxClock
Never == MaxClock + 1
Versions == 0..MaxVersions      \* 0: no version

SettingsType ==
  [enabled : BOOLEAN, cron : DOMAIN Fires \cup {NoCron}, on_deploy : BOOLEAN,
   keep_local : Nat \ {0}, keep_remote : Nat, target : BOOLEAN]

ASSUME BackupsAssumption ==
  /\ MaxRows \in Nat /\ MaxThreads \in Nat /\ MaxVersions \in Nat /\ MaxClock \in Nat
  /\ MaxRemote \in Nat /\ CatchUp \in Nat
  /\ Fires \in [DOMAIN Fires -> SUBSET Nat] /\ NoCron \notin DOMAIN Fires
  /\ Settings \subseteq SettingsType
  /\ Faults \subseteq {"job",      \* a step of a backup raises
                       "remote",   \* the destination refuses
                       "import",   \* an import raises
                       "crash",    \* the server stops and is started again
                       "torn",     \* a job or the server stops while rows and archives differ
                       "reuse"}    \* an id is given out while a thread still uses it

VARIABLES
  clock,
  up,         \* the server runs
  config,     \* the BackupConfig row
  lastRun,    \* its last_run_at
  counter,    \* Project.version_counter: 0 is a project nothing was deployed to
  active,     \* the version a backup without one is of
  rows,       \* the Backup rows
  disk,       \* the archives in the scope's directory
  remote,     \* the archives at the destination
  running,    \* the job under backup:{scope} has status "running"
  thread,     \* the _create_job threads
  scheduler,  \* _tick: "idle", or about to call create_backup
  importing   \* the version an import is to become, 0 without one

vars == <<clock, up, config, lastRun, counter, active, rows, disk, remote, running,
          thread, scheduler, importing>>

Files == [imported : BOOLEAN, version : Versions, ts : Times]
NoFile == [imported |-> FALSE, version |-> 0, ts |-> Never]
Row(status, file, copy) == [status |-> status, file |-> file, remote |-> copy]
NoRow == Row("none", NoFile, "none")
Idle == [pc |-> "none", id |-> 0, file |-> NoFile, doomed |-> {}]

\* Types.
TypeOK ==
  /\ clock \in Times /\ up \in BOOLEAN /\ config \in Settings
  /\ lastRun \in Times \cup {Never}
  /\ counter \in Versions /\ active \in 0..counter
  /\ rows \in [Ids -> [status : {"none", "creating", "ok", "error"},
                       file : Files \cup {NoFile},
                       remote : {"none", "pending", "ok", "error"}]]
  /\ disk \subseteq Files /\ remote \subseteq Files
  /\ running \in BOOLEAN
  /\ thread \in [Threads -> {Idle} \cup [pc : {"build", "packed", "ok", "shipped", "pruned"},
                                         id : Ids, file : Files, doomed : SUBSET Ids]]
  /\ scheduler \in {"idle", "starting"}
  /\ importing \in Versions

Init ==
  /\ clock = 0 /\ up = TRUE
  /\ config \in Settings
  /\ lastRun = Never
  /\ counter = 0 /\ active = 0
  /\ rows = [id \in Ids |-> NoRow]
  /\ disk = {} /\ remote = {}
  /\ running = FALSE
  /\ thread = [t \in Threads |-> Idle]
  /\ scheduler = "idle"
  /\ importing = 0

----------------------------------------------------------------------------
(* Rows, archives and retention *)

Listed == {id \in Ids : rows[id].status # "none"}
Kept == {id \in Listed : rows[id].status = "ok"}

NewId == 1 + Max(Listed \cup {0})

MayGive(id) ==
  /\ id \in Ids
  /\ (\E t \in Threads : id = thread[t].id \/ id \in thread[t].doomed) => "reuse" \in Faults

\* Mutant: the archives are told apart by version before time, as at the destination.
OlderVersion(a, b) ==
  \/ rows[a].file.version < rows[b].file.version
  \/ rows[a].file.version = rows[b].file.version /\ a < b

Older(a, b) ==
  \/ rows[a].file.ts < rows[b].file.ts
  \/ rows[a].file.ts = rows[b].file.ts /\ a < b

\* prune_local: the ok rows beyond the newest keep_local.
Surplus(limit) == {a \in Kept : Cardinality({b \in Kept : Older(a, b)}) >= limit}

\* prune_remote sorts the names, {scope}-v{version}-{time}.
NamedBefore(f, g) == f.version < g.version \/ (f.version = g.version /\ f.ts < g.ts)

RemoteSurplus ==
  IF config.target /\ config.keep_remote >= 1
  THEN {f \in remote : Cardinality({g \in remote : NamedBefore(f, g)}) >= config.keep_remote}
  ELSE {}

FilesOf(ids) == {rows[id].file : id \in ids}
Without(ids) == [id \in Ids |-> IF id \in ids THEN NoRow ELSE rows[id]]

----------------------------------------------------------------------------
(* Starting a backup *)

\* create_backup: the row, the job and its thread. Two archives of one version in one
\* second would have one name: they are started apart.
CreateBackup(version) ==
  LET file == [imported |-> FALSE, version |-> version, ts |-> clock] IN
  /\ MayGive(NewId)
  /\ file \notin FilesOf(Listed) \cup {thread[t].file : t \in Threads}
  /\ rows' = [rows EXCEPT ![NewId] =
                Row("creating", file, IF config.target THEN "pending" ELSE "none")]
  /\ \E t \in Threads :
       /\ thread[t] = Idle /\ \A u \in Threads : u < t => thread[u] # Idle
       /\ thread' = [thread EXCEPT ![t] =
                       [pc |-> "build", id |-> NewId, file |-> file, doomed |-> {}]]
  /\ running' = TRUE

\* POST /projects/{name}/backups: 409 while one runs; a version, or the active one.
Launch ==
  /\ up /\ ~running
  /\ \E version \in (1..counter) \cup {active} : CreateBackup(version)
  /\ UNCHANGED <<clock, up, config, lastRun, counter, active, disk, remote, scheduler, importing>>

\* Mutant: the deploy does not count its version.
DeployEndsUncounted ==
  /\ up /\ importing = 0 /\ counter < MaxVersions
  /\ active' = counter + 1
  /\ UNCHANGED <<clock, up, config, lastRun, counter, rows, disk, remote, running, thread,
                 scheduler, importing>>

\* after_deploy takes a backup whatever else runs.
AfterDeploy(version) ==
  IF config.enabled /\ config.on_deploy
  THEN CreateBackup(version)
  ELSE UNCHANGED <<rows, thread, running>>

\* A deploy ends: its version is active, with a backup or, when after_deploy raises, without.
DeployEnds ==
  /\ up /\ importing = 0 /\ counter < MaxVersions
  /\ counter' = counter + 1 /\ active' = counter + 1
  /\ \/ AfterDeploy(counter + 1)
     \/ "job" \in Faults /\ UNCHANGED <<rows, thread, running>>
  /\ UNCHANGED <<clock, up, config, lastRun, disk, remote, scheduler, importing>>

RollbackEnds ==
  /\ up /\ importing = 0
  /\ active' \in (1..counter) \ {active}
  /\ UNCHANGED <<clock, up, config, lastRun, counter, rows, disk, remote, running, thread,
                 scheduler, importing>>

----------------------------------------------------------------------------
(* The thread that builds an archive *)

Goto(t, pc) == thread' = [thread EXCEPT ![t].pc = pc]

\* A step that writes its row raises when the row has gone.
HasRow(t) == thread[t].pc # "none" /\ rows[thread[t].id].status # "none"

\* Archives were removed and their rows were not, or the row was deleted before its archive.
Torn(t) == thread[t].pc = "pruned" \/ (thread[t].pc = "packed" /\ ~HasRow(t))

Packs(t) ==
  /\ thread[t].pc = "build"
  /\ disk' = disk \cup {thread[t].file}
  /\ Goto(t, "packed")
  /\ UNCHANGED <<rows, remote, running>>

Records(t) ==
  /\ thread[t].pc = "packed" /\ HasRow(t)
  /\ rows' = [rows EXCEPT ![thread[t].id].status = "ok"]
  /\ Goto(t, IF rows[thread[t].id].remote = "pending" THEN "ok" ELSE "shipped")
  /\ UNCHANGED <<disk, remote, running>>

\* Any failure of the destination is an answer, not an exception.
Unreachable == "remote" \in Faults /\ UNCHANGED remote

Uploads(file) ==
  /\ file \in disk /\ Cardinality(remote) < MaxRemote
  /\ remote' = remote \cup {file}

Trims(files) == remote' = remote \ files

\* The upload, if the row asks for one: its failure is only recorded.
Ships(t) ==
  /\ thread[t].pc = "ok" /\ HasRow(t)
  /\ \/ /\ Uploads(thread[t].file)
        /\ rows' = [rows EXCEPT ![thread[t].id].remote = "ok"]
     \/ /\ Unreachable
        /\ rows' = [rows EXCEPT ![thread[t].id].remote = "error"]
  /\ Goto(t, "shipped")
  /\ UNCHANGED <<disk, running>>

\* prune_local removes the archives; their rows go with the commit after prune_remote.
PrunesLocal(t) ==
  /\ thread[t].pc = "shipped"
  /\ disk' = disk \ FilesOf(Surplus(config.keep_local))
  /\ thread' = [thread EXCEPT ![t].pc = "pruned", ![t].doomed = Surplus(config.keep_local)]
  /\ UNCHANGED <<rows, remote, running>>

\* finish_external_job, by key: whichever job is registered now.
Finishes(t) ==
  /\ thread[t].pc = "pruned"
  /\ Trims(RemoteSurplus) \/ Unreachable
  /\ rows' = Without(thread[t].doomed)
  /\ thread' = [thread EXCEPT ![t] = Idle]
  /\ running' = FALSE
  /\ UNCHANGED disk

\* Mutant: the archive of a backup that failed is left where it is.
FailsKeeping(t) ==
  /\ thread[t].pc # "none"
  /\ \/ "job" \in Faults /\ (thread[t].pc = "pruned" => "torn" \in Faults)
     \/ thread[t].pc \in {"packed", "ok"} /\ ~HasRow(t)
  /\ rows' = IF HasRow(t) THEN [rows EXCEPT ![thread[t].id].status = "error"] ELSE rows
  /\ thread' = [thread EXCEPT ![t] = Idle]
  /\ running' = FALSE
  /\ UNCHANGED <<disk, remote>>

\* Whatever raised, and wherever: the row is an error and the archive is removed.
Fails(t) ==
  /\ thread[t].pc # "none"
  /\ \/ "job" \in Faults /\ (thread[t].pc = "pruned" => "torn" \in Faults)
     \/ thread[t].pc \in {"packed", "ok"} /\ ~HasRow(t)
  /\ rows' = IF HasRow(t) THEN [rows EXCEPT ![thread[t].id].status = "error"] ELSE rows
  /\ disk' = disk \ {thread[t].file}
  /\ thread' = [thread EXCEPT ![t] = Idle]
  /\ running' = FALSE
  /\ UNCHANGED remote

CreateJob(t) ==
  /\ up
  /\ \/ Packs(t) \/ Records(t) \/ Ships(t) \/ PrunesLocal(t) \/ Finishes(t) \/ Fails(t)
  /\ UNCHANGED <<clock, up, config, lastRun, counter, active, scheduler, importing>>

----------------------------------------------------------------------------
(* Requests about rows and the configuration *)

\* PUT /projects/{name}/backup-config: last_run_at stays; the new limit prunes at once.
ApplyConfig ==
  /\ up
  /\ config' \in Settings \ {config}
  /\ rows' = Without(Surplus(config'.keep_local))
  /\ disk' = disk \ FilesOf(Surplus(config'.keep_local))
  /\ UNCHANGED <<clock, up, lastRun, counter, active, remote, running, thread, scheduler,
                 importing>>

\* DELETE /projects/{name}/backups/{id}, with or without its remote copy.
DeleteBackup ==
  /\ up
  /\ \E id \in Listed :
       /\ rows' = Without({id})
       /\ disk' = disk \ {rows[id].file}
       /\ \/ UNCHANGED remote
          \/ rows[id].remote = "ok" /\ Trims({rows[id].file})
  /\ UNCHANGED <<clock, up, config, lastRun, counter, active, running, thread, scheduler,
                 importing>>

----------------------------------------------------------------------------
(* Imports, under the project's deploy key *)

\* complete_backup_upload: accepted by a project nothing was deployed to as well.
LaunchImport ==
  /\ up /\ importing = 0 /\ counter < MaxVersions
  /\ importing' = counter + 1
  /\ UNCHANGED <<clock, up, config, lastRun, counter, active, rows, disk, remote, running,
                 thread, scheduler>>

\* _import_job compares the archive's mode with the project's, "pending" before a deploy.
ModesAgree == counter > 0

ImportEnds ==
  /\ up /\ importing # 0 /\ ModesAgree
  /\ MayGive(NewId)
  /\ LET file == [imported |-> TRUE, version |-> importing, ts |-> clock] IN
       /\ rows' = [rows EXCEPT ![NewId] = Row("ok", file, "none")]
       /\ disk' = disk \cup {file}
  /\ counter' = importing /\ importing' = 0
  /\ UNCHANGED <<clock, up, config, lastRun, active, remote, running, thread, scheduler>>

ImportFails ==
  /\ up /\ importing # 0
  /\ ~ModesAgree \/ "import" \in Faults
  /\ importing' = 0
  /\ UNCHANGED <<clock, up, config, lastRun, counter, active, rows, disk, remote, running,
                 thread, scheduler>>

----------------------------------------------------------------------------
(* The scheduler *)

\* croniter(expression, now).get_prev(): there need not be one on this clock.
Passed(cron) == {f \in Fires[cron] : f <= clock}

Scheduled == config.enabled /\ config.cron # NoCron

\* Mutant: a window counts again at the moment it was served.
SinceOrAt(previous) == previous >= lastRun

Since(previous) == previous > lastRun

\* is_due, of a schedule that is armed.
Due ==
  /\ Scheduled /\ lastRun # Never /\ Passed(config.cron) # {}
  /\ LET previous == Max(Passed(config.cron)) IN
       clock - previous <= CatchUp /\ Since(previous)

\* The first tick that sees a schedule only records the time.
Arms ==
  /\ up /\ scheduler = "idle"
  /\ Scheduled /\ lastRun = Never
  /\ lastRun' = clock
  /\ UNCHANGED <<clock, up, config, counter, active, rows, disk, remote, running, thread,
                 scheduler, importing>>

\* Mutant: the scheduler looks at the rows for a backup that is still at work.
MayStartByRows == \A id \in Listed : rows[id].status # "creating"

MayStart == ~running

\* last_run_at is committed before the backup is created.
Takes ==
  /\ up /\ scheduler = "idle"
  /\ Due /\ MayStart
  /\ lastRun' = clock
  /\ scheduler' = "starting"
  /\ UNCHANGED <<clock, up, config, counter, active, rows, disk, remote, running, thread,
                 importing>>

Starts ==
  /\ up /\ scheduler = "starting"
  /\ CreateBackup(active)
  /\ scheduler' = "idle"
  /\ UNCHANGED <<clock, up, config, lastRun, counter, active, disk, remote, importing>>

\* create_backup raised, or no row or thread is left in the model: the window is spent.
FailsToStart ==
  /\ up /\ scheduler = "starting"
  /\ scheduler' = "idle"
  /\ UNCHANGED <<clock, up, config, lastRun, counter, active, rows, disk, remote, running,
                 thread, importing>>

Tick == Arms \/ Takes \/ Starts \/ FailsToStart

----------------------------------------------------------------------------
(* Time and the server *)

Advance ==
  /\ clock < MaxClock
  /\ clock' = clock + 1
  /\ UNCHANGED <<up, config, lastRun, counter, active, rows, disk, remote, running, thread,
                 scheduler, importing>>

\* The registry and every thread are gone; rows and archives stay as they are.
Crash ==
  /\ "crash" \in Faults /\ up
  /\ \A t \in Threads : Torn(t) => "torn" \in Faults
  /\ up' = FALSE
  /\ running' = FALSE
  /\ thread' = [t \in Threads |-> Idle]
  /\ scheduler' = "idle" /\ importing' = 0
  /\ UNCHANGED <<clock, config, lastRun, counter, active, rows, disk, remote>>

Boot ==
  /\ ~up /\ up' = TRUE
  /\ UNCHANGED <<clock, config, lastRun, counter, active, rows, disk, remote, running, thread,
                 scheduler, importing>>

Next ==
  \/ Launch \/ DeployEnds \/ RollbackEnds
  \/ \E t \in Threads : CreateJob(t)
  \/ ApplyConfig \/ DeleteBackup
  \/ LaunchImport \/ ImportEnds \/ ImportFails
  \/ Tick
  \/ Advance \/ Crash \/ Boot

Spec == Init /\ [][Next]_vars

\* Threads that run are scheduled, the scheduler wakes every minute, systemd starts the server.
FairSpec ==
  /\ Spec
  /\ \A t \in Threads : WF_vars(CreateJob(t))
  /\ WF_vars(Tick) /\ WF_vars(Boot)

----------------------------------------------------------------------------
(* Properties *)

Doomed == UNION {thread[t].doomed : t \in Threads}

\* A row that says ok has its archive on the disk until the row goes with it, and no archive
\* is left that no row names: whatever raises or crashes, and although two backups, the
\* retention of each, the configuration's and DELETE work on the same rows and files.
ArchivesMatchRows ==
  /\ FilesOf(Kept \ Doomed) \subseteq disk
  /\ disk \subseteq FilesOf(Listed) \cup {thread[t].file : t \in Threads}

Retained ==
  \A id \in Kept \ Doomed :
    rows[id].file \notin disk' =>
      \/ DeleteBackup
      \/ \E t \in Threads : Fails(t) /\ thread[t].id = id
      \/ \E b \in Kept \ {id} :
           /\ rows[b].file.ts >= rows[id].file.ts
           /\ rows[b].file \in disk' \/ b \in Doomed

\* An archive only goes when it is deleted, when its own backup fails, or when one taken no
\* earlier stays: retention never costs the newest archive, although it runs while others are
\* between their row, their archive and their own retention, and while the limit changes.
\* (A newer row counts although the retention of another backup has just removed its archive.)
RetainsNewest == [][Retained]_vars

NewWindow ==
  scheduler = "idle" /\ scheduler' = "starting" =>
    \E f \in UNION {Fires[c] : c \in DOMAIN Fires} : lastRun < f /\ f <= lastRun'

\* No window is served twice: the scheduler takes a window only if no run since it is on
\* record, across crashes between the record and the backup, and across new schedules.
OneRunPerWindow == [][NewWindow]_vars

\* A window that is due is taken up, after a crash as well, unless backups keep running.
DueWindowsAreTaken == []<>(~up \/ running \/ ~Due)

\* An archive the route accepts becomes a version: only a step that fails prevents it.
AcceptedImportsLand ==
  [][importing # 0 /\ importing' = 0 /\ up' => counter' = importing]_vars
=============================================================================
