----------------------------- MODULE ComposeDeploy -----------------------------
(***************************************************************************)
(* Compose-mode deploys of one project: uploads and git deploys that       *)
(* replace the project directory and provision it, the phased jobs that    *)
(* deploy, roll back, restart, take down and restore a volume, and the     *)
(* aborts, limit changes, deletes and crashes in between.                  *)
(*                                                                         *)
(* A version is an image tag, a snapshot of the project directory and a    *)
(* database row.  There is one stack of containers: a deploy takes it down *)
(* and brings the new version up, pinned to its tag by a file in the       *)
(* project directory.  The project has one exposed service.                *)
(*                                                                         *)
(* Jobs are numbered in launch order; an upload and the deploy it launches *)
(* are one job.  A deploy job j adds at most one version row, rows[j], and *)
(* an image or a file remembers the job whose upload it comes from.        *)
(***************************************************************************)
EXTENDS Naturals, FiniteSets

CONSTANTS
  MaxJobs,       \* bound: jobs a behaviour may launch
  MaxVersions,   \* bound: versions a behaviour may cut
  PortRange,     \* the loopback ports freeholdy may hand out
  Limits,        \* values PUT /backup-limit may set
  DefaultLimit,  \* backup_limit of a new project
  Overlap,       \* operations clients may issue while another one is in flight
  Faults         \* what the environment may do: see FaultKinds

Operations == {"deploy", "rollback", "restart", "down", "restore", "limit", "delete"}

\* crash: the API server dies.  lock: a write waits too long for the database.
\* docker: a docker command fails halfway.  badapp: the stack starts but a service
\* does not stay up.  abort: a client aborts the job.  vhost: nginx rejects a
\* configuration it is given.  neighbours: other projects take and free ports.
FaultKinds == {"crash", "lock", "docker", "badapp", "abort", "vhost", "neighbours"}

ASSUME ComposeAssumption ==
  /\ MaxJobs \in Nat
  /\ MaxVersions \in Nat
  /\ PortRange \subseteq Nat \ {0}
  /\ Limits \subseteq Nat
  /\ DefaultLimit \in Nat
  /\ Overlap \subseteq Operations
  /\ Faults \subseteq FaultKinds

VARIABLES
  project,     \* the Project row and its service's port, or NoProject
  rows,        \* the ProjectVersion rows, by the job that added them
  nginx,       \* the upstream port of the project's vhost
  files,       \* the project directory: whose files, its pin file, its override's port
  snapshots,   \* for each version, the directory saved for it
  tags,        \* for each version, the image retained under its tag
  built,       \* the image of the last docker compose build
  stack,       \* the containers: their state, image, compose file and host port
  neighbours,  \* ports recorded and used by other projects
  jobs,        \* every job: where it is, and what it captured
  status,      \* every job's DockerJob.status
  registered,  \* the job docker_service holds under compose:{name}
  pruneDue,    \* PUT /backup-limit has committed and not yet pruned
  teardown     \* how far DELETE /projects/{name} has come, and the rows it loaded

vars == <<project, rows, nginx, files, snapshots, tags, built, stack, neighbours,
          jobs, status, registered, pruneDue, teardown>>

-----------------------------------------------------------------------------
Jobs == 1..MaxJobs
NoJob == 0

Versions == 1..MaxVersions
Names == 0..MaxVersions       \* 0: no version

NoPort == 0
Ports == PortRange \cup {NoPort}

Kinds == {"deploy", "git", "rollback", "restart", "down", "restore"}
Deploys == {"deploy", "git"}

NoProject == [exists |-> FALSE, counter |-> 0, limit |-> DefaultLimit, port |-> NoPort]
NewProject == [NoProject EXCEPT !.exists = TRUE]

NoRow == [version |-> 0, status |-> "absent"]

NoFiles == [source |-> NoJob, pin |-> 0, port |-> NoPort]

NoStack == [state |-> "absent", image |-> NoJob, files |-> NoJob, port |-> NoPort]

Unused == [kind |-> "none", pc |-> "unused", version |-> 0, previous |-> 0, port |-> NoPort,
           pinned |-> FALSE, tagged |-> FALSE, killed |-> FALSE, counter |-> 0,
           limit |-> 0, outcome |-> "none"]

NoTeardown == [step |-> "none", doomed |-> {}]

Present(r) == rows[r].status # "absent"

\* docker compose needs the compose file and the generated override.
Usable(f) == f.source # NoJob /\ f.port # NoPort

InFlight(j) == jobs[j].pc \notin {"unused", "over"}

\* SQLite's write lock is held from the flush that drops the service rows to the
\* commit that records the new port, and from the flush of a promote to its commit.
Unlocked == \A j \in Jobs : jobs[j].pc \notin {"vhost", "record", "commit"}

\* No operation of the project is being carried out.
Idle ==
  /\ \A j \in Jobs : ~InFlight(j)
  /\ ~pruneDue
  /\ teardown = NoTeardown

\* Clients issue operations of these kinds at any time, others when all is idle.
Admits(op) == op \in Overlap \/ Idle

\* Jobs are taken in order, so a job's number says when it was launched.
IsNext(j) == \A i \in Jobs : (jobs[i].pc = "unused") <=> (i >= j)

\* The job registered under the key now has been aborted.
Aborted == registered # NoJob /\ status[registered] = "aborted"

-----------------------------------------------------------------------------
(* Ports, images and what docker compose does *)

\* Mutant: the project's own old port is not freed first.
FreePortsKeepingOwn == PortRange \ (neighbours \cup {project.port})

\* The project's own service rows have been dropped when a port is chosen.
FreePorts == PortRange \ neighbours

NextPort == CHOOSE p \in FreePorts : \A q \in FreePorts : p <= q

\* The image an `up` on directory f runs: the pinned tag, or the built one.
Image(f, pinned) ==
  IF ~pinned THEN built ELSE IF f.pin = 0 THEN NoJob ELSE tags[f.pin]

\* compose_missing_images: the next `up` has no image to run.
MissingImages ==
  IF files.pin # 0 THEN tags[files.pin] = NoJob ELSE Usable(files) /\ built = NoJob

\* What docker compose up -d --no-build may leave, and whether it exits with 0; killed
\* says that an abort has terminated it.
UpResults(f, pinned, killed) ==
  LET image == Image(f, pinned)
      runs == Usable(f) /\ image # NoJob
      new(s) == [state |-> s, image |-> image, files |-> f.source, port |-> f.port]
      fails == {[ok |-> FALSE, stack |-> stack], [ok |-> FALSE, stack |-> new("partial")]} IN
  IF ~runs THEN {[ok |-> FALSE, stack |-> stack]}
  ELSE IF f.port \in neighbours THEN {[ok |-> FALSE, stack |-> new("partial")]}
  ELSE {[ok |-> TRUE, stack |-> new("up")]}
       \cup (IF "badapp" \in Faults THEN {[ok |-> TRUE, stack |-> new("partial")]} ELSE {})
       \cup (IF "docker" \in Faults \/ killed THEN fails ELSE {})

\* What docker compose down, or stop, may leave.
QuitResults(quit, killed) ==
  (IF Usable(files) THEN {[ok |-> TRUE, stack |-> quit]} ELSE {})
  \cup (IF ~Usable(files) \/ "docker" \in Faults \/ killed
        THEN {[ok |-> FALSE, stack |-> stack]} ELSE {})

Stopped == IF stack.state = "absent" THEN stack ELSE [stack EXCEPT !.state = "stopped"]

-----------------------------------------------------------------------------
(* Version bookkeeping *)

\* Mutant: one archived version too many is kept.
ExcessByOne(t, l) ==
  {r \in Jobs :
     /\ t[r].status = "archived"
     /\ Cardinality({q \in Jobs :
          t[q].status = "archived" /\ t[q].version > t[r].version}) > l}

\* The archived rows of t with at least l archived rows of later versions.
Excess(t, l) ==
  {r \in Jobs :
     /\ t[r].status = "archived"
     /\ Cardinality({q \in Jobs :
          /\ t[q].status = "archived"
          /\ \/ t[q].version > t[r].version
             \/ t[q].version = t[r].version /\ q > r}) >= l}

Pruned(t, l) == [r \in Jobs |-> IF r \in Excess(t, l) THEN NoRow ELSE t[r]]

\* Versions that t records and the pruned table u does not.
Forgotten(t, u) ==
  {t[r].version : r \in {q \in Jobs : t[q].status # "absent" /\ u[q].status = "absent"}}

\* remove_compose_version_artifacts: tags and snapshots without those of gone.
TagsWithout(gone) == [n \in Versions |-> IF n \in gone THEN NoJob ELSE tags[n]]
SnapshotsWithout(gone) == [n \in Names |-> IF n \in gone THEN NoFiles ELSE snapshots[n]]

-----------------------------------------------------------------------------
ProjectRecords ==
  [exists : BOOLEAN, counter : Names, limit : Limits \cup {DefaultLimit}, port : Ports]

RowRecords == [version : Names, status : {"absent", "active", "archived"}]

Directories == [source : Jobs \cup {NoJob}, pin : Names, port : Ports]

StackRecords ==
  [state : {"absent", "stopped", "partial", "up"}, image : Jobs \cup {NoJob},
   files : Jobs \cup {NoJob}, port : Ports]

JobRecords ==
  [kind : Kinds \cup {"none"},
   pc : {"unused", "clone", "provision", "vhost", "record", "launch", "build", "tag", "down", "up",
         "recover", "replace", "copy", "halt", "extract", "promote", "archive", "commit",
         "fail", "finish", "exited", "over"},
   version : Names, previous : Names, port : Ports, pinned : BOOLEAN, tagged : BOOLEAN, killed : BOOLEAN,
   counter : Names, limit : Limits \cup {DefaultLimit, 0},
   outcome : {"none", "ok", "failed"}]

TypeOK ==
  /\ project \in ProjectRecords
  /\ rows \in [Jobs -> RowRecords]
  /\ nginx \in Ports
  /\ files \in Directories
  /\ snapshots \in [Names -> Directories]
  /\ tags \in [Versions -> Jobs \cup {NoJob}]
  /\ built \in Jobs \cup {NoJob}
  /\ stack \in StackRecords
  /\ neighbours \subseteq PortRange
  /\ jobs \in [Jobs -> JobRecords]
  /\ status \in [Jobs -> {"none", "running", "done", "error", "aborted", "lost"}]
  /\ registered \in Jobs \cup {NoJob}
  /\ pruneDue \in BOOLEAN
  /\ teardown \in [step : {"none", "nginx", "row"}, doomed : SUBSET Jobs]

\* Other projects may be there before this one.
Init ==
  /\ project = NoProject
  /\ rows = [r \in Jobs |-> NoRow]
  /\ nginx = NoPort
  /\ files = NoFiles
  /\ snapshots = [n \in Names |-> NoFiles]
  /\ tags = [n \in Versions |-> NoJob]
  /\ built = NoJob
  /\ stack = NoStack
  /\ neighbours \in {{}} \cup (IF "neighbours" \in Faults THEN SUBSET PortRange ELSE {})
  /\ jobs = [j \in Jobs |-> Unused]
  /\ status = [j \in Jobs |-> "none"]
  /\ registered = NoJob
  /\ pruneDue = FALSE
  /\ teardown = NoTeardown

-----------------------------------------------------------------------------
Database == <<project, rows>>
Images == <<tags, built>>
Registry == <<status, registered>>
Requests == <<pruneDue, teardown>>

\* Job j goes on to pc, its command having ended.
Goto(j, pc) == jobs' = [jobs EXCEPT ![j].pc = pc, ![j].killed = FALSE]

\* Job j goes on to pc if the phase succeeded and nothing was aborted.
GotoIf(j, ok, pc) == Goto(j, IF ok /\ ~Aborted THEN pc ELSE "fail")

Over(j) == jobs' = [jobs EXCEPT ![j] = [Unused EXCEPT !.kind = jobs[j].kind, !.pc = "over"]]

\* The job is put under the project's key, whatever is registered there.
Register(j) ==
  /\ registered' = j
  /\ status' = [status EXCEPT ![j] = "running"]

-----------------------------------------------------------------------------
(* Uploads and git deploys *)

\* The project row is created if there is none.  An upload is written over what
\* the project directory holds; a git deploy clears the directory first.
Upload(j) ==
  /\ IsNext(j) /\ Admits("deploy")
  /\ project' = IF project.exists THEN project ELSE NewProject
  /\ \/ /\ files' = [files EXCEPT !.source = j]
        /\ jobs' = [jobs EXCEPT ![j] = [Unused EXCEPT !.kind = "deploy", !.pc = "provision"]]
     \/ /\ files' = NoFiles
        /\ jobs' = [jobs EXCEPT ![j] = [Unused EXCEPT !.kind = "git", !.pc = "clone"]]
  /\ UNCHANGED <<rows, nginx, snapshots, Images, stack, neighbours, Registry, Requests>>

Clone(j) ==
  /\ jobs[j].pc = "clone"
  /\ \/ /\ files' = [NoFiles EXCEPT !.source = j]
        /\ Goto(j, "provision")
     \/ /\ files' = NoFiles
        /\ Over(j)
  /\ UNCHANGED <<Database, nginx, snapshots, Images, stack, neighbours, Registry, Requests>>

\* provision_compose drops the service rows, takes the lowest free port and
\* writes the override; a rollback does so too.
Provision(j) ==
  /\ jobs[j].pc = "provision" /\ Unlocked
  /\ project.exists /\ files.source # NoJob /\ FreePorts # {}
  /\ files' = [files EXCEPT !.port = NextPort]
  /\ jobs' = [jobs EXCEPT ![j].pc = "vhost", ![j].port = NextPort]
  /\ UNCHANGED <<Database, nginx, snapshots, Images, stack, neighbours, Registry, Requests>>

\* A failed provisioning ends the request, or fails the rollback.
Unprovisioned(j) == IF jobs[j].kind = "rollback" THEN Goto(j, "fail") ELSE Over(j)

\* The project or its directory is gone, or no port is free.  A git deploy drops
\* what it cloned.
ProvisionFails(j) ==
  /\ jobs[j].pc = "provision"
  /\ ~project.exists \/ files.source = NoJob \/ FreePorts = {}
  /\ files' = IF jobs[j].kind = "git" /\ project.exists THEN NoFiles ELSE files
  /\ Unprovisioned(j)
  /\ UNCHANGED <<Database, nginx, snapshots, Images, stack, neighbours, Registry, Requests>>

\* setup_nginx writes the vhost with the new port and asks for certificates;
SetupNginx(j) ==
  /\ jobs[j].pc = "vhost"
  /\ nginx' = jobs[j].port
  /\ Goto(j, "record")
  /\ UNCHANGED <<Database, files, snapshots, Images, stack, neighbours, Registry, Requests>>

\* then the new service rows, with the port, are committed.
RecordPort(j) ==
  /\ jobs[j].pc = "record"
  /\ project' = [project EXCEPT !.port = jobs[j].port]
  /\ Goto(j, IF jobs[j].kind = "rollback" THEN "up" ELSE "launch")
  /\ UNCHANGED <<rows, nginx, files, snapshots, Images, stack, neighbours, Registry,
                 Requests>>

\* nginx rejects the vhost: the transaction is rolled back and the vhost removed.
RejectVhost(j) ==
  /\ "vhost" \in Faults
  /\ jobs[j].pc = "vhost"
  /\ nginx' = NoPort
  /\ files' = IF jobs[j].kind = "git" THEN NoFiles ELSE files
  /\ Unprovisioned(j)
  /\ UNCHANGED <<Database, snapshots, Images, stack, neighbours, Registry, Requests>>

\* compose_bluegreen_deploy reads the next version number and the active version,
\* registers the job and starts its thread.
Launch(j) ==
  /\ jobs[j].pc = "launch" /\ project.exists /\ project.counter < MaxVersions
  /\ jobs' = [jobs EXCEPT ![j].pc = "build", ![j].version = project.counter + 1,
       ![j].pinned = TRUE,
       ![j].previous = IF \E r \in Jobs : rows[r].status = "active"
                       THEN rows[CHOOSE r \in Jobs : rows[r].status = "active"].version
                       ELSE 0]
  /\ Register(j)
  /\ UNCHANGED <<Database, nginx, files, snapshots, Images, stack, neighbours, Requests>>

\* The project is gone.  (Or the model's bound on versions is reached.)
LaunchRefused(j) ==
  /\ jobs[j].pc = "launch"
  /\ ~project.exists \/ project.counter = MaxVersions
  /\ Over(j)
  /\ UNCHANGED <<Database, nginx, files, snapshots, Images, stack, neighbours, Registry,
                 Requests>>

-----------------------------------------------------------------------------
(* The other operations that launch a job *)

\* POST /rollback to a recorded version that is not active and has a snapshot.
LaunchRollback(j) ==
  /\ IsNext(j) /\ Admits("rollback") /\ project.exists
  /\ \E r \in Jobs :
       /\ rows[r].status = "archived"
       /\ \A q \in 1..(r - 1) : rows[q].version # rows[r].version
       /\ snapshots[rows[r].version] # NoFiles
       /\ jobs' = [jobs EXCEPT ![j] =
            [Unused EXCEPT !.kind = "rollback", !.pc = "down", !.version = rows[r].version,
                           !.pinned = TRUE]]
  /\ Register(j)
  /\ UNCHANGED <<Database, nginx, files, snapshots, Images, stack, neighbours, Requests>>

\* Mutant: a restart leaves the pin file out.
LaunchRestartUnpinned(j) ==
  /\ IsNext(j) /\ Admits("restart") /\ project.exists /\ project.port # NoPort
  /\ ~MissingImages /\ files.source # NoJob
  /\ files' = [files EXCEPT !.port = project.port]
  /\ jobs' = [jobs EXCEPT ![j] = [Unused EXCEPT !.kind = "restart", !.pc = "up"]]
  /\ Register(j)
  /\ UNCHANGED <<Database, nginx, snapshots, Images, stack, neighbours, Requests>>

\* POST /restart, refused when an image is missing, rewrites the override and
\* starts docker compose up.
LaunchRestart(j) ==
  /\ IsNext(j) /\ Admits("restart") /\ project.exists /\ project.port # NoPort
  /\ ~MissingImages /\ files.source # NoJob
  /\ files' = [files EXCEPT !.port = project.port]
  /\ jobs' = [jobs EXCEPT ![j] =
       [Unused EXCEPT !.kind = "restart", !.pc = "up", !.pinned = (files.pin # 0)]]
  /\ Register(j)
  /\ UNCHANGED <<Database, nginx, snapshots, Images, stack, neighbours, Requests>>

LaunchDown(j) ==
  /\ IsNext(j) /\ Admits("down") /\ project.exists /\ project.port # NoPort
  /\ files.port # NoPort
  /\ jobs' = [jobs EXCEPT ![j] = [Unused EXCEPT !.kind = "down", !.pc = "down"]]
  /\ Register(j)
  /\ UNCHANGED <<Database, nginx, files, snapshots, Images, stack, neighbours, Requests>>

\* The archive for a volume is complete: refused when an image is missing.
LaunchRestore(j) ==
  /\ IsNext(j) /\ Admits("restore") /\ project.exists /\ project.port # NoPort
  /\ ~MissingImages
  /\ jobs' = [jobs EXCEPT ![j] = [Unused EXCEPT !.kind = "restore", !.pc = "halt"]]
  /\ Register(j)
  /\ UNCHANGED <<Database, nginx, files, snapshots, Images, stack, neighbours, Requests>>

-----------------------------------------------------------------------------
(* The phases of a job.  Each runs a command to its end, then looks whether the  *)
(* job under the key has been aborted.                                           *)

\* docker compose config, build and pull, on what the directory holds now.
Build(j) ==
  /\ jobs[j].pc = "build"
  /\ \/ /\ Usable(files)
        /\ built' = files.source
        /\ GotoIf(j, TRUE, "tag")
     \/ /\ Goto(j, "fail")
        /\ UNCHANGED built
  /\ UNCHANGED <<Database, nginx, files, snapshots, tags, stack, neighbours, Registry,
                 Requests>>

\* Mutant: a pin file that is there is not written again.
TagFirstPin(j) ==
  /\ jobs[j].pc = "tag"
  /\ built # NoJob /\ files.source # NoJob
  /\ tags' = [tags EXCEPT ![jobs[j].version] = built]
  /\ files' = IF files.pin = 0 THEN [files EXCEPT !.pin = jobs[j].version] ELSE files
  /\ jobs' = [jobs EXCEPT ![j].pc = IF Aborted THEN "fail" ELSE "down", ![j].tagged = TRUE]
  /\ UNCHANGED <<Database, nginx, snapshots, built, stack, neighbours, Registry, Requests>>

\* docker tag, then the pin file.
Tag(j) ==
  LET n == jobs[j].version IN
  /\ jobs[j].pc = "tag"
  /\ \/ /\ built # NoJob /\ files.source # NoJob
        /\ tags' = [tags EXCEPT ![n] = built]
        /\ files' = [files EXCEPT !.pin = n]
        /\ jobs' = [jobs EXCEPT ![j].pc = IF Aborted THEN "fail" ELSE "down",
                                ![j].tagged = TRUE]
     \/ /\ built = NoJob \/ files.source = NoJob \/ "docker" \in Faults
        /\ jobs' = [jobs EXCEPT ![j].pc = "fail",
                                ![j].tagged = (built # NoJob /\ files.source = NoJob)]
        /\ UNCHANGED <<tags, files>>
  /\ UNCHANGED <<Database, nginx, snapshots, built, stack, neighbours, Registry, Requests>>

\* docker compose down; a rollback skips it when there is no override.
Down(j) ==
  /\ jobs[j].pc = "down"
  /\ \/ /\ jobs[j].kind = "rollback" /\ files.port = NoPort
        /\ Goto(j, "replace")
        /\ UNCHANGED stack
     \/ /\ jobs[j].kind # "rollback" \/ files.port # NoPort
        /\ \E res \in QuitResults(NoStack, jobs[j].killed) :
             /\ stack' = res.stack
             /\ CASE jobs[j].kind \in Deploys -> GotoIf(j, res.ok, "up")
                  [] jobs[j].kind = "rollback" -> GotoIf(j, res.ok, "replace")
                  [] OTHER -> jobs' = [jobs EXCEPT ![j].pc = "exited", ![j].killed = FALSE,
                                         ![j].outcome = IF res.ok THEN "ok" ELSE "failed"]
  /\ UNCHANGED <<Database, nginx, files, snapshots, Images, neighbours, Registry, Requests>>

\* A rollback removes the project directory ...
Replace(j) ==
  /\ jobs[j].pc = "replace"
  /\ files' = NoFiles
  /\ Goto(j, "copy")
  /\ UNCHANGED <<Database, nginx, snapshots, Images, stack, neighbours, Registry, Requests>>

\* ... and copies the version's snapshot in its place.
Copy(j) ==
  LET snapshot == snapshots[jobs[j].version] IN
  /\ jobs[j].pc = "copy"
  /\ files' = IF snapshot = NoFiles THEN files ELSE snapshot
  /\ Goto(j, IF snapshot = NoFiles THEN "fail" ELSE "provision")
  /\ UNCHANGED <<Database, nginx, snapshots, Images, stack, neighbours, Registry, Requests>>

\* docker compose up -d --no-build.
Up(j) ==
  /\ jobs[j].pc = "up"
  /\ \E res \in UpResults(files, jobs[j].pinned, jobs[j].killed) :
       /\ stack' = res.stack
       /\ CASE jobs[j].kind \in Deploys ->
                 Goto(j, IF res.ok /\ ~Aborted THEN "promote"
                         ELSE IF jobs[j].previous # 0 THEN "recover" ELSE "fail")
            [] jobs[j].kind = "rollback" -> GotoIf(j, res.ok, "promote")
            [] jobs[j].kind = "restore" ->
                 Goto(j, IF res.ok /\ jobs[j].outcome = "ok" THEN "finish" ELSE "fail")
            [] OTHER -> jobs' = [jobs EXCEPT ![j].pc = "exited", ![j].killed = FALSE,
                                   ![j].outcome = IF res.ok THEN "ok" ELSE "failed"]
  /\ UNCHANGED <<Database, nginx, files, snapshots, Images, neighbours, Registry, Requests>>

\* After a failed up, the previous version is brought up from its own snapshot.
Recover(j) ==
  LET snapshot == snapshots[jobs[j].previous] IN
  /\ jobs[j].pc = "recover"
  /\ IF snapshot = NoFiles THEN UNCHANGED stack
     ELSE \E res \in UpResults(snapshot, TRUE, jobs[j].killed) : stack' = res.stack
  /\ Goto(j, "fail")
  /\ UNCHANGED <<Database, nginx, files, snapshots, Images, neighbours, Registry, Requests>>

\* Mutant: a stop that fails is ignored.
HaltAnyway(j) ==
  /\ jobs[j].pc = "halt"
  /\ \E res \in QuitResults(Stopped, jobs[j].killed) : stack' = res.stack
  /\ Goto(j, "extract")
  /\ UNCHANGED <<Database, nginx, files, snapshots, Images, neighbours, Registry, Requests>>

\* A volume restore stops the stack ...
Halt(j) ==
  /\ jobs[j].pc = "halt"
  /\ \E res \in QuitResults(Stopped, jobs[j].killed) :
       /\ stack' = res.stack
       /\ GotoIf(j, res.ok, "extract")
  /\ UNCHANGED <<Database, nginx, files, snapshots, Images, neighbours, Registry, Requests>>

\* ... and replaces the volume's contents.  Whatever comes of it, the stack is
\* started again.
Extract(j) ==
  /\ jobs[j].pc = "extract"
  /\ \E o \in {"ok"} \cup (IF "docker" \in Faults \/ jobs[j].killed
                                THEN {"failed"} ELSE {}) :
       jobs' = [jobs EXCEPT ![j].pc = "up", ![j].killed = FALSE, ![j].outcome = o,
                            ![j].pinned = (files.pin # 0)]
  /\ UNCHANGED <<Database, nginx, files, snapshots, Images, stack, neighbours, Registry,
                 Requests>>

-----------------------------------------------------------------------------
(* Promotion *)

\* The project is loaded and the containers looked at; a deploy then saves the
\* project directory as the version's snapshot.
Promote(j) ==
  LET deploy == jobs[j].kind \in Deploys IN
  /\ jobs[j].pc = "promote"
  /\ snapshots' = IF deploy /\ project.exists
                  THEN [snapshots EXCEPT ![jobs[j].version] = files] ELSE snapshots
  /\ IF project.exists /\ (deploy => files.source # NoJob)
     THEN jobs' = [jobs EXCEPT ![j].pc = "archive",
            ![j].counter = project.counter, ![j].limit = project.limit,
            ![j].outcome = IF stack.state = "up" THEN "ok" ELSE "failed"]
     ELSE Goto(j, "fail")
  /\ UNCHANGED <<Database, nginx, files, Images, stack, neighbours, Registry, Requests>>

\* The row a promote makes active.
Target(j) ==
  IF jobs[j].kind \in Deploys THEN {j}
  ELSE {r \in Jobs : /\ Present(r) /\ rows[r].version = jobs[j].version
                     /\ \A q \in 1..(r - 1) : rows[q].version # rows[r].version}

\* Mutant: the previous version becomes inactive, as with Dockerfile deploys.
ShuffledInactive(j) ==
  [r \in Jobs |->
     IF r \in Target(j) THEN [version |-> jobs[j].version, status |-> "active"]
     ELSE IF rows[r].status = "active" THEN [rows[r] EXCEPT !.status = "inactive"]
     ELSE rows[r]]

\* The target becomes active, every other active version archived.
Shuffled(j) ==
  [r \in Jobs |->
     IF r \in Target(j) THEN [version |-> jobs[j].version, status |-> "active"]
     ELSE IF rows[r].status = "active" /\ rows[r].version # jobs[j].version
       THEN [rows[r] EXCEPT !.status = "archived"]
     ELSE rows[r]]

\* Mutant: nothing is pruned.
FinalUnpruned(j) == Shuffled(j)

\* The rows written: pruned to the limit that was loaded.
Final(j) == Pruned(Shuffled(j), jobs[j].limit)

\* The flush takes the write lock; then the forgotten versions' tags and snapshots
\* are removed.
Archive(j) ==
  LET gone == Forgotten(Shuffled(j), Final(j)) IN
  /\ jobs[j].pc = "archive" /\ Unlocked
  /\ IF project.exists /\ Target(j) # {}
     THEN /\ tags' = TagsWithout(gone)
          /\ snapshots' = SnapshotsWithout(gone)
          /\ Goto(j, "commit")
     ELSE /\ Goto(j, "fail")
          /\ UNCHANGED <<tags, snapshots>>
  /\ UNCHANGED <<Database, nginx, files, built, stack, neighbours, Registry, Requests>>

\* A flush waits for another writer until SQLite gives up.
LockTimeout(j) ==
  /\ ~Unlocked \/ "lock" \in Faults
  /\ \/ jobs[j].pc = "archive" /\ Goto(j, "fail")
     \/ jobs[j].pc = "provision" /\ Unprovisioned(j)
  /\ UNCHANGED <<Database, nginx, files, snapshots, Images, stack, neighbours, Registry,
                 Requests>>

\* Mutant: the counter is the version made active.
CounterAfterAny(j) == jobs[j].version

\* A deploy raises the counter it loaded to its version.
CounterAfter(j) ==
  IF jobs[j].kind \in Deploys /\ jobs[j].version > jobs[j].counter
  THEN jobs[j].version ELSE project.counter

Commit(j) ==
  /\ jobs[j].pc = "commit"
  /\ rows' = Final(j)
  /\ project' = [project EXCEPT !.counter = CounterAfter(j)]
  /\ Goto(j, "finish")
  /\ UNCHANGED <<nginx, files, snapshots, Images, stack, neighbours, Registry, Requests>>

\* finish_external_job records the outcome in the job registered under the key.
Finished(j, outcome) ==
  /\ status' = IF registered = NoJob THEN status
               ELSE [status EXCEPT ![registered] = IF @ = "running" THEN outcome ELSE @]
  /\ Over(j)
  /\ UNCHANGED registered

Finish(j) ==
  /\ jobs[j].pc = "finish"
  /\ Finished(j, IF jobs[j].outcome = "ok" THEN "done" ELSE "error")
  /\ UNCHANGED <<Database, nginx, files, snapshots, Images, stack, neighbours, Requests>>

\* Mutant: the tags of a failed deploy are kept.
FailKeepingTags(j) ==
  /\ jobs[j].pc = "fail"
  /\ Finished(j, "error")
  /\ UNCHANGED <<Database, nginx, files, snapshots, Images, stack, neighbours, Requests>>

\* Mutant: every job that fails removes the tags of its version.
FailUntagging(j) ==
  /\ jobs[j].pc = "fail"
  /\ tags' = TagsWithout({jobs[j].version})
  /\ Finished(j, "error")
  /\ UNCHANGED <<Database, nginx, files, snapshots, built, stack, neighbours, Requests>>

\* Mutant: a deploy that fails does not finish its job.
FailQuietly(j) ==
  /\ jobs[j].pc = "fail"
  /\ Over(j)
  /\ UNCHANGED <<Database, nginx, files, snapshots, Images, stack, neighbours, Registry,
                 Requests>>

\* A failed deploy removes the tags it made; its pin file stays.
Fail(j) ==
  /\ jobs[j].pc = "fail"
  /\ tags' = IF jobs[j].tagged THEN TagsWithout({jobs[j].version}) ELSE tags
  /\ Finished(j, "error")
  /\ UNCHANGED <<Database, nginx, files, snapshots, built, stack, neighbours, Requests>>

\* _monitor_job records the outcome of a restart or a down in that job.
Monitor(j) ==
  /\ jobs[j].pc = "exited"
  /\ status' = [status EXCEPT ![j] = IF @ # "running" THEN @
                                     ELSE IF jobs[j].outcome = "ok" THEN "done" ELSE "error"]
  /\ Over(j)
  /\ UNCHANGED <<Database, nginx, files, snapshots, Images, stack, neighbours, registered,
                 Requests>>

-----------------------------------------------------------------------------
(* abort, PUT /backup-limit, DELETE /projects/{name} and the surroundings *)

\* Job j is running a command that abort_job can terminate.
Commanding(j) == jobs[j].pc \in {"build", "down", "up", "recover", "halt", "extract"}

\* abort_job terminates the last command started under the key, which may have ended,
\* and marks the registered job; it does nothing to a job that is not running.
AbortRegistered ==
  IF registered # NoJob /\ status[registered] = "running"
  THEN /\ status' = [status EXCEPT ![registered] = "aborted"]
       /\ \/ UNCHANGED jobs
          \/ \E j \in Jobs : Commanding(j) /\ jobs' = [jobs EXCEPT ![j].killed = TRUE]
  ELSE UNCHANGED <<jobs, status>>

Abort ==
  /\ "abort" \in Faults
  /\ registered # NoJob /\ status[registered] = "running"
  /\ AbortRegistered
  /\ UNCHANGED <<Database, nginx, files, snapshots, Images, stack, neighbours, registered,
                 Requests>>

SetLimit ==
  /\ Admits("limit") /\ ~pruneDue /\ project.port # NoPort /\ Unlocked
  /\ \E l \in Limits : project' = [project EXCEPT !.limit = l]
  /\ pruneDue' = TRUE
  /\ UNCHANGED <<rows, nginx, files, snapshots, Images, stack, neighbours, jobs, Registry,
                 teardown>>

\* enforce_backup_limit, in a session of its own.
EnforceLimit ==
  LET final == IF project.exists THEN Pruned(rows, project.limit) ELSE rows
      gone == Forgotten(rows, final) IN
  /\ pruneDue /\ Unlocked
  /\ rows' = final
  /\ tags' = TagsWithout(gone)
  /\ snapshots' = SnapshotsWithout(gone)
  /\ pruneDue' = FALSE
  /\ UNCHANGED <<project, nginx, files, built, stack, neighbours, jobs, Registry, teardown>>

\* _teardown_compose: the running job is aborted but not waited for; the stack,
\* every retained tag and snapshot and the project directory go.  The version rows
\* are loaded here if no tag was found, with the delete otherwise.  A project that
\* was never provisioned only loses its directory.
DeleteDocker ==
  LET pending == project.port = NoPort IN
  /\ Admits("delete") /\ teardown = NoTeardown /\ project.exists
  /\ files' = NoFiles
  /\ teardown' = [step |-> "nginx",
       doomed |-> IF ~pending /\ \E n \in Versions : tags[n] # NoJob THEN Jobs
                  ELSE {r \in Jobs : Present(r)}]
  /\ IF pending THEN UNCHANGED <<stack, Images, snapshots, jobs, status>>
     ELSE /\ AbortRegistered
          /\ stack' = NoStack
          /\ built' = IF Usable(files) THEN NoJob ELSE built
          /\ tags' = TagsWithout(Versions)
          /\ snapshots' = SnapshotsWithout(Names)
  /\ UNCHANGED <<Database, nginx, neighbours, registered, pruneDue>>

DeleteNginx ==
  /\ teardown.step = "nginx"
  /\ nginx' = NoPort
  /\ teardown' = [teardown EXCEPT !.step = "row"]
  /\ UNCHANGED <<Database, files, snapshots, Images, stack, neighbours, jobs, Registry,
                 pruneDue>>

DeleteRow ==
  /\ teardown.step = "row" /\ Unlocked
  /\ project' = NoProject
  /\ rows' = [r \in Jobs |-> IF r \in teardown.doomed THEN NoRow ELSE rows[r]]
  /\ teardown' = NoTeardown
  /\ UNCHANGED <<nginx, files, snapshots, Images, stack, neighbours, jobs, Registry, pruneDue>>

\* Another project is given the lowest free port, or gives one up.
Neighbour ==
  LET free == FreePorts \ {project.port} IN
  /\ "neighbours" \in Faults /\ Unlocked
  /\ \/ \E p \in free : (\A q \in free : p <= q) /\ neighbours' = neighbours \cup {p}
     \/ \E p \in neighbours : neighbours' = neighbours \ {p}
  /\ UNCHANGED <<Database, nginx, files, snapshots, Images, stack, jobs, Registry, Requests>>

\* backfill_compose_versions, at start-up: a project that has containers and no
\* version yet gets the running image as version 1.
Backfills ==
  /\ project.exists /\ project.counter = 0 /\ project.port # NoPort /\ MaxVersions > 0
  /\ \A r \in Jobs : ~Present(r)
  /\ files.source # NoJob /\ stack.state # "absent"

\* The server dies, with its threads, their commands, its job registry and every
\* open transaction, and starts again.
Crash ==
  /\ "crash" \in Faults /\ ~Idle
  /\ jobs' = [j \in Jobs |-> IF InFlight(j) THEN [Unused EXCEPT !.kind = jobs[j].kind,
                                                                !.pc = "over"] ELSE jobs[j]]
  /\ status' = [j \in Jobs |-> IF InFlight(j) THEN "lost" ELSE status[j]]
  /\ registered' = NoJob
  /\ pruneDue' = FALSE
  /\ teardown' = NoTeardown
  /\ IF Backfills
     THEN /\ tags' = [tags EXCEPT ![1] = stack.image]
          /\ files' = [files EXCEPT !.pin = 1]
          /\ snapshots' = [snapshots EXCEPT ![1] = [files EXCEPT !.pin = 1]]
          /\ rows' = [rows EXCEPT ![stack.image] = [version |-> 1, status |-> "active"]]
          /\ project' = [project EXCEPT !.counter = 1]
     ELSE UNCHANGED <<tags, files, snapshots, Database>>
  /\ UNCHANGED <<nginx, built, stack, neighbours>>

-----------------------------------------------------------------------------
Thread(j) ==
  \/ Clone(j) \/ Provision(j) \/ ProvisionFails(j) \/ SetupNginx(j) \/ RecordPort(j)
  \/ RejectVhost(j) \/ Launch(j) \/ LaunchRefused(j)
  \/ Build(j) \/ Tag(j) \/ Down(j) \/ Replace(j) \/ Copy(j) \/ Up(j) \/ Recover(j)
  \/ Halt(j) \/ Extract(j)
  \/ Promote(j) \/ Archive(j) \/ LockTimeout(j) \/ Commit(j)
  \/ Finish(j) \/ Fail(j) \/ Monitor(j)

Client(j) ==
  Upload(j) \/ LaunchRollback(j) \/ LaunchRestart(j) \/ LaunchDown(j) \/ LaunchRestore(j)

Handler == EnforceLimit \/ DeleteNginx \/ DeleteRow

Next ==
  \/ \E j \in Jobs : Client(j) \/ Thread(j)
  \/ SetLimit \/ DeleteDocker \/ Handler
  \/ Abort
  \/ Neighbour
  \/ Crash

Spec == Init /\ [][Next]_vars

\* Threads, commands and handlers that can go on do; clients need not.
Fairness == (\A j \in Jobs : WF_vars(Thread(j))) /\ WF_vars(Handler)

FairSpec == Spec /\ Fairness
-----------------------------------------------------------------------------
(* Properties *)

\* "A version keeps its pinned images plus a file snapshot of the whole project dir"
\* (deploy_service.py:24-26): every recorded version can be rolled back to, with the
\* image and the files of its own deploy, whatever other deploys, aborts and prunings
\* have done since.  (A promote that holds the database, or a delete, is taking those
\* of rows it is removing.)
RetainedVersions ==
  Unlocked /\ teardown = NoTeardown =>
    \A r \in Jobs : Present(r) =>
      LET n == rows[r].version IN
      tags[n] = r /\ snapshots[n].source = r /\ snapshots[n].pin = n

\* The site is up: the vhost's port is that of the running stack.
Served == nginx # NoPort /\ stack.state = "up" /\ stack.port = nginx

\* Only the commands that are meant to take the stack down, and a delete, end the service.
StaysServed ==
  Served => \/ Served'
            \/ \E j \in Jobs : /\ jobs[j].pc \in {"down", "up", "recover", "halt"}
                               /\ jobs'[j] # jobs[j]
            \/ teardown' # teardown

\* "build + pull run while the old stack keeps serving" (deploy_service.py:19-20): an
\* upload, a provisioning, a build, a refused or aborted request and a crash never end
\* the service.
ServesUntilSwitch == [][StaysServed]_vars

\* Once every operation has ended, a stack that is up serves on the port that nginx and
\* the database have; and if the project directory has a pin file, it is the active
\* version's, and its image is what runs.  (A git deploy clears the directory, and when
\* its build then fails there is no pin file.)
SettledStack ==
  Idle /\ project.counter > 0 /\ stack.state = "up" =>
    /\ stack.port = nginx /\ nginx = project.port
    /\ files.pin # 0 =>
         \E r \in Jobs : rows[r].status = "active" /\ rows[r].version = files.pin /\ stack.image = r

\* A deploy or rollback about to report success has made its version the active one,
\* pinned and running in the project directory, behind the vhost.
DoneIsCurrent ==
  \A j \in Jobs :
    jobs[j].pc = "finish" /\ jobs[j].kind \in Deploys \cup {"rollback"} /\ jobs[j].outcome = "ok" =>
      \E r \in Jobs :
        /\ rows[r].status = "active" /\ rows[r].version = jobs[j].version
        /\ stack.image = r /\ files.pin = rows[r].version
        /\ stack.port = nginx /\ nginx = project.port

\* A deploy that has ended without a version row, whether it failed or was aborted or
\* its version has been pruned, has left neither a tag nor a snapshot
\* (deploy_service.py:703-708, :582-586).  A crash may leave both, a promote that times
\* out on the database the snapshot.
FailedDeployLeavesNothing ==
  \A j \in Jobs :
    jobs[j].kind \in Deploys /\ jobs[j].pc = "over" /\ status[j] # "lost" /\ ~Present(j) =>
      \A n \in Versions : tags[n] # j /\ snapshots[n].source # j

\* No more archived versions than backup_limit once every operation has ended.
ArchivedWithinLimit ==
  Idle => Cardinality({r \in Jobs : rows[r].status = "archived"}) <= project.limit

\* A restart of a directory with a pin file never runs "something other than the version currently
\* active" (deploy_service.py:788-789).  (One that finds none runs what was built last,
\* which need not be that version: a rollback, then a git deploy whose build fails.)
RestartRunsActive ==
  [][\A j \in Jobs :
       /\ jobs[j].kind = "restart" /\ jobs[j].pc = "up" /\ files.pin # 0
       /\ jobs'[j].outcome = "ok"
       => \A r \in Jobs : rows[r].status = "active" => stack'.image = r]_vars

\* Nothing runs on a volume while a restore replaces it: "a restore can never run
\* concurrently with one" (deploy_service.py:814).
ExtractsStopped == \A j \in Jobs : jobs[j].pc = "extract" => stack.state # "up"

\* Every job's thread ends, and its job is not left "running".
EveryJobEnds ==
  \A j \in Jobs : InFlight(j) ~> jobs[j].pc = "over" /\ status[j] # "running"
=============================================================================
