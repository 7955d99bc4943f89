------------------------------ MODULE BlueGreen ------------------------------
(***************************************************************************)
(* Dockerfile-mode deploys of one project: the request handlers that       *)
(* provision, launch, stop, restart, abort, limit and delete, the bash     *)
(* scripts they start, the threads that finish the jobs, and the four      *)
(* stores they write one after the other: the database, the nginx vhost,   *)
(* docker's containers and docker's images.                                *)
(*                                                                         *)
(* A job is one launched operation.  Jobs are numbered in launch order; a  *)
(* deploy job j adds at most one version row, kept as rows[j].  The image  *)
(* tag v<n> and the container _v<n> are images[n] and containers[n], and   *)
(* each remembers the job whose build it holds.                            *)
(***************************************************************************)
EXTENDS Naturals, FiniteSets

CONSTANTS
  MaxJobs,       \* bound: jobs a behaviour may launch
  MaxVersions,   \* bound: versions a behaviour may cut
  PortRange,     \* the loopback ports freeholdy may hand out
  Limits,        \* values PUT /backup-limit may set
  DefaultLimit,  \* backup_limit of a new project
  Overlap,       \* operations clients may issue while another one is in flight
  Faults         \* what the environment may do: see FaultKinds

Operations == {"deploy", "rollback", "restart", "stop", "limit", "delete"}

\* crash: the API server dies.  lock: a write waits too long for the database.
\* orphan: a docker client outlives the bash that started it.  badapp: a
\* container starts and exits at once.  abort: a client aborts the job.  vhost:
\* nginx rejects a configuration it is given.
FaultKinds == {"crash", "lock", "orphan", "badapp", "abort", "vhost"}

ASSUME BlueGreenAssumption ==
  /\ MaxJobs \in Nat
  /\ MaxVersions \in Nat
  /\ PortRange \subseteq Nat \ {0}
  /\ Limits \subseteq Nat
  /\ DefaultLimit \in Nat
  /\ Overlap \subseteq Operations
  /\ Faults \subseteq FaultKinds

VARIABLES
  project,     \* the Project row, or NoProject
  rows,        \* the ProjectVersion rows, by the job that added them
  nginx,       \* the upstream port of the project's vhost
  images,      \* for each version tag, the job that built it
  containers,  \* for each version's container name, its state
  jobs,        \* every job: where its thread and process are, what it captured
  status,      \* every job's DockerJob.status
  registered,  \* the job docker_service holds under the deploy key
  seen,        \* what each job's session has loaded from the database
  orphans,     \* docker clients whose bash was terminated
  pruneDue,    \* PUT /backup-limit has committed and not yet pruned
  teardown     \* how far DELETE /projects/{name} has come, and the rows it loaded

vars == <<project, rows, nginx, images, containers, jobs, status, registered,
          seen, orphans, pruneDue, teardown>>

-----------------------------------------------------------------------------
Jobs == 1..MaxJobs
NoJob == 0

Versions == 1..MaxVersions
Names == 0..MaxVersions       \* container names: 0 is the placeholder of a new project

NoPort == 0
Ports == PortRange \cup {NoPort}

Kinds == {"deploy", "rollback", "restart", "stop"}

NoProject == [exists |-> FALSE, counter |-> 0, limit |-> DefaultLimit,
              port |-> NoPort, version |-> 0]
NewProject == [NoProject EXCEPT !.exists = TRUE]

NoRow == [version |-> 0, status |-> "absent", port |-> NoPort]

NoContainer == [state |-> "absent", port |-> NoPort, build |-> NoJob]

Unused == [kind |-> "none", pc |-> "unused", version |-> 0, port |-> NoPort,
           fresh |-> FALSE, row |-> NoJob, outcome |-> "none"]

NothingSeen == [project |-> NoProject, rows |-> [r \in Jobs |-> NoRow]]

NoTeardown == [step |-> "none", doomed |-> {}]

Present(r) == rows[r].status # "absent"

\* The program counters at which a job's subprocess is alive.
Alive == {"build", "remove", "run", "stopping"}

InFlight(j) == jobs[j].pc \notin {"unused", "over"}

\* SQLite's write lock is held from the flush of a promote to its commit.
Unlocked == \A j \in Jobs : jobs[j].pc # "commit"

\* No operation of the project is being carried out.
Idle ==
  /\ \A j \in Jobs : ~InFlight(j)
  /\ ~pruneDue
  /\ teardown = NoTeardown

\* Clients issue operations of these kinds at any time, others when all is idle.
Admits(op) == op \in Overlap \/ Idle

\* Jobs are taken in order, so a job's number says when it was launched.
IsNext(j) == \A i \in Jobs : (jobs[i].pc = "unused") <=> (i >= j)

-----------------------------------------------------------------------------
(* Ports *)

\* Mutant: only the ports of inactive versions are taken.
FreePortsOfInactive ==
  PortRange \ {rows[r].port : r \in {q \in Jobs : rows[q].status = "inactive"}}

FreePorts ==
  PortRange \ ({project.port} \cup {rows[r].port : r \in Jobs})

\* The first port of the range that no database row records.
NextPort == CHOOSE p \in FreePorts : \A q \in FreePorts : p <= q

\* Another container than n's has the host port.
Bound(p, n) ==
  \E m \in Names \ {n} :
    containers[m].state \in {"running", "restarting"} /\ containers[m].port = p

-----------------------------------------------------------------------------
(* docker run --name _v<n> -p p: what it may leave behind, and if it succeeds *)

Started(n, p) ==
  {[containers EXCEPT ![n] = [state |-> s, port |-> p, build |-> images[n]]] :
     s \in {"running"} \cup (IF "badapp" \in Faults THEN {"restarting"} ELSE {})}

RunSucceeds(n, p) ==
  images[n] # NoJob /\ containers[n].state = "absent" /\ ~Bound(p, n)

RunLeaves(n, p) ==
  IF RunSucceeds(n, p) THEN Started(n, p)
  ELSE IF images[n] # NoJob /\ containers[n].state = "absent"
    THEN {[containers EXCEPT ![n] = [state |-> "created", port |-> p, build |-> images[n]]]}
    ELSE {containers}

-----------------------------------------------------------------------------
(* Version bookkeeping *)

\* Mutant: one archived version too many is kept.
ExcessByOne(t, l) ==
  {r \in Jobs :
     /\ t[r].status = "archived"
     /\ Cardinality({q \in Jobs :
          t[q].status = "archived" /\ t[q].version > t[r].version}) > l}

\* The archived rows of t with at least l archived rows of later versions.
Excess(t, l) ==
  {r \in Jobs :
     /\ t[r].status = "archived"
     /\ Cardinality({q \in Jobs :
          /\ t[q].status = "archived"
          /\ \/ t[q].version > t[r].version
             \/ t[q].version = t[r].version /\ q > r}) >= l}

Pruned(t, l) == [r \in Jobs |-> IF r \in Excess(t, l) THEN NoRow ELSE t[r]]

\* Mutant: the inactive version is not archived.
DemotedActiveOnly(t, n) ==
  [r \in Jobs |-> IF t[r].version # n /\ t[r].status = "active"
                  THEN [t[r] EXCEPT !.status = "inactive"] ELSE t[r]]

\* Mutant: a status nothing else knows.
DemotedToStopped(t, n) ==
  [r \in Jobs |-> IF t[r].version # n /\ t[r].status = "active"
                  THEN [t[r] EXCEPT !.status = "stopped"] ELSE t[r]]

\* Every row that is not of version n moves down one tier.
Demoted(t, n) ==
  [r \in Jobs |->
     CASE t[r].version # n /\ t[r].status = "active" -> [t[r] EXCEPT !.status = "inactive"]
       [] t[r].version # n /\ t[r].status = "inactive" ->
            [t[r] EXCEPT !.status = "archived", !.port = NoPort]
       [] OTHER -> t[r]]

\* Names of the rows a step takes from one status to another.
Moved(t, u, from, to) ==
  {t[r].version : r \in {q \in Jobs : t[q].status = from /\ u[q].status = to}}

\* The docker effects of a bookkeeping change from t to u that also forgets the
\* versions gone: what becomes inactive is stopped, what is archived or forgotten
\* loses its container, what is forgotten its image.
ContainersAfter(t, u, gone) ==
  [n \in Names |->
     IF n \in Moved(t, u, "inactive", "archived") \cup gone THEN NoContainer
     ELSE IF /\ n \in Moved(t, u, "active", "inactive")
             /\ containers[n].state \in {"running", "restarting"}
       THEN [containers[n] EXCEPT !.state = "exited"]
     ELSE containers[n]]

ImagesAfter(gone) == [n \in Names |-> IF n \in gone THEN NoJob ELSE images[n]]

-----------------------------------------------------------------------------
ProjectRecords ==
  [exists : BOOLEAN, counter : Names, limit : Limits \cup {DefaultLimit},
   port : Ports, version : Names]

RowRecords ==
  [version : Names, status : {"absent", "active", "inactive", "archived"}, port : Ports]

RowTables == [Jobs -> RowRecords]

ContainerRecords ==
  [state : {"absent", "created", "running", "restarting", "exited"},
   port : Ports, build : Jobs \cup {NoJob}]

JobRecords ==
  [kind : Kinds \cup {"none"},
   pc : {"unused", "nginx", "launch", "exited", "cleanup", "verify", "promote", "demote",
         "commit", "finish", "over"} \cup Alive,
   version : Names, port : Ports, fresh : BOOLEAN, row : Jobs \cup {NoJob},
   outcome : {"none", "ok", "failed", "aborted"}]

OrphanRecords ==
  [doing : {"build", "run"}, version : Names, port : Ports, build : Jobs]

TypeOK ==
  /\ project \in ProjectRecords
  /\ rows \in RowTables
  /\ nginx \in Ports
  /\ images \in [Names -> Jobs \cup {NoJob}]
  /\ containers \in [Names -> ContainerRecords]
  /\ jobs \in [Jobs -> JobRecords]
  /\ status \in [Jobs -> {"none", "running", "done", "error", "aborted", "lost"}]
  /\ registered \in Jobs \cup {NoJob}
  /\ seen \in [Jobs -> [project : ProjectRecords, rows : RowTables]]
  /\ orphans \subseteq OrphanRecords
  /\ pruneDue \in BOOLEAN
  /\ teardown \in [step : {"none", "nginx", "row"}, doomed : SUBSET Jobs]

Init ==
  /\ project = NoProject
  /\ rows = [r \in Jobs |-> NoRow]
  /\ nginx = NoPort
  /\ images = [n \in Names |-> NoJob]
  /\ containers = [n \in Names |-> NoContainer]
  /\ jobs = [j \in Jobs |-> Unused]
  /\ status = [j \in Jobs |-> "none"]
  /\ registered = NoJob
  /\ seen = [j \in Jobs |-> NothingSeen]
  /\ orphans = {}
  /\ pruneDue = FALSE
  /\ teardown = NoTeardown

-----------------------------------------------------------------------------
(* Request handlers that launch a job *)

Docker == <<images, containers, orphans>>
Requests == <<pruneDue, teardown>>

\* The job is put under the deploy key, whatever is registered there.
Register(j) ==
  /\ registered' = j
  /\ status' = [status EXCEPT ![j] = "running"]

\* An upload, a git deploy or a redeploy reaches provision_dockerfile: the
\* project row is created if there is none, and its port read or allocated.
Provision(j) ==
  /\ IsNext(j) /\ Admits("deploy")
  /\ project' = IF project.exists THEN project ELSE NewProject
  /\ \/ project.port # NoPort
     \/ FreePorts # {}
  /\ jobs' = [jobs EXCEPT ![j] =
       [Unused EXCEPT !.kind = "deploy", !.pc = "nginx", !.fresh = (project.port = NoPort),
                      !.port = IF project.port # NoPort THEN project.port ELSE NextPort]]
  /\ UNCHANGED <<rows, nginx, status, registered, seen, Docker, Requests>>

\* setup_nginx writes the vhost with the port read before; then the port, if it
\* is a new one, is committed.
SetupNginx(j) ==
  /\ jobs[j].pc = "nginx" /\ Unlocked
  /\ nginx' = jobs[j].port
  /\ project' = IF project.exists /\ jobs[j].fresh
                THEN [project EXCEPT !.port = jobs[j].port] ELSE project
  /\ jobs' = [jobs EXCEPT ![j] =
       [Unused EXCEPT !.kind = "deploy", !.pc = IF project.exists THEN "launch" ELSE "over"]]
  /\ UNCHANGED <<rows, status, registered, seen, Docker, Requests>>

\* nginx rejects the vhost: the transaction is rolled back, the vhost removed and
\* the request fails.
RejectVhost(j) ==
  /\ "vhost" \in Faults
  /\ jobs[j].pc = "nginx" /\ Unlocked
  /\ nginx' = NoPort
  /\ jobs' = [jobs EXCEPT ![j] = [Unused EXCEPT !.kind = "deploy", !.pc = "over"]]
  /\ UNCHANGED <<project, rows, status, registered, seen, Docker, Requests>>

\* bluegreen_deploy: the next version number and a port for it are read, the
\* script is started and the job registered.
LaunchDeploy(j) ==
  LET first == project.counter = 0 IN
  /\ jobs[j].pc = "launch"
  /\ project.exists /\ (first \/ FreePorts # {}) /\ project.counter < MaxVersions
  /\ jobs' = [jobs EXCEPT ![j] =
       [Unused EXCEPT !.kind = "deploy", !.pc = "build", !.version = project.counter + 1,
                      !.port = IF first THEN project.port ELSE NextPort, !.fresh = ~first,
                      !.row = j]]
  /\ Register(j)
  /\ UNCHANGED <<project, rows, nginx, seen, Docker, Requests>>

\* The project is gone or no port of the range is free: the request fails.  (Or
\* the model's bound on versions is reached.)
LaunchRefused(j) ==
  /\ jobs[j].pc = "launch"
  /\ \/ ~project.exists
     \/ project.counter # 0 /\ FreePorts = {}
     \/ project.counter = MaxVersions
  /\ jobs' = [jobs EXCEPT ![j].pc = "over"]
  /\ UNCHANGED <<project, rows, nginx, status, registered, seen, Docker, Requests>>

\* POST /rollback to a version that is recorded and not active.  An inactive
\* version keeps its port, an archived one is given a new one.
LaunchRollback(j) ==
  /\ IsNext(j) /\ Admits("rollback") /\ project.exists
  /\ \E r \in Jobs :
       /\ rows[r].status \in {"inactive", "archived"}
       /\ \A q \in 1..(r - 1) : rows[q].version # rows[r].version
       /\ rows[r].status = "archived" => FreePorts # {}
       /\ jobs' = [jobs EXCEPT ![j] =
            [Unused EXCEPT !.kind = "rollback", !.pc = "remove", !.version = rows[r].version,
                           !.row = r, !.fresh = (rows[r].status = "archived"),
                           !.port = IF rows[r].status = "archived" THEN NextPort
                                                                   ELSE rows[r].port]]
  /\ Register(j)
  /\ UNCHANGED <<project, rows, nginx, seen, Docker, Requests>>

\* POST /restart removes the active version's container, then starts
\* docker run on its image and port.
LaunchRestart(j) ==
  /\ IsNext(j) /\ Admits("restart") /\ project.exists /\ project.port # NoPort
  /\ containers' = [containers EXCEPT ![project.version] = NoContainer]
  /\ jobs' = [jobs EXCEPT ![j] =
       [Unused EXCEPT !.kind = "restart", !.pc = "run", !.version = project.version,
                      !.port = project.port]]
  /\ Register(j)
  /\ UNCHANGED <<project, rows, nginx, images, orphans, seen, Requests>>

\* POST /stop starts docker stop on the active version's container.
LaunchStop(j) ==
  /\ IsNext(j) /\ Admits("stop") /\ project.exists /\ project.port # NoPort
  /\ jobs' = [jobs EXCEPT ![j] =
       [Unused EXCEPT !.kind = "stop", !.pc = "stopping", !.version = project.version]]
  /\ Register(j)
  /\ UNCHANGED <<project, rows, nginx, seen, Docker, Requests>>

-----------------------------------------------------------------------------
(* The subprocess of a job *)

\* docker build tags the image of the new version, or fails.
Build(j) ==
  /\ jobs[j].pc = "build"
  /\ \/ /\ images' = [images EXCEPT ![jobs[j].version] = j]
        /\ jobs' = [jobs EXCEPT ![j].pc = "remove"]
     \/ /\ jobs' = [jobs EXCEPT ![j].pc = "exited", ![j].outcome = "failed"]
        /\ UNCHANGED images
  /\ UNCHANGED <<project, rows, nginx, containers, orphans, status, registered, seen, Requests>>

\* docker rm -f of a container that has the version's name.
Remove(j) ==
  /\ jobs[j].pc = "remove"
  /\ containers' = [containers EXCEPT ![jobs[j].version] = NoContainer]
  /\ jobs' = [jobs EXCEPT ![j].pc = "run"]
  /\ UNCHANGED <<project, rows, nginx, images, orphans, status, registered, seen, Requests>>

Run(j) ==
  /\ jobs[j].pc = "run"
  /\ containers' \in RunLeaves(jobs[j].version, jobs[j].port)
  /\ jobs' = [jobs EXCEPT ![j].pc = "exited",
       ![j].outcome = IF RunSucceeds(jobs[j].version, jobs[j].port) THEN "ok" ELSE "failed"]
  /\ UNCHANGED <<project, rows, nginx, images, orphans, status, registered, seen, Requests>>

\* docker stop of the active version's container.
Stop(j) ==
  LET n == jobs[j].version IN
  /\ jobs[j].pc = "stopping"
  /\ containers' = IF containers[n].state \in {"running", "restarting"}
                   THEN [containers EXCEPT ![n].state = "exited"] ELSE containers
  /\ jobs' = [jobs EXCEPT ![j].pc = "exited",
       ![j].outcome = IF containers[n].state = "absent" THEN "failed" ELSE "ok"]
  /\ UNCHANGED <<project, rows, nginx, images, orphans, status, registered, seen, Requests>>

\* A docker client whose bash was terminated completes all the same.
OrphanEnds ==
  \E o \in orphans :
    /\ orphans' = orphans \ {o}
    /\ \/ /\ o.doing = "build"
          /\ images' = [images EXCEPT ![o.version] = o.build]
          /\ UNCHANGED containers
       \/ /\ o.doing = "run"
          /\ containers' \in RunLeaves(o.version, o.port)
          /\ UNCHANGED images
    /\ UNCHANGED <<project, rows, nginx, jobs, status, registered, seen, Requests>>

-----------------------------------------------------------------------------
(* abort_job: POST /abort, an abort frame, or the first step of a delete *)

\* The registered job is marked aborted and its live subprocess terminated.
\* The docker client bash was waiting for may go on by itself.
AbortRegistered ==
  IF registered = NoJob THEN UNCHANGED <<jobs, status, orphans>>
  ELSE IF status[registered] # "running" THEN UNCHANGED <<jobs, status, orphans>>
  ELSE LET j == registered IN
       /\ status' = [status EXCEPT ![j] = "aborted"]
       /\ jobs' = IF jobs[j].pc \in Alive
                  THEN [jobs EXCEPT ![j].pc = "exited", ![j].outcome = "failed"]
                  ELSE jobs
       /\ \/ UNCHANGED orphans
          \/ /\ "orphan" \in Faults
             /\ jobs[j].kind \in {"deploy", "rollback"} /\ jobs[j].pc \in {"build", "run"}
             /\ orphans' = orphans \cup
                  {[doing |-> jobs[j].pc, version |-> jobs[j].version,
                    port |-> jobs[j].port, build |-> j]}

Abort ==
  /\ "abort" \in Faults
  /\ registered # NoJob
  /\ status[registered] = "running"
  /\ AbortRegistered
  /\ UNCHANGED <<project, rows, nginx, images, containers, registered, seen, Requests>>

-----------------------------------------------------------------------------
(* The thread that finishes a job *)

\* A finished job needs nothing of what it captured.
Over(j) == [jobs EXCEPT ![j] = [Unused EXCEPT !.kind = jobs[j].kind, !.pc = "over"]]

\* _finalize: the job registered under the key now decides whether this one was
\* aborted.
Check(j) ==
  LET aborted == registered # NoJob /\ status[registered] = "aborted" IN
  /\ jobs[j].pc = "exited" /\ jobs[j].kind \in {"deploy", "rollback"}
  /\ jobs' = [jobs EXCEPT
       ![j].pc = IF aborted \/ jobs[j].outcome = "failed" THEN "cleanup" ELSE "verify",
       ![j].outcome = IF aborted THEN "aborted" ELSE @]
  /\ UNCHANGED <<project, rows, nginx, status, registered, seen, Docker, Requests>>

\* Mutant: a container that exists is taken to be running.
VerifyCreated(j) ==
  /\ jobs[j].pc = "verify"
  /\ jobs' = [jobs EXCEPT ![j].pc = "promote"]
  /\ UNCHANGED <<project, rows, nginx, status, registered, seen, Docker, Requests>>

\* The version's container must be running.
Verify(j) ==
  LET up == containers[jobs[j].version].state = "running" IN
  /\ jobs[j].pc = "verify"
  /\ jobs' = [jobs EXCEPT ![j].pc = IF up THEN "promote" ELSE "cleanup",
                          ![j].outcome = IF up THEN @ ELSE "failed"]
  /\ UNCHANGED <<project, rows, nginx, status, registered, seen, Docker, Requests>>

\* Mutant: a failed rollback cleans up like a failed deploy.
CleanupAlways(j) ==
  /\ jobs[j].pc = "cleanup"
  /\ containers' = [containers EXCEPT ![jobs[j].version] = NoContainer]
  /\ images' = ImagesAfter({jobs[j].version})
  /\ jobs' = [jobs EXCEPT ![j].pc = "finish"]
  /\ UNCHANGED <<project, rows, nginx, orphans, status, registered, seen, Requests>>

\* Mutant: the image of a failed deploy is kept.
CleanupContainer(j) ==
  /\ jobs[j].pc = "cleanup"
  /\ containers' = IF jobs[j].kind = "deploy"
                   THEN [containers EXCEPT ![jobs[j].version] = NoContainer] ELSE containers
  /\ jobs' = [jobs EXCEPT ![j].pc = "finish"]
  /\ UNCHANGED <<project, rows, nginx, images, orphans, status, registered, seen, Requests>>

\* A failed deploy removes its container and image; a failed rollback nothing.
Cleanup(j) ==
  LET n == jobs[j].version IN
  /\ jobs[j].pc = "cleanup"
  /\ IF jobs[j].kind = "deploy"
     THEN /\ containers' = [containers EXCEPT ![n] = NoContainer]
          /\ images' = ImagesAfter({n})
     ELSE UNCHANGED <<containers, images>>
  /\ jobs' = [jobs EXCEPT ![j].pc = "finish"]
  /\ UNCHANGED <<project, rows, nginx, orphans, status, registered, seen, Requests>>

\* Mutant: the exception ends the thread.
PromoteDies(j) == jobs' = [jobs EXCEPT ![j].pc = "over"]

\* An exception in promote: the session is closed, nothing is undone.
PromoteFails(j) == jobs' = [jobs EXCEPT ![j].pc = "finish", ![j].outcome = "failed"]

\* The row whose version a promote makes active: its own, or the first one of
\* the version rolled back to.
Target(j) ==
  IF jobs[j].kind = "deploy" THEN {j}
  ELSE {r \in Jobs : /\ Present(r) /\ rows[r].version = jobs[j].version
                     /\ \A q \in 1..(r - 1) : rows[q].version # rows[r].version}

\* promote loads the project (a rollback its version rows too) and points nginx
\* at the new container, except on a first deploy.
SwitchNginx(j) ==
  /\ jobs[j].pc = "promote"
  /\ \/ /\ ~project.exists \/ Target(j) = {}
        /\ PromoteFails(j)
        /\ UNCHANGED <<nginx, seen>>
     \/ /\ project.exists
        /\ \E r \in Target(j) :
             LET p == IF jobs[j].fresh \/ jobs[j].kind = "deploy" THEN jobs[j].port
                                                                  ELSE rows[r].port IN
             /\ jobs' = [jobs EXCEPT ![j].pc = "demote", ![j].row = r, ![j].port = p]
             /\ nginx' = IF (jobs[j].kind = "rollback" \/ jobs[j].fresh) /\ p # NoPort
                         THEN p ELSE nginx
        /\ seen' = [seen EXCEPT ![j] = [project |-> project, rows |-> rows]]
  /\ UNCHANGED <<project, rows, status, registered, Docker, Requests>>

\* Mutant: the port an archived version was given is not recorded in its row.
LoadedKeepingPort(j) ==
  IF jobs[j].kind = "deploy"
  THEN [rows EXCEPT ![j] = [version |-> jobs[j].version, status |-> "active",
                            port |-> jobs[j].port]]
  ELSE [seen[j].rows EXCEPT ![jobs[j].row].status = "active"]

\* The version rows as the job's session has them when it demotes the others:
\* a rollback loaded them before the switch, a deploy loads them now.
Loaded(j) ==
  IF jobs[j].kind = "deploy"
  THEN [rows EXCEPT ![j] = [version |-> jobs[j].version, status |-> "active",
                            port |-> jobs[j].port]]
  ELSE [seen[j].rows EXCEPT ![jobs[j].row].status = "active",
                            ![jobs[j].row].port = jobs[j].port]

Shuffled(j) == Demoted(Loaded(j), jobs[j].version)

\* Mutant: nothing is pruned.
FinalUnpruned(j) == Shuffled(j)

\* The rows the session writes: the shuffled ones, pruned to the limit it loaded.
Final(j) == Pruned(Shuffled(j), seen[j].project.limit)

\* The flush takes the write lock; then the other versions' containers are
\* stopped or removed and the forgotten versions' images deleted.
DemoteOthers(j) ==
  LET gone == Moved(Shuffled(j), Final(j), "archived", "absent") IN
  /\ jobs[j].pc = "demote" /\ Unlocked
  /\ IF project.exists
     THEN /\ containers' = ContainersAfter(Loaded(j), Shuffled(j), gone)
          /\ images' = ImagesAfter(gone)
          /\ jobs' = [jobs EXCEPT ![j].pc = "commit"]
     ELSE /\ PromoteFails(j)
          /\ UNCHANGED <<containers, images>>
  /\ UNCHANGED <<project, rows, nginx, orphans, status, registered, seen, Requests>>

\* The flush waits for another writer until SQLite gives up.
LockTimeout(j) ==
  /\ jobs[j].pc = "demote"
  /\ ~Unlocked \/ "lock" \in Faults
  /\ PromoteFails(j)
  /\ UNCHANGED <<project, rows, nginx, status, registered, seen, Docker, Requests>>

\* A column the session did not change is not written.
Written(loaded, now, new) == IF new = loaded THEN now ELSE new

\* Mutant: a rollback sets the counter as well.
CounterAfterAny(j) == Written(seen[j].project.counter, project.counter, jobs[j].version)

\* Only a deploy sets the version counter.
CounterAfter(j) ==
  IF jobs[j].kind = "deploy"
  THEN Written(seen[j].project.counter, project.counter, jobs[j].version)
  ELSE project.counter

\* A row the session moved and another one deleted in the meantime.
LostRow(j) ==
  \E r \in Jobs : /\ jobs[j].kind = "rollback" /\ ~Present(r)
                  /\ Final(j)[r].status # "absent" /\ Final(j)[r] # seen[j].rows[r]

Commit(j) ==
  /\ jobs[j].pc = "commit"
  /\ IF LostRow(j)
     THEN PromoteFails(j) /\ UNCHANGED <<project, rows>>
     ELSE /\ rows' = [r \in Jobs |->
                        IF jobs[j].kind = "deploy" THEN Final(j)[r]
                        ELSE Written(seen[j].rows[r], rows[r], Final(j)[r])]
          /\ project' = [project EXCEPT
               !.counter = CounterAfter(j),
               !.port = Written(seen[j].project.port, @, jobs[j].port),
               !.version = Written(seen[j].project.version, @, jobs[j].version)]
          /\ jobs' = [jobs EXCEPT ![j].pc = "finish"]
  /\ UNCHANGED <<nginx, status, registered, seen, Docker, Requests>>

\* finish_external_job records the outcome in the job registered under the key.
Finish(j) ==
  /\ jobs[j].pc = "finish"
  /\ status' = IF registered = NoJob THEN status
               ELSE [status EXCEPT ![registered] =
                       IF @ # "running" THEN @
                       ELSE CASE jobs[j].outcome = "aborted" -> "aborted"
                              [] jobs[j].outcome = "ok"      -> "done"
                              [] OTHER                       -> "error"]
  /\ jobs' = Over(j)
  /\ seen' = [seen EXCEPT ![j] = NothingSeen]
  /\ UNCHANGED <<project, rows, nginx, registered, Docker, Requests>>

\* _monitor_job records the outcome of a stop or a restart in that job.
Monitor(j) ==
  /\ jobs[j].pc = "exited" /\ jobs[j].kind \in {"restart", "stop"}
  /\ status' = [status EXCEPT ![j] = IF @ # "running" THEN @
                                     ELSE IF jobs[j].outcome = "ok" THEN "done" ELSE "error"]
  /\ jobs' = Over(j)
  /\ UNCHANGED <<project, rows, nginx, registered, seen, Docker, Requests>>

-----------------------------------------------------------------------------
(* PUT /backup-limit and DELETE /projects/{name} *)

SetLimit ==
  /\ Admits("limit") /\ ~pruneDue /\ project.port # NoPort /\ Unlocked
  /\ \E l \in Limits : project' = [project EXCEPT !.limit = l]
  /\ pruneDue' = TRUE
  /\ UNCHANGED <<rows, nginx, jobs, status, registered, seen, teardown, Docker>>

\* enforce_backup_limit, in a session of its own.
EnforceLimit ==
  LET final == IF project.exists THEN Pruned(rows, project.limit) ELSE rows
      gone == Moved(rows, final, "archived", "absent") IN
  /\ pruneDue /\ Unlocked
  /\ rows' = final
  /\ containers' = ContainersAfter(rows, rows, gone)
  /\ images' = ImagesAfter(gone)
  /\ pruneDue' = FALSE
  /\ UNCHANGED <<project, nginx, jobs, status, registered, seen, orphans, teardown>>

\* The running job is aborted, but not waited for; every recorded version's
\* container and image goes, and the placeholder's.
DeleteDocker ==
  LET doomed == {r \in Jobs : Present(r)}
      gone == {rows[r].version : r \in doomed} \cup {project.version} IN
  /\ Admits("delete") /\ teardown = NoTeardown /\ project.exists
  /\ AbortRegistered
  /\ containers' = ContainersAfter(rows, rows, gone)
  /\ images' = ImagesAfter(gone)
  /\ teardown' = [step |-> "nginx", doomed |-> doomed]
  /\ UNCHANGED <<project, rows, nginx, registered, seen, pruneDue>>

DeleteNginx ==
  /\ teardown.step = "nginx"
  /\ nginx' = NoPort
  /\ teardown' = [teardown EXCEPT !.step = "row"]
  /\ UNCHANGED <<project, rows, jobs, status, registered, seen, pruneDue, Docker>>

\* The row goes, and the version rows loaded with it.  A row added since stays,
\* and belongs to the next project that is given the same id.
DeleteRow ==
  /\ teardown.step = "row" /\ Unlocked
  /\ project' = NoProject
  /\ rows' = [r \in Jobs |-> IF r \in teardown.doomed THEN NoRow ELSE rows[r]]
  /\ teardown' = NoTeardown
  /\ UNCHANGED <<nginx, jobs, status, registered, seen, pruneDue, Docker>>

-----------------------------------------------------------------------------
\* The server dies: its threads, its job registry, the subprocesses of its
\* control group and every open transaction.  Containers and vhost remain.
Crash ==
  /\ "crash" \in Faults
  /\ \E j \in Jobs : InFlight(j) \/ pruneDue \/ teardown # NoTeardown
  /\ jobs' = [j \in Jobs |-> IF InFlight(j) THEN [Unused EXCEPT !.kind = jobs[j].kind,
                                                                !.pc = "over"] ELSE jobs[j]]
  /\ status' = [j \in Jobs |-> IF InFlight(j) THEN "lost" ELSE status[j]]
  /\ registered' = NoJob
  /\ seen' = [j \in Jobs |-> NothingSeen]
  /\ orphans' = {}
  /\ pruneDue' = FALSE
  /\ teardown' = NoTeardown
  /\ UNCHANGED <<project, rows, nginx, images, containers>>

Thread(j) ==
  \/ SetupNginx(j) \/ RejectVhost(j) \/ LaunchDeploy(j) \/ LaunchRefused(j)
  \/ Build(j) \/ Remove(j) \/ Run(j) \/ Stop(j)
  \/ Check(j) \/ Verify(j) \/ Cleanup(j)
  \/ SwitchNginx(j) \/ DemoteOthers(j) \/ LockTimeout(j) \/ Commit(j)
  \/ Finish(j) \/ Monitor(j)

Client(j) == Provision(j) \/ LaunchRollback(j) \/ LaunchRestart(j) \/ LaunchStop(j)

Handler == EnforceLimit \/ DeleteNginx \/ DeleteRow

Next ==
  \/ \E j \in Jobs : Client(j) \/ Thread(j)
  \/ SetLimit \/ DeleteDocker \/ Handler
  \/ Abort
  \/ OrphanEnds
  \/ Crash

Spec == Init /\ [][Next]_vars

\* Threads, subprocesses and handlers that can go on do; clients need not.
Fairness == (\A j \in Jobs : WF_vars(Thread(j))) /\ WF_vars(Handler)

FairSpec == Spec /\ Fairness

-----------------------------------------------------------------------------
(* Properties *)

\* "At any time a project has at most one active, at most one inactive" version
\* (models/orm.py:100-103), and no version number is recorded twice or beyond the
\* last one assigned.  The status shuffle of promote has to keep this across
\* deploys, rollbacks, failures and deletes.
Tiers(t, c) ==
  /\ \A r \in Jobs : t[r].status # "absent" => t[r].version \in 1..c
  /\ \A r, q \in Jobs : t[r].status # "absent" /\ t[q].status # "absent" /\ r # q
                         => t[r].version # t[q].version
  /\ \A r, q \in Jobs : t[r].status \in {"active", "inactive"} /\ r # q
                         => t[q].status # t[r].status

VersionTiers == Tiers(rows, project.counter)

\* Every recorded version still has the image its own deploy built, so that it
\* can be rolled back to: no cleanup, pruning or later build takes or replaces it.  (A promote that
\* holds the database, or a delete, is taking images of rows it is removing.)
RecordedImages ==
  Unlocked /\ teardown = NoTeardown =>
    \A r \in Jobs : Present(r) => images[rows[r].version] = r

\* Once every operation has ended, the active row, the project row, the vhost and
\* the container agree on the version, its port and its build.
SettledSite ==
  Idle /\ project.counter > 0 =>
    \E r \in Jobs :
      /\ rows[r].status = "active"
      /\ rows[r].version = project.version
      /\ rows[r].port = project.port /\ nginx = project.port
      /\ LET c == containers[project.version] IN
         c.state # "absent" => c.port = nginx /\ c.build = r

\* No more archived versions than backup_limit once every operation has ended.
ArchivedWithinLimit ==
  Idle => Cardinality({r \in Jobs : rows[r].status = "archived"}) <= project.limit

\* A deploy whose job ended in error leaves no row, no image and no container of
\* its own behind, in any of the stores it writes.
FailedDeployLeavesNothing ==
  \A j \in Jobs :
    jobs[j].kind = "deploy" /\ jobs[j].pc = "over" /\ status[j] = "error" =>
      /\ ~Present(j)
      /\ \A n \in Names : images[n] # j /\ containers[n].build # j

\* A promoted site is up: the vhost's port is that of a running container.
Served ==
  /\ project.counter > 0 /\ nginx # NoPort
  /\ \E n \in Names : containers[n].state = "running" /\ containers[n].port = nginx

\* "a failed build never takes the running site down" (deploy_service.py:5-7) and
\* "zero downtime": once a version was promoted, no step of a deploy or a
\* rollback, and no other step than a stop's, a restart's or a delete's, takes the
\* vhost from a running container to none.
ZeroDowntime ==
  [][Served => \/ Served'
               \/ \E j \in Jobs : jobs'[j].kind \in {"stop", "restart"} /\ jobs'[j] # jobs[j]
               \/ teardown' # teardown]_vars

\* version_counter, "the last version number assigned" (models/orm.py:51), never
\* goes back while the project exists.
CounterNeverGoesBack ==
  [][project'.exists => project'.counter >= project.counter]_vars

\* "a project is never left half-deleted (e.g. an nginx config still pointing at an
\* already-removed container)" (routers/projects.py:433-435): when nothing goes on
\* and there is no project, no store holds anything of it.
DeletedLeavesNothing ==
  Idle /\ ~project.exists =>
    /\ nginx = NoPort
    /\ \A r \in Jobs : ~Present(r)
    /\ \A n \in Names : containers[n] = NoContainer /\ images[n] = NoJob

\* "First free loopback port" (routers/projects.py:51): a new container is not given a
\* port that the active or the inactive version's container serves, although only the
\* database is asked.  (Not once a job was aborted: the docker client it leaves behind
\* can start a recorded version's container on a port that is recorded no more.)
LaunchedPortIsFree ==
  (\A i \in Jobs : status[i] # "aborted") =>
    \A j, r \in Jobs :
      /\ jobs[j].pc = "run" /\ jobs[j].fresh
      /\ rows[r].status \in {"active", "inactive"}
      /\ containers[rows[r].version].state \in {"running", "restarting"}
      => containers[rows[r].version].port # jobs[j].port

\* Every job's thread ends, and its job is not left "running"
\* (deploy_service.py:199).
EveryJobEnds ==
  \A j \in Jobs : InFlight(j) ~> jobs[j].pc = "over" /\ status[j] # "running"
=============================================================================
