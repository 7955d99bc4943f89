---------------------------- MODULE BlueGreenProofs ----------------------------
(***************************************************************************)
(* Proofs about BlueGreen, for every number of jobs, versions and ports.   *)
(*                                                                         *)
(* TypeCorrect holds whatever clients and the environment do.  The version *)
(* bookkeeping is consistent when clients issue one operation at a time    *)
(* (Overlap = {}), whatever the environment does, crashes included:        *)
(* VersionsCorrect, CounterCorrect and BlueGreenReleases rest on the       *)
(* inductive invariant SerialInv.  The last section strengthens it to      *)
(* PlanInv, on which BlueGreenSiteProofs builds.                           *)
(***************************************************************************)
EXTENDS BlueGreenRefinement, NumberLemmas, FiniteSetTheorems, TLAPS

\* NextPort is a free port whenever there is one.
LEMMA NextPortIsFree ==
  ASSUME FreePorts # {}
  PROVE  NextPort \in FreePorts
<1>1. FreePorts \subseteq Nat
  BY BlueGreenAssumption DEF FreePorts
<1>2. \E p \in FreePorts : \A q \in FreePorts : p <= q
  BY <1>1, LeastExists
<1> QED
  BY <1>2 DEF NextPort

-----------------------------------------------------------------------------
(* The operators the actions are built from keep the types *)

LEMMA DemotedTyped ==
  ASSUME NEW t \in RowTables, NEW n
  PROVE  Demoted(t, n) \in RowTables
BY DEF Demoted, RowTables, RowRecords, Ports

LEMMA NoRowTyped == NoRow \in RowRecords
BY BlueGreenAssumption DEF NoRow, RowRecords, Names, Ports

LEMMA PrunedTyped ==
  ASSUME NEW t \in RowTables, NEW l
  PROVE  Pruned(t, l) \in RowTables
BY NoRowTyped DEF Pruned, RowTables

LEMMA NoContainerTyped == NoContainer \in ContainerRecords
BY DEF NoContainer, ContainerRecords, Ports

LEMMA ContainersAfterTyped ==
  ASSUME TypeOK, NEW t, NEW u, NEW gone
  PROVE  ContainersAfter(t, u, gone) \in [Names -> ContainerRecords]
<1> SUFFICES ASSUME NEW n \in Names
             PROVE  ContainersAfter(t, u, gone)[n] \in ContainerRecords
  BY DEF ContainersAfter
<1>1. containers[n] \in ContainerRecords
  BY DEF TypeOK
<1>2. [containers[n] EXCEPT !.state = "exited"] \in ContainerRecords
  BY <1>1 DEF ContainerRecords
<1> QED
  BY <1>1, <1>2, NoContainerTyped DEF ContainersAfter

LEMMA ImagesAfterTyped ==
  ASSUME TypeOK, NEW gone
  PROVE  ImagesAfter(gone) \in [Names -> Jobs \cup {NoJob}]
BY DEF TypeOK, ImagesAfter

LEMMA RunLeavesTyped ==
  ASSUME TypeOK, NEW n \in Names, NEW p \in Ports
  PROVE  RunLeaves(n, p) \subseteq [Names -> ContainerRecords]
<1>1. ASSUME NEW s \in {"created", "running", "restarting"}
      PROVE  [containers EXCEPT ![n] = [state |-> s, port |-> p, build |-> images[n]]]
               \in [Names -> ContainerRecords]
  BY DEF TypeOK, ContainerRecords
<1>2. containers \in [Names -> ContainerRecords]
  BY DEF TypeOK
<1>3. Started(n, p) \subseteq [Names -> ContainerRecords]
  BY <1>1 DEF Started
<1> QED
  BY <1>1, <1>2, <1>3 DEF RunLeaves

LEMMA VersionsTyped == Versions \subseteq Names /\ 0 \in Names /\ Names \subseteq Nat
BY BlueGreenAssumption DEF Versions, Names

\* A job record with some fields replaced by values of their types.
LEMMA JobTyped ==
  ASSUME TypeOK
  PROVE  /\ \A j \in Jobs : jobs[j] \in JobRecords
         /\ Unused \in JobRecords
BY VersionsTyped DEF TypeOK, JobRecords, Unused, Ports, NoJob

-----------------------------------------------------------------------------
LEMMA InitTyped == Init => TypeOK
<1> SUFFICES ASSUME Init PROVE TypeOK
  OBVIOUS
<1>1. NoProject \in ProjectRecords
  BY VersionsTyped DEF NoProject, ProjectRecords, Ports
<1>2. Unused \in JobRecords
  BY VersionsTyped DEF JobRecords, Unused, Ports, NoJob
<1> QED
  BY <1>1, <1>2, NoRowTyped, NoContainerTyped
  DEF Init, TypeOK, RowTables, NothingSeen, NoTeardown, Ports

\* A step that only moves one job to another place keeps its record typed.
LEMMA MovedJobTyped ==
  ASSUME TypeOK, NEW j \in Jobs,
         NEW pc \in {"exited", "cleanup", "verify", "promote", "demote", "commit",
                     "finish", "over", "build", "remove", "run"},
         NEW outcome \in {"none", "ok", "failed", "aborted"}
  PROVE  /\ [jobs EXCEPT ![j].pc = pc] \in [Jobs -> JobRecords]
         /\ [jobs EXCEPT ![j].pc = pc, ![j].outcome = outcome] \in [Jobs -> JobRecords]
<1>1. ASSUME NEW x \in JobRecords
      PROVE  [x EXCEPT !.pc = pc] \in JobRecords
  BY DEF JobRecords, Alive
<1>2. ASSUME NEW x \in JobRecords
      PROVE  [x EXCEPT !.outcome = outcome] \in JobRecords
  BY DEF JobRecords
<1>3. ASSUME NEW f \in [Jobs -> JobRecords]
      PROVE  /\ [f EXCEPT ![j].pc = pc] \in [Jobs -> JobRecords]
             /\ [f EXCEPT ![j].outcome = outcome] \in [Jobs -> JobRecords]
  BY <1>1, <1>2
<1>4. [jobs EXCEPT ![j].pc = pc] \in [Jobs -> JobRecords]
  BY <1>3 DEF TypeOK
<1>5. [jobs EXCEPT ![j].pc = pc, ![j].outcome = outcome]
        = [[jobs EXCEPT ![j].pc = pc] EXCEPT ![j].outcome = outcome]
  OBVIOUS
<1> QED
  BY <1>3, <1>4, <1>5

\* A request handler and the launch of a job.
LEMMA LaunchTyped ==
  ASSUME TypeOK, NEW j \in Jobs,
         \/ Provision(j) \/ SetupNginx(j) \/ RejectVhost(j) \/ LaunchDeploy(j)
         \/ LaunchRefused(j) \/ LaunchRollback(j) \/ LaunchRestart(j) \/ LaunchStop(j)
  PROVE  TypeOK'
<1> USE VersionsTyped, JobTyped
<1>1. FreePorts # {} => NextPort \in Ports
  BY NextPortIsFree DEF FreePorts, Ports
<1>2. CASE Provision(j)
  <2>1. project' \in ProjectRecords
    BY <1>2 DEF Provision, TypeOK, NewProject, NoProject, ProjectRecords, Ports
  <2>2. jobs'[j] \in JobRecords /\ jobs' \in [Jobs -> JobRecords]
    <3>1. (IF project.port # NoPort THEN project.port ELSE NextPort) \in Ports
      BY <1>1, <1>2 DEF Provision, TypeOK, ProjectRecords
    <3> QED
      BY ZenonT(60), <1>2, <3>1 DEF Provision, TypeOK, JobRecords, Unused, Kinds
  <2> QED
    BY <1>2, <2>1, <2>2 DEF Provision, TypeOK, Docker, Requests
<1>3. CASE SetupNginx(j)
  <2>1. project' \in ProjectRecords
    BY <1>3 DEF SetupNginx, TypeOK, ProjectRecords, JobRecords
  <2>2. jobs' \in [Jobs -> JobRecords]
    BY ZenonT(60), <1>3 DEF SetupNginx, TypeOK, JobRecords, Unused, Kinds
  <2> QED
    BY <1>3, <2>1, <2>2 DEF SetupNginx, TypeOK, JobRecords, Docker, Requests
<1>4. CASE RejectVhost(j)
  <2>1. jobs' \in [Jobs -> JobRecords]
    BY <1>4 DEF RejectVhost, TypeOK, JobRecords, Unused, Kinds
  <2> QED
    BY <1>4, <2>1 DEF RejectVhost, TypeOK, Ports, Docker, Requests
<1>5. CASE LaunchDeploy(j)
  <2>1. project.counter + 1 \in Names
    BY <1>5, BlueGreenAssumption DEF LaunchDeploy, TypeOK, ProjectRecords, Names
  <2>2. (IF project.counter = 0 THEN project.port ELSE NextPort) \in Ports
    BY <1>1, <1>5 DEF LaunchDeploy, TypeOK, ProjectRecords
  <2>3. [Unused EXCEPT !.kind = "deploy", !.pc = "build", !.version = project.counter + 1,
                       !.port = IF project.counter = 0 THEN project.port ELSE NextPort,
                       !.fresh = ~(project.counter = 0), !.row = j] \in JobRecords
    <3>1. ASSUME NEW v \in Names, NEW p \in Ports, NEW b \in BOOLEAN
          PROVE  [Unused EXCEPT !.kind = "deploy", !.pc = "build", !.version = v, !.port = p,
                                !.fresh = b, !.row = j] \in JobRecords
      BY DEF JobRecords, Alive, Unused, Kinds
    <3> HIDE VersionsTyped, JobTyped
    <3> QED
      BY <2>1, <2>2, <3>1
  <2>4. jobs' \in [Jobs -> JobRecords]
    BY <1>5, <2>3 DEF LaunchDeploy, TypeOK
  <2> QED
    BY <1>5, <2>4 DEF LaunchDeploy, Register, TypeOK, Docker, Requests
<1>6. CASE LaunchRefused(j)
  BY <1>6, MovedJobTyped DEF LaunchRefused, TypeOK, Docker, Requests
<1>7. CASE LaunchRollback(j)
  <2>1. PICK r \in Jobs :
          /\ rows[r].status = "archived" => FreePorts # {}
          /\ jobs' = [jobs EXCEPT ![j] =
               [Unused EXCEPT !.kind = "rollback", !.pc = "remove", !.version = rows[r].version,
                              !.row = r, !.fresh = (rows[r].status = "archived"),
                              !.port = IF rows[r].status = "archived" THEN NextPort
                                                                      ELSE rows[r].port]]
    BY <1>7 DEF LaunchRollback
  <2>2. (IF rows[r].status = "archived" THEN NextPort ELSE rows[r].port) \in Ports
    BY <1>1, <2>1 DEF TypeOK, RowTables, RowRecords
  <2>3. rows[r].version \in Names
    BY DEF TypeOK, RowTables, RowRecords
  <2>4. jobs' \in [Jobs -> JobRecords]
    BY ZenonT(60), <2>1, <2>2, <2>3 DEF TypeOK, JobRecords, Unused, Kinds, Alive
  <2> QED
    BY <1>7, <2>4 DEF LaunchRollback, Register, TypeOK, Docker, Requests
<1>8. CASE LaunchRestart(j)
  <2>1. jobs' \in [Jobs -> JobRecords]
    BY ZenonT(60), <1>8 DEF LaunchRestart, TypeOK, ProjectRecords, JobRecords, Unused, Kinds, Alive
  <2> QED
    BY <1>8, <2>1, NoContainerTyped
    DEF LaunchRestart, Register, TypeOK, ProjectRecords, Requests
<1>9. CASE LaunchStop(j)
  <2>1. jobs' \in [Jobs -> JobRecords]
    BY ZenonT(60), <1>9 DEF LaunchStop, TypeOK, ProjectRecords, JobRecords, Unused, Kinds, Alive
  <2> QED
    BY <1>9, <2>1 DEF LaunchStop, Register, TypeOK, Docker, Requests
<1> QED
  BY <1>2, <1>3, <1>4, <1>5, <1>6, <1>7, <1>8, <1>9

\* The steps of subprocesses and what may outlive them.
LEMMA ProcessTyped ==
  ASSUME TypeOK, NEW j \in Jobs, Build(j) \/ Remove(j) \/ Run(j) \/ Stop(j)
  PROVE  TypeOK'
<1>1. jobs[j].version \in Names /\ jobs[j].port \in Ports
  BY JobTyped DEF JobRecords
<1>2. CASE Build(j)
  <2>1. jobs' \in [Jobs -> JobRecords]
    <3>1. /\ [jobs EXCEPT ![j].pc = "remove"] \in [Jobs -> JobRecords]
          /\ [jobs EXCEPT ![j].pc = "exited", ![j].outcome = "failed"] \in [Jobs -> JobRecords]
      BY MovedJobTyped
    <3> QED
      BY <1>2, <3>1 DEF Build
  <2>2. images' \in [Names -> Jobs \cup {NoJob}]
    <3>1. [images EXCEPT ![jobs[j].version] = j] \in [Names -> Jobs \cup {NoJob}]
      BY SMTT(40), <1>1 DEF TypeOK
    <3> QED
      BY <1>2, <3>1 DEF Build, TypeOK
  <2> QED
    BY <1>2, <2>1, <2>2 DEF Build, TypeOK, Requests
<1>3. CASE Remove(j)
  BY <1>1, <1>3, MovedJobTyped, NoContainerTyped DEF Remove, TypeOK, Requests
<1>4. CASE Run(j)
  <2>1. containers' \in [Names -> ContainerRecords]
    BY SMTT(40), <1>1, <1>4, RunLeavesTyped DEF Run
  <2>2. jobs' \in [Jobs -> JobRecords]
    BY <1>4, MovedJobTyped DEF Run
  <2> QED
    BY <1>4, <2>1, <2>2 DEF Run, TypeOK, Requests
<1>5. CASE Stop(j)
  <2>1. containers' \in [Names -> ContainerRecords]
    <3>1. ASSUME NEW c \in ContainerRecords
          PROVE  [c EXCEPT !.state = "exited"] \in ContainerRecords
      BY SMTT(40) DEF ContainerRecords
    <3> QED
      BY <1>1, <1>5, <3>1 DEF Stop, TypeOK
  <2>2. jobs' \in [Jobs -> JobRecords]
    BY <1>5, MovedJobTyped DEF Stop
  <2> QED
    BY <1>5, <2>1, <2>2 DEF Stop, TypeOK, Requests
<1> QED
  BY <1>2, <1>3, <1>4, <1>5

LEMMA OrphanTyped ==
  ASSUME TypeOK, OrphanEnds
  PROVE  TypeOK'
<1>1. PICK o \in orphans :
        /\ orphans' = orphans \ {o}
        /\ \/ /\ images' = [images EXCEPT ![o.version] = o.build]
              /\ UNCHANGED containers
           \/ /\ containers' \in RunLeaves(o.version, o.port)
              /\ UNCHANGED images
        /\ UNCHANGED <<project, rows, nginx, jobs, status, registered, seen, Requests>>
  BY DEF OrphanEnds
<1>2. o.version \in Names /\ o.port \in Ports /\ o.build \in Jobs
  BY DEF TypeOK, OrphanRecords
<1>3. RunLeaves(o.version, o.port) \subseteq [Names -> ContainerRecords]
  BY <1>2, RunLeavesTyped
<1> QED
  BY <1>1, <1>2, <1>3 DEF TypeOK, Requests

LEMMA AbortTyped ==
  ASSUME TypeOK, AbortRegistered
  PROVE  /\ jobs' \in [Jobs -> JobRecords]
         /\ status' \in [Jobs -> {"none", "running", "done", "error", "aborted", "lost"}]
         /\ orphans' \subseteq OrphanRecords
<1>1. CASE UNCHANGED <<jobs, status, orphans>>
  BY <1>1 DEF TypeOK
<1>2. CASE registered # NoJob /\ status[registered] = "running"
  <2>1. registered \in Jobs
    BY <1>2 DEF TypeOK
  <2>2. jobs' \in [Jobs -> JobRecords]
    <3>1. [jobs EXCEPT ![registered].pc = "exited", ![registered].outcome = "failed"]
            \in [Jobs -> JobRecords]
      BY <2>1, MovedJobTyped
    <3> QED
      BY <1>2, <3>1 DEF AbortRegistered, TypeOK
  <2>3. status' \in [Jobs -> {"none", "running", "done", "error", "aborted", "lost"}]
    BY <1>2, <2>1 DEF AbortRegistered, TypeOK
  <2>4. orphans' \subseteq OrphanRecords
    <3>1. jobs[registered] \in JobRecords
      BY <2>1, JobTyped
    <3> QED
      BY <1>2, <2>1, <3>1 DEF AbortRegistered, TypeOK, OrphanRecords, JobRecords
  <2> QED
    BY <2>2, <2>3, <2>4
<1> QED
  BY <1>1, <1>2 DEF AbortRegistered

\* The steps of the thread that finishes a job.
LEMMA ThreadTyped ==
  ASSUME TypeOK, NEW j \in Jobs,
         \/ Check(j) \/ Verify(j) \/ Cleanup(j) \/ SwitchNginx(j) \/ DemoteOthers(j)
         \/ LockTimeout(j) \/ Commit(j) \/ Finish(j) \/ Monitor(j)
  PROVE  TypeOK'
<1>1. jobs[j] \in JobRecords /\ jobs \in [Jobs -> JobRecords]
  BY DEF TypeOK
<1>2. Over(j) \in [Jobs -> JobRecords]
  <2>1. [Unused EXCEPT !.kind = jobs[j].kind, !.pc = "over"] \in JobRecords
    BY <1>1, VersionsTyped DEF JobRecords, Unused, Ports, NoJob
  <2> QED
    BY <1>1, <2>1 DEF Over
<1>3. PromoteFails(j) => jobs' \in [Jobs -> JobRecords]
  <2>1. [jobs EXCEPT ![j].pc = "finish", ![j].outcome = "failed"] \in [Jobs -> JobRecords]
    BY MovedJobTyped
  <2> QED
    BY <2>1 DEF PromoteFails
<1>4. seen[j].rows \in RowTables /\ seen[j].project \in ProjectRecords
  BY DEF TypeOK
<1>5. CASE Check(j)
  <2>1. jobs[j].outcome \in {"none", "ok", "failed", "aborted"}
    BY SMTT(40), <1>1 DEF JobRecords
  <2>2. jobs' \in [Jobs -> JobRecords]
    BY ZenonT(60), <1>5, <2>1, MovedJobTyped DEF Check
  <2> QED
    BY <1>5, <2>2 DEF Check, TypeOK, Docker, Requests
<1>6. CASE Verify(j)
  <2>1. jobs[j].outcome \in {"none", "ok", "failed", "aborted"}
    BY <1>1 DEF JobRecords
  <2>2. jobs' \in [Jobs -> JobRecords]
    BY ZenonT(60), <1>6, <2>1, MovedJobTyped DEF Verify
  <2> QED
    BY <1>6, <2>2 DEF Verify, TypeOK, Docker, Requests
<1>7. CASE Cleanup(j)
  <2>1. jobs' \in [Jobs -> JobRecords]
    BY <1>7, MovedJobTyped DEF Cleanup
  <2>2. jobs[j].version \in Names
    BY <1>1 DEF JobRecords
  <2>3. containers' \in [Names -> ContainerRecords]
    BY <1>7, <2>2, NoContainerTyped DEF Cleanup, TypeOK
  <2>4. images' \in [Names -> Jobs \cup {NoJob}]
    BY <1>7, ImagesAfterTyped DEF Cleanup, TypeOK
  <2> QED
    BY <1>7, <2>1, <2>3, <2>4 DEF Cleanup, TypeOK, Requests
<1>8. CASE SwitchNginx(j)
  <2>1. CASE PromoteFails(j) /\ UNCHANGED <<nginx, seen>>
    BY <1>3, <1>8, <2>1 DEF SwitchNginx, TypeOK, Docker, Requests
  <2>2. CASE \E r \in Target(j) :
             LET p == IF jobs[j].fresh \/ jobs[j].kind = "deploy" THEN jobs[j].port
                                                                  ELSE rows[r].port IN
             /\ jobs' = [jobs EXCEPT ![j].pc = "demote", ![j].row = r, ![j].port = p]
             /\ nginx' = IF (jobs[j].kind = "rollback" \/ jobs[j].fresh) /\ p # NoPort
                         THEN p ELSE nginx
             /\ seen' = [seen EXCEPT ![j] = [project |-> project, rows |-> rows]]
    <3> DEFINE port(r) == IF jobs[j].fresh \/ jobs[j].kind = "deploy" THEN jobs[j].port
                                                                      ELSE rows[r].port
    <3>1. PICK r \in Target(j) :
            /\ jobs' = [jobs EXCEPT ![j].pc = "demote", ![j].row = r, ![j].port = port(r)]
            /\ nginx' = IF (jobs[j].kind = "rollback" \/ jobs[j].fresh) /\ port(r) # NoPort
                        THEN port(r) ELSE nginx
            /\ seen' = [seen EXCEPT ![j] = [project |-> project, rows |-> rows]]
      BY <2>2
    <3>2. r \in Jobs
      BY DEF Target
    <3>3. port(r) \in Ports
      BY <1>1, <3>2 DEF JobRecords, TypeOK, RowTables, RowRecords
    <3> HIDE DEF port
    <3>4. ASSUME NEW x \in JobRecords
          PROVE  [x EXCEPT !.pc = "demote", !.row = r, !.port = port(r)] \in JobRecords
      BY <3>2, <3>3 DEF JobRecords
    <3>5. [jobs[j] EXCEPT !.pc = "demote", !.row = r, !.port = port(r)] \in JobRecords
      BY <1>1, <3>4
    <3>6. jobs' = [jobs EXCEPT ![j] =
                     [jobs[j] EXCEPT !.pc = "demote", !.row = r, !.port = port(r)]]
      BY <1>1, <3>1
    <3>7. jobs' \in [Jobs -> JobRecords]
      BY <1>1, <3>5, <3>6
    <3> QED
      BY <1>8, <3>1, <3>3, <3>7 DEF SwitchNginx, TypeOK, Docker, Requests
  <2> QED
    BY <1>8, <2>1, <2>2 DEF SwitchNginx
<1>9. CASE DemoteOthers(j)
  <2>1. jobs' \in [Jobs -> JobRecords]
    <3>1. [jobs EXCEPT ![j].pc = "commit"] \in [Jobs -> JobRecords]
      BY MovedJobTyped
    <3> QED
      BY SMTT(40), <1>3, <1>9, <3>1 DEF DemoteOthers
  <2>2. /\ containers' \in [Names -> ContainerRecords]
        /\ images' \in [Names -> Jobs \cup {NoJob}]
    BY <1>9, ContainersAfterTyped, ImagesAfterTyped DEF DemoteOthers, TypeOK
  <2> QED
    BY <1>9, <2>1, <2>2 DEF DemoteOthers, TypeOK, Requests
<1>10. CASE LockTimeout(j)
  BY <1>3, <1>10 DEF LockTimeout, TypeOK, Docker, Requests
<1>11. CASE Commit(j)
  <2>1. Loaded(j) \in RowTables
    <3>1. [version |-> jobs[j].version, status |-> "active", port |-> jobs[j].port] \in RowRecords
      BY <1>1 DEF JobRecords, RowRecords
    <3>2. ASSUME NEW x \in RowRecords
          PROVE  [x EXCEPT !.status = "active", !.port = jobs[j].port] \in RowRecords
      BY <1>1 DEF JobRecords, RowRecords
    <3>3. [seen[j].rows EXCEPT ![jobs[j].row].status = "active",
                               ![jobs[j].row].port = jobs[j].port] \in RowTables
      <4>1. [seen[j].rows EXCEPT ![jobs[j].row].status = "active",
                                 ![jobs[j].row].port = jobs[j].port]
              = [seen[j].rows EXCEPT ![jobs[j].row] =
                   [seen[j].rows[jobs[j].row] EXCEPT !.status = "active",
                                                     !.port = jobs[j].port]]
        BY <1>4 DEF RowTables
      <4> QED
        BY <1>4, <3>2, <4>1 DEF RowTables
    <3> QED
      BY <3>1, <3>3 DEF Loaded, TypeOK, RowTables
  <2>2. Final(j) \in RowTables
    BY <2>1, DemotedTyped, PrunedTyped DEF Final, Shuffled
  <2>3. rows' \in RowTables
    BY <1>4, <1>11, <2>2 DEF Commit, Written, TypeOK, RowTables
  <2>4. project' \in ProjectRecords
    <3>1. /\ CounterAfter(j) \in Names
          /\ Written(seen[j].project.port, project.port, jobs[j].port) \in Ports
          /\ Written(seen[j].project.version, project.version, jobs[j].version) \in Names
      BY <1>1, <1>4 DEF CounterAfter, Written, TypeOK, ProjectRecords, JobRecords
    <3>2. ASSUME NEW x \in ProjectRecords, NEW c \in Names, NEW p \in Ports, NEW v \in Names
          PROVE  [x EXCEPT !.counter = c, !.port = p, !.version = v] \in ProjectRecords
      BY DEF ProjectRecords
    <3> QED
      <4>1. project \in ProjectRecords
        BY DEF TypeOK
      <4>2. [project EXCEPT
              !.counter = CounterAfter(j),
              !.port = Written(seen[j].project.port, project.port, jobs[j].port),
              !.version = Written(seen[j].project.version, project.version, jobs[j].version)]
                \in ProjectRecords
        BY <3>1, <3>2, <4>1
      <4> QED
        BY <1>11, <4>1, <4>2 DEF Commit
  <2>5. jobs' \in [Jobs -> JobRecords]
    <3>1. [jobs EXCEPT ![j].pc = "finish"] \in [Jobs -> JobRecords]
      BY MovedJobTyped
    <3> QED
      BY <1>3, <1>11, <3>1 DEF Commit
  <2> QED
    BY <1>11, <2>3, <2>4, <2>5 DEF Commit, TypeOK, Docker, Requests
<1>12. CASE Finish(j)
  <2>1. status' \in [Jobs -> {"none", "running", "done", "error", "aborted", "lost"}]
    BY <1>12 DEF Finish, TypeOK
  <2>2. NothingSeen \in [project : ProjectRecords, rows : RowTables]
    BY NoRowTyped, VersionsTyped
    DEF NothingSeen, RowTables, NoProject, ProjectRecords, Ports
  <2>3. seen' \in [Jobs -> [project : ProjectRecords, rows : RowTables]]
    BY <1>12, <2>2 DEF Finish, TypeOK
  <2> QED
    BY <1>2, <1>12, <2>1, <2>3 DEF Finish, TypeOK, Docker, Requests
<1>13. CASE Monitor(j)
  <2>1. status' \in [Jobs -> {"none", "running", "done", "error", "aborted", "lost"}]
    BY <1>13 DEF Monitor, TypeOK
  <2> QED
    BY <1>2, <1>13, <2>1 DEF Monitor, TypeOK, Docker, Requests
<1> QED
  BY <1>5, <1>6, <1>7, <1>8, <1>9, <1>10, <1>11, <1>12, <1>13

\* The requests that need no job, and the death of the server.
LEMMA HandlerTyped ==
  ASSUME TypeOK, SetLimit \/ EnforceLimit \/ DeleteDocker \/ DeleteNginx \/ DeleteRow
  PROVE  TypeOK'
<1>1. CASE SetLimit
  <2>1. PICK l \in Limits : project' = [project EXCEPT !.limit = l]
    BY <1>1 DEF SetLimit
  <2>2. project' \in ProjectRecords
    BY <2>1 DEF TypeOK, ProjectRecords
  <2> QED
    BY <1>1, <2>2 DEF SetLimit, TypeOK, Docker
<1>2. CASE EnforceLimit
  <2>1. rows' \in RowTables
    BY <1>2, PrunedTyped DEF EnforceLimit, TypeOK
  <2>2. /\ containers' \in [Names -> ContainerRecords]
        /\ images' \in [Names -> Jobs \cup {NoJob}]
    BY <1>2, ContainersAfterTyped, ImagesAfterTyped DEF EnforceLimit
  <2> QED
    BY <1>2, <2>1, <2>2 DEF EnforceLimit, TypeOK
<1>3. CASE DeleteDocker
  <2>1. /\ containers' \in [Names -> ContainerRecords]
        /\ images' \in [Names -> Jobs \cup {NoJob}]
    BY <1>3, ContainersAfterTyped, ImagesAfterTyped DEF DeleteDocker
  <2>2. AbortRegistered
    BY <1>3 DEF DeleteDocker
  <2> QED
    BY <1>3, <2>1, <2>2, AbortTyped DEF DeleteDocker, TypeOK
<1>4. CASE DeleteNginx
  BY <1>4 DEF DeleteNginx, TypeOK, Ports, Docker
<1>5. CASE DeleteRow
  <2>1. project' \in ProjectRecords
    BY <1>5, VersionsTyped DEF DeleteRow, NoProject, ProjectRecords, Ports
  <2>2. rows' \in RowTables
    BY <1>5, NoRowTyped DEF DeleteRow, TypeOK, RowTables
  <2> QED
    BY <1>5, <2>1, <2>2 DEF DeleteRow, TypeOK, NoTeardown, Docker
<1> QED
  BY <1>1, <1>2, <1>3, <1>4, <1>5

LEMMA CrashTyped ==
  ASSUME TypeOK, Crash
  PROVE  TypeOK'
<1>1. jobs' \in [Jobs -> JobRecords]
  <2>1. ASSUME NEW j \in Jobs
        PROVE  [Unused EXCEPT !.kind = jobs[j].kind, !.pc = "over"] \in JobRecords
    BY JobTyped DEF JobRecords, Unused
  <2> QED
    BY <2>1, JobTyped DEF Crash
<1>2. NothingSeen \in [project : ProjectRecords, rows : RowTables]
  BY NoRowTyped, VersionsTyped DEF NothingSeen, RowTables, NoProject, ProjectRecords, Ports
<1>3. status' \in [Jobs -> {"none", "running", "done", "error", "aborted", "lost"}]
  BY DEF Crash, TypeOK
<1> QED
  BY <1>1, <1>2, <1>3 DEF Crash, TypeOK, NoTeardown

LEMMA StepTyped ==
  ASSUME TypeOK, [Next]_vars
  PROVE  TypeOK'
<1>1. CASE \E j \in Jobs : Client(j) \/ Thread(j)
  BY <1>1, LaunchTyped, ProcessTyped, ThreadTyped DEF Client, Thread
<1>2. CASE SetLimit \/ DeleteDocker \/ Handler
  BY <1>2, HandlerTyped DEF Handler
<1>3. CASE Abort
  BY <1>3, AbortTyped DEF Abort, TypeOK, Requests
<1>4. CASE OrphanEnds
  BY <1>4, OrphanTyped
<1>5. CASE Crash
  BY <1>5, CrashTyped
<1>6. CASE UNCHANGED vars
  BY <1>6 DEF vars, TypeOK
<1> QED
  BY <1>1, <1>2, <1>3, <1>4, <1>5, <1>6 DEF Next

\* Every variable keeps its type, whichever operations overlap and whatever the
\* environment does.
THEOREM TypeCorrect == Spec => []TypeOK
<1>1. Init => TypeOK
  BY InitTyped
<1>2. TypeOK /\ [Next]_vars => TypeOK'
  BY StepTyped
<1> QED
  BY <1>1, <1>2, PTL DEF Spec

-----------------------------------------------------------------------------
(* One operation at a time                                                 *)
(*                                                                         *)
(* VersionTiers is not inductive: what a promote writes depends on what    *)
(* its job captured at launch and what its session loaded.  SerialInv adds *)
(* that at most one operation is in flight, that what it captured is still *)
(* true of the database, and that rows come from jobs that have committed. *)

\* The places of a job between its launch and its commit.
Deploying == {"build", "remove", "run", "stopping", "exited", "cleanup", "verify",
              "promote", "demote", "commit"}

Loading == {"demote", "commit"}

\* At most one job, limit change or delete is being carried out.
OneOperation ==
  /\ \A i, j \in Jobs : InFlight(i) /\ InFlight(j) => i = j
  /\ (\E j \in Jobs : InFlight(j)) => ~pruneDue /\ teardown = NoTeardown
  /\ pruneDue => teardown = NoTeardown

\* A row is that of a job that has committed, and there is none without a project
\* or beyond the reach of a delete under way.
RowsAreCommitted ==
  /\ \A r \in Jobs : Present(r) => jobs[r].pc \in {"finish", "over"}
  /\ ~project.exists => project.counter = 0
  /\ teardown.step # "none" => \A r \in Jobs : Present(r) => r \in teardown.doomed

\* What a job captured at its launch and loaded in its session is what the
\* database holds.
CaptureHolds(j) ==
  /\ jobs[j].kind = "deploy" /\ jobs[j].pc \in Deploying =>
       project.exists /\ jobs[j].version = project.counter + 1
  /\ jobs[j].pc \in {"verify", "promote"} \cup Loading =>
       jobs[j].kind \in {"deploy", "rollback"}
  /\ jobs[j].pc \in Loading =>
       /\ project.exists
       /\ seen[j].project = project
  /\ jobs[j].pc \in Loading /\ jobs[j].kind = "rollback" =>
       /\ seen[j].rows = rows
       /\ jobs[j].row \in Jobs /\ Present(jobs[j].row)
       /\ rows[jobs[j].row].version = jobs[j].version

CapturesHold == \A j \in Jobs : CaptureHolds(j)

SerialInv == TypeOK /\ OneOperation /\ RowsAreCommitted /\ CapturesHold /\ VersionTiers

\* A step of the job in flight that neither commits nor starts to load anything.
Quiet(j) ==
  /\ InFlight(j)
  /\ \A i \in Jobs \ {j} : jobs'[i] = jobs[i]
  /\ UNCHANGED <<rows, pruneDue, teardown>>
  /\ seen' = seen \/ jobs'[j].pc \notin Loading
  /\ project'.exists = project.exists /\ project'.counter = project.counter
  /\ jobs'[j].pc \in Loading =>
       project' = project /\ jobs[j].pc \in Loading /\ jobs'[j].row = jobs[j].row
  /\ jobs'[j].pc \in Deploying =>
       /\ jobs[j].pc \in Deploying
       /\ jobs'[j].kind = jobs[j].kind /\ jobs'[j].version = jobs[j].version
  /\ jobs'[j].pc \in {"verify", "promote"} => jobs[j].kind \in {"deploy", "rollback"}
  /\ jobs[j].pc = "finish" => jobs'[j].pc = "over"

LEMMA QuietStep ==
  ASSUME SerialInv, TypeOK', NEW j \in Jobs, Quiet(j)
  PROVE  SerialInv'
<1> USE DEF Quiet
<1>1. \A i \in Jobs \ {j} : ~InFlight(i) /\ ~(InFlight(i)')
  BY DEF SerialInv, OneOperation, InFlight
<1>2. OneOperation'
  BY <1>1 DEF SerialInv, OneOperation
<1>3. RowsAreCommitted'
  <2>1. \A r \in Jobs : Present(r)' <=> Present(r)
    BY DEF Present
  <2>2. Present(j) => jobs'[j].pc \in {"finish", "over"}
    BY DEF SerialInv, RowsAreCommitted, InFlight
  <2> QED
    BY <2>1, <2>2 DEF SerialInv, RowsAreCommitted
<1>4. ASSUME NEW i \in Jobs
      PROVE  CaptureHolds(i)'
  <2>0. CaptureHolds(i) /\ \A r \in Jobs : Present(r)' <=> Present(r)
    BY DEF SerialInv, CapturesHold, Present
  <2>1. CASE i # j
    BY <1>1, <2>1 DEF CaptureHolds, InFlight, Loading, Deploying
  <2>2. CASE i = j
    <3>1. jobs'[i].kind = "deploy" /\ jobs'[i].pc \in Deploying =>
            project'.exists /\ jobs'[i].version = project'.counter + 1
      BY <2>0, <2>2 DEF CaptureHolds
    <3>2. jobs'[i].pc \in {"verify", "promote"} \cup Loading =>
            jobs'[i].kind \in {"deploy", "rollback"}
      BY <2>0, <2>2 DEF CaptureHolds, Loading, Deploying
    <3>3. jobs'[i].pc \in Loading =>
            /\ seen' = seen /\ project' = project /\ jobs[i].pc \in Loading
            /\ jobs'[i].row = jobs[i].row /\ jobs'[i].version = jobs[i].version
            /\ jobs'[i].kind = jobs[i].kind
      BY <2>2 DEF Loading, Deploying
    <3>4. jobs'[i].pc \in Loading => project'.exists /\ seen'[i].project = project'
      BY <2>0, <3>3 DEF CaptureHolds
    <3>5. jobs'[i].pc \in Loading /\ jobs'[i].kind = "rollback" =>
            /\ seen'[i].rows = rows'
            /\ jobs'[i].row \in Jobs /\ Present(jobs[i].row)
            /\ rows'[jobs'[i].row].version = jobs'[i].version
      BY <2>0, <2>2, <3>3 DEF CaptureHolds
    <3> QED
      BY <2>0, <3>1, <3>2, <3>3, <3>4, <3>5 DEF CaptureHolds, Present
  <2> QED
    BY <2>1, <2>2
<1>5. VersionTiers'
  BY DEF SerialInv, VersionTiers, Tiers
<1> QED
  BY <1>2, <1>3, <1>4, <1>5 DEF SerialInv, CapturesHold

\* A launch when nothing is in flight keeps SerialInv.
LEMMA LaunchStep ==
  ASSUME SerialInv, TypeOK', NEW j \in Jobs, NEW job,
         Idle, IsNext(j), jobs' = [jobs EXCEPT ![j] = job],
         job.kind = "deploy" => job.pc \notin Deploying,
         job.pc \notin {"verify", "promote"} \cup Loading,
         rows' = rows, pruneDue' = pruneDue, teardown' = teardown,
         project' = project \/ (~project.exists /\ project' = NewProject)
  PROVE  SerialInv'
<1>1. jobs[j].pc = "unused" /\ jobs \in [Jobs -> JobRecords]
  BY DEF IsNext, Jobs, SerialInv, TypeOK
<1>2. \A i \in Jobs : ~InFlight(i)
  BY DEF Idle
<1>3. \A i \in Jobs : i # j => jobs'[i] = jobs[i]
  BY <1>1
<1>4. jobs'[j] = job
  BY <1>1
<1>5. OneOperation'
  BY <1>2, <1>3 DEF OneOperation, InFlight, Idle, SerialInv
<1>6. project'.counter = project.counter
  BY DEF SerialInv, RowsAreCommitted, NewProject, NoProject
<1>7. RowsAreCommitted'
  <2>1. ~Present(j)
    BY <1>1 DEF SerialInv, RowsAreCommitted
  <2>2. ~project'.exists => project'.counter = 0
    BY DEF SerialInv, RowsAreCommitted, NewProject, NoProject
  <2>3. teardown'.step = "none"
    BY DEF Idle, NoTeardown
  <2> QED
    BY <1>3, <2>1, <2>2, <2>3 DEF SerialInv, RowsAreCommitted, Present
<1>8. CapturesHold'
  BY <1>2, <1>3, <1>4 DEF CapturesHold, CaptureHolds, InFlight, Loading, Deploying
<1>9. VersionTiers'
  BY <1>6 DEF SerialInv, VersionTiers, Tiers
<1> QED
  BY <1>5, <1>7, <1>8, <1>9 DEF SerialInv

\* A step that touches neither jobs nor the rows keeps SerialInv.
LEMMA DockerStep ==
  ASSUME SerialInv, TypeOK',
         UNCHANGED <<project, rows, jobs, seen, pruneDue, teardown>>
  PROVE  SerialInv'
BY DEF SerialInv, OneOperation, RowsAreCommitted, CapturesHold, CaptureHolds, VersionTiers,
       Tiers, InFlight, Present

\* The steps of the request threads and the subprocesses.
LEMMA ProcessQuiet ==
  ASSUME SerialInv, NEW j \in Jobs,
         \/ SetupNginx(j) \/ RejectVhost(j) \/ LaunchRefused(j) \/ Build(j) \/ Remove(j)
         \/ Run(j) \/ Stop(j)
  PROVE  Quiet(j)
<1>1. jobs \in [Jobs -> JobRecords]
  BY DEF SerialInv, TypeOK
<1>2. project \in ProjectRecords
  BY DEF SerialInv, TypeOK
<1> USE DEF Quiet, InFlight, Requests, Deploying, Loading
<1>3. CASE SetupNginx(j)
  <2>1. \A x \in ProjectRecords, p \in Ports :
          [x EXCEPT !.port = p].exists = x.exists /\ [x EXCEPT !.port = p].counter = x.counter
    BY DEF ProjectRecords
  <2>2. jobs[j].port \in Ports
    BY <1>1 DEF JobRecords
  <2>3. project'.exists = project.exists /\ project'.counter = project.counter
    BY <1>2, <1>3, <2>1, <2>2 DEF SetupNginx
  <2>4. jobs'[j].pc \in {"launch", "over"}
    BY <1>1, <1>3 DEF SetupNginx, Unused
  <2> QED
    BY <1>1, <1>3, <2>3, <2>4 DEF SetupNginx
<1>4. CASE RejectVhost(j)
  BY <1>1, <1>4 DEF RejectVhost, Unused
<1>5. CASE LaunchRefused(j)
  BY <1>1, <1>5 DEF LaunchRefused, JobRecords
<1>6. CASE Build(j)
  BY <1>1, <1>6 DEF Build, JobRecords
<1>7. CASE Remove(j)
  BY <1>1, <1>7 DEF Remove, JobRecords
<1>8. CASE Run(j)
  <2>1. \A x \in JobRecords, o \in {"ok", "failed"} :
          [x EXCEPT !.pc = "exited", !.outcome = o].pc = "exited" /\
          [x EXCEPT !.pc = "exited", !.outcome = o].kind = x.kind /\
          [x EXCEPT !.pc = "exited", !.outcome = o].version = x.version
    BY DEF JobRecords
  <2>2. PICK o \in {"ok", "failed"} :
          jobs' = [jobs EXCEPT ![j] = [@ EXCEPT !.pc = "exited", !.outcome = o]]
    BY <1>1, <1>8 DEF Run
  <2>3. /\ jobs'[j].pc = "exited" /\ jobs'[j].kind = jobs[j].kind
        /\ jobs'[j].version = jobs[j].version
        /\ \A i \in Jobs \ {j} : jobs'[i] = jobs[i]
    BY <1>1, <2>1, <2>2
  <2> QED
    BY <1>8, <2>3 DEF Run
<1>9. CASE Stop(j)
  BY <1>1, <1>9 DEF Stop, JobRecords
<1> QED
  BY <1>3, <1>4, <1>5, <1>6, <1>7, <1>8, <1>9

\* The steps of the thread that finishes a job, but for those that load or write
\* the rows.
LEMMA FinisherQuiet ==
  ASSUME SerialInv, NEW j \in Jobs,
         \/ Check(j) \/ Verify(j) \/ Cleanup(j) \/ DemoteOthers(j) \/ LockTimeout(j)
         \/ Finish(j) \/ Monitor(j)
  PROVE  Quiet(j)
<1>1. jobs \in [Jobs -> JobRecords]
  BY DEF SerialInv, TypeOK
<1>2. jobs[j].pc \in {"verify", "promote"} \cup Loading => jobs[j].kind \in {"deploy", "rollback"}
  BY DEF SerialInv, CapturesHold, CaptureHolds
<1> USE DEF Quiet, InFlight, Requests, Deploying, Loading
<1>3. CASE Check(j)
  BY <1>1, <1>3 DEF Check, JobRecords
<1>4. CASE Verify(j)
  BY <1>1, <1>2, <1>4 DEF Verify, JobRecords
<1>5. CASE Cleanup(j)
  BY <1>1, <1>5 DEF Cleanup, JobRecords
<1>6. CASE DemoteOthers(j)
  BY <1>1, <1>6 DEF DemoteOthers, PromoteFails, JobRecords
<1>7. CASE LockTimeout(j)
  BY <1>1, <1>7 DEF LockTimeout, PromoteFails, JobRecords
<1>8. CASE Finish(j)
  BY <1>1, <1>8 DEF Finish, Over, Unused, JobRecords
<1>9. CASE Monitor(j)
  BY <1>1, <1>9 DEF Monitor, Over, Unused, JobRecords
<1> QED
  BY <1>3, <1>4, <1>5, <1>6, <1>7, <1>8, <1>9

\* With no overlap, what launches a job finds nothing in flight.
LEMMA ClientSteps ==
  ASSUME SerialInv, TypeOK', Overlap = {}, NEW j \in Jobs, Client(j)
  PROVE  SerialInv'
<1>1. Idle /\ IsNext(j)
  BY DEF Client, Provision, LaunchRollback, LaunchRestart, LaunchStop, Admits
<1>2. PICK job :
        /\ jobs' = [jobs EXCEPT ![j] = job]
        /\ job.kind = "deploy" => job.pc \notin Deploying
        /\ job.pc \notin {"verify", "promote"} \cup Loading
        /\ UNCHANGED <<rows, pruneDue, teardown>>
        /\ project' = project \/ (~project.exists /\ project' = NewProject)
  <2>1. CASE Provision(j)
    <3> DEFINE job == [Unused EXCEPT !.kind = "deploy", !.pc = "nginx",
                         !.fresh = (project.port = NoPort),
                         !.port = IF project.port # NoPort THEN project.port ELSE NextPort]
    <3>1. jobs' = [jobs EXCEPT ![j] = job]
      BY <2>1 DEF Provision
    <3>2. job.pc = "nginx"
      BY DEF Unused
    <3>3. /\ UNCHANGED <<rows, pruneDue, teardown>>
          /\ project' = project \/ (~project.exists /\ project' = NewProject)
      BY <2>1 DEF Provision, Requests
    <3> HIDE DEF job
    <3>4. job.pc \notin Deploying /\ job.pc \notin {"verify", "promote"} \cup Loading
      BY <3>2 DEF Deploying, Loading
    <3> QED
      BY <3>1, <3>3, <3>4
  <2>2. CASE LaunchRollback(j)
    <3>1. PICK r \in Jobs : jobs' = [jobs EXCEPT ![j] =
            [Unused EXCEPT !.kind = "rollback", !.pc = "remove", !.version = rows[r].version,
                           !.row = r, !.fresh = (rows[r].status = "archived"),
                           !.port = IF rows[r].status = "archived" THEN NextPort
                                                                   ELSE rows[r].port]]
      BY <2>2 DEF LaunchRollback
    <3> DEFINE job == [Unused EXCEPT !.kind = "rollback", !.pc = "remove",
                         !.version = rows[r].version, !.row = r,
                         !.fresh = (rows[r].status = "archived"),
                         !.port = IF rows[r].status = "archived" THEN NextPort
                                                                 ELSE rows[r].port]
    <3>2. job.kind = "rollback" /\ job.pc = "remove"
      BY DEF Unused
    <3>3. UNCHANGED <<project, rows, pruneDue, teardown>>
      BY <2>2 DEF LaunchRollback, Requests
    <3>4. jobs' = [jobs EXCEPT ![j] = job]
      BY <3>1
    <3> HIDE DEF job
    <3>5. job.kind # "deploy" /\ job.pc \notin {"verify", "promote"} \cup Loading
      BY <3>2 DEF Loading
    <3> QED
      BY <3>3, <3>4, <3>5
  <2>3. CASE LaunchRestart(j)
    BY <2>3 DEF LaunchRestart, Unused, Deploying, Loading, Requests
  <2>4. CASE LaunchStop(j)
    BY <2>4 DEF LaunchStop, Unused, Deploying, Loading, Requests
  <2> QED
    BY <2>1, <2>2, <2>3, <2>4 DEF Client
<1> QED
  BY <1>1, <1>2, LaunchStep

\* bluegreen_deploy captures the next version number while no other job runs.
LEMMA LaunchDeployStep ==
  ASSUME SerialInv, TypeOK', NEW j \in Jobs, LaunchDeploy(j)
  PROVE  SerialInv'
<1>1. jobs \in [Jobs -> JobRecords]
  BY DEF SerialInv, TypeOK
<1>2. \A i \in Jobs \ {j} : ~InFlight(i) /\ jobs'[i] = jobs[i]
  BY <1>1 DEF LaunchDeploy, SerialInv, OneOperation, InFlight
<1>3. /\ jobs[j].pc = "launch" /\ project.exists
      /\ jobs'[j].pc = "build" /\ jobs'[j].version = project.counter + 1
  BY <1>1 DEF LaunchDeploy, Unused
<1>4. UNCHANGED <<project, rows, seen, pruneDue, teardown>>
  BY DEF LaunchDeploy, Requests
<1>5. OneOperation'
  BY <1>2, <1>3, <1>4 DEF SerialInv, OneOperation, InFlight
<1>6. RowsAreCommitted'
  BY <1>2, <1>3, <1>4 DEF SerialInv, RowsAreCommitted, Present
<1>7. CapturesHold'
  BY <1>2, <1>3, <1>4 DEF CapturesHold, CaptureHolds, InFlight, Loading, Deploying
<1>8. VersionTiers'
  BY <1>4 DEF SerialInv, VersionTiers, Tiers
<1> QED
  BY <1>5, <1>6, <1>7, <1>8 DEF SerialInv

\* promote loads the project and the rows it is about to change.
LEMMA SwitchStep ==
  ASSUME SerialInv, TypeOK', NEW j \in Jobs, SwitchNginx(j)
  PROVE  SerialInv'
<1>1. /\ jobs \in [Jobs -> JobRecords]
      /\ seen \in [Jobs -> [project : ProjectRecords, rows : RowTables]]
  BY DEF SerialInv, TypeOK
<1>2. jobs[j].pc = "promote" /\ UNCHANGED <<project, rows, pruneDue, teardown>>
  BY DEF SwitchNginx, Requests
<1>3. CASE PromoteFails(j)
  <2>1. Quiet(j)
    BY <1>1, <1>2, <1>3 DEF PromoteFails, Quiet, InFlight, Deploying, Loading, JobRecords
  <2> QED
    BY <2>1, QuietStep
<1>4. CASE ~PromoteFails(j)
  <2>1. PICK r \in Target(j) : \E p :
          /\ project.exists
          /\ jobs' = [jobs EXCEPT ![j].pc = "demote", ![j].row = r, ![j].port = p]
          /\ seen' = [seen EXCEPT ![j] = [project |-> project, rows |-> rows]]
    BY ZenonT(60), <1>4 DEF SwitchNginx
  <2>2. \A i \in Jobs \ {j} : ~InFlight(i) /\ jobs'[i] = jobs[i]
    BY <1>1, <1>2, <2>1 DEF SerialInv, OneOperation, InFlight
  <2>3. /\ jobs'[j].pc = "demote" /\ jobs'[j].row = r
        /\ jobs'[j].kind = jobs[j].kind /\ jobs'[j].version = jobs[j].version
        /\ seen'[j].project = project /\ seen'[j].rows = rows
    BY <1>1, <2>1 DEF JobRecords
  <2>4. OneOperation'
    BY <1>2, <2>2, <2>3 DEF SerialInv, OneOperation, InFlight
  <2>5. RowsAreCommitted'
    BY <1>2, <2>2, <2>3 DEF SerialInv, RowsAreCommitted, Present
  <2>6. CaptureHolds(j)'
    <3>1. CaptureHolds(j)
      BY DEF SerialInv, CapturesHold
    <3>2. jobs[j].kind = "rollback" =>
            r \in Jobs /\ Present(r) /\ rows[r].version = jobs[j].version
      BY <2>1 DEF Target
    <3> QED
      BY <1>2, <2>1, <2>3, <3>1, <3>2 DEF CaptureHolds, Present, Deploying, Loading
  <2>7. CapturesHold'
    BY <2>2, <2>6 DEF CapturesHold, CaptureHolds, InFlight, Loading, Deploying
  <2>8. VersionTiers'
    BY <1>2 DEF SerialInv, VersionTiers, Tiers
  <2> QED
    BY <2>4, <2>5, <2>7, <2>8 DEF SerialInv
<1> QED
  BY <1>3, <1>4

-----------------------------------------------------------------------------
(* What the bookkeeping operators do to the tiers *)

LEMMA PrunedTiers ==
  ASSUME NEW t \in RowTables, NEW c, NEW l, Tiers(t, c)
  PROVE  Tiers(Pruned(t, l), c)
<1>1. \A r \in Jobs : Pruned(t, l)[r] = NoRow \/ Pruned(t, l)[r] = t[r]
  BY DEF Pruned
<1> QED
  BY <1>1 DEF Tiers, NoRow

\* Demoting the others than k, the one of version n, leaves k alone active.
LEMMA DemotedRows ==
  ASSUME NEW t \in RowTables, NEW n, NEW k \in Jobs,
         t[k].status = "active", t[k].version = n,
         \A r \in Jobs \ {k} : t[r].status # "absent" => t[r].version # n
  PROVE  /\ Demoted(t, n)[k] = t[k]
         /\ \A r \in Jobs \ {k} :
              /\ t[r].status = "absent" => Demoted(t, n)[r] = t[r]
              /\ t[r].status = "active" => Demoted(t, n)[r].status = "inactive"
              /\ t[r].status \in {"inactive", "archived"} => Demoted(t, n)[r].status = "archived"
              /\ Demoted(t, n)[r].version = t[r].version
<1> DEFINE u == Demoted(t, n)
<1>2. \A x \in RowRecords, s \in {"inactive", "archived"} :
        /\ [x EXCEPT !.status = s].status = s /\ [x EXCEPT !.status = s].version = x.version
        /\ [x EXCEPT !.status = s, !.port = NoPort].status = s
        /\ [x EXCEPT !.status = s, !.port = NoPort].version = x.version
  BY DEF RowRecords
<1>3. \A r \in Jobs : t[r] \in RowRecords
  BY DEF RowTables
<1>4. u[k] = t[k]
  BY DEF Demoted
<1>5. ASSUME NEW r \in Jobs \ {k}
      PROVE  /\ t[r].status = "absent" => u[r] = t[r]
             /\ t[r].status = "active" => u[r].status = "inactive"
             /\ t[r].status \in {"inactive", "archived"} => u[r].status = "archived"
             /\ u[r].version = t[r].version
  <2>1. t[r].status # "absent" => t[r].version # n
    OBVIOUS
  <2>2. u[r] = CASE t[r].version # n /\ t[r].status = "active" ->
                      [t[r] EXCEPT !.status = "inactive"]
                 [] t[r].version # n /\ t[r].status = "inactive" ->
                      [t[r] EXCEPT !.status = "archived", !.port = NoPort]
                 [] OTHER -> t[r]
    BY DEF Demoted
  <2> QED
    BY <1>2, <1>3, <2>1, <2>2
<1> QED
  BY <1>4, <1>5

\* When the rows but k keep the tiers, they all do after the demotion.
LEMMA DemotedTiers ==
  ASSUME NEW t \in RowTables, NEW c \in Nat, NEW n, NEW k \in Jobs,
         t[k].status = "active", t[k].version = n,
         \A r \in Jobs : t[r].status # "absent" => t[r].version \in 1..c,
         \A r, q \in Jobs : t[r].status # "absent" /\ t[q].status # "absent" /\ r # q
                            => t[r].version # t[q].version,
         \A r, q \in Jobs \ {k} : t[r].status \in {"active", "inactive"} /\ r # q
                                  => t[q].status # t[r].status
  PROVE  Tiers(Demoted(t, n), c)
<1> DEFINE u == Demoted(t, n)
<1>1. \A r \in Jobs : t[r].status \in {"absent", "active", "inactive", "archived"}
  BY DEF RowTables, RowRecords
<1>2. \A r \in Jobs \ {k} : t[r].status # "absent" => t[r].version # n
  OBVIOUS
<1>3. u[k] = t[k] /\ \A r \in Jobs \ {k} :
        /\ t[r].status = "absent" => u[r] = t[r]
        /\ t[r].status = "active" => u[r].status = "inactive"
        /\ t[r].status \in {"inactive", "archived"} => u[r].status = "archived"
        /\ u[r].version = t[r].version
  BY <1>2, DemotedRows
<1> HIDE DEF u
<1>4. u[k].status = "active" /\ u[k].version = n
  BY <1>3
<1>6. \A r \in Jobs : u[r].version = t[r].version /\ (u[r].status = "absent" <=> t[r].status = "absent")
  BY <1>1, <1>3, <1>4
<1>7. \A r \in Jobs \ {k} : u[r].status # "active" /\ (u[r].status = "inactive" => t[r].status = "active")
  BY <1>1, <1>3
<1>8. Tiers(u, c)
  BY <1>4, <1>6, <1>7 DEF Tiers
<1> QED
  BY <1>8 DEF u

-----------------------------------------------------------------------------
(* The steps that write the rows *)

\* The row a promote makes active, and the counter it leaves.
Promoted(j) == IF jobs[j].kind = "deploy" THEN j ELSE jobs[j].row

Counted(j) == IF jobs[j].kind = "deploy" THEN jobs[j].version ELSE project.counter

\* promote's commit writes the shuffled and pruned rows, made from those of the database
\* with its own one active.
LEMMA CommitWrites ==
  ASSUME SerialInv, NEW j \in Jobs, Commit(j), ~LostRow(j)
  PROVE  /\ Promoted(j) \in Jobs /\ Loaded(j) \in RowTables
         /\ Loaded(j)[Promoted(j)].status = "active"
         /\ Loaded(j)[Promoted(j)].version = jobs[j].version
         /\ \A r \in Jobs \ {Promoted(j)} : Loaded(j)[r] = rows[r]
         /\ \/ /\ jobs[j].kind = "deploy" /\ ~Present(Promoted(j))
               /\ jobs[j].version = project.counter + 1
            \/ /\ jobs[j].kind = "rollback" /\ Present(Promoted(j))
               /\ rows[Promoted(j)].version = jobs[j].version
         /\ project.exists /\ seen[j].project = project
         /\ rows' = Final(j)
         /\ project'.exists /\ project'.counter = Counted(j) /\ project'.limit = project.limit
<1> DEFINE n == jobs[j].version
           k == Promoted(j)
<1>1. /\ jobs \in [Jobs -> JobRecords] /\ project \in ProjectRecords
      /\ seen \in [Jobs -> [project : ProjectRecords, rows : RowTables]]
      /\ rows \in RowTables
  BY DEF SerialInv, TypeOK
<1>2. jobs[j].pc = "commit"
  BY DEF Commit
<1>3. CaptureHolds(j)
  BY DEF SerialInv, CapturesHold
<1>4. /\ project.exists /\ seen[j].project = project
      /\ jobs[j].kind \in {"deploy", "rollback"}
      /\ jobs[j].kind = "deploy" => n = project.counter + 1 /\ k = j
      /\ jobs[j].kind = "rollback" =>
           seen[j].rows = rows /\ k \in Jobs /\ Present(k) /\ rows[k].version = n
  BY <1>2, <1>3 DEF CaptureHolds, Loading, Deploying, Promoted
<1>5. ~Present(j)
  BY <1>2 DEF SerialInv, RowsAreCommitted
<1>6. Loaded(j) \in RowTables /\ k \in Jobs
  <2>1. n \in Names /\ jobs[j].port \in Ports
    BY <1>1 DEF JobRecords
  <2>2. k \in Jobs /\ (jobs[j].kind = "rollback" => k = jobs[j].row)
    BY <1>4 DEF Promoted
  <2> QED
    BY ZenonT(60), <1>1, <1>4, <2>1, <2>2, VersionsTyped DEF Loaded, RowTables, RowRecords
<1>7. rows' = Final(j)
  <2>1. Final(j) \in RowTables
    BY <1>6, DemotedTyped, PrunedTyped DEF Final, Shuffled
  <2>2. rows' = [r \in Jobs |-> Final(j)[r]]
    BY <1>4 DEF Commit, Written
  <2> QED
    BY <2>1, <2>2 DEF RowTables
<1>8. project'.exists /\ project'.counter = Counted(j) /\ project'.limit = project.limit
  <2>1. project' = [project EXCEPT
          !.counter = CounterAfter(j),
          !.port = Written(seen[j].project.port, @, jobs[j].port),
          !.version = Written(seen[j].project.version, @, jobs[j].version)]
    BY DEF Commit
  <2>2. /\ project'.exists = project.exists /\ project'.counter = CounterAfter(j)
        /\ project'.limit = project.limit
    BY <1>1, <2>1 DEF ProjectRecords
  <2> QED
    BY <1>4, <2>2 DEF CounterAfter, Written, Counted
<1>9. /\ Loaded(j)[k].status = "active" /\ Loaded(j)[k].version = n
      /\ \A r \in Jobs \ {k} : Loaded(j)[r] = rows[r]
  BY <1>1, <1>4 DEF Loaded, RowTables, RowRecords, Promoted
<1> QED
  BY <1>4, <1>5, <1>6, <1>7, <1>8, <1>9

\* The rows it writes keep the tiers.
LEMMA CommitTiers ==
  ASSUME SerialInv, NEW j \in Jobs, Commit(j), ~LostRow(j)
  PROVE  Tiers(Shuffled(j), Counted(j)) /\ Tiers(Final(j), Counted(j))
<1> DEFINE n == jobs[j].version
           k == Promoted(j)
           c == Counted(j)
<1>1. rows \in RowTables /\ project.counter \in Nat
  BY VersionsTyped DEF SerialInv, TypeOK, ProjectRecords
<1>2. /\ k \in Jobs /\ Loaded(j) \in RowTables
      /\ Loaded(j)[k].status = "active" /\ Loaded(j)[k].version = n
      /\ \A r \in Jobs \ {k} : Loaded(j)[r] = rows[r]
      /\ \/ jobs[j].kind = "deploy" /\ ~Present(k) /\ n = project.counter + 1
         \/ jobs[j].kind = "rollback" /\ Present(k) /\ rows[k].version = n
  BY CommitWrites
<1>3. c \in Nat /\ project.counter <= c
  BY <1>1, <1>2 DEF Counted
<1>4. /\ \A r \in Jobs : Loaded(j)[r].status # "absent" => Loaded(j)[r].version \in 1..c
      /\ \A r, q \in Jobs :
           Loaded(j)[r].status # "absent" /\ Loaded(j)[q].status # "absent" /\ r # q
             => Loaded(j)[r].version # Loaded(j)[q].version
  BY <1>1, <1>2, <1>3 DEF SerialInv, VersionTiers, Tiers, Present, Counted
<1>5. \A r, q \in Jobs \ {k} :
        Loaded(j)[r].status \in {"active", "inactive"} /\ r # q
          => Loaded(j)[q].status # Loaded(j)[r].status
  BY <1>2 DEF SerialInv, VersionTiers, Tiers
<1> HIDE DEF n, k, c
<1>6. Tiers(Demoted(Loaded(j), n), c)
  BY <1>2, <1>3, <1>4, <1>5, DemotedTiers
<1> QED
  BY <1>2, <1>6, DemotedTyped, PrunedTiers DEF Final, Shuffled, n, c

\* promote's commit keeps the tiers, and the counter is that of the newest version.
LEMMA CommitStep ==
  ASSUME SerialInv, TypeOK', NEW j \in Jobs, Commit(j)
  PROVE  SerialInv' /\ project'.counter >= project.counter
<1>1. /\ jobs \in [Jobs -> JobRecords] /\ project \in ProjectRecords
      /\ rows \in RowTables
      /\ project.counter \in Nat
  BY VersionsTyped DEF SerialInv, TypeOK, ProjectRecords
<1>2. jobs[j].pc = "commit" /\ UNCHANGED <<seen, pruneDue, teardown>>
  BY DEF Commit, Requests
<1>3. CASE LostRow(j)
  <2>1. Quiet(j) /\ project' = project
    BY <1>1, <1>2, <1>3 DEF Commit, PromoteFails, Quiet, InFlight, Deploying, Loading,
                            JobRecords
  <2> QED
    BY <1>1, <2>1, QuietStep
<1>4. CASE ~LostRow(j)
  <2> DEFINE n == jobs[j].version
             k == Promoted(j)
             c == Counted(j)
  <2>1. /\ k \in Jobs /\ Loaded(j) \in RowTables
        /\ Loaded(j)[k].status = "active" /\ Loaded(j)[k].version = n
        /\ \A r \in Jobs \ {k} : Loaded(j)[r] = rows[r]
        /\ \/ jobs[j].kind = "deploy" /\ ~Present(k) /\ n = project.counter + 1
           \/ jobs[j].kind = "rollback" /\ Present(k) /\ rows[k].version = n
        /\ rows' = Final(j) /\ project'.exists /\ project'.counter = c
    BY <1>4, CommitWrites
  <2>2. c \in Nat /\ project.counter <= c /\ (n = project.counter + 1 \/ n = rows[k].version)
    BY <1>1, <2>1 DEF Counted
  <2>3. \A i \in Jobs \ {j} : ~InFlight(i)
    BY <1>2 DEF SerialInv, OneOperation, InFlight
  <2>4. jobs'[j].pc = "finish" /\ \A i \in Jobs \ {j} : jobs'[i] = jobs[i]
    BY <1>1, <1>4 DEF Commit, JobRecords
  <2>5. OneOperation'
    BY <1>2, <2>3, <2>4 DEF SerialInv, OneOperation, InFlight
  <2>6. VersionTiers'
    BY <1>4, <2>1, CommitTiers DEF VersionTiers, Tiers
  <2>7. RowsAreCommitted'
    <3>1. \A r \in Jobs : rows'[r].status # "absent" => Loaded(j)[r].status # "absent"
      <4>1. \A r \in Jobs : Final(j)[r].status # "absent" => Shuffled(j)[r].status # "absent"
        BY DEF Final, Pruned, NoRow
      <4>2. \A r \in Jobs : Shuffled(j)[r].status # "absent" => Loaded(j)[r].status # "absent"
        BY DEF Shuffled, Demoted
      <4> QED
        BY <2>1, <4>1, <4>2
    <3>2. \A r \in Jobs : Present(r)' => r = j \/ Present(r)
      BY <2>1, <3>1 DEF Present, Promoted
    <3>3. teardown'.step = "none"
      BY <1>2 DEF SerialInv, OneOperation, InFlight, NoTeardown
    <3> QED
      BY <2>1, <2>4, <3>2, <3>3 DEF SerialInv, RowsAreCommitted
  <2>8. CapturesHold'
    BY <2>3, <2>4 DEF CapturesHold, CaptureHolds, InFlight, Loading, Deploying
  <2> QED
    BY <2>1, <2>2, <2>5, <2>6, <2>7, <2>8 DEF SerialInv
<1> QED
  BY <1>3, <1>4

\* The handlers that change a limit or delete a project run when all is idle.
LEMMA HandlerSteps ==
  ASSUME SerialInv, TypeOK', Overlap = {},
         SetLimit \/ EnforceLimit \/ DeleteDocker \/ DeleteNginx \/ DeleteRow
  PROVE  SerialInv'
<1>1. /\ rows \in RowTables /\ project \in ProjectRecords
      /\ teardown \in [step : {"none", "nginx", "row"}, doomed : SUBSET Jobs]
      /\ jobs \in [Jobs -> JobRecords]
  BY DEF SerialInv, TypeOK
<1>2. CASE SetLimit
  <2>1. Idle /\ pruneDue' /\ UNCHANGED <<rows, jobs, seen, teardown>>
    BY <1>2 DEF SetLimit, Admits
  <2>2. project'.exists = project.exists /\ project'.counter = project.counter
    BY <1>1, <1>2 DEF SetLimit, ProjectRecords
  <2>3. OneOperation' /\ CapturesHold'
    BY <2>1 DEF OneOperation, CapturesHold, CaptureHolds, Idle, InFlight, Deploying, Loading
  <2> QED
    BY <2>1, <2>2, <2>3 DEF SerialInv, RowsAreCommitted, VersionTiers, Tiers, Present
<1>3. CASE EnforceLimit
  <2>1. /\ UNCHANGED <<project, jobs, seen, teardown>> /\ ~pruneDue'
        /\ \A j \in Jobs : ~InFlight(j)
        /\ rows' = rows \/ rows' = Pruned(rows, project.limit)
    BY <1>3 DEF EnforceLimit, SerialInv, OneOperation
  <2>2. VersionTiers'
    <3>1. Tiers(rows, project.counter) /\ Tiers(Pruned(rows, project.limit), project.counter)
      BY <1>1, PrunedTiers DEF SerialInv, VersionTiers
    <3>2. Tiers(rows', project'.counter)
      BY <2>1, <3>1
    <3> QED
      BY <3>2 DEF VersionTiers, Tiers
  <2>3. \A r \in Jobs : Present(r)' => Present(r)
    BY <2>1 DEF Present, Pruned, NoRow
  <2>4. OneOperation' /\ CapturesHold'
    BY <2>1 DEF SerialInv, OneOperation, CapturesHold, CaptureHolds, InFlight, Deploying, Loading
  <2> QED
    BY <2>1, <2>2, <2>3, <2>4 DEF SerialInv, RowsAreCommitted
<1>4. CASE DeleteDocker
  <2>1. Idle /\ UNCHANGED <<project, rows, seen, pruneDue>>
    BY <1>4 DEF DeleteDocker, Admits
  <2>2. jobs' = jobs
    <3>1. AbortRegistered
      BY <1>4 DEF DeleteDocker
    <3>2. registered # NoJob => registered \in Jobs
      BY DEF SerialInv, TypeOK
    <3>3. registered # NoJob => jobs[registered].pc \notin Alive
      BY <2>1, <3>2 DEF Idle, InFlight, Alive
    <3> QED
      BY <3>1, <3>3 DEF AbortRegistered
  <2>3. \A r \in Jobs : Present(r) => r \in teardown'.doomed
    BY <1>4 DEF DeleteDocker
  <2>4. OneOperation' /\ CapturesHold'
    BY <2>1, <2>2 DEF OneOperation, CapturesHold, CaptureHolds, Idle, InFlight, Deploying, Loading
  <2> QED
    BY <2>1, <2>2, <2>3, <2>4 DEF SerialInv, RowsAreCommitted, VersionTiers, Tiers, Present
<1>5. CASE DeleteNginx
  <2>1. UNCHANGED <<project, rows, jobs, seen, pruneDue>> /\ teardown # NoTeardown
    BY <1>5 DEF DeleteNginx, NoTeardown
  <2>2. teardown.step # "none" /\ teardown'.doomed = teardown.doomed
    BY <1>1, <1>5 DEF DeleteNginx
  <2>3. (\A j \in Jobs : ~InFlight(j)) /\ ~pruneDue
    BY <2>1 DEF SerialInv, OneOperation
  <2>4. OneOperation' /\ CapturesHold'
    BY <2>1, <2>3 DEF OneOperation, CapturesHold, CaptureHolds, InFlight, Deploying, Loading
  <2> QED
    BY <2>1, <2>2, <2>4 DEF SerialInv, RowsAreCommitted, VersionTiers, Tiers, Present
<1>6. CASE DeleteRow
  <2>1. UNCHANGED <<jobs, seen, pruneDue>> /\ teardown # NoTeardown /\ teardown' = NoTeardown
    BY <1>6 DEF DeleteRow, NoTeardown
  <2>2. (\A j \in Jobs : ~InFlight(j)) /\ ~pruneDue
    BY <2>1 DEF SerialInv, OneOperation
  <2>3. teardown.step = "row"
    BY <1>6 DEF DeleteRow
  <2>4. \A r \in Jobs : ~(Present(r)')
    BY <1>6, <2>3 DEF DeleteRow, SerialInv, RowsAreCommitted, Present, NoRow
  <2>5. project' = NoProject
    BY <1>6 DEF DeleteRow
  <2>6. OneOperation' /\ CapturesHold'
    BY <2>1, <2>2 DEF OneOperation, CapturesHold, CaptureHolds, InFlight, Deploying, Loading
  <2>7. RowsAreCommitted'
    BY <2>1, <2>4, <2>5 DEF RowsAreCommitted, NoProject, NoTeardown
  <2>8. VersionTiers'
    BY <2>4 DEF VersionTiers, Tiers, Present
  <2> QED
    BY <2>6, <2>7, <2>8 DEF SerialInv
<1> QED
  BY <1>2, <1>3, <1>4, <1>5, <1>6

\* An abort moves the registered job to the check of its exit, or moves no job.
LEMMA AbortStep ==
  ASSUME SerialInv, TypeOK', Abort
  PROVE  SerialInv'
<1>1. jobs \in [Jobs -> JobRecords] /\ registered \in Jobs
  BY DEF Abort, SerialInv, TypeOK
<1>2. UNCHANGED <<project, rows, seen, pruneDue, teardown>> /\ AbortRegistered
  BY DEF Abort, Requests
<1>3. CASE jobs[registered].pc \in Alive
  <2>1. jobs' = [jobs EXCEPT ![registered].pc = "exited", ![registered].outcome = "failed"]
    BY <1>2, <1>3 DEF Abort, AbortRegistered
  <2>2. Quiet(registered)
    BY <1>1, <1>2, <1>3, <2>1 DEF Quiet, InFlight, Alive, Deploying, Loading, JobRecords
  <2> QED
    BY <1>1, <2>2, QuietStep
<1>4. CASE jobs[registered].pc \notin Alive
  <2>1. jobs' = jobs
    BY <1>2, <1>4 DEF Abort, AbortRegistered
  <2> QED
    BY <1>2, <2>1, DockerStep
<1> QED
  BY <1>3, <1>4

\* After a crash nothing is in flight and the rows are those of committed jobs.
LEMMA CrashStep ==
  ASSUME SerialInv, TypeOK', Crash
  PROVE  SerialInv'
<1>1. \A j \in Jobs : jobs'[j].pc = "over" \/ (jobs'[j] = jobs[j] /\ ~InFlight(j))
  BY DEF Crash, Unused
<1>2. OneOperation'
  BY <1>1 DEF Crash, OneOperation, InFlight
<1>3. RowsAreCommitted'
  BY <1>1 DEF Crash, SerialInv, RowsAreCommitted, InFlight, Present, NoTeardown
<1>4. CapturesHold'
  BY <1>1 DEF CapturesHold, CaptureHolds, InFlight, Deploying, Loading
<1>5. VersionTiers'
  BY DEF Crash, SerialInv, VersionTiers, Tiers
<1> QED
  BY <1>2, <1>3, <1>4, <1>5 DEF SerialInv

LEMMA SerialInit == Init => SerialInv
<1> SUFFICES ASSUME Init PROVE SerialInv
  OBVIOUS
<1>1. TypeOK
  BY InitTyped
<1>2. \A j \in Jobs : jobs[j].pc = "unused" /\ rows[j].status = "absent"
  BY DEF Init, Unused, NoRow
<1>3. OneOperation /\ CapturesHold
  BY <1>2 DEF Init, OneOperation, CapturesHold, CaptureHolds, InFlight, Deploying, Loading
<1>4. RowsAreCommitted /\ VersionTiers
  BY <1>2 DEF Init, RowsAreCommitted, VersionTiers, Tiers, Present, NoProject, NoTeardown
<1> QED
  BY <1>1, <1>3, <1>4 DEF SerialInv

\* SerialInv is inductive when operations do not overlap.
LEMMA SerialStep ==
  ASSUME SerialInv, Overlap = {}, [Next]_vars
  PROVE  SerialInv'
<1>1. TypeOK'
  BY StepTyped DEF SerialInv
<1>2. ASSUME NEW j \in Jobs, Client(j)
      PROVE  SerialInv'
  BY <1>1, <1>2, ClientSteps
<1>3. ASSUME NEW j \in Jobs, Thread(j)
      PROVE  SerialInv'
  <2>1. CASE \/ SetupNginx(j) \/ RejectVhost(j) \/ LaunchRefused(j) \/ Build(j) \/ Remove(j)
             \/ Run(j) \/ Stop(j)
    BY <1>1, <2>1, ProcessQuiet, QuietStep
  <2>2. CASE \/ Check(j) \/ Verify(j) \/ Cleanup(j) \/ DemoteOthers(j) \/ LockTimeout(j)
             \/ Finish(j) \/ Monitor(j)
    BY <1>1, <2>2, FinisherQuiet, QuietStep
  <2>3. CASE LaunchDeploy(j)
    BY <1>1, <2>3, LaunchDeployStep
  <2>4. CASE SwitchNginx(j)
    BY <1>1, <2>4, SwitchStep
  <2>5. CASE Commit(j)
    BY <1>1, <2>5, CommitStep
  <2> QED
    BY <1>3, <2>1, <2>2, <2>3, <2>4, <2>5 DEF Thread
<1>4. CASE SetLimit \/ DeleteDocker \/ Handler
  BY <1>1, <1>4, HandlerSteps DEF Handler
<1>5. CASE Abort
  BY <1>1, <1>5, AbortStep
<1>6. CASE OrphanEnds
  BY <1>1, <1>6, DockerStep DEF OrphanEnds, Requests
<1>7. CASE Crash
  BY <1>1, <1>7, CrashStep
<1>8. CASE UNCHANGED vars
  BY <1>1, <1>8, DockerStep DEF vars
<1> QED
  BY <1>2, <1>3, <1>4, <1>5, <1>6, <1>7, <1>8 DEF Next

\* With one operation at a time, no crash, abort, lock time-out, rejected vhost or
\* docker fault breaks the version bookkeeping.
THEOREM VersionsCorrect == Overlap = {} => (Spec => []VersionTiers)
<1> SUFFICES ASSUME Overlap = {} PROVE Spec => []VersionTiers
  OBVIOUS
<1>1. Init => SerialInv
  BY SerialInit
<1>2. SerialInv /\ [Next]_vars => SerialInv'
  BY SerialStep
<1>3. SerialInv => VersionTiers
  BY DEF SerialInv
<1> QED
  BY <1>1, <1>2, <1>3, PTL DEF Spec

\* No step takes back a version number of an existing project.
LEMMA CounterStep ==
  ASSUME SerialInv, Overlap = {}, [Next]_vars, project'.exists
  PROVE  project'.counter >= project.counter
<1>1. /\ project \in ProjectRecords /\ jobs \in [Jobs -> JobRecords]
      /\ project.counter \in Nat
  BY VersionsTyped DEF SerialInv, TypeOK, ProjectRecords
<1>2. CASE project' = project
  BY <1>1, <1>2
<1>3. ASSUME NEW j \in Jobs, Provision(j)
      PROVE  project'.counter >= project.counter
  BY <1>1, <1>3 DEF Provision, SerialInv, RowsAreCommitted, NewProject, NoProject
<1>4. ASSUME NEW j \in Jobs, SetupNginx(j)
      PROVE  project'.counter >= project.counter
  <2>1. Quiet(j)
    BY <1>4, ProcessQuiet
  <2> QED
    BY <1>1, <2>1 DEF Quiet
<1>5. ASSUME NEW j \in Jobs, Commit(j)
      PROVE  project'.counter >= project.counter
  BY <1>5, CommitStep, StepTyped DEF SerialInv
<1>6. CASE SetLimit
  BY <1>1, <1>6 DEF SetLimit, ProjectRecords
<1>7. CASE DeleteRow
  BY <1>7 DEF DeleteRow, NoProject
<1>8. ASSUME NEW j \in Jobs, Thread(j), ~SetupNginx(j), ~Commit(j)
      PROVE  project' = project
  BY <1>8 DEF Thread, RejectVhost, LaunchDeploy, LaunchRefused, Build, Remove, Run, Stop, Check,
     Verify, Cleanup, SwitchNginx, DemoteOthers, LockTimeout, Finish, Monitor
<1>9. ASSUME NEW j \in Jobs, Client(j), ~Provision(j)
      PROVE  project' = project
  BY <1>9 DEF Client, LaunchRollback, LaunchRestart, LaunchStop
<1>10. DeleteDocker \/ EnforceLimit \/ DeleteNginx \/ Abort \/ OrphanEnds \/ Crash
         \/ UNCHANGED vars => project' = project
  BY DEF DeleteDocker, EnforceLimit, DeleteNginx, Abort, OrphanEnds, Crash, vars
<1> QED
  BY <1>2, <1>3, <1>4, <1>5, <1>6, <1>7, <1>8, <1>9, <1>10 DEF Next, Handler

\* With one operation at a time, version numbers are never handed out twice.
THEOREM CounterCorrect == Overlap = {} => (Spec => CounterNeverGoesBack)
<1> SUFFICES ASSUME Overlap = {} PROVE Spec => CounterNeverGoesBack
  OBVIOUS
<1>1. Init => SerialInv
  BY SerialInit
<1>2. SerialInv /\ [Next]_vars => SerialInv'
  BY SerialStep
<1>3. SerialInv /\ [Next]_vars =>
        [project'.exists => project'.counter >= project.counter]_vars
  BY CounterStep
<1> QED
  BY <1>1, <1>2, <1>3, PTL DEF Spec, CounterNeverGoesBack

-----------------------------------------------------------------------------
(* The number of archived versions                                         *)

Archived(t) == {r \in Jobs : t[r].status = "archived"}

LEMMA ArchivedFinite ==
  ASSUME NEW t, NEW S \in SUBSET Archived(t)
  PROVE  IsFiniteSet(S) /\ Cardinality(S) \in Nat
<1>1. IsFiniteSet(Jobs)
  BY FS_Interval, BlueGreenAssumption DEF Jobs
<1>2. S \subseteq Jobs
  BY DEF Archived
<1> QED
  BY <1>1, <1>2, FS_Subset, FS_CardinalityType

\* Above the oldest version that is kept there are fewer than the limit.
LEMMA PrunedCount ==
  ASSUME NEW t \in RowTables, NEW c, NEW l \in Nat, Tiers(t, c)
  PROVE  Cardinality(Archived(Pruned(t, l))) <= l
<1> DEFINE K == Archived(Pruned(t, l))
           Above(r) == {q \in Jobs : /\ t[q].status = "archived"
                                     /\ \/ t[q].version > t[r].version
                                        \/ t[q].version = t[r].version /\ q > r}
<1>1. \A r \in Jobs : r \in K <=> t[r].status = "archived" /\ r \notin Excess(t, l)
  BY DEF Archived, Pruned, NoRow
<1>2. \A r \in K : r \in Jobs /\ t[r].status = "archived" /\ ~(Cardinality(Above(r)) >= l)
  <2>1. \A r \in Jobs : t[r].status = "archived" /\ Cardinality(Above(r)) >= l => r \in Excess(t, l)
    BY Zenon DEF Excess
  <2> QED
    BY <1>1, <2>1 DEF Archived
<1>3. CASE K = {}
  BY <1>3, FS_EmptySet
<1>4. CASE K # {}
  <2>1. \A r \in Jobs : t[r].version \in Nat
    BY VersionsTyped DEF RowTables, RowRecords
  <2>2. {t[r].version : r \in K} \subseteq Nat /\ {t[r].version : r \in K} # {}
    BY <1>2, <1>4, <2>1
  <2>3. PICK m \in K : \A r \in K : t[m].version <= t[r].version
    <3>1. PICK v \in {t[r].version : r \in K} :
            \A w \in {t[r].version : r \in K} : v <= w
      BY <2>2, LeastExists
    <3> QED
      BY <3>1
  <2>4. K \ {m} \subseteq Above(m)
    <3>1. ASSUME NEW r \in K, r # m
          PROVE  t[r].version > t[m].version
      <4>1. r \in Jobs /\ m \in Jobs /\ t[r].status # "absent" /\ t[m].status # "absent"
        BY <1>2, <2>3
      <4>2. t[r].version # t[m].version
        BY <3>1, <4>1 DEF Tiers
      <4>3. t[m].version <= t[r].version
        BY <2>3
      <4> HIDE DEF K, Above
      <4> QED
        BY <2>1, <4>1, <4>2, <4>3
    <3> QED
      BY <1>2, <3>1
  <2>5. /\ IsFiniteSet(K) /\ Cardinality(K) \in Nat
        /\ IsFiniteSet(Above(m)) /\ Cardinality(Above(m)) \in Nat
    <3>1. K \subseteq Archived(t)
      BY <1>2 DEF Archived
    <3>2. Above(m) \subseteq Archived(t)
      BY DEF Archived
    <3> HIDE DEF K, Above
    <3> QED
      BY <3>1, <3>2, ArchivedFinite
  <2> HIDE DEF K, Above
  <2>6. Cardinality(K \ {m}) = Cardinality(K) - 1
    BY <2>3, <2>5, FS_RemoveElement
  <2>7. Cardinality(K \ {m}) <= Cardinality(Above(m))
    BY <2>4, <2>5, FS_Subset
  <2>8. Cardinality(Above(m)) < l
    BY <1>2, <2>3, <2>5
  <2>9. Cardinality(K) <= l
    BY <2>5, <2>6, <2>7, <2>8
  <2> QED
    BY <2>9 DEF K
<1> QED
  BY <1>3, <1>4

\* A new limit is enforced before the next operation.
LimitInv ==
  SerialInv /\ (pruneDue \/ Cardinality(Archived(rows)) <= project.limit)

LEMMA NothingArchived ==
  ASSUME NEW t, \A r \in Jobs : t[r].status # "archived", NEW l \in Nat
  PROVE  Cardinality(Archived(t)) <= l
<1>1. Archived(t) = {}
  BY DEF Archived
<1> QED
  BY <1>1, FS_EmptySet

LEMMA LimitStep ==
  ASSUME LimitInv, Overlap = {}, "crash" \notin Faults, [Next]_vars
  PROVE  LimitInv'
<1>1. SerialInv'
  BY SerialStep DEF LimitInv
<1>2. /\ project \in ProjectRecords /\ project' \in ProjectRecords
      /\ project.limit \in Nat /\ project'.limit \in Nat /\ rows \in RowTables
  BY <1>1, BlueGreenAssumption DEF LimitInv, SerialInv, TypeOK, ProjectRecords
<1>3. ~project.exists => \A r \in Jobs : rows[r].status = "absent"
  BY DEF LimitInv, SerialInv, RowsAreCommitted, VersionTiers, Tiers
<1>4. CASE rows' = rows /\ project'.limit = project.limit /\ pruneDue' = pruneDue
  BY <1>1, <1>4 DEF LimitInv, Archived
<1>5. ASSUME NEW j \in Jobs, Provision(j)
      PROVE  LimitInv'
  <2>1. CASE project.exists
    BY <1>4, <1>5, <2>1 DEF Provision, Requests
  <2>2. CASE ~project.exists
    <3>1. \A r \in Jobs : rows'[r].status # "archived"
      BY <1>3, <1>5, <2>2 DEF Provision
    <3> QED
      BY <1>1, <1>2, <3>1, NothingArchived DEF LimitInv, Archived
  <2> QED
    BY <2>1, <2>2
<1>6. ASSUME NEW j \in Jobs, SetupNginx(j)
      PROVE  LimitInv'
  BY <1>2, <1>4, <1>6 DEF SetupNginx, ProjectRecords, Requests
<1>7. ASSUME NEW j \in Jobs, Commit(j)
      PROVE  LimitInv'
  <2>1. CASE LostRow(j)
    BY <1>4, <1>7, <2>1 DEF Commit, Requests
  <2>2. CASE ~LostRow(j)
    <3>1. /\ rows' = Final(j) /\ seen[j].project = project /\ project'.limit = project.limit
          /\ Loaded(j) \in RowTables
      BY <1>7, <2>2, CommitWrites DEF LimitInv
    <3>2. rows' = Pruned(Shuffled(j), project.limit) /\ Shuffled(j) \in RowTables
      BY <3>1, DemotedTyped DEF Final, Shuffled
    <3>3. \E c : Tiers(Shuffled(j), c)
      BY <1>7, <2>2, CommitTiers DEF LimitInv
    <3>4. Cardinality(Archived(rows')) <= project'.limit
      BY <1>2, <3>1, <3>2, <3>3, PrunedCount
    <3> QED
      BY <1>1, <3>4 DEF LimitInv, Archived
  <2> QED
    BY <2>1, <2>2
<1>8. CASE SetLimit
  BY <1>1, <1>8 DEF SetLimit, LimitInv
<1>9. CASE EnforceLimit
  <2>1. project' = project /\ rows' = IF project.exists THEN Pruned(rows, project.limit) ELSE rows
    BY <1>9 DEF EnforceLimit
  <2>2. CASE project.exists
    <3>1. Cardinality(Archived(rows')) <= project'.limit
      BY <1>2, <2>1, <2>2, PrunedCount DEF LimitInv, SerialInv, VersionTiers
    <3> QED
      BY <1>1, <3>1 DEF LimitInv, Archived
  <2>3. CASE ~project.exists
    <3>1. \A r \in Jobs : rows'[r].status # "archived"
      BY <1>3, <2>1, <2>3
    <3> QED
      BY <1>1, <1>2, <3>1, NothingArchived DEF LimitInv, Archived
  <2> QED
    BY <2>2, <2>3
<1>10. CASE DeleteRow
  <2>1. \A r \in Jobs : rows'[r].status # "archived"
    BY <1>10 DEF DeleteRow, LimitInv, SerialInv, RowsAreCommitted, Present, NoRow
  <2> QED
    BY <1>1, <1>2, <2>1, NothingArchived DEF LimitInv, Archived
<1>11. ASSUME NEW j \in Jobs, Thread(j), ~SetupNginx(j), ~Commit(j)
       PROVE  rows' = rows /\ project' = project /\ pruneDue' = pruneDue
  BY <1>11 DEF Thread, RejectVhost, LaunchDeploy, LaunchRefused, Build, Remove, Run, Stop, Check,
     Verify, Cleanup, SwitchNginx, DemoteOthers, LockTimeout, Finish, Monitor, Requests
<1>12. ASSUME NEW j \in Jobs, Client(j), ~Provision(j)
       PROVE  rows' = rows /\ project' = project /\ pruneDue' = pruneDue
  BY <1>12 DEF Client, LaunchRollback, LaunchRestart, LaunchStop, Requests
<1>13. DeleteDocker \/ DeleteNginx \/ Abort \/ OrphanEnds \/ UNCHANGED vars
         => rows' = rows /\ project' = project /\ pruneDue' = pruneDue
  BY DEF DeleteDocker, DeleteNginx, Abort, OrphanEnds, vars, Requests
<1> QED
  BY <1>4, <1>5, <1>6, <1>7, <1>8, <1>9, <1>10, <1>11, <1>12, <1>13 DEF Next, Handler, Crash

\* With one operation at a time, and as long as the server does not stop between a new limit
\* and its enforcement, no more versions are kept than the limit allows.
THEOREM LimitRespected ==
  Overlap = {} /\ "crash" \notin Faults => (Spec => []ArchivedWithinLimit)
<1> SUFFICES ASSUME Overlap = {}, "crash" \notin Faults
             PROVE  Spec => []ArchivedWithinLimit
  OBVIOUS
<1>1. Init => LimitInv
  <2> SUFFICES ASSUME Init PROVE LimitInv
    OBVIOUS
  <2>1. \A r \in Jobs : rows[r].status # "archived"
    BY DEF Init, NoRow
  <2>2. project.limit \in Nat
    BY BlueGreenAssumption DEF Init, NoProject
  <2> QED
    BY <2>1, <2>2, SerialInit, NothingArchived DEF LimitInv
<1>2. LimitInv /\ [Next]_vars => LimitInv'
  BY LimitStep
<1>3. LimitInv => ArchivedWithinLimit
  BY DEF LimitInv, ArchivedWithinLimit, Idle, Archived
<1> QED
  BY <1>1, <1>2, <1>3, PTL DEF Spec

-----------------------------------------------------------------------------
(* BlueGreen implements ReleaseHistory when operations do not overlap,       *)
(* whatever the environment does.                                           *)

\* RecordedTier of any rows.
TierOf(t) ==
  [v \in Versions |->
     IF \E r \in Jobs : t[r].status # "absent" /\ t[r].version = v
     THEN t[CHOOSE r \in Jobs : t[r].status # "absent" /\ t[r].version = v].status
     ELSE "absent"]

\* Each recorded version has one row.
OneRowEach(t) ==
  /\ \A r \in Jobs : t[r].status # "absent" => t[r].version \in Versions
  /\ \A r, q \in Jobs : t[r].status # "absent" /\ t[q].status # "absent" /\ r # q
                         => t[r].version # t[q].version

-----------------------------------------------------------------------------
(* Rows and tiers *)

LEMMA RecordedTierIs == RecordedTier = TierOf(rows)
BY DEF RecordedTier, TierOf, Present

LEMMA RecordedTierWillBe == RecordedTier' = TierOf(rows')
BY DEF RecordedTier, TierOf, Present

LEMMA TiersHaveOneRowEach ==
  ASSUME NEW t, NEW c \in Names, Tiers(t, c)
  PROVE  OneRowEach(t)
BY BlueGreenAssumption DEF OneRowEach, Tiers, Versions, Names

\* A version with a row has its tier, ...
LEMMA TierOfRow ==
  ASSUME NEW t, OneRowEach(t), NEW r \in Jobs, t[r].status # "absent"
  PROVE  t[r].version \in Versions /\ TierOf(t)[t[r].version] = t[r].status
<1> DEFINE v == t[r].version
           q == CHOOSE x \in Jobs : t[x].status # "absent" /\ t[x].version = v
<1>1. q \in Jobs /\ t[q].status # "absent" /\ t[q].version = v
  OBVIOUS
<1>2. q = r
  BY <1>1 DEF OneRowEach
<1>3. v \in Versions
  BY DEF OneRowEach
<1>4. TierOf(t)[v] = t[q].status
  BY <1>1, <1>3 DEF TierOf
<1> QED
  BY <1>2, <1>3, <1>4

\* ... and one without has none.
LEMMA TierOfNone ==
  ASSUME NEW t, NEW v \in Versions, \A r \in Jobs : t[r].status # "absent" => t[r].version # v
  PROVE  TierOf(t)[v] = "absent"
BY DEF TierOf

\* A tier is that of a row.
LEMMA RowOfTier ==
  ASSUME NEW t, OneRowEach(t), NEW v \in Versions, TierOf(t)[v] # "absent"
  PROVE  \E r \in Jobs : t[r].status = TierOf(t)[v] /\ t[r].version = v
<1>1. PICK r \in Jobs : t[r].status # "absent" /\ t[r].version = v
  BY TierOfNone
<1> QED
  BY <1>1, TierOfRow

\* Two functions of the versions that agree are one.
LEMMA SameTiers ==
  ASSUME NEW f, NEW g, f = [v \in Versions |-> f[v]], g = [v \in Versions |-> g[v]],
         \A v \in Versions : f[v] = g[v]
  PROVE  f = g
<1>1. [v \in Versions |-> f[v]] = [v \in Versions |-> g[v]]
  OBVIOUS
<1> QED
  BY <1>1

LEMMA ReleaseVersions == Releases!Versions = Versions
BY DEF Releases!Versions, Versions

LEMMA SameCardinality == \A S : Releases!Cardinality(S) = Cardinality(S)
BY DEF Releases!Cardinality, Cardinality

\* As many rows as versions are archived above a version.
LEMMA SameCount ==
  ASSUME NEW t, OneRowEach(t), NEW v
  PROVE  Cardinality({q \in Jobs : t[q].status = "archived" /\ t[q].version > v})
           = Cardinality({w \in Versions : TierOf(t)[w] = "archived" /\ w > v})
<1> DEFINE A == {q \in Jobs : t[q].status = "archived" /\ t[q].version > v}
           B == {w \in Versions : TierOf(t)[w] = "archived" /\ w > v}
           f == [q \in A |-> t[q].version]
<1>1. IsFiniteSet(A)
  <2>1. IsFiniteSet(Jobs)
    BY FS_Interval, BlueGreenAssumption DEF Jobs
  <2> QED
    BY <2>1, FS_Subset
<1>2. \A q \in A : t[q].version \in B
  BY TierOfRow
<1>3. f \in [A -> B]
  BY <1>2
<1>4. \A a, b \in A : f[a] = f[b] => a = b
  BY DEF OneRowEach
<1>5. \A w \in B : \E q \in A : f[q] = w
  BY RowOfTier
<1>6. ExistsBijection(A, B)
  <2> HIDE DEF f, A, B
  <2>1. f \in Injection(A, B) /\ f \in Surjection(A, B)
    BY <1>3, <1>4, <1>5 DEF Injection, Surjection, IsInjective
  <2> QED
    BY <2>1 DEF ExistsBijection, Bijection
<1> QED
  BY <1>1, <1>6, FS_Bijection

\* A row is in excess when its version is.
LEMMA SameExcess ==
  ASSUME NEW t, OneRowEach(t), NEW l, NEW r \in Jobs, t[r].status # "absent"
  PROVE  r \in Excess(t, l) <=> t[r].version \in Releases!Excess(TierOf(t), l)
<1> DEFINE v == t[r].version
<1>1. v \in Versions /\ TierOf(t)[v] = t[r].status
  BY TierOfRow
<1>2. {q \in Jobs : /\ t[q].status = "archived"
                    /\ \/ t[q].version > v
                       \/ t[q].version = v /\ q > r}
        = {q \in Jobs : t[q].status = "archived" /\ t[q].version > v}
  <2>1. \A q \in Jobs : t[q].status = "archived" /\ t[q].version = v => q = r
    BY DEF OneRowEach
  <2>2. ~(r > r)
    BY BlueGreenAssumption DEF Jobs
  <2> QED
    BY <2>1, <2>2
<1>3. r \in Excess(t, l) <=>
        /\ t[r].status = "archived"
        /\ Cardinality({q \in Jobs : /\ t[q].status = "archived"
                                     /\ \/ t[q].version > t[r].version
                                        \/ t[q].version = t[r].version /\ q > r}) >= l
  BY Zenon DEF Excess
<1>4. v \in Releases!Excess(TierOf(t), l) <=>
        /\ TierOf(t)[v] = "archived"
        /\ Cardinality({w \in Versions : TierOf(t)[w] = "archived" /\ w > v}) >= l
  BY <1>1, SameCardinality, Zenon DEF Releases!Excess, Releases!Versions, Versions
<1>5. Cardinality({q \in Jobs : /\ t[q].status = "archived"
                               /\ \/ t[q].version > v
                                  \/ t[q].version = v /\ q > r})
        = Cardinality({w \in Versions : TierOf(t)[w] = "archived" /\ w > v})
  BY <1>2, SameCount
<1> QED
  BY <1>1, <1>3, <1>4, <1>5

\* Pruning the rows prunes the tiers.
LEMMA PrunedAlike ==
  ASSUME NEW t, OneRowEach(t), NEW l
  PROVE  TierOf(Pruned(t, l)) = Releases!Pruned(TierOf(t), l)
<1> DEFINE u == Pruned(t, l)
           g == Releases!Pruned(TierOf(t), l)
<1>1. \A r \in Jobs : u[r] = IF r \in Excess(t, l) THEN NoRow ELSE t[r]
  BY DEF Pruned
<1>2. \A v \in Versions :
        g[v] = IF v \in Releases!Excess(TierOf(t), l) THEN "absent" ELSE TierOf(t)[v]
  BY ReleaseVersions DEF Releases!Pruned
<1>3. OneRowEach(u)
  BY <1>1 DEF OneRowEach, NoRow
<1>4. ASSUME NEW v \in Versions
      PROVE  TierOf(u)[v] = g[v]
  <2>1. CASE \E r \in Jobs : t[r].status # "absent" /\ t[r].version = v
    <3>1. PICK r \in Jobs : t[r].status # "absent" /\ t[r].version = v
      BY <2>1
    <3>2. r \in Excess(t, l) <=> v \in Releases!Excess(TierOf(t), l)
      BY <3>1, SameExcess
    <3>3. CASE r \in Excess(t, l)
      <4>1. \A q \in Jobs : u[q].status # "absent" => u[q].version # v
        BY <1>1, <3>1, <3>3 DEF OneRowEach, NoRow
      <4> QED
        BY <1>2, <3>2, <3>3, <4>1, TierOfNone
    <3>4. CASE r \notin Excess(t, l)
      <4>1. u[r] = t[r]
        BY <1>1, <3>4
      <4>2. TierOf(u)[v] = t[r].status
        BY <1>3, <3>1, <4>1, TierOfRow
      <4>3. TierOf(t)[v] = t[r].status
        BY <3>1, TierOfRow
      <4> QED
        BY <1>2, <3>2, <3>4, <4>2, <4>3
    <3> QED
      BY <3>3, <3>4
  <2>2. CASE \A r \in Jobs : t[r].status # "absent" => t[r].version # v
    <3>1. \A r \in Jobs : u[r].status # "absent" => u[r].version # v
      BY <1>1, <2>2 DEF NoRow
    <3>2. TierOf(u)[v] = "absent" /\ TierOf(t)[v] = "absent"
      BY <2>2, <3>1, TierOfNone
    <3> QED
      BY <1>2, <3>2
  <2> QED
    BY <2>1, <2>2
<1>5. TierOf(u) = [v \in Versions |-> TierOf(u)[v]] /\ g = [v \in Versions |-> g[v]]
  BY ReleaseVersions DEF TierOf, Releases!Pruned
<1> HIDE DEF u, g
<1>6. TierOf(u) = g
  BY <1>4, <1>5, SameTiers
<1> QED
  BY <1>6 DEF u, g

\* Making the row of version n active and demoting the others shifts the tiers.
LEMMA ShiftedAlike ==
  ASSUME NEW t, OneRowEach(t), NEW n \in Versions, NEW k \in Jobs, NEW u \in RowTables,
         u[k].status = "active", u[k].version = n,
         \A r \in Jobs \ {k} : u[r] = t[r],
         \/ t[k].status = "absent" /\ \A r \in Jobs : t[r].status # "absent" => t[r].version # n
         \/ t[k].status # "absent" /\ t[k].version = n
  PROVE  /\ OneRowEach(Demoted(u, n))
         /\ TierOf(Demoted(u, n)) = Releases!Shifted(TierOf(t), n)
<1> DEFINE d == Demoted(u, n)
           g == Releases!Shifted(TierOf(t), n)
<1>1. \A r \in Jobs \ {k} : t[r].status # "absent" => t[r].version # n
  BY DEF OneRowEach
<1>2. d[k] = u[k] /\ \A r \in Jobs \ {k} :
        /\ t[r].status = "absent" => d[r] = t[r]
        /\ t[r].status = "active" => d[r].status = "inactive"
        /\ t[r].status \in {"inactive", "archived"} => d[r].status = "archived"
        /\ d[r].version = t[r].version
  BY <1>1, DemotedRows
<1>3. \A v \in Versions :
        g[v] = IF v = n THEN "active"
               ELSE CASE TierOf(t)[v] = "active"   -> "inactive"
                      [] TierOf(t)[v] = "inactive" -> "archived"
                      [] OTHER                     -> TierOf(t)[v]
  BY ReleaseVersions DEF Releases!Shifted
<1>4. \A r \in Jobs \ {k} : t[r].status \in {"absent", "active", "inactive", "archived"}
  BY DEF RowTables, RowRecords
<1>5. g = [v \in Versions |-> g[v]] /\ TierOf(d) = [v \in Versions |-> TierOf(d)[v]]
  BY ReleaseVersions DEF Releases!Shifted, TierOf
<1> HIDE DEF d, g
<1>6. \A r \in Jobs \ {k} : d[r].status # "absent" <=> t[r].status # "absent"
  BY <1>2, <1>4
<1>7. OneRowEach(d)
  <2>1. \A r \in Jobs : d[r].status # "absent" => d[r].version \in Versions
    BY <1>2, <1>6 DEF OneRowEach
  <2>2. \A r \in Jobs \ {k} : d[r].status # "absent" => d[r].version # d[k].version
    BY <1>1, <1>2, <1>6
  <2> QED
    BY <1>2, <1>6, <2>1, <2>2 DEF OneRowEach
<1>8. ASSUME NEW v \in Versions
      PROVE  TierOf(d)[v] = g[v]
  <2>1. CASE v = n
    <3>1. d[k].status = "active" /\ d[k].version = n
      BY <1>2
    <3>2. TierOf(d)[n] = "active"
      BY <1>7, <3>1, TierOfRow
    <3>3. g[n] = "active"
      BY <1>3
    <3> QED
      BY <2>1, <3>2, <3>3
  <2>2. CASE v # n /\ \E r \in Jobs : t[r].status # "absent" /\ t[r].version = v
    <3>1. PICK r \in Jobs : t[r].status # "absent" /\ t[r].version = v
      BY <2>2
    <3>2. r # k
      BY <2>2, <3>1
    <3>3. TierOf(t)[v] = t[r].status
      BY <3>1, TierOfRow
    <3>4. TierOf(d)[v] = d[r].status
      BY <1>2, <1>6, <1>7, <3>1, <3>2, TierOfRow
    <3> QED
      BY <1>2, <1>3, <1>4, <2>2, <3>1, <3>2, <3>3, <3>4
  <2>3. CASE v # n /\ \A r \in Jobs : t[r].status # "absent" => t[r].version # v
    <3>1. \A r \in Jobs : d[r].status # "absent" => d[r].version # v
      BY <1>2, <1>6, <2>3
    <3>2. TierOf(d)[v] = "absent" /\ TierOf(t)[v] = "absent"
      BY <2>3, <3>1, TierOfNone
    <3> QED
      BY <1>3, <2>3, <3>2
  <2> QED
    BY <2>1, <2>2, <2>3
<1>9. TierOf(d) = g
  BY <1>5, <1>8, SameTiers
<1> QED
  BY <1>7, <1>9 DEF d, g

-----------------------------------------------------------------------------
(* The invariant: SerialInv, and what the abstract steps ask for *)

\* A rollback on its way goes to a version that is recorded below the active one.
GoesBack(j) ==
  jobs[j].kind = "rollback" /\ jobs[j].pc \in Deploying =>
    \E r \in Jobs : /\ rows[r].status \in {"inactive", "archived"}
                    /\ rows[r].version = jobs[j].version

RefinementInv ==
  /\ SerialInv
  /\ ~project.exists => project = NoProject
  /\ \A j \in Jobs : GoesBack(j)

\* A step of a job on its way leaves the rows alone, or is a commit.
LEMMA GoesBackStep ==
  ASSUME SerialInv, TypeOK', Overlap = {}, \A j \in Jobs : GoesBack(j), [Next]_vars
  PROVE  \A j \in Jobs : GoesBack(j)'
<1> USE DEF GoesBack
<1>1. jobs \in [Jobs -> JobRecords]
  BY DEF SerialInv, TypeOK
<1>2. ASSUME NEW j \in Jobs, Client(j)
      PROVE  \A i \in Jobs : GoesBack(i)'
  <2>1. Idle /\ IsNext(j) /\ rows' = rows
    BY <1>2 DEF Client, Provision, LaunchRollback, LaunchRestart, LaunchStop, Admits
  <2>2. \A i \in Jobs \ {j} : jobs'[i] = jobs[i]
    BY <1>1, <1>2 DEF Client, Provision, LaunchRollback, LaunchRestart, LaunchStop
  <2>3. \A i \in Jobs \ {j} : GoesBack(i)'
    BY <2>1, <2>2
  <2>4. GoesBack(j)'
    <3>1. CASE Provision(j)
      BY <1>1, <3>1 DEF Provision, Unused
    <3>2. CASE LaunchRollback(j)
      <4>1. PICK r \in Jobs :
              /\ rows[r].status \in {"inactive", "archived"}
              /\ jobs' = [jobs EXCEPT ![j] =
                   [Unused EXCEPT !.kind = "rollback", !.pc = "remove",
                                  !.version = rows[r].version, !.row = r,
                                  !.fresh = (rows[r].status = "archived"),
                                  !.port = IF rows[r].status = "archived" THEN NextPort
                                                                          ELSE rows[r].port]]
        BY <3>2 DEF LaunchRollback
      <4>2. jobs'[j].version = rows[r].version
        BY <1>1, <4>1 DEF Unused
      <4> QED
        BY <2>1, <4>1, <4>2
    <3>3. CASE LaunchRestart(j)
      BY <1>1, <3>3 DEF LaunchRestart, Unused
    <3>4. CASE LaunchStop(j)
      BY <1>1, <3>4 DEF LaunchStop, Unused
    <3> QED
      BY <1>2, <3>1, <3>2, <3>3, <3>4 DEF Client
  <2> QED
    BY <2>3, <2>4
<1>3. ASSUME NEW j \in Jobs, rows' = rows, \A i \in Jobs \ {j} : jobs'[i] = jobs[i],
             jobs'[j].pc \in Deploying /\ jobs'[j].kind = "rollback" =>
               /\ jobs[j].pc \in Deploying
               /\ jobs'[j].kind = jobs[j].kind /\ jobs'[j].version = jobs[j].version
      PROVE  \A i \in Jobs : GoesBack(i)'
  BY <1>3
<1>4. ASSUME NEW j \in Jobs, Quiet(j)
      PROVE  \A i \in Jobs : GoesBack(i)'
  BY <1>3, <1>4 DEF Quiet
<1>5. ASSUME NEW j \in Jobs, Thread(j)
      PROVE  \A i \in Jobs : GoesBack(i)'
  <2>1. CASE \/ SetupNginx(j) \/ RejectVhost(j) \/ LaunchRefused(j) \/ Build(j) \/ Remove(j)
             \/ Run(j) \/ Stop(j)
    BY <1>4, <2>1, ProcessQuiet
  <2>2. CASE \/ Check(j) \/ Verify(j) \/ Cleanup(j) \/ DemoteOthers(j) \/ LockTimeout(j)
             \/ Finish(j) \/ Monitor(j)
    BY <1>4, <2>2, FinisherQuiet
  <2>3. CASE LaunchDeploy(j)
    BY <1>1, <1>3, <2>3 DEF LaunchDeploy, Unused
  <2>4. CASE SwitchNginx(j)
    <3>1. rows' = rows /\ jobs[j].pc = "promote"
      BY <2>4 DEF SwitchNginx
    <3>2. CASE PromoteFails(j)
      BY <1>1, <1>3, <3>1, <3>2 DEF PromoteFails, Deploying, JobRecords
    <3>3. CASE ~PromoteFails(j)
      <4>1. PICK r \in Target(j) : \E p :
              jobs' = [jobs EXCEPT ![j].pc = "demote", ![j].row = r, ![j].port = p]
        BY ZenonT(60), <2>4, <3>3 DEF SwitchNginx
      <4>2. jobs'[j].kind = jobs[j].kind /\ jobs'[j].version = jobs[j].version
        BY <1>1, <4>1 DEF JobRecords
      <4>3. \A i \in Jobs \ {j} : jobs'[i] = jobs[i]
        BY <1>1, <4>1
      <4> QED
        BY <1>3, <3>1, <4>2, <4>3 DEF Deploying
    <3> QED
      BY <3>2, <3>3
  <2>5. CASE Commit(j)
    <3>1. jobs'[j].pc = "finish" /\ \A i \in Jobs \ {j} : jobs'[i] = jobs[i] /\ ~InFlight(i)
      BY <1>1, <2>5 DEF Commit, PromoteFails, JobRecords, SerialInv, OneOperation, InFlight
    <3> QED
      BY <3>1 DEF Deploying, InFlight
  <2> QED
    BY <1>5, <2>1, <2>2, <2>3, <2>4, <2>5 DEF Thread
<1>6. CASE SetLimit \/ DeleteDocker \/ Handler
  <2>1. \A j \in Jobs : ~InFlight(j)
    BY <1>6 DEF SetLimit, DeleteDocker, Handler, EnforceLimit, DeleteNginx, DeleteRow, Admits,
                Idle, SerialInv, OneOperation, NoTeardown
  <2>2. CASE DeleteDocker
    <3>1. AbortRegistered /\ rows' = rows /\ (registered # NoJob => registered \in Jobs)
      BY <2>2 DEF DeleteDocker, SerialInv, TypeOK
    <3>2. jobs' = jobs
      BY <2>1, <3>1 DEF AbortRegistered, InFlight, Alive
    <3> QED
      BY <3>1, <3>2
  <2>3. CASE SetLimit \/ Handler
    BY <2>1, <2>3 DEF SetLimit, Handler, EnforceLimit, DeleteNginx, DeleteRow, Deploying,
                      InFlight, Requests
  <2> QED
    BY <1>6, <2>2, <2>3
<1>7. CASE Abort
  <2>1. rows' = rows /\ registered \in Jobs /\ AbortRegistered
    BY <1>7 DEF Abort, SerialInv, TypeOK, Requests
  <2>2. CASE jobs[registered].pc \in Alive
    <3>1. jobs' = [jobs EXCEPT ![registered].pc = "exited", ![registered].outcome = "failed"]
      BY <1>7, <2>1, <2>2 DEF Abort, AbortRegistered
    <3> QED
      BY <1>1, <1>3, <2>1, <2>2, <3>1 DEF Alive, Deploying, JobRecords
  <2>3. CASE jobs[registered].pc \notin Alive
    <3>1. jobs' = jobs
      BY <1>7, <2>1, <2>3 DEF Abort, AbortRegistered
    <3> QED
      BY <2>1, <3>1
  <2> QED
    BY <2>2, <2>3
<1>8. CASE OrphanEnds \/ UNCHANGED vars
  BY <1>8 DEF OrphanEnds, Requests, vars
<1>9. CASE Crash
  BY <1>9 DEF Crash, Unused, Deploying, InFlight
<1> QED
  BY <1>2, <1>5, <1>6, <1>7, <1>8, <1>9 DEF Next

LEMMA RefinementInit == Init => RefinementInv
<1> SUFFICES ASSUME Init PROVE RefinementInv
  OBVIOUS
<1>1. \A j \in Jobs : GoesBack(j)
  BY DEF Init, Unused, GoesBack
<1> QED
  BY <1>1, SerialInit DEF Init, RefinementInv

LEMMA NoProjectStep ==
  ASSUME SerialInv, ~project.exists => project = NoProject, [Next]_vars
  PROVE  ~project'.exists => project' = NoProject
<1>1. project \in ProjectRecords
  BY DEF SerialInv, TypeOK
<1>2. CASE project' = project
  BY <1>2
<1>3. ASSUME NEW j \in Jobs, Provision(j)
      PROVE  project'.exists
  BY <1>3 DEF Provision, NewProject, NoProject
<1>4. ASSUME NEW j \in Jobs, SetupNginx(j)
      PROVE  project' = project \/ project'.exists
  BY <1>1, <1>4 DEF SetupNginx, ProjectRecords
<1>5. ASSUME NEW j \in Jobs, Commit(j)
      PROVE  project' = project \/ project'.exists
  BY <1>5, CommitWrites DEF Commit
<1>6. CASE SetLimit
  BY <1>1, <1>6 DEF SetLimit, ProjectRecords, NoProject
<1>7. CASE DeleteRow
  BY <1>7 DEF DeleteRow
<1>8. ASSUME NEW j \in Jobs, Thread(j), ~SetupNginx(j), ~Commit(j)
      PROVE  project' = project
  BY <1>8 DEF Thread, RejectVhost, LaunchDeploy, LaunchRefused, Build, Remove, Run, Stop, Check,
     Verify, Cleanup, SwitchNginx, DemoteOthers, LockTimeout, Finish, Monitor
<1>9. ASSUME NEW j \in Jobs, Client(j), ~Provision(j)
      PROVE  project' = project
  BY <1>9 DEF Client, LaunchRollback, LaunchRestart, LaunchStop
<1>10. DeleteDocker \/ EnforceLimit \/ DeleteNginx \/ Abort \/ OrphanEnds \/ Crash
         \/ UNCHANGED vars => project' = project
  BY DEF DeleteDocker, EnforceLimit, DeleteNginx, Abort, OrphanEnds, Crash, vars
<1> QED
  BY <1>2, <1>3, <1>4, <1>5, <1>6, <1>7, <1>8, <1>9, <1>10 DEF Next, Handler

LEMMA RefinementStep ==
  ASSUME RefinementInv, Overlap = {}, [Next]_vars
  PROVE  RefinementInv'
<1>1. SerialInv' /\ TypeOK'
  BY SerialStep DEF RefinementInv, SerialInv
<1> QED
  BY <1>1, GoesBackStep, NoProjectStep DEF RefinementInv

-----------------------------------------------------------------------------
(* Every step is one of ReleaseHistory, or stutters *)

\* The rows and the two columns stay: nothing happens to the history.
LEMMA Stutters ==
  ASSUME rows' = rows, project'.counter = project.counter, project'.limit = project.limit
  PROVE  UNCHANGED Releases!history
<1>1. RecordedTier' = RecordedTier
  BY RecordedTierIs, RecordedTierWillBe
<1> QED
  BY <1>1 DEF Releases!history

LEMMA CommitReleases ==
  ASSUME RefinementInv, NEW j \in Jobs, Commit(j), ~LostRow(j)
  PROVE  Releases!Deploy \/ \E v \in Releases!Versions : Releases!Rollback(v)
<1> DEFINE n == jobs[j].version
           k == Promoted(j)
<1>1. /\ jobs \in [Jobs -> JobRecords] /\ rows \in RowTables
      /\ project.counter \in Names /\ project.counter \in Nat /\ n \in Names
  BY VersionsTyped DEF RefinementInv, SerialInv, TypeOK, ProjectRecords, JobRecords
<1>2. /\ k \in Jobs /\ Loaded(j) \in RowTables
      /\ Loaded(j)[k].status = "active" /\ Loaded(j)[k].version = n
      /\ \A r \in Jobs \ {k} : Loaded(j)[r] = rows[r]
      /\ \/ jobs[j].kind = "deploy" /\ ~Present(k) /\ n = project.counter + 1
         \/ jobs[j].kind = "rollback" /\ Present(k) /\ rows[k].version = n
      /\ seen[j].project = project
      /\ rows' = Final(j) /\ project'.counter = Counted(j) /\ project'.limit = project.limit
  BY CommitWrites DEF RefinementInv
<1>3. OneRowEach(rows)
  BY <1>1, TiersHaveOneRowEach DEF RefinementInv, SerialInv, VersionTiers
<1>4. n \in Versions
  BY <1>1, <1>2, <1>3, BlueGreenAssumption DEF OneRowEach, Present, Names, Versions
<1>5. \/ rows[k].status = "absent" /\ \A r \in Jobs : rows[r].status # "absent" => rows[r].version # n
      \/ rows[k].status # "absent" /\ rows[k].version = n
  <2>1. \A r \in Jobs : rows[r].status # "absent" => rows[r].version \in 1..project.counter
    BY DEF RefinementInv, SerialInv, VersionTiers, Tiers
  <2> QED
    BY <1>1, <1>2, <2>1 DEF Present
<1>6. RecordedTier' = Releases!Pruned(Releases!Shifted(RecordedTier, n), project.limit)
  <2>1. /\ OneRowEach(Shuffled(j))
        /\ TierOf(Shuffled(j)) = Releases!Shifted(TierOf(rows), n)
    <3> HIDE DEF k
    <3> QED
      BY <1>2, <1>3, <1>4, <1>5, ShiftedAlike DEF Shuffled
  <2>2. TierOf(Pruned(Shuffled(j), project.limit))
          = Releases!Pruned(TierOf(Shuffled(j)), project.limit)
    BY <2>1, PrunedAlike
  <2>3. rows' = Pruned(Shuffled(j), project.limit)
    BY <1>2 DEF Final
  <2> QED
    BY <2>1, <2>2, <2>3, RecordedTierIs, RecordedTierWillBe
<1>7. CASE jobs[j].kind = "deploy"
  <2>1. n = project.counter + 1 /\ project'.counter = project.counter + 1
    BY <1>2, <1>7 DEF Counted
  <2>2. project.counter < MaxVersions
    BY <1>1, <2>1, BlueGreenAssumption DEF Names
  <2> QED
    BY <1>2, <1>6, <2>1, <2>2 DEF Releases!Deploy
<1>8. CASE jobs[j].kind = "rollback"
  <2>1. project'.counter = project.counter
    BY <1>8, <1>2 DEF Counted
  <2>2. PICK r \in Jobs : rows[r].status \in {"inactive", "archived"} /\ rows[r].version = n
    BY <1>8 DEF RefinementInv, GoesBack, Commit, Deploying
  <2>3. RecordedTier[n] \in {"inactive", "archived"}
    BY <1>3, <2>2, TierOfRow, RecordedTierIs
  <2>4. Releases!Rollback(n)
    BY <1>2, <1>6, <2>1, <2>3 DEF Releases!Rollback
  <2> QED
    BY <1>4, <2>4, ReleaseVersions
<1> QED
  BY <1>2, <1>7, <1>8

LEMMA HandlerReleases ==
  ASSUME RefinementInv, SetLimit \/ EnforceLimit \/ DeleteRow
  PROVE  [Releases!Next]_(Releases!history)
<1>1. project \in ProjectRecords /\ OneRowEach(rows)
  <2>1. project \in ProjectRecords /\ project.counter \in Names
    BY DEF RefinementInv, SerialInv, TypeOK, ProjectRecords
  <2> QED
    BY <2>1, TiersHaveOneRowEach DEF RefinementInv, SerialInv, VersionTiers
<1>2. CASE SetLimit
  <2>1. PICK l \in Limits : project' = [project EXCEPT !.limit = l]
    BY <1>2 DEF SetLimit
  <2>2. project'.limit = l /\ project'.counter = project.counter /\ rows' = rows
    BY <1>1, <1>2, <2>1 DEF SetLimit, ProjectRecords
  <2>3. Releases!SetLimit(l)
    BY <2>2, RecordedTierIs, RecordedTierWillBe DEF Releases!SetLimit
  <2> QED
    BY <2>3 DEF Releases!Next
<1>3. CASE EnforceLimit
  <2>1. project' = project /\ rows' = (IF project.exists THEN Pruned(rows, project.limit) ELSE rows)
    BY <1>3 DEF EnforceLimit
  <2>2. CASE project.exists
    <3>1. RecordedTier' = Releases!Pruned(RecordedTier, project.limit)
      BY <1>1, <2>1, <2>2, PrunedAlike, RecordedTierIs, RecordedTierWillBe
    <3>2. Releases!EnforceLimit
      BY <2>1, <3>1 DEF Releases!EnforceLimit
    <3> QED
      BY <3>2 DEF Releases!Next
  <2>3. CASE ~project.exists
    BY <2>1, <2>3, Stutters
  <2> QED
    BY <2>2, <2>3
<1>4. CASE DeleteRow
  <2>1. project' = NoProject /\ \A r \in Jobs : rows'[r].status = "absent"
    BY <1>4 DEF DeleteRow, RefinementInv, SerialInv, RowsAreCommitted, Present, NoRow
  <2>2. RecordedTier' = [v \in Versions |-> "absent"]
    BY <2>1, RecordedTierWillBe DEF TierOf
  <2>3. Releases!Erase
    BY <2>1, <2>2, ReleaseVersions DEF Releases!Erase, NoProject
  <2> QED
    BY <2>3 DEF Releases!Next
<1> QED
  BY <1>2, <1>3, <1>4

LEMMA StepReleases ==
  ASSUME RefinementInv, [Next]_vars
  PROVE  [Releases!Next]_(Releases!history)
<1>1. project \in ProjectRecords
  BY DEF RefinementInv, SerialInv, TypeOK
<1>2. CASE rows' = rows /\ project' = project
  BY <1>2, Stutters
<1>3. ASSUME NEW j \in Jobs, Commit(j)
      PROVE  [Releases!Next]_(Releases!history)
  <2>1. CASE LostRow(j)
    BY <1>2, <1>3, <2>1 DEF Commit
  <2>2. CASE ~LostRow(j)
    BY <1>3, <2>2, CommitReleases DEF Releases!Next
  <2> QED
    BY <2>1, <2>2
<1>4. CASE SetLimit \/ EnforceLimit \/ DeleteRow
  BY <1>4, HandlerReleases
<1>5. ASSUME NEW j \in Jobs, Provision(j)
      PROVE  [Releases!Next]_(Releases!history)
  <2>1. rows' = rows /\ project'.counter = project.counter /\ project'.limit = project.limit
    BY <1>5 DEF Provision, RefinementInv, NewProject, NoProject
  <2> QED
    BY <2>1, Stutters
<1>6. ASSUME NEW j \in Jobs, SetupNginx(j)
      PROVE  [Releases!Next]_(Releases!history)
  <2>1. rows' = rows /\ project'.counter = project.counter /\ project'.limit = project.limit
    BY <1>1, <1>6 DEF SetupNginx, ProjectRecords
  <2> QED
    BY <2>1, Stutters
<1>7. ASSUME NEW j \in Jobs, Thread(j), ~SetupNginx(j), ~Commit(j)
      PROVE  rows' = rows /\ project' = project
  BY <1>7 DEF Thread, RejectVhost, LaunchDeploy, LaunchRefused, Build, Remove, Run, Stop, Check,
     Verify, Cleanup, SwitchNginx, DemoteOthers, LockTimeout, Finish, Monitor
<1>8. ASSUME NEW j \in Jobs, Client(j), ~Provision(j)
      PROVE  rows' = rows /\ project' = project
  BY <1>8 DEF Client, LaunchRollback, LaunchRestart, LaunchStop
<1>9. DeleteDocker \/ DeleteNginx \/ Abort \/ OrphanEnds \/ Crash \/ UNCHANGED vars
        => rows' = rows /\ project' = project
  BY DEF DeleteDocker, DeleteNginx, Abort, OrphanEnds, Crash, vars, Requests
<1> QED
  BY <1>2, <1>3, <1>4, <1>5, <1>6, <1>7, <1>8, <1>9 DEF Next, Handler

\* With one operation at a time, what the database records moves in whole steps of
\* ReleaseHistory, whatever fails between the steps of an operation.
THEOREM BlueGreenReleases == Overlap = {} => (Spec => ImplementsReleaseHistory)
<1> SUFFICES ASSUME Overlap = {} PROVE Spec => ImplementsReleaseHistory
  OBVIOUS
<1>1. Init => RefinementInv
  BY RefinementInit
<1>2. RefinementInv /\ [Next]_vars => RefinementInv'
  BY RefinementStep
<1>3. Init => Releases!Init
  <2> SUFFICES ASSUME Init PROVE Releases!Init
    OBVIOUS
  <2>1. RecordedTier = [v \in Versions |-> "absent"]
    BY RecordedTierIs DEF Init, TierOf, NoRow
  <2> QED
    BY <2>1, ReleaseVersions DEF Init, NoProject, Releases!Init
<1>4. RefinementInv /\ [Next]_vars => [Releases!Next]_(Releases!history)
  BY StepReleases
<1> QED
  BY <1>1, <1>2, <1>3, <1>4, PTL DEF Spec, ImplementsReleaseHistory, Releases!Spec

-----------------------------------------------------------------------------
(* What an operation has planned                                            *)
(*                                                                          *)
(* PlanInv adds to SerialInv what a job has captured at its launch of the   *)
(* rows and ports, and that it is still so: the row it deploys, a port that *)
(* is not the running version's, and for a new port one no row records.     *)

\* Job j is a deploy or a rollback that has been launched and has not ended.
Promoting(j) == jobs[j].kind \in {"deploy", "rollback"} /\ jobs[j].pc \in Deploying

\* Where jobs of each kind can be, and with which outcome.
PlaceHolds(j) ==
  /\ jobs[j].pc \in {"nginx", "launch", "build"} => jobs[j].kind = "deploy"
  /\ jobs[j].pc \in {"remove", "cleanup"} => jobs[j].kind \in {"deploy", "rollback"}
  /\ jobs[j].pc = "run" => jobs[j].kind \in {"deploy", "rollback", "restart"}
  /\ jobs[j].pc = "stopping" => jobs[j].kind = "stop"
  /\ jobs[j].pc = "exited" => jobs[j].outcome \in {"ok", "failed"}
  /\ jobs[j].pc \in {"verify", "promote"} \cup Loading => jobs[j].outcome = "ok"
  /\ jobs[j].pc \in Deploying \cup {"finish"} => registered = j

\* What it has captured.
PlanHolds(j) ==
  /\ Promoting(j) =>
       /\ jobs[j].port # NoPort
       /\ jobs[j].port = project.port <=> project.counter = 0
       /\ jobs[j].fresh => \A r \in Jobs : rows[r].port # jobs[j].port
  /\ Promoting(j) /\ jobs[j].kind = "deploy" =>
       jobs[j].row = j /\ (jobs[j].fresh <=> project.counter # 0)
  /\ Promoting(j) /\ jobs[j].kind = "rollback" =>
       /\ jobs[j].row \in Jobs
       /\ rows[jobs[j].row].version = jobs[j].version
       /\ rows[jobs[j].row].status \in {"inactive", "archived"}
       /\ jobs[j].fresh <=> rows[jobs[j].row].status = "archived"
       /\ ~jobs[j].fresh => jobs[j].port = rows[jobs[j].row].port
  /\ jobs[j].pc = "run" /\ jobs[j].kind = "restart" =>
       ~jobs[j].fresh /\ jobs[j].version = project.version /\ jobs[j].port = project.port
  /\ jobs[j].pc = "nginx" =>
       /\ jobs[j].port # NoPort
       /\ jobs[j].fresh <=> project.port = NoPort
       /\ ~jobs[j].fresh => jobs[j].port = project.port
  /\ jobs[j].pc = "launch" => project.port # NoPort

PlansHold == \A j \in Jobs : PlaceHolds(j) /\ PlanHolds(j)

\* The ports the rows record, and the active row.
PortsRecorded ==
  /\ \A r \in Jobs : rows[r].status \in {"active", "inactive"} => rows[r].port # NoPort
  /\ \A r \in Jobs : rows[r].status = "inactive" => rows[r].port # project.port
  /\ project.counter # 0 => \E r \in Jobs :
       /\ rows[r].status = "active" /\ rows[r].version = project.version
       /\ rows[r].port = project.port
  /\ \A j \in Jobs : InFlight(j) => project.exists
  /\ ~project.exists => project.port = NoPort

PlanInv == SerialInv /\ PlansHold /\ PortsRecorded

\* A job that has been launched and goes on, with what it captured.
Advances(j) ==
  /\ jobs[j].pc \in Deploying
  /\ \A i \in Jobs \ {j} : jobs'[i] = jobs[i]
  /\ jobs'[j].kind = jobs[j].kind /\ jobs'[j].version = jobs[j].version
  /\ jobs'[j].port = jobs[j].port /\ jobs'[j].row = jobs[j].row
  /\ jobs'[j].fresh = jobs[j].fresh
  /\ jobs'[j].pc \in Deploying \cup {"finish"}
  /\ jobs'[j].pc \in {"nginx", "launch", "build", "stopping"} => jobs'[j].pc = jobs[j].pc
  /\ jobs'[j].pc \in {"remove", "run", "cleanup"} => jobs[j].kind \in {"deploy", "rollback"}
  /\ jobs'[j].pc = "exited" => jobs'[j].outcome \in {"ok", "failed"}
  /\ jobs'[j].pc \in {"verify", "promote"} \cup Loading => jobs'[j].outcome = "ok"
  /\ UNCHANGED <<project, rows, registered>>

LEMMA AdvanceStep ==
  ASSUME PlanInv, NEW j \in Jobs, Advances(j)
  PROVE  PlansHold' /\ PortsRecorded'
<1>1. \A i \in Jobs \ {j} : ~InFlight(i)
  BY DEF Advances, PlanInv, SerialInv, OneOperation, InFlight, Deploying
<1>2. ASSUME NEW i \in Jobs \ {j}
      PROVE  PlaceHolds(i)' /\ PlanHolds(i)'
  BY <1>1 DEF Advances, PlaceHolds, PlanHolds, Promoting, InFlight, Deploying, Loading
<1>3. PlaceHolds(j) /\ PlanHolds(j)
  BY DEF PlanInv, PlansHold
<1>4. PlaceHolds(j)'
  BY <1>3 DEF Advances, PlaceHolds, Deploying, Loading
<1>5. PlanHolds(j)'
  BY <1>3 DEF Advances, PlanHolds, Promoting, Deploying
<1>6. PortsRecorded'
  BY <1>1 DEF Advances, PlanInv, PortsRecorded, InFlight, Deploying
<1> QED
  BY <1>2, <1>4, <1>5, <1>6 DEF PlansHold

\* A rollback makes the row active that it was launched for.
LEMMA TargetIsPlanned ==
  ASSUME PlanInv, NEW j \in Jobs, jobs[j].pc = "promote"
  PROVE  \A r \in Target(j) : r \in Jobs /\ r = jobs[j].row
<1>1. PlanHolds(j) /\ CaptureHolds(j) /\ Tiers(rows, project.counter)
  BY DEF PlanInv, PlansHold, SerialInv, CapturesHold, VersionTiers
<1>2. Promoting(j)
  BY <1>1 DEF Promoting, CaptureHolds, Deploying
<1> SUFFICES ASSUME NEW r \in Target(j)
             PROVE  r \in Jobs /\ r = jobs[j].row
  OBVIOUS
<1>3. CASE jobs[j].kind = "deploy"
  BY <1>1, <1>2, <1>3 DEF Target, PlanHolds
<1>4. CASE jobs[j].kind = "rollback"
  BY <1>1, <1>2, <1>4 DEF Target, PlanHolds, Tiers, Present
<1> QED
  BY <1>2, <1>3, <1>4 DEF Promoting

\* The steps of a launched job up to its commit.
LEMMA JobAdvances ==
  ASSUME PlanInv, NEW j \in Jobs,
         \/ Build(j) \/ Remove(j) \/ Run(j) \/ Stop(j) \/ Check(j) \/ Verify(j) \/ Cleanup(j)
         \/ SwitchNginx(j) \/ DemoteOthers(j) \/ LockTimeout(j)
  PROVE  Advances(j)
<1>1. jobs \in [Jobs -> JobRecords]
  BY DEF PlanInv, SerialInv, TypeOK
<1>2. PlaceHolds(j) /\ CaptureHolds(j) /\ PlanHolds(j)
  BY DEF PlanInv, PlansHold, SerialInv, CapturesHold
<1> USE DEF Advances, Deploying, Loading
<1>3. CASE Build(j)
  BY <1>1, <1>2, <1>3 DEF Build, JobRecords, PlaceHolds
<1>4. CASE Remove(j)
  BY <1>1, <1>2, <1>4 DEF Remove, JobRecords, PlaceHolds
<1>5. CASE Run(j)
  <2>1. PICK o \in {"ok", "failed"} :
          jobs' = [jobs EXCEPT ![j].pc = "exited", ![j].outcome = o]
    BY <1>5 DEF Run
  <2> QED
    BY <1>1, <1>5, <2>1 DEF Run, JobRecords
<1>6. CASE Stop(j)
  <2>1. PICK o \in {"ok", "failed"} :
          jobs' = [jobs EXCEPT ![j].pc = "exited", ![j].outcome = o]
    BY <1>6 DEF Stop
  <2> QED
    BY <1>1, <1>6, <2>1 DEF Stop, JobRecords
<1>7. CASE Check(j)
  BY <1>1, <1>2, <1>7 DEF Check, JobRecords, PlaceHolds
<1>8. CASE Verify(j)
  BY <1>1, <1>2, <1>8 DEF Verify, JobRecords, PlaceHolds, CaptureHolds
<1>9. CASE Cleanup(j)
  BY <1>1, <1>2, <1>9 DEF Cleanup, JobRecords
<1>10. CASE SwitchNginx(j)
  <2>1. CASE PromoteFails(j)
    <3>1. jobs[j].pc = "promote" /\ UNCHANGED <<project, rows, registered>>
      BY <1>10 DEF SwitchNginx
    <3> QED
      BY <1>1, <2>1, <3>1 DEF PromoteFails, JobRecords
  <2>2. CASE ~PromoteFails(j)
    <3>1. PICK r \in Target(j) : jobs' = [jobs EXCEPT ![j].pc = "demote", ![j].row = r,
            ![j].port = IF jobs[j].fresh \/ jobs[j].kind = "deploy" THEN jobs[j].port
                                                                    ELSE rows[r].port]
      BY <1>10, <2>2 DEF SwitchNginx
    <3>2. jobs[j].pc = "promote" /\ UNCHANGED <<project, rows, registered>>
      BY <1>10 DEF SwitchNginx
    <3>3. r = jobs[j].row
      BY <3>2, TargetIsPlanned
    <3>4. (IF jobs[j].fresh \/ jobs[j].kind = "deploy" THEN jobs[j].port ELSE rows[r].port)
            = jobs[j].port
      BY <1>2, <3>2, <3>3 DEF PlanHolds, Promoting, CaptureHolds
    <3>5. jobs' = [jobs EXCEPT ![j].pc = "demote", ![j].row = r, ![j].port = jobs[j].port]
      BY <3>1, <3>4
    <3> QED
      BY <1>1, <1>2, <3>2, <3>3, <3>5 DEF JobRecords, PlaceHolds
  <2> QED
    BY <2>1, <2>2
<1>11. CASE DemoteOthers(j)
  BY <1>1, <1>2, <1>11 DEF DemoteOthers, PromoteFails, JobRecords, PlaceHolds
<1>12. CASE LockTimeout(j)
  BY <1>1, <1>12 DEF LockTimeout, PromoteFails, JobRecords
<1> QED
  BY <1>3, <1>4, <1>5, <1>6, <1>7, <1>8, <1>9, <1>10, <1>11, <1>12

\* A job that ends.
LEMMA EndStep ==
  ASSUME PlanInv, NEW j \in Jobs, InFlight(j),
         \A i \in Jobs \ {j} : jobs'[i] = jobs[i], jobs'[j].pc = "over",
         UNCHANGED <<project, rows, registered>>
  PROVE  PlansHold' /\ PortsRecorded'
<1>1. \A i \in Jobs \ {j} : ~InFlight(i)
  BY DEF PlanInv, SerialInv, OneOperation
<1>2. ASSUME NEW i \in Jobs
      PROVE  PlaceHolds(i)' /\ PlanHolds(i)'
  BY <1>1 DEF PlaceHolds, PlanHolds, Promoting, InFlight, Deploying, Loading
<1>3. PortsRecorded'
  BY <1>1 DEF PlanInv, PortsRecorded, InFlight
<1> QED
  BY <1>2, <1>3 DEF PlansHold

LEMMA EndSteps ==
  ASSUME PlanInv, NEW j \in Jobs,
         RejectVhost(j) \/ LaunchRefused(j) \/ Finish(j) \/ Monitor(j)
  PROVE  PlansHold' /\ PortsRecorded'
<1>1. jobs \in [Jobs -> JobRecords]
  BY DEF PlanInv, SerialInv, TypeOK
<1>2. /\ InFlight(j) /\ \A i \in Jobs \ {j} : jobs'[i] = jobs[i]
      /\ jobs'[j].pc = "over" /\ UNCHANGED <<project, rows, registered>>
  <2>1. CASE RejectVhost(j)
    BY <1>1, <2>1 DEF RejectVhost, InFlight, Unused
  <2>2. CASE LaunchRefused(j)
    BY <1>1, <2>2 DEF LaunchRefused, InFlight, JobRecords
  <2>3. CASE Finish(j)
    BY <1>1, <2>3 DEF Finish, Over, InFlight, Unused
  <2>4. CASE Monitor(j)
    BY <1>1, <2>4 DEF Monitor, Over, InFlight, Unused
  <2> QED
    BY <2>1, <2>2, <2>3, <2>4
<1> QED
  BY <1>2, EndStep

\* Without a version, no row is recorded.
LEMMA NothingRecorded ==
  ASSUME PlanInv, project.counter = 0
  PROVE  \A r \in Jobs : ~Present(r) /\ rows[r].status = "absent"
BY DEF PlanInv, SerialInv, VersionTiers, Tiers, Present

LEMMA FreePortIsNew ==
  ASSUME FreePorts # {}
  PROVE  /\ NextPort # NoPort /\ NextPort # project.port
         /\ \A r \in Jobs : rows[r].port # NextPort
BY NextPortIsFree, BlueGreenAssumption DEF FreePorts, NoPort

\* A step that only changes what one idle or starting job has.
LEMMA OtherPlans ==
  ASSUME PlanInv, NEW j \in Jobs, \A i \in Jobs \ {j} : ~InFlight(i) /\ jobs'[i] = jobs[i],
         PlaceHolds(j)', PlanHolds(j)'
  PROVE  PlansHold'
<1>1. ASSUME NEW i \in Jobs \ {j}
      PROVE  PlaceHolds(i)' /\ PlanHolds(i)'
  BY DEF PlaceHolds, PlanHolds, Promoting, InFlight, Deploying, Loading
<1> QED
  BY <1>1 DEF PlansHold

LEMMA ProvisionPlan ==
  ASSUME PlanInv, Overlap = {}, NEW j \in Jobs, Provision(j)
  PROVE  PlansHold' /\ PortsRecorded'
<1>1. /\ jobs \in [Jobs -> JobRecords]
      /\ Idle /\ IsNext(j) /\ rows' = rows
      /\ project' = IF project.exists THEN project ELSE NewProject
  BY DEF PlanInv, SerialInv, TypeOK, Provision, Admits
<1>2. \A i \in Jobs \ {j} : ~InFlight(i) /\ jobs'[i] = jobs[i]
  BY <1>1 DEF Provision, Idle
<1>3. /\ jobs'[j].kind = "deploy" /\ jobs'[j].pc = "nginx"
      /\ jobs'[j].fresh <=> project.port = NoPort
      /\ jobs'[j].port = IF project.port # NoPort THEN project.port ELSE NextPort
  BY <1>1 DEF Provision, Unused
<1>4. project'.port = project.port /\ project'.counter = project.counter /\ project'.exists
  BY <1>1 DEF PlanInv, SerialInv, RowsAreCommitted, PortsRecorded, NewProject, NoProject
<1>5. project.port = NoPort => NextPort # NoPort
  BY FreePortIsNew DEF Provision
<1>6. PlaceHolds(j)' /\ PlanHolds(j)'
  BY <1>3, <1>4, <1>5 DEF PlaceHolds, PlanHolds, Promoting, Deploying, Loading
<1>7. PortsRecorded'
  <2>1. CASE project.exists
    BY <1>1, <2>1 DEF PlanInv, PortsRecorded
  <2>2. CASE ~project.exists
    <3>1. project.counter = 0
      BY <2>2 DEF PlanInv, SerialInv, RowsAreCommitted
    <3> QED
      BY <1>1, <1>4, <3>1, NothingRecorded DEF PortsRecorded
  <2> QED
    BY <2>1, <2>2
<1> QED
  BY <1>2, <1>6, <1>7, OtherPlans

LEMMA SetupPlan ==
  ASSUME PlanInv, NEW j \in Jobs, SetupNginx(j)
  PROVE  PlansHold' /\ PortsRecorded'
<1>1. /\ jobs \in [Jobs -> JobRecords] /\ project \in ProjectRecords
      /\ jobs[j].pc = "nginx" /\ InFlight(j) /\ rows' = rows
  BY DEF PlanInv, SerialInv, TypeOK, SetupNginx, InFlight
<1>2. \A i \in Jobs \ {j} : ~InFlight(i) /\ jobs'[i] = jobs[i]
  BY <1>1 DEF SetupNginx, PlanInv, SerialInv, OneOperation
<1>3. project.exists /\ PlanHolds(j) /\ PlaceHolds(j)
  BY <1>1 DEF PlanInv, PlansHold, PortsRecorded
<1>4. jobs'[j].kind = "deploy" /\ jobs'[j].pc = "launch"
  BY <1>1, <1>3 DEF SetupNginx, Unused
<1>5. /\ project'.exists /\ project'.counter = project.counter
      /\ project'.version = project.version
      /\ project'.port = jobs[j].port /\ jobs[j].port # NoPort
      /\ project.port # NoPort => project'.port = project.port
  BY <1>1, <1>3 DEF SetupNginx, PlanHolds, ProjectRecords
<1>6. PlaceHolds(j)' /\ PlanHolds(j)'
  BY <1>4, <1>5 DEF PlaceHolds, PlanHolds, Promoting, Deploying, Loading
<1>7. PortsRecorded'
  <2>1. CASE project.port # NoPort
    BY <1>1, <1>5, <2>1 DEF PlanInv, PortsRecorded
  <2>2. CASE project.port = NoPort
    <3>1. project.counter = 0
      BY <2>2 DEF PlanInv, PortsRecorded
    <3> QED
      BY <1>1, <1>5, <3>1, NothingRecorded DEF PortsRecorded
  <2> QED
    BY <2>1, <2>2
<1> QED
  BY <1>2, <1>6, <1>7, OtherPlans

LEMMA LaunchDeployPlan ==
  ASSUME PlanInv, NEW j \in Jobs, LaunchDeploy(j)
  PROVE  PlansHold' /\ PortsRecorded'
<1>1. /\ jobs \in [Jobs -> JobRecords] /\ InFlight(j)
      /\ jobs[j].pc = "launch" /\ UNCHANGED <<project, rows>> /\ registered' = j
  BY DEF PlanInv, SerialInv, TypeOK, LaunchDeploy, InFlight, Register
<1>2. \A i \in Jobs \ {j} : ~InFlight(i) /\ jobs'[i] = jobs[i]
  BY <1>1 DEF LaunchDeploy, PlanInv, SerialInv, OneOperation
<1>3. project.exists /\ project.port # NoPort
  BY <1>1 DEF PlanInv, PlansHold, PlanHolds, PortsRecorded
<1>4. /\ jobs'[j].kind = "deploy" /\ jobs'[j].pc = "build" /\ jobs'[j].row = j
      /\ jobs'[j].port = IF project.counter = 0 THEN project.port ELSE NextPort
      /\ jobs'[j].fresh <=> project.counter # 0
  BY <1>1 DEF LaunchDeploy, Unused
<1>5. project.counter # 0 => FreePorts # {}
  BY DEF LaunchDeploy
<1>6. PlaceHolds(j)' /\ PlanHolds(j)'
  BY <1>1, <1>3, <1>4, <1>5, FreePortIsNew
  DEF PlaceHolds, PlanHolds, Promoting, Deploying, Loading
<1>7. PortsRecorded'
  BY <1>1, <1>3 DEF PlanInv, PortsRecorded
<1> QED
  BY <1>2, <1>6, <1>7, OtherPlans

LEMMA LaunchPlan ==
  ASSUME PlanInv, Overlap = {}, NEW j \in Jobs,
         LaunchRollback(j) \/ LaunchRestart(j) \/ LaunchStop(j)
  PROVE  PlansHold' /\ PortsRecorded'
<1>1. /\ jobs \in [Jobs -> JobRecords] /\ Idle /\ project.exists
      /\ UNCHANGED <<project, rows>> /\ registered' = j
  BY DEF PlanInv, SerialInv, TypeOK, Admits, LaunchRollback, LaunchRestart, LaunchStop, Register
<1>2. \A i \in Jobs \ {j} : ~InFlight(i) /\ jobs'[i] = jobs[i]
  BY <1>1 DEF LaunchRollback, LaunchRestart, LaunchStop, Idle
<1>3. CASE LaunchRollback(j)
  <2>1. PICK r \in Jobs :
          /\ rows[r].status \in {"inactive", "archived"}
          /\ rows[r].status = "archived" => FreePorts # {}
          /\ jobs' = [jobs EXCEPT ![j] =
               [Unused EXCEPT !.kind = "rollback", !.pc = "remove", !.version = rows[r].version,
                              !.row = r, !.fresh = (rows[r].status = "archived"),
                              !.port = IF rows[r].status = "archived" THEN NextPort
                                                                      ELSE rows[r].port]]
    BY <1>3 DEF LaunchRollback
  <2>2. /\ jobs'[j].kind = "rollback" /\ jobs'[j].pc = "remove" /\ jobs'[j].row = r
        /\ jobs'[j].version = rows[r].version
        /\ jobs'[j].fresh <=> rows[r].status = "archived"
        /\ jobs'[j].port = IF rows[r].status = "archived" THEN NextPort ELSE rows[r].port
    BY <1>1, <2>1 DEF Unused
  <2>3. project.counter # 0
    BY <2>1, NothingRecorded
  <2>4. rows[r].status = "inactive" => rows[r].port # NoPort /\ rows[r].port # project.port
    BY DEF PlanInv, PortsRecorded
  <2>5. PlaceHolds(j)' /\ PlanHolds(j)'
    BY <1>1, <2>1, <2>2, <2>3, <2>4, FreePortIsNew
    DEF PlaceHolds, PlanHolds, Promoting, Deploying, Loading
  <2>6. PortsRecorded'
    BY <1>1 DEF PlanInv, PortsRecorded
  <2> QED
    BY <1>2, <2>5, <2>6, OtherPlans
<1>4. CASE LaunchRestart(j) \/ LaunchStop(j)
  <2>1. \/ /\ jobs'[j].kind = "restart" /\ jobs'[j].pc = "run"
           /\ jobs'[j].version = project.version /\ jobs'[j].port = project.port
           /\ ~jobs'[j].fresh
        \/ jobs'[j].kind = "stop" /\ jobs'[j].pc = "stopping"
    <3>1. CASE LaunchRestart(j)
      BY <1>1, <3>1 DEF LaunchRestart, Unused
    <3>2. CASE LaunchStop(j)
      BY <1>1, <3>2 DEF LaunchStop, Unused
    <3> QED
      BY <1>4, <3>1, <3>2
  <2>2. PlaceHolds(j)' /\ PlanHolds(j)'
    BY <1>1, <2>1 DEF PlaceHolds, PlanHolds, Promoting, Deploying, Loading
  <2>3. PortsRecorded'
    BY <1>1 DEF PlanInv, PortsRecorded
  <2> QED
    BY <1>2, <2>2, <2>3, OtherPlans
<1> QED
  BY <1>3, <1>4

\* The rows a rollback is about to write have not been deleted meanwhile.
LEMMA NoRowLost ==
  ASSUME SerialInv, NEW j \in Jobs, jobs[j].pc = "commit"
  PROVE  ~LostRow(j)
<1>1. CaptureHolds(j) /\ rows \in RowTables
  BY DEF SerialInv, CapturesHold, TypeOK
<1> SUFFICES ASSUME NEW r \in Jobs, jobs[j].kind = "rollback", ~Present(r),
                    Final(j)[r].status # "absent"
             PROVE  FALSE
  BY DEF LostRow
<1>2. /\ seen[j].rows = rows /\ jobs[j].row \in Jobs /\ Present(jobs[j].row)
  BY <1>1 DEF CaptureHolds, Loading
<1>3. Loaded(j)[r] = rows[r]
  <2>1. jobs[j].kind # "deploy"
    OBVIOUS
  <2> QED
    BY <1>1, <1>2, <2>1 DEF Loaded, RowTables
<1>4. Shuffled(j)[r].status # "absent"
  BY DEF Final, Pruned, NoRow
<1>5. Loaded(j)[r].status # "absent"
  BY <1>4 DEF Shuffled, Demoted
<1> QED
  BY <1>3, <1>5 DEF Present

\* The rows a promote works on: the database's, with its own one active.
LEMMA LoadedRows ==
  ASSUME SerialInv, NEW j \in Jobs, jobs[j].pc \in Loading
  PROVE  /\ Promoted(j) \in Jobs /\ Loaded(j) \in RowTables
         /\ Loaded(j)[Promoted(j)].status = "active"
         /\ Loaded(j)[Promoted(j)].version = jobs[j].version
         /\ Loaded(j)[Promoted(j)].port = jobs[j].port
         /\ \A r \in Jobs \ {Promoted(j)} : Loaded(j)[r] = rows[r]
         /\ \/ /\ jobs[j].kind = "deploy" /\ ~Present(Promoted(j))
               /\ jobs[j].version = project.counter + 1
            \/ /\ jobs[j].kind = "rollback" /\ Present(Promoted(j))
               /\ rows[Promoted(j)].version = jobs[j].version
<1> DEFINE k == Promoted(j)
<1>1. /\ jobs[j] \in JobRecords /\ rows \in RowTables /\ CaptureHolds(j)
      /\ jobs[j].version \in Names /\ jobs[j].port \in Ports
  BY DEF SerialInv, TypeOK, CapturesHold, JobRecords
<1>2. CASE jobs[j].kind = "deploy"
  <2>1. k = j /\ Loaded(j) = [rows EXCEPT ![j] = [version |-> jobs[j].version,
                                                  status |-> "active", port |-> jobs[j].port]]
    BY <1>2 DEF Promoted, Loaded
  <2>2. ~Present(j)
    BY DEF SerialInv, RowsAreCommitted, Loading
  <2>3. jobs[j].version = project.counter + 1
    BY <1>1, <1>2 DEF CaptureHolds, Loading, Deploying
  <2> HIDE DEF k
  <2> QED
    BY <1>1, <1>2, <2>1, <2>2, <2>3 DEF RowTables, RowRecords, k
<1>3. CASE jobs[j].kind = "rollback"
  <2>1. /\ k \in Jobs /\ Present(k) /\ rows[k].version = jobs[j].version
        /\ Loaded(j) = [rows EXCEPT ![k].status = "active", ![k].port = jobs[j].port]
    BY <1>1, <1>3 DEF CaptureHolds, Promoted, Loaded
  <2> HIDE DEF k
  <2>2. /\ \A x \in RowRecords : \A p \in Ports :
             /\ [x EXCEPT !.status = "active", !.port = p] \in RowRecords
             /\ [x EXCEPT !.status = "active", !.port = p].status = "active"
             /\ [x EXCEPT !.status = "active", !.port = p].port = p
             /\ [x EXCEPT !.status = "active", !.port = p].version = x.version
    BY DEF RowRecords
  <2>3. /\ Loaded(j)[k] = [rows[k] EXCEPT !.status = "active", !.port = jobs[j].port]
        /\ \A r \in Jobs \ {k} : Loaded(j)[r] = rows[r]
    BY <1>1, <2>1 DEF RowTables
  <2>4. Loaded(j) \in RowTables
    <3>1. rows[k] \in RowRecords
      BY <1>1, <2>1 DEF RowTables
    <3>2. [rows[k] EXCEPT !.status = "active", !.port = jobs[j].port] \in RowRecords
      BY <1>1, <2>2, <3>1
    <3>3. Loaded(j) = [rows EXCEPT ![k] = [rows[k] EXCEPT !.status = "active",
                                                         !.port = jobs[j].port]]
      BY <1>1, <2>1 DEF RowTables
    <3> QED
      BY <1>1, <3>2, <3>3 DEF RowTables
  <2>5. /\ Loaded(j)[k].status = "active" /\ Loaded(j)[k].version = jobs[j].version
        /\ Loaded(j)[k].port = jobs[j].port
    <3>1. rows[k] \in RowRecords
      BY <1>1, <2>1 DEF RowTables
    <3>2. /\ [rows[k] EXCEPT !.status = "active", !.port = jobs[j].port].status = "active"
          /\ [rows[k] EXCEPT !.status = "active", !.port = jobs[j].port].port = jobs[j].port
          /\ [rows[k] EXCEPT !.status = "active", !.port = jobs[j].port].version
               = rows[k].version
      BY <1>1, <2>2, <3>1
    <3> QED
      BY Zenon, <2>1, <2>3, <3>2
  <2> QED
    BY <1>3, <2>1, <2>3, <2>4, <2>5 DEF k
<1> QED
  BY <1>1, <1>2, <1>3 DEF CaptureHolds

\* The rows after the shuffle: the promoted one is active, the one that was active
\* inactive and every other archived.
LEMMA ShuffledRows ==
  ASSUME SerialInv, NEW j \in Jobs, jobs[j].pc \in Loading
  PROVE  /\ Shuffled(j)[Promoted(j)] = Loaded(j)[Promoted(j)]
         /\ \A r \in Jobs \ {Promoted(j)} :
              /\ rows[r].status = "absent" => Shuffled(j)[r].status = "absent"
              /\ rows[r].status = "active" =>
                   Shuffled(j)[r].status = "inactive" /\ Shuffled(j)[r].port = rows[r].port
              /\ rows[r].status \in {"inactive", "archived"} => Shuffled(j)[r].status = "archived"
              /\ Shuffled(j)[r].version = rows[r].version
              /\ rows[r].status # "absent" => rows[r].version # jobs[j].version
<1> DEFINE n == jobs[j].version
           k == Promoted(j)
           t == Loaded(j)
           u == Shuffled(j)
<1>1. /\ k \in Jobs /\ t \in RowTables /\ t[k].status = "active" /\ t[k].version = n
      /\ \A r \in Jobs \ {k} : t[r] = rows[r]
      /\ \/ jobs[j].kind = "deploy" /\ ~Present(k) /\ n = project.counter + 1
         \/ jobs[j].kind = "rollback" /\ Present(k) /\ rows[k].version = n
  BY LoadedRows
<1>2. \A r \in Jobs \ {k} : rows[r].status # "absent" => rows[r].version # n
  <2>1. /\ \A r \in Jobs : rows[r].status # "absent" => rows[r].version \in 1..project.counter
        /\ \A r, q \in Jobs : rows[r].status # "absent" /\ rows[q].status # "absent" /\ r # q
                               => rows[r].version # rows[q].version
    BY DEF SerialInv, VersionTiers, Tiers
  <2>2. project.counter \in Nat
    BY VersionsTyped DEF SerialInv, TypeOK, ProjectRecords
  <2> HIDE DEF n, k, t
  <2>3. CASE jobs[j].kind = "deploy" /\ ~Present(k) /\ n = project.counter + 1
    BY <2>1, <2>2, <2>3
  <2>4. CASE jobs[j].kind = "rollback" /\ Present(k) /\ rows[k].version = n
    BY <1>1, <2>1, <2>4 DEF Present
  <2> QED
    BY <1>1, <2>3, <2>4
<1>3. \A r \in Jobs \ {k} : t[r].status # "absent" => t[r].version # n
  BY <1>1, <1>2
<1>4. /\ u[k] = t[k]
      /\ \A r \in Jobs \ {k} :
           /\ t[r].status = "absent" => u[r] = t[r]
           /\ t[r].status = "active" => u[r].status = "inactive"
           /\ t[r].status \in {"inactive", "archived"} => u[r].status = "archived"
           /\ u[r].version = t[r].version
  BY <1>1, <1>3, DemotedRows DEF Shuffled
<1>5. \A r \in Jobs \ {k} : t[r].status = "active" => u[r].port = t[r].port
  <2>1. \A x \in RowRecords : [x EXCEPT !.status = "inactive"].port = x.port
    BY DEF RowRecords
  <2> QED
    BY <1>1, <1>3, <2>1 DEF Shuffled, Demoted, RowTables
<1> HIDE DEF n, k, t, u
<1>6. \A r \in Jobs \ {k} :
           /\ rows[r].status = "absent" => u[r].status = "absent"
           /\ rows[r].status = "active" => u[r].status = "inactive" /\ u[r].port = rows[r].port
           /\ rows[r].status \in {"inactive", "archived"} => u[r].status = "archived"
           /\ u[r].version = rows[r].version
  BY <1>1, <1>4, <1>5
<1> QED
  BY <1>2, <1>4, <1>6 DEF n, k, t, u

\* What pruning leaves of a row.
LEMMA FinalRow ==
  ASSUME NEW j \in Jobs, NEW r \in Jobs
  PROVE  \/ Final(j)[r] = Shuffled(j)[r]
         \/ Final(j)[r] = NoRow /\ Shuffled(j)[r].status = "archived"
BY DEF Final, Pruned, Excess

\* What the commit leaves of a row: the promoted one, the one that was active, and
\* archived ones.
LEMMA FinalRows ==
  ASSUME SerialInv, NEW j \in Jobs, jobs[j].pc \in Loading
  PROVE  /\ Promoted(j) \in Jobs
         /\ Final(j)[Promoted(j)] = Loaded(j)[Promoted(j)]
         /\ Final(j)[Promoted(j)].status = "active"
         /\ Final(j)[Promoted(j)].version = jobs[j].version
         /\ Final(j)[Promoted(j)].port = jobs[j].port
         /\ \A r \in Jobs \ {Promoted(j)} :
              /\ Final(j)[r].status # "active"
              /\ Final(j)[r].status = "inactive" =>
                   rows[r].status = "active" /\ Final(j)[r].port = rows[r].port
              /\ rows[r].status = "active" => Final(j)[r].status = "inactive"
              /\ Final(j)[r].status # "absent" =>
                   rows[r].status # "absent" /\ Final(j)[r].version = rows[r].version
<1> DEFINE k == Promoted(j)
           u == Shuffled(j)
           f == Final(j)
<1>1. /\ k \in Jobs /\ u[k].status = "active" /\ u[k].version = jobs[j].version
      /\ u[k].port = jobs[j].port /\ u[k] = Loaded(j)[k]
  BY LoadedRows, ShuffledRows
<1>2. \A r \in Jobs : f[r] = u[r] \/ (f[r] = NoRow /\ u[r].status = "archived")
  BY FinalRow
<1>3. \A r \in Jobs \ {k} :
           /\ rows[r].status = "absent" => u[r].status = "absent"
           /\ rows[r].status = "active" => u[r].status = "inactive" /\ u[r].port = rows[r].port
           /\ rows[r].status \in {"inactive", "archived"} => u[r].status = "archived"
           /\ u[r].version = rows[r].version
  BY ShuffledRows
<1>4. \A r \in Jobs : rows[r].status \in {"absent", "active", "inactive", "archived"}
  BY DEF SerialInv, TypeOK, RowTables, RowRecords
<1> HIDE DEF k, u, f
<1>5. f[k] = u[k]
  BY <1>1, <1>2
<1>6. \A r \in Jobs \ {k} :
        /\ f[r].status # "active"
        /\ f[r].status = "inactive" => rows[r].status = "active" /\ f[r].port = rows[r].port
        /\ rows[r].status = "active" => f[r].status = "inactive"
        /\ f[r].status # "absent" => rows[r].status # "absent" /\ f[r].version = rows[r].version
  BY <1>2, <1>3, <1>4 DEF NoRow
<1> QED
  BY <1>1, <1>5, <1>6 DEF k, u, f

LEMMA CommitPlan ==
  ASSUME PlanInv, SerialInv', NEW j \in Jobs, Commit(j)
  PROVE  PlansHold' /\ PortsRecorded' /\ project'.port = jobs[j].port
         /\ project'.version = jobs[j].version
<1>1. /\ jobs \in [Jobs -> JobRecords] /\ project \in ProjectRecords /\ rows \in RowTables
      /\ seen \in [Jobs -> [project : ProjectRecords, rows : RowTables]]
      /\ jobs[j].pc = "commit" /\ InFlight(j) /\ ~LostRow(j) /\ registered' = registered
  BY NoRowLost DEF PlanInv, SerialInv, TypeOK, Commit, InFlight
<1>2. \A i \in Jobs \ {j} : ~InFlight(i) /\ jobs'[i] = jobs[i]
  BY <1>1 DEF Commit, PlanInv, SerialInv, OneOperation
<1>3. PlaceHolds(j) /\ PlanHolds(j) /\ CaptureHolds(j)
  BY DEF PlanInv, PlansHold, SerialInv, CapturesHold
<1>4. jobs'[j].pc = "finish"
  BY <1>1 DEF Commit, JobRecords
<1>5. PlaceHolds(j)' /\ PlanHolds(j)'
  BY <1>1, <1>3, <1>4 DEF PlaceHolds, PlanHolds, Promoting, Deploying, Loading
<1>6. seen[j].project = project /\ rows' = Final(j) /\ project'.exists
  BY <1>1, CommitWrites DEF PlanInv
<1>7. project'.port = jobs[j].port /\ project'.version = jobs[j].version
  <2>1. project' = [project EXCEPT
          !.counter = CounterAfter(j),
          !.port = Written(seen[j].project.port, project.port, jobs[j].port),
          !.version = Written(seen[j].project.version, project.version, jobs[j].version)]
    BY <1>1 DEF Commit
  <2>2. /\ project'.port = Written(seen[j].project.port, project.port, jobs[j].port)
        /\ project'.version = Written(seen[j].project.version, project.version, jobs[j].version)
    BY <1>1, <2>1 DEF ProjectRecords
  <2> QED
    BY <1>6, <2>2 DEF Written
<1>8. PortsRecorded'
  <2> DEFINE k == Promoted(j)
  <2>1. Promoting(j)
    BY <1>1, <1>3 DEF Promoting, CaptureHolds, Loading, Deploying
  <2>2. /\ jobs[j].port # NoPort
        /\ project.counter # 0 => jobs[j].port # project.port
    BY <1>3, <2>1 DEF PlanHolds
  <2>3. /\ k \in Jobs /\ rows'[k].status = "active" /\ rows'[k].version = jobs[j].version
        /\ rows'[k] = Loaded(j)[k]
        /\ \A r \in Jobs \ {k} :
             /\ rows'[r].status # "active"
             /\ rows'[r].status = "inactive" =>
                  rows[r].status = "active" /\ rows'[r].port = rows[r].port
    BY <1>1, <1>6, FinalRows DEF PlanInv, Loading
  <2>4. rows'[k].port = jobs[j].port
    BY <1>1, <1>6, FinalRows DEF PlanInv, Loading
  <2> HIDE DEF k
  <2>5. \A r \in Jobs : rows[r].status = "active" =>
          rows[r].port = project.port /\ project.counter # 0 /\ rows[r].port # NoPort
    BY NothingRecorded DEF PlanInv, PortsRecorded, SerialInv, VersionTiers, Tiers
  <2>6. \A r \in Jobs : rows'[r].status \in {"active", "inactive"} => rows'[r].port # NoPort
    BY <2>2, <2>3, <2>4, <2>5
  <2>7. \A r \in Jobs : rows'[r].status = "inactive" => rows'[r].port # project'.port
    BY <1>7, <2>2, <2>3, <2>4, <2>5
  <2> QED
    BY <1>6, <1>7, <2>3, <2>4, <2>6, <2>7 DEF PortsRecorded
<1> QED
  BY <1>2, <1>5, <1>7, <1>8, OtherPlans

\* While no job is in flight, no job has a plan to keep.
LEMMA IdlePlans ==
  ASSUME \A j \in Jobs : jobs[j].pc \in {"unused", "over"}
  PROVE  PlansHold
BY DEF PlansHold, PlaceHolds, PlanHolds, Promoting, Deploying, Loading

\* Ports stay recorded when the project keeps its port and the archived rows go.
LEMMA PortsStay ==
  ASSUME PortsRecorded, \A j \in Jobs : jobs'[j].pc \in {"unused", "over"},
         project'.exists = project.exists, project'.counter = project.counter,
         project'.port = project.port, project'.version = project.version,
         \A r \in Jobs : rows'[r] = rows[r] \/ (rows[r].status = "archived" /\ rows'[r] = NoRow)
  PROVE  PortsRecorded'
<1>1. \A r \in Jobs : rows'[r].status \in {"active", "inactive"} => rows'[r] = rows[r]
  BY DEF NoRow
<1>2. \A r \in Jobs : rows[r].status = "active" => rows'[r] = rows[r]
  OBVIOUS
<1> QED
  BY <1>1, <1>2 DEF PortsRecorded, InFlight

\* While a handler of a limit or a delete runs, no job is in flight.
LEMMA HandlersRest ==
  ASSUME SerialInv, Overlap = {},
         SetLimit \/ EnforceLimit \/ DeleteDocker \/ DeleteNginx \/ DeleteRow
  PROVE  /\ \A j \in Jobs : jobs[j].pc \in {"unused", "over"} /\ jobs'[j].pc \in {"unused", "over"}
         /\ jobs' = jobs
<1>1. /\ \A j \in Jobs : ~InFlight(j)
      /\ UNCHANGED jobs
  <2>1. CASE SetLimit
    BY <2>1 DEF SetLimit, Admits, Idle
  <2>2. CASE EnforceLimit
    BY <2>2 DEF EnforceLimit, SerialInv, OneOperation
  <2>3. CASE DeleteDocker
    <3>1. \A j \in Jobs : ~InFlight(j)
      BY <2>3 DEF DeleteDocker, Admits, Idle
    <3>2. registered \in Jobs \cup {NoJob} /\ AbortRegistered
      BY <2>3 DEF SerialInv, TypeOK, DeleteDocker
    <3> QED
      BY <3>1, <3>2 DEF AbortRegistered, InFlight, Alive
  <2>4. CASE DeleteNginx
    BY <2>4 DEF DeleteNginx, NoTeardown, SerialInv, OneOperation
  <2>5. CASE DeleteRow
    BY <2>5 DEF DeleteRow, NoTeardown, SerialInv, OneOperation
  <2> QED
    BY <2>1, <2>2, <2>3, <2>4, <2>5
<1> QED
  BY <1>1 DEF InFlight

\* A delete takes every row.
LEMMA DeletedRows ==
  ASSUME SerialInv, DeleteRow
  PROVE  \A r \in Jobs : ~(Present(r)') /\ rows'[r].status = "absent"
<1>1. rows' = [r \in Jobs |-> IF r \in teardown.doomed THEN NoRow ELSE rows[r]]
  BY DEF DeleteRow
<1>2. \A r \in Jobs : Present(r) => r \in teardown.doomed
  BY DEF DeleteRow, SerialInv, RowsAreCommitted
<1> QED
  BY <1>1, <1>2 DEF Present, NoRow

LEMMA HandlerPlans ==
  ASSUME PlanInv, Overlap = {},
         SetLimit \/ EnforceLimit \/ DeleteDocker \/ DeleteNginx \/ DeleteRow
  PROVE  PlansHold' /\ PortsRecorded'
<1>2. \A j \in Jobs : jobs[j].pc \in {"unused", "over"} /\ jobs'[j].pc \in {"unused", "over"}
  BY HandlersRest DEF PlanInv
<1>3. PlansHold'
  BY <1>2, IdlePlans DEF PlansHold, PlaceHolds, PlanHolds, Promoting, Deploying, Loading
<1>4. project \in ProjectRecords
  BY DEF PlanInv, SerialInv, TypeOK
<1>5. CASE ~DeleteRow
  <2>1. /\ project'.exists = project.exists /\ project'.counter = project.counter
        /\ project'.port = project.port /\ project'.version = project.version
    BY <1>4, <1>5 DEF SetLimit, EnforceLimit, DeleteDocker, DeleteNginx, ProjectRecords
  <2>2. \A r \in Jobs : rows'[r] = rows[r] \/ (rows[r].status = "archived" /\ rows'[r] = NoRow)
    <3>1. CASE EnforceLimit
      <4>1. rows' = rows \/ rows' = Pruned(rows, project.limit)
        BY <3>1 DEF EnforceLimit
      <4> QED
        BY <4>1 DEF Pruned, Excess
    <3>2. CASE ~EnforceLimit
      <4>1. rows' = rows
        BY <1>5, <3>2 DEF SetLimit, DeleteDocker, DeleteNginx
      <4> QED
        BY <4>1
    <3> QED
      BY <3>1, <3>2
  <2>3. PortsRecorded /\ \A j \in Jobs : jobs'[j].pc \in {"unused", "over"}
    BY <1>2 DEF PlanInv
  <2>4. PortsRecorded'
    BY <2>1, <2>2, <2>3, PortsStay
  <2> QED
    BY <1>3, <2>4
<1>6. CASE DeleteRow
  <2>1. project' = NoProject
    BY <1>6 DEF DeleteRow
  <2>2. \A r \in Jobs : rows'[r].status = "absent"
    BY <1>6, DeletedRows DEF PlanInv
  <2> QED
    BY <1>2, <1>3, <2>1, <2>2 DEF PortsRecorded, NoProject, InFlight
<1> QED
  BY <1>3, <1>5, <1>6

\* An abort interrupts the process of the job launched last, or none.
LEMMA AbortMoves ==
  ASSUME PlanInv, Abort
  PROVE  /\ UNCHANGED <<project, rows, nginx, images, containers, registered, seen, pruneDue,
                        teardown>>
         /\ \/ jobs' = jobs
            \/ \E j \in Jobs : /\ Advances(j) /\ jobs[j].pc \in Alive
                               /\ jobs'[j].pc = "exited" /\ jobs'[j].outcome = "failed"
<1>1. jobs \in [Jobs -> JobRecords] /\ registered \in Jobs
  BY DEF Abort, PlanInv, SerialInv, TypeOK
<1>2. /\ UNCHANGED <<project, rows, nginx, images, containers, registered, seen, pruneDue, teardown>>
      /\ AbortRegistered /\ status[registered] = "running" /\ registered # NoJob
  BY DEF Abort, Requests
<1>3. CASE jobs[registered].pc \in Alive
  <2>1. PICK j \in Jobs : j = registered
    BY <1>1
  <2>2. jobs' = [jobs EXCEPT ![j].pc = "exited", ![j].outcome = "failed"]
    BY <1>2, <1>3, <2>1 DEF AbortRegistered
  <2>3. jobs'[j].pc = "exited" /\ jobs'[j].outcome = "failed"
    BY <1>1, <2>2 DEF JobRecords
  <2>4. Advances(j)
    BY <1>1, <1>2, <1>3, <2>1, <2>2 DEF Advances, Alive, Deploying, Loading, JobRecords
  <2> QED
    BY <1>2, <1>3, <2>1, <2>3, <2>4
<1>4. CASE jobs[registered].pc \notin Alive
  BY <1>2, <1>4 DEF AbortRegistered
<1> QED
  BY <1>3, <1>4

LEMMA AbortPlan ==
  ASSUME PlanInv, Abort
  PROVE  PlansHold' /\ PortsRecorded'
<1>1. CASE jobs' = jobs
  BY <1>1, AbortMoves DEF PlanInv, PlansHold, PlaceHolds, PlanHolds, Promoting, PortsRecorded,
     InFlight
<1>2. CASE jobs' # jobs
  BY <1>2, AbortMoves, AdvanceStep
<1> QED
  BY <1>1, <1>2

LEMMA CrashPlan ==
  ASSUME PlanInv, Crash
  PROVE  PlansHold' /\ PortsRecorded'
<1>1. \A j \in Jobs : jobs'[j].pc \in {"unused", "over"}
  BY DEF Crash, Unused, InFlight
<1>2. PlansHold'
  BY <1>1 DEF PlansHold, PlaceHolds, PlanHolds, Promoting, Deploying, Loading
<1>3. PortsRecorded /\ project' = project /\ rows' = rows
  BY DEF Crash, PlanInv
<1>4. \A r \in Jobs : rows'[r] = rows[r] \/ (rows[r].status = "archived" /\ rows'[r] = NoRow)
  BY <1>3
<1>5. PortsRecorded'
  BY <1>1, <1>3, <1>4, PortsStay
<1> QED
  BY <1>2, <1>5

LEMMA PlanInit == Init => PlanInv
<1> SUFFICES ASSUME Init PROVE PlanInv
  OBVIOUS
<1>1. SerialInv
  BY SerialInit
<1>2. \A j \in Jobs : jobs[j].pc = "unused" /\ rows[j].status = "absent"
  BY DEF Init, Unused, NoRow
<1>3. PlansHold
  BY <1>2, IdlePlans
<1>4. PortsRecorded
  BY <1>2 DEF Init, PortsRecorded, InFlight, NoProject
<1> QED
  BY <1>1, <1>3, <1>4 DEF PlanInv

\* PlanInv is inductive when operations do not overlap, whatever the environment does.
LEMMA PlanStep ==
  ASSUME PlanInv, Overlap = {}, [Next]_vars
  PROVE  PlanInv'
<1>1. SerialInv /\ SerialInv'
  BY SerialStep DEF PlanInv
<1> SUFFICES PlansHold' /\ PortsRecorded'
  BY <1>1 DEF PlanInv
<1>2. ASSUME NEW j \in Jobs, Client(j)
      PROVE  PlansHold' /\ PortsRecorded'
  <2>1. CASE Provision(j)
    BY <2>1, ProvisionPlan
  <2>2. CASE LaunchRollback(j) \/ LaunchRestart(j) \/ LaunchStop(j)
    BY <2>2, LaunchPlan
  <2> QED
    BY <1>2, <2>1, <2>2 DEF Client
<1>3. ASSUME NEW j \in Jobs, Thread(j)
      PROVE  PlansHold' /\ PortsRecorded'
  <2>1. CASE \/ Build(j) \/ Remove(j) \/ Run(j) \/ Stop(j) \/ Check(j) \/ Verify(j) \/ Cleanup(j)
             \/ SwitchNginx(j) \/ DemoteOthers(j) \/ LockTimeout(j)
    BY <2>1, JobAdvances, AdvanceStep
  <2>2. CASE RejectVhost(j) \/ LaunchRefused(j) \/ Finish(j) \/ Monitor(j)
    BY <2>2, EndSteps
  <2>3. CASE SetupNginx(j)
    BY <2>3, SetupPlan
  <2>4. CASE LaunchDeploy(j)
    BY <2>4, LaunchDeployPlan
  <2>5. CASE Commit(j)
    BY <1>1, <2>5, CommitPlan
  <2> QED
    BY <1>3, <2>1, <2>2, <2>3, <2>4, <2>5 DEF Thread
<1>4. CASE SetLimit \/ DeleteDocker \/ Handler
  BY <1>4, HandlerPlans DEF Handler
<1>5. CASE Abort
  BY <1>5, AbortPlan
<1>6. CASE OrphanEnds \/ UNCHANGED vars
  <2>1. UNCHANGED <<project, rows, jobs, registered>>
    BY <1>6 DEF OrphanEnds, vars
  <2> QED
    BY <2>1 DEF PlanInv, PlansHold, PlaceHolds, PlanHolds, Promoting, PortsRecorded, InFlight
<1>7. CASE Crash
  BY <1>7, CrashPlan
<1> QED
  BY <1>2, <1>3, <1>4, <1>5, <1>6, <1>7 DEF Next
=============================================================================
