----------------------------- MODULE ComposeProofs -----------------------------
(***************************************************************************)
(* Proofs about ComposeDeploy, for every number of jobs, versions and      *)
(* ports.  TypeOK and the service kept up need nothing of what overlaps.   *)
(* The rest is about operations that do not overlap, and is built in       *)
(* layers: how one job moves and that it is alone (SerialInv, with the     *)
(* ledger of what it has loaded); the rows (LimitInv, the refinement of    *)
(* ReleaseHistory); a deploy's own files and image (DeployInv); what every *)
(* recorded version keeps (RetainedInv) and a failed deploy does not       *)
(* (FailedInv); the ports a job is given (RoutesHold), what it runs        *)
(* (DoneInv); and, where only applications fail, what a stack settles on   *)
(* (SettledInv).                                                           *)
(***************************************************************************)
EXTENDS ComposeRefinement, NumberLemmas, FiniteSetTheorems, TLAPS

Places ==
  {"unused", "clone", "provision", "vhost", "record", "launch", "build", "tag", "down", "up",
   "recover", "replace", "copy", "halt", "extract", "promote", "archive", "commit",
   "fail", "finish", "exited", "over"}

Outcomes == {"none", "ok", "failed"}

Statuses == {"none", "running", "done", "error", "aborted", "lost"}

-----------------------------------------------------------------------------
(* Ports *)

\* NextPort is a free port whenever there is one.
LEMMA NextPortIsFree ==
  ASSUME FreePorts # {}
  PROVE  NextPort \in FreePorts
<1>1. FreePorts \subseteq Nat
  BY ComposeAssumption DEF FreePorts
<1>2. \E p \in FreePorts : \A q \in FreePorts : p <= q
  BY <1>1, LeastExists
<1> QED
  BY <1>2 DEF NextPort

-----------------------------------------------------------------------------
(* The operators the actions are built from keep the types *)

LEMMA VersionsTyped == Versions \subseteq Names /\ 0 \in Names /\ Names \subseteq Nat
BY ComposeAssumption DEF Versions, Names

LEMMA NothingTyped ==
  /\ NoProject \in ProjectRecords
  /\ NewProject \in ProjectRecords
  /\ NoRow \in RowRecords
  /\ NoFiles \in Directories
  /\ NoStack \in StackRecords
  /\ Unused \in JobRecords
<1> USE VersionsTyped
<1>1. NoProject \in ProjectRecords /\ NewProject \in ProjectRecords
  BY DEF NoProject, NewProject, ProjectRecords, Ports
<1>2. NoRow \in RowRecords
  BY DEF NoRow, RowRecords
<1>3. NoFiles \in Directories
  BY DEF NoFiles, Directories, Ports, NoJob
<1>4. NoStack \in StackRecords
  BY DEF NoStack, StackRecords, Ports, NoJob
<1>5. Unused \in JobRecords
  BY DEF Unused, JobRecords, Ports
<1> QED
  BY <1>1, <1>2, <1>3, <1>4, <1>5

LEMMA PrunedTyped ==
  ASSUME NEW t \in [Jobs -> RowRecords], NEW l
  PROVE  Pruned(t, l) \in [Jobs -> RowRecords]
BY NothingTyped DEF Pruned

LEMMA ArtifactsTyped ==
  ASSUME TypeOK, NEW gone
  PROVE  /\ TagsWithout(gone) \in [Versions -> Jobs \cup {NoJob}]
         /\ SnapshotsWithout(gone) \in [Names -> Directories]
BY VersionsTyped, NothingTyped DEF TypeOK, TagsWithout, SnapshotsWithout

\* Whatever docker compose leaves is a stack.
LEMMA UpTyped ==
  ASSUME TypeOK, NEW f \in Directories, NEW pinned, NEW killed,
         NEW res \in UpResults(f, pinned, killed)
  PROVE  res.stack \in StackRecords
<1> DEFINE new(s) == [state |-> s, image |-> Image(f, pinned), files |-> f.source, port |-> f.port]
<1>1. f.pin \in Names /\ f.source \in Jobs \cup {NoJob} /\ f.port \in Ports
  BY DEF Directories
<1>2. Image(f, pinned) \in Jobs \cup {NoJob}
  BY <1>1 DEF Image, TypeOK, Names, Versions
<1>3. new("up") \in StackRecords /\ new("partial") \in StackRecords
  BY <1>1, <1>2 DEF StackRecords
<1>4. stack \in StackRecords
  BY DEF TypeOK
<1>5. res \in {[ok |-> FALSE, stack |-> stack], [ok |-> FALSE, stack |-> new("partial")],
               [ok |-> TRUE, stack |-> new("up")], [ok |-> TRUE, stack |-> new("partial")]}
  BY DEF UpResults
<1> HIDE DEF new
<1>6. res.stack \in {stack, new("partial"), new("up")}
  BY <1>5
<1> QED
  BY <1>3, <1>4, <1>6

LEMMA QuitTyped ==
  ASSUME TypeOK, NEW quit \in StackRecords, NEW killed, NEW res \in QuitResults(quit, killed)
  PROVE  res.stack \in StackRecords
<1>1. res \in {[ok |-> TRUE, stack |-> quit], [ok |-> FALSE, stack |-> stack]}
  BY DEF QuitResults
<1>2. res.stack \in {quit, stack}
  BY <1>1
<1>3. stack \in StackRecords
  BY DEF TypeOK
<1> QED
  BY <1>2, <1>3

LEMMA StoppedTyped ==
  ASSUME TypeOK
  PROVE  Stopped \in StackRecords
BY DEF TypeOK, Stopped, StackRecords

-----------------------------------------------------------------------------
(* Job records whose fields are replaced one or a few at a time *)

LEMMA FieldTyped ==
  ASSUME NEW x \in JobRecords
  PROVE  /\ \A pc \in Places : [x EXCEPT !.pc = pc] \in JobRecords
         /\ \A o \in Outcomes : [x EXCEPT !.outcome = o] \in JobRecords
         /\ \A b \in BOOLEAN : [x EXCEPT !.killed = b] \in JobRecords
         /\ \A b \in BOOLEAN : [x EXCEPT !.pinned = b] \in JobRecords
         /\ \A b \in BOOLEAN : [x EXCEPT !.tagged = b] \in JobRecords
         /\ \A n \in Names : [x EXCEPT !.version = n] \in JobRecords
         /\ \A n \in Names : [x EXCEPT !.previous = n] \in JobRecords
         /\ \A n \in Names : [x EXCEPT !.counter = n] \in JobRecords
         /\ \A p \in Ports : [x EXCEPT !.port = p] \in JobRecords
         /\ \A l \in Limits \cup {DefaultLimit} : [x EXCEPT !.limit = l] \in JobRecords
         /\ \A k \in Kinds : [x EXCEPT !.kind = k] \in JobRecords
<1>1. \A pc \in Places : [x EXCEPT !.pc = pc] \in JobRecords
  BY DEF JobRecords, Places, Outcomes
<1>2. \A o \in Outcomes : [x EXCEPT !.outcome = o] \in JobRecords
  BY DEF JobRecords, Places, Outcomes
<1>3. \A b \in BOOLEAN : /\ [x EXCEPT !.killed = b] \in JobRecords
                      /\ [x EXCEPT !.pinned = b] \in JobRecords
                      /\ [x EXCEPT !.tagged = b] \in JobRecords
  BY DEF JobRecords, Places, Outcomes
<1>4. \A n \in Names : /\ [x EXCEPT !.version = n] \in JobRecords
                    /\ [x EXCEPT !.previous = n] \in JobRecords
                    /\ [x EXCEPT !.counter = n] \in JobRecords
  BY DEF JobRecords, Places, Outcomes
<1>5. \A p \in Ports : [x EXCEPT !.port = p] \in JobRecords
  BY DEF JobRecords, Places, Outcomes
<1>6. \A l \in Limits \cup {DefaultLimit} : [x EXCEPT !.limit = l] \in JobRecords
  BY DEF JobRecords, Places, Outcomes
<1>7. \A k \in Kinds : [x EXCEPT !.kind = k] \in JobRecords
  BY DEF JobRecords, Places, Outcomes
<1> QED
  BY <1>1, <1>2, <1>3, <1>4, <1>5, <1>6, <1>7

\* A table of jobs in which one record is replaced.
LEMMA ReplacedTyped ==
  ASSUME TypeOK, NEW j \in Jobs, NEW x \in JobRecords
  PROVE  [jobs EXCEPT ![j] = x] \in [Jobs -> JobRecords]
BY DEF TypeOK

LEMMA GotoTyped ==
  ASSUME TypeOK, NEW j \in Jobs, NEW pc \in Places, Goto(j, pc)
  PROVE  jobs' \in [Jobs -> JobRecords]
<1> DEFINE x == [[jobs[j] EXCEPT !.pc = pc] EXCEPT !.killed = FALSE]
<1>1. jobs[j] \in JobRecords /\ jobs \in [Jobs -> JobRecords]
  BY DEF TypeOK
<1>2. x \in JobRecords
  BY <1>1, FieldTyped
<1>3. jobs' = [jobs EXCEPT ![j] = x]
  BY <1>1 DEF Goto
<1> HIDE DEF x
<1> QED
  BY <1>2, <1>3, ReplacedTyped

LEMMA ExitedTyped ==
  ASSUME TypeOK, NEW j \in Jobs, NEW o \in Outcomes,
         jobs' = [jobs EXCEPT ![j].pc = "exited", ![j].killed = FALSE, ![j].outcome = o]
  PROVE  jobs' \in [Jobs -> JobRecords]
<1> DEFINE x == [[[jobs[j] EXCEPT !.pc = "exited"] EXCEPT !.killed = FALSE] EXCEPT !.outcome = o]
<1>1. jobs[j] \in JobRecords /\ jobs \in [Jobs -> JobRecords]
  BY DEF TypeOK
<1>2. x \in JobRecords
  BY <1>1, FieldTyped DEF Places
<1>3. jobs' = [jobs EXCEPT ![j] = x]
  BY <1>1
<1> HIDE DEF x
<1> QED
  BY <1>2, <1>3, ReplacedTyped

LEMMA OverTyped ==
  ASSUME TypeOK, NEW j \in Jobs, Over(j)
  PROVE  jobs' \in [Jobs -> JobRecords]
<1>1. jobs[j].kind \in Kinds \cup {"none"}
  BY DEF TypeOK, JobRecords
<1>2. [Unused EXCEPT !.kind = jobs[j].kind, !.pc = "over"] \in JobRecords
  BY <1>1, NothingTyped DEF JobRecords
<1> QED
  BY <1>2, ReplacedTyped DEF Over

LEMMA RegisterTyped ==
  ASSUME TypeOK, NEW j \in Jobs, Register(j)
  PROVE  status' \in [Jobs -> Statuses] /\ registered' \in Jobs \cup {NoJob}
BY DEF TypeOK, Register, Statuses

-----------------------------------------------------------------------------
(* Every action keeps the types *)

\* A new job of one of the kinds, at one of the places.
LEMMA NewJobTyped ==
  ASSUME NEW k \in Kinds, NEW pc \in Places, NEW n \in Names, NEW b \in BOOLEAN
  PROVE  /\ [Unused EXCEPT !.kind = k, !.pc = pc] \in JobRecords
         /\ [Unused EXCEPT !.kind = k, !.pc = pc, !.pinned = b] \in JobRecords
         /\ [Unused EXCEPT !.kind = k, !.pc = pc, !.version = n, !.pinned = b] \in JobRecords
<1> USE VersionsTyped
<1>1. [Unused EXCEPT !.kind = k, !.pc = pc] \in JobRecords
  BY DEF Unused, JobRecords, Places, Ports
<1>2. [Unused EXCEPT !.kind = k, !.pc = pc, !.pinned = b] \in JobRecords
  BY DEF Unused, JobRecords, Places, Ports
<1>3. [Unused EXCEPT !.kind = k, !.pc = pc, !.version = n, !.pinned = b] \in JobRecords
  BY DEF Unused, JobRecords, Places, Ports
<1> QED
  BY <1>1, <1>2, <1>3

\* Uploads, git deploys and provisioning.
LEMMA ProvisioningTyped ==
  ASSUME TypeOK, NEW j \in Jobs,
         \/ Upload(j) \/ Clone(j) \/ Provision(j) \/ ProvisionFails(j) \/ SetupNginx(j)
         \/ RecordPort(j) \/ RejectVhost(j)
  PROVE  TypeOK'
<1>1. CASE Upload(j)
  <2>1. project' \in ProjectRecords
    BY <1>1, NothingTyped DEF Upload, TypeOK
  <2>2. /\ [Unused EXCEPT !.kind = "deploy", !.pc = "provision"] \in JobRecords
        /\ [Unused EXCEPT !.kind = "git", !.pc = "clone"] \in JobRecords
    BY NewJobTyped, VersionsTyped DEF Kinds, Places
  <2>3. jobs' \in [Jobs -> JobRecords]
    BY <1>1, <2>2, ReplacedTyped DEF Upload
  <2>4. files' \in Directories
    BY <1>1, NothingTyped DEF Upload, TypeOK, Directories
  <2> QED
    BY <1>1, <2>1, <2>3, <2>4 DEF Upload, TypeOK, Images, Registry, Requests
<1>2. CASE Clone(j)
  <2>1. jobs' \in [Jobs -> JobRecords]
    BY <1>2, GotoTyped, OverTyped DEF Clone, Places
  <2>2. files' \in Directories
    BY <1>2, NothingTyped DEF Clone, Directories
  <2> QED
    BY <1>2, <2>1, <2>2 DEF Clone, TypeOK, Database, Images, Registry, Requests
<1>3. CASE Provision(j)
  <2>1. NextPort \in Ports
    BY <1>3, NextPortIsFree DEF Provision, FreePorts, Ports
  <2>2. jobs' \in [Jobs -> JobRecords]
    <3> DEFINE x == [[jobs[j] EXCEPT !.pc = "vhost"] EXCEPT !.port = NextPort]
    <3>1. jobs[j] \in JobRecords /\ jobs \in [Jobs -> JobRecords]
      BY DEF TypeOK
    <3>2. x \in JobRecords
      BY <2>1, <3>1, FieldTyped DEF Places
    <3>3. jobs' = [jobs EXCEPT ![j] = x]
      BY <1>3, <3>1 DEF Provision
    <3> HIDE DEF x
    <3> QED
      BY <3>2, <3>3, ReplacedTyped
  <2>3. files' \in Directories
    BY <1>3, <2>1 DEF Provision, TypeOK, Directories
  <2> QED
    BY <1>3, <2>2, <2>3 DEF Provision, TypeOK, Database, Images, Registry, Requests
<1>4. ASSUME Unprovisioned(j)
      PROVE  jobs' \in [Jobs -> JobRecords]
  BY <1>4, GotoTyped, OverTyped DEF Unprovisioned, Places
<1>5. CASE ProvisionFails(j)
  <2>1. files' \in Directories
    BY <1>5, NothingTyped DEF ProvisionFails, TypeOK
  <2> QED
    BY <1>4, <1>5, <2>1 DEF ProvisionFails, TypeOK, Database, Images, Registry, Requests
<1>6. jobs[j].port \in Ports
  BY DEF TypeOK, JobRecords
<1>7. CASE SetupNginx(j)
  <2>1. jobs' \in [Jobs -> JobRecords]
    BY <1>7, GotoTyped DEF SetupNginx, Places
  <2> QED
    BY <1>6, <1>7, <2>1 DEF SetupNginx, TypeOK, Database, Images, Registry, Requests
<1>8. CASE RecordPort(j)
  <2>1. jobs' \in [Jobs -> JobRecords]
    BY <1>8, GotoTyped DEF RecordPort, Places
  <2>2. project' \in ProjectRecords
    BY <1>6, <1>8 DEF RecordPort, TypeOK, ProjectRecords
  <2> QED
    BY <1>8, <2>1, <2>2 DEF RecordPort, TypeOK, Images, Registry, Requests
<1>9. CASE RejectVhost(j)
  <2>1. files' \in Directories
    BY <1>9, NothingTyped DEF RejectVhost, TypeOK
  <2> QED
    BY <1>4, <1>9, <2>1 DEF RejectVhost, TypeOK, Ports, Database, Images, Registry, Requests
<1> QED
  BY <1>1, <1>2, <1>3, <1>5, <1>7, <1>8, <1>9

\* The launches of jobs.
LEMMA LaunchTyped ==
  ASSUME TypeOK, NEW j \in Jobs,
         \/ Launch(j) \/ LaunchRefused(j) \/ LaunchRollback(j) \/ LaunchRestart(j)
         \/ LaunchDown(j) \/ LaunchRestore(j)
  PROVE  TypeOK'
<1>1. \A r \in Jobs : rows[r].version \in Names
  BY DEF TypeOK, RowRecords
<1>2. CASE Launch(j)
  <2> DEFINE n == project.counter + 1
             m == IF \E r \in Jobs : rows[r].status = "active"
                  THEN rows[CHOOSE r \in Jobs : rows[r].status = "active"].version ELSE 0
             x == [[[[jobs[j] EXCEPT !.pc = "build"] EXCEPT !.version = n]
                      EXCEPT !.pinned = TRUE] EXCEPT !.previous = m]
  <2>1. n \in Names
    BY <1>2, ComposeAssumption DEF Launch, TypeOK, ProjectRecords, Names
  <2>2. m \in Names
    BY <1>1, VersionsTyped
  <2> HIDE DEF n, m
  <2>3. jobs[j] \in JobRecords /\ jobs \in [Jobs -> JobRecords]
    BY DEF TypeOK
  <2>4. x \in JobRecords
    BY <2>1, <2>2, <2>3, FieldTyped DEF Places
  <2>5. jobs' = [jobs EXCEPT ![j] = x]
    BY <1>2, <2>3 DEF Launch, n, m
  <2> HIDE DEF x
  <2>6. jobs' \in [Jobs -> JobRecords]
    BY <2>4, <2>5, ReplacedTyped
  <2> QED
    BY <1>2, <2>6, RegisterTyped DEF Launch, TypeOK, Statuses, Database, Images, Requests
<1>3. CASE LaunchRefused(j)
  <2>1. jobs' \in [Jobs -> JobRecords]
    BY <1>3, OverTyped DEF LaunchRefused
  <2> QED
    BY <1>3, <2>1 DEF LaunchRefused, TypeOK, Database, Images, Registry, Requests
<1>4. CASE LaunchRollback(j)
  <2>1. PICK r \in Jobs :
          jobs' = [jobs EXCEPT ![j] =
            [Unused EXCEPT !.kind = "rollback", !.pc = "down", !.version = rows[r].version,
                           !.pinned = TRUE]]
    BY <1>4 DEF LaunchRollback
  <2>2. [Unused EXCEPT !.kind = "rollback", !.pc = "down", !.version = rows[r].version,
                       !.pinned = TRUE] \in JobRecords
    BY <1>1, NewJobTyped DEF Kinds, Places
  <2>3. jobs' \in [Jobs -> JobRecords]
    BY <2>1, <2>2, ReplacedTyped
  <2> QED
    BY <1>4, <2>3, RegisterTyped
    DEF LaunchRollback, TypeOK, Statuses, Database, Images, Requests
<1>5. CASE LaunchRestart(j)
  <2>1. [Unused EXCEPT !.kind = "restart", !.pc = "up", !.pinned = (files.pin # 0)]
          \in JobRecords
    <3>1. ASSUME NEW b \in BOOLEAN
          PROVE  [Unused EXCEPT !.kind = "restart", !.pc = "up", !.pinned = b] \in JobRecords
      BY NewJobTyped, VersionsTyped DEF Kinds, Places
    <3>2. (files.pin # 0) \in BOOLEAN
      OBVIOUS
    <3> QED
      BY Zenon, <3>1, <3>2
  <2>2. jobs' \in [Jobs -> JobRecords]
    BY <1>5, <2>1, ReplacedTyped DEF LaunchRestart
  <2>3. files' \in Directories
    BY <1>5 DEF LaunchRestart, TypeOK, Directories, ProjectRecords
  <2> QED
    BY <1>5, <2>2, <2>3, RegisterTyped
    DEF LaunchRestart, TypeOK, Statuses, Database, Images, Requests
<1>6. CASE LaunchDown(j)
  <2>1. [Unused EXCEPT !.kind = "down", !.pc = "down"] \in JobRecords
    BY NewJobTyped, VersionsTyped DEF Kinds, Places
  <2>2. jobs' \in [Jobs -> JobRecords]
    BY <1>6, <2>1, ReplacedTyped DEF LaunchDown
  <2> QED
    BY <1>6, <2>2, RegisterTyped DEF LaunchDown, TypeOK, Statuses, Database, Images, Requests
<1>7. CASE LaunchRestore(j)
  <2>1. [Unused EXCEPT !.kind = "restore", !.pc = "halt"] \in JobRecords
    BY NewJobTyped, VersionsTyped DEF Kinds, Places
  <2>2. jobs' \in [Jobs -> JobRecords]
    BY <1>7, <2>1, ReplacedTyped DEF LaunchRestore
  <2> QED
    BY <1>7, <2>2, RegisterTyped
    DEF LaunchRestore, TypeOK, Statuses, Database, Images, Requests
<1> QED
  BY <1>2, <1>3, <1>4, <1>5, <1>6, <1>7

\* The phases of a job.
LEMMA PhaseTyped ==
  ASSUME TypeOK, NEW j \in Jobs,
         \/ Build(j) \/ Tag(j) \/ Down(j) \/ Replace(j) \/ Copy(j) \/ Up(j) \/ Recover(j)
         \/ Halt(j) \/ Extract(j)
  PROVE  TypeOK'
<1>1. /\ jobs[j] \in JobRecords
      /\ jobs \in [Jobs -> JobRecords]
      /\ jobs[j].version \in Names
      /\ jobs[j].previous \in Names
  BY DEF TypeOK, JobRecords
<1>2. files \in Directories /\ \A n \in Names : snapshots[n] \in Directories
  BY DEF TypeOK
<1>3. CASE Build(j)
  <2>1. jobs' \in [Jobs -> JobRecords]
    BY <1>3, GotoTyped DEF Build, GotoIf, Places
  <2>2. built' \in Jobs \cup {NoJob}
    BY <1>2, <1>3 DEF Build, TypeOK, Directories
  <2> QED
    BY <1>3, <2>1, <2>2 DEF Build, TypeOK, Database, Registry, Requests
<1>4. CASE Tag(j)
  <2>1. ASSUME NEW pc \in Places, NEW b \in BOOLEAN,
               jobs' = [jobs EXCEPT ![j].pc = pc, ![j].tagged = b]
        PROVE  jobs' \in [Jobs -> JobRecords]
    <3> DEFINE x == [[jobs[j] EXCEPT !.pc = pc] EXCEPT !.tagged = b]
    <3>1. x \in JobRecords
      BY <1>1, FieldTyped
    <3>2. jobs' = [jobs EXCEPT ![j] = x]
      BY <1>1, <2>1
    <3> HIDE DEF x
    <3> QED
      BY <3>1, <3>2, ReplacedTyped
  <2>2. CASE /\ built # NoJob /\ files.source # NoJob
             /\ tags' = [tags EXCEPT ![jobs[j].version] = built]
             /\ files' = [files EXCEPT !.pin = jobs[j].version]
             /\ jobs' = [jobs EXCEPT ![j].pc = IF Aborted THEN "fail" ELSE "down",
                                     ![j].tagged = TRUE]
    <3>1. jobs' \in [Jobs -> JobRecords]
      BY <2>1, <2>2 DEF Places
    <3>2. files' \in Directories
      BY <1>1, <1>2, <2>2 DEF Directories
    <3>3. tags' \in [Versions -> Jobs \cup {NoJob}]
      BY <1>1, <2>2 DEF TypeOK
    <3> QED
      BY <1>4, <3>1, <3>2, <3>3 DEF Tag, TypeOK, Database, Registry, Requests
  <2>3. CASE /\ jobs' = [jobs EXCEPT ![j].pc = "fail",
                                     ![j].tagged = (built # NoJob /\ files.source = NoJob)]
             /\ UNCHANGED <<tags, files>>
    <3>1. jobs' \in [Jobs -> JobRecords]
      <4>1. (built # NoJob /\ files.source = NoJob) \in BOOLEAN
        OBVIOUS
      <4>2. "fail" \in Places
        BY DEF Places
      <4> QED
        BY Zenon, <2>1, <2>3, <4>1, <4>2
    <3> QED
      BY <1>4, <2>3, <3>1 DEF Tag, TypeOK, Database, Registry, Requests
  <2> QED
    BY <1>4, <2>2, <2>3 DEF Tag
<1>5. CASE Down(j)
  <2>1. CASE jobs[j].kind = "rollback" /\ files.port = NoPort /\ Goto(j, "replace")
             /\ UNCHANGED stack
    <3>1. jobs' \in [Jobs -> JobRecords]
      BY <2>1, GotoTyped DEF Places
    <3> QED
      BY <1>5, <2>1, <3>1 DEF Down, TypeOK, Database, Images, Registry, Requests
  <2>2. ASSUME NEW res \in QuitResults(NoStack, jobs[j].killed),
               stack' = res.stack,
               CASE jobs[j].kind \in Deploys -> GotoIf(j, res.ok, "up")
                 [] jobs[j].kind = "rollback" -> GotoIf(j, res.ok, "replace")
                 [] OTHER -> jobs' = [jobs EXCEPT ![j].pc = "exited", ![j].killed = FALSE,
                                        ![j].outcome = IF res.ok THEN "ok" ELSE "failed"]
        PROVE  TypeOK'
    <3>1. jobs' \in [Jobs -> JobRecords]
      <4>1. CASE \E pc \in Places : Goto(j, pc)
        BY <4>1, GotoTyped
      <4>2. CASE jobs' = [jobs EXCEPT ![j].pc = "exited", ![j].killed = FALSE,
                                      ![j].outcome = IF res.ok THEN "ok" ELSE "failed"]
        BY <4>2, ExitedTyped DEF Outcomes
      <4> QED
        BY <2>2, <4>1, <4>2 DEF GotoIf, Places
    <3>2. stack' \in StackRecords
      BY <2>2, QuitTyped, NothingTyped
    <3> QED
      BY <1>5, <3>1, <3>2 DEF Down, TypeOK, Database, Images, Registry, Requests
  <2> QED
    BY <1>5, <2>1, <2>2 DEF Down
<1>6. CASE Replace(j)
  <2>1. jobs' \in [Jobs -> JobRecords]
    BY <1>6, GotoTyped DEF Replace, Places
  <2> QED
    BY <1>6, <2>1, NothingTyped DEF Replace, TypeOK, Database, Images, Registry, Requests
<1>7. CASE Copy(j)
  <2>1. jobs' \in [Jobs -> JobRecords]
    BY <1>7, GotoTyped DEF Copy, Places
  <2>2. files' \in Directories
    BY <1>1, <1>2, <1>7 DEF Copy
  <2> QED
    BY <1>7, <2>1, <2>2 DEF Copy, TypeOK, Database, Images, Registry, Requests
<1>8. CASE Up(j)
  <2>1. PICK res \in UpResults(files, jobs[j].pinned, jobs[j].killed) :
          /\ stack' = res.stack
          /\ CASE jobs[j].kind \in Deploys ->
                    Goto(j, IF res.ok /\ ~Aborted THEN "promote"
                            ELSE IF jobs[j].previous # 0 THEN "recover" ELSE "fail")
               [] jobs[j].kind = "rollback" -> GotoIf(j, res.ok, "promote")
               [] jobs[j].kind = "restore" ->
                    Goto(j, IF res.ok /\ jobs[j].outcome = "ok" THEN "finish" ELSE "fail")
               [] OTHER -> jobs' = [jobs EXCEPT ![j].pc = "exited", ![j].killed = FALSE,
                                      ![j].outcome = IF res.ok THEN "ok" ELSE "failed"]
    BY <1>8 DEF Up
  <2>2. stack' \in StackRecords
    BY <1>2, <2>1, UpTyped
  <2>3. jobs' \in [Jobs -> JobRecords]
    <3>1. CASE \E pc \in Places : Goto(j, pc)
      BY <3>1, GotoTyped
    <3>2. CASE jobs' = [jobs EXCEPT ![j].pc = "exited", ![j].killed = FALSE,
                                    ![j].outcome = IF res.ok THEN "ok" ELSE "failed"]
      BY <3>2, ExitedTyped DEF Outcomes
    <3> QED
      BY <2>1, <3>1, <3>2 DEF GotoIf, Places
  <2> QED
    BY <1>8, <2>2, <2>3 DEF Up, TypeOK, Database, Images, Registry, Requests
<1>9. CASE Recover(j)
  <2>1. stack' \in StackRecords
    <3>1. CASE UNCHANGED stack
      BY <3>1 DEF TypeOK
    <3>2. CASE \E res \in UpResults(snapshots[jobs[j].previous], TRUE, jobs[j].killed) :
                 stack' = res.stack
      BY <1>1, <1>2, <3>2, UpTyped
    <3> QED
      BY <1>9, <3>1, <3>2 DEF Recover
  <2>2. jobs' \in [Jobs -> JobRecords]
    BY <1>9, GotoTyped DEF Recover, Places
  <2> QED
    BY <1>9, <2>1, <2>2 DEF Recover, TypeOK, Database, Images, Registry, Requests
<1>10. CASE Halt(j)
  <2>1. PICK res \in QuitResults(Stopped, jobs[j].killed) :
          stack' = res.stack /\ GotoIf(j, res.ok, "extract")
    BY <1>10 DEF Halt
  <2>2. stack' \in StackRecords
    BY <2>1, QuitTyped, StoppedTyped
  <2>3. jobs' \in [Jobs -> JobRecords]
    BY <2>1, GotoTyped DEF GotoIf, Places
  <2> QED
    BY <1>10, <2>2, <2>3 DEF Halt, TypeOK, Database, Images, Registry, Requests
<1>11. CASE Extract(j)
  <2>1. PICK o \in Outcomes :
          jobs' = [jobs EXCEPT ![j].pc = "up", ![j].killed = FALSE, ![j].outcome = o,
                               ![j].pinned = (files.pin # 0)]
    BY <1>11 DEF Extract, Outcomes
  <2>2. jobs' \in [Jobs -> JobRecords]
    <3> DEFINE b == files.pin # 0
               x == [[[[jobs[j] EXCEPT !.pc = "up"] EXCEPT !.killed = FALSE]
                        EXCEPT !.outcome = o] EXCEPT !.pinned = b]
    <3>1. b \in BOOLEAN
      OBVIOUS
    <3>2. jobs' = [jobs EXCEPT ![j].pc = "up", ![j].killed = FALSE, ![j].outcome = o,
                               ![j].pinned = b]
      BY <2>1
    <3> HIDE DEF b
    <3>3. x \in JobRecords
      BY <1>1, <3>1, FieldTyped DEF Places
    <3>4. jobs' = [jobs EXCEPT ![j] = x]
      BY <1>1, <3>2
    <3> HIDE DEF x
    <3> QED
      BY <3>3, <3>4, ReplacedTyped
  <2> QED
    BY <1>11, <2>2 DEF Extract, TypeOK, Database, Images, Registry, Requests
<1> QED
  BY <1>3, <1>4, <1>5, <1>6, <1>7, <1>8, <1>9, <1>10, <1>11

\* Promotion and the end of a job.
LEMMA PromotionTyped ==
  ASSUME TypeOK, NEW j \in Jobs,
         \/ Promote(j) \/ Archive(j) \/ LockTimeout(j) \/ Commit(j) \/ Finish(j) \/ Fail(j)
         \/ Monitor(j)
  PROVE  TypeOK'
<1>1. /\ jobs[j] \in JobRecords
      /\ jobs \in [Jobs -> JobRecords]
      /\ jobs[j].version \in Names
  BY DEF TypeOK, JobRecords
<1>2. ASSUME NEW o, Finished(j, o), o \in Statuses
      PROVE  /\ jobs' \in [Jobs -> JobRecords]
             /\ status' \in [Jobs -> Statuses]
             /\ registered' = registered
  BY <1>2, OverTyped DEF Finished, TypeOK, Statuses
<1>3. CASE Promote(j)
  <2>1. CASE jobs' = [jobs EXCEPT ![j].pc = "archive",
                        ![j].counter = project.counter, ![j].limit = project.limit,
                        ![j].outcome = IF stack.state = "up" THEN "ok" ELSE "failed"]
    <3> DEFINE o == IF stack.state = "up" THEN "ok" ELSE "failed"
               x == [[[[jobs[j] EXCEPT !.pc = "archive"] EXCEPT !.counter = project.counter]
                        EXCEPT !.limit = project.limit] EXCEPT !.outcome = o]
    <3>1. o \in Outcomes /\ "archive" \in Places
      BY DEF Outcomes, Places
    <3>2. project.counter \in Names /\ project.limit \in Limits \cup {DefaultLimit}
      BY DEF TypeOK, ProjectRecords
    <3>3. jobs' = [jobs EXCEPT ![j].pc = "archive",
                     ![j].counter = project.counter, ![j].limit = project.limit,
                     ![j].outcome = o]
      BY <2>1
    <3> HIDE DEF o
    <3>4. x \in JobRecords
      BY <1>1, <3>1, <3>2, FieldTyped
    <3>5. jobs' = [jobs EXCEPT ![j] = x]
      BY <1>1, <3>3
    <3> HIDE DEF x
    <3>6. jobs' \in [Jobs -> JobRecords]
      BY <3>4, <3>5, ReplacedTyped
    <3>7. snapshots' \in [Names -> Directories]
      BY <1>1, <1>3 DEF Promote, TypeOK
    <3> QED
      BY <1>3, <3>6, <3>7 DEF Promote, TypeOK, Database, Images, Registry, Requests
  <2>2. CASE Goto(j, "fail")
    <3>1. jobs' \in [Jobs -> JobRecords]
      BY <2>2, GotoTyped DEF Places
    <3>2. snapshots' \in [Names -> Directories]
      BY <1>1, <1>3 DEF Promote, TypeOK
    <3> QED
      BY <1>3, <3>1, <3>2 DEF Promote, TypeOK, Database, Images, Registry, Requests
  <2> QED
    BY <1>3, <2>1, <2>2 DEF Promote
<1>4. CASE Archive(j)
  <2>1. jobs' \in [Jobs -> JobRecords]
    BY <1>4, GotoTyped DEF Archive, Places
  <2>2. /\ tags' \in [Versions -> Jobs \cup {NoJob}]
        /\ snapshots' \in [Names -> Directories]
    BY <1>4, ArtifactsTyped DEF Archive, TypeOK
  <2> QED
    BY <1>4, <2>1, <2>2 DEF Archive, TypeOK, Database, Registry, Requests
<1>5. CASE LockTimeout(j)
  <2>1. jobs' \in [Jobs -> JobRecords]
    BY <1>5, GotoTyped, OverTyped DEF LockTimeout, Unprovisioned, Places
  <2> QED
    BY <1>5, <2>1 DEF LockTimeout, TypeOK, Database, Images, Registry, Requests
<1>6. CASE Commit(j)
  <2>1. jobs' \in [Jobs -> JobRecords]
    BY <1>6, GotoTyped DEF Commit, Places
  <2>2. project' \in ProjectRecords
    <3>1. CounterAfter(j) \in Names
      BY <1>1 DEF CounterAfter, TypeOK, ProjectRecords
    <3> QED
      BY <1>6, <3>1 DEF Commit, TypeOK, ProjectRecords
  <2>3. rows' \in [Jobs -> RowRecords]
    <3>1. [version |-> jobs[j].version, status |-> "active"] \in RowRecords
      BY <1>1 DEF RowRecords
    <3>2. \A r \in Jobs : rows[r] \in RowRecords
                          /\ [rows[r] EXCEPT !.status = "archived"] \in RowRecords
      BY DEF TypeOK, RowRecords
    <3>3. Shuffled(j) \in [Jobs -> RowRecords]
      BY <3>1, <3>2 DEF Shuffled
    <3> QED
      BY <1>6, <3>3, PrunedTyped DEF Commit, Final
  <2> QED
    BY <1>6, <2>1, <2>2, <2>3 DEF Commit, TypeOK, Images, Registry, Requests
<1>7. CASE Finish(j)
  <2>1. /\ jobs' \in [Jobs -> JobRecords]
        /\ status' \in [Jobs -> Statuses]
        /\ registered' = registered
    BY <1>2, <1>7 DEF Finish, Statuses
  <2> QED
    BY <1>7, <2>1 DEF Finish, TypeOK, Statuses, Database, Images, Requests
<1>8. CASE Fail(j)
  <2>1. /\ jobs' \in [Jobs -> JobRecords]
        /\ status' \in [Jobs -> Statuses]
        /\ registered' = registered
    BY <1>2, <1>8 DEF Fail, Statuses
  <2>2. tags' \in [Versions -> Jobs \cup {NoJob}]
    BY <1>8, ArtifactsTyped DEF Fail, TypeOK
  <2> QED
    BY <1>8, <2>1, <2>2 DEF Fail, TypeOK, Statuses, Database, Requests
<1>9. CASE Monitor(j)
  <2>1. jobs' \in [Jobs -> JobRecords]
    BY <1>9, OverTyped DEF Monitor
  <2>2. status' \in [Jobs -> Statuses]
    BY <1>9 DEF Monitor, TypeOK, Statuses
  <2> QED
    BY <1>9, <2>1, <2>2 DEF Monitor, TypeOK, Statuses, Database, Images, Requests
<1> QED
  BY <1>3, <1>4, <1>5, <1>6, <1>7, <1>8, <1>9

LEMMA AbortTyped ==
  ASSUME TypeOK, AbortRegistered
  PROVE  jobs' \in [Jobs -> JobRecords] /\ status' \in [Jobs -> Statuses]
<1>1. status' \in [Jobs -> Statuses]
  BY DEF AbortRegistered, TypeOK, Statuses
<1>2. jobs' \in [Jobs -> JobRecords]
  <2>1. CASE UNCHANGED jobs
    BY <2>1 DEF TypeOK
  <2>2. ASSUME NEW j \in Jobs, jobs' = [jobs EXCEPT ![j].killed = TRUE]
        PROVE  jobs' \in [Jobs -> JobRecords]
    <3>1. jobs[j] \in JobRecords /\ jobs \in [Jobs -> JobRecords]
      BY DEF TypeOK
    <3>2. [jobs[j] EXCEPT !.killed = TRUE] \in JobRecords
      BY <3>1, FieldTyped
    <3> QED
      BY <2>2, <3>1, <3>2
  <2> QED
    BY <2>1, <2>2 DEF AbortRegistered
<1> QED
  BY <1>1, <1>2

\* The requests that need no job, and what surrounds the project.
LEMMA HandlerTyped ==
  ASSUME TypeOK,
         \/ SetLimit \/ EnforceLimit \/ DeleteDocker \/ DeleteNginx \/ DeleteRow
         \/ Abort \/ Neighbour
  PROVE  TypeOK'
<1>1. CASE SetLimit
  <2>1. project' \in ProjectRecords
    BY <1>1 DEF SetLimit, TypeOK, ProjectRecords
  <2> QED
    BY <1>1, <2>1 DEF SetLimit, TypeOK, Images, Registry
<1>2. CASE EnforceLimit
  <2>1. rows' \in [Jobs -> RowRecords]
    BY <1>2, PrunedTyped DEF EnforceLimit, TypeOK
  <2>2. /\ tags' \in [Versions -> Jobs \cup {NoJob}]
        /\ snapshots' \in [Names -> Directories]
    BY <1>2, ArtifactsTyped DEF EnforceLimit
  <2> QED
    BY <1>2, <2>1, <2>2 DEF EnforceLimit, TypeOK, Registry
<1>3. CASE DeleteDocker
  <2>1. files' \in Directories
    BY <1>3, NothingTyped DEF DeleteDocker
  <2>2. teardown' \in [step : {"none", "nginx", "row"}, doomed : SUBSET Jobs]
    BY <1>3 DEF DeleteDocker
  <2>3. CASE UNCHANGED <<stack, Images, snapshots, jobs, status>>
    BY <1>3, <2>1, <2>2, <2>3 DEF DeleteDocker, TypeOK, Database, Images
  <2>4. CASE /\ AbortRegistered
             /\ stack' = NoStack
             /\ built' = IF Usable(files) THEN NoJob ELSE built
             /\ tags' = TagsWithout(Versions)
             /\ snapshots' = SnapshotsWithout(Names)
    <3>1. /\ tags' \in [Versions -> Jobs \cup {NoJob}]
          /\ snapshots' \in [Names -> Directories]
          /\ stack' \in StackRecords
          /\ built' \in Jobs \cup {NoJob}
      BY <2>4, ArtifactsTyped, NothingTyped DEF TypeOK
    <3>2. jobs' \in [Jobs -> JobRecords] /\ status' \in [Jobs -> Statuses]
      BY <2>4, AbortTyped
    <3> QED
      BY <1>3, <2>1, <2>2, <3>1, <3>2 DEF DeleteDocker, TypeOK, Statuses, Database
  <2> QED
    BY <1>3, <2>3, <2>4 DEF DeleteDocker
<1>4. CASE DeleteNginx
  BY <1>4 DEF DeleteNginx, TypeOK, Ports, Database, Images, Registry
<1>5. CASE DeleteRow
  <2>1. rows' \in [Jobs -> RowRecords]
    BY <1>5, NothingTyped DEF DeleteRow, TypeOK
  <2> QED
    BY <1>5, <2>1, NothingTyped DEF DeleteRow, TypeOK, NoTeardown, Images, Registry
<1>6. CASE Abort
  <2>1. jobs' \in [Jobs -> JobRecords] /\ status' \in [Jobs -> Statuses]
    BY <1>6, AbortTyped DEF Abort
  <2> QED
    BY <1>6, <2>1 DEF Abort, TypeOK, Statuses, Database, Images, Requests
<1>7. CASE Neighbour
  <2>1. neighbours' \subseteq PortRange
    BY <1>7 DEF Neighbour, TypeOK, FreePorts
  <2> QED
    BY <1>7, <2>1 DEF Neighbour, TypeOK, Database, Images, Registry, Requests
<1> QED
  BY <1>1, <1>2, <1>3, <1>4, <1>5, <1>6, <1>7

\* A crash, with the backfill of the start-up after it.
LEMMA CrashTyped ==
  ASSUME TypeOK, Crash
  PROVE  TypeOK'
<1>1. jobs' \in [Jobs -> JobRecords]
  <2>1. ASSUME NEW j \in Jobs
        PROVE  [Unused EXCEPT !.kind = jobs[j].kind, !.pc = "over"] \in JobRecords
    <3>1. jobs[j].kind \in Kinds \cup {"none"}
      BY DEF TypeOK, JobRecords
    <3> QED
      BY <3>1, NothingTyped DEF JobRecords
  <2> QED
    BY <2>1 DEF Crash, TypeOK
<1>2. status' \in [Jobs -> Statuses]
  BY DEF Crash, TypeOK, Statuses
<1>3. CASE Backfills
  <2>1. 1 \in Versions /\ 1 \in Names
    BY <1>3, ComposeAssumption DEF Backfills, Versions, Names
  <2>2. stack.image \in Jobs \cup {NoJob}
    BY DEF TypeOK, StackRecords
  <2>3. tags' \in [Versions -> Jobs \cup {NoJob}]
    BY <1>3, <2>1, <2>2 DEF Crash, TypeOK
  <2>4. [files EXCEPT !.pin = 1] \in Directories
    BY <2>1 DEF TypeOK, Directories
  <2>5. files' \in Directories /\ snapshots' \in [Names -> Directories]
    <3>1. files' = [files EXCEPT !.pin = 1]
      BY <1>3 DEF Crash
    <3>2. snapshots' = [snapshots EXCEPT ![1] = [files EXCEPT !.pin = 1]]
      BY <1>3 DEF Crash
    <3>3. snapshots \in [Names -> Directories]
      BY DEF TypeOK
    <3> QED
      BY <2>1, <2>4, <3>1, <3>2, <3>3
  <2>6. rows' \in [Jobs -> RowRecords]
    <3>1. [version |-> 1, status |-> "active"] \in RowRecords
      BY <2>1 DEF RowRecords
    <3>2. rows' = [rows EXCEPT ![stack.image] = [version |-> 1, status |-> "active"]]
      BY <1>3 DEF Crash
    <3>3. rows \in [Jobs -> RowRecords]
      BY DEF TypeOK
    <3> QED
      BY <3>1, <3>2, <3>3
  <2>7. project' \in ProjectRecords
    BY <1>3, <2>1 DEF Crash, TypeOK, ProjectRecords
  <2> QED
    BY <1>1, <1>2, <2>3, <2>5, <2>6, <2>7 DEF Crash, TypeOK, Statuses, NoTeardown
<1>4. CASE ~Backfills
  BY <1>1, <1>2, <1>4 DEF Crash, TypeOK, Statuses, NoTeardown, Database
<1> QED
  BY <1>3, <1>4

LEMMA InitTyped == Init => TypeOK
<1> SUFFICES ASSUME Init PROVE TypeOK
  OBVIOUS
<1>1. neighbours \subseteq PortRange
  BY DEF Init
<1>2. /\ rows \in [Jobs -> RowRecords]
      /\ snapshots \in [Names -> Directories]
      /\ tags \in [Versions -> Jobs \cup {NoJob}]
      /\ jobs \in [Jobs -> JobRecords]
      /\ status \in [Jobs -> Statuses]
  BY NothingTyped DEF Init, Statuses
<1> QED
  BY <1>1, <1>2, NothingTyped DEF Init, TypeOK, Statuses, NoTeardown, Ports

LEMMA StepTyped ==
  ASSUME TypeOK, [Next]_vars
  PROVE  TypeOK'
<1>1. CASE \E j \in Jobs : Client(j) \/ Thread(j)
  BY <1>1, ProvisioningTyped, LaunchTyped, PhaseTyped, PromotionTyped DEF Client, Thread
<1>2. CASE SetLimit \/ DeleteDocker \/ Handler \/ Abort \/ Neighbour
  BY <1>2, HandlerTyped DEF Handler
<1>3. CASE Crash
  BY <1>3, CrashTyped
<1>4. CASE UNCHANGED vars
  BY <1>4 DEF vars, TypeOK
<1> QED
  BY <1>1, <1>2, <1>3, <1>4 DEF Next

\* Every variable keeps its type, whichever operations overlap and whatever the
\* environment does.
THEOREM TypeCorrect == Spec => []TypeOK
<1>1. Init => TypeOK
  BY InitTyped
<1>2. TypeOK /\ [Next]_vars => TypeOK'
  BY StepTyped
<1> QED
  BY <1>1, <1>2, PTL DEF Spec

-----------------------------------------------------------------------------
(* The service is kept up                                                  *)
(*                                                                         *)
(* ServesUntilSwitch is not inductive: a step of provisioning writes the   *)
(* port a job was given earlier.  PortInv adds that every port given is    *)
(* the first one, which it is as long as other projects take none: the     *)
(* project's own port counts as free when it is provisioned again.         *)

FirstPort == CHOOSE p \in PortRange : \A q \in PortRange : p <= q

\* A job about to write the vhost has been given the first port.
GivenFirst(t) == \A j \in Jobs : t[j].pc = "vhost" => t[j].port = FirstPort

PortInv ==
  /\ TypeOK
  /\ neighbours = {}
  /\ nginx \in {NoPort, FirstPort}
  /\ GivenFirst(jobs)

\* A step that gives a port only to job j, and the first one.
LEMMA GivenKept ==
  ASSUME PortInv, NEW j \in Jobs,
         \A k \in Jobs \ {j} : jobs'[k] = jobs[k],
         jobs'[j].pc # "vhost" \/ jobs'[j].port = FirstPort
  PROVE  GivenFirst(jobs')
BY DEF PortInv, GivenFirst

LEMMA MovedKept ==
  ASSUME PortInv, NEW j \in Jobs,
         \/ Over(j)
         \/ \E pc \in Places \ {"vhost"} : Goto(j, pc)
  PROVE  GivenFirst(jobs')
<1>1. jobs \in [Jobs -> JobRecords]
  BY DEF PortInv, TypeOK
<1>2. \A k \in Jobs \ {j} : jobs'[k] = jobs[k]
  BY <1>1 DEF Over, Goto
<1>3. CASE Over(j)
  <2>1. jobs'[j].pc = "over"
    BY <1>1, <1>3 DEF Over, Unused
  <2> QED
    BY <1>2, <2>1, GivenKept
<1>4. ASSUME NEW pc \in Places \ {"vhost"}, Goto(j, pc)
      PROVE  GivenFirst(jobs')
  <2> DEFINE x == [[jobs[j] EXCEPT !.pc = pc] EXCEPT !.killed = FALSE]
  <2>1. x.pc = pc
    BY <1>1 DEF JobRecords
  <2>2. jobs' = [jobs EXCEPT ![j] = x]
    BY <1>1, <1>4 DEF Goto
  <2> HIDE DEF x
  <2>3. jobs'[j].pc # "vhost"
    BY <1>1, <2>1, <2>2
  <2> QED
    BY <1>2, <2>3, GivenKept
<1> QED
  BY <1>3, <1>4

\* Every step gives first ports only.
LEMMA GivenStep ==
  ASSUME PortInv, [Next]_vars
  PROVE  GivenFirst(jobs')
<1>1. jobs \in [Jobs -> JobRecords] /\ GivenFirst(jobs)
  BY DEF PortInv, TypeOK
<1>2. ASSUME NEW j \in Jobs, Client(j)
      PROVE  GivenFirst(jobs')
  <2>1. \A k \in Jobs \ {j} : jobs'[k] = jobs[k]
    BY <1>1, <1>2
    DEF Client, Upload, LaunchRollback, LaunchRestart, LaunchDown, LaunchRestore
  <2>2. jobs'[j].pc # "vhost"
    <3>1. CASE Upload(j)
      <4>1. \E k \in {"deploy", "git"}, pc \in {"provision", "clone"} :
              jobs' = [jobs EXCEPT ![j] = [Unused EXCEPT !.kind = k, !.pc = pc]]
        BY <3>1 DEF Upload
      <4> QED
        BY <1>1, <4>1 DEF Unused
    <3>2. CASE LaunchRollback(j)
      BY <1>1, <3>2 DEF LaunchRollback, Unused
    <3>3. CASE LaunchRestart(j)
      BY <1>1, <3>3 DEF LaunchRestart, Unused
    <3>4. CASE LaunchDown(j)
      BY <1>1, <3>4 DEF LaunchDown, Unused
    <3>5. CASE LaunchRestore(j)
      BY <1>1, <3>5 DEF LaunchRestore, Unused
    <3> QED
      BY <1>2, <3>1, <3>2, <3>3, <3>4, <3>5 DEF Client
  <2> QED
    BY <2>1, <2>2, GivenKept
<1>3. ASSUME NEW j \in Jobs, Clone(j) \/ SetupNginx(j) \/ RecordPort(j) \/ ProvisionFails(j)
             \/ RejectVhost(j) \/ LockTimeout(j)
      PROVE  GivenFirst(jobs')
  BY <1>3, MovedKept
  DEF Clone, SetupNginx, RecordPort, ProvisionFails, RejectVhost, LockTimeout, Unprovisioned, Places
<1>4. ASSUME NEW j \in Jobs, Provision(j)
      PROVE  GivenFirst(jobs')
  <2>1. \A k \in Jobs \ {j} : jobs'[k] = jobs[k]
    BY <1>1, <1>4 DEF Provision
  <2>2. jobs'[j].port = NextPort
    BY <1>1, <1>4 DEF Provision, JobRecords
  <2>3. NextPort = FirstPort
    BY DEF PortInv, NextPort, FirstPort, FreePorts
  <2> QED
    BY <2>1, <2>2, <2>3, GivenKept
<1>5. ASSUME NEW j \in Jobs, Launch(j) \/ LaunchRefused(j)
      PROVE  GivenFirst(jobs')
  <2>1. CASE Launch(j)
    <3>1. \A k \in Jobs \ {j} : jobs'[k] = jobs[k]
      BY <1>1, <2>1 DEF Launch
    <3>2. jobs'[j].pc # "vhost"
      BY <1>1, <2>1 DEF Launch, JobRecords
    <3> QED
      BY <3>1, <3>2, GivenKept
  <2>2. CASE LaunchRefused(j)
    BY <2>2, MovedKept DEF LaunchRefused
  <2> QED
    BY <1>5, <2>1, <2>2
<1>6. ASSUME NEW j \in Jobs, Build(j) \/ Replace(j) \/ Copy(j) \/ Recover(j) \/ Halt(j)
             \/ Archive(j) \/ Commit(j)
      PROVE  GivenFirst(jobs')
  BY <1>6, MovedKept
  DEF Build, Replace, Copy, Recover, Halt, Archive, Commit, GotoIf, Places
<1>7. ASSUME NEW j \in Jobs, Finish(j) \/ Fail(j) \/ Monitor(j)
      PROVE  GivenFirst(jobs')
  BY <1>7, MovedKept DEF Finish, Fail, Monitor, Finished
<1>8. ASSUME NEW j \in Jobs, Tag(j) \/ Extract(j) \/ Promote(j)
      PROVE  GivenFirst(jobs')
  <2>1. CASE Goto(j, "fail")
    BY <2>1, MovedKept DEF Places
  <2>2. CASE ~Goto(j, "fail")
    <3>1. \A k \in Jobs \ {j} : jobs'[k] = jobs[k]
      BY <1>1, <1>8, <2>2 DEF Tag, Extract, Promote
    <3>2. jobs'[j].pc # "vhost"
      <4>1. CASE Tag(j)
        BY <1>1, <4>1 DEF Tag, JobRecords
      <4>2. CASE Extract(j)
        BY <1>1, <4>2 DEF Extract, JobRecords
      <4>3. CASE Promote(j)
        BY <1>1, <2>2, <4>3 DEF Promote, JobRecords
      <4> QED
        BY <1>8, <4>1, <4>2, <4>3
    <3> QED
      BY <3>1, <3>2, GivenKept
  <2> QED
    BY <2>1, <2>2
<1>9. ASSUME NEW j \in Jobs, Down(j) \/ Up(j)
      PROVE  GivenFirst(jobs')
  <2>1. CASE \E pc \in Places \ {"vhost"} : Goto(j, pc)
    BY <2>1, MovedKept
  <2>2. CASE \E o \in Outcomes :
               jobs' = [jobs EXCEPT ![j].pc = "exited", ![j].killed = FALSE, ![j].outcome = o]
    <3>1. PICK o \in Outcomes :
            jobs' = [jobs EXCEPT ![j].pc = "exited", ![j].killed = FALSE, ![j].outcome = o]
      BY <2>2
    <3>2. \A k \in Jobs \ {j} : jobs'[k] = jobs[k]
      BY <1>1, <3>1
    <3>3. jobs'[j].pc # "vhost"
      BY <1>1, <3>1 DEF JobRecords
    <3> QED
      BY <3>2, <3>3, GivenKept
  <2>3. CASE Down(j)
    BY <2>1, <2>2, <2>3 DEF Down, GotoIf, Places, Outcomes
  <2>4. CASE Up(j)
    BY <2>1, <2>2, <2>4 DEF Up, GotoIf, Places, Outcomes
  <2> QED
    BY <1>9, <2>3, <2>4
<1>10. ASSUME AbortRegistered
       PROVE  GivenFirst(jobs')
  <2>1. CASE UNCHANGED jobs
    BY <1>1, <2>1
  <2>2. ASSUME NEW j \in Jobs, jobs' = [jobs EXCEPT ![j].killed = TRUE]
        PROVE  GivenFirst(jobs')
    <3>1. \A k \in Jobs : jobs'[k].pc = jobs[k].pc /\ jobs'[k].port = jobs[k].port
      BY <1>1, <2>2 DEF JobRecords
    <3> QED
      BY <1>1, <3>1 DEF GivenFirst
  <2> QED
    BY <1>10, <2>1, <2>2 DEF AbortRegistered
<1>11. CASE SetLimit \/ DeleteDocker \/ Handler \/ Abort \/ Neighbour
  BY <1>1, <1>10, <1>11
  DEF SetLimit, DeleteDocker, Handler, EnforceLimit, DeleteNginx, DeleteRow, Abort, Neighbour
<1>12. CASE Crash
  BY <1>1, <1>12 DEF Crash, GivenFirst, InFlight, Unused
<1>13. CASE UNCHANGED vars
  BY <1>1, <1>13 DEF vars
<1> QED
  BY <1>2, <1>3, <1>4, <1>5, <1>6, <1>7, <1>8, <1>9, <1>11, <1>12, <1>13 DEF Next, Thread

LEMMA PortStep ==
  ASSUME PortInv, [Next]_vars, Faults \cap {"neighbours", "vhost"} = {}
  PROVE  PortInv'
<1>1. TypeOK'
  BY StepTyped DEF PortInv
<1>2. GivenFirst(jobs)'
  BY GivenStep DEF GivenFirst
<1>3. neighbours' = {} /\ nginx' \in {NoPort, FirstPort}
  <2>1. ASSUME NEW j \in Jobs, Client(j)
        PROVE  UNCHANGED <<nginx, neighbours>>
    BY <2>1 DEF Client, Upload, LaunchRollback, LaunchRestart, LaunchDown, LaunchRestore
  <2>2. ASSUME NEW j \in Jobs, SetupNginx(j)
        PROVE  neighbours' = {} /\ nginx' = FirstPort
    BY <2>2 DEF SetupNginx, PortInv, GivenFirst
  <2>3. ASSUME NEW j \in Jobs, Thread(j), ~SetupNginx(j)
        PROVE  UNCHANGED <<nginx, neighbours>>
    <3>1. ~RejectVhost(j)
      BY DEF RejectVhost
    <3>2. CASE \/ Clone(j) \/ Provision(j) \/ ProvisionFails(j) \/ RecordPort(j)
               \/ Launch(j) \/ LaunchRefused(j)
      BY <3>2 DEF Clone, Provision, ProvisionFails, RecordPort, Launch, LaunchRefused
    <3>3. CASE \/ Build(j) \/ Tag(j) \/ Down(j) \/ Replace(j) \/ Copy(j) \/ Up(j) \/ Recover(j)
               \/ Halt(j) \/ Extract(j)
      BY <3>3 DEF Build, Tag, Down, Replace, Copy, Up, Recover, Halt, Extract
    <3>4. CASE \/ Promote(j) \/ Archive(j) \/ LockTimeout(j) \/ Commit(j)
               \/ Finish(j) \/ Fail(j) \/ Monitor(j)
      BY <3>4 DEF Promote, Archive, LockTimeout, Commit, Finish, Fail, Monitor
    <3> QED
      BY <2>3, <3>1, <3>2, <3>3, <3>4 DEF Thread
  <2>4. CASE SetLimit \/ DeleteDocker \/ EnforceLimit \/ DeleteRow \/ Abort \/ Crash
    BY <2>4 DEF SetLimit, DeleteDocker, EnforceLimit, DeleteRow, Abort, Crash, PortInv
  <2>5. CASE DeleteNginx
    BY <2>5 DEF DeleteNginx, PortInv
  <2>6. ~Neighbour
    BY DEF Neighbour
  <2>7. CASE UNCHANGED vars
    BY <2>7 DEF vars, PortInv
  <2> QED
    BY <2>1, <2>2, <2>3, <2>4, <2>5, <2>6, <2>7 DEF Next, Handler, PortInv
<1> QED
  BY <1>1, <1>2, <1>3 DEF PortInv

\* A command that takes the stack down, or brings it up, gives its job another place.
LEMMA CommandMoves ==
  ASSUME TypeOK, NEW j \in Jobs, Down(j) \/ Up(j) \/ Recover(j) \/ Halt(j)
  PROVE  jobs[j].pc \in {"down", "up", "recover", "halt"} /\ jobs'[j] # jobs[j]
<1>1. jobs \in [Jobs -> JobRecords]
  BY DEF TypeOK
<1>2. ASSUME NEW pc \in Places, Goto(j, pc)
      PROVE  jobs'[j].pc = pc
  BY <1>1, <1>2 DEF Goto, JobRecords
<1>3. ASSUME NEW o \in Outcomes,
             jobs' = [jobs EXCEPT ![j].pc = "exited", ![j].killed = FALSE, ![j].outcome = o]
      PROVE  jobs'[j].pc = "exited"
  BY <1>1, <1>3 DEF JobRecords
<1>4. CASE Down(j)
  <2>1. jobs'[j].pc \in {"replace", "up", "fail", "exited"}
    BY <1>2, <1>3, <1>4 DEF Down, GotoIf, Places, Outcomes
  <2> QED
    BY <1>4, <2>1 DEF Down
<1>5. CASE Up(j)
  <2>1. jobs'[j].pc \in {"promote", "recover", "fail", "finish", "exited"}
    BY <1>2, <1>3, <1>5 DEF Up, GotoIf, Places, Outcomes
  <2> QED
    BY <1>5, <2>1 DEF Up
<1>6. CASE Recover(j)
  <2>1. jobs'[j].pc = "fail"
    BY <1>2, <1>6 DEF Recover, Places
  <2> QED
    BY <1>6, <2>1 DEF Recover
<1>7. CASE Halt(j)
  <2>1. jobs'[j].pc \in {"extract", "fail"}
    BY <1>2, <1>7 DEF Halt, GotoIf, Places
  <2> QED
    BY <1>7, <2>1 DEF Halt
<1> QED
  BY <1>4, <1>5, <1>6, <1>7

\* What a step of a served project leaves.
LEMMA ServedStep ==
  ASSUME PortInv, [Next]_vars, Faults \cap {"neighbours", "vhost"} = {}
  PROVE  StaysServed
<1> SUFFICES ASSUME Served
             PROVE  \/ Served'
                    \/ \E j \in Jobs : /\ jobs[j].pc \in {"down", "up", "recover", "halt"}
                                       /\ jobs'[j] # jobs[j]
                    \/ teardown' # teardown
  BY DEF StaysServed
<1>1. CASE UNCHANGED <<nginx, stack>>
  BY <1>1 DEF Served
<1>2. ASSUME NEW j \in Jobs, Client(j)
      PROVE  UNCHANGED <<nginx, stack>>
  BY <1>2 DEF Client, Upload, LaunchRollback, LaunchRestart, LaunchDown, LaunchRestore
<1>3. ASSUME NEW j \in Jobs, SetupNginx(j)
      PROVE  UNCHANGED <<nginx, stack>>
  BY <1>3 DEF SetupNginx, PortInv, GivenFirst, Served
<1>4. ASSUME NEW j \in Jobs, Thread(j), ~SetupNginx(j),
             ~ (Down(j) \/ Up(j) \/ Recover(j) \/ Halt(j))
      PROVE  UNCHANGED <<nginx, stack>>
  <2>1. ~RejectVhost(j)
    BY DEF RejectVhost
  <2>2. CASE \/ Clone(j) \/ Provision(j) \/ ProvisionFails(j) \/ RecordPort(j)
             \/ Launch(j) \/ LaunchRefused(j)
    BY <2>2 DEF Clone, Provision, ProvisionFails, RecordPort, Launch, LaunchRefused
  <2>3. CASE Build(j) \/ Tag(j) \/ Replace(j) \/ Copy(j) \/ Extract(j)
    BY <2>3 DEF Build, Tag, Replace, Copy, Extract
  <2>4. CASE \/ Promote(j) \/ Archive(j) \/ LockTimeout(j) \/ Commit(j)
             \/ Finish(j) \/ Fail(j) \/ Monitor(j)
    BY <2>4 DEF Promote, Archive, LockTimeout, Commit, Finish, Fail, Monitor
  <2> QED
    BY <1>4, <2>1, <2>2, <2>3, <2>4 DEF Thread
<1>5. CASE SetLimit \/ EnforceLimit \/ DeleteRow \/ Abort \/ Crash
  BY <1>5, <1>1 DEF SetLimit, EnforceLimit, DeleteRow, Abort, Crash
<1>6. CASE DeleteDocker \/ DeleteNginx
  <2>1. teardown.step # teardown'.step
    BY <1>6 DEF DeleteDocker, DeleteNginx, NoTeardown, PortInv, TypeOK
  <2> QED
    BY <2>1
<1>7. ~Neighbour
  BY DEF Neighbour
<1>8. CASE UNCHANGED vars
  BY <1>1, <1>8 DEF vars
<1>9. TypeOK
  BY DEF PortInv
<1> QED
  BY <1>1, <1>2, <1>3, <1>4, <1>5, <1>6, <1>7, <1>8, <1>9, CommandMoves DEF Next, Handler

\* While other projects take no port and nginx takes what it is given, only the commands
\* that are meant to take the stack down, and a delete, end the service: an upload, a
\* build, an aborted or refused request and a crash never do, whichever operations overlap.
THEOREM ServiceKeptUp ==
  Faults \cap {"neighbours", "vhost"} = {} /\ Spec => ServesUntilSwitch
<1> SUFFICES ASSUME Faults \cap {"neighbours", "vhost"} = {}
             PROVE  Spec => ServesUntilSwitch
  OBVIOUS
<1>1. Init => PortInv
  BY InitTyped DEF Init, PortInv, GivenFirst, Unused
<1>2. PortInv /\ [Next]_vars => PortInv'
  BY PortStep
<1>3. PortInv /\ [Next]_vars => [StaysServed]_vars
  BY ServedStep
<1> QED
  BY <1>1, <1>2, <1>3, PTL DEF Spec, ServesUntilSwitch

-----------------------------------------------------------------------------
(* How a job moves                                                          *)

\* The places a job of kind k at place a can go to.
NextPlaces(k, a) ==
  CASE a = "clone" -> {"provision", "over"}
    [] a = "provision" -> {"vhost"} \cup (IF k = "rollback" THEN {"fail"} ELSE {"over"})
    [] a = "vhost" -> {"record"} \cup (IF k = "rollback" THEN {"fail"} ELSE {"over"})
    [] a = "record" -> IF k = "rollback" THEN {"up"} ELSE {"launch"}
    [] a = "launch" -> {"build", "over"}
    [] a = "build" -> {"tag", "fail"}
    [] a = "tag" -> {"down", "fail"}
    [] a = "down" -> IF k \in Deploys THEN {"up", "fail"}
                     ELSE IF k = "rollback" THEN {"replace", "fail"} ELSE {"exited"}
    [] a = "replace" -> {"copy"}
    [] a = "copy" -> {"provision", "fail"}
    [] a = "up" -> IF k \in Deploys THEN {"promote", "recover", "fail"}
                   ELSE IF k = "rollback" THEN {"promote", "fail"}
                   ELSE IF k = "restore" THEN {"finish", "fail"} ELSE {"exited"}
    [] a = "recover" -> {"fail"}
    [] a = "halt" -> {"extract", "fail"}
    [] a = "extract" -> {"up"}
    [] a = "promote" -> {"archive", "fail"}
    [] a = "archive" -> {"commit", "fail"}
    [] a = "commit" -> {"finish"}
    [] OTHER -> {"over"}

\* What a job takes along, except where it is set.
Carries(j) ==
  /\ jobs[j].pc # "launch" => jobs'[j].version = jobs[j].version
  /\ jobs[j].pc # "provision" => jobs'[j].port = jobs[j].port
  /\ jobs[j].pc # "promote" => jobs'[j].counter = jobs[j].counter /\ jobs'[j].limit = jobs[j].limit
  /\ jobs[j].pc # "tag" => jobs'[j].tagged = jobs[j].tagged
  /\ jobs[j].pc \notin {"launch", "extract"} => jobs'[j].pinned = jobs[j].pinned
  /\ jobs[j].pc \in {"archive", "commit"} => jobs'[j].outcome = jobs[j].outcome

\* A step of job j alone.
Moves(j) ==
  /\ InFlight(j)
  /\ \A i \in Jobs \ {j} : jobs'[i] = jobs[i]
  /\ UNCHANGED <<pruneDue, teardown>>
  /\ jobs'[j].kind = jobs[j].kind
  /\ jobs'[j].pc \in NextPlaces(jobs[j].kind, jobs[j].pc)
  /\ jobs'[j].pc # "over" => Carries(j)

\* A job that only goes somewhere else, or ends.
LEMMA GotoMoves ==
  ASSUME TypeOK, NEW j \in Jobs, NEW pc \in Places, Goto(j, pc), InFlight(j),
         UNCHANGED <<pruneDue, teardown>>, pc \in NextPlaces(jobs[j].kind, jobs[j].pc)
  PROVE  Moves(j) /\ jobs'[j].pc = pc /\ jobs'[j].outcome = jobs[j].outcome
<1>1. jobs \in [Jobs -> JobRecords]
  BY DEF TypeOK
<1>2. \A x \in JobRecords :
        LET y == [x EXCEPT !.pc = pc, !.killed = FALSE] IN
        /\ y.pc = pc /\ y.kind = x.kind /\ y.version = x.version /\ y.port = x.port
        /\ y.counter = x.counter /\ y.limit = x.limit /\ y.tagged = x.tagged
        /\ y.pinned = x.pinned /\ y.outcome = x.outcome
  BY DEF JobRecords
<1>3. jobs'[j] = [jobs[j] EXCEPT !.pc = pc, !.killed = FALSE]
      /\ \A i \in Jobs \ {j} : jobs'[i] = jobs[i]
  BY <1>1 DEF Goto
<1>4. /\ jobs'[j].pc = pc /\ jobs'[j].kind = jobs[j].kind /\ jobs'[j].version = jobs[j].version
      /\ jobs'[j].port = jobs[j].port /\ jobs'[j].counter = jobs[j].counter
      /\ jobs'[j].limit = jobs[j].limit /\ jobs'[j].tagged = jobs[j].tagged
      /\ jobs'[j].pinned = jobs[j].pinned /\ jobs'[j].outcome = jobs[j].outcome
  BY <1>1, <1>2, <1>3
<1> QED
  BY <1>3, <1>4 DEF Moves, Carries

\* A job that is over keeps its kind only.
LEMMA OverIs ==
  ASSUME TypeOK, NEW j \in Jobs, Over(j)
  PROVE  jobs'[j].pc = "over" /\ jobs'[j].kind = jobs[j].kind
<1>1. jobs'[j] = [Unused EXCEPT !.kind = jobs[j].kind, !.pc = "over"]
  BY DEF Over, TypeOK
<1> QED
  BY <1>1 DEF Unused

\* A job that is over has moved like any other.
LEMMA OverMoves ==
  ASSUME TypeOK, NEW j \in Jobs, Over(j), InFlight(j), UNCHANGED <<pruneDue, teardown>>,
         "over" \in NextPlaces(jobs[j].kind, jobs[j].pc)
  PROVE  Moves(j) /\ jobs'[j].pc = "over"
<1>1. jobs \in [Jobs -> JobRecords]
  BY DEF TypeOK
<1>2. jobs'[j].pc = "over" /\ jobs'[j].kind = jobs[j].kind
      /\ \A i \in Jobs \ {j} : jobs'[i] = jobs[i]
  BY <1>1 DEF Over, Unused
<1> QED
  BY <1>2 DEF Moves

\* The steps of uploads, git deploys and provisionings.
LEMMA ProvisioningMoves ==
  ASSUME TypeOK, NEW j \in Jobs,
         \/ Clone(j) \/ Provision(j) \/ ProvisionFails(j) \/ SetupNginx(j) \/ RecordPort(j)
         \/ RejectVhost(j) \/ Launch(j) \/ LaunchRefused(j)
  PROVE  Moves(j)
<1>0. /\ jobs \in [Jobs -> JobRecords]
      /\ \A i \in Jobs : jobs[i].pc \in Places /\ jobs[i].kind \in Kinds \cup {"none"}
  BY DEF TypeOK, JobRecords, Places
<1>1. CASE Clone(j)
  BY <1>1, GotoMoves, OverMoves, Zenon DEF Clone, Requests, InFlight, NextPlaces, Places
<1>2. CASE Provision(j)
  <2>1. \A x \in JobRecords, p \in Ports :
          LET y == [x EXCEPT !.pc = "vhost", !.port = p] IN
          /\ y.pc = "vhost" /\ y.kind = x.kind /\ y.version = x.version
          /\ y.counter = x.counter /\ y.limit = x.limit /\ y.tagged = x.tagged
          /\ y.pinned = x.pinned /\ y.outcome = x.outcome
    BY DEF JobRecords
  <2>2. NextPort \in Ports
    BY <1>2, NextPortIsFree DEF Provision, FreePorts, Ports
  <2>3. jobs'[j] = [jobs[j] EXCEPT !.pc = "vhost", !.port = NextPort]
        /\ \A i \in Jobs \ {j} : jobs'[i] = jobs[i]
    BY <1>0, <1>2 DEF Provision
  <2>4. /\ jobs'[j].pc = "vhost" /\ jobs'[j].kind = jobs[j].kind
        /\ jobs'[j].version = jobs[j].version /\ jobs'[j].counter = jobs[j].counter
        /\ jobs'[j].limit = jobs[j].limit /\ jobs'[j].tagged = jobs[j].tagged
        /\ jobs'[j].pinned = jobs[j].pinned /\ jobs'[j].outcome = jobs[j].outcome
    BY <1>0, <2>1, <2>2, <2>3
  <2>5. jobs[j].pc = "provision" /\ UNCHANGED <<pruneDue, teardown>>
    BY <1>2 DEF Provision, Requests
  <2> QED
    BY <2>3, <2>4, <2>5 DEF Moves, Carries, InFlight, NextPlaces
<1>3. ASSUME Unprovisioned(j), jobs[j].pc \in {"provision", "vhost"},
             UNCHANGED <<pruneDue, teardown>>
      PROVE  Moves(j)
  <2>1. CASE jobs[j].kind = "rollback"
    BY <1>3, <2>1, GotoMoves, Zenon DEF Unprovisioned, InFlight, NextPlaces, Places
  <2>2. CASE jobs[j].kind # "rollback"
    BY <1>3, <2>2, OverMoves DEF Unprovisioned, InFlight, NextPlaces
  <2> QED
    BY <2>1, <2>2
<1>4. CASE ProvisionFails(j)
  BY <1>3, <1>4 DEF ProvisionFails, Requests
<1>5. CASE RejectVhost(j)
  BY <1>3, <1>5 DEF RejectVhost, Requests
<1>6. CASE SetupNginx(j)
  BY <1>6, GotoMoves, Zenon DEF SetupNginx, Requests, InFlight, NextPlaces, Places
<1>7. CASE RecordPort(j)
  BY <1>7, GotoMoves, Zenon DEF RecordPort, Requests, InFlight, NextPlaces, Places
<1>8. CASE Launch(j)
  <2>1. PICK n, m : jobs' = [jobs EXCEPT ![j].pc = "build", ![j].version = n,
                               ![j].pinned = TRUE, ![j].previous = m]
    BY <1>8 DEF Launch
  <2>2. \A x \in JobRecords :
          LET y == [x EXCEPT !.pc = "build", !.version = n, !.pinned = TRUE, !.previous = m] IN
          /\ y.pc = "build" /\ y.kind = x.kind /\ y.port = x.port
          /\ y.counter = x.counter /\ y.limit = x.limit /\ y.tagged = x.tagged
          /\ y.outcome = x.outcome
    BY DEF JobRecords
  <2>3. jobs'[j] = [jobs[j] EXCEPT !.pc = "build", !.version = n, !.pinned = TRUE,
                                   !.previous = m]
        /\ \A i \in Jobs \ {j} : jobs'[i] = jobs[i]
    BY <1>0, <2>1
  <2>4. /\ jobs'[j].pc = "build" /\ jobs'[j].kind = jobs[j].kind
        /\ jobs'[j].port = jobs[j].port /\ jobs'[j].counter = jobs[j].counter
        /\ jobs'[j].limit = jobs[j].limit /\ jobs'[j].tagged = jobs[j].tagged
        /\ jobs'[j].outcome = jobs[j].outcome
    BY <1>0, <2>2, <2>3
  <2>5. jobs[j].pc = "launch" /\ UNCHANGED <<pruneDue, teardown>>
    BY <1>8 DEF Launch, Requests
  <2> QED
    BY <2>3, <2>4, <2>5 DEF Moves, Carries, InFlight, NextPlaces
<1>9. CASE LaunchRefused(j)
  BY <1>9, OverMoves DEF LaunchRefused, Requests, InFlight, NextPlaces
<1> QED
  BY <1>1, <1>2, <1>4, <1>5, <1>6, <1>7, <1>8, <1>9

\* Its command has ended with an outcome, at one of the last two places.
LEMMA ExitMoves ==
  ASSUME TypeOK, NEW j \in Jobs, NEW o,
         jobs' = [jobs EXCEPT ![j].pc = "exited", ![j].killed = FALSE, ![j].outcome = o],
         jobs[j].pc \in {"down", "up"}, UNCHANGED <<pruneDue, teardown>>,
         "exited" \in NextPlaces(jobs[j].kind, jobs[j].pc)
  PROVE  Moves(j) /\ jobs'[j].pc = "exited" /\ jobs'[j].outcome = o
<1>1. jobs \in [Jobs -> JobRecords]
  BY DEF TypeOK
<1>2. \A x \in JobRecords :
        LET y == [x EXCEPT !.pc = "exited", !.killed = FALSE, !.outcome = o] IN
        /\ y.pc = "exited" /\ y.kind = x.kind /\ y.version = x.version /\ y.port = x.port
        /\ y.counter = x.counter /\ y.limit = x.limit /\ y.tagged = x.tagged
        /\ y.pinned = x.pinned /\ y.outcome = o
  BY DEF JobRecords
<1>3. jobs'[j] = [jobs[j] EXCEPT !.pc = "exited", !.killed = FALSE, !.outcome = o]
      /\ \A i \in Jobs \ {j} : jobs'[i] = jobs[i]
  BY <1>1
<1>4. /\ jobs'[j].pc = "exited" /\ jobs'[j].kind = jobs[j].kind
      /\ jobs'[j].version = jobs[j].version /\ jobs'[j].port = jobs[j].port
      /\ jobs'[j].counter = jobs[j].counter /\ jobs'[j].limit = jobs[j].limit
      /\ jobs'[j].tagged = jobs[j].tagged /\ jobs'[j].pinned = jobs[j].pinned
      /\ jobs'[j].outcome = o
  BY <1>1, <1>2, <1>3
<1> QED
  BY <1>3, <1>4 DEF Moves, Carries, InFlight

\* The phases.
LEMMA PhaseMoves ==
  ASSUME TypeOK, NEW j \in Jobs,
         \/ Build(j) \/ Tag(j) \/ Down(j) \/ Replace(j) \/ Copy(j) \/ Up(j) \/ Recover(j)
         \/ Halt(j) \/ Extract(j)
  PROVE  Moves(j)
<1>0. jobs \in [Jobs -> JobRecords]
  BY DEF TypeOK
<1>1. CASE Build(j) \/ Replace(j) \/ Copy(j) \/ Recover(j) \/ Halt(j)
  BY <1>1, GotoMoves, Zenon
  DEF Build, Replace, Copy, Recover, Halt, GotoIf, Requests, InFlight, NextPlaces, Places
<1>2. CASE Tag(j)
  <2>1. PICK pc \in {"down", "fail"}, b \in BOOLEAN :
          jobs' = [jobs EXCEPT ![j].pc = pc, ![j].tagged = b]
    <3>1. CASE jobs' = [jobs EXCEPT ![j].pc = IF Aborted THEN "fail" ELSE "down",
                                    ![j].tagged = TRUE]
      BY <3>1
    <3>2. CASE jobs' = [jobs EXCEPT ![j].pc = "fail",
                                    ![j].tagged = (built # NoJob /\ files.source = NoJob)]
      BY <3>2
    <3> QED
      BY <1>2, <3>1, <3>2 DEF Tag
  <2>2. \A x \in JobRecords :
          LET y == [x EXCEPT !.pc = pc, !.tagged = b] IN
          /\ y.pc = pc /\ y.kind = x.kind /\ y.version = x.version /\ y.port = x.port
          /\ y.counter = x.counter /\ y.limit = x.limit /\ y.pinned = x.pinned
          /\ y.outcome = x.outcome
    BY DEF JobRecords
  <2>3. jobs'[j] = [jobs[j] EXCEPT !.pc = pc, !.tagged = b]
        /\ \A i \in Jobs \ {j} : jobs'[i] = jobs[i]
    BY <1>0, <2>1
  <2>4. /\ jobs'[j].pc = pc /\ jobs'[j].kind = jobs[j].kind
        /\ jobs'[j].version = jobs[j].version /\ jobs'[j].port = jobs[j].port
        /\ jobs'[j].counter = jobs[j].counter /\ jobs'[j].limit = jobs[j].limit
        /\ jobs'[j].pinned = jobs[j].pinned /\ jobs'[j].outcome = jobs[j].outcome
    BY <1>0, <2>2, <2>3
  <2>5. jobs[j].pc = "tag" /\ UNCHANGED <<pruneDue, teardown>>
    BY <1>2 DEF Tag, Requests
  <2> QED
    BY <2>1, <2>3, <2>4, <2>5 DEF Moves, Carries, InFlight, NextPlaces
<1>3. CASE Down(j)
  <2>1. jobs[j].pc = "down" /\ UNCHANGED <<pruneDue, teardown>>
    BY <1>3 DEF Down, Requests
  <2>2. CASE \E pc \in Places : Goto(j, pc) /\ pc \in NextPlaces(jobs[j].kind, "down")
    BY <2>1, <2>2, GotoMoves DEF InFlight
  <2>3. CASE /\ "exited" \in NextPlaces(jobs[j].kind, "down")
             /\ \E o : jobs' = [jobs EXCEPT ![j].pc = "exited", ![j].killed = FALSE,
                                            ![j].outcome = o]
    BY <2>1, <2>3, ExitMoves
  <2> QED
    BY <1>3, <2>2, <2>3 DEF Down, GotoIf, NextPlaces, Places, Deploys
<1>4. CASE Up(j)
  <2>1. jobs[j].pc = "up" /\ UNCHANGED <<pruneDue, teardown>>
    BY <1>4 DEF Up, Requests
  <2>2. CASE \E pc \in Places : Goto(j, pc) /\ pc \in NextPlaces(jobs[j].kind, "up")
    BY <2>1, <2>2, GotoMoves DEF InFlight
  <2>3. CASE /\ "exited" \in NextPlaces(jobs[j].kind, "up")
             /\ \E o : jobs' = [jobs EXCEPT ![j].pc = "exited", ![j].killed = FALSE,
                                            ![j].outcome = o]
    BY <2>1, <2>3, ExitMoves
  <2> QED
    BY <1>4, <2>2, <2>3 DEF Up, GotoIf, NextPlaces, Places, Deploys
<1>5. CASE Extract(j)
  <2>1. PICK o, b : jobs' = [jobs EXCEPT ![j].pc = "up", ![j].killed = FALSE,
                               ![j].outcome = o, ![j].pinned = b]
    BY <1>5 DEF Extract
  <2>2. \A x \in JobRecords :
          LET y == [x EXCEPT !.pc = "up", !.killed = FALSE, !.outcome = o, !.pinned = b] IN
          /\ y.pc = "up" /\ y.kind = x.kind /\ y.version = x.version /\ y.port = x.port
          /\ y.counter = x.counter /\ y.limit = x.limit /\ y.tagged = x.tagged
    BY DEF JobRecords
  <2>3. jobs'[j] = [jobs[j] EXCEPT !.pc = "up", !.killed = FALSE, !.outcome = o, !.pinned = b]
        /\ \A i \in Jobs \ {j} : jobs'[i] = jobs[i]
    BY <1>0, <2>1
  <2>4. /\ jobs'[j].pc = "up" /\ jobs'[j].kind = jobs[j].kind
        /\ jobs'[j].version = jobs[j].version /\ jobs'[j].port = jobs[j].port
        /\ jobs'[j].counter = jobs[j].counter /\ jobs'[j].limit = jobs[j].limit
        /\ jobs'[j].tagged = jobs[j].tagged
    BY <1>0, <2>2, <2>3
  <2>5. jobs[j].pc = "extract" /\ UNCHANGED <<pruneDue, teardown>>
    BY <1>5 DEF Extract, Requests
  <2> QED
    BY <2>3, <2>4, <2>5 DEF Moves, Carries, InFlight, NextPlaces
<1> QED
  BY <1>1, <1>2, <1>3, <1>4, <1>5

\* Promotions, and the ends of jobs.
LEMMA PromotionMoves ==
  ASSUME TypeOK, NEW j \in Jobs,
         \/ Promote(j) \/ Archive(j) \/ LockTimeout(j) \/ Commit(j)
         \/ Finish(j) \/ Fail(j) \/ Monitor(j)
  PROVE  Moves(j)
<1>0. jobs \in [Jobs -> JobRecords]
  BY DEF TypeOK
<1>1. CASE Promote(j)
  <2>1. jobs[j].pc = "promote" /\ UNCHANGED <<pruneDue, teardown>>
    BY <1>1 DEF Promote, Requests
  <2>2. CASE Goto(j, "fail")
    BY <2>1, <2>2, GotoMoves, Zenon DEF InFlight, NextPlaces, Places
  <2>3. CASE \E c, l, o : jobs' = [jobs EXCEPT ![j].pc = "archive", ![j].counter = c,
                                               ![j].limit = l, ![j].outcome = o]
    <3>1. PICK c, l, o : jobs' = [jobs EXCEPT ![j].pc = "archive", ![j].counter = c,
                                              ![j].limit = l, ![j].outcome = o]
      BY <2>3
    <3>2. \A x \in JobRecords :
            LET y == [x EXCEPT !.pc = "archive", !.counter = c, !.limit = l, !.outcome = o] IN
            /\ y.pc = "archive" /\ y.kind = x.kind /\ y.version = x.version
            /\ y.port = x.port /\ y.tagged = x.tagged /\ y.pinned = x.pinned
      BY DEF JobRecords
    <3>3. jobs'[j] = [jobs[j] EXCEPT !.pc = "archive", !.counter = c, !.limit = l,
                                     !.outcome = o]
          /\ \A i \in Jobs \ {j} : jobs'[i] = jobs[i]
      BY <1>0, <3>1
    <3>4. /\ jobs'[j].pc = "archive" /\ jobs'[j].kind = jobs[j].kind
          /\ jobs'[j].version = jobs[j].version /\ jobs'[j].port = jobs[j].port
          /\ jobs'[j].tagged = jobs[j].tagged /\ jobs'[j].pinned = jobs[j].pinned
      BY <1>0, <3>2, <3>3
    <3> QED
      BY <2>1, <3>3, <3>4 DEF Moves, Carries, InFlight, NextPlaces
  <2>4. CASE jobs' = [jobs EXCEPT ![j].pc = "archive", ![j].counter = project.counter,
                        ![j].limit = project.limit,
                        ![j].outcome = IF stack.state = "up" THEN "ok" ELSE "failed"]
    <3>1. \E o : o = IF stack.state = "up" THEN "ok" ELSE "failed"
      OBVIOUS
    <3>2. PICK o : o = IF stack.state = "up" THEN "ok" ELSE "failed"
      BY <3>1
    <3>3. jobs' = [jobs EXCEPT ![j].pc = "archive", ![j].counter = project.counter,
                               ![j].limit = project.limit, ![j].outcome = o]
      BY <2>4, <3>2
    <3> QED
      BY <2>3, <3>3, Zenon
  <2> QED
    BY <1>1, <2>2, <2>4 DEF Promote
<1>2. CASE Archive(j)
  BY <1>2, GotoMoves, Zenon DEF Archive, Requests, InFlight, NextPlaces, Places
<1>3. CASE LockTimeout(j)
  <2>1. UNCHANGED <<pruneDue, teardown>> /\ jobs[j].pc \in {"archive", "provision"}
    BY <1>3 DEF LockTimeout, Requests
  <2>2. CASE Goto(j, "fail") /\ "fail" \in NextPlaces(jobs[j].kind, jobs[j].pc)
    BY <2>1, <2>2, GotoMoves DEF InFlight, Places
  <2>3. CASE Over(j) /\ "over" \in NextPlaces(jobs[j].kind, jobs[j].pc)
    BY <2>1, <2>3, OverMoves DEF InFlight
  <2> QED
    BY <1>3, <2>2, <2>3 DEF LockTimeout, Unprovisioned, NextPlaces
<1>4. CASE Commit(j)
  BY <1>4, GotoMoves, Zenon DEF Commit, Requests, InFlight, NextPlaces, Places
<1>5. CASE Finish(j) \/ Fail(j)
  BY <1>5, OverMoves DEF Finish, Fail, Finished, Requests, InFlight, NextPlaces
<1>6. CASE Monitor(j)
  BY <1>6, OverMoves DEF Monitor, Requests, InFlight, NextPlaces
<1> QED
  BY <1>1, <1>2, <1>3, <1>4, <1>5, <1>6

\* Every step of a thread is a move of its job alone.
LEMMA ThreadMoves ==
  ASSUME TypeOK, NEW j \in Jobs, Thread(j)
  PROVE  Moves(j)
BY ProvisioningMoves, PhaseMoves, PromotionMoves DEF Thread

\* Where jobs of each kind begin.
Starts(j) ==
  /\ Idle /\ IsNext(j) /\ jobs[j].pc = "unused"
  /\ \A i \in Jobs \ {j} : jobs'[i] = jobs[i]
  /\ UNCHANGED <<pruneDue, teardown>>
  /\ ~jobs'[j].tagged
  /\ \/ jobs'[j].kind = "deploy" /\ jobs'[j].pc = "provision"
     \/ jobs'[j].kind = "git" /\ jobs'[j].pc = "clone"
     \/ jobs'[j].kind = "rollback" /\ jobs'[j].pc = "down"
     \/ jobs'[j].kind = "restart" /\ jobs'[j].pc = "up"
     \/ jobs'[j].kind = "down" /\ jobs'[j].pc = "down"
     \/ jobs'[j].kind = "restore" /\ jobs'[j].pc = "halt"

\* Without overlaps, a job is launched when all is idle.
LEMMA ClientStarts ==
  ASSUME TypeOK, Overlap = {}, NEW j \in Jobs, Client(j)
  PROVE  Starts(j)
<1>0. jobs \in [Jobs -> JobRecords]
  BY DEF TypeOK
<1>1. Idle /\ IsNext(j) /\ UNCHANGED <<pruneDue, teardown>>
  BY DEF Client, Upload, LaunchRollback, LaunchRestart, LaunchDown, LaunchRestore, Admits,
         Requests
<1>2. jobs[j].pc = "unused"
  <2>1. j \in Nat /\ j >= j
    BY ComposeAssumption DEF Jobs
  <2> QED
    BY <1>1, <2>1 DEF IsNext
<1>3. CASE Upload(j)
  <2>1. \/ jobs' = [jobs EXCEPT ![j] = [Unused EXCEPT !.kind = "deploy", !.pc = "provision"]]
        \/ jobs' = [jobs EXCEPT ![j] = [Unused EXCEPT !.kind = "git", !.pc = "clone"]]
    BY <1>3 DEF Upload
  <2>2. CASE jobs' = [jobs EXCEPT ![j] = [Unused EXCEPT !.kind = "deploy", !.pc = "provision"]]
    BY <1>0, <1>1, <1>2, <2>2 DEF Starts, Unused
  <2>3. CASE jobs' = [jobs EXCEPT ![j] = [Unused EXCEPT !.kind = "git", !.pc = "clone"]]
    BY <1>0, <1>1, <1>2, <2>3 DEF Starts, Unused
  <2> QED
    BY <2>1, <2>2, <2>3
<1>4. CASE LaunchRollback(j)
  <2>1. PICK n : jobs' = [jobs EXCEPT ![j] = [Unused EXCEPT !.kind = "rollback", !.pc = "down",
                                               !.version = n, !.pinned = TRUE]]
    BY <1>4 DEF LaunchRollback
  <2> QED
    BY <1>0, <1>1, <1>2, <2>1 DEF Starts, Unused
<1>5. CASE LaunchRestart(j)
  BY <1>0, <1>1, <1>2, <1>5 DEF LaunchRestart, Starts, Unused
<1>6. CASE LaunchDown(j)
  BY <1>0, <1>1, <1>2, <1>6 DEF LaunchDown, Starts, Unused
<1>7. CASE LaunchRestore(j)
  BY <1>0, <1>1, <1>2, <1>7 DEF LaunchRestore, Starts, Unused
<1> QED
  BY <1>3, <1>4, <1>5, <1>6, <1>7 DEF Client

\* A step that leaves every job where it is: it may terminate a command.
Stays ==
  \A i \in Jobs :
    /\ jobs'[i].pc = jobs[i].pc /\ jobs'[i].kind = jobs[i].kind
    /\ jobs'[i].version = jobs[i].version /\ jobs'[i].port = jobs[i].port
    /\ jobs'[i].counter = jobs[i].counter /\ jobs'[i].limit = jobs[i].limit
    /\ jobs'[i].tagged = jobs[i].tagged /\ jobs'[i].pinned = jobs[i].pinned
    /\ jobs'[i].outcome = jobs[i].outcome

\* An abort leaves every job where it is.
LEMMA AbortStays ==
  ASSUME TypeOK, AbortRegistered
  PROVE  Stays
<1>0. jobs \in [Jobs -> JobRecords]
  BY DEF TypeOK
<1>1. CASE UNCHANGED jobs
  BY <1>1 DEF Stays
<1>2. CASE \E j \in Jobs : jobs' = [jobs EXCEPT ![j].killed = TRUE]
  <2>1. PICK j \in Jobs : jobs' = [jobs EXCEPT ![j].killed = TRUE]
    BY <1>2
  <2>2. \A x \in JobRecords :
          LET y == [x EXCEPT !.killed = TRUE] IN
          /\ y.pc = x.pc /\ y.kind = x.kind /\ y.version = x.version
          /\ y.port = x.port /\ y.counter = x.counter /\ y.limit = x.limit
          /\ y.tagged = x.tagged /\ y.pinned = x.pinned /\ y.outcome = x.outcome
    BY DEF JobRecords
  <2>3. \A i \in Jobs : jobs'[i] \in {jobs[i], [jobs[i] EXCEPT !.killed = TRUE]}
    BY <1>0, <2>1
  <2>4. ASSUME NEW i \in Jobs
        PROVE  /\ jobs'[i].pc = jobs[i].pc /\ jobs'[i].kind = jobs[i].kind
               /\ jobs'[i].version = jobs[i].version /\ jobs'[i].port = jobs[i].port
               /\ jobs'[i].counter = jobs[i].counter /\ jobs'[i].limit = jobs[i].limit
               /\ jobs'[i].tagged = jobs[i].tagged /\ jobs'[i].pinned = jobs[i].pinned
               /\ jobs'[i].outcome = jobs[i].outcome
    <3>1. jobs[i] \in JobRecords
      BY <1>0
    <3> QED
      BY <2>2, <2>3, <3>1
  <2> QED
    BY <2>4 DEF Stays
<1> QED
  BY <1>1, <1>2 DEF AbortRegistered

\* Every other step leaves every job where it is, but for a crash.
LEMMA OthersStay ==
  ASSUME TypeOK, SetLimit \/ DeleteDocker \/ Handler \/ Abort \/ Neighbour
  PROVE  Stays
<1>1. CASE AbortRegistered
  BY <1>1, AbortStays
<1>2. CASE UNCHANGED jobs
  BY <1>2 DEF Stays
<1> QED
  BY <1>1, <1>2 DEF SetLimit, DeleteDocker, Handler, EnforceLimit, DeleteNginx, DeleteRow,
                    Abort, Neighbour

\* A crash ends every job that is in flight.
LEMMA CrashEnds ==
  ASSUME TypeOK, Crash
  PROVE  /\ \A i \in Jobs : jobs'[i].kind = jobs[i].kind
         /\ \A i \in Jobs : jobs'[i].pc = IF InFlight(i) THEN "over" ELSE jobs[i].pc
         /\ pruneDue' = FALSE /\ teardown' = NoTeardown
<1>0. jobs \in [Jobs -> JobRecords]
  BY DEF TypeOK
<1>1. \A i \in Jobs : jobs'[i] = IF InFlight(i) THEN [Unused EXCEPT !.kind = jobs[i].kind,
                                                                    !.pc = "over"]
                                 ELSE jobs[i]
  BY DEF Crash
<1> QED
  BY <1>0, <1>1 DEF Crash, Unused

-----------------------------------------------------------------------------
(* Without overlaps, one operation at a time                                *)

\* No two jobs are in flight, and none while a limit is enforced or the project deleted.
OneOperation ==
  /\ \A i, j \in Jobs : InFlight(i) /\ InFlight(j) => i = j
  /\ (\E j \in Jobs : InFlight(j)) => ~pruneDue /\ teardown = NoTeardown
  /\ pruneDue => teardown = NoTeardown

\* Where jobs of each kind can be.
PlaceHolds(j) ==
  /\ jobs[j].pc = "clone" => jobs[j].kind = "git"
  /\ jobs[j].pc \in {"provision", "vhost", "record"} => jobs[j].kind \in Deploys \cup {"rollback"}
  /\ jobs[j].pc \in {"launch", "build", "tag", "recover"} => jobs[j].kind \in Deploys
  /\ jobs[j].pc = "down" => jobs[j].kind \in Deploys \cup {"rollback", "down"}
  /\ jobs[j].pc = "up" => jobs[j].kind \in Deploys \cup {"rollback", "restart", "restore"}
  /\ jobs[j].pc \in {"replace", "copy"} => jobs[j].kind = "rollback"
  /\ jobs[j].pc \in {"halt", "extract"} => jobs[j].kind = "restore"
  /\ jobs[j].pc = "exited" => jobs[j].kind \in {"restart", "down"}
  /\ jobs[j].pc \in {"promote", "archive", "commit"} => jobs[j].kind \in Deploys \cup {"rollback"}
  /\ jobs[j].pc \in {"finish", "fail"} => jobs[j].kind \in Deploys \cup {"rollback", "restore"}

PlacesHold == \A j \in Jobs : PlaceHolds(j)

\* At first nothing is in flight.
LEMMA InitSerial == Init => OneOperation /\ PlacesHold
BY DEF Init, OneOperation, PlacesHold, PlaceHolds, InFlight, Unused, NoTeardown

\* A move stays within the places of the job's kind.
LEMMA MovesPlaces ==
  ASSUME NEW j \in Jobs, Moves(j), PlaceHolds(j)
  PROVE  PlaceHolds(j)'
BY DEF Moves, PlaceHolds, NextPlaces, Deploys, InFlight

\* A step of a job disturbs none of this,
LEMMA MovesSerial ==
  ASSUME NEW j \in Jobs, Moves(j), OneOperation, PlacesHold
  PROVE  OneOperation' /\ PlacesHold' /\ (\A i \in Jobs \ {j} : ~InFlight(i) /\ ~InFlight(i)')
<1>1. \A i \in Jobs \ {j} : ~InFlight(i) /\ ~InFlight(i)'
  BY DEF Moves, OneOperation, InFlight
<1>2. OneOperation'
  BY <1>1 DEF Moves, OneOperation
<1>3. \A i \in Jobs \ {j} : PlaceHolds(i)'
  BY DEF Moves, PlacesHold, PlaceHolds
<1>4. PlaceHolds(j)'
  BY MovesPlaces DEF PlacesHold
<1> QED
  BY <1>1, <1>2, <1>3, <1>4 DEF PlacesHold

\* nor does the launch of one,
LEMMA StartsSerial ==
  ASSUME NEW j \in Jobs, Starts(j), OneOperation, PlacesHold
  PROVE  OneOperation' /\ PlacesHold' /\ (\A i \in Jobs \ {j} : ~InFlight(i) /\ ~InFlight(i)')
<1>1. \A i \in Jobs \ {j} : ~InFlight(i) /\ ~InFlight(i)'
  BY DEF Starts, Idle, InFlight
<1>2. OneOperation'
  BY <1>1 DEF Starts, Idle, OneOperation
<1>3. \A i \in Jobs \ {j} : PlaceHolds(i)'
  BY DEF Starts, PlacesHold, PlaceHolds
<1>4. PlaceHolds(j)'
  BY DEF Starts, PlaceHolds, Deploys
<1> QED
  BY <1>1, <1>2, <1>3, <1>4 DEF PlacesHold

\* nor any other step.
LEMMA OthersSerial ==
  ASSUME TypeOK, Overlap = {}, OneOperation, PlacesHold,
         SetLimit \/ DeleteDocker \/ Handler \/ Abort \/ Neighbour
  PROVE  OneOperation' /\ PlacesHold'
<1>1. Stays
  BY OthersStay
<1>2. PlacesHold'
  BY <1>1 DEF Stays, PlacesHold, PlaceHolds
<1>3. \A i \in Jobs : jobs'[i].pc = jobs[i].pc
  BY <1>1 DEF Stays
<1>4. CASE SetLimit
  BY <1>2, <1>3, <1>4 DEF SetLimit, Admits, Idle, OneOperation, InFlight
<1>5. CASE DeleteDocker
  BY <1>2, <1>3, <1>5 DEF DeleteDocker, Admits, Idle, OneOperation, InFlight
<1>6. CASE EnforceLimit
  BY <1>2, <1>3, <1>6 DEF EnforceLimit, OneOperation, InFlight
<1>7. CASE DeleteNginx
  BY <1>2, <1>3, <1>7 DEF DeleteNginx, OneOperation, InFlight, NoTeardown
<1>8. CASE DeleteRow
  BY <1>2, <1>3, <1>8 DEF DeleteRow, OneOperation, InFlight, NoTeardown
<1>9. CASE UNCHANGED <<pruneDue, teardown>>
  BY <1>2, <1>3, <1>9 DEF OneOperation, InFlight
<1> QED
  BY <1>2, <1>4, <1>5, <1>6, <1>7, <1>8, <1>9 DEF Handler, Abort, Neighbour, Requests

\* A crash leaves nothing in flight.
LEMMA CrashSerial ==
  ASSUME TypeOK, Crash, PlacesHold
  PROVE  OneOperation' /\ PlacesHold' /\ (\A i \in Jobs : ~InFlight(i)')
<1>1. /\ \A i \in Jobs : jobs'[i].kind = jobs[i].kind
      /\ \A i \in Jobs : jobs'[i].pc = IF InFlight(i) THEN "over" ELSE jobs[i].pc
      /\ pruneDue' = FALSE /\ teardown' = NoTeardown
  BY CrashEnds
<1>2. \A i \in Jobs : jobs'[i].pc \in {"unused", "over"}
  BY <1>1 DEF InFlight
<1>3. \A i \in Jobs : PlaceHolds(i)'
  BY <1>2 DEF PlaceHolds
<1> QED
  BY <1>1, <1>2, <1>3 DEF OneOperation, InFlight, PlacesHold

\* Without overlaps, there is one operation at a time and every job is where its kind can be.
LEMMA StepSerial ==
  ASSUME TypeOK, Overlap = {}, OneOperation, PlacesHold, [Next]_vars
  PROVE  OneOperation' /\ PlacesHold'
<1>1. CASE \E j \in Jobs : Client(j)
  BY <1>1, ClientStarts, StartsSerial
<1>2. CASE \E j \in Jobs : Thread(j)
  BY <1>2, ThreadMoves, MovesSerial
<1>3. CASE SetLimit \/ DeleteDocker \/ Handler \/ Abort \/ Neighbour
  BY <1>3, OthersSerial
<1>4. CASE Crash
  BY <1>4, CrashSerial
<1>5. CASE UNCHANGED vars
  BY <1>5 DEF vars, OneOperation, PlacesHold, PlaceHolds, InFlight
<1> QED
  BY <1>1, <1>2, <1>3, <1>4, <1>5 DEF Next

\* At first no volume is being replaced.
LEMMA InitExtracts == Init => ExtractsStopped
BY DEF Init, ExtractsStopped, Unused

\* A restore that goes on to replace the volume has stopped the stack.
LEMMA HaltStops ==
  ASSUME TypeOK, NEW j \in Jobs, Halt(j), jobs'[j].pc = "extract"
  PROVE  stack'.state # "up"
<1>1. PICK res \in QuitResults(Stopped, jobs[j].killed) :
        stack' = res.stack /\ GotoIf(j, res.ok, "extract")
  BY DEF Halt
<1>2. res.ok
  BY <1>1 DEF GotoIf, Goto, TypeOK, JobRecords
<1>3. res.stack = Stopped
  BY <1>2 DEF QuitResults
<1>4. Stopped.state # "up"
  BY DEF Stopped, TypeOK, StackRecords
<1> QED
  BY <1>1, <1>3, <1>4

\* Nothing starts the stack while a volume is replaced.
LEMMA StepExtracts ==
  ASSUME TypeOK, Overlap = {}, OneOperation, PlacesHold, ExtractsStopped, [Next]_vars
  PROVE  ExtractsStopped'
<1>1. ASSUME NEW j \in Jobs, Client(j)
      PROVE  ExtractsStopped'
  <2>1. Starts(j)
    BY <1>1, ClientStarts
  <2> QED
    BY <2>1 DEF Starts, Idle, InFlight, ExtractsStopped
<1>2. ASSUME NEW j \in Jobs, Thread(j)
      PROVE  ExtractsStopped'
  <2>1. Moves(j)
    BY <1>2, ThreadMoves
  <2>2. \A i \in Jobs \ {j} : ~InFlight(i) /\ ~InFlight(i)'
    BY <2>1, MovesSerial
  <2>3. \A i \in Jobs \ {j} : jobs'[i].pc # "extract"
    BY <2>2 DEF InFlight
  <2>4. ASSUME jobs'[j].pc = "extract" PROVE jobs[j].pc = "halt"
    BY <2>1, <2>4 DEF Moves, NextPlaces
  <2>5. ASSUME jobs'[j].pc = "extract" PROVE Halt(j)
    BY <1>2, <2>4, <2>5, Zenon
    DEF Thread, Clone, Provision, ProvisionFails, SetupNginx, RecordPort, RejectVhost, Launch,
        LaunchRefused, Build, Tag, Down, Replace, Copy, Up, Recover, Extract, Promote, Archive,
        LockTimeout, Commit, Finish, Fail, Monitor
  <2> QED
    BY <2>3, <2>5, HaltStops DEF ExtractsStopped
<1>3. CASE SetLimit \/ DeleteDocker \/ Handler \/ Abort \/ Neighbour
  <2>1. \A i \in Jobs : jobs'[i].pc = jobs[i].pc
    BY <1>3, OthersStay DEF Stays
  <2>2. CASE stack' = stack
    BY <2>1, <2>2 DEF ExtractsStopped
  <2>3. CASE DeleteDocker
    BY <2>1, <2>3 DEF DeleteDocker, Admits, Idle, InFlight, ExtractsStopped
  <2> QED
    BY <1>3, <2>2, <2>3 DEF SetLimit, Handler, EnforceLimit, DeleteNginx, DeleteRow, Abort,
                            Neighbour
<1>4. CASE Crash
  BY <1>4, CrashSerial DEF InFlight, ExtractsStopped
<1>5. CASE UNCHANGED vars
  BY <1>5 DEF vars, ExtractsStopped
<1> QED
  BY <1>1, <1>2, <1>3, <1>4, <1>5 DEF Next

\* The stack is down while a restore replaces a volume, if operations do not overlap:
\* whatever docker commands, aborts and crashes do.
THEOREM StoppedWhileExtracting == Overlap = {} => (Spec => []ExtractsStopped)
<1> SUFFICES ASSUME Overlap = {} PROVE Spec => []ExtractsStopped
  OBVIOUS
<1> DEFINE Inv == TypeOK /\ OneOperation /\ PlacesHold /\ ExtractsStopped
<1>1. Init => Inv
  BY InitTyped, InitSerial, InitExtracts
<1>2. Inv /\ [Next]_vars => Inv'
  BY StepTyped, StepSerial, StepExtracts
<1> QED
  BY <1>1, <1>2, PTL DEF Spec

-----------------------------------------------------------------------------
(* Where images and files come from                                         *)

\* What docker compose up leaves: what was there, or containers of f's image.
LEMMA UpShape ==
  ASSUME NEW f, NEW pinned, NEW killed, NEW res \in UpResults(f, pinned, killed)
  PROVE  \/ ~res.ok /\ res.stack = stack
         \/ /\ Usable(f) /\ Image(f, pinned) # NoJob
            /\ \/ res.stack.state = "partial"
               \/ res.stack.state = "up" /\ res.ok /\ f.port \notin neighbours
            /\ res.ok => f.port \notin neighbours
            /\ res.stack.image = Image(f, pinned)
            /\ res.stack.files = f.source /\ res.stack.port = f.port
<1> DEFINE new(s) == [state |-> s, image |-> Image(f, pinned), files |-> f.source,
                      port |-> f.port]
<1>1. \/ res = [ok |-> FALSE, stack |-> stack]
      \/ /\ Usable(f) /\ Image(f, pinned) # NoJob
         /\ \/ res = [ok |-> FALSE, stack |-> new("partial")]
            \/ f.port \notin neighbours /\ res = [ok |-> TRUE, stack |-> new("up")]
            \/ f.port \notin neighbours /\ res = [ok |-> TRUE, stack |-> new("partial")]
            \/ res = [ok |-> FALSE, stack |-> new("partial")]
  BY DEF UpResults
<1> QED
  BY <1>1

\* What docker compose down, or stop, leaves.
LEMMA QuitShape ==
  ASSUME NEW quit, NEW killed, NEW res \in QuitResults(quit, killed)
  PROVE  \/ ~res.ok /\ res.stack = stack
         \/ res.ok /\ res.stack = quit /\ Usable(files)
BY DEF QuitResults

\* The jobs that have begun.
Known == {NoJob} \cup {i \in Jobs : jobs[i].pc # "unused"}

\* Every image and every file comes from a job that has begun.
SourcesKnown ==
  /\ built \in Known /\ files.source \in Known /\ stack.image \in Known
  /\ \A n \in Versions : tags[n] \in Known
  /\ \A n \in Names : snapshots[n].source \in Known
  /\ stack.state # "absent" => stack.image # NoJob

\* Jobs go on being known.
LEMMA KnownGrows ==
  ASSUME TypeOK, Overlap = {}, [Next]_vars
  PROVE  \A x \in Known : x \in Known'
<1> SUFFICES \A i \in Jobs : jobs[i].pc # "unused" => jobs'[i].pc # "unused"
  BY DEF Known
<1>1. ASSUME NEW j \in Jobs, Client(j)
      PROVE  \A i \in Jobs : jobs[i].pc # "unused" => jobs'[i].pc # "unused"
  BY <1>1, ClientStarts DEF Starts
<1>2. ASSUME NEW j \in Jobs, Thread(j)
      PROVE  \A i \in Jobs : jobs[i].pc # "unused" => jobs'[i].pc # "unused"
  <2>1. Moves(j)
    BY <1>2, ThreadMoves
  <2>2. jobs'[j].pc # "unused"
    BY <2>1 DEF Moves, NextPlaces
  <2> QED
    BY <2>1, <2>2 DEF Moves
<1>3. CASE SetLimit \/ DeleteDocker \/ Handler \/ Abort \/ Neighbour
  BY <1>3, OthersStay DEF Stays
<1>4. CASE Crash
  BY <1>4, CrashEnds
<1>5. CASE UNCHANGED vars
  BY <1>5 DEF vars
<1> QED
  BY <1>1, <1>2, <1>3, <1>4, <1>5 DEF Next

\* The image that an up on a known directory would run is known.
LEMMA ImageKnown ==
  ASSUME TypeOK, SourcesKnown, NEW f \in Directories, NEW pinned
  PROVE  Image(f, pinned) \in Known
<1>1. f.pin \in Names /\ (f.pin # 0 => f.pin \in Versions)
  BY ComposeAssumption DEF Directories, Names, Versions
<1> QED
  BY <1>1 DEF Image, SourcesKnown, Known

\* A stack that is there, or is the outcome of an up, has a known image.
StackKnown(s) == s.image \in Known /\ (s.state # "absent" => s.image # NoJob)

\* An up leaves a stack whose image is known,
LEMMA UpKnown ==
  ASSUME TypeOK, SourcesKnown, NEW f \in Directories, NEW pinned, NEW killed,
         NEW res \in UpResults(f, pinned, killed)
  PROVE  StackKnown(res.stack)
BY UpShape, ImageKnown DEF StackKnown, SourcesKnown

\* and so does a down or a stop.
LEMMA QuitKnown ==
  ASSUME TypeOK, SourcesKnown, NEW killed,
         NEW res \in QuitResults(NoStack, killed) \cup QuitResults(Stopped, killed)
  PROVE  StackKnown(res.stack)
<1>1. res.stack \in {stack, NoStack, Stopped}
  BY QuitShape
<1>2. Stopped.image = stack.image /\ (Stopped.state # "absent" => stack.state # "absent")
  BY DEF Stopped, TypeOK, StackRecords
<1> QED
  BY <1>1, <1>2 DEF StackKnown, SourcesKnown, NoStack, Known

\* At first there are no sources.
LEMMA InitKnown == Init => SourcesKnown
BY DEF Init, SourcesKnown, Known, NoFiles, NoStack

\* Files, images and snapshots come from jobs that have begun.
LEMMA StepKnown ==
  ASSUME TypeOK, Overlap = {}, SourcesKnown, [Next]_vars
  PROVE  SourcesKnown'
<1>0. TypeOK'
  BY StepTyped
<1>1. \A x \in Known : x \in Known'
  BY KnownGrows
<1>2. NoJob \in Known'
  BY DEF Known
<1> DEFINE
  B == built' \in Known'
  F == files'.source \in Known'
  S == stack'.image \in Known' /\ (stack'.state # "absent" => stack'.image # NoJob)
  T == \A n \in Versions : tags'[n] \in Known'
  P == \A n \in Names : snapshots'[n].source \in Known'
<1>3. built' = built => B
  BY <1>1 DEF SourcesKnown
<1>4. files'.source \in {files.source, NoJob} => F
  BY <1>1, <1>2 DEF SourcesKnown
<1>5. stack' = stack \/ StackKnown(stack') => S
  BY <1>1 DEF SourcesKnown, StackKnown
<1>6. (\A n \in Versions : tags'[n] \in {tags[n], NoJob}) => T
  BY <1>1, <1>2 DEF SourcesKnown
<1>7. (\A n \in Names : snapshots'[n].source \in {snapshots[n].source, NoJob}) => P
  BY <1>1, <1>2 DEF SourcesKnown
<1> SUFFICES B /\ F /\ S /\ T /\ P
  BY DEF SourcesKnown
<1> HIDE DEF B, F, S, T, P
<1>8. files \in Directories /\ snapshots \in [Names -> Directories]
      /\ jobs \in [Jobs -> JobRecords] /\ tags \in [Versions -> Jobs \cup {NoJob}]
  BY DEF TypeOK
<1>9. \A f \in Directories : /\ \A n : [f EXCEPT !.pin = n].source = f.source
                            /\ \A p : [f EXCEPT !.port = p].source = f.source
  BY DEF Directories
<1>10. CASE UNCHANGED <<files, snapshots, tags, built, stack>>
  BY <1>3, <1>4, <1>5, <1>6, <1>7, <1>10 DEF B, F, S, T, P
<1>11. (\A gone : tags' = TagsWithout(gone) => T)
  BY <1>6 DEF TagsWithout
<1>12. (\A gone : snapshots' = SnapshotsWithout(gone) => P)
  BY <1>7 DEF SnapshotsWithout, NoFiles
<1>20. ASSUME NEW j \in Jobs, Client(j)
       PROVE  B /\ F /\ S /\ T /\ P
  <2>1. UNCHANGED <<snapshots, tags, built, stack>>
    BY <1>20 DEF Client, Upload, LaunchRollback, LaunchRestart, LaunchDown, LaunchRestore, Images
  <2>2. Starts(j)
    BY <1>20, ClientStarts
  <2>3. j \in Known'
    BY <2>2 DEF Starts, Known
  <2>4. files'.source \in {j, NoJob, files.source}
    <3>1. files' \in {files, NoFiles, [files EXCEPT !.source = j],
                      [files EXCEPT !.port = project.port]}
      BY <1>20 DEF Client, Upload, LaunchRollback, LaunchRestart, LaunchDown, LaunchRestore
    <3> QED
      BY <1>8, <3>1 DEF NoFiles, Directories
  <2>5. F
    BY <1>4, <2>3, <2>4 DEF F
  <2> QED
    BY <1>3, <1>5, <1>6, <1>7, <2>1, <2>5 DEF B, S, T, P
<1>21. ASSUME NEW j \in Jobs,
              \/ Clone(j) \/ Provision(j) \/ ProvisionFails(j) \/ RejectVhost(j) \/ Replace(j)
       PROVE  B /\ F /\ S /\ T /\ P
  <2>1. UNCHANGED <<snapshots, tags, built, stack>>
    BY <1>21 DEF Clone, Provision, ProvisionFails, RejectVhost, Replace, Images
  <2>2. jobs[j].pc # "unused"
    BY <1>21 DEF Clone, Provision, ProvisionFails, RejectVhost, Replace
  <2>3. j \in Known'
    BY <1>1, <2>2 DEF Known
  <2>4. files'.source \in {j, NoJob, files.source}
    <3>1. files' \in {files, NoFiles, [NoFiles EXCEPT !.source = j],
                      [files EXCEPT !.port = NextPort]}
      BY <1>21 DEF Clone, Provision, ProvisionFails, RejectVhost, Replace
    <3> QED
      BY <1>8, <3>1 DEF NoFiles, Directories
  <2>5. F
    BY <1>4, <2>3, <2>4 DEF F
  <2> QED
    BY <1>3, <1>5, <1>6, <1>7, <2>1, <2>5 DEF B, S, T, P
<1>22. ASSUME NEW j \in Jobs, Build(j)
       PROVE  B /\ F /\ S /\ T /\ P
  <2>1. UNCHANGED <<files, snapshots, tags, stack>> /\ built' \in {built, files.source}
    BY <1>22 DEF Build
  <2>2. B
    BY <1>1, <2>1 DEF B, SourcesKnown
  <2> QED
    BY <1>4, <1>5, <1>6, <1>7, <2>1, <2>2 DEF F, S, T, P
<1>23. ASSUME NEW j \in Jobs, Tag(j)
       PROVE  B /\ F /\ S /\ T /\ P
  <2>1. UNCHANGED <<snapshots, built, stack>>
        /\ (files' = files \/ files' = [files EXCEPT !.pin = jobs[j].version])
        /\ (tags' = tags \/ tags' = [tags EXCEPT ![jobs[j].version] = built])
    BY <1>23 DEF Tag
  <2>2. files'.source = files.source
    <3>1. \A n : [files EXCEPT !.pin = n].source = files.source
      BY <1>8, <1>9
    <3>2. files' = files \/ files' = [files EXCEPT !.pin = jobs[j].version]
      BY <2>1
    <3> QED
      BY <3>1, <3>2
  <2>3. \A n \in Versions : tags'[n] \in {tags[n], built}
    BY <1>8, <2>1
  <2>4. T
    BY <1>1, <2>3 DEF T, SourcesKnown
  <2> QED
    BY <1>3, <1>4, <1>5, <1>7, <2>1, <2>2, <2>4 DEF B, F, S, P
<1>24. ASSUME NEW j \in Jobs, Copy(j)
       PROVE  B /\ F /\ S /\ T /\ P
  <2>1. UNCHANGED <<snapshots, tags, built, stack>>
        /\ files' \in {files, snapshots[jobs[j].version]}
    BY <1>24 DEF Copy, Images
  <2>2. jobs[j].version \in Names
    BY <1>8 DEF JobRecords
  <2>3. F
    BY <1>1, <2>1, <2>2 DEF F, SourcesKnown
  <2> QED
    BY <1>3, <1>5, <1>6, <1>7, <2>1, <2>3 DEF B, S, T, P
<1>25. ASSUME NEW j \in Jobs, Down(j) \/ Up(j) \/ Recover(j) \/ Halt(j)
       PROVE  B /\ F /\ S /\ T /\ P
  <2>1. UNCHANGED <<files, snapshots, tags, built>>
    BY <1>25 DEF Down, Up, Recover, Halt, Images
  <2>2. CASE Down(j) \/ Halt(j)
    <3>1. stack' = stack \/ \E res \in QuitResults(NoStack, jobs[j].killed)
                                     \cup QuitResults(Stopped, jobs[j].killed) :
                           stack' = res.stack
      BY <2>2 DEF Down, Halt
    <3>2. S
      <4>1. CASE stack' = stack
        BY <1>5, <4>1
      <4>2. CASE stack' # stack
        <5>1. PICK res \in QuitResults(NoStack, jobs[j].killed)
                          \cup QuitResults(Stopped, jobs[j].killed) : stack' = res.stack
          BY <3>1, <4>2
        <5>2. StackKnown(res.stack)
          BY QuitKnown
        <5> QED
          BY <1>5, <5>1, <5>2
      <4> QED
        BY <4>1, <4>2
    <3> QED
      BY <1>3, <1>4, <1>6, <1>7, <2>1, <3>2 DEF B, F, T, P
  <2>3. CASE Up(j) \/ Recover(j)
    <3>1. snapshots[jobs[j].previous] \in Directories
      BY <1>8 DEF JobRecords
    <3>0. jobs[j].pinned \in BOOLEAN
      BY <1>8 DEF JobRecords
    <3>2. stack' = stack \/ \E f \in Directories, p \in BOOLEAN :
                              \E res \in UpResults(f, p, jobs[j].killed) : stack' = res.stack
      <4>1. CASE Up(j)
        <5>1. PICK res \in UpResults(files, jobs[j].pinned, jobs[j].killed) : stack' = res.stack
          BY <4>1 DEF Up
        <5> QED
          BY <1>8, <3>0, <5>1
      <4>2. CASE Recover(j)
        <5>1. stack' = stack \/ \E res \in UpResults(snapshots[jobs[j].previous], TRUE, jobs[j].killed) :
                                 stack' = res.stack
          BY <4>2 DEF Recover
        <5> QED
          BY <3>1, <5>1
      <4> QED
        BY <2>3, <4>1, <4>2
    <3>3. S
      <4>1. CASE stack' = stack
        BY <1>5, <4>1
      <4>2. CASE stack' # stack
        <5>1. PICK f \in Directories, p \in BOOLEAN : \E res \in UpResults(f, p, jobs[j].killed) :
                stack' = res.stack
          BY <3>2, <4>2
        <5>2. PICK res \in UpResults(f, p, jobs[j].killed) : stack' = res.stack
          BY <5>1
        <5>3. StackKnown(res.stack)
          BY UpKnown
        <5> QED
          BY <1>5, <5>2, <5>3
      <4> QED
        BY <4>1, <4>2
    <3> QED
      BY <1>3, <1>4, <1>6, <1>7, <2>1, <3>3 DEF B, F, T, P
  <2> QED
    BY <1>25, <2>2, <2>3
<1>26. ASSUME NEW j \in Jobs, Promote(j)
       PROVE  B /\ F /\ S /\ T /\ P
  <2>1. UNCHANGED <<files, tags, built, stack>>
        /\ (snapshots' = snapshots \/ snapshots' = [snapshots EXCEPT ![jobs[j].version] = files])
    BY <1>26 DEF Promote, Images
  <2>2. \A n \in Names : snapshots'[n] \in {snapshots[n], files}
    BY <1>8, <2>1
  <2>3. P
    BY <1>1, <2>2 DEF P, SourcesKnown
  <2> QED
    BY <1>3, <1>4, <1>5, <1>6, <2>1, <2>3 DEF B, F, S, T
<1>27. ASSUME NEW j \in Jobs, Archive(j) \/ Fail(j)
       PROVE  B /\ F /\ S /\ T /\ P
  <2>1. UNCHANGED <<files, built, stack>>
        /\ (UNCHANGED snapshots \/ \E gone : snapshots' = SnapshotsWithout(gone))
        /\ (UNCHANGED tags \/ \E gone : tags' = TagsWithout(gone))
    BY <1>27 DEF Archive, Fail
  <2> QED
    BY <1>3, <1>4, <1>5, <1>6, <1>7, <1>11, <1>12, <2>1 DEF B, F, S, T, P
<1>28. CASE EnforceLimit
  <2>1. UNCHANGED <<files, built, stack>>
        /\ (\E gone : snapshots' = SnapshotsWithout(gone))
        /\ (\E gone : tags' = TagsWithout(gone))
    BY <1>28 DEF EnforceLimit
  <2> QED
    BY <1>3, <1>4, <1>5, <1>6, <1>7, <1>11, <1>12, <2>1 DEF B, F, S, T, P
<1>29. CASE DeleteDocker
  <2>1. files' = NoFiles /\ (stack' = stack \/ stack' = NoStack) /\ built' \in {built, NoJob}
        /\ (UNCHANGED snapshots \/ \E gone : snapshots' = SnapshotsWithout(gone))
        /\ (UNCHANGED tags \/ \E gone : tags' = TagsWithout(gone))
    BY <1>29 DEF DeleteDocker, Images
  <2>2. StackKnown(NoStack) /\ NoFiles.source = NoJob
    BY DEF StackKnown, NoStack, Known, NoFiles
  <2>3. B
    BY <1>1, <1>2, <2>1 DEF B, SourcesKnown
  <2> QED
    BY <1>4, <1>5, <1>6, <1>7, <1>11, <1>12, <2>1, <2>2, <2>3 DEF F, S, T, P
<1>30. CASE Crash
  <2>1. UNCHANGED <<built, stack>>
        /\ (files' = files \/ files' = [files EXCEPT !.pin = 1])
        /\ (tags' = tags \/ tags' = [tags EXCEPT ![1] = stack.image])
        /\ (snapshots' = snapshots
             \/ snapshots' = [snapshots EXCEPT ![1] = [files EXCEPT !.pin = 1]])
    BY <1>30 DEF Crash
  <2>2. files'.source = files.source
    <3>1. [files EXCEPT !.pin = 1].source = files.source
      BY <1>8, <1>9
    <3>2. files' = files \/ files' = [files EXCEPT !.pin = 1]
      BY <2>1
    <3> QED
      BY <3>1, <3>2
  <2>3. \A n \in Versions : tags'[n] \in {tags[n], stack.image}
    BY <1>8, <2>1
  <2>4. T
    BY <1>1, <2>3 DEF T, SourcesKnown
  <2>5. \A n \in Names : snapshots'[n] \in {snapshots[n], [files EXCEPT !.pin = 1]}
    BY <1>8, <2>1
  <2>6. \A n \in Names : snapshots'[n].source \in {snapshots[n].source, files.source}
    <3>1. [files EXCEPT !.pin = 1].source = files.source
      BY <1>8, <1>9
    <3> QED
      BY <2>5, <3>1
  <2>7. P
    BY <1>1, <2>6 DEF P, SourcesKnown
  <2> QED
    BY <1>3, <1>4, <1>5, <2>1, <2>2, <2>4, <2>7 DEF B, F, S
<1> QED
  <2>1. CASE \E j \in Jobs : Client(j)
    BY <1>20, <2>1
  <2>2. CASE \E j \in Jobs : Thread(j)
    <3>1. PICK j \in Jobs : Thread(j)
      BY <2>2
    <3>2. CASE \/ SetupNginx(j) \/ RecordPort(j) \/ Launch(j) \/ LaunchRefused(j) \/ Extract(j)
               \/ LockTimeout(j) \/ Commit(j) \/ Finish(j) \/ Monitor(j)
      BY <1>10, <3>2 DEF SetupNginx, RecordPort, Launch, LaunchRefused, Extract, LockTimeout,
                         Commit, Finish, Monitor, Images
    <3> QED
      BY <1>21, <1>22, <1>23, <1>24, <1>25, <1>26, <1>27, <3>1, <3>2 DEF Thread
  <2>3. CASE SetLimit \/ DeleteNginx \/ DeleteRow \/ Abort \/ Neighbour \/ UNCHANGED vars
    BY <1>10, <2>3 DEF SetLimit, DeleteNginx, DeleteRow, Abort, Neighbour, vars, Images
  <2> QED
    BY <1>28, <1>29, <1>30, <2>1, <2>2, <2>3 DEF Next, Handler

-----------------------------------------------------------------------------
(* The rows, and what jobs have loaded of them                              *)

\* The places of a deploy from its launch to its commit or its failure.
Deploying == {"build", "tag", "down", "up", "recover", "promote", "archive", "commit", "fail"}

\* The places of a promote that holds what it has loaded.
Loaded == {"archive", "commit"}

\* Every version up to c has one row of t at most, and one of them is active at most.
Tiers(t, c) ==
  /\ \A r \in Jobs : t[r].status # "absent" => t[r].version \in 1..c
  /\ \A r \in Jobs : t[r].status = "absent" => t[r] = NoRow
  /\ \A r, q \in Jobs :
       t[r].status # "absent" /\ t[q].status # "absent" /\ t[r].version = t[q].version => r = q
  /\ \A r, q \in Jobs : t[r].status = "active" /\ t[q].status = "active" => r = q

\* Rows belong to jobs that have committed, and a delete that has begun takes them all.
RowsAreCommitted ==
  /\ \A r \in Jobs : Present(r) => jobs[r].pc \in {"finish", "over"}
  /\ ~project.exists => project = NoProject
  /\ teardown.step # "none" => \A r \in Jobs : Present(r) => r \in teardown.doomed

\* What a job has loaded is what is recorded.
CaptureHolds(j) ==
  /\ InFlight(j) => project.exists
  /\ jobs[j].kind \in Deploys /\ jobs[j].pc \in Deploying => jobs[j].version = project.counter + 1
  /\ jobs[j].pc \in Loaded =>
       jobs[j].counter = project.counter /\ jobs[j].limit = project.limit
  /\ jobs[j].kind = "rollback" /\ InFlight(j) =>
       \E r \in Jobs : Present(r) /\ rows[r].version = jobs[j].version

Ledger ==
  /\ Tiers(rows, project.counter)
  /\ RowsAreCommitted
  /\ \A j \in Jobs : CaptureHolds(j)

\* At first nothing is recorded.
LEMMA InitLedger == Init => Ledger
BY DEF Init, Ledger, Tiers, RowsAreCommitted, CaptureHolds, NoRow, Unused, NoTeardown, InFlight,
       Deploying, Loaded, Present, NoProject

\* A job that is not in flight has loaded nothing.
LEMMA IdleCaptures ==
  ASSUME NEW j \in Jobs, ~InFlight(j)
  PROVE  CaptureHolds(j)
BY DEF InFlight, CaptureHolds, Deploying, Loaded

\* Steps that leave the rows alone.
LEMMA MovesLedger ==
  ASSUME TypeOK, NEW j \in Jobs, Moves(j), OneOperation, PlacesHold, Ledger,
         rows' = rows, project'.exists = project.exists,
         project'.counter = project.counter, project'.limit = project.limit,
         project.exists => project'.exists, CaptureHolds(j)'
  PROVE  Ledger'
<1>1. \A i \in Jobs \ {j} : ~InFlight(i) /\ ~InFlight(i)'
  BY MovesSerial
<1>2. \A i \in Jobs : CaptureHolds(i)'
  <2>1. ASSUME NEW i \in Jobs \ {j} PROVE CaptureHolds(i)'
    <3>1. ~InFlight(i)'
      BY <1>1
    <3> QED
      BY <3>1 DEF InFlight, CaptureHolds, Deploying, Loaded
  <2> QED
    BY <2>1
<1>3. \A r \in Jobs : Present(r)' => Present(r) /\ jobs'[r].pc \in {"finish", "over"}
  <2>1. ASSUME NEW r \in Jobs, Present(r)
        PROVE  jobs'[r].pc \in {"finish", "over"}
    <3>1. jobs[r].pc \in {"finish", "over"}
      BY <2>1 DEF Ledger, RowsAreCommitted
    <3>2. CASE r # j
      BY <3>1, <3>2 DEF Moves
    <3>3. CASE r = j
      BY <3>1, <3>3 DEF Moves, InFlight, NextPlaces
    <3> QED
      BY <3>2, <3>3
  <2> QED
    BY <2>1 DEF Present
<1>4. project'.exists
  BY DEF Moves, Ledger, CaptureHolds
<1>5. RowsAreCommitted'
  <2>1. (teardown.step # "none" => \A r \in Jobs : Present(r) => r \in teardown.doomed)'
    BY DEF Moves, Ledger, RowsAreCommitted, Present
  <2> QED
    BY <1>3, <1>4, <2>1 DEF RowsAreCommitted
<1>6. Tiers(rows, project.counter)'
  BY DEF Ledger, Tiers
<1> QED
  BY <1>2, <1>5, <1>6 DEF Ledger

\* Job j keeps what it has loaded.
LEMMA CarriesCapture ==
  ASSUME TypeOK, NEW j \in Jobs, Moves(j), PlacesHold, CaptureHolds(j),
         rows' = rows, project'.exists = project.exists,
         project'.counter = project.counter, project'.limit = project.limit,
         jobs[j].pc = "launch" /\ jobs'[j].pc # "over" => jobs'[j].version = project.counter + 1,
         jobs'[j].pc = "archive" =>
           jobs'[j].counter = project.counter /\ jobs'[j].limit = project.limit
  PROVE  CaptureHolds(j)'
<1>1. jobs'[j].kind = jobs[j].kind /\ InFlight(j) /\ project'.exists
  BY DEF Moves, CaptureHolds
<1>2. CASE jobs'[j].pc = "over"
  BY <1>2 DEF CaptureHolds, InFlight, Deploying, Loaded
<1>3. CASE jobs'[j].pc # "over"
  <2>0. Carries(j)
    BY <1>3 DEF Moves
  <2>1. ASSUME jobs[j].kind \in Deploys, jobs'[j].pc \in Deploying
        PROVE  jobs'[j].version = project.counter + 1
    <3>1. jobs[j].pc \in Deploying \cup {"launch"}
      BY <2>1 DEF Moves, NextPlaces, Deploying, PlacesHold, PlaceHolds, Deploys
    <3>2. CASE jobs[j].pc = "launch"
      BY <1>3, <3>2
    <3>3. CASE jobs[j].pc # "launch"
      BY <1>1, <2>0, <2>1, <3>1, <3>3 DEF Carries, CaptureHolds
    <3> QED
      BY <3>2, <3>3
  <2>2. jobs'[j].pc = "commit" =>
          jobs'[j].counter = project.counter /\ jobs'[j].limit = project.limit
    BY <2>0 DEF Moves, NextPlaces, Carries, CaptureHolds, Loaded
  <2>3. ASSUME jobs[j].kind = "rollback"
        PROVE  jobs'[j].version = jobs[j].version
    BY <2>0, <2>3 DEF Carries, PlacesHold, PlaceHolds, Deploys
  <2> QED
    BY <1>1, <2>1, <2>2, <2>3 DEF CaptureHolds, Loaded, Present
<1> QED
  BY <1>2, <1>3

\* A promote has one target: the deploy's own row, or the version rolled back to.
LEMMA TargetShape ==
  ASSUME TypeOK, PlacesHold, Ledger, NEW j \in Jobs,
         jobs[j].pc \in {"promote", "archive", "commit"}
  PROVE  \E t \in Jobs :
           /\ Target(j) = {t}
           /\ jobs[j].kind \in Deploys => t = j /\ ~Present(j)
           /\ jobs[j].kind = "rollback" => Present(t) /\ rows[t].version = jobs[j].version
<1>1. CASE jobs[j].kind \in Deploys
  <2>1. ~Present(j)
    BY DEF Ledger, RowsAreCommitted
  <2> QED
    BY <1>1, <2>1 DEF Target, Deploys
<1>2. CASE jobs[j].kind \notin Deploys
  <2>1. jobs[j].kind = "rollback" /\ InFlight(j)
    BY <1>2 DEF PlacesHold, PlaceHolds, InFlight
  <2>2. PICK t \in Jobs : Present(t) /\ rows[t].version = jobs[j].version
    BY <2>1 DEF Ledger, CaptureHolds
  <2>3. rows[t].version # 0
    BY <2>2, ComposeAssumption DEF Ledger, Tiers, Present
  <2>4. \A r \in Jobs : Present(r) /\ rows[r].version = jobs[j].version => r = t
    BY <2>2 DEF Ledger, Tiers, Present
  <2>5. \A q \in 1..(t - 1) : q \in Jobs /\ q # t
    BY ComposeAssumption DEF Jobs
  <2>6. \A q \in 1..(t - 1) : rows[q].version # rows[t].version
    <3>1. ASSUME NEW q \in 1..(t - 1)
          PROVE  rows[q].version # rows[t].version
      <4>1. CASE Present(q)
        BY <2>2, <2>4, <2>5, <4>1
      <4>2. CASE ~Present(q)
        <5>1. rows[q] = NoRow
          BY <2>5, <4>2 DEF Present, Ledger, Tiers
        <5> QED
          BY <2>3, <5>1 DEF NoRow
      <4> QED
        BY <4>1, <4>2
    <3> QED
      BY <3>1
  <2>7. Target(j) = {t}
    BY <1>2, <2>2, <2>4, <2>6 DEF Target
  <2> QED
    BY <1>2, <2>2, <2>7
<1> QED
  BY <1>1, <1>2

\* Pruning only drops archived rows.
LEMMA PrunedShape ==
  ASSUME NEW t, NEW l, NEW r \in Jobs
  PROVE  \/ Pruned(t, l)[r] = t[r] /\ r \notin Excess(t, l)
         \/ Pruned(t, l)[r] = NoRow /\ t[r].status = "archived" /\ r \in Excess(t, l)
BY DEF Pruned, Excess

\* Pruning keeps one row a version.
LEMMA PrunedTiers ==
  ASSUME NEW t, NEW l, NEW c, Tiers(t, c)
  PROVE  Tiers(Pruned(t, l), c)
<1> DEFINE u == Pruned(t, l)
<1>1. \A r \in Jobs : u[r] = t[r] \/ u[r] = NoRow
  BY PrunedShape
<1> HIDE DEF u
<1>2. \A r \in Jobs : u[r].status # "absent" => u[r] = t[r]
  BY <1>1 DEF NoRow
<1>3. \A r \in Jobs : u[r].status = "absent" => u[r] = NoRow
  BY <1>1 DEF Tiers
<1>4. Tiers(u, c)
  BY <1>2, <1>3 DEF Tiers
<1> QED
  BY <1>4 DEF u

\* The shuffle moves the active row down, if any, and makes the target active.
LEMMA ShuffledShape ==
  ASSUME TypeOK, PlacesHold, Ledger, NEW j \in Jobs,
         jobs[j].pc \in {"promote", "archive", "commit"},
         NEW t \in Jobs, Target(j) = {t}
  PROVE  /\ Shuffled(j)[t] = [version |-> jobs[j].version, status |-> "active"]
         /\ \A r \in Jobs \ {t} :
              Shuffled(j)[r] = IF rows[r].status = "active"
                               THEN [version |-> rows[r].version, status |-> "archived"]
                               ELSE rows[r]
<1>1. Shuffled(j)[t] = [version |-> jobs[j].version, status |-> "active"]
  BY DEF Shuffled
<1>2. ASSUME NEW r \in Jobs \ {t}, Present(r)
      PROVE  rows[r].version # jobs[j].version
  <2>1. PICK u \in Jobs :
           /\ Target(j) = {u}
           /\ jobs[j].kind \in Deploys => u = j /\ ~Present(j)
           /\ jobs[j].kind = "rollback" => Present(u) /\ rows[u].version = jobs[j].version
    BY TargetShape
  <2>2. u = t
    BY <2>1
  <2>3. CASE jobs[j].kind = "rollback"
    BY <1>2, <2>1, <2>2, <2>3 DEF Ledger, Tiers, Present
  <2>4. CASE jobs[j].kind \in Deploys
    <3>1. jobs[j].version = project.counter + 1
      BY <2>4 DEF Ledger, CaptureHolds, Deploying
    <3>2. rows[r].version \in 1..project.counter /\ project.counter \in Nat
      BY <1>2, VersionsTyped DEF Ledger, Tiers, Present, TypeOK, ProjectRecords
    <3> QED
      BY <3>1, <3>2
  <2> QED
    BY <2>3, <2>4 DEF PlacesHold, PlaceHolds
<1>3. \A x \in RowRecords :
        [x EXCEPT !.status = "archived"] = [version |-> x.version, status |-> "archived"]
  BY DEF RowRecords
<1>4. \A r \in Jobs : rows[r] \in RowRecords
  BY DEF TypeOK
<1>5. ASSUME NEW r \in Jobs \ {t}
      PROVE  Shuffled(j)[r] = IF rows[r].status = "active"
                              THEN [version |-> rows[r].version, status |-> "archived"]
                              ELSE rows[r]
  <2>1. Shuffled(j)[r] = IF rows[r].status = "active" /\ rows[r].version # jobs[j].version
                         THEN [rows[r] EXCEPT !.status = "archived"] ELSE rows[r]
    BY DEF Shuffled
  <2>2. CASE rows[r].status = "active"
    <3>1. Present(r)
      BY <2>2 DEF Present
    <3> QED
      BY <1>2, <1>3, <1>4, <2>1, <2>2, <3>1
  <2>3. CASE rows[r].status # "active"
    BY <2>1, <2>3
  <2> QED
    BY <2>2, <2>3
<1> QED
  BY <1>1, <1>5

\* The counter a promote writes: the version of a deploy, or what it was.
LEMMA CounterAfterShape ==
  ASSUME TypeOK, PlacesHold, Ledger, NEW j \in Jobs, jobs[j].pc \in Loaded
  PROVE  /\ CounterAfter(j) = IF jobs[j].kind \in Deploys THEN project.counter + 1
                              ELSE project.counter
         /\ jobs[j].kind \in Deploys => jobs[j].version = project.counter + 1
<1>1. jobs[j].counter = project.counter /\ project.counter \in Nat
  BY VersionsTyped DEF Ledger, CaptureHolds, TypeOK, ProjectRecords
<1>2. jobs[j].kind \in Deploys => jobs[j].version = project.counter + 1
  BY DEF Ledger, CaptureHolds, Deploying, Loaded
<1> QED
  BY <1>1, <1>2 DEF CounterAfter

\* The rows a promote writes have one row a version, up to the counter it writes.
LEMMA FinalTiers ==
  ASSUME TypeOK, PlacesHold, Ledger, NEW j \in Jobs, jobs[j].pc \in Loaded
  PROVE  Tiers(Shuffled(j), CounterAfter(j)) /\ Tiers(Final(j), CounterAfter(j))
<1> DEFINE s == Shuffled(j)
           n == jobs[j].version
           c == project.counter
           d == CounterAfter(j)
<1>1. PICK t \in Jobs :
         /\ Target(j) = {t}
         /\ jobs[j].kind \in Deploys => t = j /\ ~Present(j)
         /\ jobs[j].kind = "rollback" => Present(t) /\ rows[t].version = n
  BY TargetShape DEF Loaded
<1>2. /\ s[t] = [version |-> n, status |-> "active"]
      /\ \A r \in Jobs \ {t} : s[r] = IF rows[r].status = "active"
                                      THEN [version |-> rows[r].version, status |-> "archived"]
                                      ELSE rows[r]
  BY <1>1, ShuffledShape DEF Loaded
<1>3. /\ d = IF jobs[j].kind \in Deploys THEN c + 1 ELSE c
      /\ jobs[j].kind \in Deploys => n = c + 1
      /\ jobs[j].kind \in Deploys \cup {"rollback"}
  BY CounterAfterShape DEF PlacesHold, PlaceHolds, Loaded
<1>4. Tiers(rows, c) /\ c \in Nat
  BY VersionsTyped DEF Ledger, TypeOK, ProjectRecords
<1> HIDE DEF s, n, c, d
<1>5. n \in 1..d
  BY <1>1, <1>3, <1>4 DEF Tiers, Present
<1>6. \A r \in Jobs : rows[r].status # "absent" => rows[r].version \in 1..d
  BY <1>3, <1>4 DEF Tiers
<1>7. \A r \in Jobs \ {t} : /\ rows[r].status # "absent" => rows[r].version # n
                            /\ s[r].version = rows[r].version
                            /\ s[r].status # "active"
                            /\ s[r].status = "absent" <=> rows[r].status = "absent"
  <2>1. \A r \in Jobs \ {t} : rows[r].status # "absent" => rows[r].version # n
    <3>1. CASE jobs[j].kind = "rollback"
      BY <1>1, <1>4, <3>1 DEF Tiers, Present
    <3>2. CASE jobs[j].kind \in Deploys
      <4>1. \A v \in 1..c : v # c + 1
        BY <1>4
      <4> QED
        BY <1>3, <1>4, <3>2, <4>1 DEF Tiers
    <3> QED
      BY <1>3, <3>1, <3>2
  <2>2. ASSUME NEW r \in Jobs \ {t}
        PROVE  /\ s[r].version = rows[r].version /\ s[r].status # "active"
               /\ s[r].status = "absent" <=> rows[r].status = "absent"
    <3>1. CASE rows[r].status = "active"
      <4>1. s[r] = [version |-> rows[r].version, status |-> "archived"]
        BY <1>2, <3>1
      <4> QED
        BY <3>1, <4>1
    <3>2. CASE rows[r].status # "active"
      BY <1>2, <3>2
    <3> QED
      BY <3>1, <3>2
  <2> QED
    BY <2>1, <2>2
<1>8. Tiers(s, d)
  <2>1. \A r \in Jobs : s[r].status # "absent" => s[r].version \in 1..d
    BY <1>2, <1>5, <1>6, <1>7
  <2>2. ASSUME NEW r \in Jobs, s[r].status = "absent" PROVE s[r] = NoRow
    <3>1. s[t].status = "active"
      BY <1>2
    <3>2. r # t /\ rows[r].status = "absent"
      BY <1>7, <2>2, <3>1
    <3> QED
      BY <1>2, <1>4, <3>2 DEF Tiers
  <2>3. ASSUME NEW r \in Jobs, NEW q \in Jobs, s[r].status # "absent", s[q].status # "absent",
               s[r].version = s[q].version
        PROVE  r = q
    BY <1>2, <1>4, <1>7, <2>3 DEF Tiers
  <2>4. \A r, q \in Jobs : s[r].status = "active" /\ s[q].status = "active" => r = q
    BY <1>7
  <2> QED
    BY <2>1, <2>2, <2>3, <2>4 DEF Tiers
<1> QED
  BY <1>8, PrunedTiers DEF Final, s, d

\* The steps of a job that leave the rows and the counter alone.
LEMMA ThreadLedger ==
  ASSUME TypeOK, OneOperation, PlacesHold, Ledger, NEW j \in Jobs, Thread(j), ~Commit(j)
  PROVE  Ledger'
<1>1. Moves(j)
  BY ThreadMoves
<1>2. rows' = rows /\ (project' = project \/ project' = [project EXCEPT !.port = jobs[j].port])
  BY Zenon DEF Thread, Clone, Provision, ProvisionFails, SetupNginx, RecordPort, RejectVhost,
     Launch, LaunchRefused, Build, Tag, Down, Replace, Copy, Up, Recover, Halt, Extract, Promote,
     Archive, LockTimeout, Finish, Fail, Monitor, Database
<1>3. /\ project'.exists = project.exists /\ project'.counter = project.counter
      /\ project'.limit = project.limit
  BY <1>2 DEF TypeOK, ProjectRecords
<1>4. ASSUME jobs[j].pc = "launch", jobs'[j].pc # "over"
      PROVE  jobs'[j].version = project.counter + 1
  <2>1. Launch(j) \/ LaunchRefused(j)
    BY <1>4 DEF Thread, Clone, Provision, ProvisionFails, SetupNginx, RecordPort, RejectVhost,
                Build, Tag, Down, Replace, Copy, Up, Recover, Halt, Extract, Promote, Archive,
                LockTimeout, Commit, Finish, Fail, Monitor
  <2>2. ~LaunchRefused(j)
    BY <1>4, OverIs DEF LaunchRefused
  <2>3. \A x \in JobRecords : \A n, m :
          [x EXCEPT !.pc = "build", !.version = n, !.pinned = TRUE, !.previous = m].version = n
    BY DEF JobRecords
  <2>4. PICK m : jobs' = [jobs EXCEPT ![j].pc = "build", ![j].version = project.counter + 1,
                                      ![j].pinned = TRUE, ![j].previous = m]
    BY <2>1, <2>2 DEF Launch
  <2> QED
    BY <2>3, <2>4 DEF TypeOK
<1>5. ASSUME jobs'[j].pc = "archive"
      PROVE  jobs'[j].counter = project.counter /\ jobs'[j].limit = project.limit
  <2>1. jobs[j].pc = "promote"
    BY <1>1, <1>5 DEF Moves, NextPlaces
  <2>2. Promote(j)
    BY <2>1 DEF Thread, Clone, Provision, ProvisionFails, SetupNginx, RecordPort, RejectVhost,
                Launch, LaunchRefused, Build, Tag, Down, Replace, Copy, Up, Recover, Halt,
                Extract, Archive, LockTimeout, Commit, Finish, Fail, Monitor
  <2>3. ~Goto(j, "fail")
    BY <1>5 DEF Goto, TypeOK, JobRecords
  <2>4. PICK o : jobs' = [jobs EXCEPT ![j].pc = "archive", ![j].counter = project.counter,
                                      ![j].limit = project.limit, ![j].outcome = o]
    BY <2>2, <2>3 DEF Promote
  <2>5. \A x \in JobRecords : \A c, l, o1 :
          LET y == [x EXCEPT !.pc = "archive", !.counter = c, !.limit = l, !.outcome = o1] IN
          y.counter = c /\ y.limit = l
    BY DEF JobRecords
  <2> QED
    BY <2>4, <2>5 DEF TypeOK
<1>6. CaptureHolds(j)
  BY DEF Ledger
<1>7. CaptureHolds(j)'
  BY <1>1, <1>2, <1>3, <1>4, <1>5, <1>6, CarriesCapture
<1> QED
  BY <1>1, <1>2, <1>3, <1>7, MovesLedger

\* Once no job is in flight, the rows are all there is to it.
LEMMA IdleLedger ==
  ASSUME \A i \in Jobs : ~InFlight(i)', Tiers(rows, project.counter)', RowsAreCommitted'
  PROVE  Ledger'
<1>1. \A i \in Jobs : CaptureHolds(i)'
  BY DEF CaptureHolds, InFlight, Deploying, Loaded
<1> QED
  BY <1>1 DEF Ledger

\* A commit keeps the ledger,
LEMMA CommitLedger ==
  ASSUME TypeOK, OneOperation, PlacesHold, Ledger, NEW j \in Jobs, Commit(j)
  PROVE  Ledger'
<1>1. /\ jobs[j].pc = "commit" /\ rows' = Final(j)
      /\ project' = [project EXCEPT !.counter = CounterAfter(j)]
  BY DEF Commit
<1>2. Moves(j) /\ jobs'[j].pc = "finish" /\ jobs'[j].version = jobs[j].version
  <2>1. Thread(j)
    BY DEF Thread
  <2>2. Moves(j)
    BY <2>1, ThreadMoves
  <2> QED
    BY <1>1, <2>2 DEF Moves, NextPlaces, Carries
<1>3. \A i \in Jobs \ {j} : ~InFlight(i) /\ ~InFlight(i)'
  BY <1>2, MovesSerial
<1>4. project.exists /\ project'.exists /\ project'.counter = CounterAfter(j)
  BY <1>1 DEF Ledger, CaptureHolds, InFlight, TypeOK, ProjectRecords
<1>5. Tiers(rows, project.counter)'
  <2>1. Tiers(rows', project'.counter)
    BY <1>1, <1>4, FinalTiers DEF Loaded
  <2> QED
    BY <2>1 DEF Tiers
<1>6. PICK t \in Jobs :
         /\ Target(j) = {t}
         /\ jobs[j].kind \in Deploys => t = j /\ ~Present(j)
         /\ jobs[j].kind = "rollback" => Present(t) /\ rows[t].version = jobs[j].version
  BY <1>1, TargetShape
<1>7. /\ Shuffled(j)[t] = [version |-> jobs[j].version, status |-> "active"]
      /\ \A r \in Jobs \ {t} :
           Shuffled(j)[r] = IF rows[r].status = "active"
                            THEN [version |-> rows[r].version, status |-> "archived"]
                            ELSE rows[r]
  BY <1>1, <1>6, ShuffledShape
<1>8. rows'[t] = Shuffled(j)[t]
  <2>1. Shuffled(j)[t].status = "active"
    BY <1>7
  <2>2. Final(j)[t] = Shuffled(j)[t]
    BY <2>1, PrunedShape DEF Final
  <2> QED
    BY <1>1, <2>2
<1>9. ASSUME NEW r \in Jobs, rows'[r].status # "absent"
      PROVE  jobs'[r].pc \in {"finish", "over"}
  <2>1. CASE r = j
    BY <1>2, <2>1
  <2>2. CASE r # j
    <3>1. Shuffled(j)[r].status # "absent"
      BY <1>1, <1>9, PrunedShape DEF Final, NoRow
    <3>2. Present(r)
      <4>1. CASE r = t
        BY <1>6, <2>2, <4>1, <1>1 DEF PlacesHold, PlaceHolds
      <4>2. CASE r # t
        BY <1>7, <3>1, <4>2 DEF Present
      <4> QED
        BY <4>1, <4>2
    <3> QED
      BY <1>2, <2>2, <3>2 DEF Ledger, RowsAreCommitted, Moves
  <2> QED
    BY <2>1, <2>2
<1>10. RowsAreCommitted'
  <2>1. teardown' = NoTeardown
    BY <1>2 DEF Moves, OneOperation
  <2> QED
    BY <1>4, <1>9, <2>1 DEF RowsAreCommitted, Present, NoTeardown
<1>11. CaptureHolds(j)'
  <2>1. rows'[t].status = "active" /\ rows'[t].version = jobs'[j].version
    BY <1>2, <1>7, <1>8
  <2> QED
    BY <1>2, <1>4, <2>1 DEF CaptureHolds, Deploying, Loaded, Present
<1>12. \A i \in Jobs \ {j} : CaptureHolds(i)'
  BY <1>3 DEF CaptureHolds, InFlight, Deploying, Loaded
<1> QED
  BY <1>5, <1>10, <1>11, <1>12 DEF Ledger

\* A job that is launched has loaded nothing yet, but for a rollback's version.
LEMMA ClientLedger ==
  ASSUME TypeOK, Overlap = {}, OneOperation, PlacesHold, Ledger, NEW j \in Jobs, Client(j)
  PROVE  Ledger'
<1>1. Starts(j)
  BY ClientStarts
<1>2. \A i \in Jobs \ {j} : ~InFlight(i) /\ ~InFlight(i)'
  BY <1>1, StartsSerial
<1>3. rows' = rows /\ teardown' = NoTeardown
  BY <1>1 DEF Starts, Idle, Client, Upload, LaunchRollback, LaunchRestart, LaunchDown,
              LaunchRestore, Database
<1>4. \/ project.exists /\ project' = project
      \/ ~project.exists /\ project' = NewProject
  BY DEF Client, Upload, LaunchRollback, LaunchRestart, LaunchDown, LaunchRestore, Database
<1>5. project'.exists /\ project'.counter = project.counter
  <2>1. CASE project' = project /\ project.exists
    BY <2>1
  <2>2. CASE ~project.exists /\ project' = NewProject
    BY <2>2 DEF Ledger, RowsAreCommitted, NewProject, NoProject
  <2> QED
    BY <1>4, <2>1, <2>2
<1>6. Tiers(rows, project.counter)'
  BY <1>3, <1>5 DEF Ledger, Tiers
<1>7. RowsAreCommitted'
  <2>1. ASSUME NEW r \in Jobs, Present(r)
        PROVE  jobs'[r].pc \in {"finish", "over"}
    BY <1>1, <2>1 DEF Starts, Ledger, RowsAreCommitted
  <2> QED
    BY <1>3, <1>5, <2>1 DEF RowsAreCommitted, Present, NoTeardown
<1>8. CaptureHolds(j)'
  <2>1. jobs'[j].pc \in {"clone", "provision"} \/ jobs'[j].kind \notin Deploys
    BY <1>1 DEF Starts, Deploys
  <2>2. jobs'[j].pc \notin Loaded
    BY <1>1 DEF Starts, Loaded
  <2>3. ASSUME jobs'[j].kind = "rollback"
        PROVE  \E r \in Jobs : Present(r) /\ rows[r].version = jobs'[j].version
    <3>1. LaunchRollback(j)
      <4>1. ASSUME NEW x,
                   x \in {[Unused EXCEPT !.kind = "deploy", !.pc = "provision"],
                          [Unused EXCEPT !.kind = "git", !.pc = "clone"],
                          [Unused EXCEPT !.kind = "restart", !.pc = "up",
                                         !.pinned = (files.pin # 0)],
                          [Unused EXCEPT !.kind = "down", !.pc = "down"],
                          [Unused EXCEPT !.kind = "restore", !.pc = "halt"]}
            PROVE  x.kind # "rollback"
        BY <4>1 DEF Unused
      <4>2. jobs \in [Jobs -> JobRecords]
        BY DEF TypeOK
      <4> QED
        BY <2>3, <4>1, <4>2 DEF Client, Upload, LaunchRestart, LaunchDown, LaunchRestore
    <3>2. PICK r \in Jobs :
            /\ rows[r].status = "archived"
            /\ jobs' = [jobs EXCEPT ![j] = [Unused EXCEPT !.kind = "rollback", !.pc = "down",
                                              !.version = rows[r].version, !.pinned = TRUE]]
      BY <3>1 DEF LaunchRollback
    <3>3. jobs'[j].version = rows[r].version
      BY <3>2 DEF TypeOK, Unused
    <3> QED
      BY <3>2, <3>3 DEF Present
  <2> QED
    BY <1>3, <1>5, <2>1, <2>2, <2>3 DEF CaptureHolds, Deploying, Present
<1>9. \A i \in Jobs \ {j} : CaptureHolds(i)'
  BY <1>2 DEF CaptureHolds, InFlight, Deploying, Loaded
<1> QED
  BY <1>6, <1>7, <1>8, <1>9 DEF Ledger

\* and so do the handlers.
LEMMA HandlerLedger ==
  ASSUME TypeOK, Overlap = {}, OneOperation, PlacesHold, Ledger,
         SetLimit \/ DeleteDocker \/ Handler \/ Abort \/ Neighbour
  PROVE  Ledger'
<1>1. Stays
  BY OthersStay
<1>2. \A i \in Jobs : InFlight(i)' <=> InFlight(i)
  BY <1>1 DEF Stays, InFlight
<1>3. (\A r \in Jobs : Present(r) => jobs[r].pc \in {"finish", "over"})
      /\ (\A r \in Jobs : Present(r) => jobs'[r].pc \in {"finish", "over"})
  BY <1>1 DEF Stays, Ledger, RowsAreCommitted
<1>4. project.counter \in Nat
  BY VersionsTyped DEF TypeOK, ProjectRecords
<1>5. CASE SetLimit
  <2>1. /\ \A i \in Jobs : ~InFlight(i)'
        /\ rows' = rows /\ teardown' = NoTeardown
    BY <1>2, <1>5 DEF SetLimit, Admits, Idle
  <2>2. project.exists
    BY <1>5 DEF SetLimit, Ledger, RowsAreCommitted, NoProject
  <2>3. project'.exists /\ project'.counter = project.counter
    BY <1>5, <2>2 DEF SetLimit, TypeOK, ProjectRecords
  <2>4. RowsAreCommitted'
    BY <1>3, <2>1, <2>3 DEF RowsAreCommitted, Present, NoTeardown
  <2>5. Tiers(rows, project.counter)'
    BY <2>1, <2>3 DEF Ledger, Tiers
  <2> QED
    BY <2>1, <2>4, <2>5, IdleLedger
<1>6. CASE DeleteDocker
  <2>1. \A i \in Jobs : ~InFlight(i)'
    BY <1>2, <1>6 DEF DeleteDocker, Admits, Idle
  <2>2. /\ rows' = rows /\ project' = project
        /\ \A r \in Jobs : Present(r) => r \in teardown'.doomed
    BY <1>6 DEF DeleteDocker, Database
  <2>3. RowsAreCommitted'
    BY <1>3, <2>2 DEF RowsAreCommitted, Present, Ledger
  <2>4. Tiers(rows, project.counter)'
    BY <2>2 DEF Ledger, Tiers
  <2> QED
    BY <2>1, <2>3, <2>4, IdleLedger
<1>7. CASE EnforceLimit
  <2>1. teardown' = NoTeardown /\ \A i \in Jobs : ~InFlight(i)'
    BY <1>2, <1>7 DEF EnforceLimit, OneOperation
  <2>2. project' = project /\ (rows' = rows \/ rows' = Pruned(rows, project.limit))
    BY <1>7 DEF EnforceLimit
  <2>3. Tiers(rows', project.counter)
    BY <2>2, PrunedTiers DEF Ledger
  <2>4. \A r \in Jobs : Present(r)' => Present(r)
    BY <2>2, PrunedShape DEF Present, NoRow
  <2>5. RowsAreCommitted'
    BY <1>3, <2>1, <2>2, <2>4 DEF RowsAreCommitted, NoTeardown, Ledger
  <2>6. Tiers(rows, project.counter)'
    BY <2>2, <2>3 DEF Tiers
  <2> QED
    BY <2>1, <2>5, <2>6, IdleLedger
<1>8. CASE DeleteNginx
  <2>1. \A i \in Jobs : ~InFlight(i)'
    BY <1>2, <1>8 DEF DeleteNginx, OneOperation, NoTeardown
  <2>2. rows' = rows /\ project' = project /\ teardown' = [teardown EXCEPT !.step = "row"]
    BY <1>8 DEF DeleteNginx, Database
  <2>3. teardown'.doomed = teardown.doomed
    BY <2>2 DEF TypeOK
  <2>4. RowsAreCommitted'
    BY <1>3, <1>8, <2>2, <2>3 DEF RowsAreCommitted, Present, Ledger, DeleteNginx
  <2>5. Tiers(rows, project.counter)'
    BY <2>2 DEF Ledger, Tiers
  <2> QED
    BY <2>1, <2>4, <2>5, IdleLedger
<1>9. CASE DeleteRow
  <2>1. \A i \in Jobs : ~InFlight(i)'
    BY <1>2, <1>9 DEF DeleteRow, OneOperation, NoTeardown
  <2>2. /\ rows' = [r \in Jobs |-> IF r \in teardown.doomed THEN NoRow ELSE rows[r]]
        /\ project' = NoProject /\ teardown' = NoTeardown
    BY <1>9 DEF DeleteRow
  <2>3. \A r \in Jobs : rows'[r] = NoRow
    <3>1. ASSUME NEW r \in Jobs, r \notin teardown.doomed
          PROVE  rows[r] = NoRow
      BY <1>9, <3>1 DEF DeleteRow, Ledger, RowsAreCommitted, Tiers, Present
    <3> QED
      BY <2>2, <3>1
  <2>4. RowsAreCommitted'
    BY <2>2, <2>3 DEF RowsAreCommitted, Present, NoTeardown, NoRow
  <2>5. Tiers(rows, project.counter)'
    BY <2>3 DEF Tiers, NoRow
  <2> QED
    BY <2>1, <2>4, <2>5, IdleLedger
<1>10. CASE Abort \/ Neighbour
  <2>1. rows' = rows /\ project' = project /\ teardown' = teardown
    BY <1>10 DEF Abort, Neighbour, Database, Requests
  <2>2. \A i \in Jobs : CaptureHolds(i)'
    <3>1. ASSUME NEW i \in Jobs PROVE CaptureHolds(i)'
      BY <1>1, <2>1 DEF Ledger, CaptureHolds, Stays, InFlight, Present
    <3> QED
      BY <3>1
  <2>3. RowsAreCommitted'
    BY <1>3, <2>1 DEF RowsAreCommitted, Present, Ledger
  <2>4. Tiers(rows, project.counter)'
    BY <2>1 DEF Ledger, Tiers
  <2> QED
    BY <2>2, <2>3, <2>4 DEF Ledger
<1> QED
  BY <1>5, <1>6, <1>7, <1>8, <1>9, <1>10 DEF Handler

\* A start-up may record the running image as version 1, of a job that is over.
LEMMA CrashLedger ==
  ASSUME TypeOK, PlacesHold, SourcesKnown, Ledger, Crash
  PROVE  Ledger'
<1>1. \A i \in Jobs : ~InFlight(i)'
  BY CrashSerial
<1>2. /\ \A i \in Jobs : jobs'[i].pc = IF InFlight(i) THEN "over" ELSE jobs[i].pc
      /\ teardown' = NoTeardown
  BY CrashEnds
<1>3. \A i \in Jobs : jobs[i].pc # "unused" => jobs'[i].pc = "over"
  BY <1>2 DEF InFlight
<1>4. \A r \in Jobs : Present(r) => jobs'[r].pc \in {"finish", "over"}
  BY <1>3 DEF Ledger, RowsAreCommitted
<1>5. CASE Backfills
  <2>1. /\ rows' = [rows EXCEPT ![stack.image] = [version |-> 1, status |-> "active"]]
        /\ project' = [project EXCEPT !.counter = 1]
    BY <1>5 DEF Crash
  <2>2. /\ stack.image \in Jobs /\ jobs[stack.image].pc # "unused"
        /\ \A r \in Jobs : ~Present(r)
        /\ project.exists
    BY <1>5 DEF Backfills, SourcesKnown, Known
  <2>3. project'.exists /\ project'.counter = 1
    BY <2>1, <2>2 DEF TypeOK, ProjectRecords
  <2>4. /\ rows'[stack.image] = [version |-> 1, status |-> "active"]
        /\ \A r \in Jobs \ {stack.image} : rows'[r] = NoRow
    BY <2>1, <2>2 DEF TypeOK, Present, Ledger, Tiers
  <2>5. Tiers(rows, project.counter)'
    BY <2>2, <2>3, <2>4 DEF Tiers, NoRow
  <2>6. RowsAreCommitted'
    BY <1>2, <1>3, <2>2, <2>3, <2>4 DEF RowsAreCommitted, Present, NoRow, NoTeardown
  <2> QED
    BY <1>1, <2>5, <2>6, IdleLedger
<1>6. CASE ~Backfills
  <2>1. rows' = rows /\ project' = project
    BY <1>6 DEF Crash, Database
  <2>2. RowsAreCommitted'
    BY <1>2, <1>4, <2>1 DEF RowsAreCommitted, Present, NoTeardown, Ledger
  <2>3. Tiers(rows, project.counter)'
    BY <2>1 DEF Ledger, Tiers
  <2> QED
    BY <1>1, <2>2, <2>3, IdleLedger
<1> QED
  BY <1>5, <1>6

\* What holds of every reachable state when operations do not overlap.
SerialInv == TypeOK /\ OneOperation /\ PlacesHold /\ SourcesKnown /\ Ledger

\* The invariant of serial operation holds at first
LEMMA SerialInit == Init => SerialInv
BY InitTyped, InitSerial, InitKnown, InitLedger DEF SerialInv

\* and after every step.
LEMMA SerialStep ==
  ASSUME SerialInv, Overlap = {}, [Next]_vars
  PROVE  SerialInv'
<1>1. TypeOK' /\ OneOperation' /\ PlacesHold' /\ SourcesKnown'
  BY StepTyped, StepSerial, StepKnown DEF SerialInv
<1>2. CASE \E j \in Jobs : Client(j)
  BY <1>1, <1>2, ClientLedger DEF SerialInv
<1>3. CASE \E j \in Jobs : Thread(j)
  BY <1>1, <1>3, ThreadLedger, CommitLedger DEF SerialInv
<1>4. CASE SetLimit \/ DeleteDocker \/ Handler \/ Abort \/ Neighbour
  BY <1>1, <1>4, HandlerLedger DEF SerialInv
<1>5. CASE Crash
  BY <1>1, <1>5, CrashLedger DEF SerialInv
<1>6. CASE UNCHANGED vars
  <2>1. Ledger'
    BY <1>6 DEF vars, SerialInv, Ledger, Tiers, RowsAreCommitted, CaptureHolds, Present, InFlight
  <2> QED
    BY <1>1, <2>1 DEF SerialInv
<1> QED
  BY <1>2, <1>3, <1>4, <1>5, <1>6 DEF Next

-----------------------------------------------------------------------------
(* The number of archived versions                                          *)

RowTables == [Jobs -> RowRecords]

Archived(t) == {r \in Jobs : t[r].status = "archived"}

\* The archived rows are finitely many.
LEMMA ArchivedFinite ==
  ASSUME NEW t, NEW S \in SUBSET Archived(t)
  PROVE  IsFiniteSet(S) /\ Cardinality(S) \in Nat
<1>1. IsFiniteSet(Jobs)
  BY FS_Interval, ComposeAssumption DEF Jobs
<1>2. S \subseteq Jobs
  BY DEF Archived
<1> QED
  BY <1>1, <1>2, FS_Subset, FS_CardinalityType

\* Above the oldest version that is kept there are fewer than the limit.
LEMMA PrunedCount ==
  ASSUME NEW t \in RowTables, NEW c, NEW l \in Nat, Tiers(t, c)
  PROVE  Cardinality(Archived(Pruned(t, l))) <= l
<1> DEFINE K == Archived(Pruned(t, l))
           Above(r) == {q \in Jobs : /\ t[q].status = "archived"
                                     /\ \/ t[q].version > t[r].version
                                        \/ t[q].version = t[r].version /\ q > r}
<1>1. \A r \in Jobs : r \in K <=> t[r].status = "archived" /\ r \notin Excess(t, l)
  BY DEF Archived, Pruned, NoRow
<1>2. \A r \in K : r \in Jobs /\ t[r].status = "archived" /\ ~(Cardinality(Above(r)) >= l)
  <2>1. \A r \in Jobs : t[r].status = "archived" /\ Cardinality(Above(r)) >= l => r \in Excess(t, l)
    BY Zenon DEF Excess
  <2> QED
    BY <1>1, <2>1 DEF Archived
<1>3. CASE K = {}
  BY <1>3, FS_EmptySet
<1>4. CASE K # {}
  <2>1. \A r \in Jobs : t[r].version \in Nat
    BY VersionsTyped DEF RowTables, RowRecords
  <2>2. {t[r].version : r \in K} \subseteq Nat /\ {t[r].version : r \in K} # {}
    BY <1>2, <1>4, <2>1
  <2>3. PICK m \in K : \A r \in K : t[m].version <= t[r].version
    <3>1. PICK v \in {t[r].version : r \in K} :
            \A w \in {t[r].version : r \in K} : v <= w
      BY <2>2, LeastExists
    <3> QED
      BY <3>1
  <2>4. K \ {m} \subseteq Above(m)
    <3>1. ASSUME NEW r \in K, r # m
          PROVE  t[r].version > t[m].version
      <4>1. r \in Jobs /\ m \in Jobs /\ t[r].status # "absent" /\ t[m].status # "absent"
        BY <1>2, <2>3
      <4>2. t[r].version # t[m].version
        BY <3>1, <4>1 DEF Tiers
      <4>3. t[m].version <= t[r].version
        BY <2>3
      <4> HIDE DEF K, Above
      <4> QED
        BY <2>1, <4>1, <4>2, <4>3
    <3> QED
      BY <1>2, <3>1
  <2>5. /\ IsFiniteSet(K) /\ Cardinality(K) \in Nat
        /\ IsFiniteSet(Above(m)) /\ Cardinality(Above(m)) \in Nat
    <3>1. K \subseteq Archived(t)
      BY <1>2 DEF Archived
    <3>2. Above(m) \subseteq Archived(t)
      BY DEF Archived
    <3> HIDE DEF K, Above
    <3> QED
      BY <3>1, <3>2, ArchivedFinite
  <2> HIDE DEF K, Above
  <2>6. Cardinality(K \ {m}) = Cardinality(K) - 1
    BY <2>3, <2>5, FS_RemoveElement
  <2>7. Cardinality(K \ {m}) <= Cardinality(Above(m))
    BY <2>4, <2>5, FS_Subset
  <2>8. Cardinality(Above(m)) < l
    BY <1>2, <2>3, <2>5
  <2>9. Cardinality(K) <= l
    BY <2>5, <2>6, <2>7, <2>8
  <2> QED
    BY <2>9 DEF K
<1> QED
  BY <1>3, <1>4

\* No rows, no archived rows.
LEMMA NothingArchived ==
  ASSUME NEW t, \A r \in Jobs : t[r].status # "archived", NEW l \in Nat
  PROVE  Cardinality(Archived(t)) <= l
<1>1. Archived(t) = {}
  BY DEF Archived
<1> QED
  BY <1>1, FS_EmptySet

\* The rows a promote makes are rows.
LEMMA ShuffledTyped ==
  ASSUME TypeOK, NEW j \in Jobs
  PROVE  Shuffled(j) \in RowTables
<1>1. rows \in RowTables /\ jobs[j].version \in Names
  BY DEF TypeOK, RowTables, JobRecords
<1>2. \A x \in RowRecords : [x EXCEPT !.status = "archived"] \in RowRecords
  BY DEF RowRecords
<1>3. [version |-> jobs[j].version, status |-> "active"] \in RowRecords
  BY <1>1 DEF RowRecords
<1> QED
  BY <1>1, <1>2, <1>3 DEF Shuffled, RowTables

\* What a promote writes.
LEMMA CommitWrites ==
  ASSUME SerialInv, NEW j \in Jobs, Commit(j)
  PROVE  /\ rows' = Pruned(Shuffled(j), project.limit)
         /\ Shuffled(j) \in RowTables /\ Tiers(Shuffled(j), CounterAfter(j))
         /\ project'.limit = project.limit /\ project'.exists = project.exists
         /\ project'.counter = CounterAfter(j) /\ project'.port = project.port
<1>1. jobs[j].limit = project.limit /\ rows' = Final(j)
  BY DEF SerialInv, Ledger, CaptureHolds, Loaded, Commit
<1>2. Tiers(Shuffled(j), CounterAfter(j))
  BY FinalTiers DEF SerialInv, Commit, Loaded
<1>3. project' = [project EXCEPT !.counter = CounterAfter(j)]
  BY DEF Commit
<1> QED
  BY <1>1, <1>2, <1>3, ShuffledTyped DEF Final, SerialInv, TypeOK, ProjectRecords

\* The steps that touch neither the rows nor what the project row says of them.
LEMMA RowsRest ==
  ASSUME SerialInv, [Next]_vars,
         \A j \in Jobs : ~Commit(j), ~SetLimit, ~EnforceLimit, ~DeleteRow, ~Crash
  PROVE  /\ rows' = rows /\ pruneDue' = pruneDue
         /\ project'.counter = project.counter /\ project'.limit = project.limit
         /\ project.exists => project'.exists
<1>0. project \in ProjectRecords /\ (~project.exists => project = NoProject)
  BY DEF SerialInv, TypeOK, Ledger, RowsAreCommitted
<1>1. ASSUME NEW j \in Jobs, Thread(j)
      PROVE  rows' = rows /\ pruneDue' = pruneDue
             /\ (project' = project \/ project' = [project EXCEPT !.port = jobs[j].port])
  BY <1>1, Zenon DEF Thread, Clone, Provision, ProvisionFails, SetupNginx, RecordPort,
     RejectVhost, Launch, LaunchRefused, Build, Tag, Down, Replace, Copy, Up, Recover, Halt,
     Extract, Promote, Archive, LockTimeout, Finish, Fail, Monitor, Database, Requests
<1>2. ASSUME NEW j \in Jobs, Client(j)
      PROVE  rows' = rows /\ pruneDue' = pruneDue
             /\ (project' = project \/ (~project.exists /\ project' = NewProject))
  BY <1>2 DEF Client, Upload, LaunchRollback, LaunchRestart, LaunchDown, LaunchRestore, Database,
              Requests
<1>3. DeleteDocker \/ DeleteNginx \/ Abort \/ Neighbour \/ UNCHANGED vars
        => rows' = rows /\ pruneDue' = pruneDue /\ project' = project
  BY DEF DeleteDocker, DeleteNginx, Abort, Neighbour, vars, Database, Requests
<1>4. ASSUME NEW p, project' = [project EXCEPT !.port = p]
      PROVE  /\ project'.counter = project.counter /\ project'.limit = project.limit
             /\ project'.exists = project.exists
  BY <1>0, <1>4 DEF ProjectRecords
<1>5. ASSUME ~project.exists, project' = NewProject
      PROVE  /\ project'.counter = project.counter /\ project'.limit = project.limit
             /\ project'.exists
  BY <1>0, <1>5 DEF NoProject, NewProject
<1> QED
  BY <1>1, <1>2, <1>3, <1>4, <1>5 DEF Next, Handler

\* A new limit is enforced before the next operation.
LimitInv ==
  SerialInv /\ (pruneDue \/ Cardinality(Archived(rows)) <= project.limit)

\* The archived rows stay within the limit.
LEMMA LimitStep ==
  ASSUME LimitInv, Overlap = {}, "crash" \notin Faults, [Next]_vars
  PROVE  LimitInv'
<1>1. SerialInv'
  BY SerialStep DEF LimitInv
<1>2. /\ project.limit \in Nat /\ project'.limit \in Nat /\ rows \in RowTables
  BY <1>1, ComposeAssumption DEF LimitInv, SerialInv, TypeOK, ProjectRecords, RowTables
<1>3. ~project.exists => \A r \in Jobs : rows[r].status = "absent"
  BY ComposeAssumption DEF LimitInv, SerialInv, Ledger, RowsAreCommitted, Tiers, NoProject
<1>4. CASE rows' = rows /\ project'.limit = project.limit /\ pruneDue' = pruneDue
  BY <1>1, <1>4 DEF LimitInv, Archived
<1>5. ASSUME NEW j \in Jobs, Commit(j)
      PROVE  LimitInv'
  <2>1. /\ rows' = Pruned(Shuffled(j), project.limit) /\ project'.limit = project.limit
        /\ Shuffled(j) \in RowTables /\ Tiers(Shuffled(j), CounterAfter(j))
    BY <1>5, CommitWrites DEF LimitInv
  <2>2. Cardinality(Archived(rows')) <= project'.limit
    BY <1>2, <2>1, PrunedCount
  <2> QED
    BY <1>1, <2>2 DEF LimitInv, Archived
<1>6. CASE SetLimit
  BY <1>1, <1>6 DEF SetLimit, LimitInv
<1>7. CASE EnforceLimit
  <2>1. project' = project
        /\ rows' = IF project.exists THEN Pruned(rows, project.limit) ELSE rows
    BY <1>7 DEF EnforceLimit
  <2>2. CASE project.exists
    <3>1. Cardinality(Archived(rows')) <= project'.limit
      BY <1>2, <2>1, <2>2, PrunedCount DEF LimitInv, SerialInv, Ledger
    <3> QED
      BY <1>1, <3>1 DEF LimitInv, Archived
  <2>3. CASE ~project.exists
    <3>1. \A r \in Jobs : rows'[r].status # "archived"
      BY <1>3, <2>1, <2>3
    <3> QED
      BY <1>1, <1>2, <3>1, NothingArchived DEF LimitInv, Archived
  <2> QED
    BY <2>2, <2>3
<1>8. CASE DeleteRow
  <2>1. \A r \in Jobs : rows'[r].status # "archived"
    BY <1>8 DEF DeleteRow, LimitInv, SerialInv, Ledger, RowsAreCommitted, Present, NoRow
  <2> QED
    BY <1>1, <1>2, <2>1, NothingArchived DEF LimitInv, Archived
<1>9. ~Crash
  BY DEF Crash
<1>10. SerialInv
  BY DEF LimitInv
<1> QED
  BY <1>4, <1>5, <1>6, <1>7, <1>8, <1>9, <1>10, RowsRest

\* With one operation at a time, and as long as the server does not stop between a new limit
\* and its enforcement, no more archived versions are kept than the limit allows.
THEOREM LimitRespected ==
  Overlap = {} /\ "crash" \notin Faults => (Spec => []ArchivedWithinLimit)
<1> SUFFICES ASSUME Overlap = {}, "crash" \notin Faults
             PROVE  Spec => []ArchivedWithinLimit
  OBVIOUS
<1>1. Init => LimitInv
  <2> SUFFICES ASSUME Init PROVE LimitInv
    OBVIOUS
  <2>1. \A r \in Jobs : rows[r].status # "archived"
    BY DEF Init, NoRow
  <2>2. project.limit \in Nat
    BY ComposeAssumption DEF Init, NoProject
  <2> QED
    BY <2>1, <2>2, SerialInit, NothingArchived DEF LimitInv
<1>2. LimitInv /\ [Next]_vars => LimitInv'
  BY LimitStep
<1>3. LimitInv => ArchivedWithinLimit
  BY DEF LimitInv, ArchivedWithinLimit, Idle, Archived
<1> QED
  BY <1>1, <1>2, <1>3, PTL DEF Spec

-----------------------------------------------------------------------------
(* ComposeDeploy implements ReleaseHistory when operations do not overlap,   *)
(* whatever the environment does.                                           *)

\* RecordedTier of any rows.
TierOf(t) ==
  [v \in Versions |->
     IF \E r \in Jobs : t[r].status # "absent" /\ t[r].version = v
     THEN t[CHOOSE r \in Jobs : t[r].status # "absent" /\ t[r].version = v].status
     ELSE "absent"]

\* Each recorded version has one row.
OneRowEach(t) ==
  /\ \A r \in Jobs : t[r].status # "absent" => t[r].version \in Versions
  /\ \A r, q \in Jobs : t[r].status # "absent" /\ t[q].status # "absent" /\ r # q
                         => t[r].version # t[q].version

-----------------------------------------------------------------------------
(* Rows and tiers *)

\* The refinement's tiers are those of the rows,
LEMMA RecordedTierIs == RecordedTier = TierOf(rows)
BY DEF RecordedTier, TierOf, Present

\* before and after a step.
LEMMA RecordedTierWillBe == RecordedTier' = TierOf(rows')
BY DEF RecordedTier, TierOf, Present

\* The ledger has one row a version.
LEMMA TiersHaveOneRowEach ==
  ASSUME NEW t, NEW c \in Names, Tiers(t, c)
  PROVE  OneRowEach(t)
BY ComposeAssumption DEF OneRowEach, Tiers, Versions, Names

\* A version with a row has its tier, ...
LEMMA TierOfRow ==
  ASSUME NEW t, OneRowEach(t), NEW r \in Jobs, t[r].status # "absent"
  PROVE  t[r].version \in Versions /\ TierOf(t)[t[r].version] = t[r].status
<1> DEFINE v == t[r].version
           q == CHOOSE x \in Jobs : t[x].status # "absent" /\ t[x].version = v
<1>1. q \in Jobs /\ t[q].status # "absent" /\ t[q].version = v
  OBVIOUS
<1>2. q = r
  BY <1>1 DEF OneRowEach
<1>3. v \in Versions
  BY DEF OneRowEach
<1>4. TierOf(t)[v] = t[q].status
  BY <1>1, <1>3 DEF TierOf
<1> QED
  BY <1>2, <1>3, <1>4

\* ... and one without has none.
LEMMA TierOfNone ==
  ASSUME NEW t, NEW v \in Versions, \A r \in Jobs : t[r].status # "absent" => t[r].version # v
  PROVE  TierOf(t)[v] = "absent"
BY DEF TierOf

\* A tier is that of a row.
LEMMA RowOfTier ==
  ASSUME NEW t, OneRowEach(t), NEW v \in Versions, TierOf(t)[v] # "absent"
  PROVE  \E r \in Jobs : t[r].status = TierOf(t)[v] /\ t[r].version = v
<1>1. PICK r \in Jobs : t[r].status # "absent" /\ t[r].version = v
  BY TierOfNone
<1> QED
  BY <1>1, TierOfRow

\* Two functions of the versions that agree are one.
LEMMA SameTiers ==
  ASSUME NEW f, NEW g, f = [v \in Versions |-> f[v]], g = [v \in Versions |-> g[v]],
         \A v \in Versions : f[v] = g[v]
  PROVE  f = g
<1>1. [v \in Versions |-> f[v]] = [v \in Versions |-> g[v]]
  OBVIOUS
<1> QED
  BY <1>1

\* Both specifications number versions alike
LEMMA ReleaseVersions == Releases!Versions = Versions
BY DEF Releases!Versions, Versions

\* and count alike.
LEMMA SameCardinality == \A S : Releases!Cardinality(S) = Cardinality(S)
BY DEF Releases!Cardinality, Cardinality

\* As many rows as versions are archived above a version.
LEMMA SameCount ==
  ASSUME NEW t, OneRowEach(t), NEW v
  PROVE  Cardinality({q \in Jobs : t[q].status = "archived" /\ t[q].version > v})
           = Cardinality({w \in Versions : TierOf(t)[w] = "archived" /\ w > v})
<1> DEFINE A == {q \in Jobs : t[q].status = "archived" /\ t[q].version > v}
           B == {w \in Versions : TierOf(t)[w] = "archived" /\ w > v}
           f == [q \in A |-> t[q].version]
<1>1. IsFiniteSet(A)
  <2>1. IsFiniteSet(Jobs)
    BY FS_Interval, ComposeAssumption DEF Jobs
  <2> QED
    BY <2>1, FS_Subset
<1>2. \A q \in A : t[q].version \in B
  BY TierOfRow
<1>3. f \in [A -> B]
  BY <1>2
<1>4. \A a, b \in A : f[a] = f[b] => a = b
  BY DEF OneRowEach
<1>5. \A w \in B : \E q \in A : f[q] = w
  BY RowOfTier
<1>6. ExistsBijection(A, B)
  <2> HIDE DEF f, A, B
  <2>1. f \in Injection(A, B) /\ f \in Surjection(A, B)
    BY <1>3, <1>4, <1>5 DEF Injection, Surjection, IsInjective
  <2> QED
    BY <2>1 DEF ExistsBijection, Bijection
<1> QED
  BY <1>1, <1>6, FS_Bijection

\* A row is in excess when its version is.
LEMMA SameExcess ==
  ASSUME NEW t, OneRowEach(t), NEW l, NEW r \in Jobs, t[r].status # "absent"
  PROVE  r \in Excess(t, l) <=> t[r].version \in Releases!Excess(TierOf(t), l)
<1> DEFINE v == t[r].version
<1>1. v \in Versions /\ TierOf(t)[v] = t[r].status
  BY TierOfRow
<1>2. {q \in Jobs : /\ t[q].status = "archived"
                    /\ \/ t[q].version > v
                       \/ t[q].version = v /\ q > r}
        = {q \in Jobs : t[q].status = "archived" /\ t[q].version > v}
  <2>1. \A q \in Jobs : t[q].status = "archived" /\ t[q].version = v => q = r
    BY DEF OneRowEach
  <2>2. ~(r > r)
    BY ComposeAssumption DEF Jobs
  <2> QED
    BY <2>1, <2>2
<1>3. r \in Excess(t, l) <=>
        /\ t[r].status = "archived"
        /\ Cardinality({q \in Jobs : /\ t[q].status = "archived"
                                     /\ \/ t[q].version > t[r].version
                                        \/ t[q].version = t[r].version /\ q > r}) >= l
  BY Zenon DEF Excess
<1>4. v \in Releases!Excess(TierOf(t), l) <=>
        /\ TierOf(t)[v] = "archived"
        /\ Cardinality({w \in Versions : TierOf(t)[w] = "archived" /\ w > v}) >= l
  BY <1>1, SameCardinality, Zenon DEF Releases!Excess, Releases!Versions, Versions
<1>5. Cardinality({q \in Jobs : /\ t[q].status = "archived"
                               /\ \/ t[q].version > v
                                  \/ t[q].version = v /\ q > r})
        = Cardinality({w \in Versions : TierOf(t)[w] = "archived" /\ w > v})
  BY <1>2, SameCount
<1>6. TierOf(t)[v] = "archived" <=> t[r].status = "archived"
  BY <1>1
<1> QED
  BY <1>3, <1>4, <1>5, <1>6, Zenon

\* Pruning the rows prunes the tiers.
LEMMA PrunedAlike ==
  ASSUME NEW t, OneRowEach(t), NEW l
  PROVE  TierOf(Pruned(t, l)) = Releases!Pruned(TierOf(t), l)
<1> DEFINE u == Pruned(t, l)
           g == Releases!Pruned(TierOf(t), l)
<1>1. \A r \in Jobs : u[r] = IF r \in Excess(t, l) THEN NoRow ELSE t[r]
  BY DEF Pruned
<1>2. \A v \in Versions :
        g[v] = IF v \in Releases!Excess(TierOf(t), l) THEN "absent" ELSE TierOf(t)[v]
  BY ReleaseVersions DEF Releases!Pruned
<1>3. OneRowEach(u)
  BY <1>1 DEF OneRowEach, NoRow
<1>4. ASSUME NEW v \in Versions
      PROVE  TierOf(u)[v] = g[v]
  <2>1. CASE \E r \in Jobs : t[r].status # "absent" /\ t[r].version = v
    <3>1. PICK r \in Jobs : t[r].status # "absent" /\ t[r].version = v
      BY <2>1
    <3>2. r \in Excess(t, l) <=> v \in Releases!Excess(TierOf(t), l)
      BY <3>1, SameExcess
    <3>3. CASE r \in Excess(t, l)
      <4>1. \A q \in Jobs : u[q].status # "absent" => u[q].version # v
        BY <1>1, <3>1, <3>3 DEF OneRowEach, NoRow
      <4> QED
        BY <1>2, <3>2, <3>3, <4>1, TierOfNone
    <3>4. CASE r \notin Excess(t, l)
      <4>1. u[r] = t[r]
        BY <1>1, <3>4
      <4>2. TierOf(u)[v] = t[r].status
        BY <1>3, <3>1, <4>1, TierOfRow
      <4>3. TierOf(t)[v] = t[r].status
        BY <3>1, TierOfRow
      <4> QED
        BY <1>2, <3>2, <3>4, <4>2, <4>3
    <3> QED
      BY <3>3, <3>4
  <2>2. CASE \A r \in Jobs : t[r].status # "absent" => t[r].version # v
    <3>1. \A r \in Jobs : u[r].status # "absent" => u[r].version # v
      BY <1>1, <2>2 DEF NoRow
    <3>2. TierOf(u)[v] = "absent" /\ TierOf(t)[v] = "absent"
      BY <2>2, <3>1, TierOfNone
    <3> QED
      BY <1>2, <3>2
  <2> QED
    BY <2>1, <2>2
<1>5. TierOf(u) = [v \in Versions |-> TierOf(u)[v]] /\ g = [v \in Versions |-> g[v]]
  BY ReleaseVersions DEF TierOf, Releases!Pruned
<1> HIDE DEF u, g
<1>6. TierOf(u) = g
  BY <1>4, <1>5, SameTiers
<1> QED
  BY <1>6 DEF u, g

\* Making the row of version n active and archiving the active one shifts the tiers.
LEMMA ShiftedAlike ==
  ASSUME NEW t \in RowTables, OneRowEach(t), NEW n \in Versions, NEW k \in Jobs, NEW d,
         d[k].status = "active", d[k].version = n,
         \A r \in Jobs \ {k} :
           d[r] = IF t[r].status = "active"
                  THEN [version |-> t[r].version, status |-> "archived"] ELSE t[r],
         \A r \in Jobs \ {k} : t[r].status # "absent" => t[r].version # n,
         t[k].status # "absent" => t[k].version = n
  PROVE  /\ OneRowEach(d)
         /\ TierOf(d) = Releases!Shifted(TierOf(t), n)
<1> DEFINE g == Releases!Shifted(TierOf(t), n)
<1>1. \A r \in Jobs \ {k} :
        /\ t[r].status # "active" => d[r].status = t[r].status
        /\ t[r].status = "active" => d[r].status = "archived"
        /\ d[r].version = t[r].version
        /\ d[r].status # "absent" <=> t[r].status # "absent"
  <2>1. ASSUME NEW r \in Jobs \ {k}
        PROVE  /\ t[r].status # "active" => d[r].status = t[r].status
               /\ t[r].status = "active" => d[r].status = "archived"
               /\ d[r].version = t[r].version
               /\ d[r].status # "absent" <=> t[r].status # "absent"
    <3>1. CASE t[r].status = "active"
      <4>1. d[r] = [version |-> t[r].version, status |-> "archived"]
        BY <3>1
      <4> QED
        BY <3>1, <4>1
    <3>2. CASE t[r].status # "active"
      BY <3>2
    <3> QED
      BY <3>1, <3>2
  <2> QED
    BY <2>1
<1>2. \A v \in Versions :
        g[v] = IF v = n THEN "active"
               ELSE CASE TierOf(t)[v] = "active"   -> "archived"
                      [] TierOf(t)[v] = "inactive" -> "archived"
                      [] OTHER                     -> TierOf(t)[v]
  BY ReleaseVersions DEF Releases!Shifted
<1>3. \A r \in Jobs : t[r].status \in {"absent", "active", "archived"}
  BY DEF RowTables, RowRecords
<1>4. g = [v \in Versions |-> g[v]]
  BY ReleaseVersions DEF Releases!Shifted
<1>5. TierOf(d) = [v \in Versions |-> TierOf(d)[v]]
  BY DEF TierOf
<1> HIDE DEF g
<1>6. OneRowEach(d)
  <2>1. \A r \in Jobs : d[r].status # "absent" => d[r].version \in Versions
    BY <1>1 DEF OneRowEach
  <2>2. \A r \in Jobs \ {k} : d[r].status # "absent" => d[r].version # d[k].version
    BY <1>1
  <2> QED
    BY <1>1, <2>1, <2>2 DEF OneRowEach
<1>7. ASSUME NEW v \in Versions
      PROVE  TierOf(d)[v] = g[v]
  <2>1. CASE v = n
    <3>1. TierOf(d)[n] = "active"
      BY <1>6, TierOfRow
    <3> QED
      BY <1>2, <2>1, <3>1
  <2>2. CASE v # n /\ \E r \in Jobs : t[r].status # "absent" /\ t[r].version = v
    <3>1. PICK r \in Jobs : t[r].status # "absent" /\ t[r].version = v
      BY <2>2
    <3>2. r # k
      BY <2>2, <3>1
    <3>3. TierOf(t)[v] = t[r].status
      BY <3>1, TierOfRow
    <3>4. TierOf(d)[v] = d[r].status
      BY <1>1, <1>6, <3>1, <3>2, TierOfRow
    <3> QED
      BY <1>1, <1>2, <1>3, <2>2, <3>2, <3>3, <3>4
  <2>3. CASE v # n /\ \A r \in Jobs : t[r].status # "absent" => t[r].version # v
    <3>1. \A r \in Jobs : d[r].status # "absent" => d[r].version # v
      BY <1>1, <2>3
    <3>2. TierOf(d)[v] = "absent" /\ TierOf(t)[v] = "absent"
      BY <2>3, <3>1, TierOfNone
    <3> QED
      BY <1>2, <2>3, <3>2
  <2> QED
    BY <2>1, <2>2, <2>3
<1>8. TierOf(d) = g
  BY <1>4, <1>5, <1>7, SameTiers
<1> QED
  BY <1>6, <1>8 DEF g

\* A rollback goes back to an archived version until it has made it the active one.
GoesBack ==
  \A j \in Jobs :
    jobs[j].kind = "rollback" /\ InFlight(j) /\ jobs[j].pc # "finish" =>
      \E r \in Jobs : rows[r].status = "archived" /\ rows[r].version = jobs[j].version

RefinementInv == SerialInv /\ GoesBack

\* A rollback is launched to a version that is archived.
LEMMA LaunchedRollback ==
  ASSUME TypeOK, Overlap = {}, NEW j \in Jobs, Client(j), jobs'[j].kind = "rollback"
  PROVE  \E r \in Jobs : /\ rows[r].status = "archived"
                         /\ jobs'[j] = [Unused EXCEPT !.kind = "rollback", !.pc = "down",
                                           !.version = rows[r].version, !.pinned = TRUE]
                         /\ jobs'[j].version = rows[r].version
                         /\ LaunchRollback(j)
<1>0. jobs \in [Jobs -> JobRecords]
  BY DEF TypeOK
<1>1. ASSUME NEW x,
             x \in {[Unused EXCEPT !.kind = "deploy", !.pc = "provision"],
                    [Unused EXCEPT !.kind = "git", !.pc = "clone"],
                    [Unused EXCEPT !.kind = "restart", !.pc = "up", !.pinned = (files.pin # 0)],
                    [Unused EXCEPT !.kind = "down", !.pc = "down"],
                    [Unused EXCEPT !.kind = "restore", !.pc = "halt"]}
      PROVE  x.kind # "rollback"
  BY <1>1 DEF Unused
<1>2. LaunchRollback(j)
  BY <1>0, <1>1 DEF Client, Upload, LaunchRestart, LaunchDown, LaunchRestore
<1>3. PICK r \in Jobs :
        /\ rows[r].status = "archived"
        /\ jobs' = [jobs EXCEPT ![j] = [Unused EXCEPT !.kind = "rollback", !.pc = "down",
                                          !.version = rows[r].version, !.pinned = TRUE]]
  BY <1>2 DEF LaunchRollback
<1>4. jobs'[j] = [Unused EXCEPT !.kind = "rollback", !.pc = "down",
                                !.version = rows[r].version, !.pinned = TRUE]
  BY <1>0, <1>3
<1>5. jobs'[j].version = rows[r].version
  BY <1>4 DEF Unused
<1> QED
  BY <1>2, <1>3, <1>4, <1>5

\* A rollback in flight goes back to an archived version.
LEMMA GoesBackStep ==
  ASSUME RefinementInv, Overlap = {}, [Next]_vars
  PROVE  GoesBack'
<1>0. TypeOK /\ OneOperation /\ PlacesHold
  BY DEF RefinementInv, SerialInv
<1>1. ASSUME NEW j \in Jobs, Client(j)
      PROVE  GoesBack'
  <2>1. Starts(j)
    BY <1>0, <1>1, ClientStarts
  <2>2. \A i \in Jobs \ {j} : ~InFlight(i)'
    BY <1>0, <2>1, StartsSerial
  <2>3. rows' = rows
    BY <1>1 DEF Client, Upload, LaunchRollback, LaunchRestart, LaunchDown, LaunchRestore, Database
  <2>4. ASSUME jobs'[j].kind = "rollback"
        PROVE  \E r \in Jobs : rows[r].status = "archived" /\ rows[r].version = jobs'[j].version
    BY <1>0, <1>1, <2>4, LaunchedRollback
  <2> QED
    BY <2>2, <2>3, <2>4 DEF GoesBack
<1>2. ASSUME NEW j \in Jobs, Thread(j)
      PROVE  GoesBack'
  <2>1. Moves(j)
    BY <1>0, <1>2, ThreadMoves
  <2>2. \A i \in Jobs \ {j} : ~InFlight(i)'
    BY <1>0, <2>1, MovesSerial
  <2>3. CASE Commit(j)
    <3>1. jobs'[j].pc = "finish"
      BY <2>1, <2>3 DEF Commit, Moves, NextPlaces
    <3> QED
      BY <2>2, <3>1 DEF GoesBack
  <2>4. CASE ~Commit(j)
    <3>1. rows' = rows
      BY <1>2, <2>4, Zenon
      DEF Thread, Clone, Provision, ProvisionFails, SetupNginx, RecordPort, RejectVhost, Launch,
          LaunchRefused, Build, Tag, Down, Replace, Copy, Up, Recover, Halt, Extract, Promote,
          Archive, LockTimeout, Finish, Fail, Monitor, Database
    <3>2. ASSUME jobs[j].kind = "rollback", jobs'[j].pc \notin {"over", "finish"}
          PROVE  jobs'[j].version = jobs[j].version /\ jobs[j].pc # "finish" /\ InFlight(j)
      BY <1>0, <2>1, <3>2 DEF Moves, Carries, PlacesHold, PlaceHolds, Deploys, NextPlaces
    <3>3. jobs'[j].kind = jobs[j].kind
      BY <2>1 DEF Moves
    <3> QED
      BY <2>2, <3>1, <3>2, <3>3 DEF GoesBack, RefinementInv, InFlight
  <2> QED
    BY <2>3, <2>4
<1>3. CASE SetLimit \/ DeleteDocker \/ Handler \/ Abort \/ Neighbour
  <2>1. Stays
    BY <1>0, <1>3, OthersStay
  <2>2. CASE rows' = rows
    BY <2>1, <2>2 DEF Stays, GoesBack, RefinementInv, InFlight
  <2>3. CASE EnforceLimit \/ DeleteRow
    <3>1. \A i \in Jobs : ~InFlight(i)
      BY <1>0, <2>3 DEF EnforceLimit, DeleteRow, OneOperation, NoTeardown
    <3> QED
      BY <2>1, <3>1 DEF Stays, GoesBack, InFlight
  <2> QED
    BY <1>3, <2>2, <2>3 DEF SetLimit, DeleteDocker, Handler, DeleteNginx, Abort, Neighbour,
                            Database
<1>4. CASE Crash
  BY <1>0, <1>4, CrashSerial DEF GoesBack
<1>5. CASE UNCHANGED vars
  BY <1>5 DEF vars, GoesBack, RefinementInv, InFlight
<1> QED
  BY <1>1, <1>2, <1>3, <1>4, <1>5 DEF Next

\* The invariant of the refinement holds at first
LEMMA RefinementInit == Init => RefinementInv
BY SerialInit DEF RefinementInv, GoesBack, Init, Unused, InFlight

\* and after every step.
LEMMA RefinementStep ==
  ASSUME RefinementInv, Overlap = {}, [Next]_vars
  PROVE  RefinementInv'
BY SerialStep, GoesBackStep DEF RefinementInv

-----------------------------------------------------------------------------
(* Every step is one of ReleaseHistory, or stutters *)

\* The rows and the two columns stay: nothing happens to the history.
LEMMA Stutters ==
  ASSUME rows' = rows, project'.counter = project.counter, project'.limit = project.limit
  PROVE  UNCHANGED Releases!history
<1>1. RecordedTier' = RecordedTier
  BY RecordedTierIs, RecordedTierWillBe
<1> QED
  BY <1>1 DEF Releases!history

\* The rows a promote writes have one row a version.
LEMMA RowsOneEach ==
  ASSUME SerialInv
  PROVE  /\ OneRowEach(rows) /\ rows \in RowTables
         /\ project.counter \in Names /\ project.counter \in Nat
<1>1. rows \in RowTables /\ project.counter \in Names
  BY DEF SerialInv, TypeOK, ProjectRecords, RowTables
<1> QED
  BY <1>1, VersionsTyped, TiersHaveOneRowEach DEF SerialInv, Ledger

\* A commit is a release, or a rollback, of the abstract specification.
LEMMA CommitReleases ==
  ASSUME RefinementInv, NEW j \in Jobs, Commit(j)
  PROVE  Releases!Deploy \/ \E v \in Releases!Versions : Releases!Rollback(v)
<1> DEFINE n == jobs[j].version
<1>1. SerialInv /\ jobs[j].pc = "commit" /\ jobs[j].kind \in Deploys \cup {"rollback"}
  BY DEF RefinementInv, SerialInv, Commit, PlacesHold, PlaceHolds
<1>2. OneRowEach(rows) /\ rows \in RowTables /\ project.counter \in Names /\ project.counter \in Nat
  BY <1>1, RowsOneEach
<1>3. PICK t \in Jobs :
         /\ Target(j) = {t}
         /\ jobs[j].kind \in Deploys => t = j /\ ~Present(j)
         /\ jobs[j].kind = "rollback" => Present(t) /\ rows[t].version = n
  BY <1>1, TargetShape DEF SerialInv
<1>4. /\ Shuffled(j)[t] = [version |-> n, status |-> "active"]
      /\ \A r \in Jobs \ {t} :
           Shuffled(j)[r] = IF rows[r].status = "active"
                            THEN [version |-> rows[r].version, status |-> "archived"]
                            ELSE rows[r]
  BY <1>1, <1>3, ShuffledShape DEF SerialInv
<1>5. /\ rows' = Pruned(Shuffled(j), project.limit)
      /\ project'.limit = project.limit /\ project'.counter = CounterAfter(j)
  BY <1>1, CommitWrites
<1>6. /\ CounterAfter(j) = IF jobs[j].kind \in Deploys THEN project.counter + 1 ELSE project.counter
      /\ jobs[j].kind \in Deploys => n = project.counter + 1
  BY <1>1, CounterAfterShape DEF SerialInv, Loaded
<1>7. \A r \in Jobs : rows[r].status # "absent" => rows[r].version \in 1..project.counter
  BY <1>1 DEF SerialInv, Ledger, Tiers
<1>8. n \in Versions
  <2>1. n \in Names
    BY <1>1 DEF SerialInv, TypeOK, JobRecords
  <2>2. n # 0
    BY <1>1, <1>2, <1>3, <1>6, <1>7 DEF Present
  <2> QED
    BY <2>1, <2>2, ComposeAssumption DEF Names, Versions
<1>9. \A r \in Jobs \ {t} : rows[r].status # "absent" => rows[r].version # n
  <2>1. CASE jobs[j].kind = "rollback"
    BY <1>2, <1>3, <2>1 DEF OneRowEach, Present
  <2>2. CASE jobs[j].kind \in Deploys
    BY <1>2, <1>6, <1>7, <2>2
  <2> QED
    BY <1>1, <2>1, <2>2
<1>10. rows[t].status # "absent" => rows[t].version = n
  BY <1>1, <1>3 DEF Present
<1>11. RecordedTier' = Releases!Pruned(Releases!Shifted(RecordedTier, n), project.limit)
  <2>1. Shuffled(j)[t].status = "active" /\ Shuffled(j)[t].version = n
    BY <1>4
  <2>2. /\ OneRowEach(Shuffled(j))
        /\ TierOf(Shuffled(j)) = Releases!Shifted(TierOf(rows), n)
    <3> HIDE DEF n
    <3> QED
      BY <1>2, <1>4, <1>8, <1>9, <1>10, <2>1, ShiftedAlike
  <2>3. TierOf(Pruned(Shuffled(j), project.limit))
          = Releases!Pruned(TierOf(Shuffled(j)), project.limit)
    BY <2>2, PrunedAlike
  <2> QED
    BY <1>5, <2>2, <2>3, RecordedTierIs, RecordedTierWillBe
<1>12. CASE jobs[j].kind \in Deploys
  <2>1. n = project.counter + 1 /\ project'.counter = project.counter + 1
    BY <1>5, <1>6, <1>12
  <2>2. project.counter < MaxVersions
    BY <1>2, <1>8, <2>1, ComposeAssumption DEF Versions
  <2> QED
    BY <1>5, <1>11, <2>1, <2>2 DEF Releases!Deploy
<1>13. CASE jobs[j].kind = "rollback"
  <2>1. project'.counter = project.counter
    BY <1>5, <1>6, <1>13 DEF Deploys
  <2>2. PICK r \in Jobs : rows[r].status = "archived" /\ rows[r].version = n
    BY <1>1, <1>13 DEF RefinementInv, GoesBack, InFlight
  <2>3. RecordedTier[n] \in {"inactive", "archived"}
    BY <1>2, <2>2, TierOfRow, RecordedTierIs
  <2>4. Releases!Rollback(n)
    BY <1>5, <1>11, <2>1, <2>3 DEF Releases!Rollback
  <2> QED
    BY <1>8, <2>4, ReleaseVersions
<1> QED
  BY <1>1, <1>12, <1>13

\* Enforcing the limit is a pruning, a deletion a forgetting.
LEMMA HandlerReleases ==
  ASSUME RefinementInv, SetLimit \/ EnforceLimit \/ DeleteRow
  PROVE  [Releases!Next]_(Releases!history)
<1>1. project \in ProjectRecords /\ OneRowEach(rows)
  BY RowsOneEach DEF RefinementInv, SerialInv, TypeOK
<1>2. CASE SetLimit
  <2>1. PICK l \in Limits : project' = [project EXCEPT !.limit = l]
    BY <1>2 DEF SetLimit
  <2>2. project'.limit = l /\ project'.counter = project.counter /\ rows' = rows
    BY <1>1, <1>2, <2>1 DEF SetLimit, ProjectRecords
  <2>3. Releases!SetLimit(l)
    BY <2>2, RecordedTierIs, RecordedTierWillBe DEF Releases!SetLimit
  <2> QED
    BY <2>3 DEF Releases!Next
<1>3. CASE EnforceLimit
  <2>1. project' = project /\ rows' = (IF project.exists THEN Pruned(rows, project.limit) ELSE rows)
    BY <1>3 DEF EnforceLimit
  <2>2. CASE project.exists
    <3>1. RecordedTier' = Releases!Pruned(RecordedTier, project.limit)
      BY <1>1, <2>1, <2>2, PrunedAlike, RecordedTierIs, RecordedTierWillBe
    <3>2. Releases!EnforceLimit
      BY <2>1, <3>1 DEF Releases!EnforceLimit
    <3> QED
      BY <3>2 DEF Releases!Next
  <2>3. CASE ~project.exists
    BY <2>1, <2>3, Stutters
  <2> QED
    BY <2>2, <2>3
<1>4. CASE DeleteRow
  <2>1. project' = NoProject /\ \A r \in Jobs : rows'[r].status = "absent"
    BY <1>4 DEF DeleteRow, RefinementInv, SerialInv, Ledger, RowsAreCommitted, Present, NoRow
  <2>2. RecordedTier' = [v \in Versions |-> "absent"]
    BY <2>1, RecordedTierWillBe DEF TierOf
  <2>3. Releases!Erase
    BY <2>1, <2>2, ReleaseVersions DEF Releases!Erase, NoProject
  <2> QED
    BY <2>3 DEF Releases!Next
<1> QED
  BY <1>2, <1>3, <1>4

\* The running image recorded at a start-up is a first deploy.
LEMMA CrashReleases ==
  ASSUME RefinementInv, Crash
  PROVE  [Releases!Next]_(Releases!history)
<1>1. CASE ~Backfills
  <2>1. rows' = rows /\ project' = project
    BY <1>1 DEF Crash, Database
  <2> QED
    BY <2>1, Stutters
<1>2. CASE Backfills
  <2>1. /\ rows' = [rows EXCEPT ![stack.image] = [version |-> 1, status |-> "active"]]
        /\ project' = [project EXCEPT !.counter = 1]
    BY <1>2 DEF Crash
  <2>2. /\ stack.image \in Jobs /\ project.counter = 0 /\ MaxVersions > 0
        /\ \A r \in Jobs : rows[r].status = "absent"
    BY <1>2 DEF Backfills, RefinementInv, SerialInv, SourcesKnown, Known, Present
  <2>3. project'.counter = 1 /\ project'.limit = project.limit
    BY <2>1 DEF RefinementInv, SerialInv, TypeOK, ProjectRecords
  <2>4. /\ rows'[stack.image].status = "active" /\ rows'[stack.image].version = 1
        /\ \A r \in Jobs \ {stack.image} : rows'[r].status = "absent"
    BY <2>1, <2>2 DEF RefinementInv, SerialInv, TypeOK
  <2>5. 1 \in Versions
    BY <2>2, ComposeAssumption DEF Versions
  <2>6. OneRowEach(rows')
    BY <2>4, <2>5 DEF OneRowEach
  <2> DEFINE s == Releases!Shifted(RecordedTier, 1)
             g == Releases!Pruned(s, project.limit)
  <2>7. \A v \in Versions : RecordedTier[v] = "absent"
    BY <2>2, RecordedTierIs, TierOfNone
  <2>8. \A v \in Versions : s[v] = IF v = 1 THEN "active" ELSE "absent"
    BY <2>7, ReleaseVersions DEF Releases!Shifted
  <2>9. \A v \in Versions : v \notin Releases!Excess(s, project.limit)
    <3> HIDE DEF s
    <3> QED
      BY <2>8 DEF Releases!Excess
  <2>10. \A v \in Versions : g[v] = s[v]
    <3> HIDE DEF s
    <3> QED
      BY <2>9, ReleaseVersions DEF Releases!Pruned
  <2>11. g = [v \in Versions |-> g[v]]
    BY ReleaseVersions DEF Releases!Pruned
  <2>12. TierOf(rows') = [v \in Versions |-> TierOf(rows')[v]]
    BY DEF TierOf
  <2>13. \A v \in Versions : TierOf(rows')[v] = g[v]
    <3>1. TierOf(rows')[1] = "active"
      BY <2>2, <2>4, <2>6, TierOfRow
    <3>2. ASSUME NEW v \in Versions, v # 1
          PROVE  TierOf(rows')[v] = "absent"
      BY <2>4, <3>2, TierOfNone
    <3> QED
      BY <2>8, <2>10, <3>1, <3>2
  <2>14. RecordedTier' = g
    <3> HIDE DEF g
    <3>1. TierOf(rows') = g
      BY <2>11, <2>12, <2>13, SameTiers
    <3> QED
      BY <3>1, RecordedTierWillBe
  <2>15. Releases!Deploy
    BY <2>2, <2>3, <2>14 DEF Releases!Deploy
  <2> QED
    BY <2>15 DEF Releases!Next
<1> QED
  BY <1>1, <1>2

\* Every step is one of the abstract specification, or a stutter.
LEMMA StepReleases ==
  ASSUME RefinementInv, [Next]_vars
  PROVE  [Releases!Next]_(Releases!history)
<1>1. ASSUME NEW j \in Jobs, Commit(j)
      PROVE  [Releases!Next]_(Releases!history)
  BY <1>1, CommitReleases DEF Releases!Next
<1>2. CASE SetLimit \/ EnforceLimit \/ DeleteRow
  BY <1>2, HandlerReleases
<1>3. CASE Crash
  BY <1>3, CrashReleases
<1>4. CASE (\A j \in Jobs : ~Commit(j)) /\ ~SetLimit /\ ~EnforceLimit /\ ~DeleteRow /\ ~Crash
  <2>1. SerialInv
    BY DEF RefinementInv
  <2>2. rows' = rows /\ project'.counter = project.counter /\ project'.limit = project.limit
    BY <1>4, <2>1, RowsRest
  <2> QED
    BY <2>2, Stutters
<1> QED
  BY <1>1, <1>2, <1>3, <1>4

\* With one operation at a time, what the database records moves in whole steps of
\* ReleaseHistory, whatever fails between the steps of an operation, and what a start-up
\* records after a crash is a first deploy of it.
THEOREM ComposeReleases == Overlap = {} => (Spec => ImplementsReleaseHistory)
<1> SUFFICES ASSUME Overlap = {} PROVE Spec => ImplementsReleaseHistory
  OBVIOUS
<1>1. Init => RefinementInv
  BY RefinementInit
<1>2. RefinementInv /\ [Next]_vars => RefinementInv'
  BY RefinementStep
<1>3. Init => Releases!Init
  <2> SUFFICES ASSUME Init PROVE Releases!Init
    OBVIOUS
  <2>1. RecordedTier = [v \in Versions |-> "absent"]
    BY RecordedTierIs DEF Init, TierOf, NoRow
  <2> QED
    BY <2>1, ReleaseVersions DEF Init, NoProject, Releases!Init
<1>4. RefinementInv /\ [Next]_vars => [Releases!Next]_(Releases!history)
  BY StepReleases
<1> QED
  BY <1>1, <1>2, <1>3, <1>4, PTL DEF Spec, ImplementsReleaseHistory, Releases!Spec

-----------------------------------------------------------------------------
(* What a deploy has made                                                   *)

\* The places a deploy is at once it has tagged its images.
Tagged == {"down", "up", "recover", "promote", "archive", "commit", "finish"}

\* A deploy's files are in the project directory; then its build, its tag, its pin file
\* and its snapshot are its own.
DeployHolds(j) ==
  /\ jobs[j].kind \in Deploys /\ jobs[j].pc \notin {"unused", "clone", "over"} =>
       /\ files.source = j
       /\ jobs[j].pc = "tag" => built = j
       /\ jobs[j].pc \in Tagged => tags[jobs[j].version] = j /\ files.pin = jobs[j].version
       /\ jobs[j].pc \in {"archive", "commit", "finish"} => snapshots[jobs[j].version] = files
  /\ InFlight(j) /\ jobs[j].tagged => jobs[j].kind \in Deploys

DeploysHold == \A j \in Jobs : DeployHolds(j)

\* At first there is no deploy.
LEMMA InitDeploys == Init => DeploysHold
BY DEF Init, DeploysHold, DeployHolds, Unused, InFlight

\* A job that is not in flight has nothing to hold.
LEMMA IdleDeploys ==
  ASSUME NEW i \in Jobs, jobs'[i].pc \in {"unused", "over"}
  PROVE  DeployHolds(i)'
BY DEF DeployHolds, InFlight

\* A step that changes nothing of it, on the way of j.
LEMMA MovesDeploy ==
  ASSUME NEW j \in Jobs, Moves(j), PlaceHolds(j), DeployHolds(j),
         files' = files, built' = built, tags' = tags, snapshots' = snapshots,
         jobs'[j].pc \notin {"provision", "tag", "archive"}, jobs[j].pc # "tag"
  PROVE  DeployHolds(j)'
<1>1. CASE jobs'[j].pc = "over"
  BY <1>1, IdleDeploys
<1>2. CASE jobs'[j].pc # "over"
  <2>1. /\ jobs'[j].kind = jobs[j].kind /\ Carries(j)
        /\ jobs'[j].pc \in NextPlaces(jobs[j].kind, jobs[j].pc)
    BY <1>2 DEF Moves
  <2>2. jobs'[j].tagged = jobs[j].tagged /\ InFlight(j)
    BY <2>1 DEF Carries, Moves
  <2>3. ASSUME jobs[j].kind \in Deploys, jobs[j].pc \notin {"unused", "clone", "over"},
               jobs'[j].pc \in Tagged
        PROVE  jobs[j].pc \in Tagged /\ jobs'[j].version = jobs[j].version
    BY <2>1, <2>3 DEF NextPlaces, Tagged, Carries, Deploys, PlaceHolds
  <2>4. ASSUME jobs'[j].pc \in {"archive", "commit", "finish"}, jobs[j].kind \in Deploys
        PROVE  jobs[j].pc \in {"archive", "commit"}
    BY <2>1, <2>4 DEF NextPlaces, Deploys
  <2>5. jobs[j].kind \in Deploys => jobs[j].pc \notin {"unused", "clone", "over"}
    BY <1>2, <2>1, <2>2 DEF NextPlaces, InFlight
  <2> QED
    BY <2>1, <2>2, <2>3, <2>4, <2>5 DEF DeployHolds, Tagged
<1> QED
  BY <1>1, <1>2

\* A version is forgotten when its row is pruned.
LEMMA PrunedForgets ==
  ASSUME NEW t, NEW l, NEW c, Tiers(t, c), NEW r \in Jobs, t[r].status # "absent"
  PROVE  t[r].version \in Forgotten(t, Pruned(t, l)) <=> Pruned(t, l)[r].status = "absent"
<1> DEFINE u == Pruned(t, l)
<1>1. t[r].version \in Forgotten(t, u) <=>
        \E q \in Jobs : /\ t[q].status # "absent" /\ u[q].status = "absent"
                        /\ t[q].version = t[r].version
  BY DEF Forgotten
<1>2. \A q \in Jobs : t[q].status # "absent" /\ t[q].version = t[r].version => q = r
  BY DEF Tiers
<1> QED
  BY <1>1, <1>2

\* An archiving promote forgets the pruned versions, and never its own.
LEMMA ArchiveForgets ==
  ASSUME SerialInv, NEW j \in Jobs, jobs[j].pc \in Loaded
  PROVE  /\ \A r \in Jobs : Shuffled(j)[r].status # "absent" =>
              (Shuffled(j)[r].version \in Forgotten(Shuffled(j), Final(j))
                 <=> Final(j)[r].status = "absent")
         /\ jobs[j].version \notin Forgotten(Shuffled(j), Final(j))
<1>1. Tiers(Shuffled(j), CounterAfter(j))
  BY FinalTiers DEF SerialInv
<1>2. \A r \in Jobs : Shuffled(j)[r].status # "absent" =>
        (Shuffled(j)[r].version \in Forgotten(Shuffled(j), Final(j))
           <=> Final(j)[r].status = "absent")
  BY <1>1, PrunedForgets DEF Final
<1>3. PICK t \in Jobs : Target(j) = {t}
  BY TargetShape DEF SerialInv, Loaded
<1>4. Shuffled(j)[t] = [version |-> jobs[j].version, status |-> "active"]
  BY <1>3, ShuffledShape DEF SerialInv, Loaded
<1>5. Final(j)[t] = Shuffled(j)[t]
  BY <1>4, PrunedShape DEF Final
<1>6. Shuffled(j)[t].status = "active" /\ Shuffled(j)[t].version = jobs[j].version
  BY <1>4
<1> QED
  BY <1>2, <1>5, <1>6

\* A deploy keeps its own files and image through its phases.
LEMMA ThreadDeploys ==
  ASSUME SerialInv, DeploysHold, NEW j \in Jobs, Thread(j)
  PROVE  DeployHolds(j)'
<1>0. /\ TypeOK /\ PlaceHolds(j) /\ DeployHolds(j) /\ Moves(j)
      /\ jobs[j].version \in Names /\ jobs'[j].kind = jobs[j].kind
  <2>1. TypeOK /\ PlaceHolds(j) /\ DeployHolds(j)
    BY DEF SerialInv, PlacesHold, DeploysHold
  <2>2. Moves(j)
    BY <2>1, ThreadMoves
  <2> QED
    BY <2>1, <2>2 DEF TypeOK, JobRecords, Moves
<1>1. CASE jobs'[j].pc = "over"
  BY <1>1, IdleDeploys
<1>2. CASE jobs[j].kind \notin Deploys /\ jobs'[j].pc # "over"
  <2>1. ~jobs[j].tagged /\ jobs[j].pc # "tag"
    BY <1>0, <1>2 DEF DeployHolds, PlaceHolds, Moves
  <2>2. ~jobs'[j].tagged
    BY <1>0, <1>2, <2>1 DEF Moves, Carries
  <2> QED
    BY <1>0, <1>2, <2>2 DEF DeployHolds
<1>3. ASSUME jobs[j].kind \in Deploys, jobs'[j].pc # "over"
      PROVE  DeployHolds(j)'
  <2>0. jobs[j].pc \notin {"unused", "over"} /\ jobs'[j].pc \notin {"unused", "clone", "over"}
        /\ jobs[j].pc # "launch" => jobs'[j].version = jobs[j].version
    BY <1>0, <1>3 DEF Moves, InFlight, NextPlaces, Carries, Deploys
  <2>1. CASE Clone(j)
    <3>1. files'.source = j
      <4>1. ~Over(j)
        BY <1>0, <1>3, OverIs
      <4>2. files' = [NoFiles EXCEPT !.source = j]
        BY <2>1, <4>1 DEF Clone
      <4> QED
        BY <4>2 DEF NoFiles
    <3>2. jobs'[j].pc = "provision"
      BY <1>0, <1>3, <2>1 DEF Clone, Moves, NextPlaces
    <3> QED
      BY <1>0, <1>3, <3>1, <3>2 DEF DeployHolds, Tagged
  <2>2. CASE Provision(j)
    <3>1. files'.source = j
      BY <1>0, <1>3, <2>2 DEF Provision, DeployHolds, TypeOK, Directories
    <3>2. jobs'[j].pc = "vhost"
      BY <1>0, <1>3, <2>2 DEF Provision, Moves, TypeOK, JobRecords
    <3> QED
      BY <1>0, <1>3, <3>1, <3>2 DEF DeployHolds, Tagged
  <2>3. ~ProvisionFails(j) /\ ~RejectVhost(j)
    <3>1. ~Unprovisioned(j)
      BY <1>0, <1>3, OverIs DEF Unprovisioned, Deploys
    <3> QED
      BY <3>1 DEF ProvisionFails, RejectVhost
  <2>4. CASE Build(j)
    <3>1. CASE jobs'[j].pc = "tag"
      <4>1. files' = files /\ built' = files.source
        <5>1. ~Goto(j, "fail")
          BY <1>0, <3>1 DEF Goto, TypeOK, JobRecords
        <5> QED
          BY <2>4, <5>1 DEF Build
      <4> QED
        BY <1>0, <1>3, <2>4, <3>1, <4>1 DEF DeployHolds, Tagged, Build
    <3>2. CASE jobs'[j].pc # "tag"
      <4>1. jobs'[j].pc = "fail" /\ files' = files
        BY <1>0, <2>4, <3>2 DEF Build, Moves, NextPlaces
      <4> QED
        BY <1>0, <1>3, <2>4, <4>1 DEF DeployHolds, Tagged, Build
    <3> QED
      BY <3>1, <3>2
  <2>5. CASE Tag(j)
    <3>1. jobs'[j].pc \in {"down", "fail"}
      BY <1>0, <2>5 DEF Tag, Moves, NextPlaces
    <3>2. CASE tags' = [tags EXCEPT ![jobs[j].version] = built]
               /\ files' = [files EXCEPT !.pin = jobs[j].version]
      <4>1. jobs[j].version \in Versions
        <5>1. jobs[j].version = project.counter + 1 /\ project.counter \in Nat
          BY <1>3, <2>5, VersionsTyped
          DEF Tag, SerialInv, Ledger, CaptureHolds, Deploying, TypeOK, ProjectRecords
        <5> QED
          BY <1>0, <5>1, ComposeAssumption DEF Names, Versions
      <4>2. tags'[jobs[j].version] = j
        BY <1>0, <1>3, <2>5, <3>2, <4>1 DEF DeployHolds, Tag, TypeOK
      <4>3. files'.source = j /\ files'.pin = jobs[j].version
        BY <1>0, <1>3, <2>5, <3>2 DEF DeployHolds, Tag, TypeOK, Directories
      <4> QED
        BY <1>0, <1>3, <2>0, <2>5, <3>1, <4>2, <4>3 DEF DeployHolds, Tagged, Tag
    <3>3. CASE jobs'[j].pc = "fail" /\ files' = files
      BY <1>0, <1>3, <2>5, <3>3 DEF DeployHolds, Tagged, Tag
    <3> QED
      <4>1. \/ tags' = [tags EXCEPT ![jobs[j].version] = built]
               /\ files' = [files EXCEPT !.pin = jobs[j].version]
            \/ files' = files /\ \E b : jobs' = [jobs EXCEPT ![j].pc = "fail", ![j].tagged = b]
        BY <2>5 DEF Tag
      <4>2. ASSUME NEW b, jobs' = [jobs EXCEPT ![j].pc = "fail", ![j].tagged = b]
            PROVE  jobs'[j].pc = "fail"
        BY <1>0, <4>2 DEF TypeOK, JobRecords
      <4> QED
        BY <3>2, <3>3, <4>1, <4>2
  <2>6. ~Replace(j) /\ ~Copy(j)
    BY <1>0, <1>3 DEF PlaceHolds, Replace, Copy, Deploys
  <2>7. CASE Promote(j)
    <3>1. jobs[j].pc = "promote" /\ files' = files /\ tags' = tags /\ built' = built
      BY <2>7 DEF Promote, Images
    <3>2. jobs'[j].pc \in {"archive", "fail"}
      BY <1>0, <3>1 DEF Moves, NextPlaces
    <3>3. project.exists
      BY <3>1 DEF SerialInv, Ledger, CaptureHolds, InFlight
    <3>4. snapshots'[jobs[j].version] = files
      BY <1>0, <1>3, <2>7, <3>3 DEF Promote, TypeOK
    <3> QED
      BY <1>0, <1>3, <2>0, <3>1, <3>2, <3>4 DEF DeployHolds, Tagged
  <2>8. CASE Archive(j)
    <3>1. jobs[j].pc = "archive" /\ files' = files
      BY <2>8 DEF Archive
    <3>2. jobs'[j].pc \in {"commit", "fail"}
      BY <1>0, <3>1 DEF Moves, NextPlaces
    <3>3. CASE tags' = tags /\ snapshots' = snapshots
      BY <1>0, <1>3, <2>0, <3>1, <3>2, <3>3 DEF DeployHolds, Tagged
    <3>4. CASE tags' # tags \/ snapshots' # snapshots
      <4>1. tags' = TagsWithout(Forgotten(Shuffled(j), Final(j)))
            /\ snapshots' = SnapshotsWithout(Forgotten(Shuffled(j), Final(j)))
        BY <2>8, <3>4 DEF Archive
      <4>2. jobs[j].version \notin Forgotten(Shuffled(j), Final(j))
        BY <3>1, ArchiveForgets DEF Loaded
      <4>3. jobs[j].version \in Versions
        <5>1. jobs[j].version = project.counter + 1 /\ project.counter \in Nat
          BY <1>3, <3>1, VersionsTyped
          DEF SerialInv, Ledger, CaptureHolds, Deploying, TypeOK, ProjectRecords
        <5> QED
          BY <1>0, <5>1, ComposeAssumption DEF Names, Versions
      <4>4. tags'[jobs[j].version] = tags[jobs[j].version]
            /\ snapshots'[jobs[j].version] = snapshots[jobs[j].version]
        BY <1>0, <4>1, <4>2, <4>3 DEF TagsWithout, SnapshotsWithout
      <4> QED
        BY <1>0, <1>3, <2>0, <3>1, <3>2, <4>4 DEF DeployHolds, Tagged
    <3> QED
      BY <3>3, <3>4
  <2>9. ~Fail(j) /\ ~Finish(j) /\ ~Monitor(j)
    BY <1>0, <1>3 DEF Fail, Finish, Monitor, Moves, NextPlaces
  <2>10. CASE \/ SetupNginx(j) \/ RecordPort(j) \/ Launch(j) \/ LaunchRefused(j) \/ Down(j)
              \/ Up(j) \/ Recover(j) \/ Halt(j) \/ Extract(j) \/ LockTimeout(j) \/ Commit(j)
    <3>1. files' = files /\ built' = built /\ tags' = tags /\ snapshots' = snapshots
          /\ jobs[j].pc \notin {"clone", "copy", "build", "tag", "promote"}
      BY <2>10 DEF SetupNginx, RecordPort, Launch, LaunchRefused, Down, Up, Recover, Halt, Extract,
         LockTimeout, Commit, Images
    <3>2. jobs'[j].pc \notin {"provision", "tag", "archive"}
      BY <1>0, <3>1 DEF Moves, NextPlaces
    <3> QED
      BY <1>0, <3>1, <3>2, MovesDeploy
  <2> QED
    BY <2>1, <2>2, <2>3, <2>4, <2>5, <2>6, <2>7, <2>8, <2>9, <2>10 DEF Thread
<1> QED
  BY <1>1, <1>2, <1>3

\* An upload leaves the project directory with its own files.
LEMMA UploadFiles ==
  ASSUME TypeOK, Overlap = {}, NEW j \in Jobs, Client(j), jobs'[j].kind = "deploy"
  PROVE  files'.source = j /\ files'.pin = files.pin /\ files'.port = files.port
<1>0. jobs \in [Jobs -> JobRecords] /\ files \in Directories
  BY DEF TypeOK
<1>1. ASSUME NEW x, jobs' = [jobs EXCEPT ![j] = x]
      PROVE  x.kind = "deploy"
  BY <1>0, <1>1
<1>2. ~LaunchRollback(j) /\ ~LaunchRestart(j) /\ ~LaunchDown(j) /\ ~LaunchRestore(j)
      /\ jobs' # [jobs EXCEPT ![j] = [Unused EXCEPT !.kind = "git", !.pc = "clone"]]
  <2>1. \A n : [Unused EXCEPT !.kind = "rollback", !.pc = "down", !.version = n,
                             !.pinned = TRUE].kind # "deploy"
    BY DEF Unused
  <2>2. \A b : [Unused EXCEPT !.kind = "restart", !.pc = "up", !.pinned = b].kind # "deploy"
    BY DEF Unused
  <2>3. /\ [Unused EXCEPT !.kind = "down", !.pc = "down"].kind # "deploy"
        /\ [Unused EXCEPT !.kind = "restore", !.pc = "halt"].kind # "deploy"
        /\ [Unused EXCEPT !.kind = "git", !.pc = "clone"].kind # "deploy"
    BY DEF Unused
  <2>4. ~LaunchRollback(j)
    <3> SUFFICES ASSUME LaunchRollback(j) PROVE FALSE
      OBVIOUS
    <3>1. PICK n : jobs' = [jobs EXCEPT ![j] = [Unused EXCEPT !.kind = "rollback", !.pc = "down",
                                                 !.version = n, !.pinned = TRUE]]
      BY DEF LaunchRollback
    <3> QED
      BY <1>1, <2>1, <3>1, Zenon
  <2>5. ~LaunchRestart(j)
    <3> SUFFICES ASSUME LaunchRestart(j) PROVE FALSE
      OBVIOUS
    <3>1. PICK b : jobs' = [jobs EXCEPT ![j] = [Unused EXCEPT !.kind = "restart", !.pc = "up",
                                                              !.pinned = b]]
      BY Zenon DEF LaunchRestart
    <3> QED
      BY <1>1, <2>2, <3>1, Zenon
  <2> QED
    BY <1>1, <2>3, <2>4, <2>5 DEF LaunchDown, LaunchRestore
<1>3. files' = [files EXCEPT !.source = j]
  BY <1>2 DEF Client, Upload
<1> QED
  BY <1>0, <1>3 DEF Directories

\* No other step touches the files and image of a deploy in flight.
LEMMA StepDeploys ==
  ASSUME SerialInv, DeploysHold, Overlap = {}, [Next]_vars
  PROVE  DeploysHold'
<1>0. TypeOK /\ OneOperation /\ PlacesHold
  BY DEF SerialInv
<1>1. ASSUME NEW j \in Jobs, Client(j)
      PROVE  DeploysHold'
  <2>1. Starts(j)
    BY <1>0, <1>1, ClientStarts
  <2>2. \A i \in Jobs \ {j} : jobs'[i].pc \in {"unused", "over"}
    BY <1>0, <2>1, StartsSerial DEF InFlight
  <2>3. jobs'[j].kind = "deploy" => files'.source = j /\ jobs'[j].pc = "provision"
    BY <1>0, <1>1, <2>1, UploadFiles DEF Starts
  <2>4. jobs'[j].kind = "git" => jobs'[j].pc = "clone"
    BY <2>1 DEF Starts
  <2>5. DeployHolds(j)'
    BY <2>1, <2>3, <2>4 DEF Starts, DeployHolds, Deploys, Tagged
  <2> QED
    BY <2>2, <2>5, IdleDeploys DEF DeploysHold
<1>2. ASSUME NEW j \in Jobs, Thread(j)
      PROVE  DeploysHold'
  <2>1. Moves(j)
    BY <1>0, <1>2, ThreadMoves
  <2>2. \A i \in Jobs \ {j} : jobs'[i].pc \in {"unused", "over"}
    BY <1>0, <2>1, MovesSerial DEF InFlight
  <2>3. DeployHolds(j)'
    BY <1>2, ThreadDeploys
  <2> QED
    BY <2>2, <2>3, IdleDeploys DEF DeploysHold
<1>3. CASE SetLimit \/ DeleteDocker \/ Handler \/ Abort \/ Neighbour
  <2>1. Stays
    BY <1>0, <1>3, OthersStay
  <2>2. CASE Abort \/ Neighbour
    <3>1. files' = files /\ built' = built /\ tags' = tags /\ snapshots' = snapshots
      BY <2>2 DEF Abort, Neighbour, Images
    <3>2. ASSUME NEW i \in Jobs PROVE DeployHolds(i)'
      BY <2>1, <3>1 DEF Stays, DeploysHold, DeployHolds, InFlight
    <3> QED
      BY <3>2 DEF DeploysHold
  <2>3. CASE SetLimit \/ DeleteDocker \/ Handler
    <3>1. \A i \in Jobs : ~InFlight(i)
      BY <1>0, <2>3 DEF SetLimit, DeleteDocker, Handler, EnforceLimit, DeleteNginx, DeleteRow,
                        OneOperation, Admits, Idle, NoTeardown
    <3>2. \A i \in Jobs : jobs'[i].pc \in {"unused", "over"}
      BY <2>1, <3>1 DEF Stays, InFlight
    <3> QED
      BY <3>2, IdleDeploys DEF DeploysHold
  <2> QED
    BY <1>3, <2>2, <2>3
<1>4. CASE Crash
  <2>1. \A i \in Jobs : jobs'[i].pc \in {"unused", "over"}
    BY <1>0, <1>4, CrashSerial DEF InFlight
  <2> QED
    BY <2>1, IdleDeploys DEF DeploysHold
<1>5. CASE UNCHANGED vars
  BY <1>5 DEF vars, DeploysHold, DeployHolds, InFlight
<1> QED
  BY <1>1, <1>2, <1>3, <1>4, <1>5 DEF Next

DeployInv == SerialInv /\ DeploysHold

\* The invariant of deploys holds at first
LEMMA DeployInit == Init => DeployInv
BY SerialInit, InitDeploys DEF DeployInv

\* and after every step.
LEMMA DeployStep ==
  ASSUME DeployInv, Overlap = {}, [Next]_vars
  PROVE  DeployInv'
BY SerialStep, StepDeploys DEF DeployInv

-----------------------------------------------------------------------------
(* Retained versions                                                        *)
(*                                                                         *)
(* RetainedVersions says nothing of a promote that has removed what it is  *)
(* about to forget: RetainedInv adds what that promote will record.        *)

\* Version n has the image and the files of job r's deploy.
KeepsOwn(r, n) == tags[n] = r /\ snapshots[n].source = r /\ snapshots[n].pin = n

Retains(t) == \A r \in Jobs : t[r].status # "absent" => KeepsOwn(r, t[r].version)

RetainedInv ==
  /\ teardown.step = "none" /\ (\A j \in Jobs : jobs[j].pc # "commit") => Retains(rows)
  /\ \A j \in Jobs : jobs[j].pc = "commit" => Retains(Final(j))

\* A recorded version is a version.
LEMMA RowVersions ==
  ASSUME SerialInv, NEW r \in Jobs, Present(r)
  PROVE  rows[r].version \in Versions
<1>1. rows[r].version \in 1..project.counter /\ project.counter \in 0..MaxVersions
  BY DEF SerialInv, Ledger, Tiers, Present, TypeOK, ProjectRecords, Names
<1> QED
  BY <1>1, ComposeAssumption DEF Versions

\* The version of a deploy is that of no row until it commits.
LEMMA NotRecorded ==
  ASSUME SerialInv, NEW j \in Jobs, jobs[j].kind \in Deploys, jobs[j].pc \in Deploying
  PROVE  /\ jobs[j].version \in Versions
         /\ \A r \in Jobs : Present(r) => rows[r].version # jobs[j].version
<1>1. jobs[j].version = project.counter + 1 /\ project.counter \in Nat
      /\ jobs[j].version \in Names
  BY VersionsTyped DEF SerialInv, Ledger, CaptureHolds, TypeOK, ProjectRecords, JobRecords
<1>2. \A r \in Jobs : Present(r) => rows[r].version \in 1..project.counter
  BY DEF SerialInv, Ledger, Tiers, Present
<1> QED
  BY <1>1, <1>2, ComposeAssumption DEF Names, Versions

\* What a promote will record, where its job has not moved but for its place.
LEMMA FinalStays ==
  ASSUME NEW j \in Jobs, rows' = rows, jobs'[j].kind = jobs[j].kind,
         jobs'[j].version = jobs[j].version, jobs'[j].limit = jobs[j].limit
  PROVE  Final(j)' = Final(j) /\ Shuffled(j)' = Shuffled(j)
<1>1. Target(j)' = Target(j)
  BY DEF Target, Present
<1>2. Shuffled(j)' = Shuffled(j)
  BY <1>1 DEF Shuffled
<1> QED
  BY <1>2 DEF Final, Pruned, Excess

\* Rows that stay, with what they keep.
LEMMA RowsKeep ==
  ASSUME SerialInv, Retains(rows), rows' = rows,
         \A n \in Versions : (\E r \in Jobs : Present(r) /\ rows[r].version = n)
           => tags'[n] = tags[n] /\ snapshots'[n] = snapshots[n]
  PROVE  Retains(rows)'
<1>1. ASSUME NEW r \in Jobs, rows[r].status # "absent"
      PROVE  KeepsOwn(r, rows[r].version)'
  <2>1. KeepsOwn(r, rows[r].version) /\ Present(r)
    BY <1>1 DEF Retains, Present
  <2>2. rows[r].version \in Versions
    BY <2>1, RowVersions
  <2> QED
    BY <2>1, <2>2 DEF KeepsOwn
<1> QED
  BY <1>1 DEF Retains

\* A thread keeps what every recorded version needs,
LEMMA ThreadRetained ==
  ASSUME DeployInv, RetainedInv, NEW j \in Jobs, Thread(j)
  PROVE  RetainedInv'
<1>0. /\ SerialInv /\ TypeOK /\ PlaceHolds(j) /\ DeployHolds(j)
      /\ CaptureHolds(j) /\ jobs[j].version \in Names
      /\ snapshots \in [Names -> Directories] /\ tags \in [Versions -> Jobs \cup {NoJob}]
  BY DEF DeployInv, SerialInv, PlacesHold, DeploysHold, Ledger, TypeOK, JobRecords
<1>1. Moves(j) /\ teardown' = NoTeardown /\ teardown = NoTeardown
  <2>1. Moves(j)
    BY <1>0, ThreadMoves
  <2> QED
    BY <1>0, <2>1 DEF Moves, SerialInv, OneOperation
<1>2. \A i \in Jobs \ {j} : jobs[i].pc # "commit" /\ jobs'[i].pc # "commit"
  BY <1>0, <1>1, MovesSerial DEF SerialInv, InFlight
<1>3. jobs[j].pc # "commit" => Retains(rows)
  BY <1>1, <1>2 DEF RetainedInv, NoTeardown
<1>4. ASSUME jobs'[j].pc # "commit", Retains(rows)'
      PROVE  RetainedInv'
  BY <1>2, <1>4 DEF RetainedInv
<1>5. CASE Commit(j)
  <2>1. jobs[j].pc = "commit" /\ rows' = Final(j) /\ tags' = tags /\ snapshots' = snapshots
    BY <1>5 DEF Commit, Images
  <2>2. Retains(Final(j))
    BY <2>1 DEF RetainedInv
  <2>3. Retains(rows)'
    BY <2>1, <2>2 DEF Retains, KeepsOwn
  <2>4. jobs'[j].pc # "commit"
    BY <1>1, <2>1 DEF Moves, NextPlaces
  <2> QED
    BY <1>4, <2>3, <2>4
<1>6. CASE Archive(j)
  <2> DEFINE gone == Forgotten(Shuffled(j), Final(j))
  <2>1. /\ jobs[j].pc = "archive" /\ rows' = rows
        /\ \/ tags' = TagsWithout(gone) /\ snapshots' = SnapshotsWithout(gone) /\ Goto(j, "commit")
           \/ tags' = tags /\ snapshots' = snapshots /\ Goto(j, "fail")
    BY <1>6 DEF Archive, Database
  <2>2. CASE tags' = tags /\ snapshots' = snapshots /\ Goto(j, "fail")
    <3>1. jobs'[j].pc = "fail"
      BY <1>0, <2>2 DEF Goto, TypeOK, JobRecords
    <3>2. Retains(rows)'
      BY <1>0, <1>3, <2>1, <2>2, RowsKeep
    <3> QED
      BY <1>4, <3>1, <3>2
  <2>3. CASE tags' = TagsWithout(gone) /\ snapshots' = SnapshotsWithout(gone) /\ Goto(j, "commit")
    <3>1. jobs'[j].pc = "commit"
      BY <1>0, <2>3 DEF Goto, TypeOK, JobRecords
    <3>2. Final(j)' = Final(j)
      <4>1. jobs'[j].kind = jobs[j].kind /\ jobs'[j].version = jobs[j].version
            /\ jobs'[j].limit = jobs[j].limit
        BY <1>1, <2>1, <3>1 DEF Moves, Carries
      <4> QED
        BY <2>1, <4>1, FinalStays
    <3>3. PICK t \in Jobs :
            /\ Target(j) = {t}
            /\ jobs[j].kind \in Deploys => t = j /\ ~Present(j)
            /\ jobs[j].kind = "rollback" => Present(t) /\ rows[t].version = jobs[j].version
      BY <1>0, <2>1, TargetShape DEF SerialInv
    <3>4. /\ Shuffled(j)[t] = [version |-> jobs[j].version, status |-> "active"]
          /\ \A r \in Jobs \ {t} :
               Shuffled(j)[r] = IF rows[r].status = "active"
                                THEN [version |-> rows[r].version, status |-> "archived"]
                                ELSE rows[r]
      BY <1>0, <2>1, <3>3, ShuffledShape DEF SerialInv
    <3>5. ASSUME NEW r \in Jobs, Final(j)[r].status # "absent"
          PROVE  KeepsOwn(r, Final(j)[r].version)'
      <4>1. Final(j)[r] = Shuffled(j)[r]
        BY <3>5, PrunedShape DEF Final, NoRow
      <4> DEFINE n == Shuffled(j)[r].version
      <4>2. n \notin gone
        BY <1>0, <2>1, <3>5, <4>1, ArchiveForgets DEF Loaded
      <4>3. n \in Versions /\ KeepsOwn(r, n)
        <5>1. CASE r = t /\ jobs[j].kind \in Deploys
          <6>1. n = jobs[j].version /\ r = j
            BY <3>3, <3>4, <5>1
          <6>2. tags[n] = j /\ snapshots[n] = files /\ files.source = j /\ files.pin = n
            BY <1>0, <2>1, <5>1, <6>1 DEF DeployHolds, Tagged
          <6>3. n \in Versions
            BY <1>0, <2>1, <5>1, <6>1, NotRecorded DEF Deploying
          <6> QED
            BY <6>1, <6>2, <6>3 DEF KeepsOwn
        <5>2. CASE r # t \/ jobs[j].kind \notin Deploys
          <6>1. Present(r) /\ n = rows[r].version
            <7>1. CASE r = t
              BY <1>0, <2>1, <3>3, <3>4, <5>2, <7>1 DEF PlaceHolds
            <7>2. CASE r # t
              <8>1. CASE rows[r].status = "active"
                <9>1. Shuffled(j)[r] = [version |-> rows[r].version, status |-> "archived"]
                  BY <3>4, <7>2, <8>1
                <9>2. Shuffled(j)[r].version = rows[r].version
                  BY <9>1
                <9> QED
                  BY <8>1, <9>2 DEF Present
              <8>2. CASE rows[r].status # "active"
                BY <3>4, <3>5, <4>1, <7>2, <8>2 DEF Present
              <8> QED
                BY <8>1, <8>2
            <7> QED
              BY <7>1, <7>2
          <6>2. KeepsOwn(r, rows[r].version)
            BY <1>3, <2>1, <6>1 DEF Retains, Present
          <6>3. rows[r].version \in Versions
            BY <1>0, <6>1, RowVersions
          <6> QED
            BY <6>1, <6>2, <6>3
        <5> QED
          BY <5>1, <5>2
      <4> HIDE DEF n, gone
      <4>4. n \in Names
        BY <4>3, VersionsTyped
      <4>5. tags'[n] = tags[n] /\ snapshots'[n] = snapshots[n]
        BY <2>3, <4>2, <4>3, <4>4 DEF TagsWithout, SnapshotsWithout
      <4>6. tags'[n] = r /\ snapshots'[n].source = r /\ snapshots'[n].pin = n
        BY <4>3, <4>5 DEF KeepsOwn
      <4>7. Final(j)'[r].version = n
        BY <3>2, <4>1 DEF n
      <4> QED
        BY <3>2, <4>6, <4>7 DEF KeepsOwn
    <3>6. Retains(Final(j))'
      BY <3>2, <3>5 DEF Retains
    <3> QED
      BY <1>2, <3>1, <3>6 DEF RetainedInv
  <2> QED
    BY <2>1, <2>2, <2>3
<1>7. CASE Tag(j)
  <2>1. jobs[j].pc = "tag" /\ rows' = rows /\ snapshots' = snapshots
        /\ (tags' = tags \/ tags' = [tags EXCEPT ![jobs[j].version] = built])
    BY <1>7 DEF Tag, Database
  <2>2. \A r \in Jobs : Present(r) => rows[r].version # jobs[j].version
    BY <1>0, <2>1, NotRecorded DEF PlaceHolds, Deploying
  <2>3. Retains(rows)'
    BY <1>0, <1>3, <2>1, <2>2, RowsKeep
  <2>4. jobs'[j].pc # "commit"
    BY <1>1, <2>1 DEF Moves, NextPlaces
  <2> QED
    BY <1>4, <2>3, <2>4
<1>8. CASE Promote(j)
  <2>1. /\ jobs[j].pc = "promote" /\ rows' = rows /\ tags' = tags
        /\ \/ snapshots' = snapshots
           \/ /\ snapshots' = [snapshots EXCEPT ![jobs[j].version] = files]
              /\ jobs[j].kind \in Deploys
    BY <1>8 DEF Promote, Database, Images
  <2>2. jobs[j].kind \in Deploys =>
          \A r \in Jobs : Present(r) => rows[r].version # jobs[j].version
    BY <1>0, <2>1, NotRecorded DEF Deploying
  <2>3. Retains(rows)'
    <3>1. \A n \in Versions : n \in Names
      BY VersionsTyped
    <3> QED
      BY <1>0, <1>3, <2>1, <2>2, <3>1, RowsKeep
  <2>4. jobs'[j].pc # "commit"
    BY <1>1, <2>1 DEF Moves, NextPlaces
  <2> QED
    BY <1>4, <2>3, <2>4
<1>9. CASE Fail(j)
  <2>1. /\ jobs[j].pc = "fail" /\ rows' = rows /\ snapshots' = snapshots
        /\ tags' = IF jobs[j].tagged THEN TagsWithout({jobs[j].version}) ELSE tags
    BY <1>9 DEF Fail, Database
  <2>2. jobs[j].tagged => \A r \in Jobs : Present(r) => rows[r].version # jobs[j].version
    BY <1>0, <2>1, NotRecorded DEF Deploying, DeployHolds, InFlight
  <2>3. Retains(rows)'
    <3>1. ASSUME NEW n \in Versions, \E r \in Jobs : Present(r) /\ rows[r].version = n
          PROVE  tags'[n] = tags[n] /\ snapshots'[n] = snapshots[n]
      BY <2>1, <2>2, <3>1 DEF TagsWithout
    <3> QED
      BY <1>0, <1>3, <2>1, <3>1, RowsKeep
  <2>4. jobs'[j].pc # "commit"
    BY <1>1, <2>1 DEF Moves, NextPlaces
  <2> QED
    BY <1>4, <2>3, <2>4
<1>10. CASE ~(Commit(j) \/ Archive(j) \/ Tag(j) \/ Promote(j) \/ Fail(j))
  <2>1. rows' = rows /\ tags' = tags /\ snapshots' = snapshots
        /\ jobs[j].pc \notin {"commit"} /\ (jobs[j].pc = "archive" => LockTimeout(j))
    BY <1>10 DEF Thread, Clone, Provision, ProvisionFails, SetupNginx, RecordPort, RejectVhost,
       Launch, LaunchRefused, Build, Down, Replace, Copy, Up, Recover, Halt, Extract, LockTimeout,
       Finish, Monitor, Database, Images
  <2>2. Retains(rows)'
    BY <1>0, <1>3, <2>1, RowsKeep
  <2>3. jobs'[j].pc # "commit"
    <3>1. CASE jobs[j].pc = "archive"
      BY <1>0, <2>1, <3>1 DEF LockTimeout, Goto, TypeOK, JobRecords
    <3>2. CASE jobs[j].pc # "archive"
      BY <1>1, <3>2 DEF Moves, NextPlaces
    <3> QED
      BY <3>1, <3>2
  <2> QED
    BY <1>4, <2>2, <2>3
<1> QED
  BY <1>5, <1>6, <1>7, <1>8, <1>9, <1>10

\* Requests and their handlers, while no job is in flight, and what runs beside jobs.
LEMMA HandlerRetained ==
  ASSUME DeployInv, RetainedInv, Overlap = {},
         SetLimit \/ DeleteDocker \/ Handler \/ Abort \/ Neighbour
  PROVE  RetainedInv'
<1>0. TypeOK /\ OneOperation /\ Ledger /\ SerialInv
  BY DEF DeployInv, SerialInv
<1>1. Stays
  BY <1>0, OthersStay
<1>2. \A j \in Jobs : jobs'[j].pc = jobs[j].pc
  BY <1>1 DEF Stays
<1>3. CASE Abort \/ Neighbour
  <2>1. rows' = rows /\ tags' = tags /\ snapshots' = snapshots /\ teardown' = teardown
    BY <1>3 DEF Abort, Neighbour, Database, Images, Requests
  <2>2. \A j \in Jobs : Final(j)' = Final(j)
    BY <1>1, <2>1, FinalStays DEF Stays
  <2>3. \A r \in Jobs : \A n : KeepsOwn(r, n)' <=> KeepsOwn(r, n)
    BY <2>1 DEF KeepsOwn
  <2>4. Retains(rows)' <=> Retains(rows)
    BY <2>1, <2>3 DEF Retains, KeepsOwn
  <2>5. \A j \in Jobs : Retains(Final(j))' <=> Retains(Final(j))
    BY <2>1, <2>2, <2>3 DEF Retains, KeepsOwn
  <2> QED
    BY <1>2, <2>1, <2>4, <2>5 DEF RetainedInv
<1>4. CASE SetLimit \/ DeleteDocker \/ Handler
  <2>0. \A i \in Jobs : ~InFlight(i)
    BY <1>0, <1>4 DEF SetLimit, DeleteDocker, Handler, EnforceLimit, DeleteNginx, DeleteRow,
                      OneOperation, Admits, Idle, NoTeardown
  <2>1. \A j \in Jobs : jobs[j].pc # "commit" /\ jobs'[j].pc # "commit"
    BY <1>2, <2>0 DEF InFlight
  <2>2. teardown.step = "none" => Retains(rows)
    BY <2>1 DEF RetainedInv
  <2>3. ASSUME teardown'.step = "none" => Retains(rows)'
        PROVE  RetainedInv'
    BY <2>1, <2>3 DEF RetainedInv
  <2>4. CASE SetLimit
    <3>1. rows' = rows /\ tags' = tags /\ snapshots' = snapshots /\ teardown' = teardown
      BY <2>4 DEF SetLimit, Images
    <3>2. teardown.step = "none" => Retains(rows)'
      BY <1>0, <2>2, <3>1, RowsKeep
    <3> QED
      BY <2>3, <3>1, <3>2
  <2>5. CASE DeleteDocker
    <3>1. teardown'.step = "nginx"
      BY <2>5 DEF DeleteDocker
    <3> QED
      BY <2>3, <3>1
  <2>6. CASE DeleteNginx
    <3>1. teardown'.step = "row"
      BY <1>0, <2>6 DEF DeleteNginx, TypeOK
    <3> QED
      BY <2>3, <3>1
  <2>7. CASE DeleteRow
    <3>1. rows' = [r \in Jobs |-> IF r \in teardown.doomed THEN NoRow ELSE rows[r]]
          /\ teardown.step = "row"
      BY <2>7 DEF DeleteRow
    <3>2. \A r \in Jobs : rows'[r].status = "absent"
      <4>1. ASSUME NEW r \in Jobs, r \notin teardown.doomed
            PROVE  rows[r].status = "absent"
        BY <1>0, <3>1, <4>1 DEF Ledger, RowsAreCommitted, Present
      <4> QED
        BY <3>1, <4>1 DEF NoRow
    <3> QED
      BY <2>3, <3>2 DEF Retains
  <2>8. CASE EnforceLimit
    <3> DEFINE final == IF project.exists THEN Pruned(rows, project.limit) ELSE rows
               gone == Forgotten(rows, final)
    <3>0. rows' = final /\ tags' = TagsWithout(gone) /\ snapshots' = SnapshotsWithout(gone)
          /\ teardown' = teardown /\ teardown = NoTeardown
      BY <1>0, <2>8 DEF EnforceLimit, OneOperation
    <3>1. Retains(rows)
      BY <2>2, <3>0 DEF NoTeardown
    <3>2. ASSUME NEW r \in Jobs, final[r].status # "absent"
          PROVE  final[r] = rows[r] /\ Present(r) /\ rows[r].version \notin gone
      <4>1. CASE project.exists
        <5>1. final = Pruned(rows, project.limit)
          BY <4>1
        <5>2. final[r] = rows[r] /\ Present(r)
          BY <3>2, <5>1, PrunedShape DEF NoRow, Present
        <5>3. Tiers(rows, project.counter) /\ rows[r].status # "absent"
          BY <1>0, <5>2 DEF Ledger, Present
        <5>4. rows[r].version \in gone <=> final[r].status = "absent"
          BY <5>1, <5>3, PrunedForgets
        <5> QED
          BY <3>2, <5>2, <5>4
      <4>2. CASE ~project.exists
        <5>1. final = rows
          BY <4>2
        <5> QED
          BY <3>2, <5>1 DEF Present, Forgotten
      <4> QED
        BY <4>1, <4>2
    <3>3. ASSUME NEW r \in Jobs, rows'[r].status # "absent"
          PROVE  KeepsOwn(r, rows[r].version)' /\ rows'[r].version = rows[r].version
      <4>1. rows'[r] = rows[r] /\ Present(r) /\ rows[r].version \notin gone
        BY <3>0, <3>2, <3>3
      <4>2. KeepsOwn(r, rows[r].version) /\ rows[r].version \in Versions
        BY <1>0, <3>1, <4>1, RowVersions DEF Retains, Present
      <4> DEFINE n == rows[r].version
      <4>3. n \in Versions /\ n \notin gone /\ n \in Names /\ KeepsOwn(r, n)
        BY <4>1, <4>2, VersionsTyped
      <4> HIDE DEF n, gone
      <4>4. tags'[n] = tags[n] /\ snapshots'[n] = snapshots[n]
        BY <3>0, <4>3 DEF TagsWithout, SnapshotsWithout
      <4>5. tags'[n] = r /\ snapshots'[n].source = r /\ snapshots'[n].pin = n
        BY <4>3, <4>4 DEF KeepsOwn
      <4>6. rows'[r].version = n
        BY <4>1 DEF n
      <4> QED
        BY <4>5, <4>6 DEF KeepsOwn, n
    <3>4. Retains(rows)'
      BY <3>3 DEF Retains, KeepsOwn
    <3> QED
      BY <2>3, <3>4
  <2> QED
    BY <1>4, <2>4, <2>5, <2>6, <2>7, <2>8 DEF Handler
<1> QED
  BY <1>3, <1>4

\* and so do launches,
LEMMA ClientRetained ==
  ASSUME DeployInv, RetainedInv, Overlap = {}, NEW j \in Jobs, Client(j)
  PROVE  RetainedInv'
<1>0. TypeOK /\ OneOperation /\ PlacesHold /\ SerialInv
  BY DEF DeployInv, SerialInv
<1>1. Starts(j)
  BY <1>0, ClientStarts
<1>2. \A i \in Jobs : jobs[i].pc # "commit" /\ jobs'[i].pc # "commit"
  <2>1. \A i \in Jobs \ {j} : jobs[i].pc # "commit" /\ jobs'[i].pc # "commit"
    BY <1>0, <1>1, StartsSerial DEF InFlight
  <2> QED
    BY <1>1, <2>1 DEF Starts
<1>3. rows' = rows /\ tags' = tags /\ snapshots' = snapshots /\ teardown.step = "none"
  BY <1>1 DEF Client, Upload, LaunchRollback, LaunchRestart, LaunchDown, LaunchRestore, Database,
     Images, Starts, Idle, NoTeardown
<1>4. Retains(rows)'
  BY <1>0, <1>2, <1>3, RowsKeep DEF RetainedInv
<1> QED
  BY <1>2, <1>4 DEF RetainedInv

\* and every step without a crash.
LEMMA StepRetained ==
  ASSUME DeployInv, RetainedInv, Overlap = {}, "crash" \notin Faults, [Next]_vars
  PROVE  RetainedInv'
<1>1. CASE \E j \in Jobs : Client(j)
  BY <1>1, ClientRetained
<1>2. CASE \E j \in Jobs : Thread(j)
  BY <1>2, ThreadRetained
<1>3. CASE SetLimit \/ DeleteDocker \/ Handler \/ Abort \/ Neighbour
  BY <1>3, HandlerRetained
<1>4. ~Crash
  BY DEF Crash
<1>5. CASE UNCHANGED vars
  <2>1. rows' = rows /\ tags' = tags /\ snapshots' = snapshots /\ teardown' = teardown
        /\ jobs' = jobs
    BY <1>5 DEF vars
  <2>2. \A j \in Jobs : Final(j)' = Final(j)
    BY <2>1, FinalStays
  <2>3. \A j \in Jobs : Retains(Final(j))' <=> Retains(Final(j))
    BY <2>1, <2>2 DEF Retains, KeepsOwn
  <2>4. Retains(rows)' <=> Retains(rows)
    BY <2>1 DEF Retains, KeepsOwn
  <2> QED
    BY <2>1, <2>3, <2>4 DEF RetainedInv
<1> QED
  BY <1>1, <1>2, <1>3, <1>4, <1>5 DEF Next

\* At first there is nothing to retain.
LEMMA InitRetained == Init => RetainedInv
BY DEF Init, RetainedInv, Retains, NoRow, Unused

\* Without overlaps and crashes, every recorded version keeps the image and the
\* snapshot of its own deploy (RetainedVersions), whatever fails.
THEOREM VersionsRetained ==
  Overlap = {} /\ "crash" \notin Faults => (Spec => []RetainedVersions)
<1> SUFFICES ASSUME Overlap = {}, "crash" \notin Faults
             PROVE  Spec => []RetainedVersions
  OBVIOUS
<1>1. Init => DeployInv /\ RetainedInv
  BY DeployInit, InitRetained
<1>2. DeployInv /\ RetainedInv /\ [Next]_vars => (DeployInv /\ RetainedInv)'
  BY DeployStep, StepRetained
<1>3. DeployInv /\ RetainedInv => RetainedVersions
  <2> SUFFICES ASSUME DeployInv, RetainedInv, Unlocked, teardown = NoTeardown,
                      NEW r \in Jobs, Present(r)
               PROVE  KeepsOwn(r, rows[r].version)
    BY DEF RetainedVersions, KeepsOwn
  <2>1. Retains(rows)
    BY DEF RetainedInv, Unlocked, NoTeardown
  <2> QED
    BY <2>1 DEF Retains, Present
<1> QED
  BY <1>1, <1>2, <1>3, PTL DEF Spec

-----------------------------------------------------------------------------
(* The port of a deploy or rollback                                         *)

\* Job j has provisioned the project, and replaces its directory no more.
Provisioned(j) ==
  \/ /\ jobs[j].kind \in Deploys \cup {"rollback"}
     /\ jobs[j].pc \in {"vhost", "record", "launch", "build", "tag", "up", "recover",
                        "promote", "archive", "commit", "finish"}
  \/ jobs[j].kind \in Deploys /\ jobs[j].pc = "down"

\* The port it has taken is in the override, then in the vhost, then in the database.
RouteHolds(j) ==
  Provisioned(j) =>
    /\ jobs[j].port # NoPort /\ files.port = jobs[j].port
    /\ jobs[j].pc # "vhost" => nginx = jobs[j].port
    /\ jobs[j].pc \notin {"vhost", "record"} => project.port = jobs[j].port

RoutesHold == \A j \in Jobs : RouteHolds(j)

\* A job that is not in flight has no port.
LEMMA IdleRoutes ==
  ASSUME NEW i \in Jobs, ~InFlight(i)'
  PROVE  RouteHolds(i)'
BY DEF RouteHolds, Provisioned, InFlight

\* A step that changes no port, on the way of j.
LEMMA MovesRoute ==
  ASSUME NEW j \in Jobs, Moves(j), PlaceHolds(j), RouteHolds(j),
         jobs[j].pc \notin {"provision", "vhost", "record"},
         files'.port = files.port \/ jobs[j].pc \in {"clone", "replace", "copy"},
         nginx' = nginx, project'.port = project.port
  PROVE  RouteHolds(j)'
<1>1. CASE jobs'[j].pc = "over"
  BY <1>1, IdleRoutes DEF InFlight
<1>2. CASE jobs'[j].pc # "over"
  <2>1. /\ jobs'[j].kind = jobs[j].kind /\ jobs'[j].pc \in NextPlaces(jobs[j].kind, jobs[j].pc)
        /\ jobs'[j].port = jobs[j].port
    BY <1>2 DEF Moves, Carries
  <2>2. Provisioned(j)' => /\ Provisioned(j) /\ jobs'[j].pc \notin {"vhost", "record"}
                           /\ jobs[j].pc \notin {"clone", "replace", "copy"}
    BY <2>1 DEF Provisioned, NextPlaces, PlaceHolds, Deploys
  <2> QED
    BY <2>1, <2>2 DEF RouteHolds
<1> QED
  BY <1>1, <1>2

\* A job keeps the port it was given in its files, nginx and the database.
LEMMA ThreadRoutes ==
  ASSUME SerialInv, RoutesHold, NEW j \in Jobs, Thread(j)
  PROVE  RouteHolds(j)'
<1>0. /\ TypeOK /\ PlaceHolds(j) /\ RouteHolds(j) /\ Moves(j)
      /\ jobs \in [Jobs -> JobRecords] /\ files \in Directories /\ project \in ProjectRecords
  <2>1. TypeOK /\ PlaceHolds(j) /\ RouteHolds(j)
    BY DEF SerialInv, PlacesHold, RoutesHold
  <2>2. Moves(j)
    BY <2>1, ThreadMoves
  <2> QED
    BY <2>1, <2>2 DEF TypeOK
<1>1. CASE Provision(j)
  <2>1. NextPort # NoPort
    BY <1>1, NextPortIsFree, ComposeAssumption DEF Provision, FreePorts, NoPort
  <2>2. jobs'[j].pc = "vhost" /\ jobs'[j].port = NextPort
    BY <1>0, <1>1 DEF Provision, JobRecords
  <2>3. files'.port = NextPort
    BY <1>0, <1>1 DEF Provision, Directories
  <2> QED
    BY <2>1, <2>2, <2>3 DEF RouteHolds
<1>2. CASE SetupNginx(j)
  <2>1. jobs[j].pc = "vhost" /\ nginx' = jobs[j].port /\ files' = files
    BY <1>2 DEF SetupNginx
  <2>2. jobs'[j].pc = "record"
    BY <1>0, <1>2 DEF SetupNginx, Goto, JobRecords
  <2>3. jobs'[j].port = jobs[j].port /\ Provisioned(j)
    BY <1>0, <2>1, <2>2 DEF Moves, Carries, Provisioned, PlaceHolds
  <2> QED
    BY <1>0, <2>1, <2>2, <2>3 DEF RouteHolds
<1>3. CASE RecordPort(j)
  <2>1. jobs[j].pc = "record" /\ nginx' = nginx /\ files' = files
        /\ project' = [project EXCEPT !.port = jobs[j].port]
    BY <1>3 DEF RecordPort
  <2>2. jobs'[j].pc \in {"up", "launch"} /\ project'.port = jobs[j].port
    BY <1>0, <2>1 DEF Moves, NextPlaces, ProjectRecords
  <2>3. jobs'[j].port = jobs[j].port /\ Provisioned(j)
    BY <1>0, <2>1, <2>2 DEF Moves, Carries, Provisioned, PlaceHolds
  <2> QED
    BY <1>0, <2>1, <2>2, <2>3 DEF RouteHolds
<1>4. CASE ProvisionFails(j) \/ RejectVhost(j) \/ (LockTimeout(j) /\ jobs[j].pc = "provision")
  <2>1. jobs[j].pc \in {"provision", "vhost"} /\ (Unprovisioned(j) \/ Goto(j, "fail"))
    BY <1>4 DEF ProvisionFails, RejectVhost, LockTimeout
  <2>2. jobs'[j].pc \in {"fail", "over"}
    <3>1. CASE Goto(j, "fail")
      BY <1>0, <3>1 DEF Goto, JobRecords
    <3>2. CASE Over(j)
      BY <1>0, <3>2 DEF Over, Unused
    <3> QED
      BY <2>1, <3>1, <3>2 DEF Unprovisioned
  <2> QED
    BY <2>2 DEF RouteHolds, Provisioned
<1>5. CASE ~(Provision(j) \/ SetupNginx(j) \/ RecordPort(j) \/ ProvisionFails(j) \/ RejectVhost(j)
             \/ (LockTimeout(j) /\ jobs[j].pc = "provision"))
  <2>1. /\ nginx' = nginx
        /\ jobs[j].pc \notin {"provision", "vhost", "record"}
        /\ files' = files \/ jobs[j].pc \in {"clone", "replace", "copy", "tag"}
    BY <1>5, Zenon DEF Thread, Clone, Launch, LaunchRefused, Build, Tag, Down, Replace, Copy, Up,
       Recover, Halt, Extract, Promote, Archive, LockTimeout, Commit, Finish, Fail, Monitor
  <2>2. jobs[j].pc = "tag" => files'.port = files.port
    BY <1>0, <1>5 DEF Thread, Clone, Launch, LaunchRefused, Build, Tag, Down, Replace, Copy, Up,
       Recover, Halt, Extract, Promote, Archive, LockTimeout, Commit, Finish, Fail, Monitor,
       Directories
  <2>3. project'.port = project.port
    <3>1. CASE Commit(j)
      BY <1>0, <3>1 DEF Commit, ProjectRecords
    <3>2. CASE ~Commit(j)
      BY <1>5, <3>2, Zenon DEF Thread, Clone, Launch, LaunchRefused, Build, Tag, Down, Replace,
         Copy, Up, Recover, Halt, Extract, Promote, Archive, LockTimeout, Finish, Fail, Monitor,
         Database
    <3> QED
      BY <3>1, <3>2
  <2> QED
    BY <1>0, <2>1, <2>2, <2>3, MovesRoute
<1> QED
  BY <1>1, <1>2, <1>3, <1>4, <1>5

\* At first no job has a port.
LEMMA InitRoutes == Init => RoutesHold
BY DEF Init, RoutesHold, RouteHolds, Provisioned, Unused

\* No other step disturbs the ports of a job in flight.
LEMMA StepRoutes ==
  ASSUME SerialInv, RoutesHold, Overlap = {}, [Next]_vars
  PROVE  RoutesHold'
<1>0. TypeOK /\ OneOperation /\ PlacesHold
  BY DEF SerialInv
<1>1. ASSUME NEW j \in Jobs, Client(j)
      PROVE  RoutesHold'
  <2>1. Starts(j)
    BY <1>0, <1>1, ClientStarts
  <2>2. \A i \in Jobs \ {j} : ~InFlight(i)'
    BY <1>0, <2>1, StartsSerial
  <2>3. RouteHolds(j)'
    BY <2>1 DEF Starts, RouteHolds, Provisioned, Deploys
  <2> QED
    BY <2>2, <2>3, IdleRoutes DEF RoutesHold
<1>2. ASSUME NEW j \in Jobs, Thread(j)
      PROVE  RoutesHold'
  <2>1. Moves(j)
    BY <1>0, <1>2, ThreadMoves
  <2>2. \A i \in Jobs \ {j} : ~InFlight(i)'
    BY <1>0, <2>1, MovesSerial
  <2>3. RouteHolds(j)'
    BY <1>2, ThreadRoutes
  <2> QED
    BY <2>2, <2>3, IdleRoutes DEF RoutesHold
<1>3. CASE SetLimit \/ DeleteDocker \/ Handler \/ Abort \/ Neighbour
  <2>1. Stays
    BY <1>0, <1>3, OthersStay
  <2>2. CASE Abort \/ Neighbour
    <3>1. files' = files /\ nginx' = nginx /\ project' = project
      BY <2>2 DEF Abort, Neighbour, Database
    <3>2. ASSUME NEW i \in Jobs PROVE RouteHolds(i)'
      BY <2>1, <3>1 DEF Stays, RoutesHold, RouteHolds, Provisioned
    <3> QED
      BY <3>2 DEF RoutesHold
  <2>3. CASE SetLimit \/ DeleteDocker \/ Handler
    <3>1. \A i \in Jobs : ~InFlight(i)
      BY <1>0, <2>3 DEF SetLimit, DeleteDocker, Handler, EnforceLimit, DeleteNginx, DeleteRow,
                        OneOperation, Admits, Idle, NoTeardown
    <3>2. \A i \in Jobs : ~InFlight(i)'
      BY <2>1, <3>1 DEF Stays, InFlight
    <3> QED
      BY <3>2, IdleRoutes DEF RoutesHold
  <2> QED
    BY <1>3, <2>2, <2>3
<1>4. CASE Crash
  <2>1. \A i \in Jobs : ~InFlight(i)'
    BY <1>0, <1>4, CrashSerial
  <2> QED
    BY <2>1, IdleRoutes DEF RoutesHold
<1>5. CASE UNCHANGED vars
  BY <1>5 DEF vars, RoutesHold, RouteHolds, Provisioned
<1> QED
  BY <1>1, <1>2, <1>3, <1>4, <1>5 DEF Next

-----------------------------------------------------------------------------
(* What deploys that fail leave                                             *)

NothingKept ==
  /\ \A n \in Versions : tags[n] = NoJob
  /\ \A n \in Names : snapshots[n] = NoFiles

\* A project that was never provisioned, or is being deleted, has no artifacts.
PendingInv == project.port = NoPort \/ teardown.step # "none" => NothingKept

\* Nothing kept stays nothing where nothing is added.
LEMMA StillNothing ==
  ASSUME NothingKept, tags' = tags \/ \E S : tags' = TagsWithout(S),
         snapshots' = snapshots \/ \E S : snapshots' = SnapshotsWithout(S)
  PROVE  NothingKept'
<1>1. \A n \in Versions : tags'[n] = NoJob
  BY DEF NothingKept, TagsWithout
<1>2. \A n \in Names : snapshots'[n] = NoFiles
  BY DEF NothingKept, SnapshotsWithout
<1> QED
  BY <1>1, <1>2 DEF NothingKept

\* A thread saves artifacts only for a project that has been provisioned.
LEMMA ThreadPending ==
  ASSUME SerialInv, RoutesHold, PendingInv, NEW j \in Jobs, Thread(j)
  PROVE  PendingInv'
<1>0. /\ TypeOK /\ PlaceHolds(j) /\ RouteHolds(j) /\ Moves(j)
      /\ project \in ProjectRecords
  <2>1. TypeOK /\ PlaceHolds(j) /\ RouteHolds(j)
    BY DEF SerialInv, PlacesHold, RoutesHold
  <2>2. Moves(j)
    BY <2>1, ThreadMoves
  <2> QED
    BY <2>1, <2>2 DEF TypeOK
<1>1. teardown' = teardown /\ teardown = NoTeardown
  BY <1>0 DEF Moves, SerialInv, OneOperation
<1>2. ASSUME project'.port # NoPort
      PROVE  PendingInv'
  BY <1>1, <1>2 DEF PendingInv, NoTeardown
<1>3. ASSUME project'.port = project.port,
             tags' = tags \/ \E S : tags' = TagsWithout(S),
             snapshots' = snapshots \/ \E S : snapshots' = SnapshotsWithout(S)
      PROVE  PendingInv'
  BY <1>1, <1>3, StillNothing DEF PendingInv
<1>4. CASE Tag(j)
  <2>1. Provisioned(j) /\ jobs[j].pc = "tag" /\ project' = project
    BY <1>0, <1>4 DEF Tag, PlaceHolds, Provisioned, Database
  <2> QED
    BY <1>0, <1>2, <2>1 DEF RouteHolds
<1>5. CASE Promote(j)
  <2>1. /\ jobs[j].pc = "promote" /\ project' = project /\ tags' = tags
        /\ jobs[j].kind \notin Deploys => snapshots' = snapshots
    BY <1>5 DEF Promote, Database, Images
  <2>2. CASE jobs[j].kind \in Deploys
    BY <1>0, <1>2, <2>1, <2>2 DEF RouteHolds, Provisioned
  <2>3. CASE jobs[j].kind \notin Deploys
    BY <1>3, <2>1, <2>3
  <2> QED
    BY <2>2, <2>3
<1>6. CASE Archive(j)
  BY <1>3, <1>6 DEF Archive, Database
<1>7. CASE Fail(j)
  BY <1>3, <1>7 DEF Fail, Database
<1>8. CASE RecordPort(j)
  <2>1. Provisioned(j) /\ project'.port = jobs[j].port
    BY <1>0, <1>8 DEF RecordPort, PlaceHolds, Provisioned, ProjectRecords
  <2> QED
    BY <1>0, <1>2, <2>1 DEF RouteHolds
<1>9. CASE Commit(j)
  <2>1. project'.port = project.port /\ tags' = tags /\ snapshots' = snapshots
    BY <1>0, <1>9 DEF Commit, ProjectRecords, Images
  <2> QED
    BY <1>3, <2>1
<1>10. CASE ~(Tag(j) \/ Promote(j) \/ Archive(j) \/ Fail(j) \/ RecordPort(j) \/ Commit(j))
  <2>1. project' = project /\ tags' = tags /\ snapshots' = snapshots
    BY <1>10, Zenon DEF Thread, Clone, Provision, ProvisionFails, SetupNginx, RejectVhost, Launch,
       LaunchRefused, Build, Down, Replace, Copy, Up, Recover, Halt, Extract, LockTimeout,
       Finish, Monitor, Database, Images
  <2> QED
    BY <1>3, <2>1
<1> QED
  BY <1>4, <1>5, <1>6, <1>7, <1>8, <1>9, <1>10

\* Nor does any other step.
LEMMA StepPending ==
  ASSUME SerialInv, RoutesHold, PendingInv, Overlap = {}, "crash" \notin Faults, [Next]_vars
  PROVE  PendingInv'
<1>0. TypeOK /\ OneOperation /\ Ledger /\ project \in ProjectRecords
  BY DEF SerialInv, TypeOK
<1>1. ASSUME NEW j \in Jobs, Client(j)
      PROVE  PendingInv'
  <2>1. /\ tags' = tags /\ snapshots' = snapshots /\ teardown' = teardown
        /\ project' = project \/ (~project.exists /\ project' = NewProject)
    BY <1>1 DEF Client, Upload, LaunchRollback, LaunchRestart, LaunchDown, LaunchRestore,
       Database, Images, Requests
  <2>2. project'.port = NoPort => project.port = NoPort
    BY <1>0, <2>1 DEF Ledger, RowsAreCommitted, NoProject
  <2> QED
    BY <2>1, <2>2, StillNothing DEF PendingInv
<1>2. CASE \E j \in Jobs : Thread(j)
  BY <1>2, ThreadPending
<1>3. CASE SetLimit
  <2>1. project'.port = project.port /\ tags' = tags /\ snapshots' = snapshots
        /\ teardown' = teardown
    BY <1>0, <1>3 DEF SetLimit, ProjectRecords, Images
  <2> QED
    BY <2>1, StillNothing DEF PendingInv
<1>4. CASE DeleteDocker
  <2>1. CASE project.port = NoPort
    <3>1. tags' = tags /\ snapshots' = snapshots
      BY <1>4, <2>1 DEF DeleteDocker, Images
    <3>2. NothingKept'
      BY <2>1, <3>1, StillNothing DEF PendingInv
    <3> QED
      BY <3>2 DEF PendingInv
  <2>2. CASE project.port # NoPort
    <3>1. tags' = TagsWithout(Versions) /\ snapshots' = SnapshotsWithout(Names)
      BY <1>4, <2>2 DEF DeleteDocker
    <3>2. NothingKept'
      BY <3>1 DEF NothingKept, TagsWithout, SnapshotsWithout
    <3> QED
      BY <3>2 DEF PendingInv
  <2> QED
    BY <2>1, <2>2
<1>5. CASE EnforceLimit
  <2>1. project' = project /\ teardown' = teardown
        /\ (\E S : tags' = TagsWithout(S)) /\ (\E S : snapshots' = SnapshotsWithout(S))
    BY <1>5 DEF EnforceLimit
  <2> QED
    BY <2>1, StillNothing DEF PendingInv
<1>6. CASE DeleteNginx \/ DeleteRow
  <2>1. tags' = tags /\ snapshots' = snapshots /\ teardown.step # "none"
    BY <1>6 DEF DeleteNginx, DeleteRow, Images
  <2>2. NothingKept'
    BY <2>1, StillNothing DEF PendingInv
  <2> QED
    BY <2>2 DEF PendingInv
<1>7. CASE Abort \/ Neighbour \/ UNCHANGED vars
  <2>1. project' = project /\ tags' = tags /\ snapshots' = snapshots /\ teardown' = teardown
    BY <1>7 DEF Abort, Neighbour, Database, Images, Requests, vars
  <2> QED
    BY <2>1, StillNothing DEF PendingInv
<1>8. ~Crash
  BY DEF Crash
<1> QED
  BY <1>1, <1>2, <1>3, <1>4, <1>5, <1>6, <1>7, <1>8 DEF Next, Handler

\* The row that t has of job x is of version n.
MadeBy(t, n, x) == x = NoJob \/ (x \in Jobs /\ t[x].status # "absent" /\ t[x].version = n)

\* A deploy in flight has tagged its images as version n, or saved its files too.
Making(n, x) ==
  /\ x \in Jobs /\ jobs[x].kind \in Deploys /\ jobs[x].version = n /\ jobs[x].tagged
  /\ jobs[x].pc \in {"down", "up", "recover", "promote", "archive", "fail"}

Saving(n, x) ==
  x \in Jobs /\ jobs[x].kind \in Deploys /\ jobs[x].version = n /\ jobs[x].pc = "archive"

\* Every tag and every snapshot is of a recorded version, or of a deploy in flight; from
\* the flush of a promote to its commit, of a version it is about to record.
FailedInv ==
  /\ (\A j \in Jobs : jobs[j].pc # "commit") =>
       /\ \A n \in Versions : MadeBy(rows, n, tags[n]) \/ Making(n, tags[n])
       /\ \A n \in Names : MadeBy(rows, n, snapshots[n].source) \/ Saving(n, snapshots[n].source)
  /\ \A j \in Jobs : jobs[j].pc = "commit" =>
       /\ \A n \in Versions : MadeBy(Final(j), n, tags[n])
       /\ \A n \in Names : MadeBy(Final(j), n, snapshots[n].source)

\* Where no promote has flushed, nor does one.
LEMMA FailedKept ==
  ASSUME FailedInv, \A i \in Jobs : jobs[i].pc # "commit", \A i \in Jobs : jobs'[i].pc # "commit",
         \A n \in Versions : MadeBy(rows, n, tags[n]) \/ Making(n, tags[n])
                             => (MadeBy(rows, n, tags[n]) \/ Making(n, tags[n]))',
         \A n \in Names : MadeBy(rows, n, snapshots[n].source) \/ Saving(n, snapshots[n].source)
            => (MadeBy(rows, n, snapshots[n].source) \/ Saving(n, snapshots[n].source))'
  PROVE  FailedInv'
BY DEF FailedInv

\* What is of a recorded version, or of the deploy that archives, is of a version that
\* the deploy will record, or forgotten.
LEMMA ArchiveRecords ==
  ASSUME SerialInv, NEW j \in Jobs, jobs[j].pc = "archive", NEW n, NEW x,
         MadeBy(rows, n, x) \/ (x = j /\ jobs[j].kind \in Deploys /\ jobs[j].version = n),
         n \notin Forgotten(Shuffled(j), Final(j))
  PROVE  MadeBy(Final(j), n, x)
<1>1. PICK t \in Jobs :
        /\ Target(j) = {t}
        /\ jobs[j].kind \in Deploys => t = j /\ ~Present(j)
        /\ jobs[j].kind = "rollback" => Present(t) /\ rows[t].version = jobs[j].version
  BY TargetShape DEF SerialInv
<1>2. /\ Shuffled(j)[t] = [version |-> jobs[j].version, status |-> "active"]
      /\ \A r \in Jobs \ {t} :
           Shuffled(j)[r] = IF rows[r].status = "active"
                            THEN [version |-> rows[r].version, status |-> "archived"]
                            ELSE rows[r]
  BY <1>1, ShuffledShape DEF SerialInv
<1>3. CASE x = NoJob
  BY <1>3 DEF MadeBy
<1>4. CASE x # NoJob
  <2>1. x \in Jobs /\ Shuffled(j)[x].status # "absent" /\ Shuffled(j)[x].version = n
    <3>1. CASE x = t
      <4>1. jobs[j].version = n
        BY <1>1, <1>4, <3>1 DEF MadeBy, Present, SerialInv, PlacesHold, PlaceHolds
      <4>2. Shuffled(j)[t].status = "active" /\ Shuffled(j)[t].version = jobs[j].version
        BY <1>2
      <4> QED
        BY <3>1, <4>1, <4>2
    <3>2. CASE x # t
      <4>1. x \in Jobs \ {t} /\ rows[x].status # "absent" /\ rows[x].version = n
        BY <1>1, <1>4, <3>2 DEF MadeBy
      <4>2. CASE rows[x].status = "active"
        <5>1. Shuffled(j)[x] = [version |-> rows[x].version, status |-> "archived"]
          BY <1>2, <4>1, <4>2
        <5>2. Shuffled(j)[x].status = "archived" /\ Shuffled(j)[x].version = rows[x].version
          BY <5>1
        <5> QED
          BY <4>1, <5>2
      <4>3. CASE rows[x].status # "active"
        BY <1>2, <4>1, <4>3
      <4> QED
        BY <4>2, <4>3
    <3> QED
      BY <3>1, <3>2
  <2>2. Final(j)[x].status # "absent"
    BY <2>1, ArchiveForgets DEF Loaded
  <2>3. Final(j)[x] = Shuffled(j)[x]
    BY <2>1, <2>2, PrunedShape DEF Final, NoRow
  <2> QED
    BY <2>1, <2>3 DEF MadeBy
<1> QED
  BY <1>3, <1>4

\* An artifact is recorded, being made, or on its way out, whatever a thread does,
LEMMA ThreadFailed ==
  ASSUME DeployInv, FailedInv, "lock" \notin Faults, NEW j \in Jobs, Thread(j)
  PROVE  FailedInv'
<1>0. /\ SerialInv /\ TypeOK /\ PlaceHolds(j) /\ DeployHolds(j) /\ CaptureHolds(j)
      /\ jobs[j].version \in Names /\ jobs \in [Jobs -> JobRecords]
      /\ snapshots \in [Names -> Directories] /\ tags \in [Versions -> Jobs \cup {NoJob}]
  BY DEF DeployInv, SerialInv, PlacesHold, DeploysHold, Ledger, TypeOK, JobRecords
<1>1. Moves(j)
  BY <1>0, ThreadMoves
<1>2. \A i \in Jobs \ {j} : /\ jobs[i].pc # "commit" /\ jobs'[i].pc # "commit"
                            /\ \A n : ~Making(n, i) /\ ~Saving(n, i)
  <2>1. \A i \in Jobs \ {j} : ~InFlight(i) /\ ~InFlight(i)'
    BY <1>0, <1>1, MovesSerial DEF SerialInv
  <2> QED
    BY <2>1 DEF InFlight, Making, Saving
<1>3. \A n, x : /\ Making(n, x) => x = j /\ jobs[j].kind \in Deploys /\ jobs[j].version = n
                                   /\ jobs[j].tagged
                /\ Saving(n, x) => x = j /\ jobs[j].kind \in Deploys /\ jobs[j].version = n
                                   /\ jobs[j].pc = "archive"
  BY <1>2 DEF Making, Saving
<1>4. jobs[j].pc # "commit" => \A i \in Jobs : jobs[i].pc # "commit"
  BY <1>2
<1>5. jobs'[j].pc # "commit" => \A i \in Jobs : jobs'[i].pc # "commit"
  BY <1>2
<1>6. CASE Tag(j)
  <2>1. /\ jobs[j].pc = "tag" /\ rows' = rows /\ snapshots' = snapshots
        /\ \/ tags' = tags
           \/ /\ tags' = [tags EXCEPT ![jobs[j].version] = built]
              /\ \E p : jobs' = [jobs EXCEPT ![j].pc = p, ![j].tagged = TRUE]
    BY <1>6 DEF Tag, Database
  <2>2. jobs'[j].pc \in {"down", "fail"} /\ jobs'[j].version = jobs[j].version
        /\ jobs[j].kind \in Deploys /\ jobs'[j].kind = jobs[j].kind /\ built = j
    BY <1>0, <1>1, <2>1 DEF Moves, Carries, NextPlaces, PlaceHolds, DeployHolds
  <2>3. \A n, x : ~Making(n, x) /\ ~Saving(n, x)
    BY <1>3, <2>1 DEF Making, Saving
  <2>4. ASSUME NEW n \in Versions, MadeBy(rows, n, tags[n])
        PROVE  (MadeBy(rows, n, tags[n]) \/ Making(n, tags[n]))'
    <3>1. CASE tags'[n] = tags[n]
      BY <2>1, <2>4, <3>1 DEF MadeBy
    <3>2. CASE tags'[n] # tags[n]
      <4>1. n = jobs[j].version /\ tags'[n] = j
        BY <1>0, <2>1, <2>2, <3>2
      <4>2. PICK p : jobs' = [jobs EXCEPT ![j].pc = p, ![j].tagged = TRUE]
        BY <2>1, <3>2
      <4>3. jobs'[j].tagged
        BY <1>0, <4>2 DEF JobRecords
      <4> QED
        BY <2>2, <4>1, <4>3 DEF Making
    <3> QED
      BY <3>1, <3>2
  <2>5. \A n \in Names : MadeBy(rows, n, snapshots[n].source)
                         => MadeBy(rows, n, snapshots[n].source)'
    BY <2>1 DEF MadeBy
  <2> QED
    BY <1>4, <1>5, <2>1, <2>2, <2>3, <2>4, <2>5, FailedKept
<1>7. CASE Promote(j)
  <2>1. /\ jobs[j].pc = "promote" /\ rows' = rows /\ tags' = tags
        /\ jobs[j].kind \notin Deploys => snapshots' = snapshots
    BY <1>7 DEF Promote, Database, Images
  <2>2. jobs'[j].pc \in {"archive", "fail"} /\ jobs'[j].version = jobs[j].version
        /\ jobs'[j].kind = jobs[j].kind /\ jobs'[j].tagged = jobs[j].tagged
    BY <1>1, <2>1 DEF Moves, Carries, NextPlaces
  <2>3. \A n, x : Making(n, x) => Making(n, x)'
    BY <1>3, <2>2 DEF Making
  <2>4. \A n \in Versions : MadeBy(rows, n, tags[n]) \/ Making(n, tags[n])
                            => (MadeBy(rows, n, tags[n]) \/ Making(n, tags[n]))'
    BY <2>1, <2>3 DEF MadeBy, Making
  <2>5. ASSUME NEW n \in Names, MadeBy(rows, n, snapshots[n].source)
        PROVE  (MadeBy(rows, n, snapshots[n].source) \/ Saving(n, snapshots[n].source))'
    <3>1. CASE snapshots'[n] = snapshots[n]
      BY <2>1, <2>5, <3>1 DEF MadeBy
    <3>2. CASE snapshots'[n] # snapshots[n]
      <4>1. jobs[j].kind \in Deploys /\ files.source = j /\ project.exists /\ j # NoJob
        BY <1>0, <2>1, <3>2, ComposeAssumption DEF DeployHolds, CaptureHolds, InFlight, Jobs, NoJob
      <4>2. snapshots' = [snapshots EXCEPT ![jobs[j].version] = files]
            /\ \E c, l, o : jobs' = [jobs EXCEPT ![j].pc = "archive", ![j].counter = c,
                                                 ![j].limit = l, ![j].outcome = o]
        <5>1. snapshots' = [snapshots EXCEPT ![jobs[j].version] = files]
          BY <1>7, <4>1 DEF Promote
        <5>2. jobs' = [jobs EXCEPT ![j].pc = "archive", ![j].counter = project.counter,
                        ![j].limit = project.limit,
                        ![j].outcome = IF stack.state = "up" THEN "ok" ELSE "failed"]
          BY <1>7, <4>1 DEF Promote
        <5>3. \E o : o = IF stack.state = "up" THEN "ok" ELSE "failed"
          OBVIOUS
        <5>4. PICK o : o = IF stack.state = "up" THEN "ok" ELSE "failed"
          BY <5>3
        <5>5. jobs' = [jobs EXCEPT ![j].pc = "archive", ![j].counter = project.counter,
                                   ![j].limit = project.limit, ![j].outcome = o]
          BY <5>2, <5>4
        <5> QED
          BY <5>1, <5>5, Zenon
      <4>3. n = jobs[j].version /\ snapshots'[n].source = j
        BY <1>0, <3>2, <4>1, <4>2
      <4>4. PICK c, l, o : jobs' = [jobs EXCEPT ![j].pc = "archive", ![j].counter = c,
                                                ![j].limit = l, ![j].outcome = o]
        BY <4>2
      <4>5. jobs'[j].pc = "archive"
        BY <1>0, <4>4 DEF JobRecords
      <4> QED
        BY <2>2, <4>1, <4>3, <4>5 DEF Saving
    <3> QED
      BY <3>1, <3>2
  <2>6. \A n, x : ~Saving(n, x)
    BY <1>3, <2>1
  <2> QED
    BY <1>4, <1>5, <2>1, <2>2, <2>4, <2>5, <2>6, FailedKept
<1>8. CASE Archive(j)
  <2> DEFINE gone == Forgotten(Shuffled(j), Final(j))
  <2>1. /\ jobs[j].pc = "archive" /\ rows' = rows /\ project.exists /\ Target(j) # {}
    <3>1. jobs[j].pc = "archive" /\ rows' = rows
      BY <1>8 DEF Archive, Database
    <3>2. project.exists
      BY <1>0, <3>1 DEF CaptureHolds, InFlight
    <3>3. Target(j) # {}
      BY <1>0, <3>1, TargetShape DEF SerialInv
    <3> QED
      BY <3>1, <3>2, <3>3
  <2>2. tags' = TagsWithout(gone) /\ snapshots' = SnapshotsWithout(gone) /\ Goto(j, "commit")
    BY <1>8, <2>1 DEF Archive
  <2>3. jobs'[j].pc = "commit"
    BY <1>0, <2>2 DEF Goto, JobRecords
  <2>4. Final(j)' = Final(j)
    <3>1. jobs'[j].kind = jobs[j].kind /\ jobs'[j].version = jobs[j].version
          /\ jobs'[j].limit = jobs[j].limit
      BY <1>1, <2>1, <2>3 DEF Moves, Carries
    <3> QED
      BY <2>1, <3>1, FinalStays
  <2>5. /\ \A n \in Versions : MadeBy(rows, n, tags[n]) \/ Making(n, tags[n])
        /\ \A n \in Names : MadeBy(rows, n, snapshots[n].source) \/ Saving(n, snapshots[n].source)
    BY <1>4, <2>1 DEF FailedInv
  <2>6. ASSUME NEW n \in Versions
        PROVE  MadeBy(Final(j)', n, tags'[n])
    <3>1. CASE n \in gone
      BY <2>2, <3>1 DEF TagsWithout, MadeBy
    <3>2. CASE n \notin gone
      <4>1. tags'[n] = tags[n]
        BY <2>2, <3>2 DEF TagsWithout
      <4>2. MadeBy(rows, n, tags[n])
            \/ (tags[n] = j /\ jobs[j].kind \in Deploys /\ jobs[j].version = n)
        BY <1>3, <2>5
      <4>3. MadeBy(Final(j), n, tags[n])
        BY <1>0, <2>1, <3>2, <4>2, ArchiveRecords
      <4> QED
        BY <2>4, <4>1, <4>3
    <3> QED
      BY <3>1, <3>2
  <2>7. ASSUME NEW n \in Names
        PROVE  MadeBy(Final(j)', n, snapshots'[n].source)
    <3>1. CASE n \in gone
      BY <2>2, <3>1 DEF SnapshotsWithout, MadeBy, NoFiles
    <3>2. CASE n \notin gone
      <4>1. snapshots'[n] = snapshots[n]
        BY <2>2, <3>2 DEF SnapshotsWithout
      <4>2. MadeBy(rows, n, snapshots[n].source)
            \/ (snapshots[n].source = j /\ jobs[j].kind \in Deploys /\ jobs[j].version = n)
        BY <1>3, <2>5
      <4>3. MadeBy(Final(j), n, snapshots[n].source)
        BY <1>0, <2>1, <3>2, <4>2, ArchiveRecords
      <4> QED
        BY <2>4, <4>1, <4>3
    <3> QED
      BY <3>1, <3>2
  <2> HIDE DEF gone
  <2>8. \A i \in Jobs : jobs'[i].pc = "commit" => i = j
    BY <1>2
  <2>9. \A n \in Versions : MadeBy(Final(j), n, tags[n])'
    BY <2>6 DEF MadeBy
  <2>10. \A n \in Names : MadeBy(Final(j), n, snapshots[n].source)'
    BY <2>7 DEF MadeBy
  <2> QED
    BY <2>3, <2>8, <2>9, <2>10 DEF FailedInv
<1>9. CASE Commit(j)
  <2>1. jobs[j].pc = "commit" /\ rows' = Final(j) /\ tags' = tags /\ snapshots' = snapshots
    BY <1>9 DEF Commit, Images
  <2>2. jobs'[j].pc = "finish"
    BY <1>0, <1>9 DEF Commit, Goto, JobRecords
  <2>3. /\ \A n \in Versions : MadeBy(rows', n, tags'[n])
        /\ \A n \in Names : MadeBy(rows', n, snapshots'[n].source)
    BY <2>1 DEF FailedInv
  <2>4. /\ \A n \in Versions : MadeBy(rows, n, tags[n])'
        /\ \A n \in Names : MadeBy(rows, n, snapshots[n].source)'
    BY <2>3 DEF MadeBy
  <2> QED
    BY <1>5, <2>2, <2>4 DEF FailedInv
<1>10. CASE Fail(j)
  <2>1. /\ jobs[j].pc = "fail" /\ rows' = rows /\ snapshots' = snapshots
        /\ tags' = IF jobs[j].tagged THEN TagsWithout({jobs[j].version}) ELSE tags
    BY <1>10 DEF Fail, Database
  <2>2. jobs'[j].pc = "over"
    BY <1>1, <2>1 DEF Moves, NextPlaces
  <2>3. ASSUME NEW n \in Versions, MadeBy(rows, n, tags[n]) \/ Making(n, tags[n])
        PROVE  MadeBy(rows, n, tags[n])'
    <3>1. CASE jobs[j].tagged /\ n = jobs[j].version
      BY <2>1, <3>1 DEF TagsWithout, MadeBy
    <3>2. CASE ~(jobs[j].tagged /\ n = jobs[j].version)
      <4>1. tags'[n] = tags[n]
        BY <2>1, <3>2 DEF TagsWithout
      <4>2. ~Making(n, tags[n])
        BY <1>3, <3>2
      <4> QED
        BY <2>1, <2>3, <4>1, <4>2 DEF MadeBy
    <3> QED
      BY <3>1, <3>2
  <2>4. \A n \in Names : MadeBy(rows, n, snapshots[n].source) \/ Saving(n, snapshots[n].source)
                         => MadeBy(rows, n, snapshots[n].source)'
    BY <1>3, <2>1 DEF MadeBy
  <2> QED
    BY <1>4, <1>5, <2>1, <2>2, <2>3, <2>4, FailedKept
<1>11. CASE ~(Tag(j) \/ Promote(j) \/ Archive(j) \/ Commit(j) \/ Fail(j))
  <2>1. ~(LockTimeout(j) /\ jobs[j].pc = "archive")
    <3>1. jobs[j].pc = "archive" => Unlocked
      <4>1. \A i \in Jobs \ {j} : ~InFlight(i)
        BY SMTT(40), <1>0, <1>1, MovesSerial DEF SerialInv
      <4> QED
        BY <4>1 DEF Unlocked, InFlight
    <3> QED
      BY <3>1 DEF LockTimeout
  <2>2. rows' = rows /\ tags' = tags /\ snapshots' = snapshots
        /\ jobs[j].pc \notin {"tag", "promote", "archive", "commit", "fail"}
    BY <1>11, <2>1 DEF Thread, Clone, Provision, ProvisionFails, SetupNginx, RecordPort,
       RejectVhost, Launch, LaunchRefused, Build, Down, Replace, Copy, Up, Recover, Halt, Extract,
       LockTimeout, Finish, Monitor, Database, Images
  <2>3. jobs'[j].pc # "commit"
    BY <1>1, <2>2 DEF Moves, NextPlaces
  <2>4. ASSUME NEW n, NEW x, Making(n, x)
        PROVE  Making(n, x)'
    <3>1. x = j /\ jobs[j].kind \in Deploys /\ jobs[j].pc \in {"down", "up", "recover"}
      BY <1>3, <2>2, <2>4 DEF Making
    <3>2. /\ jobs'[j].pc \in {"up", "recover", "promote", "fail"}
          /\ jobs'[j].version = jobs[j].version /\ jobs'[j].kind = jobs[j].kind
          /\ jobs'[j].tagged = jobs[j].tagged
      BY <1>1, <3>1 DEF Moves, NextPlaces, Carries
    <3> QED
      BY <2>4, <3>1, <3>2 DEF Making
  <2>5. \A n, x : ~Saving(n, x)
    BY <1>3, <2>2
  <2>6. \A n \in Versions : MadeBy(rows, n, tags[n]) \/ Making(n, tags[n])
                            => (MadeBy(rows, n, tags[n]) \/ Making(n, tags[n]))'
    BY <2>2, <2>4 DEF MadeBy, Making
  <2>7. \A n \in Names : MadeBy(rows, n, snapshots[n].source)
                         => MadeBy(rows, n, snapshots[n].source)'
    BY <2>2 DEF MadeBy
  <2> QED
    BY <1>4, <1>5, <2>2, <2>3, <2>5, <2>6, <2>7, FailedKept
<1> QED
  BY <1>6, <1>7, <1>8, <1>9, <1>10, <1>11

\* and whatever else happens.
LEMMA StepFailed ==
  ASSUME DeployInv, PendingInv, FailedInv, Overlap = {},
         "crash" \notin Faults, "lock" \notin Faults, [Next]_vars
  PROVE  FailedInv'
<1>0. TypeOK /\ OneOperation /\ PlacesHold /\ SerialInv /\ Ledger
  BY DEF DeployInv, SerialInv
<1>1. ASSUME NEW j \in Jobs, Client(j)
      PROVE  FailedInv'
  <2>1. Starts(j) /\ \A i \in Jobs : ~InFlight(i)
    BY <1>0, <1>1, ClientStarts DEF Starts, Idle
  <2>2. \A i \in Jobs : jobs[i].pc # "commit" /\ jobs'[i].pc # "commit"
    <3>1. \A i \in Jobs \ {j} : jobs'[i] = jobs[i]
      BY <2>1 DEF Starts
    <3>2. jobs'[j].pc # "commit"
      BY <2>1 DEF Starts
    <3> QED
      BY <2>1, <3>1, <3>2 DEF InFlight
  <2>3. \A n, x : ~Making(n, x) /\ ~Saving(n, x)
    BY <2>1 DEF Making, Saving, InFlight
  <2>4. rows' = rows /\ tags' = tags /\ snapshots' = snapshots
    BY <1>1 DEF Client, Upload, LaunchRollback, LaunchRestart, LaunchDown, LaunchRestore,
       Database, Images
  <2>5. /\ \A n \in Versions : MadeBy(rows, n, tags[n]) => MadeBy(rows, n, tags[n])'
        /\ \A n \in Names : MadeBy(rows, n, snapshots[n].source)
                            => MadeBy(rows, n, snapshots[n].source)'
    BY <2>4 DEF MadeBy
  <2> QED
    BY <2>2, <2>3, <2>5, FailedKept
<1>2. CASE \E j \in Jobs : Thread(j)
  BY <1>2, ThreadFailed
<1>3. CASE Abort \/ Neighbour \/ UNCHANGED vars
  <2>1. rows' = rows /\ tags' = tags /\ snapshots' = snapshots /\ Stays
    <3>1. CASE UNCHANGED vars
      BY <3>1 DEF vars, Stays
    <3>2. CASE Abort \/ Neighbour
      BY <1>0, <3>2, OthersStay DEF Abort, Neighbour, Database, Images
    <3> QED
      BY <1>3, <3>1, <3>2
  <2>2. \A j \in Jobs : Final(j)' = Final(j)
    BY <2>1, FinalStays DEF Stays
  <2>3. \A n, x : (Making(n, x)' <=> Making(n, x)) /\ (Saving(n, x)' <=> Saving(n, x))
    BY <2>1 DEF Stays, Making, Saving
  <2>4. \A j \in Jobs : jobs'[j].pc = jobs[j].pc
    BY <2>1 DEF Stays
  <2>5. (\A i \in Jobs : jobs[i].pc # "commit") =>
          /\ \A n \in Versions : (MadeBy(rows, n, tags[n]) \/ Making(n, tags[n]))'
          /\ \A n \in Names :
               (MadeBy(rows, n, snapshots[n].source) \/ Saving(n, snapshots[n].source))'
    BY <2>1, <2>3 DEF FailedInv, MadeBy, Making, Saving
  <2>6. ASSUME NEW j \in Jobs, jobs[j].pc = "commit"
        PROVE  /\ \A n \in Versions : MadeBy(Final(j), n, tags[n])'
               /\ \A n \in Names : MadeBy(Final(j), n, snapshots[n].source)'
    <3>1. Final(j)' = Final(j)
      BY <2>2
    <3>2. /\ \A n \in Versions : MadeBy(Final(j), n, tags[n])
          /\ \A n \in Names : MadeBy(Final(j), n, snapshots[n].source)
      BY <2>6 DEF FailedInv
    <3> QED
      BY <2>1, <3>1, <3>2 DEF MadeBy
  <2>7. (\A i \in Jobs : jobs'[i].pc # "commit") <=> (\A i \in Jobs : jobs[i].pc # "commit")
    BY <2>4
  <2>8. \A j \in Jobs : jobs'[j].pc = "commit" =>
          /\ \A n \in Versions : MadeBy(Final(j), n, tags[n])'
          /\ \A n \in Names : MadeBy(Final(j), n, snapshots[n].source)'
    BY <2>4, <2>6
  <2> QED
    BY <2>5, <2>7, <2>8 DEF FailedInv
<1>4. CASE SetLimit \/ DeleteDocker \/ Handler
  <2>0. Stays /\ \A i \in Jobs : ~InFlight(i)
    <3>1. Stays
      BY <1>0, <1>4, OthersStay
    <3>2. \A i \in Jobs : ~InFlight(i)
      BY <1>0, <1>4 DEF SetLimit, DeleteDocker, Handler, EnforceLimit, DeleteNginx, DeleteRow,
                        OneOperation, Admits, Idle, NoTeardown
    <3> QED
      BY <3>1, <3>2
  <2>1. \A j \in Jobs : jobs[j].pc # "commit" /\ jobs'[j].pc # "commit"
    BY <2>0 DEF Stays, InFlight
  <2>2. \A n, x : ~Making(n, x) /\ ~Saving(n, x)
    BY <2>0 DEF Making, Saving, InFlight
  <2>3. ASSUME \A n \in Versions : MadeBy(rows, n, tags[n]) => MadeBy(rows, n, tags[n])',
               \A n \in Names : MadeBy(rows, n, snapshots[n].source)
                                => MadeBy(rows, n, snapshots[n].source)'
        PROVE  FailedInv'
    BY <2>1, <2>2, <2>3, FailedKept
  <2>4. CASE SetLimit
    <3>1. rows' = rows /\ tags' = tags /\ snapshots' = snapshots
      BY <2>4 DEF SetLimit, Images
    <3> QED
      BY <2>3, <3>1 DEF MadeBy
  <2>5. ASSUME NothingKept'
        PROVE  FailedInv'
    BY <2>3, <2>5 DEF NothingKept, MadeBy, NoFiles
  <2>6. CASE DeleteDocker
    <3>1. teardown'.step # "none"
      BY <2>6 DEF DeleteDocker
    <3>2. PendingInv'
      <4>1. CASE project.port = NoPort
        <5>1. tags' = tags /\ snapshots' = snapshots
          BY <2>6, <4>1 DEF DeleteDocker, Images
        <5> QED
          BY <4>1, <5>1, StillNothing DEF PendingInv
      <4>2. CASE project.port # NoPort
        <5>1. tags' = TagsWithout(Versions) /\ snapshots' = SnapshotsWithout(Names)
          BY <2>6, <4>2 DEF DeleteDocker
        <5>2. NothingKept'
          BY <5>1 DEF NothingKept, TagsWithout, SnapshotsWithout
        <5> QED
          BY <5>2 DEF PendingInv
      <4> QED
        BY <4>1, <4>2
    <3> QED
      BY <2>5, <3>1, <3>2 DEF PendingInv
  <2>7. CASE DeleteNginx \/ DeleteRow
    <3>1. tags' = tags /\ snapshots' = snapshots /\ teardown.step # "none"
      BY <2>7 DEF DeleteNginx, DeleteRow, Images
    <3>2. NothingKept'
      BY <3>1, StillNothing DEF PendingInv
    <3> QED
      BY <2>5, <3>2
  <2>8. CASE EnforceLimit
    <3> DEFINE final == IF project.exists THEN Pruned(rows, project.limit) ELSE rows
               gone == Forgotten(rows, final)
    <3>0. rows' = final /\ tags' = TagsWithout(gone) /\ snapshots' = SnapshotsWithout(gone)
      BY <2>8 DEF EnforceLimit
    <3>1. ASSUME NEW n, NEW x, MadeBy(rows, n, x), n \notin gone
          PROVE  MadeBy(final, n, x)
      <4>1. CASE x = NoJob
        BY <4>1 DEF MadeBy
      <4>2. CASE x # NoJob /\ project.exists
        <5>1. x \in Jobs /\ rows[x].status # "absent" /\ rows[x].version = n
          BY <3>1, <4>2 DEF MadeBy
        <5>2. Tiers(rows, project.counter) /\ final = Pruned(rows, project.limit)
          BY <1>0, <4>2 DEF Ledger
        <5>3. final[x].status # "absent"
          BY <3>1, <5>1, <5>2, PrunedForgets
        <5>4. final[x] = rows[x]
          BY <5>1, <5>2, <5>3, PrunedShape DEF NoRow
        <5> QED
          BY <5>1, <5>4 DEF MadeBy
      <4>3. CASE ~project.exists
        <5>1. final = rows
          BY <4>3
        <5> QED
          BY <3>1, <5>1
      <4> QED
        BY <4>1, <4>2, <4>3
    <3> HIDE DEF gone, final
    <3>2. ASSUME NEW n \in Versions, MadeBy(rows, n, tags[n])
          PROVE  MadeBy(rows, n, tags[n])'
      <4>1. CASE n \in gone
        BY <3>0, <4>1 DEF TagsWithout, MadeBy
      <4>2. CASE n \notin gone
        <5>1. tags'[n] = tags[n]
          BY <3>0, <4>2 DEF TagsWithout
        <5>2. MadeBy(final, n, tags[n])
          BY <3>1, <3>2, <4>2
        <5> QED
          BY <3>0, <5>1, <5>2 DEF MadeBy
      <4> QED
        BY <4>1, <4>2
    <3>3. ASSUME NEW n \in Names, MadeBy(rows, n, snapshots[n].source)
          PROVE  MadeBy(rows, n, snapshots[n].source)'
      <4>1. CASE n \in gone
        BY <3>0, <4>1 DEF SnapshotsWithout, MadeBy, NoFiles
      <4>2. CASE n \notin gone
        <5>1. snapshots'[n] = snapshots[n]
          BY <3>0, <4>2 DEF SnapshotsWithout
        <5>2. MadeBy(final, n, snapshots[n].source)
          BY <3>1, <3>3, <4>2
        <5> QED
          BY <3>0, <5>1, <5>2 DEF MadeBy
      <4> QED
        BY <4>1, <4>2
    <3> QED
      BY <2>3, <3>2, <3>3
  <2> QED
    BY <1>4, <2>4, <2>6, <2>7, <2>8 DEF Handler
<1>5. ~Crash
  BY DEF Crash
<1> QED
  BY <1>1, <1>2, <1>3, <1>4, <1>5 DEF Next

\* At first there are no artifacts.
LEMMA InitFailed == Init => PendingInv /\ FailedInv
BY DEF Init, PendingInv, NothingKept, FailedInv, MadeBy, NoFiles, Unused

\* So a deploy that is over without a row has left nothing.
LEMMA OverLeavesNothing ==
  ASSUME DeployInv, FailedInv
  PROVE  FailedDeployLeavesNothing
<1>1. SUFFICES ASSUME NEW i \in Jobs, jobs[i].pc = "over", ~Present(i), NEW n \in Versions
               PROVE  tags[n] # i /\ snapshots[n].source # i
  BY DEF FailedDeployLeavesNothing
<1>2. n \in Names /\ i # NoJob
  BY VersionsTyped, ComposeAssumption DEF Jobs, NoJob
<1>3. CASE \A j \in Jobs : jobs[j].pc # "commit"
  BY <1>1, <1>2, <1>3 DEF FailedInv, MadeBy, Making, Saving, Present
<1>4. CASE \E j \in Jobs : jobs[j].pc = "commit"
  <2>1. PICK j \in Jobs : jobs[j].pc = "commit"
    BY <1>4
  <2>2. MadeBy(Final(j), n, tags[n]) /\ MadeBy(Final(j), n, snapshots[n].source)
    BY <1>2, <2>1 DEF FailedInv
  <2>3. Final(j)[i].status = "absent"
    <3>1. TypeOK /\ PlacesHold /\ Ledger /\ PlaceHolds(j)
      BY DEF DeployInv, SerialInv, PlacesHold
    <3>2. PICK t \in Jobs :
            /\ Target(j) = {t}
            /\ jobs[j].kind \in Deploys => t = j /\ ~Present(j)
            /\ jobs[j].kind = "rollback" => Present(t) /\ rows[t].version = jobs[j].version
      BY <2>1, <3>1, TargetShape
    <3>3. i # t
      BY <1>1, <2>1, <3>1, <3>2 DEF PlaceHolds, Deploys
    <3>4. Shuffled(j)[i] = rows[i]
      <4>1. \A r \in Jobs \ {t} :
              Shuffled(j)[r] = IF rows[r].status = "active"
                               THEN [version |-> rows[r].version, status |-> "archived"]
                               ELSE rows[r]
        BY <2>1, <3>1, <3>2, ShuffledShape
      <4>2. rows[i].status = "absent"
        BY <1>1 DEF Present
      <4> QED
        BY <3>3, <4>1, <4>2
    <3>5. Final(j)[i] = Shuffled(j)[i] \/ Final(j)[i] = NoRow
      BY PrunedShape DEF Final
    <3> QED
      BY <1>1, <3>4, <3>5 DEF Present, NoRow
  <2> QED
    BY <1>2, <2>2, <2>3 DEF MadeBy
<1> QED
  BY <1>3, <1>4

\* Without overlaps, crashes and database timeouts, a deploy that has ended without a
\* row has left neither a tag nor a snapshot (FailedDeployLeavesNothing).
THEOREM FailedDeploysClean ==
  Overlap = {} /\ "crash" \notin Faults /\ "lock" \notin Faults
    => (Spec => []FailedDeployLeavesNothing)
<1> SUFFICES ASSUME Overlap = {}, "crash" \notin Faults, "lock" \notin Faults
             PROVE  Spec => []FailedDeployLeavesNothing
  OBVIOUS
<1> DEFINE I == DeployInv /\ RoutesHold /\ PendingInv /\ FailedInv
<1>1. Init => I
  BY DeployInit, InitRoutes, InitFailed
<1>2. I /\ [Next]_vars => I'
  BY DeployStep, StepRoutes, StepPending, StepFailed DEF DeployInv
<1>3. I => FailedDeployLeavesNothing
  BY OverLeavesNothing
<1> QED
  BY <1>1, <1>2, <1>3, PTL DEF Spec

-----------------------------------------------------------------------------
(* What runs when a job is done                                             *)

\* What there is of a recorded version is that of its own deploy: an image under its
\* tag, and a snapshot pinned to it.
OwnArtifacts(t) ==
  \A r \in Jobs : t[r].status # "absent" =>
    /\ tags[t[r].version] \in {NoJob, r}
    /\ snapshots[t[r].version] = NoFiles \/ snapshots[t[r].version].pin = t[r].version

\* Rows that stay or go, and artifacts that stay or go.
LEMMA OwnKept ==
  ASSUME SerialInv, OwnArtifacts(rows),
         \A r \in Jobs : rows'[r] = rows[r] \/ rows'[r].status = "absent",
         \A n \in Versions : (\E r \in Jobs : Present(r) /\ rows[r].version = n)
           => tags'[n] \in {tags[n], NoJob} /\ snapshots'[n] \in {snapshots[n], NoFiles}
  PROVE  OwnArtifacts(rows)'
<1>1. ASSUME NEW r \in Jobs, rows'[r].status # "absent"
      PROVE  /\ tags'[rows'[r].version] \in {NoJob, r}
             /\ \/ snapshots'[rows'[r].version] = NoFiles
                \/ snapshots'[rows'[r].version].pin = rows'[r].version
  <2>1. rows'[r] = rows[r] /\ Present(r)
    BY <1>1 DEF Present
  <2>2. rows[r].version \in Versions
    BY <2>1, RowVersions
  <2>3. /\ tags[rows[r].version] \in {NoJob, r}
        /\ \/ snapshots[rows[r].version] = NoFiles
           \/ snapshots[rows[r].version].pin = rows[r].version
    BY <2>1 DEF OwnArtifacts, Present
  <2>4. tags'[rows[r].version] \in {tags[rows[r].version], NoJob}
        /\ snapshots'[rows[r].version] \in {snapshots[rows[r].version], NoFiles}
    BY <2>1, <2>2
  <2> QED
    BY <2>1, <2>3, <2>4
<1> QED
  BY <1>1 DEF OwnArtifacts

\* A commit records a version with the artifacts of its own job.
LEMMA CommitOwn ==
  ASSUME DeployInv, OwnArtifacts(rows), NEW j \in Jobs, Commit(j)
  PROVE  OwnArtifacts(rows)'
<1>1. /\ jobs[j].pc = "commit" /\ rows' = Final(j) /\ tags' = tags /\ snapshots' = snapshots
      /\ SerialInv /\ DeployHolds(j)
  BY DEF Commit, Images, DeployInv, DeploysHold
<1>2. PICK t \in Jobs :
        /\ Target(j) = {t}
        /\ jobs[j].kind \in Deploys => t = j /\ ~Present(j)
        /\ jobs[j].kind = "rollback" => Present(t) /\ rows[t].version = jobs[j].version
  BY <1>1, TargetShape DEF SerialInv
<1>3. /\ Shuffled(j)[t] = [version |-> jobs[j].version, status |-> "active"]
      /\ \A r \in Jobs \ {t} :
           Shuffled(j)[r] = IF rows[r].status = "active"
                            THEN [version |-> rows[r].version, status |-> "archived"]
                            ELSE rows[r]
  BY <1>1, <1>2, ShuffledShape DEF SerialInv
<1>4. ASSUME NEW r \in Jobs, Final(j)[r].status # "absent"
      PROVE  LET n == Final(j)[r].version IN
             tags[n] \in {NoJob, r} /\ (snapshots[n] = NoFiles \/ snapshots[n].pin = n)
  <2>1. Final(j)[r] = Shuffled(j)[r]
    BY <1>4, PrunedShape DEF Final, NoRow
  <2>2. CASE r = t /\ jobs[j].kind \in Deploys
    <3>1. Shuffled(j)[r].version = jobs[j].version /\ r = j
      BY <1>2, <1>3, <2>2
    <3>2. /\ tags[jobs[j].version] = j
          /\ snapshots[jobs[j].version].pin = jobs[j].version
      BY <1>1, <2>2 DEF DeployHolds, Tagged
    <3> QED
      BY <2>1, <3>1, <3>2
  <2>3. CASE r # t \/ jobs[j].kind \notin Deploys
    <3>1. Present(r) /\ Shuffled(j)[r].version = rows[r].version
      <4>1. CASE r = t
        BY <1>1, <1>2, <1>3, <2>3, <4>1 DEF SerialInv, PlacesHold, PlaceHolds
      <4>2. CASE r # t /\ rows[r].status = "active"
        <5>1. Shuffled(j)[r] = [version |-> rows[r].version, status |-> "archived"]
          BY <1>3, <4>2
        <5>2. Shuffled(j)[r].version = rows[r].version
          BY <5>1
        <5> QED
          BY <4>2, <5>2 DEF Present
      <4>3. CASE r # t /\ rows[r].status # "active"
        BY <1>3, <1>4, <2>1, <4>3 DEF Present
      <4> QED
        BY <4>1, <4>2, <4>3
    <3> QED
      BY <2>1, <3>1 DEF OwnArtifacts, Present
  <2> QED
    BY <2>2, <2>3
<1> QED
  BY <1>1, <1>4 DEF OwnArtifacts

\* A thread gives no recorded version another job's artifacts,
LEMMA ThreadOwn ==
  ASSUME DeployInv, OwnArtifacts(rows), NEW j \in Jobs, Thread(j)
  PROVE  OwnArtifacts(rows)'
<1>0. SerialInv /\ TypeOK /\ PlaceHolds(j) /\ DeployHolds(j)
  BY DEF DeployInv, SerialInv, PlacesHold, DeploysHold
<1>1. CASE Commit(j)
  BY <1>1, CommitOwn
<1>2. ASSUME rows' = rows,
             \A n \in Versions : (\E r \in Jobs : Present(r) /\ rows[r].version = n)
               => tags'[n] \in {tags[n], NoJob} /\ snapshots'[n] \in {snapshots[n], NoFiles}
      PROVE  OwnArtifacts(rows)'
  BY <1>0, <1>2, OwnKept
<1>3. CASE Tag(j)
  <2>1. jobs[j].pc = "tag" /\ rows' = rows /\ snapshots' = snapshots
        /\ (tags' = tags \/ tags' = [tags EXCEPT ![jobs[j].version] = built])
    BY <1>3 DEF Tag, Database
  <2>2. \A r \in Jobs : Present(r) => rows[r].version # jobs[j].version
    BY <1>0, <2>1, NotRecorded DEF PlaceHolds, Deploying
  <2> QED
    BY <1>0, <1>2, <2>1, <2>2 DEF TypeOK
<1>4. CASE Promote(j)
  <2>1. /\ jobs[j].pc = "promote" /\ rows' = rows /\ tags' = tags
        /\ \/ snapshots' = snapshots
           \/ /\ snapshots' = [snapshots EXCEPT ![jobs[j].version] = files]
              /\ jobs[j].kind \in Deploys
    BY <1>4 DEF Promote, Database, Images
  <2>2. jobs[j].kind \in Deploys =>
          \A r \in Jobs : Present(r) => rows[r].version # jobs[j].version
    BY <1>0, <2>1, NotRecorded DEF Deploying
  <2> QED
    BY <1>0, <1>2, <2>1, <2>2, VersionsTyped DEF TypeOK
<1>5. CASE Archive(j)
  <2>1. rows' = rows /\ (tags' = tags \/ \E S : tags' = TagsWithout(S))
        /\ (snapshots' = snapshots \/ \E S : snapshots' = SnapshotsWithout(S))
    BY <1>5 DEF Archive, Database
  <2> QED
    BY <1>2, <2>1, VersionsTyped DEF TagsWithout, SnapshotsWithout
<1>6. CASE Fail(j)
  <2>1. rows' = rows /\ (tags' = tags \/ \E S : tags' = TagsWithout(S)) /\ snapshots' = snapshots
    BY <1>6 DEF Fail, Database
  <2> QED
    BY <1>2, <2>1, VersionsTyped DEF TagsWithout
<1>7. CASE ~(Commit(j) \/ Tag(j) \/ Promote(j) \/ Archive(j) \/ Fail(j))
  <2>1. rows' = rows /\ tags' = tags /\ snapshots' = snapshots
    BY <1>7 DEF Thread, Clone, Provision, ProvisionFails, SetupNginx, RecordPort,
       RejectVhost, Launch, LaunchRefused, Build, Down, Replace, Copy, Up, Recover, Halt, Extract,
       LockTimeout, Finish, Monitor, Database, Images
  <2> QED
    BY SMTT(40), <1>2, <2>1
<1> QED
  BY <1>1, <1>3, <1>4, <1>5, <1>6, <1>7

\* and neither does any other step.
LEMMA StepOwn ==
  ASSUME DeployInv, OwnArtifacts(rows), Overlap = {}, [Next]_vars
  PROVE  OwnArtifacts(rows)'
<1>0. TypeOK /\ SerialInv /\ Ledger
  BY DEF DeployInv, SerialInv
<1>1. CASE \E j \in Jobs : Thread(j)
  BY <1>1, ThreadOwn
<1>2. CASE (\E j \in Jobs : Client(j)) \/ SetLimit \/ DeleteNginx \/ Abort \/ Neighbour
           \/ UNCHANGED vars
  <2>1. rows' = rows /\ tags' = tags /\ snapshots' = snapshots
    BY <1>2 DEF Client, Upload, LaunchRollback, LaunchRestart, LaunchDown, LaunchRestore,
       SetLimit, DeleteNginx, Abort, Neighbour, vars, Database, Images
  <2> QED
    BY <1>0, <2>1, OwnKept
<1>3. CASE DeleteDocker
  <2>1. rows' = rows /\ (tags' = tags \/ \E S : tags' = TagsWithout(S))
        /\ (snapshots' = snapshots \/ \E S : snapshots' = SnapshotsWithout(S))
    BY <1>3 DEF DeleteDocker, Database, Images
  <2>2. \A n \in Versions : /\ tags'[n] \in {tags[n], NoJob}
                           /\ snapshots'[n] \in {snapshots[n], NoFiles}
    BY <2>1, VersionsTyped DEF TagsWithout, SnapshotsWithout
  <2> QED
    BY <1>0, <2>1, <2>2, OwnKept
<1>4. CASE EnforceLimit
  <2>1. /\ rows' = rows \/ rows' = Pruned(rows, project.limit)
        /\ \E S : tags' = TagsWithout(S)
        /\ \E S : snapshots' = SnapshotsWithout(S)
    BY <1>4 DEF EnforceLimit
  <2>2. \A n \in Versions : /\ tags'[n] \in {tags[n], NoJob}
                           /\ snapshots'[n] \in {snapshots[n], NoFiles}
    BY <2>1, VersionsTyped DEF TagsWithout, SnapshotsWithout
  <2>3. \A r \in Jobs : rows'[r] = rows[r] \/ rows'[r].status = "absent"
    BY <2>1, PrunedShape DEF NoRow
  <2> QED
    BY <1>0, <2>2, <2>3, OwnKept
<1>5. CASE DeleteRow
  <2>1. rows' = [r \in Jobs |-> IF r \in teardown.doomed THEN NoRow ELSE rows[r]]
        /\ tags' = tags /\ snapshots' = snapshots
    BY <1>5 DEF DeleteRow, Images
  <2>2. \A r \in Jobs : rows'[r] = rows[r] \/ rows'[r].status = "absent"
    BY <2>1 DEF NoRow
  <2> QED
    BY <1>0, <2>1, <2>2, OwnKept
<1>6. CASE Crash
  <2>1. CASE ~Backfills
    <3>1. rows' = rows /\ tags' = tags /\ snapshots' = snapshots
      BY <1>6, <2>1 DEF Crash, Database
    <3> QED
      BY <1>0, <3>1, OwnKept
  <2>2. CASE Backfills
    <3>1. /\ rows' = [rows EXCEPT ![stack.image] = [version |-> 1, status |-> "active"]]
          /\ tags' = [tags EXCEPT ![1] = stack.image]
          /\ snapshots' = [snapshots EXCEPT ![1] = [files EXCEPT !.pin = 1]]
      BY <1>6, <2>2 DEF Crash
    <3>2. \A r \in Jobs : r # stack.image => rows'[r].status = "absent"
      BY <1>0, <2>2, <3>1 DEF Backfills, Present, TypeOK
    <3>3. stack.image \in Jobs => rows'[stack.image].version = 1
      BY <1>0, <3>1 DEF TypeOK
    <3>4. 1 \in Versions /\ 1 \in Names
      BY <2>2, VersionsTyped, ComposeAssumption DEF Backfills, Versions
    <3>5. tags'[1] = stack.image /\ snapshots'[1].pin = 1
      BY <1>0, <3>1, <3>4 DEF TypeOK, Directories
    <3> QED
      BY <3>2, <3>3, <3>5 DEF OwnArtifacts
  <2> QED
    BY <2>1, <2>2
<1> QED
  BY <1>1, <1>2, <1>3, <1>4, <1>5, <1>6 DEF Next, Handler

\* A deploy or rollback has brought its version up.
Upped == {"promote", "archive", "commit", "finish"}

\* What a deploy or rollback has made of the directory and of the containers.
RunHolds(j) ==
  /\ \/ jobs[j].kind = "rollback" /\ InFlight(j)
     \/ jobs[j].kind \in Deploys /\ jobs[j].pc \in {"build", "tag", "down", "up"}
     => jobs[j].pinned
  /\ jobs[j].kind = "rollback"
       /\ jobs[j].pc \in {"provision", "vhost", "record", "up"} \cup Upped
     => files.pin = jobs[j].version
  /\ jobs[j].kind \in Deploys \cup {"rollback"} /\ jobs[j].pc \in Upped
     => stack.port = jobs[j].port
  /\ jobs[j].kind \in Deploys /\ jobs[j].pc \in Upped => stack.image = j
  /\ jobs[j].kind = "rollback" /\ jobs[j].pc \in Upped
     => \E r \in Jobs : Present(r) /\ rows[r].version = jobs[j].version /\ stack.image = r
  /\ jobs[j].kind \in Deploys \cup {"rollback"} /\ jobs[j].pc = "finish"
     => \E r \in Jobs : /\ rows[r].status = "active" /\ rows[r].version = jobs[j].version
                        /\ stack.image = r

RunsHold == \A j \in Jobs : RunHolds(j)

DoneInv == DeployInv /\ RoutesHold /\ OwnArtifacts(rows) /\ RunsHold

\* A job that is not in flight runs nothing.
LEMMA IdleRuns ==
  ASSUME NEW i \in Jobs, ~InFlight(i)'
  PROVE  RunHolds(i)'
BY DEF RunHolds, InFlight, Deploys, Upped

\* A step on the way of j that leaves the directory, the containers and the rows alone.
LEMMA MovesRun ==
  ASSUME NEW j \in Jobs, Moves(j), PlaceHolds(j), RunHolds(j), rows' = rows,
         stack' = stack \/ jobs[j].pc = "recover",
         files'.pin = files.pin \/ jobs[j].kind \in Deploys \/ jobs[j].pc = "replace",
         jobs[j].pc \notin {"copy", "launch", "up", "commit", "down"}
  PROVE  RunHolds(j)'
<1>1. CASE jobs'[j].pc = "over"
  BY <1>1, IdleRuns DEF InFlight
<1>2. CASE jobs'[j].pc # "over"
  <2>1. /\ jobs'[j].kind = jobs[j].kind /\ jobs'[j].pc \in NextPlaces(jobs[j].kind, jobs[j].pc)
        /\ Carries(j) /\ InFlight(j)
    BY <1>2 DEF Moves
  <2>2. jobs'[j].pc # "finish" \/ jobs'[j].kind \notin Deploys \cup {"rollback"}
    BY <2>1 DEF NextPlaces, Deploys
  <2>3. \/ jobs[j].kind = "rollback" /\ InFlight(j)'
        \/ jobs[j].kind \in Deploys /\ jobs'[j].pc \in {"build", "tag", "down", "up"}
        => jobs'[j].pinned
    BY <2>1 DEF NextPlaces, Deploys, Carries, RunHolds, PlaceHolds
  <2>4. jobs[j].kind \in Deploys \cup {"rollback"} /\ jobs'[j].pc \in Upped
        => /\ jobs[j].pc \in Upped /\ stack' = stack /\ jobs'[j].port = jobs[j].port
           /\ jobs'[j].version = jobs[j].version
    BY <2>1 DEF NextPlaces, Deploys, Carries, Upped, PlaceHolds
  <2>5. /\ jobs[j].kind = "rollback"
        /\ jobs'[j].pc \in {"provision", "vhost", "record", "up"} \cup Upped
        => /\ jobs[j].pc \in {"provision", "vhost", "record", "up"} \cup Upped
           /\ files'.pin = files.pin /\ jobs'[j].version = jobs[j].version
    BY <2>1 DEF NextPlaces, Deploys, Carries, Upped, PlaceHolds
  <2>6. jobs'[j].kind \in Deploys /\ jobs'[j].pc \in Upped => stack'.image = j
    BY <2>1, <2>4 DEF RunHolds
  <2>7. jobs'[j].kind = "rollback" /\ jobs'[j].pc \in Upped
        => \E r \in Jobs : Present(r)' /\ rows'[r].version = jobs'[j].version /\ stack'.image = r
    BY <2>1, <2>4 DEF RunHolds, Present
  <2> QED
    BY <2>1, <2>2, <2>3, <2>4, <2>5, <2>6, <2>7 DEF RunHolds, Upped
<1> QED
  BY <1>1, <1>2

\* An up that a deploy or rollback takes for a success runs its version.
LEMMA UpRun ==
  ASSUME DoneInv, NEW j \in Jobs, Up(j)
  PROVE  RunHolds(j)'
<1>0. /\ SerialInv /\ TypeOK /\ PlaceHolds(j) /\ DeployHolds(j) /\ RouteHolds(j) /\ RunHolds(j)
      /\ CaptureHolds(j) /\ jobs \in [Jobs -> JobRecords]
  BY DEF DoneInv, DeployInv, SerialInv, PlacesHold, DeploysHold, RoutesHold, RunsHold, Ledger,
         TypeOK
<1>1. Moves(j)
  BY <1>0, ThreadMoves DEF Thread
<1>2. /\ jobs[j].pc = "up" /\ rows' = rows /\ files' = files /\ tags' = tags
  BY DEF Up, Database, Images
<1>3. PICK res \in UpResults(files, jobs[j].pinned, jobs[j].killed) :
        /\ stack' = res.stack
        /\ jobs[j].kind \in Deploys =>
             Goto(j, IF res.ok /\ ~Aborted THEN "promote"
                     ELSE IF jobs[j].previous # 0 THEN "recover" ELSE "fail")
        /\ jobs[j].kind = "rollback" => GotoIf(j, res.ok, "promote")
  BY DEF Up, Deploys
<1>4. jobs'[j].kind = jobs[j].kind /\ jobs'[j].version = jobs[j].version
      /\ jobs'[j].port = jobs[j].port /\ jobs'[j].pinned = jobs[j].pinned
  <2>1. jobs'[j].pc # "over" /\ Carries(j)
    BY <1>0, <1>1, <1>2 DEF Moves, NextPlaces
  <2> QED
    BY <1>1, <1>2, <2>1 DEF Moves, Carries
<1>5. jobs'[j].pc \in {"promote", "recover", "fail", "exited"}
      \/ jobs[j].kind \notin Deploys \cup {"rollback"}
  BY <1>1, <1>2 DEF Moves, NextPlaces
<1>6. CASE jobs[j].kind \notin Deploys \cup {"rollback"}
  BY <1>4, <1>6 DEF RunHolds
<1>7. CASE jobs[j].kind \in Deploys \cup {"rollback"} /\ jobs'[j].pc # "promote"
  BY <1>0, <1>2, <1>4, <1>5, <1>7 DEF RunHolds, Upped, InFlight
<1>8. CASE jobs[j].kind \in Deploys \cup {"rollback"} /\ jobs'[j].pc = "promote"
  <2>1. res.ok
    <3>1. \/ jobs[j].kind \in Deploys
             /\ Goto(j, IF res.ok /\ ~Aborted THEN "promote"
                        ELSE IF jobs[j].previous # 0 THEN "recover" ELSE "fail")
          \/ Goto(j, IF res.ok /\ ~Aborted THEN "promote" ELSE "fail")
      BY <1>3, <1>8 DEF GotoIf
    <3>2. \A p : Goto(j, p) => jobs'[j].pc = p
      BY <1>0 DEF Goto, JobRecords
    <3>3. CASE ~res.ok
      BY <1>8, <3>1, <3>2, <3>3
    <3> QED
      BY <3>3
  <2>2. /\ stack'.image = Image(files, jobs[j].pinned) /\ Image(files, jobs[j].pinned) # NoJob
        /\ stack'.port = files.port
    BY <1>3, <2>1, UpShape
  <2>3. jobs[j].pinned /\ files.pin = jobs[j].version /\ files.port = jobs[j].port
    BY <1>0, <1>2, <1>8 DEF RunHolds, DeployHolds, Tagged, InFlight, RouteHolds, Provisioned,
                            Deploys
  <2>4. stack'.image = tags[jobs[j].version] /\ stack'.image # NoJob
    BY <2>2, <2>3 DEF Image
  <2>5. jobs[j].kind \in Deploys => stack'.image = j
    BY <1>0, <1>2, <2>4 DEF DeployHolds, Tagged
  <2>6. jobs[j].kind = "rollback" =>
          \E r \in Jobs : Present(r) /\ rows[r].version = jobs[j].version /\ stack'.image = r
    <3>1. SUFFICES ASSUME jobs[j].kind = "rollback"
                   PROVE  \E r \in Jobs : /\ Present(r) /\ rows[r].version = jobs[j].version
                                          /\ stack'.image = r
      OBVIOUS
    <3>2. PICK r \in Jobs : Present(r) /\ rows[r].version = jobs[j].version
      BY <1>0, <1>2, <3>1 DEF CaptureHolds, InFlight
    <3>3. tags[rows[r].version] \in {NoJob, r}
      BY <3>2 DEF DoneInv, OwnArtifacts, Present
    <3> QED
      BY <2>4, <3>2, <3>3
  <2>7. jobs[j].kind = "rollback" =>
          \E r \in Jobs : Present(r)' /\ rows'[r].version = jobs'[j].version /\ stack'.image = r
    BY <1>2, <1>4, <2>6 DEF Present
  <2> QED
    BY <1>2, <1>4, <1>8, <2>2, <2>3, <2>5, <2>7 DEF RunHolds, Upped
<1> QED
  BY <1>6, <1>7, <1>8

\* The version that is committed is the one that runs.
LEMMA CommitRun ==
  ASSUME DoneInv, NEW j \in Jobs, Commit(j)
  PROVE  RunHolds(j)'
<1>0. /\ SerialInv /\ TypeOK /\ PlaceHolds(j) /\ RunHolds(j) /\ Moves(j)
      /\ Tiers(rows, project.counter)
  <2>1. SerialInv /\ TypeOK /\ PlaceHolds(j) /\ RunHolds(j) /\ Tiers(rows, project.counter)
    BY DEF DoneInv, DeployInv, SerialInv, PlacesHold, RunsHold, Ledger
  <2> QED
    BY <2>1, ThreadMoves DEF Thread
<1>1. jobs[j].pc = "commit" /\ rows' = Final(j) /\ files' = files /\ stack' = stack
  BY DEF Commit
<1>2. jobs[j].kind \in Deploys \cup {"rollback"}
  BY <1>0, <1>1 DEF PlaceHolds
<1>3. jobs'[j].pc = "finish" /\ jobs'[j].kind = jobs[j].kind /\ jobs'[j].version = jobs[j].version
      /\ jobs'[j].port = jobs[j].port /\ jobs'[j].pinned = jobs[j].pinned
  BY <1>0, <1>1 DEF Moves, NextPlaces, Carries
<1>4. PICK t \in Jobs :
        /\ Target(j) = {t}
        /\ jobs[j].kind \in Deploys => t = j /\ ~Present(j)
        /\ jobs[j].kind = "rollback" => Present(t) /\ rows[t].version = jobs[j].version
  BY <1>0, <1>1, TargetShape DEF SerialInv
<1>5. Shuffled(j)[t] = [version |-> jobs[j].version, status |-> "active"]
  BY <1>0, <1>1, <1>4, ShuffledShape DEF SerialInv
<1>6. Shuffled(j)[t].status = "active" /\ Shuffled(j)[t].version = jobs[j].version
  BY <1>5
<1>7. rows'[t].status = "active" /\ rows'[t].version = jobs[j].version
  <2>1. Final(j)[t] = Shuffled(j)[t]
    BY <1>6, PrunedShape DEF Final
  <2> QED
    BY <1>1, <1>6, <2>1
<1>8. stack.image = t
  <2>1. CASE jobs[j].kind \in Deploys
    BY <1>0, <1>1, <1>4, <2>1 DEF RunHolds, Upped
  <2>2. CASE jobs[j].kind = "rollback"
    <3>1. PICK r \in Jobs : Present(r) /\ rows[r].version = jobs[j].version /\ stack.image = r
      BY <1>0, <1>1, <2>2 DEF RunHolds, Upped
    <3>2. r = t
      BY <1>0, <1>4, <2>2, <3>1 DEF Tiers, Present
    <3> QED
      BY <3>1, <3>2
  <2> QED
    BY <1>2, <2>1, <2>2
<1>9. jobs[j].kind \in Deploys => stack'.image = j
  BY <1>1, <1>4, <1>8
<1>10. \E r \in Jobs : /\ rows'[r].status = "active" /\ rows'[r].version = jobs'[j].version
                       /\ stack'.image = r
  BY <1>1, <1>3, <1>7, <1>8
<1>11. \E r \in Jobs : Present(r)' /\ rows'[r].version = jobs'[j].version /\ stack'.image = r
  BY <1>1, <1>3, <1>7, <1>8 DEF Present
<1>12. /\ jobs[j].kind = "rollback" => jobs'[j].pinned /\ files'.pin = jobs'[j].version
       /\ stack'.port = jobs'[j].port
  BY <1>0, <1>1, <1>2, <1>3 DEF RunHolds, Upped, InFlight
<1> QED
  BY <1>3, <1>9, <1>10, <1>11, <1>12 DEF RunHolds, Deploys

\* What a job has brought up is its own version, and stays up until the job is over,
LEMMA ThreadRuns ==
  ASSUME DoneInv, NEW j \in Jobs, Thread(j)
  PROVE  RunHolds(j)'
<1>0. /\ SerialInv /\ TypeOK /\ PlaceHolds(j) /\ RunHolds(j) /\ CaptureHolds(j)
      /\ jobs \in [Jobs -> JobRecords] /\ files \in Directories
  BY DEF DoneInv, DeployInv, SerialInv, PlacesHold, RunsHold, Ledger, TypeOK
<1>1. Moves(j)
  BY <1>0, ThreadMoves
<1>2. CASE Up(j)
  BY <1>2, UpRun
<1>3. CASE Commit(j)
  BY <1>3, CommitRun
<1>4. CASE Copy(j)
  <2>1. /\ jobs[j].pc = "copy" /\ jobs[j].kind = "rollback"
        /\ files' = (IF snapshots[jobs[j].version] = NoFiles THEN files
                     ELSE snapshots[jobs[j].version])
        /\ Goto(j, IF snapshots[jobs[j].version] = NoFiles THEN "fail" ELSE "provision")
    BY <1>0, <1>4 DEF Copy, PlaceHolds
  <2>2. /\ jobs'[j].kind = "rollback" /\ jobs'[j].version = jobs[j].version /\ jobs'[j].pinned
        /\ jobs'[j].pc \in {"provision", "fail"}
    BY <1>0, <1>1, <2>1 DEF Moves, NextPlaces, Carries, RunHolds, InFlight
  <2>3. jobs'[j].pc = "provision" => files'.pin = jobs[j].version
    <3>1. PICK r \in Jobs : Present(r) /\ rows[r].version = jobs[j].version
      BY <1>0, <2>1 DEF CaptureHolds, InFlight
    <3>2. snapshots[jobs[j].version] = NoFiles \/ snapshots[jobs[j].version].pin = jobs[j].version
      BY <3>1 DEF DoneInv, OwnArtifacts, Present
    <3>3. CASE snapshots[jobs[j].version] = NoFiles
      <4>1. jobs'[j].pc = "fail"
        BY <1>0, <2>1, <3>3 DEF Goto, JobRecords
      <4> QED
        BY <4>1
    <3>4. CASE snapshots[jobs[j].version] # NoFiles
      BY <2>1, <3>2, <3>4
    <3> QED
      BY <3>3, <3>4
  <2> QED
    BY <2>2, <2>3 DEF RunHolds, Upped, Deploys
<1>5. CASE Launch(j)
  <2>1. /\ jobs[j].pc = "launch" /\ jobs[j].kind \in Deploys
        /\ \E n, v : jobs' = [jobs EXCEPT ![j].pc = "build", ![j].version = n,
                                          ![j].pinned = TRUE, ![j].previous = v]
    <3>1. jobs[j].pc = "launch" /\ jobs[j].kind \in Deploys
      BY <1>0, <1>5 DEF Launch, PlaceHolds
    <3>2. jobs' = [jobs EXCEPT ![j].pc = "build", ![j].version = project.counter + 1,
             ![j].pinned = TRUE,
             ![j].previous = IF \E r \in Jobs : rows[r].status = "active"
                             THEN rows[CHOOSE r \in Jobs : rows[r].status = "active"].version
                             ELSE 0]
      BY <1>5 DEF Launch
    <3>3. \E v : v = IF \E r \in Jobs : rows[r].status = "active"
                     THEN rows[CHOOSE r \in Jobs : rows[r].status = "active"].version
                     ELSE 0
      OBVIOUS
    <3>4. PICK v : v = IF \E r \in Jobs : rows[r].status = "active"
                       THEN rows[CHOOSE r \in Jobs : rows[r].status = "active"].version
                       ELSE 0
      BY <3>3
    <3>5. jobs' = [jobs EXCEPT ![j].pc = "build", ![j].version = project.counter + 1,
                               ![j].pinned = TRUE, ![j].previous = v]
      BY <3>2, <3>4
    <3> QED
      BY <3>1, <3>5, Zenon
  <2>2. PICK n, v : jobs' = [jobs EXCEPT ![j].pc = "build", ![j].version = n,
                                         ![j].pinned = TRUE, ![j].previous = v]
    BY <2>1
  <2>3. jobs'[j].pinned /\ jobs'[j].pc = "build" /\ jobs'[j].kind = jobs[j].kind
    BY <1>0, <2>2 DEF JobRecords
  <2> QED
    BY <2>1, <2>3 DEF RunHolds, Upped, Deploys
<1>6. CASE Down(j)
  <2>1. jobs[j].pc = "down"
    BY <1>6 DEF Down
  <2>2. /\ jobs'[j].kind = jobs[j].kind /\ jobs'[j].pinned = jobs[j].pinned
        /\ jobs'[j].pc \in {"up", "replace", "fail", "exited"}
        /\ jobs[j].kind = "rollback" => jobs'[j].pc # "up"
    BY <1>1, <2>1 DEF Moves, NextPlaces, Carries, Deploys
  <2> QED
    BY <1>0, <2>1, <2>2 DEF RunHolds, Upped, InFlight, Deploys
<1>7. CASE ~(Up(j) \/ Commit(j) \/ Copy(j) \/ Launch(j) \/ Down(j))
  <2>1. rows' = rows /\ jobs[j].pc \notin {"copy", "up", "commit", "down"}
        /\ (jobs[j].pc = "launch" => LaunchRefused(j))
        /\ (stack' = stack \/ jobs[j].pc \in {"recover", "halt"})
    BY <1>7 DEF Thread, Clone, Provision, ProvisionFails, SetupNginx, RecordPort,
       RejectVhost, LaunchRefused, Build, Tag, Replace, Recover, Halt, Extract, Promote, Archive,
       LockTimeout, Finish, Fail, Monitor, Database
  <2>2. \/ files' = files \/ jobs[j].pc \in {"clone", "tag", "replace"}
        \/ files' = [files EXCEPT !.port = NextPort] \/ jobs[j].kind = "git"
    BY <1>7 DEF Thread, Clone, Provision, ProvisionFails, SetupNginx, RecordPort,
       RejectVhost, LaunchRefused, Build, Tag, Replace, Recover, Halt, Extract, Promote, Archive,
       LockTimeout, Finish, Fail, Monitor
  <2>3. files'.pin = files.pin \/ jobs[j].kind \in Deploys \/ jobs[j].pc = "replace"
    <3>1. files' = [files EXCEPT !.port = NextPort] => files'.pin = files.pin
      BY <1>0 DEF Directories
    <3> QED
      BY <1>0, <2>2, <3>1 DEF PlaceHolds, Deploys
  <2>4. CASE jobs[j].pc = "launch"
    <3>1. jobs'[j].pc = "over"
      BY <1>0, <2>1, <2>4 DEF LaunchRefused, Over, Unused
    <3> QED
      BY <3>1, IdleRuns DEF InFlight
  <2>5. CASE jobs[j].pc = "halt"
    <3>1. jobs'[j].kind = "restore"
      BY <1>0, <1>1, <2>5 DEF PlaceHolds, Moves
    <3> QED
      BY <3>1 DEF RunHolds, Deploys
  <2>6. CASE jobs[j].pc \notin {"launch", "halt"}
    BY <1>0, <1>1, <2>1, <2>3, <2>6, MovesRun
  <2> QED
    BY <2>4, <2>5, <2>6
<1> QED
  BY <1>2, <1>3, <1>4, <1>5, <1>6, <1>7

\* A rollback is launched pinned.
LEMMA RollbackPinned ==
  ASSUME TypeOK, NEW j \in Jobs, Client(j), jobs'[j].kind = "rollback"
  PROVE  jobs'[j].pinned
<1>0. jobs \in [Jobs -> JobRecords]
  BY DEF TypeOK
<1>1. ASSUME NEW x, jobs' = [jobs EXCEPT ![j] = x]
      PROVE  jobs'[j] = x
  BY <1>0, <1>1
<1>2. ~Upload(j)
  <2>1. /\ [Unused EXCEPT !.kind = "deploy", !.pc = "provision"].kind # "rollback"
        /\ [Unused EXCEPT !.kind = "git", !.pc = "clone"].kind # "rollback"
    BY DEF Unused
  <2> QED
    BY <1>1, <2>1, Zenon DEF Upload
<1>3. ~LaunchRestart(j)
  <2>1. \A b : [Unused EXCEPT !.kind = "restart", !.pc = "up", !.pinned = b].kind # "rollback"
    BY DEF Unused
  <2> QED
    BY <1>1, <2>1 DEF LaunchRestart
<1>4. ~LaunchDown(j) /\ ~LaunchRestore(j)
  <2>1. /\ [Unused EXCEPT !.kind = "down", !.pc = "down"].kind # "rollback"
        /\ [Unused EXCEPT !.kind = "restore", !.pc = "halt"].kind # "rollback"
    BY DEF Unused
  <2>2. ~LaunchDown(j)
    BY <1>1, <2>1 DEF LaunchDown
  <2>3. ~LaunchRestore(j)
    BY <1>1, <2>1 DEF LaunchRestore
  <2> QED
    BY <2>2, <2>3
<1>5. LaunchRollback(j)
  BY <1>2, <1>3, <1>4 DEF Client
<1>6. PICK n : jobs' = [jobs EXCEPT ![j] = [Unused EXCEPT !.kind = "rollback", !.pc = "down",
                                                          !.version = n, !.pinned = TRUE]]
  BY <1>5 DEF LaunchRollback
<1> QED
  BY <1>0, <1>6 DEF Unused

\* whatever else happens.
LEMMA StepRuns ==
  ASSUME DoneInv, Overlap = {}, [Next]_vars
  PROVE  RunsHold'
<1>0. TypeOK /\ OneOperation /\ PlacesHold
  BY DEF DoneInv, DeployInv, SerialInv
<1>1. ASSUME NEW j \in Jobs, Client(j)
      PROVE  RunsHold'
  <2>1. Starts(j)
    BY <1>0, <1>1, ClientStarts
  <2>2. \A i \in Jobs \ {j} : ~InFlight(i)'
    BY <1>0, <2>1, StartsSerial
  <2>3. jobs'[j].kind = "rollback" => jobs'[j].pinned
    BY <1>0, <1>1, RollbackPinned
  <2>4. RunHolds(j)'
    BY <2>1, <2>3 DEF Starts, RunHolds, Deploys, Upped
  <2> QED
    BY <2>2, <2>4, IdleRuns DEF RunsHold
<1>2. ASSUME NEW j \in Jobs, Thread(j)
      PROVE  RunsHold'
  <2>1. Moves(j)
    BY <1>0, <1>2, ThreadMoves
  <2>2. \A i \in Jobs \ {j} : ~InFlight(i)'
    BY <1>0, <2>1, MovesSerial
  <2>3. RunHolds(j)'
    BY <1>2, ThreadRuns
  <2> QED
    BY <2>2, <2>3, IdleRuns DEF RunsHold
<1>3. CASE SetLimit \/ DeleteDocker \/ Handler \/ Abort \/ Neighbour
  <2>1. Stays
    BY <1>0, <1>3, OthersStay
  <2>2. CASE Abort \/ Neighbour
    <3>1. files' = files /\ stack' = stack /\ rows' = rows
      BY <2>2 DEF Abort, Neighbour, Database
    <3>2. ASSUME NEW i \in Jobs PROVE RunHolds(i)'
      BY <2>1, <3>1 DEF Stays, DoneInv, RunsHold, RunHolds, InFlight, Present
    <3> QED
      BY <3>2 DEF RunsHold
  <2>3. CASE SetLimit \/ DeleteDocker \/ Handler
    <3>1. \A i \in Jobs : ~InFlight(i)
      BY <1>0, <2>3 DEF SetLimit, DeleteDocker, Handler, EnforceLimit, DeleteNginx, DeleteRow,
                        OneOperation, Admits, Idle, NoTeardown
    <3>2. \A i \in Jobs : ~InFlight(i)'
      BY <2>1, <3>1 DEF Stays, InFlight
    <3> QED
      BY <3>2, IdleRuns DEF RunsHold
  <2> QED
    BY <1>3, <2>2, <2>3
<1>4. CASE Crash
  <2>1. \A i \in Jobs : ~InFlight(i)'
    BY <1>0, <1>4, CrashSerial
  <2> QED
    BY <2>1, IdleRuns DEF RunsHold
<1>5. CASE UNCHANGED vars
  <2>1. UNCHANGED <<jobs, rows, files, stack>>
    BY <1>5 DEF vars
  <2>2. ASSUME NEW i \in Jobs PROVE RunHolds(i)'
    BY <2>1 DEF DoneInv, RunsHold, RunHolds, InFlight, Present
  <2> QED
    BY <2>2 DEF RunsHold
<1> QED
  BY <1>1, <1>2, <1>3, <1>4, <1>5 DEF Next

\* The invariant of success holds at first
LEMMA DoneInit == Init => DoneInv
<1> SUFFICES ASSUME Init PROVE DoneInv
  OBVIOUS
<1>1. RunsHold /\ OwnArtifacts(rows)
  BY DEF Init, RunsHold, RunHolds, InFlight, Unused, Upped, OwnArtifacts, NoRow
<1> QED
  BY <1>1, DeployInit, InitRoutes DEF DoneInv

\* and after every step.
LEMMA DoneStep == DoneInv /\ Overlap = {} /\ [Next]_vars => DoneInv'
BY DeployStep, StepRoutes, StepOwn, StepRuns DEF DoneInv, DeployInv

\* Without overlaps, and whatever fails, a deploy or rollback that is about to report
\* success has made its version the active, pinned, running and served one
\* (DoneIsCurrent).
THEOREM SuccessIsCurrent == Overlap = {} => (Spec => []DoneIsCurrent)
<1> SUFFICES ASSUME Overlap = {}
             PROVE  Spec => []DoneIsCurrent
  OBVIOUS
<1>1. Init => DoneInv
  BY DoneInit
<1>2. DoneInv /\ [Next]_vars => DoneInv'
  BY DoneStep
<1>3. DoneInv => DoneIsCurrent
  <2> SUFFICES ASSUME DoneInv, NEW j \in Jobs, jobs[j].pc = "finish",
                      jobs[j].kind \in Deploys \cup {"rollback"}
               PROVE  \E r \in Jobs :
                        /\ rows[r].status = "active" /\ rows[r].version = jobs[j].version
                        /\ stack.image = r /\ files.pin = rows[r].version
                        /\ stack.port = nginx /\ nginx = project.port
    BY DEF DoneIsCurrent
  <2>1. DeployHolds(j) /\ RouteHolds(j) /\ RunHolds(j)
    BY DEF DoneInv, DeployInv, DeploysHold, RoutesHold, RunsHold
  <2>2. PICK r \in Jobs : /\ rows[r].status = "active" /\ rows[r].version = jobs[j].version
                          /\ stack.image = r
    BY <2>1 DEF RunHolds
  <2>3. files.pin = jobs[j].version
    BY <2>1 DEF RunHolds, DeployHolds, Tagged, Upped
  <2>4. nginx = jobs[j].port /\ project.port = jobs[j].port /\ stack.port = jobs[j].port
    BY <2>1 DEF RunHolds, RouteHolds, Provisioned, Upped
  <2> QED
    BY <2>2, <2>3, <2>4
<1> QED
  BY <1>1, <1>2, <1>3, PTL DEF Spec

-----------------------------------------------------------------------------
(* Operations that only an unhealthy application disturbs                   *)

\* Job j is the one docker_service has registered.
Listed(j) ==
  \/ jobs[j].pc \in {"build", "tag", "down", "up", "recover", "replace", "copy", "halt", "extract",
                     "promote", "archive", "commit", "fail", "finish", "exited"}
  \/ jobs[j].kind = "rollback" /\ InFlight(j)

NotAborted ==
  /\ \A i \in Jobs : status[i] # "aborted" /\ ~jobs[i].killed
  /\ registered # NoJob /\ status[registered] = "running" => Listed(registered)
  /\ \A j \in Jobs : Listed(j) => registered = j

\* A job whose command has ended is not killed,
LEMMA GotoUnkilled ==
  ASSUME TypeOK, NEW j \in Jobs, NEW pc, Goto(j, pc)
  PROVE  ~jobs'[j].killed
BY DEF Goto, TypeOK, JobRecords

\* nor is one that is over,
LEMMA OverUnkilled ==
  ASSUME TypeOK, NEW j \in Jobs, Over(j)
  PROVE  ~jobs'[j].killed
BY DEF Over, TypeOK, Unused

\* nor one that nobody has killed.
LEMMA ThreadUnkilled ==
  ASSUME TypeOK, NEW j \in Jobs, Thread(j), ~jobs[j].killed
  PROVE  ~jobs'[j].killed
<1>0. jobs \in [Jobs -> JobRecords]
  BY DEF TypeOK
<1>1. CASE (\E pc : Goto(j, pc)) \/ Over(j)
  BY <1>1, GotoUnkilled, OverUnkilled
<1>2. CASE Provision(j)
  BY <1>0, <1>2 DEF Provision, JobRecords
<1>3. CASE Launch(j)
  <2>1. PICK n, v : jobs' = [jobs EXCEPT ![j].pc = "build", ![j].version = n,
                                         ![j].pinned = TRUE, ![j].previous = v]
    <3>1. jobs' = [jobs EXCEPT ![j].pc = "build", ![j].version = project.counter + 1,
             ![j].pinned = TRUE,
             ![j].previous = IF \E r \in Jobs : rows[r].status = "active"
                             THEN rows[CHOOSE r \in Jobs : rows[r].status = "active"].version
                             ELSE 0]
      BY <1>3 DEF Launch
    <3> QED
      BY <3>1, Zenon
  <2> QED
    BY <1>0, <2>1 DEF JobRecords
<1>4. CASE Tag(j)
  <2>1. PICK p, b : jobs' = [jobs EXCEPT ![j].pc = p, ![j].tagged = b]
    <3>1. \/ jobs' = [jobs EXCEPT ![j].pc = IF Aborted THEN "fail" ELSE "down",
                                  ![j].tagged = TRUE]
          \/ jobs' = [jobs EXCEPT ![j].pc = "fail",
                                  ![j].tagged = (built # NoJob /\ files.source = NoJob)]
      BY <1>4 DEF Tag
    <3> QED
      BY <3>1, Zenon
  <2> QED
    BY <1>0, <2>1 DEF JobRecords
<1>5. CASE Promote(j) /\ ~Goto(j, "fail")
  <2>1. PICK c, l, o : jobs' = [jobs EXCEPT ![j].pc = "archive", ![j].counter = c,
                                            ![j].limit = l, ![j].outcome = o]
    <3>1. jobs' = [jobs EXCEPT ![j].pc = "archive", ![j].counter = project.counter,
            ![j].limit = project.limit,
            ![j].outcome = IF stack.state = "up" THEN "ok" ELSE "failed"]
      BY <1>5 DEF Promote
    <3> QED
      BY <3>1, Zenon
  <2> QED
    BY <1>0, <2>1 DEF JobRecords
<1>6. CASE Extract(j)
  BY <1>0, <1>6 DEF Extract, JobRecords
<1>7. CASE Down(j) /\ ~(\E pc : Goto(j, pc))
  <2>1. PICK o : jobs' = [jobs EXCEPT ![j].pc = "exited", ![j].killed = FALSE, ![j].outcome = o]
    BY <1>7 DEF Down, GotoIf
  <2> QED
    BY <1>0, <2>1 DEF JobRecords
<1>8. CASE Up(j) /\ ~(\E pc : Goto(j, pc))
  <2>1. PICK o : jobs' = [jobs EXCEPT ![j].pc = "exited", ![j].killed = FALSE, ![j].outcome = o]
    BY <1>8 DEF Up, GotoIf
  <2> QED
    BY <1>0, <2>1 DEF JobRecords
<1>9. CASE ~(\/ Provision(j) \/ Launch(j) \/ Tag(j) \/ Promote(j) \/ Extract(j) \/ Down(j)
             \/ Up(j))
  <2>1. (\E pc : Goto(j, pc)) \/ Over(j)
    BY <1>9 DEF Thread, Clone, ProvisionFails, SetupNginx, RecordPort, RejectVhost, LaunchRefused,
       Build, Replace, Copy, Recover, Halt, Archive, LockTimeout, Commit, Finish, Fail, Monitor,
       GotoIf, Finished, Unprovisioned
  <2> QED
    BY <1>1, <2>1
<1> QED
  BY <1>1, <1>2, <1>3, <1>4, <1>5, <1>6, <1>7, <1>8, <1>9

\* A job's end is told to the registry.
LEMMA ThreadNotAborted ==
  ASSUME TypeOK, OneOperation, PlacesHold, NotAborted, NEW j \in Jobs, Thread(j)
  PROVE  NotAborted'
<1>0. /\ Moves(j) /\ PlaceHolds(j) /\ status \in [Jobs -> Statuses]
      /\ registered \in Jobs \cup {NoJob} /\ NoJob \notin Jobs
      /\ \A i \in Jobs \ {j} : ~InFlight(i) /\ ~InFlight(i)'
  <2>1. Moves(j)
    BY ThreadMoves
  <2>2. NoJob \notin Jobs
    BY ComposeAssumption DEF Jobs, NoJob
  <2> QED
    BY <2>1, <2>2, MovesSerial DEF PlacesHold, TypeOK, Statuses
<1>1. \A i \in Jobs : ~jobs'[i].killed
  BY <1>0, ThreadUnkilled DEF NotAborted, Moves
<1>2. \A i \in Jobs \ {j} : ~Listed(i) /\ ~Listed(i)'
  BY <1>0 DEF Listed, InFlight
<1>3. CASE jobs[j].pc \notin {"launch", "finish", "fail", "exited"}
  <2>1. registered' = registered /\ status' = status
    BY <1>3, Zenon DEF Thread, Clone, Provision, ProvisionFails, SetupNginx, RecordPort,
       RejectVhost, Launch, LaunchRefused, Build, Tag, Down, Replace, Copy, Up, Recover, Halt,
       Extract, Promote, Archive, LockTimeout, Commit, Finish, Fail, Monitor, Registry
  <2>2. Listed(j)' <=> Listed(j)
    <3>1. jobs[j].pc \in Places
      BY DEF TypeOK, JobRecords, Places
    <3> QED
      BY <1>0, <1>3, <3>1 DEF Moves, NextPlaces, Listed, InFlight, PlaceHolds, Deploys, Places
  <2> QED
    BY <1>0, <1>1, <1>2, <2>1, <2>2 DEF NotAborted
<1>4. CASE jobs[j].pc = "launch"
  <2>1. CASE Launch(j)
    <3>1. registered' = j /\ status' = [status EXCEPT ![j] = "running"]
      BY <2>1 DEF Launch, Register
    <3>2. jobs'[j].pc = "build"
      BY <2>1 DEF Launch, TypeOK, JobRecords
    <3>3. Listed(j)'
      BY <3>2 DEF Listed
    <3> QED
      BY <1>0, <1>1, <1>2, <3>1, <3>3 DEF NotAborted
  <2>2. CASE LaunchRefused(j)
    <3>1. registered' = registered /\ status' = status
      BY <2>2 DEF LaunchRefused, Registry
    <3>2. ~Listed(j)'
      <4>1. jobs'[j].pc = "over"
        BY <2>2, OverIs DEF LaunchRefused
      <4> QED
        BY <4>1 DEF Listed, InFlight
    <3>3. ~Listed(j)
      BY <1>0, <1>4 DEF Listed, PlaceHolds, Deploys
    <3> QED
      BY <1>0, <1>1, <1>2, <3>1, <3>2, <3>3 DEF NotAborted
  <2> QED
    BY <1>4, <2>1, <2>2 DEF Thread, Clone, Provision, ProvisionFails, SetupNginx, RecordPort,
       RejectVhost, Build, Tag, Down, Replace, Copy, Up, Recover, Halt, Extract, Promote,
       Archive, LockTimeout, Commit, Finish, Fail, Monitor
<1>5. CASE jobs[j].pc \in {"finish", "fail", "exited"}
  <2>1. /\ registered' = registered /\ registered = j
        /\ \A i \in Jobs \ {j} : status'[i] = status[i]
        /\ status'[j] \notin {"running", "aborted"}
    <3>1. registered = j /\ status[j] # "aborted"
      BY <1>5 DEF NotAborted, Listed
    <3>2. CASE Finish(j) \/ Fail(j)
      <4>1. PICK o \in {"done", "error"} :
               status' = IF registered = NoJob THEN status
                         ELSE [status EXCEPT ![registered] = IF status[registered] = "running"
                                                             THEN o ELSE status[registered]]
        BY <3>2 DEF Finish, Fail, Finished
      <4>2. registered' = registered
        BY <3>2 DEF Finish, Fail, Finished
      <4> QED
        BY <1>0, <3>1, <4>1, <4>2
    <3>3. CASE Monitor(j)
      <4>1. status' = [status EXCEPT ![j] = IF status[j] # "running" THEN status[j]
                                            ELSE IF jobs[j].outcome = "ok" THEN "done"
                                            ELSE "error"]
            /\ registered' = registered
        BY <3>3 DEF Monitor
      <4> QED
        BY <1>0, <3>1, <4>1
    <3> QED
      BY <1>5, <3>2, <3>3, Zenon DEF Thread, Clone, Provision, ProvisionFails, SetupNginx,
         RecordPort, RejectVhost, Launch, LaunchRefused, Build, Tag, Down, Replace, Copy, Up,
         Recover, Halt, Extract, Promote, Archive, LockTimeout, Commit
  <2>2. ~Listed(j)'
    BY <1>0, <1>5 DEF Moves, NextPlaces, Listed, InFlight
  <2> QED
    BY <1>1, <1>2, <2>1, <2>2 DEF NotAborted
<1> QED
  BY <1>3, <1>4, <1>5

\* Where nobody aborts and nothing crashes, no job is aborted or killed.
LEMMA StepNotAborted ==
  ASSUME TypeOK, OneOperation, PlacesHold, NotAborted, Overlap = {}, Faults \subseteq {"badapp"},
         [Next]_vars
  PROVE  NotAborted'
<1>0. registered \in Jobs \cup {NoJob} /\ NoJob \notin Jobs /\ status \in [Jobs -> Statuses]
      /\ jobs \in [Jobs -> JobRecords]
  BY ComposeAssumption DEF TypeOK, Statuses, Jobs, NoJob
<1>1. ASSUME NEW j \in Jobs, Client(j)
      PROVE  NotAborted'
  <2>1. Starts(j) /\ \A i \in Jobs : ~InFlight(i)
    BY <1>1, ClientStarts DEF Starts, Idle
  <2>2. \A i \in Jobs \ {j} : ~Listed(i)' /\ jobs'[i] = jobs[i]
    BY <2>1, StartsSerial DEF Listed, InFlight, Starts
  <2>3. ~jobs'[j].killed
    <3>1. ASSUME NEW x, jobs' = [jobs EXCEPT ![j] = x]
          PROVE  jobs'[j] = x
      BY <1>0, <3>1
    <3>2. CASE Upload(j)
      <4>1. /\ ~[Unused EXCEPT !.kind = "deploy", !.pc = "provision"].killed
            /\ ~[Unused EXCEPT !.kind = "git", !.pc = "clone"].killed
        BY DEF Unused
      <4>2. \/ jobs' = [jobs EXCEPT ![j] = [Unused EXCEPT !.kind = "deploy", !.pc = "provision"]]
            \/ jobs' = [jobs EXCEPT ![j] = [Unused EXCEPT !.kind = "git", !.pc = "clone"]]
        BY <3>2 DEF Upload
      <4> QED
        BY <3>1, <4>1, <4>2
    <3>3. CASE LaunchRestart(j)
      <4>1. PICK b : jobs' = [jobs EXCEPT ![j] = [Unused EXCEPT !.kind = "restart", !.pc = "up",
                                                   !.pinned = b]]
        BY <3>3, Zenon DEF LaunchRestart
      <4>2. ~[Unused EXCEPT !.kind = "restart", !.pc = "up", !.pinned = b].killed
        BY DEF Unused
      <4> QED
        BY <3>1, <4>1, <4>2
    <3>4. CASE LaunchDown(j) \/ LaunchRestore(j)
      <4>1. /\ ~[Unused EXCEPT !.kind = "down", !.pc = "down"].killed
            /\ ~[Unused EXCEPT !.kind = "restore", !.pc = "halt"].killed
        BY DEF Unused
      <4> QED
        BY <3>1, <3>4, <4>1 DEF LaunchDown, LaunchRestore
    <3>5. CASE LaunchRollback(j)
      <4>1. PICK n : jobs' = [jobs EXCEPT ![j] = [Unused EXCEPT !.kind = "rollback", !.pc = "down",
                                                   !.version = n, !.pinned = TRUE]]
        BY <3>5 DEF LaunchRollback
      <4> QED
        BY <1>0, <4>1 DEF Unused
    <3> QED
      BY <1>1, <3>2, <3>3, <3>4, <3>5 DEF Client
  <2>4. CASE Upload(j)
    <3>1. registered' = registered /\ status' = status
      BY <2>4 DEF Upload, Registry
    <3>2. ~(registered # NoJob /\ status[registered] = "running")
      <4>1. \A i \in Jobs : ~Listed(i)
        BY <2>1 DEF Listed, InFlight
      <4> QED
        BY <1>0, <4>1 DEF NotAborted
    <3>3. ~Listed(j)'
      <4>1. jobs'[j].kind \in Deploys /\ jobs'[j].pc \in {"provision", "clone"}
        <5>1. \/ jobs' = [jobs EXCEPT ![j] = [Unused EXCEPT !.kind = "deploy", !.pc = "provision"]]
              \/ jobs' = [jobs EXCEPT ![j] = [Unused EXCEPT !.kind = "git", !.pc = "clone"]]
          BY <2>4 DEF Upload
        <5>2. ASSUME NEW x, jobs' = [jobs EXCEPT ![j] = x]
              PROVE  jobs'[j] = x
          BY <1>0, <5>2
        <5>3. /\ [Unused EXCEPT !.kind = "deploy", !.pc = "provision"].kind = "deploy"
              /\ [Unused EXCEPT !.kind = "deploy", !.pc = "provision"].pc = "provision"
              /\ [Unused EXCEPT !.kind = "git", !.pc = "clone"].kind = "git"
              /\ [Unused EXCEPT !.kind = "git", !.pc = "clone"].pc = "clone"
          BY DEF Unused
        <5> QED
          BY <5>1, <5>2, <5>3 DEF Deploys
      <4> QED
        BY <4>1 DEF Listed, Deploys
    <3> QED
      BY <1>0, <2>2, <2>3, <3>1, <3>2, <3>3 DEF NotAborted
  <2>5. CASE ~Upload(j)
    <3>1. registered' = j /\ status' = [status EXCEPT ![j] = "running"]
      BY <1>1, <2>5 DEF Client, LaunchRollback, LaunchRestart, LaunchDown, LaunchRestore, Register
    <3>2. Listed(j)'
      <4>1. jobs'[j].kind \notin Deploys
        <5>1. ASSUME NEW x, jobs' = [jobs EXCEPT ![j] = x]
              PROVE  jobs'[j] = x
          BY <1>0, <5>1
        <5>2. CASE LaunchRestart(j)
          <6>1. PICK b : jobs' = [jobs EXCEPT ![j] = [Unused EXCEPT !.kind = "restart",
                                                       !.pc = "up", !.pinned = b]]
            BY <5>2, Zenon DEF LaunchRestart
          <6>2. [Unused EXCEPT !.kind = "restart", !.pc = "up", !.pinned = b].kind = "restart"
            BY DEF Unused
          <6> QED
            BY <5>1, <6>1, <6>2 DEF Deploys
        <5>3. CASE LaunchDown(j) \/ LaunchRestore(j)
          <6>1. /\ [Unused EXCEPT !.kind = "down", !.pc = "down"].kind = "down"
                /\ [Unused EXCEPT !.kind = "restore", !.pc = "halt"].kind = "restore"
            BY DEF Unused
          <6> QED
            BY <5>1, <5>3, <6>1 DEF LaunchDown, LaunchRestore, Deploys
        <5>4. CASE LaunchRollback(j)
          <6>1. PICK n : jobs' = [jobs EXCEPT ![j] = [Unused EXCEPT !.kind = "rollback",
                                                !.pc = "down", !.version = n, !.pinned = TRUE]]
            BY <5>4 DEF LaunchRollback
          <6> QED
            BY <1>0, <6>1 DEF Unused, Deploys
        <5> QED
          BY <1>1, <2>5, <5>2, <5>3, <5>4 DEF Client
      <4> QED
        BY <2>1, <4>1 DEF Starts, Listed, InFlight, Deploys
    <3> QED
      BY <1>0, <2>2, <2>3, <3>1, <3>2 DEF NotAborted
  <2> QED
    BY <2>4, <2>5
<1>2. CASE \E j \in Jobs : Thread(j)
  BY <1>2, ThreadNotAborted
<1>3. CASE SetLimit \/ DeleteDocker \/ Handler \/ UNCHANGED vars
  <2>1. jobs' = jobs /\ status' = status /\ registered' = registered
    <3>1. CASE DeleteDocker
      <4>1. \A i \in Jobs : ~InFlight(i)
        BY <3>1 DEF DeleteDocker, Admits, Idle
      <4>2. ~(registered # NoJob /\ status[registered] = "running")
        BY <1>0, <4>1 DEF NotAborted, Listed, InFlight
      <4> QED
        BY <3>1, <4>2 DEF DeleteDocker, AbortRegistered
    <3>2. CASE SetLimit \/ Handler \/ UNCHANGED vars
      BY <3>2 DEF SetLimit, Handler, EnforceLimit, DeleteNginx, DeleteRow, vars, Registry
    <3> QED
      BY <1>3, <3>1, <3>2
  <2> QED
    BY <2>1 DEF NotAborted, Listed, InFlight
<1>4. ~Abort /\ ~Neighbour /\ ~Crash
  BY DEF Abort, Neighbour, Crash
<1> QED
  BY <1>1, <1>2, <1>3, <1>4 DEF Next

-----------------------------------------------------------------------------
Given == {NoPort, FirstPort}

\* Every port there is is the first one, and a provisioned project is served.
PortsGiven ==
  /\ project.port \in Given /\ files.port \in Given /\ stack.port \in Given
  /\ \A n \in Names : snapshots[n].port \in Given
  /\ project.port # NoPort /\ teardown = NoTeardown => nginx # NoPort
  /\ stack.state = "up" => stack.port # NoPort
  /\ project.counter > 0 => project.port # NoPort

\* A stack that an up has changed has the port of its files.
LEMMA UpPort ==
  ASSUME NEW f, NEW pinned, NEW killed, NEW res \in UpResults(f, pinned, killed)
  PROVE  \/ res.stack = stack
         \/ res.stack.port = f.port /\ f.port # NoPort
BY UpShape DEF Usable

\* A thread gives out the first port only,
LEMMA ThreadPorts ==
  ASSUME SerialInv, RoutesHold, PortInv, PortsGiven, Faults \subseteq {"badapp"},
         NEW j \in Jobs, Thread(j)
  PROVE  PortsGiven'
<1>0. /\ TypeOK /\ PlaceHolds(j) /\ RouteHolds(j) /\ jobs \in [Jobs -> JobRecords]
      /\ files \in Directories /\ project \in ProjectRecords /\ stack \in StackRecords
      /\ snapshots \in [Names -> Directories] /\ jobs[j].version \in Names
  BY DEF SerialInv, PlacesHold, RoutesHold, TypeOK, JobRecords
<1>1. teardown' = teardown
  BY <1>0, ThreadMoves DEF Moves
<1>2. files'.port \in Given
  <2>1. CASE Provision(j)
    <3>1. NextPort = FirstPort
      BY DEF PortInv, NextPort, FirstPort, FreePorts
    <3> QED
      BY <1>0, <2>1, <3>1 DEF Provision, Directories, Given
  <2>2. CASE Copy(j)
    BY <1>0, <2>2 DEF Copy, PortsGiven
  <2>3. CASE ~Provision(j) /\ ~Copy(j)
    <3>1. \/ files' = files \/ files' = NoFiles \/ files' = [NoFiles EXCEPT !.source = j]
          \/ files' = [files EXCEPT !.pin = jobs[j].version]
      BY <2>3, Zenon DEF Thread, Clone, ProvisionFails, SetupNginx, RecordPort, RejectVhost, Launch,
         LaunchRefused, Build, Tag, Down, Replace, Up, Recover, Halt, Extract, Promote,
         Archive, LockTimeout, Commit, Finish, Fail, Monitor
    <3> QED
      BY <1>0, <3>1 DEF PortsGiven, NoFiles, Given, Directories
  <2> QED
    BY <2>1, <2>2, <2>3
<1>3. \A n \in Names : snapshots'[n].port \in Given
  <2>1. CASE Promote(j)
    BY <1>0, <2>1 DEF Promote, PortsGiven
  <2>2. CASE ~Promote(j)
    <3>1. snapshots' = snapshots \/ \E S : snapshots' = SnapshotsWithout(S)
      BY <2>2, Zenon DEF Thread, Clone, Provision, ProvisionFails, SetupNginx, RecordPort,
         RejectVhost, Launch, LaunchRefused, Build, Tag, Down, Replace, Copy, Up, Recover, Halt,
         Extract, Archive, LockTimeout, Commit, Finish, Fail, Monitor
    <3> QED
      BY <3>1 DEF SnapshotsWithout, PortsGiven, NoFiles, Given
  <2> QED
    BY <2>1, <2>2
<1>4. stack'.port \in Given /\ (stack'.state = "up" => stack'.port # NoPort)
  <2>1. CASE Up(j)
    <3>1. PICK res \in UpResults(files, jobs[j].pinned, jobs[j].killed) : stack' = res.stack
      BY <2>1 DEF Up
    <3> QED
      BY <3>1, UpShape DEF Usable, PortsGiven
  <2>2. CASE Recover(j)
    <3>1. CASE stack' = stack
      BY <3>1 DEF PortsGiven
    <3>2. CASE stack' # stack
      <4>1. PICK res \in UpResults(snapshots[jobs[j].previous], TRUE, jobs[j].killed) :
              stack' = res.stack
        BY <2>2, <3>2 DEF Recover
      <4>2. PICK f : f = snapshots[jobs[j].previous]
        OBVIOUS
      <4>3. f.port \in Given
        BY <1>0, <4>2 DEF JobRecords, PortsGiven
      <4>4. res \in UpResults(f, TRUE, jobs[j].killed)
        BY <4>1, <4>2
      <4>5. \/ res.stack = stack
            \/ res.stack.port = f.port /\ f.port # NoPort
        BY <4>4, UpPort, Zenon
      <4> QED
        BY <4>1, <4>3, <4>5 DEF PortsGiven
    <3> QED
      BY <3>1, <3>2
  <2>3. CASE Down(j)
    <3>1. stack' = stack \/ \E res \in QuitResults(NoStack, jobs[j].killed) : stack' = res.stack
      BY <2>3 DEF Down
    <3>2. stack' = stack \/ stack' = NoStack
      BY <3>1, QuitShape
    <3> QED
      BY <3>2 DEF PortsGiven, NoStack, Given
  <2>4. CASE Halt(j)
    <3>1. \E res \in QuitResults(Stopped, jobs[j].killed) : stack' = res.stack
      BY <2>4 DEF Halt
    <3>2. stack' = stack \/ stack' = Stopped
      BY <3>1, QuitShape
    <3>3. Stopped.port = stack.port /\ Stopped.state # "up"
      BY <1>0 DEF Stopped, StackRecords
    <3> QED
      BY <3>2, <3>3 DEF PortsGiven
  <2>5. CASE ~(Up(j) \/ Recover(j) \/ Down(j) \/ Halt(j))
    <3>1. stack' = stack
      BY <2>5 DEF Thread, Clone, Provision, ProvisionFails, SetupNginx, RecordPort, RejectVhost,
         Launch, LaunchRefused, Build, Tag, Replace, Copy, Extract, Promote, Archive,
         LockTimeout, Commit, Finish, Fail, Monitor
    <3> QED
      BY <3>1 DEF PortsGiven
  <2> QED
    BY <2>1, <2>2, <2>3, <2>4, <2>5
<1>5. /\ project'.port \in Given
      /\ project'.port # NoPort /\ teardown' = NoTeardown => nginx' # NoPort
      /\ project'.counter > 0 => project'.port # NoPort
  <2>1. CASE RecordPort(j)
    <3>1. Provisioned(j) /\ jobs[j].pc = "record" /\ project'.port = jobs[j].port /\ nginx' = nginx
      BY <1>0, <2>1 DEF RecordPort, Provisioned, PlaceHolds, ProjectRecords
    <3> QED
      BY <1>0, <3>1 DEF RouteHolds, PortsGiven
  <2>2. CASE SetupNginx(j)
    <3>1. Provisioned(j) /\ project' = project /\ nginx' = jobs[j].port
      BY <1>0, <2>2 DEF SetupNginx, Provisioned, PlaceHolds, Database
    <3> QED
      BY <1>0, <3>1 DEF RouteHolds, PortsGiven
  <2>3. CASE Commit(j)
    <3>1. Provisioned(j) /\ jobs[j].pc = "commit" /\ project'.port = project.port /\ nginx' = nginx
      BY <1>0, <2>3 DEF Commit, Provisioned, PlaceHolds, ProjectRecords
    <3> QED
      BY <1>0, <1>1, <3>1 DEF RouteHolds, PortsGiven
  <2>4. CASE ~(RecordPort(j) \/ SetupNginx(j) \/ Commit(j))
    <3>1. ~RejectVhost(j)
      BY DEF RejectVhost
    <3>2. project' = project /\ nginx' = nginx
      BY <2>4, <3>1, Zenon DEF Thread, Clone, Provision, ProvisionFails, Launch, LaunchRefused,
         Build, Tag, Down, Replace, Copy, Up, Recover, Halt, Extract, Promote, Archive,
         LockTimeout, Finish, Fail, Monitor, Database
    <3> QED
      BY <1>1, <3>2 DEF PortsGiven
  <2> QED
    BY <2>1, <2>2, <2>3, <2>4
<1> QED
  BY <1>2, <1>3, <1>4, <1>5 DEF PortsGiven

\* and no other step gives out any.
LEMMA StepPorts ==
  ASSUME SerialInv, RoutesHold, PortInv, PortsGiven, Overlap = {}, Faults \subseteq {"badapp"},
         [Next]_vars
  PROVE  PortsGiven'
<1>0. /\ TypeOK /\ files \in Directories /\ project \in ProjectRecords /\ stack \in StackRecords
      /\ project.counter \in Nat
  BY VersionsTyped DEF SerialInv, TypeOK, ProjectRecords
<1>1. CASE \E j \in Jobs : Thread(j)
  BY <1>1, ThreadPorts
<1>2. ASSUME NEW j \in Jobs, Client(j)
      PROVE  PortsGiven'
  <2>1. /\ UNCHANGED <<nginx, snapshots, stack, teardown>>
        /\ project' = project \/ project' = NewProject
        /\ \/ files' = files \/ files' = NoFiles \/ files' = [files EXCEPT !.source = j]
           \/ files' = [files EXCEPT !.port = project.port]
    BY <1>2 DEF Client, Upload, LaunchRollback, LaunchRestart, LaunchDown, LaunchRestore,
       Database, Requests
  <2>2. files'.port \in Given
    BY <1>0, <2>1 DEF PortsGiven, Directories, NoFiles, Given
  <2>3. NewProject.port = NoPort /\ NewProject.counter = 0
    BY DEF NewProject, NoProject
  <2> QED
    BY <2>1, <2>2, <2>3 DEF PortsGiven, Given
<1>3. CASE SetLimit
  <2>1. /\ project'.port = project.port /\ project'.counter = project.counter
        /\ UNCHANGED <<nginx, files, snapshots, stack, teardown>>
    BY <1>0, <1>3 DEF SetLimit, ProjectRecords
  <2> QED
    BY <2>1 DEF PortsGiven
<1>4. CASE DeleteDocker
  <2>1. /\ project' = project /\ files' = NoFiles /\ teardown' # NoTeardown
        /\ snapshots' = snapshots \/ \E S : snapshots' = SnapshotsWithout(S)
        /\ stack' = stack \/ stack' = NoStack
    BY <1>4 DEF DeleteDocker, Database, NoTeardown
  <2>2. \A n \in Names : snapshots'[n].port \in Given
    BY <2>1 DEF SnapshotsWithout, PortsGiven, NoFiles, Given
  <2> QED
    BY <2>1, <2>2 DEF PortsGiven, NoFiles, NoStack, Given
<1>5. CASE EnforceLimit
  <2>1. /\ UNCHANGED <<project, nginx, files, stack, teardown>>
        /\ \E S : snapshots' = SnapshotsWithout(S)
    BY <1>5 DEF EnforceLimit
  <2>2. \A n \in Names : snapshots'[n].port \in Given
    BY <2>1 DEF SnapshotsWithout, PortsGiven, NoFiles, Given
  <2> QED
    BY <2>1, <2>2 DEF PortsGiven
<1>6. CASE DeleteNginx
  <2>1. /\ UNCHANGED <<project, files, snapshots, stack>>
        /\ teardown'.step = "row"
    BY <1>0, <1>6 DEF DeleteNginx, Database, TypeOK
  <2> QED
    BY <2>1 DEF PortsGiven, NoTeardown
<1>7. CASE DeleteRow
  <2>1. /\ UNCHANGED <<files, snapshots, stack>> /\ project' = NoProject
    BY <1>7 DEF DeleteRow
  <2> QED
    BY <2>1 DEF PortsGiven, NoProject, Given
<1>8. CASE UNCHANGED vars
  BY <1>8 DEF vars, PortsGiven
<1>9. ~Abort /\ ~Neighbour /\ ~Crash
  BY DEF Abort, Neighbour, Crash
<1> QED
  BY <1>1, <1>2, <1>3, <1>4, <1>5, <1>6, <1>7, <1>8, <1>9 DEF Next, Handler

-----------------------------------------------------------------------------
(* The active version is the one that runs                                  *)

\* What holds while no fault but an unhealthy application happens.
HealthyInv == DoneInv /\ RetainedInv /\ PortInv /\ NotAborted /\ PortsGiven

\* Job j is exchanging one version for another.
Switching(j) ==
  \/ jobs[j].kind \in Deploys /\ jobs[j].pc \in {"down", "up", "promote", "archive", "commit"}
  \/ /\ jobs[j].kind = "rollback"
     /\ jobs[j].pc \in {"replace", "copy", "provision", "vhost", "record", "up", "promote",
                        "archive", "commit"}

\* An exchange has files to go on with, and is never undone; what else starts the
\* stack goes by the pin file.
SwitchHolds(j) ==
  /\ jobs[j].pc # "recover"
  /\ jobs[j].kind = "rollback" /\ jobs[j].pc \in {"provision", "vhost", "record", "up"}
       => files.source # NoJob
  /\ jobs[j].kind \in {"restart", "restore"} /\ jobs[j].pc = "up"
       => (jobs[j].pinned <=> files.pin # 0)

SwitchesHold ==
  /\ \A j \in Jobs : SwitchHolds(j)
  /\ teardown # NoTeardown => files.pin = 0

\* Between exchanges, the pin file is the active version's and its image is what runs.
ActiveInv ==
  (\A j \in Jobs : ~Switching(j)) /\ files.pin # 0 =>
    \E r \in Jobs : /\ rows[r].status = "active" /\ rows[r].version = files.pin
                    /\ stack.state # "absent" => stack.image = r

\* What is known of the one job in flight.
LEMMA JobFacts ==
  ASSUME HealthyInv, NEW j \in Jobs, InFlight(j)
  PROVE  /\ SerialInv /\ TypeOK /\ PlaceHolds(j) /\ DeployHolds(j) /\ RouteHolds(j) /\ RunHolds(j)
         /\ CaptureHolds(j) /\ neighbours = {} /\ ~jobs[j].killed /\ ~Aborted /\ project.exists
         /\ teardown = NoTeardown
         /\ \A i \in Jobs \ {j} : ~InFlight(i)
         /\ \A p : Goto(j, p) => jobs'[j].pc = p
<1>1. /\ SerialInv /\ TypeOK /\ PlaceHolds(j) /\ DeployHolds(j) /\ RouteHolds(j) /\ RunHolds(j)
      /\ CaptureHolds(j) /\ neighbours = {} /\ OneOperation
  BY DEF HealthyInv, DoneInv, DeployInv, SerialInv, PlacesHold, DeploysHold, RoutesHold, RunsHold,
         Ledger, PortInv
<1>2. ~jobs[j].killed
  BY DEF HealthyInv, NotAborted
<1>3. ~Aborted
  BY <1>1 DEF HealthyInv, NotAborted, Aborted, TypeOK
<1>4. project.exists
  BY <1>1 DEF CaptureHolds
<1>5. teardown = NoTeardown /\ \A i \in Jobs \ {j} : ~InFlight(i)
  BY <1>1 DEF OneOperation
<1>6. \A p : Goto(j, p) => jobs'[j].pc = p
  BY <1>1 DEF Goto, TypeOK, JobRecords
<1> QED
  BY <1>1, <1>2, <1>3, <1>4, <1>5, <1>6

\* Commands that have what they need end well.
LEMMA UpWorks ==
  ASSUME neighbours = {}, Faults \subseteq {"badapp"}, NEW f, NEW pinned,
         Usable(f), Image(f, pinned) # NoJob, NEW res \in UpResults(f, pinned, FALSE)
  PROVE  res.ok
<1> DEFINE new(s) == [state |-> s, image |-> Image(f, pinned), files |-> f.source,
                      port |-> f.port]
<1>1. res \in {[ok |-> TRUE, stack |-> new("up")], [ok |-> TRUE, stack |-> new("partial")]}
  <2>1. "docker" \notin Faults
    OBVIOUS
  <2> QED
    BY <2>1 DEF UpResults
<1> QED
  BY <1>1

\* and so does a down or a stop.
LEMMA QuitWorks ==
  ASSUME Faults \subseteq {"badapp"}, NEW quit, Usable(files),
         NEW res \in QuitResults(quit, FALSE)
  PROVE  res.ok
<1>1. "docker" \notin Faults
  OBVIOUS
<1>2. res = [ok |-> TRUE, stack |-> quit]
  BY <1>1 DEF QuitResults
<1> QED
  BY <1>2

\* Where an up leads.
LEMMA UpGoes ==
  ASSUME NEW j \in Jobs, Up(j)
  PROVE  \E res \in UpResults(files, jobs[j].pinned, jobs[j].killed) :
           /\ stack' = res.stack
           /\ jobs[j].kind \in Deploys =>
                Goto(j, IF res.ok /\ ~Aborted THEN "promote"
                        ELSE IF jobs[j].previous # 0 THEN "recover" ELSE "fail")
           /\ jobs[j].kind = "rollback" => GotoIf(j, res.ok, "promote")
BY DEF Up, Deploys

\* The image a pinned version runs is that of its row.
LEMMA RowsKept ==
  ASSUME HealthyInv, teardown = NoTeardown, \A i \in Jobs : jobs[i].pc # "commit",
         NEW r \in Jobs, Present(r)
  PROVE  KeepsOwn(r, rows[r].version) /\ rows[r].version # 0 /\ r # NoJob
<1>1. SerialInv /\ RetainedInv
  BY DEF HealthyInv, DoneInv, DeployInv
<1>2. rows[r].version \in Versions /\ r # NoJob
  BY <1>1, RowVersions, ComposeAssumption DEF Jobs, NoJob
<1>3. Retains(rows)
  BY <1>1 DEF RetainedInv, NoTeardown
<1> QED
  BY <1>2, <1>3, ComposeAssumption DEF Retains, Present, Versions

\* A deploy that has begun to switch goes on until it has committed.
LEMMA DeploySwitches ==
  ASSUME HealthyInv, Faults \subseteq {"badapp"}, NEW j \in Jobs, jobs[j].kind \in Deploys,
         Switching(j), Thread(j)
  PROVE  Switching(j)' \/ Commit(j)
<1>0. /\ Moves(j) /\ SerialInv /\ TypeOK /\ DeployHolds(j) /\ RouteHolds(j) /\ RunHolds(j)
      /\ neighbours = {} /\ ~jobs[j].killed /\ ~Aborted /\ project.exists
      /\ \A i \in Jobs \ {j} : ~InFlight(i)
      /\ \A p : Goto(j, p) => jobs'[j].pc = p
      /\ jobs[j].pc \in {"down", "up", "promote", "archive", "commit"}
      /\ jobs'[j].kind \in Deploys
  <2>1. TypeOK
    BY DEF HealthyInv, PortInv
  <2>2. Moves(j)
    BY <2>1, ThreadMoves
  <2>3. InFlight(j)
    BY <2>2 DEF Moves
  <2>4. jobs[j].pc \in {"down", "up", "promote", "archive", "commit"}
    BY DEF Switching, Deploys
  <2>5. jobs'[j].kind \in Deploys
    BY <2>2 DEF Moves
  <2> QED
    BY <2>1, <2>2, <2>3, <2>4, <2>5, JobFacts
<1>1. /\ files.source = j /\ j # NoJob
      /\ jobs[j].pc \in Tagged => tags[jobs[j].version] = j /\ files.pin = jobs[j].version
  BY <1>0, ComposeAssumption DEF DeployHolds, Jobs, NoJob
<1>2. files.port # NoPort
  BY <1>0 DEF RouteHolds, Provisioned
<1>3. Usable(files)
  BY <1>1, <1>2 DEF Usable
<1>4. CASE jobs[j].pc = "down"
  <2>1. Down(j)
    BY <1>4 DEF Thread, Clone, Provision, ProvisionFails, SetupNginx, RecordPort, RejectVhost,
       Launch, LaunchRefused, Build, Tag, Replace, Copy, Up, Recover, Halt, Extract, Promote,
       Archive, LockTimeout, Commit, Finish, Fail, Monitor
  <2>2. PICK res \in QuitResults(NoStack, jobs[j].killed) : GotoIf(j, res.ok, "up")
    BY <2>1 DEF Down, Deploys
  <2>3. res \in QuitResults(NoStack, FALSE)
    BY <1>0, <2>2 DEF QuitResults
  <2>4. res.ok
    BY <1>3, <2>3, QuitWorks
  <2>5. jobs'[j].pc = "up"
    BY <1>0, <2>2, <2>4 DEF GotoIf
  <2> QED
    BY <1>0, <2>5 DEF Switching
<1>5. CASE jobs[j].pc = "up"
  <2>1. Up(j)
    BY <1>5 DEF Thread, Clone, Provision, ProvisionFails, SetupNginx, RecordPort, RejectVhost,
       Launch, LaunchRefused, Build, Tag, Down, Replace, Copy, Recover, Halt, Extract, Promote,
       Archive, LockTimeout, Commit, Finish, Fail, Monitor
  <2>2. PICK res \in UpResults(files, jobs[j].pinned, jobs[j].killed) :
          Goto(j, IF res.ok /\ ~Aborted THEN "promote"
                  ELSE IF jobs[j].previous # 0 THEN "recover" ELSE "fail")
    BY <2>1, UpGoes
  <2>3. jobs[j].pinned /\ tags[jobs[j].version] = j /\ files.pin = jobs[j].version
    BY <1>0, <1>1, <1>5 DEF RunHolds, Tagged
  <2>4. jobs[j].version # 0
    <3>1. jobs[j].version \in Versions
      BY <1>0, <1>5, NotRecorded DEF Deploying
    <3> QED
      BY <3>1, ComposeAssumption DEF Versions
  <2>5. Image(files, jobs[j].pinned) # NoJob
    BY <1>1, <2>3, <2>4 DEF Image
  <2>6. PICK b : b = jobs[j].pinned
    OBVIOUS
  <2>7. res \in UpResults(files, b, FALSE) /\ Image(files, b) # NoJob
    BY <1>0, <2>2, <2>5, <2>6 DEF UpResults
  <2>8. res.ok
    BY <1>0, <1>3, <2>7, UpWorks
  <2>9. jobs'[j].pc = "promote"
    BY <1>0, <2>2, <2>8
  <2> QED
    BY <1>0, <2>9 DEF Switching
<1>6. CASE jobs[j].pc = "promote"
  <2>1. Promote(j)
    BY <1>6 DEF Thread, Clone, Provision, ProvisionFails, SetupNginx, RecordPort, RejectVhost,
       Launch, LaunchRefused, Build, Tag, Down, Replace, Copy, Up, Recover, Halt, Extract,
       Archive, LockTimeout, Commit, Finish, Fail, Monitor
  <2>2. PICK c, l, o : jobs' = [jobs EXCEPT ![j].pc = "archive", ![j].counter = c,
                                            ![j].limit = l, ![j].outcome = o]
    <3>1. jobs' = [jobs EXCEPT ![j].pc = "archive", ![j].counter = project.counter,
            ![j].limit = project.limit,
            ![j].outcome = IF stack.state = "up" THEN "ok" ELSE "failed"]
      BY <1>0, <1>1, <2>1 DEF Promote
    <3> QED
      BY <3>1, Zenon
  <2>3. jobs'[j].pc = "archive"
    BY <1>0, <2>2 DEF TypeOK, JobRecords
  <2> QED
    BY <1>0, <2>3 DEF Switching
<1>7. CASE jobs[j].pc = "archive"
  <2>1. ~LockTimeout(j)
    BY <1>0, <1>7 DEF LockTimeout, Unlocked, InFlight
  <2>2. Archive(j)
    BY <1>7, <2>1 DEF Thread, Clone, Provision, ProvisionFails, SetupNginx, RecordPort,
       RejectVhost, Launch, LaunchRefused, Build, Tag, Down, Replace, Copy, Up, Recover, Halt,
       Extract, Promote, Commit, Finish, Fail, Monitor
  <2>3. PICK t \in Jobs : Target(j) = {t}
    BY <1>0, <1>7, TargetShape DEF SerialInv
  <2>4. Goto(j, "commit")
    BY <1>0, <2>2, <2>3 DEF Archive
  <2>5. jobs'[j].pc = "commit"
    BY <1>0, <2>4
  <2> QED
    BY <1>0, <2>5 DEF Switching
<1>8. CASE jobs[j].pc = "commit"
  BY <1>8 DEF Thread, Clone, Provision, ProvisionFails, SetupNginx, RecordPort, RejectVhost,
     Launch, LaunchRefused, Build, Tag, Down, Replace, Copy, Up, Recover, Halt, Extract, Promote,
     Archive, LockTimeout, Finish, Fail, Monitor
<1> QED
  BY <1>0, <1>4, <1>5, <1>6, <1>7, <1>8

\* And so does a rollback that has taken the stack down.
LEMMA RollbackSwitches ==
  ASSUME HealthyInv, SwitchesHold, Faults \subseteq {"badapp"}, NEW j \in Jobs,
         jobs[j].kind = "rollback", Switching(j), Thread(j)
  PROVE  /\ Switching(j)' \/ Commit(j)
         /\ jobs'[j].pc \in {"provision", "vhost", "record", "up"} => files'.source # NoJob
<1>0. /\ Moves(j) /\ SerialInv /\ TypeOK /\ RouteHolds(j) /\ RunHolds(j) /\ CaptureHolds(j)
      /\ neighbours = {} /\ ~jobs[j].killed /\ ~Aborted /\ project.exists /\ SwitchHolds(j)
      /\ teardown = NoTeardown
      /\ \A i \in Jobs \ {j} : ~InFlight(i)
      /\ \A p : Goto(j, p) => jobs'[j].pc = p
      /\ jobs[j].pc \in {"replace", "copy", "provision", "vhost", "record", "up", "promote",
                        "archive", "commit"}
      /\ jobs'[j].kind = "rollback" /\ jobs[j].kind \notin Deploys /\ jobs[j].kind # "git"
      /\ files \in Directories
  <2>1. TypeOK /\ files \in Directories /\ SwitchHolds(j)
    BY DEF HealthyInv, PortInv, TypeOK, SwitchesHold
  <2>2. Moves(j)
    BY <2>1, ThreadMoves
  <2>3. InFlight(j)
    BY <2>2 DEF Moves
  <2>4. /\ jobs[j].pc \in {"replace", "copy", "provision", "vhost", "record", "up", "promote",
                          "archive", "commit"}
        /\ jobs[j].kind \notin Deploys /\ jobs[j].kind # "git"
    BY DEF Switching, Deploys
  <2>5. jobs'[j].kind = "rollback"
    BY <2>2 DEF Moves
  <2> QED
    BY <2>1, <2>2, <2>3, <2>4, <2>5, JobFacts
<1>1. PICK r \in Jobs : Present(r) /\ rows[r].version = jobs[j].version
  BY <1>0 DEF CaptureHolds, Moves
<1>2. jobs[j].pc # "commit" =>
        KeepsOwn(r, jobs[j].version) /\ jobs[j].version # 0 /\ r # NoJob
  <2> SUFFICES ASSUME jobs[j].pc # "commit"
               PROVE  KeepsOwn(r, jobs[j].version) /\ jobs[j].version # 0 /\ r # NoJob
    OBVIOUS
  <2>1. \A i \in Jobs : jobs[i].pc # "commit"
    BY <1>0 DEF InFlight
  <2> QED
    BY <1>0, <1>1, <2>1, RowsKept
<1>3. CASE jobs[j].pc = "replace"
  <2>1. Replace(j)
    BY <1>3 DEF Thread, Clone, Provision, ProvisionFails, SetupNginx, RecordPort, RejectVhost,
       Launch, LaunchRefused, Build, Tag, Down, Copy, Up, Recover, Halt, Extract, Promote,
       Archive, LockTimeout, Commit, Finish, Fail, Monitor
  <2>2. jobs'[j].pc = "copy"
    BY <1>0, <2>1 DEF Replace
  <2> QED
    BY <1>0, <2>2 DEF Switching
<1>4. CASE jobs[j].pc = "copy"
  <2>1. Copy(j)
    BY <1>4 DEF Thread, Clone, Provision, ProvisionFails, SetupNginx, RecordPort, RejectVhost,
       Launch, LaunchRefused, Build, Tag, Down, Replace, Up, Recover, Halt, Extract, Promote,
       Archive, LockTimeout, Commit, Finish, Fail, Monitor
  <2>2. snapshots[jobs[j].version].source # NoJob
    BY <1>2, <1>4 DEF KeepsOwn
  <2>3. snapshots[jobs[j].version] # NoFiles
    BY <2>2 DEF NoFiles
  <2>4. files'.source # NoJob /\ jobs'[j].pc = "provision"
    BY <1>0, <2>1, <2>2, <2>3 DEF Copy
  <2> QED
    BY <1>0, <2>4 DEF Switching
<1>5. CASE jobs[j].pc = "provision"
  <2>1. ~LockTimeout(j)
    BY <1>0, <1>5 DEF LockTimeout, Unlocked, InFlight
  <2>2. FreePorts # {}
    <3>1. project.counter > 0
      BY <1>0, <1>1, ComposeAssumption DEF SerialInv, Ledger, Tiers, Present, TypeOK,
                                           ProjectRecords, Names
    <3>2. project.port # NoPort
      BY <3>1 DEF HealthyInv, PortsGiven
    <3>3. project.port \in PortRange
      BY <1>0, <3>2 DEF TypeOK, ProjectRecords, Ports
    <3> QED
      BY <1>0, <3>3 DEF FreePorts
  <2>3. files.source # NoJob
    BY <1>0, <1>5 DEF SwitchHolds
  <2>4. ~ProvisionFails(j)
    BY <1>0, <2>2, <2>3 DEF ProvisionFails
  <2>5. Provision(j)
    BY <1>5, <2>1, <2>4 DEF Thread, Clone, SetupNginx, RecordPort, RejectVhost, Launch,
       LaunchRefused, Build, Tag, Down, Replace, Copy, Up, Recover, Halt, Extract, Promote,
       Archive, Commit, Finish, Fail, Monitor
  <2>6. files'.source # NoJob /\ jobs'[j].pc = "vhost"
    BY <1>0, <2>3, <2>5 DEF Provision, TypeOK, JobRecords, Directories
  <2> QED
    BY <1>0, <2>6 DEF Switching
<1>6. CASE jobs[j].pc = "vhost"
  <2>1. ~RejectVhost(j)
    BY DEF RejectVhost
  <2>2. SetupNginx(j)
    BY <1>6, <2>1 DEF Thread, Clone, Provision, ProvisionFails, RecordPort,
       Launch, LaunchRefused, Build, Tag, Down, Replace, Copy, Up, Recover, Halt, Extract,
       Promote, Archive, LockTimeout, Commit, Finish, Fail, Monitor
  <2>3. files' = files /\ jobs'[j].pc = "record"
    BY <1>0, <2>2 DEF SetupNginx
  <2> QED
    BY <1>0, <1>6, <2>3 DEF Switching, SwitchHolds
<1>7. CASE jobs[j].pc = "record"
  <2>1. RecordPort(j)
    BY <1>7 DEF Thread, Clone, Provision, ProvisionFails, SetupNginx, RejectVhost,
       Launch, LaunchRefused, Build, Tag, Down, Replace, Copy, Up, Recover, Halt, Extract,
       Promote, Archive, LockTimeout, Commit, Finish, Fail, Monitor
  <2>2. files' = files /\ jobs'[j].pc = "up"
    BY <1>0, <2>1 DEF RecordPort
  <2> QED
    BY <1>0, <1>7, <2>2 DEF Switching, SwitchHolds
<1>8. CASE jobs[j].pc = "up"
  <2>1. Up(j)
    BY <1>8 DEF Thread, Clone, Provision, ProvisionFails, SetupNginx, RecordPort, RejectVhost,
       Launch, LaunchRefused, Build, Tag, Down, Replace, Copy, Recover, Halt, Extract, Promote,
       Archive, LockTimeout, Commit, Finish, Fail, Monitor
  <2>2. PICK res \in UpResults(files, jobs[j].pinned, jobs[j].killed) :
          GotoIf(j, res.ok, "promote")
    BY <2>1, UpGoes
  <2>3. /\ jobs[j].pinned /\ files.pin = jobs[j].version
        /\ files.source # NoJob /\ files.port # NoPort
    BY <1>0, <1>8 DEF RunHolds, SwitchHolds, RouteHolds, Provisioned, InFlight
  <2>4. Image(files, jobs[j].pinned) # NoJob /\ Usable(files)
    BY <1>2, <1>8, <2>3 DEF Image, Usable, KeepsOwn
  <2>5. PICK b : b = jobs[j].pinned
    OBVIOUS
  <2>6. res \in UpResults(files, b, FALSE) /\ Image(files, b) # NoJob
    BY <1>0, <2>2, <2>4, <2>5 DEF UpResults
  <2>7. res.ok
    BY <1>0, <2>4, <2>6, UpWorks
  <2>8. jobs'[j].pc = "promote"
    BY <1>0, <2>2, <2>7 DEF GotoIf
  <2> QED
    BY <1>0, <2>8 DEF Switching
<1>9. CASE jobs[j].pc = "promote"
  <2>1. Promote(j)
    BY <1>9 DEF Thread, Clone, Provision, ProvisionFails, SetupNginx, RecordPort, RejectVhost,
       Launch, LaunchRefused, Build, Tag, Down, Replace, Copy, Up, Recover, Halt, Extract,
       Archive, LockTimeout, Commit, Finish, Fail, Monitor
  <2>2. PICK c, l, o : jobs' = [jobs EXCEPT ![j].pc = "archive", ![j].counter = c,
                                            ![j].limit = l, ![j].outcome = o]
    <3>1. jobs' = [jobs EXCEPT ![j].pc = "archive", ![j].counter = project.counter,
            ![j].limit = project.limit,
            ![j].outcome = IF stack.state = "up" THEN "ok" ELSE "failed"]
      BY <1>0, <2>1 DEF Promote
    <3> QED
      BY <3>1, Zenon
  <2>3. jobs'[j].pc = "archive"
    BY <1>0, <2>2 DEF TypeOK, JobRecords
  <2> QED
    BY <1>0, <2>3 DEF Switching
<1>10. CASE jobs[j].pc = "archive"
  <2>1. ~LockTimeout(j)
    BY <1>0, <1>10 DEF LockTimeout, Unlocked, InFlight
  <2>2. Archive(j)
    BY <1>10, <2>1 DEF Thread, Clone, Provision, ProvisionFails, SetupNginx, RecordPort,
       RejectVhost, Launch, LaunchRefused, Build, Tag, Down, Replace, Copy, Up, Recover, Halt,
       Extract, Promote, Commit, Finish, Fail, Monitor
  <2>3. PICK t \in Jobs : Target(j) = {t}
    BY <1>0, <1>10, TargetShape DEF SerialInv
  <2>4. Goto(j, "commit")
    BY <1>0, <2>2, <2>3 DEF Archive
  <2>5. jobs'[j].pc = "commit"
    BY <1>0, <2>4
  <2> QED
    BY <1>0, <2>5 DEF Switching
<1>11. CASE jobs[j].pc = "commit"
  <2>1. Commit(j)
    BY <1>11 DEF Thread, Clone, Provision, ProvisionFails, SetupNginx, RecordPort, RejectVhost,
       Launch, LaunchRefused, Build, Tag, Down, Replace, Copy, Up, Recover, Halt, Extract,
       Promote, Archive, LockTimeout, Finish, Fail, Monitor
  <2>2. jobs'[j].pc = "finish"
    BY <1>0, <2>1 DEF Commit
  <2> QED
    BY <2>1, <2>2
<1> QED
  BY <1>0, <1>3, <1>4, <1>5, <1>6, <1>7, <1>8, <1>9, <1>10, <1>11

\* A thread that is not switching leaves the active version pinned and running.
LEMMA ThreadActive ==
  ASSUME HealthyInv, SwitchesHold, ActiveInv, Faults \subseteq {"badapp"}, NEW j \in Jobs,
         Thread(j), ~Switching(j)
  PROVE  ActiveInv'
<1>0. /\ Moves(j) /\ SerialInv /\ TypeOK /\ PlaceHolds(j) /\ SwitchHolds(j) /\ ~jobs[j].killed
      /\ ~Aborted /\ teardown = NoTeardown
      /\ \A i \in Jobs \ {j} : ~InFlight(i)
      /\ jobs \in [Jobs -> JobRecords] /\ files \in Directories /\ stack \in StackRecords
  <2>1. /\ TypeOK /\ SwitchHolds(j) /\ jobs \in [Jobs -> JobRecords] /\ files \in Directories
        /\ stack \in StackRecords
    BY DEF HealthyInv, PortInv, TypeOK, SwitchesHold
  <2>2. Moves(j)
    BY <2>1, ThreadMoves
  <2>3. InFlight(j)
    BY <2>2 DEF Moves
  <2> QED
    BY <2>1, <2>2, <2>3, JobFacts
<1> SUFFICES ASSUME ~Switching(j)', files'.pin # 0
             PROVE  \E r \in Jobs : /\ rows'[r].status = "active" /\ rows'[r].version = files'.pin
                                    /\ stack'.state # "absent" => stack'.image = r
  BY DEF ActiveInv
<1>1. \A i \in Jobs : ~Switching(i)
  <2>1. ASSUME NEW i \in Jobs \ {j} PROVE ~Switching(i)
    BY <1>0 DEF Switching, InFlight
  <2> QED
    BY <2>1
<1>2. jobs[j].pc \notin {"replace", "copy", "promote", "archive", "commit", "recover"}
  BY <1>0 DEF PlaceHolds, SwitchHolds, Switching
<1>3. rows' = rows
  BY <1>2, Zenon DEF Thread, Clone, Provision, ProvisionFails, SetupNginx, RecordPort, RejectVhost,
     Launch, LaunchRefused, Build, Tag, Down, Replace, Copy, Up, Recover, Halt, Extract,
     Promote, Archive, LockTimeout, Commit, Finish, Fail, Monitor, Database
<1>4. files'.pin = files.pin
  <2>1. CASE Tag(j)
    <3>1. CASE files' = files
      BY <3>1
    <3>2. CASE files' # files
      <4>1. jobs' = [jobs EXCEPT ![j].pc = IF Aborted THEN "fail" ELSE "down",
                                 ![j].tagged = TRUE]
        BY <2>1, <3>2 DEF Tag
      <4>2. PICK p : p = IF Aborted THEN "fail" ELSE "down"
        OBVIOUS
      <4>3. p = "down" /\ jobs' = [jobs EXCEPT ![j].pc = p, ![j].tagged = TRUE]
        BY <1>0, <4>1, <4>2
      <4>4. jobs'[j].pc = "down" /\ jobs'[j].kind = jobs[j].kind
        BY <1>0, <4>3 DEF JobRecords
      <4>5. jobs[j].kind \in Deploys
        BY <1>0, <2>1 DEF Tag, PlaceHolds
      <4> QED
        BY <4>4, <4>5 DEF Switching
    <3> QED
      BY <3>1, <3>2
  <2>2. CASE Provision(j)
    BY <1>0, <2>2 DEF Provision, Directories
  <2>3. CASE ~Tag(j) /\ ~Provision(j)
    <3>1. \/ files' = files \/ files' = NoFiles \/ files' = [NoFiles EXCEPT !.source = j]
      BY <1>2, <2>3, Zenon DEF Thread, Clone, ProvisionFails, SetupNginx, RecordPort,
         RejectVhost, Launch, LaunchRefused, Build, Down, Replace, Copy, Up, Recover, Halt,
         Extract, Promote, Archive, LockTimeout, Commit, Finish, Fail, Monitor
    <3> QED
      BY <3>1 DEF NoFiles
  <2> QED
    BY <2>1, <2>2, <2>3
<1>5. PICK r \in Jobs : /\ rows[r].status = "active" /\ rows[r].version = files.pin
                        /\ stack.state # "absent" => stack.image = r
  BY <1>1, <1>4 DEF ActiveInv
<1>6. stack'.state # "absent" => stack'.image = r
  <2>1. CASE Up(j)
    <3>1. PICK res \in UpResults(files, jobs[j].pinned, jobs[j].killed) : stack' = res.stack
      BY <2>1 DEF Up
    <3>2. jobs[j].kind \in {"restart", "restore"}
      BY <1>0, <2>1 DEF Up, PlaceHolds, Switching
    <3>3. jobs[j].pinned
      BY <1>0, <1>4, <2>1, <3>2 DEF SwitchHolds, Up
    <3>4. \A i \in Jobs : jobs[i].pc # "commit"
      BY <1>0, <1>2 DEF InFlight
    <3>5. Present(r)
      BY <1>5 DEF Present
    <3>6. KeepsOwn(r, rows[r].version)
      BY <1>0, <3>4, <3>5, RowsKept
    <3>7. Image(files, jobs[j].pinned) = r
      BY <1>4, <1>5, <3>3, <3>6 DEF Image, KeepsOwn
    <3>8. stack' = stack \/ stack'.image = Image(files, jobs[j].pinned)
      BY <3>1, UpShape
    <3> QED
      BY <1>5, <3>7, <3>8
  <2>2. CASE Down(j)
    <3>1. stack' = stack \/ \E res \in QuitResults(NoStack, jobs[j].killed) : stack' = res.stack
      BY <2>2 DEF Down
    <3>2. stack' = stack \/ stack' = NoStack
      BY <3>1, QuitShape
    <3> QED
      BY <1>5, <3>2 DEF NoStack
  <2>3. CASE Halt(j)
    <3>1. \E res \in QuitResults(Stopped, jobs[j].killed) : stack' = res.stack
      BY <2>3 DEF Halt
    <3>2. stack' = stack \/ stack' = Stopped
      BY <3>1, QuitShape
    <3>3. Stopped.image = stack.image /\ (Stopped.state # "absent" => stack.state # "absent")
      BY <1>0 DEF Stopped, StackRecords
    <3> QED
      BY <1>5, <3>2, <3>3
  <2>4. CASE ~(Up(j) \/ Down(j) \/ Halt(j))
    <3>1. stack' = stack
      BY <1>2, <2>4 DEF Thread, Clone, Provision, ProvisionFails, SetupNginx, RecordPort,
         RejectVhost, Launch, LaunchRefused, Build, Tag, Replace, Copy, Recover, Extract,
         Promote, Archive, LockTimeout, Commit, Finish, Fail, Monitor
    <3> QED
      BY <1>5, <3>1
  <2> QED
    BY <2>1, <2>2, <2>3, <2>4
<1> QED
  BY <1>3, <1>4, <1>5, <1>6

\* A commit ends an exchange: the version it records is pinned and runs.
LEMMA CommitActive ==
  ASSUME DoneInv', NEW j \in Jobs, Commit(j), TypeOK, PlaceHolds(j)
  PROVE  ActiveInv'
<1>1. /\ jobs'[j].kind \in Deploys \cup {"rollback"} /\ jobs'[j].pc = "finish"
  <2>1. Moves(j)
    BY ThreadMoves DEF Thread
  <2> QED
    BY <2>1 DEF Moves, NextPlaces, Commit, PlaceHolds
<1>2. RunHolds(j)' /\ DeployHolds(j)'
  BY DEF DoneInv, DeployInv, RunsHold, DeploysHold
<1>3. \E r \in Jobs : /\ rows'[r].status = "active" /\ rows'[r].version = jobs'[j].version
                      /\ stack'.image = r
  BY <1>1, <1>2 DEF RunHolds
<1>4. files'.pin = jobs'[j].version
  BY <1>1, <1>2 DEF RunHolds, DeployHolds, Tagged, Upped
<1> QED
  BY <1>3, <1>4 DEF ActiveInv

\* Between exchanges, the active version is pinned and runs, whatever the step.
LEMMA StepActive ==
  ASSUME HealthyInv, DoneInv', SwitchesHold, ActiveInv, Overlap = {}, Faults \subseteq {"badapp"},
         [Next]_vars
  PROVE  ActiveInv'
<1>0. /\ TypeOK /\ OneOperation /\ PlacesHold /\ SerialInv
      /\ files \in Directories /\ project \in ProjectRecords /\ stack \in StackRecords
  BY DEF HealthyInv, DoneInv, DeployInv, SerialInv, TypeOK
<1>1. ASSUME NEW j \in Jobs, Thread(j)
      PROVE  ActiveInv'
  <2>1. CASE ~Switching(j)
    BY <1>1, <2>1, ThreadActive
  <2>2. CASE Switching(j)
    <3>1. PlaceHolds(j)
      BY <1>0 DEF PlacesHold
    <3>2. Switching(j)' \/ Commit(j)
      <4>1. CASE jobs[j].kind \in Deploys
        BY <1>1, <2>2, <4>1, DeploySwitches
      <4>2. CASE jobs[j].kind = "rollback"
        BY <1>1, <2>2, <4>2, RollbackSwitches
      <4> QED
        BY <2>2, <4>1, <4>2 DEF Switching
    <3>3. CASE Switching(j)'
      BY <3>3 DEF ActiveInv
    <3>4. CASE Commit(j)
      BY <1>0, <3>1, <3>4, CommitActive
    <3> QED
      BY <3>2, <3>3, <3>4
  <2> QED
    BY <2>1, <2>2
<1>2. ASSUME NEW j \in Jobs, Client(j)
      PROVE  ActiveInv'
  <2>1. Starts(j)
    BY <1>0, <1>2, ClientStarts
  <2>2. \A i \in Jobs : ~InFlight(i)
    BY <2>1 DEF Starts, Idle
  <2>3. \A i \in Jobs : ~Switching(i)
    BY <2>2 DEF InFlight, Switching
  <2>4. rows' = rows /\ stack' = stack
    BY <1>2 DEF Client, Upload, LaunchRollback, LaunchRestart, LaunchDown, LaunchRestore, Database
  <2>5. files'.pin = files.pin \/ files'.pin = 0
    <3>1. \/ files' = files \/ files' = NoFiles \/ files' = [files EXCEPT !.source = j]
          \/ files' = [files EXCEPT !.port = project.port]
      BY <1>2 DEF Client, Upload, LaunchRollback, LaunchRestart, LaunchDown, LaunchRestore
    <3> QED
      BY <1>0, <3>1 DEF Directories, NoFiles
  <2> QED
    BY <2>3, <2>4, <2>5 DEF ActiveInv
<1>3. CASE SetLimit \/ DeleteDocker \/ Handler \/ UNCHANGED vars
  <2>1. /\ \A i \in Jobs : Switching(i)' <=> Switching(i)
    <3>1. CASE UNCHANGED vars
      BY <3>1 DEF vars, Switching
    <3>2. CASE ~(UNCHANGED vars)
      <4>1. Stays
        BY <1>0, <1>3, <3>2, OthersStay
      <4> QED
        BY <4>1 DEF Stays, Switching
    <3> QED
      BY <3>1, <3>2
  <2>2. CASE SetLimit \/ DeleteNginx \/ UNCHANGED vars
    <3>1. UNCHANGED <<rows, files, stack>>
      BY <2>2 DEF SetLimit, DeleteNginx, Database, vars
    <3> QED
      BY <2>1, <3>1 DEF ActiveInv
  <2>3. CASE DeleteDocker
    BY <2>3 DEF DeleteDocker, NoFiles, ActiveInv
  <2>4. CASE EnforceLimit
    <3>1. /\ UNCHANGED <<files, stack>>
          /\ rows' = rows \/ rows' = Pruned(rows, project.limit)
      BY <2>4 DEF EnforceLimit
    <3>2. ASSUME NEW r \in Jobs, rows[r].status = "active"
          PROVE  rows'[r] = rows[r]
      BY <3>1, <3>2, PrunedShape
    <3> QED
      BY <2>1, <3>1, <3>2 DEF ActiveInv
  <2>5. CASE DeleteRow
    <3>1. files' = files /\ files.pin = 0
      BY <2>5 DEF DeleteRow, SwitchesHold, NoTeardown
    <3> QED
      BY <3>1 DEF ActiveInv
  <2> QED
    BY <1>3, <2>2, <2>3, <2>4, <2>5 DEF Handler
<1>4. ~Abort /\ ~Neighbour /\ ~Crash
  BY DEF Abort, Neighbour, Crash
<1> QED
  BY <1>1, <1>2, <1>3, <1>4 DEF Next

\* A job that is not in flight exchanges nothing.
LEMMA IdleSwitches ==
  ASSUME NEW j \in Jobs, ~InFlight(j)'
  PROVE  SwitchHolds(j)'
BY DEF InFlight, SwitchHolds

\* An exchange is never undone,
LEMMA ThreadSwitches ==
  ASSUME HealthyInv, SwitchesHold, Faults \subseteq {"badapp"}, NEW j \in Jobs, Thread(j)
  PROVE  SwitchHolds(j)'
<1>0. /\ Moves(j) /\ TypeOK /\ PlaceHolds(j) /\ SwitchHolds(j) /\ jobs \in [Jobs -> JobRecords]
  <2>1. TypeOK /\ SwitchHolds(j) /\ PlaceHolds(j) /\ jobs \in [Jobs -> JobRecords]
    BY DEF HealthyInv, PortInv, TypeOK, SwitchesHold, DoneInv, DeployInv, SerialInv, PlacesHold
  <2> QED
    BY <2>1, ThreadMoves
<1>1. /\ jobs'[j].kind = jobs[j].kind /\ jobs'[j].pc \in NextPlaces(jobs[j].kind, jobs[j].pc)
  BY <1>0 DEF Moves
<1>2. jobs'[j].pc # "recover"
  <2> SUFFICES ASSUME jobs'[j].pc = "recover" PROVE FALSE
    OBVIOUS
  <2>1. jobs[j].pc = "up" /\ jobs[j].kind \in Deploys
    BY <1>1 DEF NextPlaces
  <2>2. Switching(j)' \/ Commit(j)
    BY <2>1, DeploySwitches DEF Switching
  <2> QED
    BY <2>1, <2>2 DEF Switching, Commit
<1>3. ASSUME jobs'[j].kind = "rollback", jobs'[j].pc \in {"provision", "vhost", "record", "up"}
      PROVE  files'.source # NoJob
  <2>1. jobs[j].kind = "rollback" /\ jobs[j].pc \in {"copy", "provision", "vhost", "record"}
    BY <1>0, <1>1, <1>3 DEF NextPlaces, Deploys, PlaceHolds
  <2> QED
    BY <1>3, <2>1, RollbackSwitches DEF Switching
<1>4. ASSUME jobs'[j].kind \in {"restart", "restore"}, jobs'[j].pc = "up"
      PROVE  jobs'[j].pinned <=> files'.pin # 0
  <2>1. jobs[j].kind \in {"restart", "restore"} /\ jobs[j].pc = "extract"
    BY <1>0, <1>1, <1>4 DEF NextPlaces, Deploys, PlaceHolds
  <2>2. Extract(j)
    BY <2>1 DEF Thread, Clone, Provision, ProvisionFails, SetupNginx, RecordPort, RejectVhost,
       Launch, LaunchRefused, Build, Tag, Down, Replace, Copy, Up, Recover, Halt, Promote,
       Archive, LockTimeout, Commit, Finish, Fail, Monitor
  <2>3. PICK o, b : /\ jobs' = [jobs EXCEPT ![j].pc = "up", ![j].killed = FALSE,
                                           ![j].outcome = o, ![j].pinned = b]
                    /\ b = (files.pin # 0)
    BY <2>2, Zenon DEF Extract
  <2>4. files' = files
    BY <2>2 DEF Extract
  <2>5. jobs'[j].pinned = b
    BY <1>0, <2>3 DEF JobRecords
  <2> QED
    BY <2>3, <2>4, <2>5
<1> QED
  BY <1>2, <1>3, <1>4 DEF SwitchHolds

\* and nothing else disturbs it.
LEMMA StepSwitches ==
  ASSUME HealthyInv, SwitchesHold, Overlap = {}, Faults \subseteq {"badapp"}, [Next]_vars
  PROVE  SwitchesHold'
<1>0. /\ TypeOK /\ OneOperation /\ PlacesHold /\ jobs \in [Jobs -> JobRecords]
      /\ files \in Directories
  BY DEF HealthyInv, DoneInv, DeployInv, SerialInv, TypeOK
<1>1. ASSUME NEW j \in Jobs, Thread(j)
      PROVE  SwitchesHold'
  <2>1. Moves(j)
    BY <1>0, <1>1, ThreadMoves
  <2>2. \A i \in Jobs \ {j} : ~InFlight(i)'
    BY <1>0, <2>1, MovesSerial
  <2>3. SwitchHolds(j)'
    BY <1>1, ThreadSwitches
  <2>4. teardown' = NoTeardown
    BY <1>0, <2>1 DEF Moves, OneOperation
  <2> QED
    BY <2>2, <2>3, <2>4, IdleSwitches DEF SwitchesHold
<1>2. ASSUME NEW j \in Jobs, Client(j)
      PROVE  SwitchesHold'
  <2>1. Starts(j)
    BY <1>0, <1>2, ClientStarts
  <2>2. \A i \in Jobs \ {j} : ~InFlight(i)'
    BY <1>0, <2>1, StartsSerial
  <2>3. teardown' = NoTeardown
    BY <2>1 DEF Starts, Idle
  <2>4. CASE LaunchRestart(j)
    <3>1. PICK b : /\ jobs' = [jobs EXCEPT ![j] = [Unused EXCEPT !.kind = "restart", !.pc = "up",
                                                                 !.pinned = b]]
                   /\ b = (files.pin # 0)
      BY <2>4, Zenon DEF LaunchRestart
    <3>2. files' = [files EXCEPT !.port = project.port]
      BY <2>4 DEF LaunchRestart
    <3>3. files'.pin = files.pin
      BY <1>0, <3>2 DEF Directories
    <3>4. /\ [Unused EXCEPT !.kind = "restart", !.pc = "up", !.pinned = b].kind = "restart"
          /\ [Unused EXCEPT !.kind = "restart", !.pc = "up", !.pinned = b].pc = "up"
          /\ [Unused EXCEPT !.kind = "restart", !.pc = "up", !.pinned = b].pinned = b
      BY DEF Unused
    <3>5. jobs'[j].kind = "restart" /\ jobs'[j].pc = "up" /\ jobs'[j].pinned = b
      BY <1>0, <3>1, <3>4
    <3>6. SwitchHolds(j)'
      BY <3>1, <3>3, <3>5 DEF SwitchHolds
    <3> QED
      BY <2>2, <2>3, <3>6, IdleSwitches DEF SwitchesHold
  <2>5. CASE ~LaunchRestart(j)
    <3>1. jobs'[j].kind # "restart"
      <4>1. ASSUME NEW x, jobs' = [jobs EXCEPT ![j] = x]
            PROVE  jobs'[j] = x
        BY <1>0, <4>1
      <4>2. CASE Upload(j)
        <5>1. \/ jobs' = [jobs EXCEPT ![j] = [Unused EXCEPT !.kind = "deploy",
                                                            !.pc = "provision"]]
              \/ jobs' = [jobs EXCEPT ![j] = [Unused EXCEPT !.kind = "git", !.pc = "clone"]]
          BY <4>2 DEF Upload
        <5>2. /\ [Unused EXCEPT !.kind = "deploy", !.pc = "provision"].kind = "deploy"
              /\ [Unused EXCEPT !.kind = "git", !.pc = "clone"].kind = "git"
          BY DEF Unused
        <5> QED
          BY <4>1, <5>1, <5>2
      <4>3. CASE LaunchDown(j) \/ LaunchRestore(j)
        <5>1. \/ jobs' = [jobs EXCEPT ![j] = [Unused EXCEPT !.kind = "down", !.pc = "down"]]
              \/ jobs' = [jobs EXCEPT ![j] = [Unused EXCEPT !.kind = "restore", !.pc = "halt"]]
          BY <4>3 DEF LaunchDown, LaunchRestore
        <5>2. /\ [Unused EXCEPT !.kind = "down", !.pc = "down"].kind = "down"
              /\ [Unused EXCEPT !.kind = "restore", !.pc = "halt"].kind = "restore"
          BY DEF Unused
        <5> QED
          BY <4>1, <5>1, <5>2
      <4>4. CASE LaunchRollback(j)
        <5>1. PICK n : jobs' = [jobs EXCEPT ![j] = [Unused EXCEPT !.kind = "rollback",
                                              !.pc = "down", !.version = n, !.pinned = TRUE]]
          BY <4>4 DEF LaunchRollback
        <5> QED
          BY <1>0, <5>1 DEF Unused
      <4> QED
        BY <1>2, <2>5, <4>2, <4>3, <4>4 DEF Client
    <3>2. SwitchHolds(j)'
      BY <2>1, <3>1 DEF Starts, SwitchHolds
    <3> QED
      BY <2>2, <2>3, <3>2, IdleSwitches DEF SwitchesHold
  <2> QED
    BY <2>4, <2>5
<1>3. CASE DeleteDocker
  <2>1. \A i \in Jobs : ~InFlight(i)
    BY <1>3 DEF DeleteDocker, Admits, Idle
  <2>2. Stays
    BY <1>0, <1>3, OthersStay
  <2>3. \A i \in Jobs : ~InFlight(i)'
    BY <2>1, <2>2 DEF Stays, InFlight
  <2>4. files'.pin = 0
    BY <1>3 DEF DeleteDocker, NoFiles
  <2> QED
    BY <2>3, <2>4, IdleSwitches DEF SwitchesHold
<1>4. CASE SetLimit \/ Handler \/ UNCHANGED vars
  <2>1. jobs' = jobs /\ files' = files /\ (teardown' # NoTeardown => teardown # NoTeardown)
    BY <1>4 DEF SetLimit, Handler, EnforceLimit, DeleteNginx, DeleteRow, Registry, vars, NoTeardown
  <2> QED
    BY <2>1 DEF SwitchesHold, SwitchHolds
<1>5. ~Abort /\ ~Neighbour /\ ~Crash
  BY DEF Abort, Neighbour, Crash
<1> QED
  BY <1>1, <1>2, <1>3, <1>4, <1>5 DEF Next

-----------------------------------------------------------------------------
SettledInv == HealthyInv /\ SwitchesHold /\ ActiveInv

\* The invariant of a settled stack holds at first
LEMMA SettledInit ==
  ASSUME Faults \subseteq {"badapp"}, Init
  PROVE  SettledInv
<1>1. DoneInv /\ RetainedInv
  BY DoneInit, InitRetained
<1>2. PortInv
  BY InitTyped DEF Init, PortInv, GivenFirst, Unused
<1>3. NotAborted
  BY DEF Init, NotAborted, Unused, Listed, InFlight
<1>4. PortsGiven
  BY DEF Init, PortsGiven, Given, NoProject, NoFiles, NoStack
<1>5. SwitchesHold
  BY DEF Init, SwitchesHold, SwitchHolds, Unused
<1>6. ActiveInv
  BY DEF Init, ActiveInv, NoFiles
<1> QED
  BY <1>1, <1>2, <1>3, <1>4, <1>5, <1>6 DEF SettledInv, HealthyInv

\* and after every step.
LEMMA SettledStep ==
  ASSUME SettledInv, Overlap = {}, Faults \subseteq {"badapp"}, [Next]_vars
  PROVE  SettledInv'
<1>0. /\ DoneInv /\ DeployInv /\ SerialInv /\ RoutesHold /\ RetainedInv /\ PortInv /\ NotAborted
      /\ PortsGiven /\ HealthyInv /\ SwitchesHold /\ ActiveInv
      /\ TypeOK /\ OneOperation /\ PlacesHold
  BY DEF SettledInv, HealthyInv, DoneInv, DeployInv, SerialInv
<1>1. DoneInv'
  BY <1>0, DoneStep
<1>2. RetainedInv'
  BY <1>0, StepRetained
<1>3. PortInv'
  BY <1>0, PortStep
<1>4. NotAborted'
  BY <1>0, StepNotAborted
<1>5. PortsGiven'
  BY <1>0, StepPorts
<1>6. SwitchesHold'
  BY <1>0, StepSwitches
<1>7. ActiveInv'
  BY <1>0, <1>1, StepActive
<1> QED
  BY <1>1, <1>2, <1>3, <1>4, <1>5, <1>6, <1>7 DEF SettledInv, HealthyInv

\* What an up that succeeds runs.
LEMMA UpImage ==
  ASSUME NEW f, NEW pinned, NEW killed, NEW res \in UpResults(f, pinned, killed), res.ok
  PROVE  res.stack.image = Image(f, pinned)
BY UpShape

\* Where nothing overlaps and only applications fail, a stack that is up when all is
\* idle serves on the port that nginx and the database have, and a pin file is the active
\* version's, whose image runs (SettledStack).
THEOREM StackSettles ==
  Overlap = {} /\ Faults \subseteq {"badapp"} => (Spec => []SettledStack)
<1> SUFFICES ASSUME Overlap = {}, Faults \subseteq {"badapp"}
             PROVE  Spec => []SettledStack
  OBVIOUS
<1>1. Init => SettledInv
  BY SettledInit
<1>2. SettledInv /\ [Next]_vars => SettledInv'
  BY SettledStep
<1>3. SettledInv => SettledStack
  <2> SUFFICES ASSUME SettledInv, Idle, project.counter > 0, stack.state = "up"
               PROVE  /\ stack.port = nginx /\ nginx = project.port
                      /\ files.pin # 0 =>
                           \E r \in Jobs : /\ rows[r].status = "active"
                                           /\ rows[r].version = files.pin /\ stack.image = r
    BY DEF SettledStack
  <2>1. stack.port = nginx /\ nginx = project.port
    <3>1. nginx \in Given /\ PortsGiven
      BY DEF SettledInv, HealthyInv, PortInv, Given
    <3>2. nginx # NoPort /\ project.port # NoPort /\ stack.port # NoPort
      BY <3>1 DEF PortsGiven, Idle
    <3> QED
      BY <3>1, <3>2 DEF PortsGiven, Given
  <2>2. \A i \in Jobs : ~Switching(i)
    BY DEF Idle, InFlight, Switching
  <2> QED
    BY <2>1, <2>2 DEF SettledInv, ActiveInv
<1> QED
  BY <1>1, <1>2, <1>3, PTL DEF Spec

\* Nor does a restart that finds a pin file run anything but the active version
\* (RestartRunsActive).
THEOREM RestartsActive ==
  Overlap = {} /\ Faults \subseteq {"badapp"} => (Spec => RestartRunsActive)
<1> SUFFICES ASSUME Overlap = {}, Faults \subseteq {"badapp"}
             PROVE  Spec => RestartRunsActive
  OBVIOUS
<1> DEFINE Runs == \A j \in Jobs :
             /\ jobs[j].kind = "restart" /\ jobs[j].pc = "up" /\ files.pin # 0
             /\ jobs'[j].outcome = "ok"
             => \A r \in Jobs : rows[r].status = "active" => stack'.image = r
<1>1. Init => SettledInv
  BY SettledInit
<1>2. SettledInv /\ [Next]_vars => SettledInv'
  BY SettledStep
<1>3. SettledInv /\ [Next]_vars => [Runs]_vars
  <2> SUFFICES ASSUME SettledInv, [Next]_vars, NEW j \in Jobs,
                      jobs[j].kind = "restart", jobs[j].pc = "up", files.pin # 0,
                      jobs'[j].outcome = "ok", NEW r \in Jobs, rows[r].status = "active",
                      vars' # vars
               PROVE  stack'.image = r
    BY DEF Runs
  <2>0. /\ HealthyInv /\ SwitchesHold /\ ActiveInv /\ InFlight(j) /\ OneOperation
        /\ SerialInv /\ TypeOK /\ jobs[j].kind \notin Deploys
    BY DEF SettledInv, HealthyInv, DoneInv, DeployInv, SerialInv, InFlight, Deploys
  <2>1. jobs[j].pinned
    BY <2>0 DEF SwitchesHold, SwitchHolds
  <2>2. \A i \in Jobs : ~Switching(i)
    BY <2>0 DEF OneOperation, InFlight, Switching
  <2>3. PICK a \in Jobs : /\ rows[a].status = "active" /\ rows[a].version = files.pin
                          /\ stack.state # "absent" => stack.image = a
    BY <2>0, <2>2 DEF ActiveInv
  <2>4. a = r
    BY <2>0, <2>3 DEF SerialInv, Ledger, Tiers
  <2>5. Up(j)
    <3>1. ASSUME NEW i \in Jobs, Client(i) PROVE FALSE
      BY <2>0, <3>1, ClientStarts DEF Starts, Idle
    <3>2. ASSUME NEW i \in Jobs, Thread(i) PROVE i = j
      BY <2>0, <3>2, ThreadMoves DEF Moves, OneOperation
    <3>3. ~SetLimit /\ ~DeleteDocker /\ ~Handler
      BY <2>0 DEF SetLimit, DeleteDocker, Handler, EnforceLimit, DeleteNginx, DeleteRow,
                  OneOperation, Admits, Idle, NoTeardown
    <3>4. ~Abort /\ ~Neighbour /\ ~Crash
      BY DEF Abort, Neighbour, Crash
    <3>5. Thread(j)
      BY <3>1, <3>2, <3>3, <3>4 DEF Next
    <3> QED
      BY <3>5 DEF Thread, Clone, Provision, ProvisionFails, SetupNginx, RecordPort, RejectVhost,
         Launch, LaunchRefused, Build, Tag, Down, Replace, Copy, Recover, Halt, Extract, Promote,
         Archive, LockTimeout, Commit, Finish, Fail, Monitor
  <2>6. PICK res \in UpResults(files, jobs[j].pinned, jobs[j].killed) :
          stack' = res.stack /\ (~res.ok => jobs'[j].outcome = "failed")
    <3>1. PICK res \in UpResults(files, jobs[j].pinned, jobs[j].killed) :
            /\ stack' = res.stack
            /\ ~res.ok => jobs' = [jobs EXCEPT ![j].pc = "exited", ![j].killed = FALSE,
                                              ![j].outcome = "failed"]
      BY <2>0, <2>5 DEF Up
    <3>2. ~res.ok => jobs'[j].outcome = "failed"
      BY <2>0, <3>1 DEF TypeOK, JobRecords
    <3> QED
      BY <3>1, <3>2
  <2>10. res.ok
    BY <2>6
  <2>11. stack'.image = Image(files, jobs[j].pinned)
    <3>1. PICK b, k : b = jobs[j].pinned /\ k = jobs[j].killed
      OBVIOUS
    <3>2. res \in UpResults(files, b, k)
      BY <3>1
    <3>3. res.stack.image = Image(files, b)
      BY <2>10, <3>2, UpImage, Zenon
    <3>4. Image(files, b) = Image(files, jobs[j].pinned)
      BY <3>1
    <3> QED
      BY <2>6, <3>3, <3>4
  <2>12. tags[files.pin] = a
    <3>1. \A i \in Jobs : jobs[i].pc # "commit"
      BY <2>0 DEF OneOperation, InFlight
    <3>2. teardown = NoTeardown /\ Present(a)
      BY <2>0, <2>3 DEF OneOperation, Present
    <3> QED
      BY <2>0, <2>3, <3>1, <3>2, RowsKept DEF KeepsOwn
  <2> QED
    BY <2>1, <2>4, <2>11, <2>12 DEF Image
<1> QED
  BY <1>1, <1>2, <1>3, PTL DEF Spec, RestartRunsActive
=============================================================================
