-------------------------- MODULE BlueGreenSiteProofs --------------------------
(***************************************************************************)
(* What BlueGreen's operations leave of the site, for every number of      *)
(* jobs, versions and ports, when clients issue one operation at a time    *)
(* (Overlap = {}).                                                         *)
(*                                                                         *)
(* Each theorem names the faults it excludes, and no others: what the      *)
(* images of the versions are (ImagesRecorded), what a failed deploy and a *)
(* delete leave (FailedDeployClean, DeletedClean), what serves when no job *)
(* runs and at every step between (SiteSettled, DowntimeIsZero), and that  *)
(* a new container's port is free (LaunchedPortFree).                      *)
(***************************************************************************)
EXTENDS BlueGreenProofs

-----------------------------------------------------------------------------
(* The images of the recorded versions                                      *)

\* No docker client outlives an aborted job.
NoOrphans == "abort" \notin Faults \/ "orphan" \notin Faults

\* The image of a deploy's version is the one its job built.
Built(j) ==
  \/ jobs[j].pc \in {"remove", "run", "verify", "promote"} \cup Loading
  \/ jobs[j].pc = "exited" /\ jobs[j].outcome # "failed"

OwnImages ==
  \A j \in Jobs : jobs[j].kind = "deploy" /\ Built(j) => images[jobs[j].version] = j

\* The rows a promote is about to commit have their images.
FinalImages ==
  \A j \in Jobs : jobs[j].pc = "commit" =>
    \A r \in Jobs : Final(j)[r].status # "absent" => images[Final(j)[r].version] = r

ImageInv == orphans = {} /\ RecordedImages /\ OwnImages /\ FinalImages

\* A promote's switch fails, or points nginx at the port planned.
LEMMA SwitchMoves ==
  ASSUME PlanInv, NEW j \in Jobs, SwitchNginx(j)
  PROVE  /\ \/ jobs'[j].pc = "finish" /\ nginx' = nginx
            \/ /\ jobs'[j].pc = "demote"
               /\ nginx' = IF jobs[j].kind = "rollback" \/ jobs[j].fresh THEN jobs[j].port
                                                                        ELSE nginx
         /\ jobs[j].pc = "promote" /\ Promoting(j) /\ jobs[j].port # NoPort
         /\ UNCHANGED <<containers, images, orphans, rows, project, teardown>>
<1>1. /\ jobs \in [Jobs -> JobRecords] /\ jobs[j].pc = "promote"
      /\ PlaceHolds(j) /\ CaptureHolds(j) /\ PlanHolds(j)
      /\ UNCHANGED <<containers, images, orphans, rows, project, teardown>>
  BY DEF PlanInv, SerialInv, TypeOK, PlansHold, CapturesHold, SwitchNginx, Docker, Requests
<1>2. Promoting(j) /\ jobs[j].port # NoPort
  BY <1>1 DEF Promoting, CaptureHolds, Deploying, PlanHolds
<1>3. CASE PromoteFails(j) /\ UNCHANGED nginx
  BY <1>1, <1>2, <1>3 DEF PromoteFails, JobRecords
<1>4. CASE ~(PromoteFails(j) /\ UNCHANGED nginx)
  <2> DEFINE PortOf(r) == IF jobs[j].fresh \/ jobs[j].kind = "deploy" THEN jobs[j].port
                                                                     ELSE rows[r].port
  <2>1. PICK r \in Target(j) :
          /\ jobs' = [jobs EXCEPT ![j].pc = "demote", ![j].row = r, ![j].port = PortOf(r)]
          /\ nginx' = IF (jobs[j].kind = "rollback" \/ jobs[j].fresh) /\ PortOf(r) # NoPort
                      THEN PortOf(r) ELSE nginx
    BY <1>4 DEF SwitchNginx
  <2>2. r = jobs[j].row
    BY <1>1, TargetIsPlanned
  <2>3. PortOf(r) = jobs[j].port
    BY <1>1, <1>2, <2>2 DEF PlanHolds, Promoting
  <2> HIDE DEF PortOf
  <2>4. jobs'[j].pc = "demote"
    BY <1>1, <2>1 DEF JobRecords
  <2> QED
    BY <1>1, <1>2, <2>1, <2>3, <2>4
<1> QED
  BY <1>3, <1>4

\* Only an abort leaves a docker client behind.
LEMMA OrphansSame ==
  ASSUME PlanInv, Overlap = {}, [Next]_vars, ~Abort, ~OrphanEnds, ~Crash
  PROVE  orphans' = orphans
<1>1. ASSUME NEW j \in Jobs, Client(j) \/ Thread(j)
      PROVE  orphans' = orphans
  <2>1. CASE Client(j)
    BY ZenonT(60), <2>1 DEF Client, Provision, LaunchRollback, LaunchRestart, LaunchStop, Docker
  <2>2. CASE Thread(j)
    BY <2>2 DEF Thread, SetupNginx, RejectVhost, LaunchDeploy, LaunchRefused, Build, Remove, Run,
       Stop, Check, Verify, Cleanup, SwitchNginx, DemoteOthers, LockTimeout, Commit, Finish,
       Monitor, Docker
  <2> QED
    BY <1>1, <2>1, <2>2
<1>2. CASE SetLimit \/ Handler \/ UNCHANGED vars
  BY <1>2 DEF SetLimit, Handler, EnforceLimit, DeleteNginx, DeleteRow, Docker, vars
<1>3. CASE DeleteDocker
  <2>1. AbortRegistered /\ registered \in Jobs \cup {NoJob} /\ \A j \in Jobs : ~InFlight(j)
    BY <1>3 DEF DeleteDocker, Admits, Idle, PlanInv, SerialInv, TypeOK
  <2> QED
    BY <2>1 DEF AbortRegistered, InFlight
<1> QED
  BY <1>1, <1>2, <1>3 DEF Next

LEMMA NoOrphansStep ==
  ASSUME PlanInv, NoOrphans, Overlap = {}, orphans = {}, [Next]_vars
  PROVE  orphans' = {}
<1>1. CASE Abort
  BY <1>1 DEF Abort, AbortRegistered, NoOrphans
<1>2. CASE Crash
  BY <1>2 DEF Crash
<1>3. ~OrphanEnds
  BY DEF OrphanEnds
<1> QED
  BY <1>1, <1>2, <1>3, OrphansSame

\* A step that touches no image and no row, and neither starts nor ends a commit.
LEMMA ImagesStay ==
  ASSUME RecordedImages, OwnImages,
         \A j \in Jobs : jobs[j].pc # "commit" /\ jobs'[j].pc # "commit",
         images' = images, rows' = rows, teardown' = teardown,
         \A j \in Jobs : jobs'[j].kind = "deploy" /\ Built(j)' =>
           jobs[j].kind = "deploy" /\ Built(j) /\ jobs'[j].version = jobs[j].version
  PROVE  RecordedImages' /\ OwnImages' /\ FinalImages'
<1>1. RecordedImages'
  BY DEF RecordedImages, Unlocked, Present
<1>2. OwnImages'
  BY DEF OwnImages
<1>3. FinalImages'
  BY DEF FinalImages
<1> QED
  BY <1>1, <1>2, <1>3

LEMMA SameImages ==
  ASSUME ImageInv, images' = images, rows' = rows, teardown' = teardown, jobs' = jobs, seen' = seen
  PROVE  RecordedImages' /\ OwnImages' /\ FinalImages'
<1>1. RecordedImages'
  BY DEF ImageInv, RecordedImages, Unlocked, Present
<1>2. OwnImages'
  BY DEF ImageInv, OwnImages, Built
<1>3. \A j \in Jobs : Final(j)' = Final(j)
  BY DEF Final, Shuffled, Loaded
<1>4. FinalImages'
  BY <1>3 DEF ImageInv, FinalImages
<1> QED
  BY <1>1, <1>2, <1>4

\* What the jobs but j are does not matter while j is in flight.
LEMMA OthersRest ==
  ASSUME SerialInv, NEW j \in Jobs, InFlight(j), \A i \in Jobs \ {j} : jobs'[i] = jobs[i]
  PROVE  \A i \in Jobs \ {j} :
           jobs[i].pc \in {"unused", "over"} /\ jobs'[i].pc \in {"unused", "over"}
BY DEF SerialInv, OneOperation, InFlight

\* The same for the job in flight alone.
LEMMA ImagesStayFor ==
  ASSUME PlanInv, ImageInv, NEW j \in Jobs, InFlight(j),
         \A i \in Jobs \ {j} : jobs'[i] = jobs[i],
         jobs[j].pc # "commit", jobs'[j].pc # "commit",
         images' = images, rows' = rows, teardown' = teardown,
         jobs'[j].kind = "deploy" /\ Built(j)' =>
           jobs[j].kind = "deploy" /\ Built(j) /\ jobs'[j].version = jobs[j].version
  PROVE  RecordedImages' /\ OwnImages' /\ FinalImages'
<1>1. \A i \in Jobs \ {j} :
        jobs[i].pc \in {"unused", "over"} /\ jobs'[i].pc \in {"unused", "over"}
  BY OthersRest DEF PlanInv
<1>2. \A i \in Jobs : jobs[i].pc # "commit" /\ jobs'[i].pc # "commit"
  BY <1>1
<1>3. \A i \in Jobs : jobs'[i].kind = "deploy" /\ Built(i)' =>
        jobs[i].kind = "deploy" /\ Built(i) /\ jobs'[i].version = jobs[i].version
  BY <1>1 DEF Built, Loading
<1>4. RecordedImages /\ OwnImages
  BY DEF ImageInv
<1> QED
  BY <1>2, <1>3, <1>4, ImagesStay

\* Between launch and commit a job's step that touches no image keeps them.
LEMMA ImageThread ==
  ASSUME PlanInv, ImageInv, NEW j \in Jobs,
         \/ SetupNginx(j) \/ RejectVhost(j) \/ LaunchDeploy(j) \/ LaunchRefused(j)
         \/ Remove(j) \/ Run(j) \/ Stop(j) \/ Check(j) \/ Verify(j)
         \/ SwitchNginx(j) \/ LockTimeout(j) \/ Finish(j) \/ Monitor(j)
  PROVE  RecordedImages' /\ OwnImages' /\ FinalImages'
<1>1. /\ jobs \in [Jobs -> JobRecords] /\ PlaceHolds(j)
  BY DEF PlanInv, SerialInv, TypeOK, PlansHold
<1>2. /\ images' = images /\ rows' = rows /\ teardown' = teardown
      /\ InFlight(j) /\ jobs[j].pc # "commit"
  BY DEF SetupNginx, RejectVhost, LaunchDeploy, LaunchRefused, Remove, Run, Stop, Check, Verify,
     SwitchNginx, LockTimeout, Finish, Monitor, Docker, Requests, InFlight
<1>3. CASE SetupNginx(j) \/ RejectVhost(j) \/ LaunchDeploy(j) \/ LaunchRefused(j)
  <2>1. /\ \A i \in Jobs \ {j} : jobs'[i] = jobs[i]
        /\ jobs'[j].pc \in {"launch", "over", "build"}
    <3>1. CASE SetupNginx(j)
      BY <1>1, <3>1 DEF SetupNginx, Unused
    <3>2. CASE RejectVhost(j)
      BY <1>1, <3>2 DEF RejectVhost, Unused
    <3>3. CASE LaunchDeploy(j)
      BY <1>1, <3>3 DEF LaunchDeploy, Unused
    <3>4. CASE LaunchRefused(j)
      BY <1>1, <3>4 DEF LaunchRefused, JobRecords
    <3> QED
      BY <1>3, <3>1, <3>2, <3>3, <3>4
  <2> QED
    BY <1>2, <2>1, ImagesStayFor DEF Built, Loading
<1>4. CASE Finish(j) \/ Monitor(j)
  <2>1. /\ \A i \in Jobs \ {j} : jobs'[i] = jobs[i]
        /\ jobs'[j].pc = "over"
    BY <1>1, <1>4 DEF Finish, Monitor, Over, Unused
  <2> QED
    BY <1>2, <2>1, ImagesStayFor DEF Built, Loading
<1>5. CASE Remove(j) \/ Run(j) \/ Stop(j) \/ Check(j) \/ Verify(j) \/ SwitchNginx(j) \/ LockTimeout(j)
  <2>1. Advances(j)
    BY <1>5, JobAdvances
  <2>2. Built(j)' => Built(j) \/ jobs'[j].kind # "deploy"
    <3>1. CASE Remove(j)
      BY <1>1, <3>1 DEF Remove, Built
    <3>2. CASE Run(j)
      BY <3>2 DEF Run, Built
    <3>3. CASE Stop(j)
      BY <1>1, <2>1, <3>3 DEF Stop, PlaceHolds, Advances
    <3>4. CASE Check(j)
      BY <1>1, <3>4 DEF Check, Built, JobRecords, Loading
    <3>5. CASE Verify(j)
      BY <3>5 DEF Verify, Built
    <3>6. CASE SwitchNginx(j)
      BY <3>6 DEF SwitchNginx, Built
    <3>7. CASE LockTimeout(j)
      BY <3>7 DEF LockTimeout, Built, Loading
    <3> QED
      BY <1>5, <3>1, <3>2, <3>3, <3>4, <3>5, <3>6, <3>7
  <2>3. jobs'[j].pc # "commit"
    <3>1. CASE SwitchNginx(j)
      BY <3>1, SwitchMoves
    <3>2. CASE LockTimeout(j)
      BY <1>1, <3>2 DEF LockTimeout, PromoteFails, JobRecords
    <3>3. CASE Remove(j) \/ Run(j) \/ Stop(j) \/ Check(j) \/ Verify(j)
      BY <1>1, <3>3 DEF Remove, Run, Stop, Check, Verify, JobRecords
    <3> QED
      BY <1>5, <3>1, <3>2, <3>3
  <2> QED
    BY <1>2, <2>1, <2>2, <2>3, ImagesStayFor DEF Advances
<1> QED
  BY <1>3, <1>4, <1>5

\* The version of a deploy under way is not recorded yet.
LEMMA NewVersion ==
  ASSUME SerialInv, NEW j \in Jobs, jobs[j].kind = "deploy", jobs[j].pc \in Deploying
  PROVE  \A r \in Jobs : Present(r) => rows[r].version # jobs[j].version
<1>1. /\ \A r \in Jobs : Present(r) => rows[r].version \in 1..project.counter
      /\ jobs[j].version = project.counter + 1
  BY DEF SerialInv, VersionTiers, Tiers, CapturesHold, CaptureHolds, Present
<1>2. project.counter \in Nat
  BY VersionsTyped DEF SerialInv, TypeOK, ProjectRecords
<1> QED
  BY <1>1, <1>2

LEMMA ImageClient ==
  ASSUME PlanInv, ImageInv, Overlap = {}, NEW j \in Jobs, Client(j)
  PROVE  RecordedImages' /\ OwnImages' /\ FinalImages'
<1>1. /\ jobs \in [Jobs -> JobRecords] /\ \A i \in Jobs : ~InFlight(i)
      /\ images' = images /\ rows' = rows /\ teardown' = teardown
  BY DEF PlanInv, SerialInv, TypeOK, Client, Provision, LaunchRollback, LaunchRestart, LaunchStop,
     Admits, Idle, Docker, Requests
<1>2. \A i \in Jobs : i # j => jobs'[i] = jobs[i]
  BY <1>1 DEF Client, Provision, LaunchRollback, LaunchRestart, LaunchStop
<1>3. jobs'[j].pc \in {"nginx", "remove", "run", "stopping"}
      /\ (jobs'[j].kind = "deploy" => jobs'[j].pc = "nginx")
  <2>1. CASE Provision(j)
    BY <1>1, <2>1 DEF Provision, Unused
  <2>2. CASE LaunchRollback(j)
    BY <1>1, <2>2 DEF LaunchRollback, Unused
  <2>3. CASE LaunchRestart(j)
    BY <1>1, <2>3 DEF LaunchRestart, Unused
  <2>4. CASE LaunchStop(j)
    BY <1>1, <2>4 DEF LaunchStop, Unused
  <2> QED
    BY <2>1, <2>2, <2>3, <2>4 DEF Client
<1>4. \A i \in Jobs : jobs[i].pc # "commit" /\ jobs'[i].pc # "commit"
  BY <1>1, <1>2, <1>3 DEF InFlight
<1>5. \A i \in Jobs : jobs'[i].kind = "deploy" /\ Built(i)' =>
        jobs[i].kind = "deploy" /\ Built(i) /\ jobs'[i].version = jobs[i].version
  BY <1>2, <1>3 DEF Built, Loading
<1>6. RecordedImages /\ OwnImages
  BY DEF ImageInv
<1> QED
  BY <1>1, <1>4, <1>5, <1>6, ImagesStay

\* The build and the cleanup of a deploy touch the image of no recorded version.
LEMMA ImageOfDeploy ==
  ASSUME PlanInv, ImageInv, NEW j \in Jobs, Build(j) \/ Cleanup(j)
  PROVE  RecordedImages' /\ OwnImages' /\ FinalImages'
<1>1. /\ jobs \in [Jobs -> JobRecords] /\ images \in [Names -> Jobs \cup {NoJob}]
      /\ PlaceHolds(j) /\ Advances(j)
  BY JobAdvances DEF PlanInv, SerialInv, TypeOK, PlansHold
<1>2. /\ rows' = rows /\ teardown' = teardown
      /\ jobs[j].pc \in {"build", "cleanup"} /\ InFlight(j)
  BY DEF Build, Cleanup, Requests, InFlight
<1>3. \A i \in Jobs \ {j} :
        jobs[i].pc \in {"unused", "over"} /\ jobs'[i].pc \in {"unused", "over"}
  BY <1>1, <1>2, OthersRest DEF PlanInv, Advances
<1>4. jobs'[j].pc \in {"remove", "exited", "finish"}
  BY <1>1 DEF Build, Cleanup, JobRecords
<1>5. \A i \in Jobs : jobs[i].pc # "commit" /\ jobs'[i].pc # "commit"
  BY <1>2, <1>3, <1>4
<1>6. FinalImages'
  BY <1>5 DEF FinalImages
<1>7. \A i \in Jobs \ {j} : ~(Built(i)')
  BY <1>3 DEF Built, Loading
<1>8. CASE jobs[j].kind = "deploy"
  <2>1. \A r \in Jobs : Present(r) => rows[r].version # jobs[j].version
    BY <1>2, <1>8, NewVersion DEF PlanInv, Deploying
  <2>2. \A n \in Names \ {jobs[j].version} : images'[n] = images[n]
    BY <1>1 DEF Build, Cleanup, ImagesAfter
  <2>3. \A r \in Jobs : rows[r].version \in Names
    BY DEF PlanInv, SerialInv, TypeOK, RowTables, RowRecords
  <2>4. RecordedImages'
    BY <1>2, <1>5, <2>1, <2>2, <2>3 DEF ImageInv, RecordedImages, Unlocked, Present
  <2>5. Built(j)' => images'[jobs[j].version] = j
    <3>1. CASE Build(j)
      <4>1. CASE images' = [images EXCEPT ![jobs[j].version] = j]
        BY <1>1, <4>1 DEF JobRecords
      <4>2. CASE jobs' = [jobs EXCEPT ![j].pc = "exited", ![j].outcome = "failed"]
        BY <1>1, <4>2 DEF Built, Loading, JobRecords
      <4> QED
        BY <3>1, <4>1, <4>2 DEF Build
    <3>2. CASE Cleanup(j)
      BY <1>1, <3>2 DEF Cleanup, Built, Loading, JobRecords
    <3> QED
      BY <3>1, <3>2
  <2>6. OwnImages'
    BY <1>1, <1>7, <2>5 DEF OwnImages, Advances
  <2> QED
    BY <1>6, <2>4, <2>6
<1>9. CASE jobs[j].kind # "deploy"
  <2>1. images' = images
    BY <1>1, <1>9 DEF Build, Cleanup, PlaceHolds
  <2>2. RecordedImages'
    BY <1>2, <1>5, <2>1 DEF ImageInv, RecordedImages, Unlocked, Present
  <2>3. OwnImages'
    BY <1>1, <1>7, <1>9 DEF OwnImages, Advances
  <2> QED
    BY <1>6, <2>2, <2>3
<1> QED
  BY <1>8, <1>9

\* The rows after the shuffle have their images, and distinct versions.
LEMMA ShuffledImages ==
  ASSUME PlanInv, ImageInv, NEW j \in Jobs, jobs[j].pc = "demote"
  PROVE  /\ \A r \in Jobs : Shuffled(j)[r].status # "absent" =>
              images[Shuffled(j)[r].version] = r /\ Shuffled(j)[r].version \in Names
         /\ \A r, q \in Jobs :
              /\ Shuffled(j)[r].status # "absent" /\ Shuffled(j)[q].status # "absent"
              /\ r # q
              => Shuffled(j)[r].version # Shuffled(j)[q].version
<1> DEFINE k == Promoted(j)
           u == Shuffled(j)
<1>1. /\ jobs[j].pc \in Loading /\ InFlight(j) /\ SerialInv /\ CaptureHolds(j)
      /\ \A r \in Jobs : rows[r].version \in Names
      /\ \A r \in Jobs : rows[r].status \in {"absent", "active", "inactive", "archived"}
      /\ jobs[j].version \in Names
  BY DEF PlanInv, SerialInv, TypeOK, RowTables, RowRecords, Loading, InFlight, CapturesHold,
     JobRecords
<1>2. /\ k \in Jobs /\ u[k].version = jobs[j].version
      /\ \A r \in Jobs \ {k} :
           /\ u[r].status # "absent" => rows[r].status # "absent"
           /\ u[r].version = rows[r].version
           /\ rows[r].status # "absent" => rows[r].version # jobs[j].version
  BY <1>1, LoadedRows, ShuffledRows
<1>3. \A r \in Jobs : Present(r) => images[rows[r].version] = r
  BY <1>1 DEF ImageInv, RecordedImages, Unlocked, PlanInv, SerialInv, OneOperation, InFlight
<1>4. images[jobs[j].version] = k
  <2>1. CASE jobs[j].kind = "deploy"
    BY <2>1 DEF ImageInv, OwnImages, Built, Loading, Promoted
  <2>2. CASE jobs[j].kind # "deploy"
    BY <1>1, <1>3, <2>2 DEF CaptureHolds, Promoted
  <2> QED
    BY <2>1, <2>2
<1>5. \A r, q \in Jobs : rows[r].status # "absent" /\ rows[q].status # "absent" /\ r # q
                         => rows[r].version # rows[q].version
  BY DEF PlanInv, SerialInv, VersionTiers, Tiers
<1> HIDE DEF k, u
<1>6. \A r \in Jobs : u[r].status # "absent" => images[u[r].version] = r /\ u[r].version \in Names
  BY <1>1, <1>2, <1>3, <1>4 DEF Present
<1>7. ASSUME NEW r \in Jobs, NEW q \in Jobs, u[r].status # "absent", u[q].status # "absent",
             r # q
      PROVE  u[r].version # u[q].version
  BY <1>2, <1>5, <1>7
<1> QED
  BY <1>6, <1>7 DEF u

\* A promote deletes the images of the versions it forgets, and of no other.
LEMMA ImageDemote ==
  ASSUME PlanInv, ImageInv, NEW j \in Jobs, DemoteOthers(j)
  PROVE  RecordedImages' /\ OwnImages' /\ FinalImages'
<1> DEFINE u == Shuffled(j)
           f == Final(j)
           gone == Moved(u, f, "archived", "absent")
<1>1. /\ jobs \in [Jobs -> JobRecords] /\ images \in [Names -> Jobs \cup {NoJob}]
      /\ jobs[j].pc = "demote" /\ jobs[j].pc \in Loading /\ InFlight(j) /\ Advances(j)
      /\ SerialInv
  BY JobAdvances DEF PlanInv, SerialInv, TypeOK, DemoteOthers, Loading, InFlight
<1>2. project.exists
  BY <1>1 DEF PlanInv, PortsRecorded
<1>3. /\ jobs' = [jobs EXCEPT ![j].pc = "commit"] /\ images' = ImagesAfter(gone)
      /\ rows' = rows /\ seen' = seen
  BY <1>2 DEF DemoteOthers
<1>4. jobs'[j].pc = "commit"
  BY <1>1, <1>3
<1>5. RecordedImages'
  BY <1>4 DEF RecordedImages, Unlocked
<1>6. \A i \in Jobs \ {j} : jobs'[i].pc \in {"unused", "over"}
  BY <1>1, OthersRest DEF Advances
<1>7. /\ \A r \in Jobs : u[r].status # "absent" => images[u[r].version] = r /\ u[r].version \in Names
      /\ \A r, q \in Jobs : u[r].status # "absent" /\ u[q].status # "absent" /\ r # q
                            => u[r].version # u[q].version
  BY <1>1, ShuffledImages
<1>8. \A r \in Jobs : f[r] = u[r] \/ (f[r] = NoRow /\ u[r].status = "archived")
  BY FinalRow
<1>9. \A r \in Jobs : f[r].status # "absent" => images'[f[r].version] = r
  <2> SUFFICES ASSUME NEW r \in Jobs, f[r].status # "absent"
               PROVE  images'[f[r].version] = r
    OBVIOUS
  <2> HIDE DEF u, f
  <2>1. f[r] = u[r]
    BY <1>8 DEF NoRow
  <2>2. u[r].version \notin gone
    BY <1>7, <2>1 DEF Moved
  <2> QED
    BY <1>3, <1>7, <2>1, <2>2 DEF ImagesAfter
<1>10. Final(j)' = Final(j)
  BY <1>1, <1>3 DEF Final, Shuffled, Loaded, Advances
<1>11. FinalImages'
  BY <1>6, <1>9, <1>10 DEF FinalImages
<1>12. OwnImages'
  <2>1. jobs[j].kind = "deploy" => images'[jobs[j].version] = j
    BY <1>1, <1>9, FinalRows DEF Promoted
  <2> QED
    BY <1>1, <1>6, <2>1 DEF OwnImages, Built, Loading, Advances
<1> QED
  BY <1>5, <1>11, <1>12

LEMMA ImageCommit ==
  ASSUME PlanInv, ImageInv, NEW j \in Jobs, Commit(j)
  PROVE  RecordedImages' /\ OwnImages' /\ FinalImages'
<1>1. /\ jobs \in [Jobs -> JobRecords] /\ jobs[j].pc = "commit" /\ InFlight(j) /\ SerialInv
      /\ images' = images
  BY DEF PlanInv, SerialInv, TypeOK, Commit, InFlight, Docker
<1>2. rows' = Final(j)
  BY <1>1, CommitWrites, NoRowLost
<1>3. jobs'[j].pc = "finish" /\ \A i \in Jobs \ {j} : jobs'[i] = jobs[i]
  BY <1>1 DEF Commit, PromoteFails, JobRecords
<1>4. \A i \in Jobs \ {j} : jobs'[i].pc \in {"unused", "over"}
  BY <1>1, <1>3, OthersRest
<1>5. RecordedImages'
  BY <1>1, <1>2 DEF RecordedImages, Present, ImageInv, FinalImages
<1>6. OwnImages' /\ FinalImages'
  BY <1>3, <1>4 DEF OwnImages, FinalImages, Built, Loading
<1> QED
  BY <1>5, <1>6

\* Pruning and deleting take only images of rows that go as well.
LEMMA ImageHandlers ==
  ASSUME PlanInv, ImageInv, Overlap = {},
         SetLimit \/ EnforceLimit \/ DeleteDocker \/ DeleteNginx \/ DeleteRow
  PROVE  RecordedImages' /\ OwnImages' /\ FinalImages'
<1>1. \A j \in Jobs : jobs[j].pc \in {"unused", "over"} /\ jobs'[j].pc \in {"unused", "over"}
  BY HandlersRest DEF PlanInv
<1>2. OwnImages' /\ FinalImages'
  BY <1>1 DEF OwnImages, FinalImages, Built, Loading
<1>3. Unlocked /\ images \in [Names -> Jobs \cup {NoJob}] /\ \A r \in Jobs : rows[r].version \in Names
  BY <1>1 DEF Unlocked, PlanInv, SerialInv, TypeOK, RowTables, RowRecords
<1>4. CASE SetLimit
  <2>1. images' = images /\ rows' = rows /\ teardown' = teardown
    BY <1>4 DEF SetLimit, Docker
  <2> QED
    BY <1>2, <1>3, <2>1 DEF ImageInv, RecordedImages, Present
<1>5. CASE EnforceLimit
  <2>1. PICK final : /\ final = rows \/ final = Pruned(rows, project.limit)
                     /\ rows' = final
                     /\ images' = ImagesAfter(Moved(rows, final, "archived", "absent"))
    BY <1>5 DEF EnforceLimit
  <2>2. teardown = NoTeardown
    BY <1>5 DEF EnforceLimit, PlanInv, SerialInv, OneOperation
  <2>3. \A r \in Jobs : Present(r) => images[rows[r].version] = r
    BY <1>3, <2>2 DEF ImageInv, RecordedImages
  <2>4. \A r \in Jobs : Present(r)' => rows'[r] = rows[r] /\ Present(r)
    BY <2>1 DEF Present, Pruned, NoRow
  <2>5. \A r, q \in Jobs : Present(r) /\ Present(q) /\ r # q => rows[r].version # rows[q].version
    BY DEF PlanInv, SerialInv, VersionTiers, Tiers, Present
  <2>6. ASSUME NEW r \in Jobs, Present(r)'
        PROVE  images'[rows'[r].version] = r
    <3>1. rows[r].version \notin Moved(rows, final, "archived", "absent")
      BY <2>1, <2>4, <2>5, <2>6 DEF Moved, Present
    <3> QED
      BY <1>3, <2>1, <2>3, <2>4, <2>6, <3>1 DEF ImagesAfter
  <2> QED
    BY <1>2, <2>6 DEF RecordedImages
<1>6. CASE DeleteDocker \/ DeleteNginx
  <2>1. teardown' # NoTeardown
    <3>1. CASE DeleteDocker
      BY <3>1 DEF DeleteDocker, NoTeardown
    <3>2. CASE DeleteNginx
      <4>1. teardown \in [step : {"none", "nginx", "row"}, doomed : SUBSET Jobs]
        BY DEF PlanInv, SerialInv, TypeOK
      <4>2. teardown'.step = "row"
        BY <3>2, <4>1 DEF DeleteNginx
      <4> QED
        BY <4>2 DEF NoTeardown
    <3> QED
      BY <1>6, <3>1, <3>2
  <2> QED
    BY <1>2, <2>1 DEF RecordedImages
<1>7. CASE DeleteRow
  <2>1. \A r \in Jobs : ~(Present(r)')
    BY <1>7, DeletedRows DEF PlanInv
  <2> QED
    BY <1>2, <2>1 DEF RecordedImages
<1> QED
  BY <1>2, <1>4, <1>5, <1>6, <1>7

\* ImageInv is inductive without crashes.
LEMMA ImageStep ==
  ASSUME PlanInv, ImageInv, Overlap = {}, NoOrphans, "crash" \notin Faults, [Next]_vars
  PROVE  ImageInv'
<1>1. orphans' = {}
  BY NoOrphansStep DEF ImageInv
<1> SUFFICES RecordedImages' /\ OwnImages' /\ FinalImages'
  BY <1>1 DEF ImageInv
<1>2. ASSUME NEW j \in Jobs, Thread(j)
      PROVE  RecordedImages' /\ OwnImages' /\ FinalImages'
  <2>1. CASE Build(j) \/ Cleanup(j)
    BY <2>1, ImageOfDeploy
  <2>2. CASE DemoteOthers(j)
    BY <2>2, ImageDemote
  <2>3. CASE Commit(j)
    BY <2>3, ImageCommit
  <2>4. CASE ~(Build(j) \/ Cleanup(j) \/ DemoteOthers(j) \/ Commit(j))
    BY <1>2, <2>4, ImageThread DEF Thread
  <2> QED
    BY <2>1, <2>2, <2>3, <2>4
<1>3. CASE SetLimit \/ DeleteDocker \/ Handler
  BY <1>3, ImageHandlers DEF Handler
<1>4. CASE Abort
  <2>1. images' = images /\ rows' = rows /\ teardown' = teardown /\ seen' = seen
    BY <1>4, AbortMoves
  <2>2. CASE jobs' = jobs
    BY <2>1, <2>2, SameImages
  <2>3. CASE jobs' # jobs
    <3>1. PICK j \in Jobs : /\ Advances(j) /\ jobs[j].pc \in Alive
                            /\ jobs'[j].pc = "exited" /\ jobs'[j].outcome = "failed"
      BY <1>4, <2>3, AbortMoves
    <3>2. /\ InFlight(j) /\ jobs[j].pc # "commit" /\ jobs'[j].pc # "commit"
          /\ \A i \in Jobs \ {j} : jobs'[i] = jobs[i]
          /\ ~(Built(j)')
      BY <3>1 DEF InFlight, Alive, Built, Loading, Advances
    <3> QED
      BY <2>1, <3>2, ImagesStayFor
  <2> QED
    BY <2>2, <2>3
<1>5. CASE UNCHANGED vars
  BY <1>5, SameImages DEF vars
<1>6. ~OrphanEnds /\ ~Crash
  BY DEF OrphanEnds, Crash, ImageInv
<1> QED
  BY <1>2, <1>3, <1>4, <1>5, <1>6, ImageClient DEF Next

LEMMA ImageInit == Init => ImageInv
BY DEF Init, ImageInv, RecordedImages, OwnImages, FinalImages, Present, NoRow, Unused, Built, Loading

\* Without crashes, and with no docker client outliving an aborted job, operations
\* issued one at a time never take or replace the image of a recorded version.
THEOREM ImagesRecorded ==
  Overlap = {} /\ NoOrphans /\ "crash" \notin Faults => (Spec => []RecordedImages)
<1> SUFFICES ASSUME Overlap = {}, NoOrphans, "crash" \notin Faults
             PROVE  Spec => []RecordedImages
  OBVIOUS
<1>1. Init => PlanInv /\ ImageInv
  BY PlanInit, ImageInit
<1>2. (PlanInv /\ ImageInv) /\ [Next]_vars => (PlanInv /\ ImageInv)'
  BY PlanStep, ImageStep
<1>3. PlanInv /\ ImageInv => RecordedImages
  BY DEF ImageInv
<1> QED
  BY <1>1, <1>2, <1>3, PTL DEF Spec

-----------------------------------------------------------------------------
(* What a failed deploy leaves behind                                       *)

\* No store holds anything of job j.
Clean(j) == ~Present(j) /\ \A n \in Names : images[n] # j /\ containers[n].build # j

\* What a job may have left, by its place: a deploy under way only the image and the
\* container of its own version, a failed one nothing.
Undone(j) ==
  /\ jobs[j].pc \in {"unused", "nginx", "launch"} => Clean(j)
  /\ jobs[j].kind = "deploy" /\ jobs[j].pc \in Deploying =>
       \A n \in Names \ {jobs[j].version} : images[n] # j /\ containers[n].build # j
  /\ jobs[j].kind = "deploy" /\ jobs[j].pc = "finish" /\ jobs[j].outcome \notin {"ok", "aborted"}
       => Clean(j)
  /\ status[j] = "error" => jobs[j].pc = "over" /\ (jobs[j].kind = "deploy" => Clean(j))

CleanInv == orphans = {} /\ \A j \in Jobs : Undone(j)

\* A step that makes no row, image or container of job i that was not there.
Untouched(i) ==
  /\ Present(i)' => Present(i)
  /\ \A n \in Names :
       /\ images'[n] = i => images[n] = i
       /\ containers'[n].build = i => containers[n].build = i \/ images[n] = i

\* No store of docker holds anything of version n.
Empty(n) == images[n] = NoJob /\ containers[n] = NoContainer

\* Bookkeeping stops and removes containers, and makes none.
LEMMA BookkeepingBuilds ==
  ASSUME TypeOK, NEW t, NEW u, NEW gone
  PROVE  /\ \A n \in Names : ContainersAfter(t, u, gone)[n].build \in {containers[n].build, NoJob}
         /\ \A n \in Names : ImagesAfter(gone)[n] \in {images[n], NoJob}
         /\ \A n \in Names : Empty(n) => ContainersAfter(t, u, gone)[n] = NoContainer
<1>1. ASSUME NEW n \in Names
      PROVE  ContainersAfter(t, u, gone)[n].build \in {containers[n].build, NoJob}
  <2>1. containers[n] \in ContainerRecords
    BY DEF TypeOK
  <2>2. [containers[n] EXCEPT !.state = "exited"].build = containers[n].build
    BY <2>1 DEF ContainerRecords
  <2> QED
    BY <2>2 DEF ContainersAfter, NoContainer
<1> QED
  BY <1>1 DEF ImagesAfter, ContainersAfter, Empty, NoContainer

\* docker run makes a container from the version's image.
LEMMA RunBuilds ==
  ASSUME TypeOK, NEW v \in Names, NEW p, NEW c \in RunLeaves(v, p)
  PROVE  \A n \in Names : /\ c[n].build \in {containers[n].build, images[n]}
                          /\ Empty(n) => c[n] = NoContainer
<1>1. \/ c = containers
      \/ images[v] # NoJob /\ \E s \in {"created", "running", "restarting"} :
           c = [containers EXCEPT ![v] = [state |-> s, port |-> p, build |-> images[v]]]
  BY DEF RunLeaves, RunSucceeds, Started
<1> QED
  BY <1>1 DEF TypeOK, Empty

\* Images come from builds, and containers from images.
LEMMA DockerMakes ==
  ASSUME TypeOK, orphans = {}, [Next]_vars, NEW n \in Names
  PROVE  /\ images'[n] \in {images[n], NoJob} \/ \E j \in Jobs : Build(j) /\ images'[n] = j
         /\ containers'[n].build \in {containers[n].build, images[n], NoJob}
         /\ Empty(n) => containers'[n] = NoContainer
<1> USE DEF NoContainer, Empty
<1>1. CASE images' = images /\ containers' = containers
  BY <1>1
<1>2. ASSUME NEW j \in Jobs, Client(j) \/ Thread(j)
      PROVE  /\ images'[n] \in {images[n], NoJob} \/ (Build(j) /\ images'[n] = j)
             /\ containers'[n].build \in {containers[n].build, images[n], NoJob}
             /\ Empty(n) => containers'[n] = NoContainer
  <2>0. jobs[j].version \in Names /\ project.version \in Names
        /\ containers \in [Names -> ContainerRecords] /\ images \in [Names -> Jobs \cup {NoJob}]
    BY DEF TypeOK, JobRecords, ProjectRecords
  <2>1. CASE LaunchRestart(j)
    BY <2>0, <2>1 DEF LaunchRestart
  <2>2. CASE Build(j)
    BY <2>0, <2>2 DEF Build
  <2>3. CASE Remove(j)
    BY <2>0, <2>3 DEF Remove
  <2>4. CASE Run(j)
    <3>1. images' = images /\ containers' \in RunLeaves(jobs[j].version, jobs[j].port)
      BY <2>4 DEF Run
    <3> QED
      BY <2>0, <3>1, RunBuilds
  <2>5. CASE Stop(j)
    <3>1. \A x \in ContainerRecords : [x EXCEPT !.state = "exited"].build = x.build
      BY DEF ContainerRecords
    <3>2. images' = images /\ \/ containers' = containers
                              \/ containers' = [containers EXCEPT ![jobs[j].version] =
                                   [containers[jobs[j].version] EXCEPT !.state = "exited"]]
      BY <2>5 DEF Stop
    <3>3. containers[n] = NoContainer => containers' = containers \/ n # jobs[j].version
      BY <2>5 DEF Stop
    <3>4. containers'[n].build = containers[n].build
      BY <2>0, <3>1, <3>2
    <3>5. containers[n] = NoContainer => containers'[n] = NoContainer
      BY <2>0, <3>2, <3>3
    <3> QED
      BY <3>2, <3>4, <3>5
  <2>6. CASE Cleanup(j)
    BY <2>0, <2>6 DEF Cleanup, ImagesAfter
  <2>7. CASE DemoteOthers(j)
    <3>1. \/ images' = images /\ containers' = containers
          \/ \E t, u, gone : images' = ImagesAfter(gone) /\ containers' = ContainersAfter(t, u, gone)
      BY <2>7 DEF DemoteOthers
    <3> QED
      BY <3>1, BookkeepingBuilds
  <2>8. CASE ~(LaunchRestart(j) \/ Build(j) \/ Remove(j) \/ Run(j) \/ Stop(j) \/ Cleanup(j)
                 \/ DemoteOthers(j))
    <3>1. images' = images /\ containers' = containers
      BY <1>2, <2>8 DEF Client, Thread, Provision, LaunchRollback, LaunchStop, SetupNginx, RejectVhost,
         LaunchDeploy, LaunchRefused, Check, Verify, SwitchNginx, LockTimeout, Commit, Finish,
         Monitor, Docker
    <3> QED
      BY <3>1
  <2> QED
    BY <2>1, <2>2, <2>3, <2>4, <2>5, <2>6, <2>7, <2>8
<1>3. CASE EnforceLimit \/ DeleteDocker
  <2>1. \E t, u, gone : images' = ImagesAfter(gone) /\ containers' = ContainersAfter(t, u, gone)
    BY <1>3 DEF EnforceLimit, DeleteDocker
  <2> QED
    BY <2>1, BookkeepingBuilds
<1>4. CASE SetLimit \/ DeleteNginx \/ DeleteRow \/ Abort \/ Crash \/ UNCHANGED vars
  BY <1>1, <1>4 DEF SetLimit, DeleteNginx, DeleteRow, Abort, Crash, vars, Docker
<1>5. ~OrphanEnds
  BY DEF OrphanEnds
<1> QED
  BY <1>2, <1>3, <1>4, <1>5 DEF Next, Handler

\* Rows come from the commits of their own jobs.
LEMMA RowsMade ==
  ASSUME PlanInv, [Next]_vars, NEW i \in Jobs, ~Commit(i), Present(i)'
  PROVE  Present(i)
<1>1. CASE rows' = rows
  BY <1>1 DEF Present
<1>2. ASSUME NEW j \in Jobs, Commit(j)
      PROVE  Present(i)
  <2>1. rows' = Final(j) /\ jobs[j].pc \in Loading
    BY <1>2, CommitWrites, NoRowLost DEF PlanInv, Commit, Loading
  <2>2. i # Promoted(j) => Present(i)
    BY <2>1, FinalRows DEF PlanInv, Present
  <2>3. i = Promoted(j) => Present(i)
    BY <1>2, <2>1, LoadedRows DEF PlanInv, Promoted
  <2> QED
    BY SMTT(40), <2>2, <2>3
<1>3. CASE EnforceLimit
  <2>1. rows' = rows \/ rows' = Pruned(rows, project.limit)
    BY <1>3 DEF EnforceLimit
  <2> QED
    BY <2>1 DEF Pruned, Present, NoRow
<1>4. CASE DeleteRow
  BY SMTT(40), <1>4, DeletedRows DEF PlanInv
<1>5. ASSUME NEW j \in Jobs, Client(j) \/ Thread(j), ~Commit(j)
      PROVE  rows' = rows
  BY <1>5 DEF Client, Thread, Provision, LaunchRollback, LaunchRestart, LaunchStop, SetupNginx,
     RejectVhost, LaunchDeploy, LaunchRefused, Build, Remove, Run, Stop, Check, Verify, Cleanup,
     SwitchNginx, DemoteOthers, LockTimeout, Finish, Monitor
<1>6. SetLimit \/ DeleteDocker \/ DeleteNginx \/ Abort \/ OrphanEnds \/ Crash \/ UNCHANGED vars
        => rows' = rows
  BY DEF SetLimit, DeleteDocker, DeleteNginx, Abort, OrphanEnds, Crash, vars
<1> QED
  BY <1>1, <1>2, <1>3, <1>4, <1>5, <1>6 DEF Next, Handler

LEMMA UntouchedStep ==
  ASSUME PlanInv, orphans = {}, [Next]_vars, NEW i \in Jobs, ~Build(i), ~Commit(i)
  PROVE  Untouched(i)
<1>1. TypeOK /\ i # NoJob
  BY DEF PlanInv, SerialInv, Jobs, NoJob
<1>2. Present(i)' => Present(i)
  BY RowsMade
<1>3. ASSUME NEW n \in Names
      PROVE  /\ images'[n] = i => images[n] = i
             /\ containers'[n].build = i => containers[n].build = i \/ images[n] = i
  BY <1>1, DockerMakes
<1> QED
  BY <1>2, <1>3 DEF Untouched

\* A job at rest, or not launched yet, stays clean.
LEMMA RestUndone ==
  ASSUME NEW i \in Jobs, Undone(i), Untouched(i),
         jobs'[i].kind = jobs[i].kind, jobs'[i].pc = jobs[i].pc,
         jobs[i].pc \in {"unused", "over"}, status'[i] = "error" => status[i] = "error"
  PROVE  Undone(i)'
BY DEF Undone, Untouched, Clean, Deploying

\* The jobs a step leaves as they are.
LEMMA OthersUndone ==
  ASSUME PlanInv, CleanInv, [Next]_vars, NEW j \in Jobs,
         \A i \in Jobs \ {j} : jobs'[i] = jobs[i] /\ ~InFlight(i),
         \A i \in Jobs \ {j} : status'[i] = "error" => status[i] = "error",
         \A i \in Jobs \ {j} : ~Build(i) /\ ~Commit(i)
  PROVE  \A i \in Jobs \ {j} : Undone(i)'
<1> SUFFICES ASSUME NEW i \in Jobs \ {j} PROVE Undone(i)'
  OBVIOUS
<1>1. Untouched(i) /\ Undone(i)
  BY UntouchedStep DEF CleanInv
<1>2. jobs'[i].kind = jobs[i].kind /\ jobs'[i].pc = jobs[i].pc /\ jobs[i].pc \in {"unused", "over"}
  BY DEF InFlight
<1> QED
  BY <1>1, <1>2, RestUndone

LEMMA RestedUndone ==
  ASSUME PlanInv, CleanInv, [Next]_vars, jobs' = jobs,
         \A i \in Jobs : status'[i] = "error" => status[i] = "error",
         \A i \in Jobs : ~Build(i) /\ ~Commit(i)
  PROVE  \A i \in Jobs : Undone(i)'
<1> SUFFICES ASSUME NEW i \in Jobs PROVE Undone(i)'
  OBVIOUS
<1>1. Untouched(i) /\ Undone(i)
  BY UntouchedStep DEF CleanInv
<1> QED
  BY <1>1 DEF Undone, Untouched, Clean

LEMMA CleanClient ==
  ASSUME PlanInv, CleanInv, Overlap = {}, [Next]_vars, NEW j \in Jobs, Client(j)
  PROVE  \A i \in Jobs : Undone(i)'
<1>1. /\ jobs \in [Jobs -> JobRecords] /\ \A i \in Jobs : ~InFlight(i)
      /\ status \in [Jobs -> {"none", "running", "done", "error", "aborted", "lost"}]
  BY DEF PlanInv, SerialInv, TypeOK, Client, Provision, LaunchRollback, LaunchRestart, LaunchStop,
     Admits, Idle
<1>2. IsNext(j)
  BY DEF Client, Provision, LaunchRollback, LaunchRestart, LaunchStop
<1>3. /\ \A i \in Jobs : i # j => jobs'[i] = jobs[i] /\ status'[i] = status[i]
      /\ status'[j] \in {status[j], "running"}
  BY <1>1 DEF Client, Provision, LaunchRollback, LaunchRestart, LaunchStop, Register
<1>4. /\ jobs'[j].pc \in {"nginx", "remove", "run", "stopping"}
      /\ jobs'[j].kind = "deploy" => jobs'[j].pc = "nginx"
  <2>1. CASE Provision(j)
    BY <1>1, <2>1 DEF Provision, Unused
  <2>2. CASE LaunchRollback(j)
    BY <1>1, <2>2 DEF LaunchRollback, Unused
  <2>3. CASE LaunchRestart(j)
    BY <1>1, <2>3 DEF LaunchRestart, Unused
  <2>4. CASE LaunchStop(j)
    BY <1>1, <2>4 DEF LaunchStop, Unused
  <2> QED
    BY <2>1, <2>2, <2>3, <2>4 DEF Client
<1>5. \A i \in Jobs : ~Build(i) /\ ~Commit(i)
  BY <1>1 DEF Build, Commit, InFlight
<1>6. \A i \in Jobs \ {j} : Undone(i)'
  BY <1>1, <1>3, <1>5, OthersUndone
<1>7. Undone(j)'
  <2>1. jobs[j].pc = "unused" /\ Undone(j) /\ Untouched(j)
    BY <1>2, <1>5, UntouchedStep DEF CleanInv, IsNext, Jobs
  <2>2. Clean(j)' /\ status'[j] # "error"
    BY <1>3, <2>1 DEF Undone, Untouched, Clean
  <2> QED
    BY <1>4, <2>2 DEF Undone, Deploying
<1> QED
  BY <1>6, <1>7

\* A request that is refused, or whose job starts, has left nothing.
LEMMA CleanRequest ==
  ASSUME PlanInv, CleanInv, NEW j \in Jobs, Untouched(j),
         SetupNginx(j) \/ RejectVhost(j) \/ LaunchDeploy(j) \/ LaunchRefused(j)
  PROVE  Undone(j)'
<1>1. /\ jobs \in [Jobs -> JobRecords]
      /\ status \in [Jobs -> {"none", "running", "done", "error", "aborted", "lost"}]
      /\ Undone(j)
  BY DEF PlanInv, SerialInv, TypeOK, CleanInv
<1>2. jobs[j].pc \in {"nginx", "launch"} /\ status'[j] \in {status[j], "running"}
  BY <1>1 DEF SetupNginx, RejectVhost, LaunchDeploy, LaunchRefused, Register
<1>3. Clean(j)' /\ status'[j] # "error"
  BY <1>1, <1>2 DEF Undone, Untouched, Clean
<1> QED
  BY <1>3 DEF Undone, Clean

\* Before its commit a launched deploy only ends by its cleanup.
LEMMA DeployGoesOn ==
  ASSUME PlanInv, "lock" \notin Faults, NEW j \in Jobs,
         \/ Build(j) \/ Remove(j) \/ Run(j) \/ Stop(j) \/ Check(j) \/ Verify(j)
         \/ SwitchNginx(j) \/ DemoteOthers(j) \/ LockTimeout(j)
  PROVE  jobs'[j].kind = "deploy" => jobs'[j].pc \in Deploying
<1>1. /\ jobs \in [Jobs -> JobRecords] /\ Advances(j)
  BY JobAdvances DEF PlanInv, SerialInv, TypeOK
<1>2. InFlight(j) /\ project.exists
  BY <1>1 DEF Advances, Deploying, InFlight, PlanInv, PortsRecorded
<1>3. jobs'[j].kind = "deploy" => jobs'[j].pc \in Deploying
  <2>1. CASE Build(j) \/ Remove(j) \/ Run(j) \/ Stop(j) \/ Check(j) \/ Verify(j)
    BY <1>1, <2>1 DEF Build, Remove, Run, Stop, Check, Verify, Deploying, JobRecords
  <2>2. CASE SwitchNginx(j)
    <3>1. Target(j) # {} \/ jobs[j].kind # "deploy"
      BY DEF Target
    <3>2. CASE jobs[j].kind = "deploy"
      <4>1. PICK r \in Target(j) : jobs' = [jobs EXCEPT ![j].pc = "demote", ![j].row = r,
              ![j].port = IF jobs[j].fresh \/ jobs[j].kind = "deploy" THEN jobs[j].port
                                                                      ELSE rows[r].port]
        BY <1>2, <2>2, <3>1, <3>2 DEF SwitchNginx
      <4> QED
        BY <1>1, <4>1 DEF Deploying, JobRecords
    <3> QED
      BY <1>1, <3>2 DEF Advances
  <2>3. CASE DemoteOthers(j)
    BY <1>1, <1>2, <2>3 DEF DemoteOthers, Deploying, JobRecords
  <2>4. CASE LockTimeout(j)
    <3>1. Unlocked
      BY <1>2, <2>4 DEF LockTimeout, Unlocked, PlanInv, SerialInv, OneOperation, InFlight
    <3> QED
      BY <2>4, <3>1 DEF LockTimeout
  <2> QED
    BY <2>1, <2>2, <2>3, <2>4
<1> QED
  BY <1>3

\* The steps of a launched job.
LEMMA CleanThread ==
  ASSUME PlanInv, CleanInv, "lock" \notin Faults, NEW j \in Jobs, Untouched(j),
         \/ Remove(j) \/ Run(j) \/ Stop(j) \/ Check(j) \/ Verify(j)
         \/ SwitchNginx(j) \/ DemoteOthers(j) \/ LockTimeout(j)
  PROVE  Undone(j)'
<1>1. /\ jobs \in [Jobs -> JobRecords] /\ Undone(j) /\ Advances(j) /\ status' = status
  BY JobAdvances DEF PlanInv, SerialInv, TypeOK, CleanInv, Remove, Run, Stop, Check, Verify,
     SwitchNginx, DemoteOthers, LockTimeout
<1>2. InFlight(j) /\ project.exists
  BY <1>1 DEF Advances, Deploying, InFlight, PlanInv, PortsRecorded
<1>3. jobs'[j].kind = "deploy" => jobs'[j].pc \in Deploying
  BY DeployGoesOn
<1>4. status[j] # "error"
  BY <1>1, <1>2 DEF Undone, InFlight, Advances, Deploying
<1>5. jobs'[j].pc \notin {"unused", "nginx", "launch", "over"}
  BY <1>1 DEF Advances, Deploying
<1>6. jobs[j].kind = "deploy" =>
        \A n \in Names \ {jobs[j].version} : images'[n] # j /\ containers'[n].build # j
  BY <1>1 DEF Undone, Untouched, Advances
<1>7. jobs'[j].kind = "deploy" /\ jobs'[j].pc = "finish" => FALSE
  BY <1>3 DEF Deploying
<1> QED
  BY SMTT(40), <1>1, <1>4, <1>5, <1>6, <1>7 DEF Undone, Advances

LEMMA CleanEnds ==
  ASSUME PlanInv, CleanInv, NEW j \in Jobs, Untouched(j),
         Cleanup(j) \/ Finish(j) \/ Monitor(j)
  PROVE  Undone(j)'
<1>1. /\ jobs \in [Jobs -> JobRecords] /\ Undone(j) /\ PlaceHolds(j)
      /\ containers \in [Names -> ContainerRecords] /\ images \in [Names -> Jobs \cup {NoJob}]
      /\ status \in [Jobs -> {"none", "running", "done", "error", "aborted", "lost"}]
      /\ j # NoJob
  BY DEF PlanInv, SerialInv, TypeOK, CleanInv, PlansHold, Jobs, NoJob
<1>2. CASE Cleanup(j)
  <2>1. jobs'[j].kind = jobs[j].kind /\ jobs'[j].pc = "finish" /\ jobs[j].pc = "cleanup"
        /\ status' = status
    BY <1>1, <1>2 DEF Cleanup, JobRecords
  <2>2. CASE jobs[j].kind = "deploy"
    <3>1. ~Present(j)
      BY <2>1 DEF PlanInv, SerialInv, RowsAreCommitted
    <3>2. /\ images' = ImagesAfter({jobs[j].version})
          /\ containers' = [containers EXCEPT ![jobs[j].version] = NoContainer]
      BY <1>2, <2>2 DEF Cleanup
    <3>3. \A n \in Names : images'[n] # j /\ containers'[n].build # j
      BY <1>1, <2>1, <2>2, <3>2 DEF Undone, ImagesAfter, NoContainer, Deploying
    <3>4. ~(Present(j)')
      BY <1>2, <3>1 DEF Present, Cleanup
    <3> QED
      BY <1>1, <2>1, <3>3, <3>4 DEF Undone, Clean, Deploying
  <2>3. CASE jobs[j].kind # "deploy"
    BY <1>1, <2>1, <2>3 DEF Undone, Deploying
  <2> QED
    BY <2>2, <2>3
<1>3. CASE Finish(j)
  <2>1. jobs'[j].kind = jobs[j].kind /\ jobs'[j].pc = "over" /\ jobs[j].pc = "finish"
    BY <1>1, <1>3 DEF Finish, Over, Unused
  <2>2. registered = j /\ status[j] # "error"
    BY <1>1, <2>1 DEF PlaceHolds, Undone
  <2>3. status'[j] = "error" => jobs[j].outcome \notin {"ok", "aborted"}
    BY <1>1, <1>3, <2>2 DEF Finish
  <2>4. status'[j] = "error" /\ jobs[j].kind = "deploy" => Clean(j)'
    BY <1>1, <2>1, <2>3 DEF Undone, Untouched, Clean
  <2> QED
    BY <2>1, <2>4 DEF Undone, Deploying
<1>4. CASE Monitor(j)
  <2>1. /\ jobs'[j].kind = jobs[j].kind /\ jobs'[j].pc = "over"
        /\ jobs[j].kind # "deploy"
    BY <1>1, <1>4 DEF Monitor, Over, Unused
  <2> QED
    BY <2>1 DEF Undone, Deploying
<1> QED
  BY <1>2, <1>3, <1>4

LEMMA CleanBuild ==
  ASSUME PlanInv, CleanInv, NEW j \in Jobs, Build(j)
  PROVE  Undone(j)'
<1>1. /\ jobs \in [Jobs -> JobRecords] /\ images \in [Names -> Jobs \cup {NoJob}]
      /\ Undone(j) /\ PlaceHolds(j) /\ Advances(j)
  BY JobAdvances DEF PlanInv, SerialInv, TypeOK, CleanInv, PlansHold
<1>2. /\ jobs[j].pc = "build" /\ status' = status /\ containers' = containers
      /\ images' = images \/ images' = [images EXCEPT ![jobs[j].version] = j]
      /\ jobs'[j].pc \in {"remove", "exited"}
  BY <1>1 DEF Build, JobRecords
<1> QED
  BY <1>1, <1>2 DEF Undone, Advances, Deploying

LEMMA CleanCommit ==
  ASSUME PlanInv, CleanInv, NEW j \in Jobs, Commit(j)
  PROVE  Undone(j)'
<1>1. /\ jobs \in [Jobs -> JobRecords] /\ Undone(j) /\ PlaceHolds(j)
  BY DEF PlanInv, SerialInv, TypeOK, CleanInv, PlansHold
<1>2. jobs[j].pc = "commit" /\ ~LostRow(j) /\ status' = status
  BY NoRowLost DEF PlanInv, Commit
<1>3. jobs'[j].pc = "finish" /\ jobs'[j].outcome = "ok"
  BY <1>1, <1>2 DEF Commit, PlaceHolds, Loading, JobRecords
<1> QED
  BY <1>1, <1>2, <1>3 DEF Undone, Deploying

LEMMA CleanStep ==
  ASSUME PlanInv, CleanInv, Overlap = {}, NoOrphans, "lock" \notin Faults, [Next]_vars
  PROVE  CleanInv'
<1>1. orphans = {} /\ orphans' = {}
  BY NoOrphansStep DEF CleanInv
<1> SUFFICES \A i \in Jobs : Undone(i)'
  BY <1>1 DEF CleanInv
<1>2. /\ jobs \in [Jobs -> JobRecords] /\ registered \in Jobs \cup {NoJob}
      /\ status \in [Jobs -> {"none", "running", "done", "error", "aborted", "lost"}]
  BY DEF PlanInv, SerialInv, TypeOK
<1>3. ASSUME NEW j \in Jobs, Thread(j)
      PROVE  \A i \in Jobs : Undone(i)'
  <2>1. InFlight(j)
    BY <1>3 DEF Thread, InFlight, SetupNginx, RejectVhost, LaunchDeploy, LaunchRefused, Build,
       Remove, Run, Stop, Check, Verify, Cleanup, SwitchNginx, DemoteOthers, LockTimeout, Commit,
       Finish, Monitor
  <2>2. \A i \in Jobs \ {j} : ~InFlight(i) /\ ~Build(i) /\ ~Commit(i)
    BY <2>1 DEF PlanInv, SerialInv, OneOperation, Build, Commit, InFlight
  <2>3. \A i \in Jobs \ {j} : jobs'[i] = jobs[i]
    <3>1. CASE \/ Build(j) \/ Remove(j) \/ Run(j) \/ Stop(j) \/ Check(j) \/ Verify(j) \/ Cleanup(j)
               \/ SwitchNginx(j) \/ DemoteOthers(j) \/ LockTimeout(j)
      BY <3>1, JobAdvances DEF Advances
    <3>2. CASE \/ SetupNginx(j) \/ RejectVhost(j) \/ LaunchDeploy(j) \/ LaunchRefused(j)
               \/ Commit(j) \/ Finish(j) \/ Monitor(j)
      BY <1>2, <3>2 DEF SetupNginx, RejectVhost, LaunchDeploy, LaunchRefused, Commit, PromoteFails,
         Finish, Monitor, Over
    <3> QED
      BY <1>3, <3>1, <3>2 DEF Thread
  <2>4. \A i \in Jobs \ {j} : status'[i] = "error" => status[i] = "error"
    <3>1. CASE Finish(j)
      <4>1. registered = j
        BY <3>1 DEF Finish, PlanInv, PlansHold, PlaceHolds
      <4> QED
        BY <1>2, <3>1, <4>1 DEF Finish
    <3>2. CASE ~Finish(j)
      BY <1>2, <1>3, <3>2 DEF Thread, SetupNginx, RejectVhost, LaunchDeploy, LaunchRefused, Build,
         Remove, Run, Stop, Check, Verify, Cleanup, SwitchNginx, DemoteOthers, LockTimeout, Commit,
         Monitor, Register
    <3> QED
      BY <3>1, <3>2
  <2>5. \A i \in Jobs \ {j} : Undone(i)'
    BY <2>2, <2>3, <2>4, OthersUndone
  <2>6. Undone(j)'
    <3>1. CASE Build(j)
      BY <3>1, CleanBuild
    <3>2. CASE Commit(j)
      BY <3>2, CleanCommit
    <3>3. CASE ~Build(j) /\ ~Commit(j)
      <4>1. Untouched(j)
        BY <1>1, <3>3, UntouchedStep
      <4>2. CASE SetupNginx(j) \/ RejectVhost(j) \/ LaunchDeploy(j) \/ LaunchRefused(j)
        BY <4>1, <4>2, CleanRequest
      <4>3. CASE \/ Remove(j) \/ Run(j) \/ Stop(j) \/ Check(j) \/ Verify(j)
                 \/ SwitchNginx(j) \/ DemoteOthers(j) \/ LockTimeout(j)
        BY <4>1, <4>3, CleanThread
      <4>4. CASE Cleanup(j) \/ Finish(j) \/ Monitor(j)
        BY <4>1, <4>4, CleanEnds
      <4> QED
        BY <1>3, <3>3, <4>2, <4>3, <4>4 DEF Thread
    <3> QED
      BY <3>1, <3>2, <3>3
  <2> QED
    BY SMTT(40), <2>5, <2>6
<1>4. CASE SetLimit \/ DeleteDocker \/ Handler
  <2>1. jobs' = jobs /\ \A i \in Jobs : jobs[i].pc \in {"unused", "over"}
    BY <1>4, HandlersRest DEF Handler, PlanInv
  <2>2. \A i \in Jobs : status'[i] = "error" => status[i] = "error"
    BY <1>2, <1>4 DEF SetLimit, DeleteDocker, Handler, EnforceLimit, DeleteNginx, DeleteRow,
       AbortRegistered
  <2>3. \A i \in Jobs : ~Build(i) /\ ~Commit(i)
    BY <2>1 DEF Build, Commit
  <2> QED
    BY <2>1, <2>2, <2>3, RestedUndone
<1>5. CASE Abort
  <2>1. \A i \in Jobs : status'[i] = "error" => status[i] = "error"
    BY <1>2, <1>5 DEF Abort, AbortRegistered
  <2>2. \A i \in Jobs : ~Build(i) /\ ~Commit(i)
    <3>1. status' # status
      BY <1>2, <1>5 DEF Abort, AbortRegistered
    <3> QED
      BY <3>1 DEF Build, Commit
  <2>3. CASE jobs' = jobs
    BY <2>1, <2>2, <2>3, RestedUndone
  <2>4. CASE jobs' # jobs
    <3>1. PICK j \in Jobs : Advances(j) /\ jobs'[j].pc = "exited"
      BY <1>5, <2>4, AbortMoves
    <3>2. InFlight(j) /\ \A i \in Jobs \ {j} : jobs'[i] = jobs[i] /\ ~InFlight(i)
      BY <3>1 DEF Advances, InFlight, Deploying, PlanInv, SerialInv, OneOperation
    <3>3. \A i \in Jobs \ {j} : Undone(i)'
      BY <2>1, <2>2, <3>2, OthersUndone
    <3>4. Undone(j) /\ Untouched(j)
      BY <1>1, <2>2, UntouchedStep DEF CleanInv
    <3>5. Undone(j)'
      BY <2>1, <3>1, <3>4 DEF Undone, Untouched, Advances, Deploying
    <3> QED
      BY <3>3, <3>5
  <2> QED
    BY <2>3, <2>4
<1>6. CASE Crash
  <2>1. images' = images /\ containers' = containers /\ rows' = rows
    BY <1>6 DEF Crash
  <2>2. ASSUME NEW i \in Jobs
        PROVE  Undone(i)'
    <3>1. Undone(i) /\ (Clean(i)' <=> Clean(i))
      BY <2>1 DEF CleanInv, Clean, Present
    <3>2. CASE InFlight(i)
      <4>1. jobs'[i].pc = "over" /\ status'[i] = "lost"
        BY <1>6, <3>2 DEF Crash, Unused
      <4> QED
        BY <4>1 DEF Undone, Deploying
    <3>3. CASE ~InFlight(i)
      <4>1. jobs'[i] = jobs[i] /\ status'[i] = status[i] /\ jobs[i].pc \in {"unused", "over"}
        BY <1>6, <3>3 DEF Crash, InFlight
      <4> QED
        BY <3>1, <4>1 DEF Undone, Deploying
    <3> QED
      BY <3>2, <3>3
  <2> QED
    BY <2>2
<1>7. CASE UNCHANGED vars
  BY <1>7 DEF vars, CleanInv, Undone, Clean, Present
<1>8. ~OrphanEnds
  BY <1>1 DEF OrphanEnds
<1> QED
  BY <1>3, <1>4, <1>5, <1>6, <1>7, <1>8, CleanClient DEF Next

\* Whatever a build, a container, an abort or a crash does, a deploy that ends in error
\* has taken back all that it made, unless a write waited too long for the database.
THEOREM FailedDeployClean ==
  Overlap = {} /\ NoOrphans /\ "lock" \notin Faults => (Spec => []FailedDeployLeavesNothing)
<1> SUFFICES ASSUME Overlap = {}, NoOrphans, "lock" \notin Faults
             PROVE  Spec => []FailedDeployLeavesNothing
  OBVIOUS
<1>1. Init => PlanInv /\ CleanInv
  <2>1. ASSUME Init, NEW j \in Jobs
        PROVE  Undone(j)
    <3>1. Clean(j) /\ status[j] = "none" /\ jobs[j].pc = "unused"
      BY <2>1 DEF Init, Clean, Present, NoRow, NoContainer, Unused, Jobs, NoJob
    <3> QED
      BY <3>1 DEF Undone, Deploying
  <2>2. Init => orphans = {}
    BY DEF Init
  <2> QED
    BY <2>1, <2>2, PlanInit DEF CleanInv
<1>2. (PlanInv /\ CleanInv) /\ [Next]_vars => (PlanInv /\ CleanInv)'
  BY PlanStep, CleanStep
<1>3. PlanInv /\ CleanInv => FailedDeployLeavesNothing
  BY DEF CleanInv, Undone, Clean, FailedDeployLeavesNothing
<1> QED
  BY <1>1, <1>2, <1>3, PTL DEF Spec

-----------------------------------------------------------------------------
(* What a deleted project leaves behind                                     *)

\* Version n is recorded, or being deployed.
Known(n) ==
  \/ \E r \in Jobs : Present(r) /\ rows[r].version = n
  \/ \E j \in Jobs : jobs[j].kind = "deploy" /\ jobs[j].pc \in Deploying /\ jobs[j].version = n

\* Docker holds nothing of other versions, and of those only that a promote is about to
\* commit still do.
OwnedDocker ==
  /\ \A n \in Names : Empty(n) \/ Known(n)
  /\ \A j \in Jobs : jobs[j].pc = "commit" => \A n \in Names :
       Empty(n) \/ \E r \in Jobs : Final(j)[r].status # "absent" /\ Final(j)[r].version = n

\* A delete has emptied docker when it comes to the vhost, and removed that when it
\* comes to the row.
TornDown ==
  /\ teardown # NoTeardown => \A n \in Names : Empty(n)
  /\ teardown.step = "row" \/ ~project.exists => nginx = NoPort

OwnInv == orphans = {} /\ OwnedDocker /\ TornDown

LEMMA EmptyStays ==
  ASSUME TypeOK, orphans = {}, [Next]_vars, NEW n \in Names, Empty(n)
  PROVE  Empty(n)' \/ \E j \in Jobs : Build(j) /\ jobs[j].version = n
<1>1. containers'[n] = NoContainer
  BY DockerMakes
<1>2. images'[n] = NoJob \/ \E j \in Jobs : Build(j) /\ images'[n] = j
  BY DockerMakes DEF Empty
<1>3. ASSUME NEW j \in Jobs, Build(j), images'[n] = j
      PROVE  jobs[j].version = n
  <2>1. images \in [Names -> Jobs \cup {NoJob}] /\ j # NoJob /\ images[n] = NoJob
    BY DEF TypeOK, Jobs, NoJob, Empty
  <2> QED
    BY <1>3, <2>1 DEF Build
<1> QED
  BY <1>1, <1>2, <1>3 DEF Empty

\* The request's vhost and the project's deletion apart, the vhost stays.
LEMMA TornDownStays ==
  ASSUME TornDown, \A n \in Names : Empty(n) => Empty(n)',
         teardown' = teardown, project.exists => project'.exists,
         nginx' = nginx \/ nginx' = NoPort
  PROVE  TornDown'
BY DEF TornDown

LEMMA TornDownServed ==
  ASSUME PlanInv, NEW j \in Jobs, InFlight(j), teardown' = teardown,
         project.exists => project'.exists
  PROVE  TornDown'
<1>1. teardown' = NoTeardown /\ project'.exists
  BY DEF PlanInv, SerialInv, OneOperation, PortsRecorded
<1> QED
  BY <1>1 DEF TornDown, NoTeardown

\* A step that neither forgets a row nor ends a deploy, and builds nothing.
LEMMA OwnedStays ==
  ASSUME OwnedDocker, \A n \in Names : Empty(n) => Empty(n)', rows' = rows,
         \A j \in Jobs : jobs[j].kind = "deploy" /\ jobs[j].pc \in Deploying =>
           jobs'[j].kind = "deploy" /\ jobs'[j].pc \in Deploying /\ jobs'[j].version = jobs[j].version,
         \A j \in Jobs : jobs'[j].pc # "commit"
  PROVE  OwnedDocker'
BY DEF OwnedDocker, Known, Present

LEMMA SameOwned ==
  ASSUME OwnedDocker, TornDown, images' = images, containers' = containers, rows' = rows,
         teardown' = teardown, jobs' = jobs, seen' = seen, nginx' = nginx, project' = project
  PROVE  OwnedDocker' /\ TornDown'
<1>1. \A j \in Jobs : Final(j)' = Final(j)
  BY DEF Final, Shuffled, Loaded
<1>2. \A n \in Names : (Empty(n)' <=> Empty(n)) /\ (Known(n)' <=> Known(n))
  BY DEF Empty, Known, Present
<1> QED
  BY <1>1, <1>2 DEF OwnedDocker, TornDown

LEMMA OwnClient ==
  ASSUME PlanInv, OwnInv, Overlap = {}, [Next]_vars, NEW j \in Jobs, Client(j)
  PROVE  OwnedDocker' /\ TornDown'
<1>1. /\ jobs \in [Jobs -> JobRecords] /\ \A i \in Jobs : jobs[i].pc \in {"unused", "over"}
      /\ teardown' = teardown /\ rows' = rows /\ nginx' = nginx
  BY DEF PlanInv, SerialInv, TypeOK, Client, Provision, LaunchRollback, LaunchRestart, LaunchStop,
     Admits, Idle, Requests, InFlight
<1>2. project.exists => project'.exists
  BY DEF Client, Provision, LaunchRollback, LaunchRestart, LaunchStop
<1>3. \A n \in Names : Empty(n) => Empty(n)'
  BY <1>1, EmptyStays DEF OwnInv, PlanInv, SerialInv, Build
<1>4. \A i \in Jobs : i # j => jobs'[i] = jobs[i]
  BY <1>1 DEF Client, Provision, LaunchRollback, LaunchRestart, LaunchStop
<1>5. jobs'[j].pc # "commit"
  <2>1. CASE Provision(j)
    BY <1>1, <2>1 DEF Provision, Unused
  <2>2. CASE LaunchRollback(j)
    BY <1>1, <2>2 DEF LaunchRollback, Unused
  <2>3. CASE LaunchRestart(j)
    BY <1>1, <2>3 DEF LaunchRestart, Unused
  <2>4. CASE LaunchStop(j)
    BY <1>1, <2>4 DEF LaunchStop, Unused
  <2> QED
    BY <2>1, <2>2, <2>3, <2>4 DEF Client
<1>6. \A i \in Jobs : jobs'[i].pc # "commit"
  BY <1>1, <1>4, <1>5
<1>7. \A i \in Jobs : jobs[i].pc \notin Deploying
  BY <1>1 DEF Deploying
<1> QED
  BY <1>1, <1>2, <1>3, <1>6, <1>7, OwnedStays, TornDownStays DEF OwnInv

\* A job's step that touches no version but its own.
LEMMA OwnThread ==
  ASSUME PlanInv, OwnInv, "lock" \notin Faults, [Next]_vars, NEW j \in Jobs,
         \/ SetupNginx(j) \/ RejectVhost(j) \/ LaunchDeploy(j) \/ LaunchRefused(j)
         \/ Remove(j) \/ Run(j) \/ Stop(j) \/ Check(j) \/ Verify(j)
         \/ SwitchNginx(j) \/ LockTimeout(j) \/ Finish(j) \/ Monitor(j)
  PROVE  OwnedDocker' /\ TornDown'
<1>1. /\ jobs \in [Jobs -> JobRecords] /\ teardown' = teardown /\ rows' = rows /\ InFlight(j)
      /\ project \in ProjectRecords /\ ~Build(j) /\ jobs[j].pc # "commit"
  BY DEF PlanInv, SerialInv, TypeOK, SetupNginx, RejectVhost, LaunchDeploy, LaunchRefused, Remove,
     Run, Stop, Check, Verify, SwitchNginx, LockTimeout, Finish, Monitor, Requests, InFlight, Build
<1>2. project.exists => project'.exists
  BY <1>1 DEF SetupNginx, RejectVhost, LaunchDeploy, LaunchRefused, Remove,
     Run, Stop, Check, Verify, SwitchNginx, LockTimeout, Finish, Monitor, ProjectRecords
<1>3. TornDown'
  BY <1>1, <1>2, TornDownServed
<1>4. \A i \in Jobs \ {j} : ~InFlight(i)
  BY <1>1 DEF PlanInv, SerialInv, OneOperation
<1>5. \A n \in Names : Empty(n) => Empty(n)'
  BY <1>1, <1>4, EmptyStays DEF OwnInv, PlanInv, SerialInv, Build, InFlight
<1>6. /\ \A i \in Jobs \ {j} : jobs'[i] = jobs[i]
      /\ jobs'[j].pc # "commit"
      /\ jobs[j].kind = "deploy" /\ jobs[j].pc \in Deploying =>
           /\ jobs'[j].kind = "deploy" /\ jobs'[j].pc \in Deploying
           /\ jobs'[j].version = jobs[j].version
  <2>1. CASE SetupNginx(j)
    BY <1>1, <2>1 DEF SetupNginx, Unused, Deploying
  <2>2. CASE RejectVhost(j)
    BY <1>1, <2>2 DEF RejectVhost, Unused, Deploying
  <2>3. CASE LaunchDeploy(j)
    BY <1>1, <2>3 DEF LaunchDeploy, Unused, Deploying
  <2>4. CASE LaunchRefused(j)
    BY <1>1, <2>4 DEF LaunchRefused, Deploying, JobRecords
  <2>5. CASE Finish(j)
    BY <1>1, <2>5 DEF Finish, Over, Unused, Deploying
  <2>6. CASE Monitor(j)
    BY <1>1, <2>6 DEF Monitor, Over, Unused, Deploying
  <2>7. CASE Remove(j) \/ Run(j) \/ Stop(j) \/ Check(j) \/ Verify(j) \/ SwitchNginx(j)
             \/ LockTimeout(j)
    <3>1. Advances(j) /\ (jobs'[j].kind = "deploy" => jobs'[j].pc \in Deploying)
      BY <2>7, JobAdvances, DeployGoesOn
    <3>2. jobs'[j].pc # "commit"
      <4>1. CASE SwitchNginx(j)
        BY <4>1, SwitchMoves
      <4>2. CASE LockTimeout(j)
        BY <1>1, <4>2 DEF LockTimeout, PromoteFails, JobRecords
      <4>3. CASE Remove(j) \/ Run(j) \/ Stop(j) \/ Check(j) \/ Verify(j)
        BY <1>1, <4>3 DEF Remove, Run, Stop, Check, Verify, JobRecords
      <4> QED
        BY <2>7, <4>1, <4>2, <4>3
    <3> QED
      BY <3>1, <3>2 DEF Advances
  <2> QED
    BY <2>1, <2>2, <2>3, <2>4, <2>5, <2>6, <2>7
<1>7. OwnedDocker'
  <2>1. /\ \A i \in Jobs : jobs'[i].pc # "commit"
        /\ \A i \in Jobs : jobs[i].kind = "deploy" /\ jobs[i].pc \in Deploying =>
             jobs'[i].kind = "deploy" /\ jobs'[i].pc \in Deploying /\ jobs'[i].version = jobs[i].version
    BY <1>4, <1>6 DEF InFlight
  <2> QED
    BY <1>1, <1>5, <2>1, OwnedStays DEF OwnInv
<1> QED
  BY <1>3, <1>7

LEMMA OwnBuild ==
  ASSUME PlanInv, OwnInv, [Next]_vars, NEW j \in Jobs, Build(j) \/ Cleanup(j)
  PROVE  OwnedDocker' /\ TornDown'
<1>1. /\ jobs \in [Jobs -> JobRecords] /\ Advances(j) /\ teardown' = teardown /\ InFlight(j)
      /\ PlaceHolds(j) /\ images \in [Names -> Jobs \cup {NoJob}]
      /\ containers \in [Names -> ContainerRecords]
      /\ rows' = rows /\ project' = project
  BY JobAdvances DEF PlanInv, SerialInv, TypeOK, PlansHold, Build, Cleanup, Requests, InFlight
<1>2. TornDown'
  BY <1>1, TornDownServed
<1>3. \A i \in Jobs \ {j} : ~InFlight(i) /\ jobs'[i] = jobs[i]
  BY <1>1 DEF PlanInv, SerialInv, OneOperation, Advances
<1>4. \A i \in Jobs : jobs'[i].pc # "commit"
  BY <1>1, <1>3 DEF Build, Cleanup, InFlight, JobRecords
<1>5. \A n \in Names : Empty(n)' \/ Known(n)'
  <2> SUFFICES ASSUME NEW n \in Names, ~(Empty(n)') PROVE Known(n)'
    OBVIOUS
  <2>1. CASE jobs[j].kind = "deploy" /\ n = jobs[j].version
    <3>1. ~Cleanup(j)
      BY <1>1, <2>1 DEF Cleanup, ImagesAfter, Empty
    <3>2. jobs'[j].pc \in Deploying
      BY <1>1, <3>1 DEF Build, Deploying, JobRecords
    <3> QED
      BY <1>1, <2>1, <3>2 DEF Known, Advances
  <2>2. CASE ~(jobs[j].kind = "deploy" /\ n = jobs[j].version)
    <3>1. ~Empty(n)
      <4> SUFFICES ASSUME Empty(n) PROVE FALSE
        OBVIOUS
      <4>1. PICK i \in Jobs : Build(i) /\ jobs[i].version = n
        BY EmptyStays DEF OwnInv, PlanInv, SerialInv
      <4>2. i = j
        BY <1>3, <4>1 DEF Build, InFlight
      <4> QED
        BY <1>1, <2>2, <4>1, <4>2 DEF PlaceHolds, Build
    <3>2. PICK r \in Jobs : Present(r) /\ rows[r].version = n
      BY <1>3, <2>2, <3>1 DEF OwnInv, OwnedDocker, Known, InFlight, Deploying
    <3> QED
      BY <1>1, <3>2 DEF Known, Present
  <2> QED
    BY <2>1, <2>2
<1> QED
  BY <1>2, <1>4, <1>5 DEF OwnedDocker

\* A promote takes the container and image of each version it is going to forget.
LEMMA OwnDemote ==
  ASSUME PlanInv, OwnInv, [Next]_vars, NEW j \in Jobs, DemoteOthers(j)
  PROVE  OwnedDocker' /\ TornDown'
<1> DEFINE gone == Moved(Shuffled(j), Final(j), "archived", "absent")
<1>1. /\ jobs \in [Jobs -> JobRecords] /\ Advances(j) /\ teardown' = teardown /\ InFlight(j)
      /\ rows' = rows /\ project' = project /\ project.exists /\ SerialInv
      /\ jobs[j].pc = "demote" /\ jobs[j].pc \in Loading /\ jobs[j].pc \in Deploying
  BY JobAdvances DEF PlanInv, SerialInv, TypeOK, DemoteOthers, Requests, InFlight, PortsRecorded,
     Loading, Deploying
<1>2. TornDown'
  BY <1>1, TornDownServed
<1>3. \A i \in Jobs \ {j} : ~InFlight(i) /\ jobs'[i] = jobs[i]
  BY <1>1 DEF PlanInv, SerialInv, OneOperation, Advances
<1>4. /\ jobs' = [jobs EXCEPT ![j].pc = "commit"] /\ seen' = seen
      /\ images' = ImagesAfter(gone)
      /\ \E t, u : containers' = ContainersAfter(t, u, gone)
  BY <1>1 DEF DemoteOthers
<1>5. jobs'[j].pc = "commit"
  BY <1>1, <1>4
<1>6. \A n \in Names : Empty(n) => Empty(n)'
  BY <1>1, <1>3, EmptyStays DEF OwnInv, Build, InFlight, SerialInv
<1>7. \A n \in Names : Empty(n)' \/ Known(n)'
  BY <1>1, <1>3, <1>5, <1>6 DEF OwnInv, OwnedDocker, Known, Present, Advances, Deploying, InFlight
<1>8. \A n \in gone \cap Names : Empty(n)'
  BY <1>4 DEF ImagesAfter, ContainersAfter, Empty
<1>9. Final(j)' = Final(j)
  BY <1>1, <1>4 DEF Final, Shuffled, Loaded, Advances
<1>10. ASSUME NEW n \in Names, ~(Empty(n)')
       PROVE  \E r \in Jobs : Final(j)[r].status # "absent" /\ Final(j)[r].version = n
  <2>1. Known(n) /\ n \notin gone
    BY <1>6, <1>8, <1>10 DEF OwnInv, OwnedDocker
  <2>2. \/ \E r \in Jobs : Present(r) /\ rows[r].version = n
        \/ jobs[j].kind = "deploy" /\ jobs[j].version = n
    BY <1>3, <2>1 DEF Known, InFlight, Deploying
  <2>3. PICK r \in Jobs : Shuffled(j)[r].status # "absent" /\ Shuffled(j)[r].version = n
    <3>1. /\ Promoted(j) \in Jobs /\ Shuffled(j)[Promoted(j)].status = "active"
          /\ Shuffled(j)[Promoted(j)].version = jobs[j].version
          /\ jobs[j].kind = "deploy" \/ rows[Promoted(j)].version = jobs[j].version
      BY <1>1, LoadedRows, ShuffledRows
    <3>2. \A r \in Jobs \ {Promoted(j)} : Present(r) =>
            Shuffled(j)[r].status # "absent" /\ Shuffled(j)[r].version = rows[r].version
      <4>1. \A r \in Jobs : rows[r].status \in {"absent", "active", "inactive", "archived"}
        BY DEF PlanInv, SerialInv, TypeOK, RowTables, RowRecords
      <4> QED
        BY <1>1, <4>1, ShuffledRows DEF Present
    <3>3. jobs[j].kind = "deploy" => ~Present(Promoted(j))
      BY <1>1, LoadedRows
    <3> QED
      BY <2>2, <3>1, <3>2, <3>3
  <2>4. Final(j)[r] = Shuffled(j)[r]
    <3>1. Final(j)[r] = Shuffled(j)[r] \/ (Final(j)[r] = NoRow /\ Shuffled(j)[r].status = "archived")
      BY FinalRow
    <3> QED
      BY <2>1, <2>3, <3>1 DEF Moved, NoRow
  <2> QED
    BY <2>3, <2>4
<1>11. OwnedDocker'
  BY <1>3, <1>7, <1>9, <1>10 DEF OwnedDocker, InFlight
<1> QED
  BY <1>2, <1>11

LEMMA OwnCommit ==
  ASSUME PlanInv, OwnInv, NEW j \in Jobs, Commit(j)
  PROVE  OwnedDocker' /\ TornDown'
<1>1. /\ jobs \in [Jobs -> JobRecords] /\ InFlight(j) /\ teardown' = teardown
      /\ images' = images /\ containers' = containers
      /\ ~LostRow(j) /\ jobs[j].pc = "commit" /\ SerialInv
  BY NoRowLost DEF PlanInv, SerialInv, TypeOK, Commit, InFlight, Requests, Docker
<1>2. rows' = Final(j) /\ project'.exists
  BY <1>1, CommitWrites
<1>3. TornDown'
  BY <1>1, <1>2, TornDownServed
<1>4. jobs'[j].pc = "finish" /\ \A i \in Jobs \ {j} : jobs'[i] = jobs[i] /\ ~InFlight(i)
  BY <1>1 DEF Commit, PromoteFails, JobRecords, SerialInv, OneOperation
<1>5. \A n \in Names : Empty(n)' \/ Known(n)'
  BY <1>1, <1>2 DEF OwnInv, OwnedDocker, Empty, Known, Present
<1> QED
  BY <1>3, <1>4, <1>5 DEF OwnedDocker, InFlight

LEMMA OwnHandlers ==
  ASSUME PlanInv, OwnInv, Overlap = {}, [Next]_vars,
         SetLimit \/ EnforceLimit \/ DeleteDocker \/ DeleteNginx \/ DeleteRow
  PROVE  OwnedDocker' /\ TornDown'
<1>1. /\ jobs' = jobs /\ \A i \in Jobs : jobs[i].pc \in {"unused", "over"}
      /\ TypeOK /\ project \in ProjectRecords
      /\ teardown \in [step : {"none", "nginx", "row"}, doomed : SUBSET Jobs]
  BY HandlersRest DEF PlanInv, SerialInv, TypeOK
<1>2. \A n \in Names : Empty(n) => Empty(n)'
  BY <1>1, EmptyStays DEF OwnInv, Build
<1>3. \A i \in Jobs : jobs'[i].pc # "commit"
  BY <1>1
<1>4. \A n \in Names : Empty(n) \/ \E r \in Jobs : Present(r) /\ rows[r].version = n
  BY <1>1 DEF OwnInv, OwnedDocker, Known, Deploying
<1>5. OwnedDocker /\ TornDown
  BY DEF OwnInv
<1>6. CASE SetLimit
  <2>1. rows' = rows /\ teardown' = teardown /\ nginx' = nginx /\ project'.exists = project.exists
    BY <1>1, <1>6 DEF SetLimit, ProjectRecords
  <2> QED
    BY <1>1, <1>2, <1>3, <1>5, <2>1, OwnedStays, TornDownStays
<1>7. CASE EnforceLimit
  <2>1. PICK final : /\ final = rows \/ final = Pruned(rows, project.limit)
                     /\ rows' = final
                     /\ images' = ImagesAfter(Moved(rows, final, "archived", "absent"))
                     /\ containers' = ContainersAfter(rows, rows,
                                        Moved(rows, final, "archived", "absent"))
    BY <1>7 DEF EnforceLimit
  <2>2. TornDown'
    BY <1>2, <1>5, <1>7, TornDownStays DEF EnforceLimit
  <2>3. ASSUME NEW n \in Names, ~(Empty(n)')
        PROVE  Known(n)'
    <3>1. PICK r \in Jobs : Present(r) /\ rows[r].version = n
      BY <1>2, <1>4, <2>3
    <3>2. n \notin Moved(rows, final, "archived", "absent")
      BY <2>1, <2>3 DEF ImagesAfter, ContainersAfter, Empty
    <3>3. final[r] = rows[r] \/ (final[r] = NoRow /\ rows[r].status = "archived")
      BY <2>1 DEF Pruned, Excess
    <3>4. final[r] = rows[r]
      BY <3>1, <3>2, <3>3 DEF Moved, NoRow
    <3> QED
      BY <2>1, <3>1, <3>4 DEF Known, Present
  <2> QED
    BY <1>3, <2>2, <2>3 DEF OwnedDocker
<1>8. CASE DeleteDocker
  <2>1. PICK gone : /\ gone = {rows[r].version : r \in {q \in Jobs : Present(q)}} \cup {project.version}
                    /\ images' = ImagesAfter(gone)
                    /\ containers' = ContainersAfter(rows, rows, gone)
                    /\ teardown'.step = "nginx" /\ project' = project /\ project.exists
    BY <1>8 DEF DeleteDocker
  <2>2. \A n \in Names : Empty(n)'
    <3> SUFFICES ASSUME NEW n \in Names PROVE Empty(n)'
      OBVIOUS
    <3>1. CASE Empty(n)
      BY <1>2, <3>1
    <3>2. CASE ~Empty(n)
      <4>1. n \in gone
        BY <1>4, <2>1, <3>2
      <4> QED
        BY <2>1, <4>1 DEF Empty, ImagesAfter, ContainersAfter
    <3> QED
      BY <3>1, <3>2
  <2> QED
    BY <1>3, <2>1, <2>2 DEF OwnedDocker, TornDown
<1>9. CASE DeleteNginx
  <2>1. nginx' = NoPort /\ \A n \in Names : Empty(n)'
    BY <1>2, <1>5, <1>9 DEF DeleteNginx, TornDown, NoTeardown
  <2>2. OwnedDocker'
    BY <1>3, <2>1 DEF OwnedDocker
  <2>3. TornDown'
    BY <2>1 DEF TornDown
  <2> QED
    BY <2>2, <2>3
<1>10. CASE DeleteRow
  <2>1. nginx' = NoPort /\ \A n \in Names : Empty(n)'
    BY <1>2, <1>5, <1>10 DEF DeleteRow, TornDown, NoTeardown
  <2>2. OwnedDocker'
    BY <1>3, <2>1 DEF OwnedDocker
  <2>3. TornDown'
    BY <2>1 DEF TornDown
  <2> QED
    BY <2>2, <2>3
<1> QED
  BY <1>6, <1>7, <1>8, <1>9, <1>10

LEMMA OwnStep ==
  ASSUME PlanInv, OwnInv, Overlap = {}, NoOrphans, "crash" \notin Faults, "lock" \notin Faults,
         [Next]_vars
  PROVE  OwnInv'
<1>1. orphans' = {} /\ orphans = {}
  BY NoOrphansStep DEF OwnInv
<1> SUFFICES OwnedDocker' /\ TornDown'
  BY <1>1 DEF OwnInv
<1>2. ASSUME NEW j \in Jobs, Thread(j)
      PROVE  OwnedDocker' /\ TornDown'
  <2>1. CASE Build(j) \/ Cleanup(j)
    BY <2>1, OwnBuild
  <2>2. CASE DemoteOthers(j)
    BY <2>2, OwnDemote
  <2>3. CASE Commit(j)
    BY <2>3, OwnCommit
  <2>4. CASE ~(Build(j) \/ Cleanup(j) \/ DemoteOthers(j) \/ Commit(j))
    BY <1>2, <2>4, OwnThread DEF Thread
  <2> QED
    BY <2>1, <2>2, <2>3, <2>4
<1>3. CASE SetLimit \/ DeleteDocker \/ Handler
  BY <1>3, OwnHandlers DEF Handler
<1>4. CASE Abort
  <2>1. /\ images' = images /\ containers' = containers /\ rows' = rows /\ teardown' = teardown
        /\ seen' = seen /\ nginx' = nginx /\ project' = project
    BY <1>4, AbortMoves
  <2>2. CASE jobs' = jobs
    BY <2>1, <2>2, SameOwned DEF OwnInv
  <2>3. CASE jobs' # jobs
    <3>1. PICK j \in Jobs : /\ Advances(j) /\ jobs'[j].pc = "exited"
      BY <1>4, <2>3, AbortMoves
    <3>2. \A i \in Jobs \ {j} : jobs'[i] = jobs[i] /\ ~InFlight(i)
      BY <3>1 DEF Advances, InFlight, Deploying, PlanInv, SerialInv, OneOperation
    <3>3. /\ \A i \in Jobs : jobs'[i].pc # "commit"
          /\ \A i \in Jobs : jobs[i].kind = "deploy" /\ jobs[i].pc \in Deploying =>
               jobs'[i].kind = "deploy" /\ jobs'[i].pc \in Deploying /\ jobs'[i].version = jobs[i].version
      BY <3>1, <3>2 DEF Advances, InFlight, Deploying
    <3>4. \A n \in Names : Empty(n) => Empty(n)'
      BY <2>1 DEF Empty
    <3> QED
      BY <2>1, <3>3, <3>4, OwnedStays, TornDownStays DEF OwnInv
  <2> QED
    BY <2>2, <2>3
<1>5. CASE UNCHANGED vars
  BY <1>5, SameOwned DEF vars, OwnInv
<1>6. ~OrphanEnds /\ ~Crash
  BY <1>1 DEF OrphanEnds, Crash
<1> QED
  BY <1>2, <1>3, <1>4, <1>5, <1>6, OwnClient DEF Next

\* Without crashes and lock time-outs, a deleted project leaves no row, container, image
\* or vhost, whatever deploys, rollbacks and aborts went before.
THEOREM DeletedClean ==
  Overlap = {} /\ NoOrphans /\ "crash" \notin Faults /\ "lock" \notin Faults
    => (Spec => []DeletedLeavesNothing)
<1> SUFFICES ASSUME Overlap = {}, NoOrphans, "crash" \notin Faults, "lock" \notin Faults
             PROVE  Spec => []DeletedLeavesNothing
  OBVIOUS
<1>1. Init => PlanInv /\ OwnInv
  <2>1. Init => OwnInv
    BY DEF Init, OwnInv, OwnedDocker, TornDown, Empty, Unused, NoTeardown
  <2> QED
    BY <2>1, PlanInit
<1>2. (PlanInv /\ OwnInv) /\ [Next]_vars => (PlanInv /\ OwnInv)'
  BY PlanStep, OwnStep
<1>3. PlanInv /\ OwnInv => DeletedLeavesNothing
  <2> SUFFICES ASSUME PlanInv, OwnInv, Idle, ~project.exists
               PROVE  /\ nginx = NoPort
                      /\ \A r \in Jobs : ~Present(r)
                      /\ \A n \in Names : containers[n] = NoContainer /\ images[n] = NoJob
    BY DEF DeletedLeavesNothing
  <2>1. \A r \in Jobs : ~Present(r)
    BY NothingRecorded DEF PlanInv, SerialInv, RowsAreCommitted
  <2>2. \A n \in Names : Empty(n)
    BY <2>1 DEF OwnInv, OwnedDocker, Known, Idle, InFlight, Deploying
  <2> QED
    BY <2>1, <2>2 DEF OwnInv, TornDown, Empty
<1> QED
  BY <1>1, <1>2, <1>3, PTL DEF Spec

-----------------------------------------------------------------------------
(* What a step leaves of the containers, the rows and the project           *)

Up(n) == containers[n].state \in {"running", "restarting"}

\* A step that starts nothing: what is up stays as it was, and what there still is
\* keeps its port and its build.
Fallen(n) ==
  /\ Up(n)' => containers'[n] = containers[n]
  /\ containers'[n].state # "absent" =>
       /\ containers[n].state # "absent"
       /\ containers'[n].port = containers[n].port /\ containers'[n].build = containers[n].build

\* The container of a version that is stopped or removed.
LEMMA FallenWhen ==
  ASSUME TypeOK, NEW n \in Names,
         \/ containers'[n] = containers[n] \/ containers'[n] = NoContainer
         \/ containers[n].state # "absent" /\ containers'[n] = [containers[n] EXCEPT !.state = "exited"]
  PROVE  Fallen(n)
<1>1. containers[n] \in ContainerRecords
  BY DEF TypeOK
<1>2. \A x \in ContainerRecords :
        LET y == [x EXCEPT !.state = "exited"] IN
        y.state = "exited" /\ y.port = x.port /\ y.build = x.build
  BY DEF ContainerRecords
<1>3. CASE containers'[n] = containers[n] \/ containers'[n] = NoContainer
  BY <1>3 DEF Fallen, Up, NoContainer
<1>4. CASE containers[n].state # "absent" /\ containers'[n] = [containers[n] EXCEPT !.state = "exited"]
  <2>1. /\ containers'[n].state = "exited" /\ containers'[n].port = containers[n].port
        /\ containers'[n].build = containers[n].build
    BY <1>1, <1>2, <1>4
  <2> QED
    BY <1>4, <2>1 DEF Fallen, Up
<1> QED
  BY <1>3, <1>4

LEMMA BookkeepingFalls ==
  ASSUME TypeOK, NEW n \in Names, NEW t, NEW u, NEW gone,
         containers' = ContainersAfter(t, u, gone)
  PROVE  Fallen(n)
<1>1. \/ containers'[n] = containers[n] \/ containers'[n] = NoContainer
      \/ containers[n].state # "absent" /\ containers'[n] = [containers[n] EXCEPT !.state = "exited"]
  BY DEF ContainersAfter
<1> QED
  BY <1>1, FallenWhen

LEMMA ContainersFall ==
  ASSUME TypeOK, ~OrphanEnds, [Next]_vars, \A j \in Jobs : ~Run(j), NEW n \in Names
  PROVE  Fallen(n)
<1>1. CASE containers' = containers
  BY <1>1, FallenWhen
<1>2. ASSUME NEW j \in Jobs, Client(j) \/ Thread(j)
      PROVE  Fallen(n)
  <2>0. jobs[j].version \in Names /\ project.version \in Names
        /\ containers \in [Names -> ContainerRecords]
    BY DEF TypeOK, JobRecords, ProjectRecords
  <2>1. CASE LaunchRestart(j) \/ Remove(j) \/ Cleanup(j)
    <3>1. containers'[n] = containers[n] \/ containers'[n] = NoContainer
      BY <2>0, <2>1 DEF LaunchRestart, Remove, Cleanup
    <3> QED
      BY <3>1, FallenWhen
  <2>2. CASE Stop(j)
    <3>1. \/ containers' = containers
          \/ /\ containers[jobs[j].version].state # "absent"
             /\ containers' = [containers EXCEPT ![jobs[j].version] =
                                 [containers[jobs[j].version] EXCEPT !.state = "exited"]]
      BY <2>2 DEF Stop
    <3>2. \/ containers'[n] = containers[n]
          \/ containers[n].state # "absent" /\ containers'[n] = [containers[n] EXCEPT !.state = "exited"]
      BY <2>0, <3>1
    <3> QED
      BY <3>2, FallenWhen
  <2>3. CASE DemoteOthers(j)
    <3>1. containers' = containers \/ \E t, u, gone : containers' = ContainersAfter(t, u, gone)
      BY <2>3 DEF DemoteOthers
    <3> QED
      BY <1>1, <3>1, BookkeepingFalls
  <2>4. CASE ~(LaunchRestart(j) \/ Remove(j) \/ Cleanup(j) \/ Stop(j) \/ DemoteOthers(j))
    <3>1. containers' = containers
      BY <1>2, <2>4 DEF Client, Thread, Provision, LaunchRollback, LaunchStop, SetupNginx, RejectVhost,
         LaunchDeploy, LaunchRefused, Build, Check, Verify, SwitchNginx, LockTimeout, Commit, Finish,
         Monitor, Docker
    <3> QED
      BY <1>1, <3>1
  <2> QED
    BY <2>1, <2>2, <2>3, <2>4
<1>3. CASE EnforceLimit \/ DeleteDocker
  <2>1. \E t, u, gone : containers' = ContainersAfter(t, u, gone)
    BY <1>3 DEF EnforceLimit, DeleteDocker
  <2> QED
    BY <2>1, BookkeepingFalls
<1>4. CASE SetLimit \/ DeleteNginx \/ DeleteRow \/ Abort \/ Crash \/ UNCHANGED vars
  BY <1>1, <1>4 DEF SetLimit, DeleteNginx, DeleteRow, Abort, Crash, vars, Docker
<1> QED
  BY <1>2, <1>3, <1>4 DEF Next, Handler

\* docker run makes a container only where there is none, with its port and image,
\* and starts it only on a port that is not bound.
LEMMA RunStarts ==
  ASSUME TypeOK, NEW j \in Jobs, Run(j)
  PROVE  /\ jobs[j].version \in Names
         /\ \A n \in Names \ {jobs[j].version} : containers'[n] = containers[n]
         /\ \/ containers' = containers /\ ~RunSucceeds(jobs[j].version, jobs[j].port)
            \/ /\ containers[jobs[j].version].state = "absent"
               /\ containers'[jobs[j].version].state # "absent"
               /\ containers'[jobs[j].version].port = jobs[j].port
               /\ containers'[jobs[j].version].build = images[jobs[j].version]
               /\ containers'[jobs[j].version].state \in {"running", "restarting"} =>
                    RunSucceeds(jobs[j].version, jobs[j].port)
<1> DEFINE v == jobs[j].version
           p == jobs[j].port
<1>1. v \in Names /\ containers \in [Names -> ContainerRecords]
  BY DEF TypeOK, JobRecords
<1>2. containers' \in RunLeaves(v, p)
  BY DEF Run
<1> HIDE DEF v, p
<1>3. \/ containers' = containers /\ ~RunSucceeds(v, p)
      \/ \E s \in {"created", "running", "restarting"} :
           /\ containers[v].state = "absent" /\ (s # "created" => RunSucceeds(v, p))
           /\ containers' = [containers EXCEPT ![v] = [state |-> s, port |-> p, build |-> images[v]]]
  BY <1>2 DEF RunLeaves, RunSucceeds, Started
<1>4. ASSUME ~(containers' = containers /\ ~RunSucceeds(v, p))
      PROVE  /\ \A n \in Names \ {v} : containers'[n] = containers[n]
             /\ containers[v].state = "absent" /\ containers'[v].state # "absent"
             /\ containers'[v].port = p /\ containers'[v].build = images[v]
             /\ containers'[v].state \in {"running", "restarting"} => RunSucceeds(v, p)
  <2>1. PICK s \in {"created", "running", "restarting"} :
          /\ containers[v].state = "absent" /\ (s # "created" => RunSucceeds(v, p))
          /\ containers' = [containers EXCEPT ![v] = [state |-> s, port |-> p, build |-> images[v]]]
    BY <1>3, <1>4
  <2>2. /\ \A n \in Names \ {v} : containers'[n] = containers[n]
        /\ containers'[v] = [state |-> s, port |-> p, build |-> images[v]]
    BY <1>1, <2>1
  <2>3. /\ containers'[v].state = s /\ containers'[v].state # "absent"
        /\ containers'[v].port = p /\ containers'[v].build = images[v]
    BY <2>2
  <2> QED
    BY <2>1, <2>2, <2>3
<1>5. \/ containers' = containers /\ ~RunSucceeds(v, p)
      \/ /\ \A n \in Names \ {v} : containers'[n] = containers[n]
         /\ containers[v].state = "absent" /\ containers'[v].state # "absent"
         /\ containers'[v].port = p /\ containers'[v].build = images[v]
         /\ containers'[v].state \in {"running", "restarting"} => RunSucceeds(v, p)
  BY <1>3, <1>4
<1>6. \A n \in Names \ {v} : containers'[n] = containers[n]
  BY <1>5
<1> QED
  BY <1>1, <1>5, <1>6 DEF v, p

\* The rows that are active or inactive come from commits, and stay until another.
LEMMA LiveRowsStay ==
  ASSUME PlanInv, [Next]_vars, \A j \in Jobs : ~Commit(j),
         NEW r \in Jobs, rows'[r].status # "absent"
  PROVE  rows'[r] = rows[r]
<1>1. CASE rows' = rows
  BY <1>1
<1>2. CASE EnforceLimit
  <2>1. rows' = rows \/ rows' = Pruned(rows, project.limit)
    BY <1>2 DEF EnforceLimit
  <2> QED
    BY <2>1 DEF Pruned, NoRow
<1>3. CASE DeleteRow
  BY SMTT(40), <1>3, DeletedRows DEF PlanInv
<1>4. ASSUME NEW j \in Jobs, Client(j) \/ Thread(j)
      PROVE  rows' = rows
  BY <1>4 DEF Client, Thread, Provision, LaunchRollback, LaunchRestart, LaunchStop, SetupNginx,
     RejectVhost, LaunchDeploy, LaunchRefused, Build, Remove, Run, Stop, Check, Verify, Cleanup,
     SwitchNginx, DemoteOthers, LockTimeout, Finish, Monitor
<1>5. SetLimit \/ DeleteDocker \/ DeleteNginx \/ Abort \/ OrphanEnds \/ Crash \/ UNCHANGED vars
        => rows' = rows
  BY DEF SetLimit, DeleteDocker, DeleteNginx, Abort, OrphanEnds, Crash, vars
<1> QED
  BY <1>1, <1>2, <1>3, <1>4, <1>5 DEF Next, Handler

\* A project that has a version keeps its version and its port until a commit.
LEMMA ProjectStays ==
  ASSUME PlanInv, [Next]_vars, \A j \in Jobs : ~Commit(j), project'.counter # 0
  PROVE  /\ project'.version = project.version /\ project'.port = project.port
         /\ project'.counter = project.counter
<1>1. project \in ProjectRecords
  BY DEF PlanInv, SerialInv, TypeOK
<1>2. CASE project' = project
  BY <1>2
<1>3. ASSUME NEW j \in Jobs, Provision(j)
      PROVE  project' = project
  <2>1. project.exists
    BY <1>3 DEF Provision, NewProject, NoProject
  <2> QED
    BY <1>3, <2>1 DEF Provision
<1>4. ASSUME NEW j \in Jobs, SetupNginx(j)
      PROVE  project' = project
  <2>1. project'.counter = project.counter
    BY <1>1, <1>4 DEF SetupNginx, ProjectRecords
  <2>2. project.port # NoPort
    BY <2>1 DEF PlanInv, PortsRecorded
  <2>3. ~jobs[j].fresh
    BY <1>4, <2>2 DEF SetupNginx, PlanInv, PlansHold, PlanHolds
  <2> QED
    BY <1>4, <2>3 DEF SetupNginx
<1>5. CASE SetLimit
  BY <1>1, <1>5 DEF SetLimit, ProjectRecords
<1>6. ~DeleteRow
  BY SMTT(40) DEF DeleteRow, NoProject
<1>7. ASSUME NEW j \in Jobs, Thread(j), ~SetupNginx(j)
      PROVE  project' = project
  BY <1>7 DEF Thread, RejectVhost, LaunchDeploy, LaunchRefused, Build, Remove, Run, Stop, Check,
     Verify, Cleanup, SwitchNginx, DemoteOthers, LockTimeout, Finish, Monitor
<1>8. ASSUME NEW j \in Jobs, Client(j), ~Provision(j)
      PROVE  project' = project
  BY <1>8 DEF Client, LaunchRollback, LaunchRestart, LaunchStop
<1>9. DeleteDocker \/ EnforceLimit \/ DeleteNginx \/ Abort \/ OrphanEnds \/ Crash
         \/ UNCHANGED vars => project' = project
  BY DEF DeleteDocker, EnforceLimit, DeleteNginx, Abort, OrphanEnds, Crash, vars
<1> QED
  BY <1>2, <1>3, <1>4, <1>5, <1>6, <1>7, <1>8, <1>9 DEF Next, Handler

\* A delete under way ends with the project and its rows, or with a crash.
LEMMA TeardownEnds ==
  ASSUME PlanInv, [Next]_vars, teardown' = NoTeardown, ~Crash
  PROVE  \/ teardown = NoTeardown
         \/ project'.counter = 0 /\ \A r \in Jobs : rows'[r].status = "absent"
<1>1. CASE DeleteRow
  BY SMTT(40), <1>1, DeletedRows DEF DeleteRow, NoProject, PlanInv
<1>2. ASSUME NEW j \in Jobs, Client(j) \/ Thread(j)
      PROVE  teardown' = teardown
  BY <1>2 DEF Client, Thread, Provision, LaunchRollback, LaunchRestart, LaunchStop, SetupNginx,
     RejectVhost, LaunchDeploy, LaunchRefused, Build, Remove, Run, Stop, Check, Verify, Cleanup,
     SwitchNginx, DemoteOthers, LockTimeout, Commit, Finish, Monitor, Requests
<1>3. SetLimit \/ EnforceLimit \/ Abort \/ OrphanEnds \/ UNCHANGED vars => teardown' = teardown
  BY DEF SetLimit, EnforceLimit, Abort, OrphanEnds, vars, Requests
<1>4. ~DeleteDocker
  BY DEF DeleteDocker, NoTeardown
<1>5. DeleteNginx => FALSE
  <2>1. teardown \in [step : {"none", "nginx", "row"}, doomed : SUBSET Jobs]
    BY DEF PlanInv, SerialInv, TypeOK
  <2>2. DeleteNginx => teardown'.step = "row"
    BY <2>1 DEF DeleteNginx
  <2> QED
    BY <2>2 DEF NoTeardown
<1> QED
  BY <1>1, <1>2, <1>3, <1>4, <1>5 DEF Next, Handler

\* A promote works on another version than the active one.
LEMMA OtherVersion ==
  ASSUME PlanInv, NEW j \in Jobs, Promoting(j)
  PROVE  /\ \A r \in Jobs : rows[r].status = "active" => rows[r].version # jobs[j].version
         /\ project.counter # 0 => project.version # jobs[j].version
<1>1. \A r \in Jobs : rows[r].status = "active" => rows[r].version # jobs[j].version
  <2>1. CASE jobs[j].kind = "deploy"
    BY <2>1, NewVersion DEF PlanInv, Promoting, Present
  <2>2. CASE jobs[j].kind = "rollback"
    BY <2>2 DEF PlanInv, PlansHold, PlanHolds, Promoting, SerialInv, VersionTiers, Tiers
  <2> QED
    BY <2>1, <2>2 DEF Promoting
<1> QED
  BY <1>1 DEF PlanInv, PortsRecorded

\* A promote does not touch the container it promotes.
LEMMA DemoteSpares ==
  ASSUME PlanInv, NEW j \in Jobs, DemoteOthers(j)
  PROVE  containers'[jobs[j].version] = containers[jobs[j].version]
<1> DEFINE t == Loaded(j)
           u == Shuffled(j)
           f == Final(j)
           gone == Moved(u, f, "archived", "absent")
           k == Promoted(j)
<1>1. /\ jobs[j].pc \in Loading /\ InFlight(j) /\ SerialInv
      /\ jobs[j].version \in Names
  BY DEF PlanInv, SerialInv, TypeOK, JobRecords, DemoteOthers, Loading, InFlight
<1>2. project.exists
  BY <1>1 DEF PlanInv, PortsRecorded
<1>3. containers' = ContainersAfter(t, u, gone)
  BY <1>2 DEF DemoteOthers
<1>4. /\ k \in Jobs /\ t[k].status = "active" /\ u[k].status = "active"
      /\ \A r \in Jobs \ {k} : t[r] = rows[r] /\ u[r].version = rows[r].version
      /\ \A r \in Jobs \ {k} : rows[r].status # "absent" => rows[r].version # jobs[j].version
      /\ \A r \in Jobs \ {k} : rows[r].status = "absent" => u[r].status = "absent"
  BY <1>1, LoadedRows, ShuffledRows
<1> HIDE DEF t, u, f, k
<1>5. /\ jobs[j].version \notin Moved(t, u, "inactive", "archived")
      /\ jobs[j].version \notin Moved(t, u, "active", "inactive")
      /\ jobs[j].version \notin gone
  BY <1>4 DEF Moved
<1> QED
  BY <1>1, <1>3, <1>5 DEF ContainersAfter

-----------------------------------------------------------------------------
(* The vhost, the rows and the containers                                   *)
(*                                                                          *)
(* SiteInv relates the four stores at every point of an operation: where    *)
(* the vhost points, what the active row's container is, what a promote     *)
(* can rely on of the container it promotes, and who has which port.        *)

\* Version n's container, if there is one, has port p and the build of row r's job.
Holds(n, p, r) ==
  containers[n].state # "absent" => containers[n].port = p /\ containers[n].build = r

\* The vhost has the project's port, and while a promote goes on the promoted one.
VhostFollows ==
  /\ project.port # NoPort /\ teardown = NoTeardown /\ (\A j \in Jobs : jobs[j].pc \notin Loading)
       => nginx = project.port
  /\ \A j \in Jobs : jobs[j].pc \in Loading => nginx = jobs[j].port

ActiveHolds ==
  teardown = NoTeardown => \A r \in Jobs : rows[r].status = "active" =>
    Holds(rows[r].version, rows[r].port, r)

\* Job j has started the container that it is to promote.
Standing(j) ==
  /\ Promoting(j)
  /\ \/ jobs[j].pc \in {"verify", "promote"} \cup Loading
     \/ jobs[j].pc = "exited" /\ jobs[j].outcome = "ok"

\* It holds the build of the job's row and its port, and once verified it runs.
JobSite(j) ==
  /\ Standing(j) => Holds(jobs[j].version, jobs[j].port, jobs[j].row)
  /\ jobs[j].pc \in {"promote"} \cup Loading => containers[jobs[j].version].state = "running"

PortsApart ==
  \A m, n \in Names : m # n /\ Up(m) /\ Up(n) => containers[m].port # containers[n].port

\* Only the active version's container serves the project's port.
OneServes ==
  teardown = NoTeardown /\ project.counter # 0 => \A m \in Names :
    Up(m) /\ containers[m].port = project.port => m = project.version

SiteInv ==
  VhostFollows /\ ActiveHolds /\ (\A j \in Jobs : JobSite(j)) /\ PortsApart /\ OneServes

\* A request launches its job while nothing goes on.
LEMMA ClientStarts ==
  ASSUME SerialInv, Overlap = {}, NEW j \in Jobs, Client(j)
  PROVE  /\ \A i \in Jobs : jobs[i].pc \in {"unused", "over"}
         /\ \A i \in Jobs \ {j} : jobs'[i] = jobs[i]
         /\ jobs'[j].pc \in {"nginx", "remove", "run", "stopping"}
         /\ jobs'[j].pc = "run" => jobs'[j].kind = "restart"
         /\ UNCHANGED <<nginx, teardown>> /\ teardown = NoTeardown
<1>1. /\ jobs \in [Jobs -> JobRecords] /\ Idle /\ UNCHANGED <<nginx, teardown>>
  BY DEF SerialInv, TypeOK, Client, Provision, LaunchRollback, LaunchRestart, LaunchStop,
     Admits, Requests
<1>2. CASE Provision(j)
  BY <1>1, <1>2 DEF Provision, Unused, Idle, InFlight
<1>3. CASE LaunchRollback(j)
  BY <1>1, <1>3 DEF LaunchRollback, Unused, Idle, InFlight
<1>4. CASE LaunchRestart(j)
  BY <1>1, <1>4 DEF LaunchRestart, Unused, Idle, InFlight
<1>5. CASE LaunchStop(j)
  BY <1>1, <1>5 DEF LaunchStop, Unused, Idle, InFlight
<1> QED
  BY <1>2, <1>3, <1>4, <1>5 DEF Client

\* A thread goes on while no other does, and no delete.
LEMMA ThreadAlone ==
  ASSUME SerialInv, NEW j \in Jobs, Thread(j)
  PROVE  /\ InFlight(j) /\ teardown = NoTeardown /\ teardown' = teardown
         /\ \A i \in Jobs \ {j} :
              /\ jobs[i].pc \in {"unused", "over"}
              /\ jobs'[i] = jobs[i] /\ jobs'[i].pc \in {"unused", "over"}
<1>1. InFlight(j) /\ teardown' = teardown
  BY DEF Thread, SetupNginx, RejectVhost, LaunchDeploy, LaunchRefused, Build, Remove, Run, Stop,
     Check, Verify, Cleanup, SwitchNginx, DemoteOthers, LockTimeout, Commit, Finish, Monitor,
     Requests, InFlight
<1>2. jobs \in [Jobs -> JobRecords]
  BY DEF SerialInv, TypeOK
<1>3. \A i \in Jobs \ {j} : jobs'[i] = jobs[i]
  <2>1. CASE SetupNginx(j) \/ RejectVhost(j) \/ LaunchDeploy(j) \/ LaunchRefused(j)
    BY <1>2, <2>1 DEF SetupNginx, RejectVhost, LaunchDeploy, LaunchRefused
  <2>2. CASE Build(j) \/ Remove(j) \/ Run(j) \/ Stop(j) \/ Check(j) \/ Verify(j) \/ Cleanup(j)
    BY <1>2, <2>2 DEF Build, Remove, Run, Stop, Check, Verify, Cleanup
  <2>3. CASE SwitchNginx(j) \/ DemoteOthers(j) \/ LockTimeout(j) \/ Commit(j)
    BY <1>2, <2>3 DEF SwitchNginx, DemoteOthers, LockTimeout, Commit, PromoteFails
  <2>4. CASE Finish(j) \/ Monitor(j)
    BY <1>2, <2>4 DEF Finish, Monitor, Over
  <2> QED
    BY <2>1, <2>2, <2>3, <2>4 DEF Thread
<1> QED
  BY SMTT(40), <1>1, <1>3 DEF SerialInv, OneOperation, InFlight

\* The last step of setup_nginx leaves the vhost and the project with one port.
LEMMA SetupPort ==
  ASSUME PlanInv, NEW j \in Jobs, SetupNginx(j)
  PROVE  project'.port = nginx' /\ jobs'[j].pc = "launch"
<1>1. /\ project \in ProjectRecords /\ project.exists /\ PlanHolds(j) /\ jobs[j].pc = "nginx"
      /\ jobs \in [Jobs -> JobRecords]
  BY DEF PlanInv, SerialInv, TypeOK, PlansHold, PortsRecorded, SetupNginx, InFlight
<1>2. project'.port = jobs[j].port
  BY <1>1 DEF SetupNginx, PlanHolds, ProjectRecords
<1> QED
  BY <1>1, <1>2 DEF SetupNginx, Unused

\* A step that touches neither the vhost nor the project's port and neither starts
\* nor ends a switch.
LEMMA VhostRests ==
  ASSUME VhostFollows, nginx' = nginx, project'.port = project.port,
         teardown' = NoTeardown => teardown = NoTeardown,
         \A j \in Jobs : jobs[j].pc \notin Loading /\ jobs'[j].pc \notin Loading
  PROVE  VhostFollows'
BY DEF VhostFollows

LEMMA VhostThread ==
  ASSUME PlanInv, VhostFollows, "lock" \notin Faults, "vhost" \notin Faults,
         NEW j \in Jobs, Thread(j), PlanInv'
  PROVE  VhostFollows'
<1>1. /\ jobs \in [Jobs -> JobRecords] /\ InFlight(j)
      /\ teardown = NoTeardown /\ teardown' = teardown
      /\ \A i \in Jobs \ {j} : jobs[i].pc \in {"unused", "over"} /\ jobs'[i].pc \in {"unused", "over"}
  BY ThreadAlone DEF PlanInv, SerialInv, TypeOK
<1>2. \A i \in Jobs \ {j} : jobs[i].pc \notin Loading /\ jobs'[i].pc \notin Loading
  BY <1>1 DEF Loading
<1>3. CASE SetupNginx(j)
  BY <1>2, <1>3, SetupPort DEF VhostFollows, Loading
<1>4. CASE SwitchNginx(j)
  <2>1. /\ jobs[j].pc = "promote" /\ Promoting(j) /\ jobs[j].port # NoPort
        /\ project' = project /\ Advances(j)
    BY <1>4, SwitchMoves, JobAdvances
  <2>2. project.port # NoPort => nginx = project.port
    BY <1>1, <1>2, <2>1 DEF VhostFollows, Loading
  <2>3. CASE jobs'[j].pc = "finish" /\ nginx' = nginx
    BY <1>2, <2>1, <2>2, <2>3 DEF VhostFollows, Loading
  <2>4. CASE /\ jobs'[j].pc = "demote"
             /\ nginx' = IF jobs[j].kind = "rollback" \/ jobs[j].fresh THEN jobs[j].port ELSE nginx
    <3>1. PlanHolds(j)
      BY DEF PlanInv, PlansHold
    <3>2. ~(jobs[j].kind = "rollback" \/ jobs[j].fresh) => jobs[j].port = project.port
      BY <2>1, <3>1 DEF PlanHolds, Promoting
    <3>3. nginx' = jobs'[j].port
      BY <2>1, <2>2, <2>4, <3>2 DEF Advances
    <3> QED
      BY <1>2, <2>4, <3>3 DEF VhostFollows, Loading
  <2> QED
    BY <1>4, <2>3, <2>4, SwitchMoves
<1>5. CASE DemoteOthers(j)
  <2>1. project.exists
    BY <1>1 DEF PlanInv, PortsRecorded
  <2>2. /\ nginx' = nginx /\ jobs[j].pc = "demote" /\ Advances(j)
        /\ jobs' = [jobs EXCEPT ![j].pc = "commit"]
    BY <1>5, <2>1, JobAdvances DEF DemoteOthers
  <2>3. jobs'[j].pc = "commit" /\ jobs'[j].port = jobs[j].port
    BY <1>1, <2>2 DEF Advances
  <2> QED
    BY <1>2, <2>2, <2>3 DEF VhostFollows, Loading
<1>6. CASE LockTimeout(j)
  <2>1. Unlocked
    BY <1>1, <1>6 DEF LockTimeout, Unlocked
  <2> QED
    BY <1>6, <2>1 DEF LockTimeout
<1>7. CASE Commit(j)
  <2>1. project'.port = jobs[j].port /\ nginx' = nginx /\ jobs[j].pc = "commit"
    BY <1>7, CommitPlan DEF PlanInv, Commit
  <2>2. jobs'[j].pc = "finish"
    BY <1>1, <1>7 DEF Commit, PromoteFails, JobRecords
  <2> QED
    BY <1>2, <2>1, <2>2 DEF VhostFollows, Loading
<1>8. CASE ~( \/ SetupNginx(j) \/ SwitchNginx(j) \/ DemoteOthers(j) \/ LockTimeout(j)
              \/ Commit(j))
  <2>1. /\ nginx' = nginx /\ project' = project
        /\ jobs[j].pc \notin Loading
    BY <1>8 DEF Thread, RejectVhost, LaunchDeploy, LaunchRefused, Build, Remove, Run, Stop, Check,
       Verify, Cleanup, Finish, Monitor, Loading
  <2>2. jobs'[j].pc \notin Loading
    <3>1. CASE LaunchDeploy(j)
      BY <1>1, <3>1 DEF LaunchDeploy, Unused, Loading
    <3>2. CASE LaunchRefused(j)
      BY <1>1, <3>2 DEF LaunchRefused, JobRecords, Loading
    <3>3. CASE Build(j)
      BY <1>1, <3>3 DEF Build, JobRecords, Loading
    <3>4. CASE Remove(j) \/ Stop(j) \/ Check(j) \/ Verify(j) \/ Cleanup(j)
      BY <1>1, <3>4 DEF Remove, Stop, Check, Verify, Cleanup, JobRecords, Loading
    <3>5. CASE Run(j)
      BY <1>1, <3>5 DEF Run, JobRecords, Loading
    <3>6. CASE Finish(j) \/ Monitor(j)
      BY ZenonT(60), <1>1, <3>6 DEF Finish, Monitor, Over, Unused, Loading
    <3>7. CASE RejectVhost(j)
      BY <3>7 DEF RejectVhost
    <3> QED
      BY <1>8, <3>1, <3>2, <3>3, <3>4, <3>5, <3>6, <3>7 DEF Thread
  <2> QED
    BY <1>1, <1>2, <2>1, <2>2, VhostRests
<1> QED
  BY <1>3, <1>4, <1>5, <1>6, <1>7, <1>8

LEMMA VhostStep ==
  ASSUME PlanInv, PlanInv', VhostFollows, Overlap = {}, orphans = {}, "lock" \notin Faults,
         "vhost" \notin Faults, "crash" \notin Faults, [Next]_vars
  PROVE  VhostFollows'
<1>1. project \in ProjectRecords /\ teardown \in [step : {"none", "nginx", "row"}, doomed : SUBSET Jobs]
  BY DEF PlanInv, SerialInv, TypeOK
<1>2. ASSUME NEW j \in Jobs, Client(j)
      PROVE  VhostFollows'
  <2>1. /\ \A i \in Jobs : jobs[i].pc \in {"unused", "over"}
        /\ \A i \in Jobs \ {j} : jobs'[i] = jobs[i]
        /\ jobs'[j].pc \in {"nginx", "remove", "run", "stopping"}
        /\ nginx' = nginx /\ teardown' = teardown
    BY <1>2, ClientStarts DEF PlanInv
  <2>2. project'.port = project.port
    BY <1>2 DEF Client, Provision, LaunchRollback, LaunchRestart, LaunchStop, PlanInv, PortsRecorded,
       NewProject, NoProject
  <2>3. \A i \in Jobs : jobs[i].pc \notin Loading /\ jobs'[i].pc \notin Loading
    BY <2>1 DEF Loading
  <2> QED
    BY <2>1, <2>2, <2>3, VhostRests
<1>3. CASE SetLimit \/ EnforceLimit \/ DeleteDocker \/ DeleteNginx \/ DeleteRow
  <2>1. \A j \in Jobs : jobs[j].pc \in {"unused", "over"} /\ jobs'[j].pc \in {"unused", "over"}
    BY <1>3, HandlersRest DEF PlanInv
  <2>2. \A j \in Jobs : jobs[j].pc \notin Loading /\ jobs'[j].pc \notin Loading
    BY <2>1 DEF Loading
  <2>3. CASE SetLimit \/ EnforceLimit
    <3>1. nginx' = nginx /\ teardown' = teardown /\ project'.port = project.port
      BY <1>1, <2>3 DEF SetLimit, EnforceLimit, ProjectRecords
    <3> QED
      BY <2>2, <3>1, VhostRests
  <2>4. CASE DeleteDocker \/ DeleteNginx
    <3>1. teardown'.step # "none"
      BY <1>1, <2>4 DEF DeleteDocker, DeleteNginx
    <3> QED
      BY <2>2, <3>1 DEF VhostFollows, NoTeardown
  <2>5. CASE DeleteRow
    BY <2>2, <2>5 DEF DeleteRow, NoProject, VhostFollows
  <2> QED
    BY <1>3, <2>3, <2>4, <2>5
<1>4. CASE Abort
  <2>1. UNCHANGED <<project, nginx, teardown>>
    BY <1>4, AbortMoves
  <2>2. CASE jobs' = jobs
    BY <2>1, <2>2 DEF VhostFollows
  <2>3. CASE jobs' # jobs
    <3>1. PICK j \in Jobs : Advances(j) /\ jobs[j].pc \in Alive /\ jobs'[j].pc = "exited"
      BY <1>4, <2>3, AbortMoves
    <3>2. \A i \in Jobs \ {j} :
            jobs[i].pc \in {"unused", "over"} /\ jobs'[i].pc \in {"unused", "over"}
      BY <3>1, OthersRest DEF PlanInv, Advances, InFlight, Alive
    <3>3. \A i \in Jobs : jobs[i].pc \notin Loading /\ jobs'[i].pc \notin Loading
      BY <3>1, <3>2 DEF Loading, Alive
    <3> QED
      BY <2>1, <3>3, VhostRests
  <2> QED
    BY <2>2, <2>3
<1>5. CASE UNCHANGED vars
  BY <1>5 DEF vars, VhostFollows
<1>6. ~OrphanEnds /\ ~Crash
  BY DEF OrphanEnds, Crash
<1> QED
  BY <1>2, <1>3, <1>4, <1>5, <1>6, VhostThread DEF Next, Handler

\* A promote starts its container on the image that its row's deploy built.
LEMMA RunBuild ==
  ASSUME PlanInv, ImageInv, NEW j \in Jobs, Run(j), Promoting(j)
  PROVE  images[jobs[j].version] = jobs[j].row
<1>1. jobs[j].pc = "run" /\ PlanHolds(j)
  BY DEF Run, PlanInv, PlansHold
<1>2. teardown = NoTeardown /\ Unlocked
  BY <1>1 DEF PlanInv, SerialInv, OneOperation, InFlight, Unlocked
<1>3. CASE jobs[j].kind = "deploy"
  BY <1>1, <1>3 DEF PlanHolds, ImageInv, OwnImages, Built
<1>4. CASE jobs[j].kind = "rollback"
  BY <1>1, <1>2, <1>4 DEF PlanHolds, Present, ImageInv, RecordedImages
<1> QED
  BY <1>3, <1>4 DEF Promoting

\* docker run starts a container on a port of its own, or a restart the active one.
LEMMA RunFor ==
  ASSUME PlanInv, NEW j \in Jobs, Run(j)
  PROVE  \/ /\ Promoting(j) /\ (project.counter # 0 => jobs[j].port # project.port)
            /\ \A r \in Jobs : rows[r].status = "active" => rows[r].version # jobs[j].version
         \/ /\ jobs[j].version = project.version /\ jobs[j].port = project.port
            /\ \A r \in Jobs : rows[r].status = "active" => rows[r].port = project.port
<1>1. /\ jobs[j].pc = "run" /\ PlaceHolds(j) /\ PlanHolds(j)
  BY DEF Run, PlanInv, PlansHold
<1>2. CASE jobs[j].kind \in {"deploy", "rollback"}
  <2>1. Promoting(j)
    BY <1>1, <1>2 DEF Promoting, Deploying
  <2> QED
    BY <1>1, <2>1, OtherVersion DEF PlanHolds
<1>3. CASE jobs[j].kind = "restart"
  <2>1. jobs[j].version = project.version /\ jobs[j].port = project.port
    BY <1>1, <1>3 DEF PlanHolds
  <2>2. ASSUME NEW r \in Jobs, rows[r].status = "active"
        PROVE  rows[r].port = project.port
    <3>1. project.counter # 0
      BY <2>2, NothingRecorded
    <3>2. PICK q \in Jobs : rows[q].status = "active" /\ rows[q].port = project.port
      BY <3>1 DEF PlanInv, PortsRecorded
    <3>3. q = r
      BY <2>2, <3>2 DEF PlanInv, SerialInv, VersionTiers, Tiers
    <3> QED
      BY <3>2, <3>3
  <2> QED
    BY <2>1, <2>2
<1> QED
  BY <1>1, <1>2, <1>3 DEF PlaceHolds

LEMMA ActiveStep ==
  ASSUME PlanInv, PlanInv', ImageInv, SiteInv, Overlap = {}, "crash" \notin Faults, [Next]_vars
  PROVE  ActiveHolds'
<1> SUFFICES ASSUME teardown' = NoTeardown, NEW r \in Jobs, rows'[r].status = "active"
             PROVE  Holds(rows[r].version, rows[r].port, r)'
  BY DEF ActiveHolds
<1>1. /\ \A q \in Jobs : rows[q].version \in Names
      /\ \A q \in Jobs : rows'[q].version \in Names
      /\ TypeOK /\ ~OrphanEnds
  BY DEF PlanInv, SerialInv, TypeOK, RowTables, RowRecords, ImageInv, OrphanEnds
<1>2. ASSUME NEW j \in Jobs, Commit(j)
      PROVE  Holds(rows[r].version, rows[r].port, r)'
  <2>1. /\ jobs[j].pc = "commit" /\ jobs[j].pc \in Loading /\ containers' = containers
        /\ SerialInv
    BY <1>2 DEF Commit, Docker, Loading, PlanInv
  <2>2. rows' = Final(j)
    BY <1>2, <2>1, CommitWrites, NoRowLost
  <2>3. r = Promoted(j) /\ rows'[r].version = jobs[j].version /\ rows'[r].port = jobs[j].port
    BY <2>1, <2>2, FinalRows
  <2>4. Promoting(j) /\ PlanHolds(j)
    BY <2>1 DEF SerialInv, CapturesHold, CaptureHolds, Promoting, Deploying, PlanInv, PlansHold
  <2>5. jobs[j].row = Promoted(j)
    BY <2>4 DEF Promoted, PlanHolds
  <2>6. Holds(jobs[j].version, jobs[j].port, jobs[j].row)
    BY <2>1, <2>4 DEF SiteInv, JobSite, Standing
  <2> QED
    BY <2>1, <2>3, <2>5, <2>6 DEF Holds
<1>3. ASSUME \A j \in Jobs : ~Commit(j)
      PROVE  /\ rows'[r] = rows[r]
             /\ Holds(rows[r].version, rows[r].port, r)
  <2>1. rows'[r] = rows[r]
    BY <1>3, LiveRowsStay
  <2>2. teardown = NoTeardown
    BY <2>1, TeardownEnds DEF Crash
  <2> QED
    BY <2>1, <2>2 DEF SiteInv, ActiveHolds
<1>4. ASSUME NEW j \in Jobs, Run(j)
      PROVE  Holds(rows[r].version, rows[r].port, r)'
  <2>1. \A i \in Jobs : ~Commit(i)
    BY <1>4 DEF Run, Commit, PlanInv, SerialInv, OneOperation, InFlight
  <2>2. rows'[r] = rows[r] /\ Holds(rows[r].version, rows[r].port, r)
    BY <1>3, <2>1
  <2>3. CASE containers'[rows[r].version] = containers[rows[r].version]
    BY <2>2, <2>3 DEF Holds
  <2>4. CASE containers'[rows[r].version] # containers[rows[r].version]
    <3>1. /\ rows[r].version = jobs[j].version
          /\ containers'[rows[r].version].port = jobs[j].port
          /\ containers'[rows[r].version].build = images[jobs[j].version]
      BY <1>1, <1>4, <2>4, RunStarts
    <3>2. jobs[j].port = rows[r].port
      BY <1>4, <2>2, <3>1, RunFor
    <3>3. images[rows[r].version] = r
      <4>1. teardown = NoTeardown /\ Unlocked
        BY <1>4 DEF Run, PlanInv, SerialInv, OneOperation, InFlight, Unlocked
      <4> QED
        BY <2>2, <4>1 DEF ImageInv, RecordedImages, Present
    <3> QED
      BY <2>2, <3>1, <3>2, <3>3 DEF Holds
  <2> QED
    BY <2>3, <2>4
<1>5. CASE \A j \in Jobs : ~Commit(j) /\ ~Run(j)
  <2>1. rows'[r] = rows[r] /\ Holds(rows[r].version, rows[r].port, r)
    BY <1>3, <1>5
  <2>2. Fallen(rows[r].version)
    BY <1>1, <1>5, ContainersFall
  <2> QED
    BY <2>1, <2>2 DEF Holds, Fallen
<1> QED
  BY <1>2, <1>4, <1>5

LEMMA PortsApartStep ==
  ASSUME PlanInv, ImageInv, PortsApart, [Next]_vars
  PROVE  PortsApart'
<1>1. TypeOK /\ ~OrphanEnds
  BY DEF PlanInv, SerialInv, ImageInv, OrphanEnds
<1>2. CASE \A j \in Jobs : ~Run(j)
  <2>1. \A n \in Names : Fallen(n)
    BY <1>1, <1>2, ContainersFall
  <2> QED
    BY <2>1 DEF PortsApart, Fallen, Up
<1>3. ASSUME NEW j \in Jobs, Run(j)
      PROVE  PortsApart'
  <2>1. /\ jobs[j].version \in Names
        /\ \A n \in Names \ {jobs[j].version} : containers'[n] = containers[n]
    BY <1>1, <1>3, RunStarts
  <2>2. \/ containers'[jobs[j].version] = containers[jobs[j].version]
        \/ /\ containers'[jobs[j].version].port = jobs[j].port
           /\ containers'[jobs[j].version].state \in {"running", "restarting"} =>
                ~Bound(jobs[j].port, jobs[j].version)
    BY <1>1, <1>3, RunStarts DEF RunSucceeds
  <2> DEFINE v == jobs[j].version
             p == jobs[j].port
  <2> HIDE DEF v, p
  <2>3. \/ containers'[v] = containers[v]
        \/ /\ containers'[v].port = p
           /\ containers'[v].state \in {"running", "restarting"} => ~Bound(p, v)
    BY <2>2 DEF v, p
  <2>4. v \in Names /\ \A n \in Names \ {v} : containers'[n] = containers[n]
    BY <2>1 DEF v
  <2>5. CASE containers'[v] = containers[v]
    BY <2>4, <2>5 DEF PortsApart, Up
  <2>6. CASE /\ containers'[v].port = p
             /\ containers'[v].state \in {"running", "restarting"} => ~Bound(p, v)
    BY <2>4, <2>6 DEF PortsApart, Up, Bound
  <2> QED
    BY <2>3, <2>5, <2>6
<1> QED
  BY <1>2, <1>3

LEMMA OneServesStep ==
  ASSUME PlanInv, PlanInv', ImageInv, SiteInv, "crash" \notin Faults, [Next]_vars
  PROVE  OneServes'
<1> SUFFICES ASSUME teardown' = NoTeardown, project'.counter # 0, NEW m \in Names,
                    Up(m)', containers'[m].port = project'.port
             PROVE  m = project'.version
  BY DEF OneServes
<1>1. TypeOK /\ ~OrphanEnds
  BY DEF PlanInv, SerialInv, ImageInv, OrphanEnds
<1>2. ASSUME NEW j \in Jobs, Commit(j)
      PROVE  m = project'.version
  <2>1. /\ jobs[j].pc = "commit" /\ jobs[j].pc \in Loading /\ containers' = containers
        /\ jobs[j].version \in Names
    BY <1>1, <1>2 DEF Commit, Docker, Loading, TypeOK, JobRecords
  <2>2. project'.port = jobs[j].port /\ project'.version = jobs[j].version
    BY <1>2, CommitPlan DEF PlanInv
  <2>3. Promoting(j)
    BY <2>1 DEF PlanInv, SerialInv, CapturesHold, CaptureHolds, Promoting, Deploying
  <2>4. /\ containers[jobs[j].version].state = "running"
        /\ containers[jobs[j].version].port = jobs[j].port
    BY <2>1, <2>3 DEF SiteInv, JobSite, Standing, Holds, Loading
  <2>5. Up(m) /\ containers[m].port = jobs[j].port /\ Up(jobs[j].version)
    BY <2>1, <2>2, <2>4 DEF Up
  <2> QED
    BY <2>1, <2>2, <2>4, <2>5 DEF SiteInv, PortsApart
<1>3. ASSUME \A j \in Jobs : ~Commit(j)
      PROVE  /\ project'.port = project.port /\ project'.version = project.version
             /\ project.counter # 0
             /\ Up(m) /\ containers[m].port = project.port => m = project.version
  <2>1. /\ project'.port = project.port /\ project'.version = project.version
        /\ project'.counter = project.counter
    BY <1>3, ProjectStays
  <2>2. teardown = NoTeardown
    BY TeardownEnds DEF Crash
  <2> QED
    BY <2>1, <2>2 DEF SiteInv, OneServes
<1>4. ASSUME NEW j \in Jobs, Run(j)
      PROVE  m = project'.version
  <2>1. \A i \in Jobs : ~Commit(i)
    BY <1>4 DEF Run, Commit, PlanInv, SerialInv, OneOperation, InFlight
  <2>2. /\ project'.port = project.port /\ project'.version = project.version
        /\ project.counter # 0
        /\ Up(m) /\ containers[m].port = project.port => m = project.version
    BY <1>3, <2>1
  <2>3. CASE containers'[m] = containers[m]
    BY <2>2, <2>3 DEF Up
  <2>4. CASE containers'[m] # containers[m]
    <3>1. m = jobs[j].version /\ containers'[m].port = jobs[j].port
      BY <1>1, <1>4, <2>4, RunStarts
    <3>2. jobs[j].port # project.port \/ jobs[j].version = project.version
      BY <1>4, <2>2, RunFor
    <3> QED
      BY <2>2, <3>1, <3>2
  <2> QED
    BY <2>3, <2>4
<1>5. CASE \A j \in Jobs : ~Commit(j) /\ ~Run(j)
  <2>1. Fallen(m)
    BY <1>1, <1>5, ContainersFall
  <2> QED
    BY <1>3, <1>5, <2>1 DEF Fallen, Up
<1> QED
  BY <1>2, <1>4, <1>5

\* What a job has captured of the version it deploys or rolls back to stays, and so
\* does its container once it is started.
Stands(j) ==
  /\ jobs'[j].version = jobs[j].version /\ jobs'[j].port = jobs[j].port
  /\ jobs'[j].row = jobs[j].row
  /\ \/ /\ Standing(j) /\ containers'[jobs[j].version] = containers[jobs[j].version]
        /\ jobs'[j].pc \in {"promote"} \cup Loading =>
             \/ jobs[j].pc \in {"promote"} \cup Loading
             \/ containers[jobs[j].version].state = "running"
     \/ /\ Run(j) /\ Promoting(j) /\ RunSucceeds(jobs[j].version, jobs[j].port)
        /\ jobs'[j].pc = "exited"

LEMMA StandsChecked ==
  ASSUME PlanInv, NEW j \in Jobs, Standing(j)', Check(j) \/ Verify(j)
  PROVE  Stands(j)
<1>1. /\ jobs \in [Jobs -> JobRecords] /\ Advances(j) /\ PlaceHolds(j) /\ containers' = containers
  BY JobAdvances DEF PlanInv, SerialInv, TypeOK, PlansHold, Check, Verify, Docker
<1>2. CASE Check(j)
  <2>1. jobs'[j].pc \in {"cleanup", "verify"}
    BY <1>1, <1>2 DEF Check, JobRecords
  <2>2. jobs'[j].pc = "verify"
    BY <2>1 DEF Standing, Loading
  <2>3. jobs[j].pc = "exited" /\ jobs[j].kind \in {"deploy", "rollback"} /\ jobs[j].outcome # "failed"
    BY <1>1, <1>2, <2>2 DEF Check, JobRecords
  <2>4. Standing(j)
    BY <1>1, <2>3 DEF PlaceHolds, Standing, Promoting, Deploying
  <2> QED
    BY <1>1, <2>2, <2>4 DEF Stands, Advances, Loading
<1>3. CASE Verify(j)
  <2>1. /\ jobs[j].pc = "verify"
        /\ jobs'[j].pc = "promote" => containers[jobs[j].version].state = "running"
        /\ jobs'[j].pc \in {"cleanup", "promote"}
    BY <1>1, <1>3 DEF Verify, JobRecords
  <2>2. jobs'[j].pc = "promote" /\ Promoting(j)
    BY <1>1, <2>1 DEF Standing, Promoting, Loading, Advances
  <2> QED
    BY <1>1, <2>1, <2>2 DEF Stands, Standing, Advances
<1> QED
  BY <1>2, <1>3

LEMMA StandsPromoted ==
  ASSUME PlanInv, NEW j \in Jobs, Standing(j)', SwitchNginx(j) \/ DemoteOthers(j)
  PROVE  Stands(j)
<1>1. Advances(j) /\ jobs[j].pc \in {"promote"} \cup Loading
  BY JobAdvances DEF SwitchNginx, DemoteOthers, Loading
<1>2. containers'[jobs[j].version] = containers[jobs[j].version]
  <2>1. CASE DemoteOthers(j)
    BY <2>1, DemoteSpares
  <2>2. CASE SwitchNginx(j)
    BY <2>2, SwitchMoves
  <2> QED
    BY <2>1, <2>2
<1>3. Promoting(j)
  BY <1>1 DEF PlanInv, SerialInv, CapturesHold, CaptureHolds, Promoting, Deploying, Loading
<1>4. Standing(j)
  BY <1>1, <1>3 DEF Standing
<1> QED
  BY <1>1, <1>2, <1>4 DEF Stands, Advances

LEMMA StandsThread ==
  ASSUME PlanInv, NEW j \in Jobs, Thread(j), Standing(j)'
  PROVE  Stands(j)
<1>1. /\ jobs \in [Jobs -> JobRecords] /\ PlaceHolds(j)
  BY DEF PlanInv, SerialInv, TypeOK, PlansHold
<1>2. /\ jobs'[j].kind \in {"deploy", "rollback"} /\ jobs'[j].pc \notin {"launch", "over", "build"}
      /\ jobs'[j].pc \notin {"remove", "run", "cleanup", "finish"}
      /\ jobs'[j].pc = "exited" => jobs'[j].outcome = "ok"
  BY DEF Standing, Promoting, Loading
<1>3. ~(SetupNginx(j) \/ RejectVhost(j) \/ LaunchDeploy(j) \/ LaunchRefused(j))
  <2>1. ~SetupNginx(j)
    <3>1. SetupNginx(j) => jobs'[j].pc \in {"launch", "over"}
      BY <1>1 DEF SetupNginx, Unused
    <3> QED
      BY <1>2, <3>1
  <2>2. ~RejectVhost(j)
    BY <1>1, <1>2 DEF RejectVhost, Unused
  <2>3. ~LaunchDeploy(j)
    <3>1. ASSUME LaunchDeploy(j)
          PROVE  jobs'[j].pc = "build"
      <4>1. PICK v, p, f : jobs'[j] = [Unused EXCEPT !.kind = "deploy", !.pc = "build",
                          !.version = v, !.port = p, !.fresh = f, !.row = j]
        BY <1>1, <3>1 DEF LaunchDeploy
      <4> QED
        BY <4>1 DEF Unused
    <3> QED
      BY <1>2, <3>1
  <2>4. ~LaunchRefused(j)
    BY <1>1, <1>2 DEF LaunchRefused, JobRecords
  <2> QED
    BY <2>1, <2>2, <2>3, <2>4
<1>4. ~(Build(j) \/ Remove(j) \/ Stop(j) \/ Cleanup(j))
  <2>1. ~Build(j)
    BY <1>1, <1>2 DEF Build, JobRecords
  <2>2. ~Remove(j)
    BY <1>1, <1>2 DEF Remove, JobRecords
  <2>3. ~Stop(j)
    BY <1>1, <1>2 DEF Stop, JobRecords, PlaceHolds
  <2>4. ~Cleanup(j)
    BY <1>1, <1>2 DEF Cleanup, JobRecords
  <2> QED
    BY <2>1, <2>2, <2>3, <2>4
<1>5. ~(LockTimeout(j) \/ Commit(j) \/ Finish(j) \/ Monitor(j))
  <2>1. ~LockTimeout(j) /\ ~Commit(j)
    BY <1>1, <1>2 DEF LockTimeout, Commit, PromoteFails, JobRecords
  <2>2. ~Finish(j) /\ ~Monitor(j)
    BY <1>1, <1>2 DEF Finish, Monitor, Over, Unused
  <2> QED
    BY <2>1, <2>2
<1>6. CASE Run(j)
  <2>1. /\ Advances(j) /\ jobs[j].pc = "run"
        /\ jobs' = [jobs EXCEPT ![j].pc = "exited",
             ![j].outcome = IF RunSucceeds(jobs[j].version, jobs[j].port) THEN "ok" ELSE "failed"]
    BY <1>6, JobAdvances DEF Run
  <2>2. /\ jobs'[j].pc = "exited"
        /\ jobs'[j].outcome = IF RunSucceeds(jobs[j].version, jobs[j].port) THEN "ok" ELSE "failed"
    BY <1>1, <2>1 DEF JobRecords
  <2>3. RunSucceeds(jobs[j].version, jobs[j].port)
    BY <1>2, <2>2
  <2>4. Promoting(j)
    BY <1>2, <2>1 DEF Promoting, Deploying, Advances
  <2> QED
    BY <1>6, <2>1, <2>2, <2>3, <2>4 DEF Stands, Advances
<1> QED
  BY <1>3, <1>4, <1>5, <1>6, StandsChecked, StandsPromoted DEF Thread

LEMMA StandingStep ==
  ASSUME PlanInv, Overlap = {}, ~OrphanEnds, [Next]_vars, NEW j \in Jobs, Standing(j)'
  PROVE  Stands(j)
<1>1. /\ jobs'[j].kind \in {"deploy", "rollback"}
      /\ jobs'[j].pc \notin {"unused", "over", "nginx", "remove", "run", "stopping"}
      /\ jobs'[j].pc = "exited" => jobs'[j].outcome = "ok"
  BY DEF Standing, Promoting, Loading
<1>2. ASSUME NEW i \in Jobs, Client(i)
      PROVE  FALSE
  <2>1. /\ \A k \in Jobs : jobs[k].pc \in {"unused", "over"}
        /\ \A k \in Jobs \ {i} : jobs'[k] = jobs[k]
        /\ jobs'[i].pc \in {"nginx", "remove", "run", "stopping"}
    BY <1>2, ClientStarts DEF PlanInv
  <2> QED
    BY <1>1, <2>1
<1>3. ASSUME NEW i \in Jobs, Thread(i)
      PROVE  Stands(j)
  <2>1. CASE i = j
    BY <1>3, <2>1, StandsThread
  <2>2. CASE i # j
    <3>1. jobs'[j].pc \in {"unused", "over"}
      BY <1>3, <2>2, ThreadAlone DEF PlanInv
    <3> QED
      BY <1>1, <3>1
  <2> QED
    BY <2>1, <2>2
<1>4. ~(SetLimit \/ EnforceLimit \/ DeleteDocker \/ DeleteNginx \/ DeleteRow)
  <2> SUFFICES ASSUME SetLimit \/ EnforceLimit \/ DeleteDocker \/ DeleteNginx \/ DeleteRow
               PROVE  FALSE
    OBVIOUS
  <2>1. jobs'[j].pc \in {"unused", "over"}
    BY HandlersRest DEF PlanInv
  <2> QED
    BY <1>1, <2>1
<1>5. ASSUME jobs'[j] = jobs[j], containers' = containers
      PROVE  Stands(j)
  BY <1>5 DEF Standing, Promoting, Stands
<1>6. CASE Abort
  <2>1. containers' = containers
    BY <1>6, AbortMoves
  <2>2. CASE jobs'[j] # jobs[j]
    <3>1. PICK i \in Jobs : Advances(i) /\ jobs'[i].pc = "exited" /\ jobs'[i].outcome = "failed"
      BY <1>6, <2>2, AbortMoves
    <3>2. i = j
      BY <2>2, <3>1 DEF Advances
    <3> QED
      BY <1>1, <3>1, <3>2
  <2> QED
    BY <1>5, <2>1, <2>2
<1>7. CASE UNCHANGED vars
  BY <1>5, <1>7 DEF vars
<1>8. ~Crash
  <2> SUFFICES ASSUME Crash PROVE FALSE
    OBVIOUS
  <2>1. jobs'[j].pc \in {"unused", "over"}
    BY DEF Crash, Unused, InFlight
  <2> QED
    BY <1>1, <2>1
<1> QED
  BY <1>2, <1>3, <1>4, <1>6, <1>7, <1>8 DEF Next, Handler

LEMMA JobSiteStep ==
  ASSUME PlanInv, PlanInv', ImageInv, SiteInv, Overlap = {}, [Next]_vars, NEW j \in Jobs
  PROVE  JobSite(j)'
<1>1. ~OrphanEnds /\ TypeOK /\ JobSite(j)
  BY DEF ImageInv, OrphanEnds, PlanInv, SerialInv, SiteInv
<1>2. jobs'[j].pc \in {"promote"} \cup Loading => Standing(j)'
  BY DEF PlanInv, SerialInv, CapturesHold, CaptureHolds, Standing, Promoting, Deploying, Loading
<1>3. CASE ~(Standing(j)')
  BY <1>2, <1>3 DEF JobSite
<1>4. CASE Standing(j)' /\ Standing(j) /\ containers'[jobs[j].version] = containers[jobs[j].version]
           /\ Stands(j) /\ ~Run(j)
  BY <1>1, <1>4 DEF Stands, JobSite, Holds
<1>5. CASE Run(j) /\ Stands(j)
  <2>1. jobs[j].pc = "run" /\ PlaceHolds(j) /\ PlanHolds(j)
    BY <1>5 DEF Run, PlanInv, PlansHold
  <2>2. /\ Promoting(j) /\ RunSucceeds(jobs[j].version, jobs[j].port) /\ jobs'[j].pc = "exited"
    BY <1>5, <2>1 DEF Stands, Standing, Loading
  <2>3. /\ containers'[jobs[j].version].port = jobs[j].port
        /\ containers'[jobs[j].version].build = images[jobs[j].version]
    BY <1>1, <1>5, <2>2, RunStarts
  <2>4. images[jobs[j].version] = jobs[j].row
    BY <1>5, <2>2, RunBuild
  <2> QED
    BY <1>5, <2>2, <2>3, <2>4 DEF JobSite, Holds, Stands, Loading
<1>6. Standing(j)' => Stands(j)
  BY <1>1, StandingStep
<1> QED
  BY <1>3, <1>4, <1>5, <1>6 DEF Stands

\* SiteInv is inductive when neither the server nor the database nor nginx fails.
LEMMA SiteStep ==
  ASSUME PlanInv, PlanInv', ImageInv, SiteInv, Overlap = {}, "crash" \notin Faults,
         "lock" \notin Faults, "vhost" \notin Faults, [Next]_vars
  PROVE  SiteInv'
<1>1. orphans = {} /\ VhostFollows /\ PortsApart
  BY DEF ImageInv, SiteInv
<1>2. VhostFollows'
  BY <1>1, VhostStep
<1>3. ActiveHolds' /\ PortsApart' /\ OneServes'
  BY <1>1, ActiveStep, PortsApartStep, OneServesStep
<1>4. \A j \in Jobs : JobSite(j)'
  BY JobSiteStep
<1> QED
  BY <1>2, <1>3, <1>4 DEF SiteInv

LEMMA SiteInit == Init => SiteInv
<1> SUFFICES ASSUME Init PROVE SiteInv
  OBVIOUS
<1>1. /\ \A j \in Jobs : jobs[j].pc = "unused" /\ rows[j].status = "absent"
      /\ \A n \in Names : containers[n].state = "absent"
      /\ project.port = NoPort
  BY DEF Init, Unused, NoRow, NoContainer, NoProject
<1>2. VhostFollows /\ ActiveHolds
  BY <1>1 DEF VhostFollows, ActiveHolds, Loading
<1>3. \A j \in Jobs : JobSite(j)
  BY <1>1 DEF JobSite, Standing, Promoting, Deploying, Loading
<1>4. PortsApart /\ OneServes
  BY <1>1 DEF PortsApart, OneServes, Up
<1> QED
  BY <1>2, <1>3, <1>4 DEF SiteInv

\* A project that has a version has a port, and nothing goes on but job j.
LEMMA PortOfVersion ==
  ASSUME PlanInv, project.counter # 0
  PROVE  /\ project.port # NoPort /\ project.exists
         /\ \E r \in Jobs : rows[r].status = "active" /\ rows[r].version = project.version
                            /\ rows[r].port = project.port
<1>1. PICK r \in Jobs : /\ rows[r].status = "active" /\ rows[r].version = project.version
                        /\ rows[r].port = project.port
  BY DEF PlanInv, PortsRecorded
<1>2. project.port # NoPort
  BY <1>1 DEF PlanInv, PortsRecorded
<1>3. project.exists
  BY DEF PlanInv, SerialInv, RowsAreCommitted
<1> QED
  BY <1>1, <1>2, <1>3

LEMMA SiteSettles ==
  ASSUME PlanInv, SiteInv
  PROVE  SettledSite
<1> SUFFICES ASSUME Idle, project.counter > 0
             PROVE  \E r \in Jobs :
                      /\ rows[r].status = "active"
                      /\ rows[r].version = project.version
                      /\ rows[r].port = project.port /\ nginx = project.port
                      /\ containers[project.version].state # "absent" =>
                           /\ containers[project.version].port = nginx
                           /\ containers[project.version].build = r
  BY DEF SettledSite
<1>1. project.counter # 0
  OBVIOUS
<1>2. PICK r \in Jobs : /\ rows[r].status = "active" /\ rows[r].version = project.version
                        /\ rows[r].port = project.port
  BY <1>1, PortOfVersion
<1>3. nginx = project.port
  <2>1. teardown = NoTeardown /\ \A j \in Jobs : jobs[j].pc \notin Loading
    BY DEF Idle, InFlight, Loading
  <2> QED
    BY <1>1, <2>1, PortOfVersion DEF SiteInv, VhostFollows
<1>4. Holds(rows[r].version, rows[r].port, r)
  BY <1>2 DEF SiteInv, ActiveHolds, Idle
<1> QED
  BY <1>2, <1>3, <1>4 DEF Holds

\* Without crashes, lock timeouts, rejected vhosts and orphaned docker clients, and
\* with operations issued one at a time, the stores agree whenever nothing goes on,
\* whatever builds fail, containers exit and jobs are aborted.
THEOREM SiteSettled ==
  /\ Overlap = {} /\ NoOrphans
  /\ "crash" \notin Faults /\ "lock" \notin Faults /\ "vhost" \notin Faults
  => (Spec => []SettledSite)
<1> SUFFICES ASSUME Overlap = {}, NoOrphans, "crash" \notin Faults, "lock" \notin Faults,
                    "vhost" \notin Faults
             PROVE  Spec => []SettledSite
  OBVIOUS
<1>1. Init => PlanInv /\ ImageInv /\ SiteInv
  BY PlanInit, ImageInit, SiteInit
<1>2. (PlanInv /\ ImageInv /\ SiteInv) /\ [Next]_vars => (PlanInv /\ ImageInv /\ SiteInv)'
  BY PlanStep, ImageStep, SiteStep
<1>3. PlanInv /\ ImageInv /\ SiteInv => SettledSite
  BY SiteSettles
<1> QED
  BY <1>1, <1>2, <1>3, PTL DEF Spec

-----------------------------------------------------------------------------
(* Zero downtime                                                            *)

\* The container that the vhost points at is the active version's, or while a
\* promote goes on the promoted one's.
LEMMA ServedBy ==
  ASSUME PlanInv, SiteInv, teardown = NoTeardown, project.counter # 0,
         NEW n \in Names, containers[n].state = "running", containers[n].port = nginx
  PROVE  /\ (\A j \in Jobs : jobs[j].pc \notin Loading) => n = project.version /\ nginx = project.port
         /\ \A j \in Jobs : jobs[j].pc \in Loading => n = jobs[j].version
<1>1. CASE \A j \in Jobs : jobs[j].pc \notin Loading
  <2>1. nginx = project.port
    BY <1>1, PortOfVersion DEF SiteInv, VhostFollows
  <2> QED
    BY <1>1, <2>1 DEF SiteInv, OneServes, Up
<1>2. ASSUME NEW j \in Jobs, jobs[j].pc \in Loading
      PROVE  n = jobs[j].version
  <2>1. Promoting(j) /\ jobs[j].version \in Names
    BY <1>2 DEF PlanInv, SerialInv, TypeOK, JobRecords, CapturesHold, CaptureHolds, Promoting,
       Deploying, Loading
  <2>2. /\ containers[jobs[j].version].state = "running"
        /\ containers[jobs[j].version].port = jobs[j].port /\ nginx = jobs[j].port
    BY <1>2, <2>1 DEF SiteInv, JobSite, Standing, Holds, VhostFollows
  <2> QED
    BY <2>1, <2>2 DEF SiteInv, PortsApart, Up
<1> QED
  BY <1>1, <1>2

\* What has to stay.
LEMMA ServedStays ==
  ASSUME NEW n \in Names, containers[n].state = "running", containers[n].port = nginx,
         nginx # NoPort, containers'[n] = containers[n], nginx' = nginx, project'.counter > 0
  PROVE  Served'
BY DEF Served

LEMMA ServedThread ==
  ASSUME PlanInv, SiteInv, "vhost" \notin Faults, NEW j \in Jobs, Thread(j), ~Stop(j),
         project.counter > 0, nginx # NoPort,
         NEW n \in Names, containers[n].state = "running", containers[n].port = nginx
  PROVE  Served'
<1>1. /\ project.counter # 0 /\ teardown = NoTeardown /\ InFlight(j) /\ SerialInv /\ TypeOK
      /\ \A i \in Jobs \ {j} : jobs[i].pc \in {"unused", "over"}
  BY ThreadAlone DEF PlanInv, SerialInv
<1>2. /\ jobs[j].pc \notin Loading => n = project.version /\ nginx = project.port
      /\ jobs[j].pc \in Loading => n = jobs[j].version
  BY <1>1, ServedBy DEF Loading
<1>3. PlaceHolds(j) /\ PlanHolds(j) /\ jobs[j].version \in Names /\ project \in ProjectRecords
      /\ containers \in [Names -> ContainerRecords]
  BY <1>1 DEF PlanInv, PlansHold, TypeOK, JobRecords
<1>4. CASE SetupNginx(j)
  <2>1. /\ jobs[j].pc = "nginx" /\ nginx' = jobs[j].port /\ containers' = containers
    BY <1>4 DEF SetupNginx, Docker
  <2>2. jobs[j].port = nginx
    BY <1>1, <1>2, <1>3, <2>1, PortOfVersion DEF PlanHolds, Loading
  <2>3. project'.counter = project.counter
    BY <1>3, <1>4 DEF SetupNginx, ProjectRecords
  <2> QED
    BY <2>1, <2>2, <2>3, ServedStays
<1>5. CASE Remove(j) \/ Cleanup(j)
  <2>1. Promoting(j) /\ jobs[j].pc \notin Loading /\ nginx' = nginx /\ project' = project
    BY <1>3, <1>5 DEF Remove, Cleanup, PlaceHolds, Promoting, Deploying, Loading
  <2>2. n # jobs[j].version
    BY <1>1, <1>2, <2>1, OtherVersion
  <2>3. containers'[n] = containers[n]
    BY <1>3, <1>5, <2>2 DEF Remove, Cleanup
  <2> QED
    BY <2>1, <2>3, ServedStays
<1>6. CASE Run(j)
  <2>1. containers'[n] = containers[n]
    BY <1>1, <1>6, RunStarts
  <2>2. nginx' = nginx /\ project' = project
    BY <1>6 DEF Run
  <2> QED
    BY <2>1, <2>2, ServedStays
<1>7. CASE SwitchNginx(j)
  <2>1. /\ jobs[j].pc = "promote" /\ Promoting(j) /\ jobs[j].port # NoPort
        /\ containers' = containers /\ project' = project
        /\ nginx' = nginx \/ nginx' = jobs[j].port
    BY <1>7, SwitchMoves
  <2>2. /\ containers[jobs[j].version].state = "running"
        /\ containers[jobs[j].version].port = jobs[j].port
    BY <2>1 DEF SiteInv, JobSite, Standing, Holds
  <2>3. CASE nginx' = nginx
    BY <2>1, <2>3, ServedStays
  <2>4. CASE nginx' = jobs[j].port
    BY <1>3, <2>1, <2>2, <2>4 DEF Served
  <2> QED
    BY <2>1, <2>3, <2>4
<1>8. CASE DemoteOthers(j)
  <2>1. jobs[j].pc \in Loading /\ nginx' = nginx /\ project' = project
    BY <1>8 DEF DemoteOthers, Loading
  <2>2. containers'[n] = containers[n]
    BY <1>2, <1>8, <2>1, DemoteSpares
  <2> QED
    BY <2>1, <2>2, ServedStays
<1>9. CASE Commit(j)
  <2>1. containers' = containers /\ nginx' = nginx /\ jobs[j].pc = "commit"
    BY <1>9 DEF Commit, Docker
  <2>2. project'.counter = Counted(j)
    BY <1>1, <1>9, <2>1, NoRowLost, CommitWrites
  <2>3. jobs[j].kind = "deploy" => jobs[j].version = project.counter + 1
    BY <1>1, <2>1 DEF SerialInv, CapturesHold, CaptureHolds, Deploying
  <2>4. project'.counter > 0
    BY <1>3, <2>2, <2>3, VersionsTyped DEF Counted, ProjectRecords
  <2> QED
    BY <2>1, <2>4, ServedStays
<1>10. CASE ~( \/ SetupNginx(j) \/ Remove(j) \/ Cleanup(j) \/ Run(j) \/ SwitchNginx(j)
               \/ DemoteOthers(j) \/ Commit(j))
  <2>1. containers' = containers /\ nginx' = nginx /\ project' = project
    BY <1>10 DEF Thread, RejectVhost, LaunchDeploy, LaunchRefused, Build, Check, Verify,
       LockTimeout, Finish, Monitor, Docker
  <2> QED
    BY <2>1, ServedStays
<1> QED
  BY <1>4, <1>5, <1>6, <1>7, <1>8, <1>9, <1>10

LEMMA ServedStep ==
  ASSUME PlanInv, SiteInv, Overlap = {}, orphans = {}, "crash" \notin Faults, "vhost" \notin Faults,
         [Next]_vars, Served, teardown' = teardown,
         \A j \in Jobs : jobs'[j].kind \in {"stop", "restart"} => jobs'[j] = jobs[j]
  PROVE  Served'
<1>1. PICK n \in Names : containers[n].state = "running" /\ containers[n].port = nginx
  BY DEF Served
<1>2. /\ project.counter > 0 /\ nginx # NoPort /\ project.counter # 0
      /\ project \in ProjectRecords /\ jobs \in [Jobs -> JobRecords]
      /\ containers \in [Names -> ContainerRecords]
  BY DEF Served, PlanInv, SerialInv, TypeOK
<1>3. ASSUME NEW j \in Jobs, Client(j)
      PROVE  Served'
  <2>1. ~LaunchRestart(j)
    <3> SUFFICES ASSUME LaunchRestart(j) PROVE FALSE
      OBVIOUS
    <3>1. jobs'[j].kind = "restart" /\ jobs'[j].pc = "run" /\ jobs[j].pc = "unused"
      BY <1>2 DEF LaunchRestart, Unused, IsNext, Jobs
    <3> QED
      BY <3>1
  <2>2. containers' = containers /\ nginx' = nginx
    BY <1>3, <2>1 DEF Client, Provision, LaunchRollback, LaunchStop, Docker
  <2>3. project' = project
    BY <1>2, <1>3, PortOfVersion DEF Client, Provision, LaunchRollback, LaunchRestart, LaunchStop
  <2> QED
    BY <1>1, <1>2, <2>2, <2>3, ServedStays
<1>4. ASSUME NEW j \in Jobs, Thread(j)
      PROVE  Served'
  <2>1. ~Stop(j)
    <3> SUFFICES ASSUME Stop(j) PROVE FALSE
      OBVIOUS
    <3>1. jobs'[j].pc = "exited" /\ jobs'[j].kind = jobs[j].kind /\ jobs[j].pc = "stopping"
      BY <1>2 DEF Stop, JobRecords
    <3>2. jobs[j].kind = "stop"
      BY <3>1 DEF PlanInv, PlansHold, PlaceHolds
    <3> QED
      BY <3>1, <3>2
  <2> QED
    BY <1>1, <1>2, <1>4, <2>1, ServedThread
<1>5. CASE SetLimit
  <2>1. containers' = containers /\ nginx' = nginx /\ project'.counter = project.counter
    BY <1>2, <1>5 DEF SetLimit, Docker, ProjectRecords
  <2> QED
    BY <1>1, <1>2, <2>1, ServedStays
<1>6. CASE EnforceLimit
  <2>1. /\ nginx' = nginx /\ project' = project
        /\ \E final : containers' =
             ContainersAfter(rows, rows, Moved(rows, final, "archived", "absent"))
    BY <1>6 DEF EnforceLimit
  <2>2. PICK final :
          containers' = ContainersAfter(rows, rows, Moved(rows, final, "archived", "absent"))
    BY <2>1
  <2>3. teardown = NoTeardown /\ \A j \in Jobs : jobs[j].pc \notin Loading
    BY <1>6 DEF EnforceLimit, PlanInv, SerialInv, OneOperation, InFlight, Loading
  <2>4. n = project.version
    BY <1>1, <1>2, <2>3, ServedBy
  <2>5. PICK r \in Jobs : rows[r].status = "active" /\ rows[r].version = n
    BY <1>2, <2>4, PortOfVersion
  <2>6. \A q \in Jobs : rows[q].status = "archived" => rows[q].version # n
    BY <2>5 DEF PlanInv, SerialInv, VersionTiers, Tiers
  <2>7. /\ n \notin Moved(rows, final, "archived", "absent")
        /\ n \notin Moved(rows, rows, "inactive", "archived")
        /\ n \notin Moved(rows, rows, "active", "inactive")
    BY <2>6 DEF Moved
  <2>8. containers'[n] = containers[n]
    BY <2>2, <2>7 DEF ContainersAfter
  <2> QED
    BY <1>1, <1>2, <2>1, <2>8, ServedStays
<1>7. ~DeleteDocker /\ ~DeleteNginx /\ ~DeleteRow
  BY DEF DeleteDocker, DeleteNginx, DeleteRow, NoTeardown, PlanInv, SerialInv, TypeOK
<1>8. CASE Abort \/ UNCHANGED vars
  <2>1. containers' = containers /\ nginx' = nginx /\ project' = project
    BY <1>8, AbortMoves DEF vars
  <2> QED
    BY <1>1, <1>2, <2>1, ServedStays
<1>9. ~OrphanEnds /\ ~Crash
  BY DEF OrphanEnds, Crash
<1> QED
  BY <1>3, <1>4, <1>5, <1>6, <1>7, <1>8, <1>9 DEF Next, Handler

\* Under the same conditions no step of a deploy, a rollback, a limit change or an
\* abort takes the vhost from a running container to none.
THEOREM DowntimeIsZero ==
  /\ Overlap = {} /\ NoOrphans
  /\ "crash" \notin Faults /\ "lock" \notin Faults /\ "vhost" \notin Faults
  => (Spec => ZeroDowntime)
<1> SUFFICES ASSUME Overlap = {}, NoOrphans, "crash" \notin Faults, "lock" \notin Faults,
                    "vhost" \notin Faults
             PROVE  Spec => ZeroDowntime
  OBVIOUS
<1>1. Init => PlanInv /\ ImageInv /\ SiteInv
  BY PlanInit, ImageInit, SiteInit
<1>2. (PlanInv /\ ImageInv /\ SiteInv) /\ [Next]_vars => (PlanInv /\ ImageInv /\ SiteInv)'
  BY PlanStep, ImageStep, SiteStep
<1>3. (PlanInv /\ ImageInv /\ SiteInv) /\ [Next]_vars =>
        [Served => \/ Served'
                   \/ \E j \in Jobs : jobs'[j].kind \in {"stop", "restart"} /\ jobs'[j] # jobs[j]
                   \/ teardown' # teardown]_vars
  BY ServedStep DEF ImageInv
<1> QED
  BY <1>1, <1>2, <1>3, PTL DEF Spec, ZeroDowntime

-----------------------------------------------------------------------------
(* The ports that new containers are given                                  *)
(*                                                                          *)
(* A container that is up serves the port its row records, as long as no    *)
(* aborted job is over: until then a docker client that outlives its bash   *)
(* can only start the container that its job was about to start.            *)

PastAbort == \E i \in Jobs : status[i] = "aborted" /\ ~InFlight(i)

Unlaunched == {"unused", "nginx", "launch"}

StatusFollows == \A j \in Jobs : jobs[j].pc \in Unlaunched => status[j] = "none"

LivePorts ==
  \A r \in Jobs : rows[r].status \in {"active", "inactive"} /\ Up(rows[r].version)
                  => containers[rows[r].version].port = rows[r].port

StandingPorts ==
  \A j \in Jobs : Standing(j) /\ containers[jobs[j].version].state # "absent"
                  => containers[jobs[j].version].port = jobs[j].port

\* The job of a docker client that is left is aborted and about to end.
OrphansOf(i) ==
  status[i] = "aborted" /\ ~Standing(i) /\ jobs[i].pc \in {"exited", "cleanup", "finish"}

OrphansMatch ==
  /\ orphans # {} => \E i \in Jobs : OrphansOf(i)
  /\ \A o \in orphans, r \in Jobs :
       rows[r].status \in {"active", "inactive"} /\ rows[r].version = o.version => rows[r].port = o.port

LaunchPortInv == StatusFollows /\ (PastAbort \/ (LivePorts /\ StandingPorts /\ OrphansMatch))

LEMMA PortIsFree ==
  ASSUME PlanInv, LaunchPortInv
  PROVE  LaunchedPortIsFree
<1> SUFFICES ASSUME \A i \in Jobs : status[i] # "aborted", NEW j \in Jobs, NEW r \in Jobs,
                    jobs[j].pc = "run", jobs[j].fresh, rows[r].status \in {"active", "inactive"},
                    containers[rows[r].version].state \in {"running", "restarting"}
             PROVE  containers[rows[r].version].port # jobs[j].port
  BY DEF LaunchedPortIsFree
<1>1. containers[rows[r].version].port = rows[r].port
  BY DEF LaunchPortInv, PastAbort, LivePorts, Up
<1>2. PlaceHolds(j) /\ PlanHolds(j)
  BY DEF PlanInv, PlansHold
<1>3. Promoting(j)
  BY <1>2 DEF PlaceHolds, PlanHolds, Promoting, Deploying
<1> QED
  BY <1>1, <1>2, <1>3 DEF PlanHolds

-----------------------------------------------------------------------------
(* Jobs' places and statuses                                                *)

LEMMA PlacesStep ==
  ASSUME PlanInv, Overlap = {}, [Next]_vars, NEW i \in Jobs
  PROVE  /\ jobs'[i].pc \in Unlaunched => jobs[i].pc \in Unlaunched
         /\ jobs[i].pc = "over" => jobs'[i].pc = "over"
<1>1. jobs \in [Jobs -> JobRecords]
  BY DEF PlanInv, SerialInv, TypeOK
<1>2. ASSUME NEW j \in Jobs, Client(j)
      PROVE  jobs[j].pc = "unused" /\ \A k \in Jobs \ {j} : jobs'[k] = jobs[k]
  <2>1. IsNext(j)
    BY <1>2 DEF Client, Provision, LaunchRollback, LaunchRestart, LaunchStop
  <2>2. jobs[j].pc = "unused"
    BY <2>1 DEF IsNext, Jobs
  <2> QED
    BY <1>2, <2>2, ClientStarts DEF PlanInv
<1>3. ASSUME NEW j \in Jobs, Thread(j)
      PROVE  /\ \A k \in Jobs \ {j} : jobs'[k] = jobs[k]
             /\ InFlight(j) /\ (jobs'[j].pc \in Unlaunched => jobs[j].pc \in Unlaunched)
  <2>1. InFlight(j) /\ \A k \in Jobs \ {j} : jobs'[k] = jobs[k]
    BY <1>3, ThreadAlone DEF PlanInv
  <2>2. CASE SetupNginx(j) \/ RejectVhost(j) \/ LaunchDeploy(j) \/ LaunchRefused(j)
    <3>1. jobs[j].pc \in Unlaunched
      BY <2>2 DEF SetupNginx, RejectVhost, LaunchDeploy, LaunchRefused, Unlaunched
    <3> QED
      BY <2>1, <3>1
  <2>3. CASE Commit(j) \/ Finish(j) \/ Monitor(j)
    <3>1. jobs'[j].pc \in {"finish", "over"}
      <4>1. CASE Commit(j)
        BY <1>1, <4>1 DEF Commit, PromoteFails, JobRecords
      <4>2. CASE Finish(j) \/ Monitor(j)
        BY <1>1, <4>2 DEF Finish, Monitor, Over, Unused
      <4> QED
        BY <2>3, <4>1, <4>2
    <3> QED
      BY <2>1, <3>1 DEF Unlaunched
  <2>4. CASE \/ Build(j) \/ Remove(j) \/ Run(j) \/ Stop(j) \/ Check(j) \/ Verify(j) \/ Cleanup(j)
             \/ SwitchNginx(j) \/ DemoteOthers(j) \/ LockTimeout(j)
    <3>1. Advances(j)
      BY <2>4, JobAdvances
    <3> QED
      BY <2>1, <3>1 DEF Advances, Deploying, Unlaunched
  <2> QED
    BY <1>3, <2>2, <2>3, <2>4 DEF Thread
<1>4. CASE SetLimit \/ DeleteDocker \/ Handler
  BY <1>4, HandlersRest DEF PlanInv, Handler
<1>5. CASE Abort
  BY <1>5, AbortMoves DEF Advances, Deploying, Unlaunched
<1>6. CASE OrphanEnds \/ UNCHANGED vars
  BY <1>6 DEF OrphanEnds, vars
<1>7. CASE Crash
  <2>1. jobs'[i].pc = "over" \/ jobs'[i] = jobs[i]
    BY <1>7 DEF Crash, Unused
  <2> QED
    BY <2>1 DEF Unlaunched
<1> QED
  BY <1>2, <1>3, <1>4, <1>5, <1>6, <1>7 DEF Next, InFlight, Unlaunched

\* A job's status is set when it is launched, and leaves "running" once.
LEMMA StatusStep ==
  ASSUME PlanInv, StatusFollows, Overlap = {}, [Next]_vars, NEW i \in Jobs
  PROVE  \/ status'[i] = status[i]
         \/ status[i] = "none" /\ jobs'[i].pc \notin Unlaunched
         \/ status[i] = "running"
         \/ InFlight(i) /\ Crash /\ jobs'[i].pc = "over"
<1>1. /\ jobs \in [Jobs -> JobRecords]
      /\ status \in [Jobs -> {"none", "running", "done", "error", "aborted", "lost"}]
      /\ registered \in Jobs \cup {NoJob}
  BY DEF PlanInv, SerialInv, TypeOK
<1>2. ASSUME NEW j \in Jobs, LaunchDeploy(j) \/ LaunchRollback(j) \/ LaunchRestart(j) \/ LaunchStop(j)
      PROVE  /\ \A k \in Jobs \ {j} : status'[k] = status[k]
             /\ status[j] = "none" /\ jobs'[j].pc \notin Unlaunched
  <2>0. IsNext(j) => jobs[j].pc = "unused"
    BY DEF IsNext, Jobs
  <2>1. /\ status' = [status EXCEPT ![j] = "running"]
        /\ jobs[j].pc \in Unlaunched
    BY <1>2, <2>0 DEF LaunchDeploy, LaunchRollback, LaunchRestart, LaunchStop, Register, Unlaunched
  <2>2. jobs'[j].pc \in {"build", "remove", "run", "stopping"}
    <3>1. CASE LaunchDeploy(j)
      BY <1>1, <3>1 DEF LaunchDeploy, Unused
    <3>2. CASE LaunchRollback(j)
      BY <1>1, <3>2 DEF LaunchRollback, Unused
    <3>3. CASE LaunchRestart(j)
      BY <1>1, <3>3 DEF LaunchRestart, Unused
    <3>4. CASE LaunchStop(j)
      BY <1>1, <3>4 DEF LaunchStop, Unused
    <3> QED
      BY <1>2, <3>1, <3>2, <3>3, <3>4
  <2> QED
    BY <1>1, <2>1, <2>2 DEF StatusFollows, Unlaunched
<1>3. ASSUME NEW j \in Jobs, Finish(j) \/ Monitor(j)
      PROVE  status'[i] = status[i] \/ status[i] = "running"
  BY <1>1, <1>3 DEF Finish, Monitor
<1>4. CASE Abort \/ DeleteDocker
  BY <1>1, <1>4 DEF Abort, DeleteDocker, AbortRegistered
<1>5. CASE Crash
  <2>1. status'[i] = status[i] \/ InFlight(i)
    BY <1>1, <1>5 DEF Crash
  <2>2. InFlight(i) => jobs'[i].pc = "over"
    BY ZenonT(60), <1>5 DEF Crash, Unused
  <2> QED
    BY <1>5, <2>1, <2>2
<1>6. ASSUME NEW j \in Jobs,
             \/ Provision(j)
             \/ Thread(j) /\ ~LaunchDeploy(j) /\ ~Finish(j) /\ ~Monitor(j)
      PROVE  status' = status
  BY <1>6 DEF Provision, Thread, SetupNginx, RejectVhost, LaunchRefused, Build, Remove, Run, Stop,
     Check, Verify, Cleanup, SwitchNginx, DemoteOthers, LockTimeout, Commit
<1>7. SetLimit \/ Handler \/ OrphanEnds \/ UNCHANGED vars => status' = status
  BY DEF SetLimit, Handler, EnforceLimit, DeleteNginx, DeleteRow, OrphanEnds, vars
<1>8. ASSUME NEW j \in Jobs, Client(j) \/ Thread(j)
      PROVE  \/ status'[i] = status[i]
             \/ status[i] = "none" /\ jobs'[i].pc \notin Unlaunched
             \/ status[i] = "running"
  <2>1. CASE LaunchDeploy(j) \/ LaunchRollback(j) \/ LaunchRestart(j) \/ LaunchStop(j)
    BY <1>2, <2>1
  <2>2. CASE Finish(j) \/ Monitor(j)
    BY <1>3, <2>2
  <2> QED
    BY <1>6, <1>8, <2>1, <2>2 DEF Client
<1> QED
  BY <1>4, <1>5, <1>7, <1>8 DEF Next

LEMMA StatusFollowsStep ==
  ASSUME PlanInv, StatusFollows, Overlap = {}, [Next]_vars
  PROVE  StatusFollows'
<1> SUFFICES ASSUME NEW i \in Jobs, jobs'[i].pc \in Unlaunched
             PROVE  status'[i] = "none"
  BY DEF StatusFollows
<1>1. status[i] = "none" /\ jobs'[i].pc # "over"
  BY PlacesStep DEF StatusFollows, Unlaunched
<1> QED
  BY <1>1, StatusStep

LEMMA PastAbortStays ==
  ASSUME PlanInv, StatusFollows, Overlap = {}, [Next]_vars, PastAbort
  PROVE  PastAbort'
<1>1. PICK i \in Jobs : status[i] = "aborted" /\ ~InFlight(i)
  BY DEF PastAbort
<1>2. jobs[i].pc = "over"
  BY <1>1 DEF StatusFollows, InFlight, Unlaunched
<1>3. jobs'[i].pc = "over"
  BY <1>2, PlacesStep
<1>4. status'[i] = "aborted"
  BY <1>1, StatusStep
<1> QED
  BY <1>3, <1>4 DEF PastAbort, InFlight

\* A job whose docker client is left is the only one, and is about to end.
LEMMA OrphansAlone ==
  ASSUME PlanInv, NEW i \in Jobs, OrphansOf(i)
  PROVE  /\ InFlight(i) /\ registered = i /\ status[i] = "aborted"
         /\ \A j \in Jobs : InFlight(j) => j = i
         /\ \A j \in Jobs : ~Standing(j)
<1>1. InFlight(i) /\ PlaceHolds(i) /\ status[i] = "aborted" /\ ~Standing(i)
      /\ jobs[i].pc \in {"exited", "cleanup", "finish"}
  BY DEF OrphansOf, InFlight, PlanInv, PlansHold
<1>2. registered = i
  BY <1>1 DEF PlaceHolds, Deploying
<1>3. \A j \in Jobs : InFlight(j) => j = i
  BY <1>1 DEF PlanInv, SerialInv, OneOperation
<1>4. \A j \in Jobs : Standing(j) => InFlight(j)
  BY DEF Standing, Promoting, Deploying, InFlight
<1> QED
  BY <1>1, <1>2, <1>3, <1>4

\* Whose row a container started by docker run belongs to.
LEMMA RunOnRow ==
  ASSUME PlanInv, NEW j \in Jobs, jobs[j].pc = "run" \/ jobs[j].pc = "build",
         NEW r \in Jobs, rows[r].status \in {"active", "inactive"}, rows[r].version = jobs[j].version
  PROVE  rows[r].port = jobs[j].port
<1>1. /\ PlaceHolds(j) /\ PlanHolds(j) /\ Tiers(rows, project.counter)
  BY DEF PlanInv, PlansHold, SerialInv, VersionTiers
<1>2. CASE jobs[j].kind = "deploy"
  BY <1>2, NewVersion DEF PlanInv, Deploying, Present
<1>3. CASE jobs[j].kind = "rollback"
  BY <1>1, <1>3 DEF PlanHolds, Promoting, Deploying, Tiers
<1>4. CASE jobs[j].kind = "restart"
  <2>1. jobs[j].version = project.version /\ jobs[j].port = project.port /\ project.counter # 0
    BY <1>1, <1>4, NothingRecorded DEF PlanHolds, PlaceHolds
  <2>2. PICK q \in Jobs : /\ rows[q].status = "active" /\ rows[q].version = project.version
                          /\ rows[q].port = project.port
    BY <2>1 DEF PlanInv, PortsRecorded
  <2>3. q = r
    BY <1>1, <2>1, <2>2 DEF Tiers
  <2> QED
    BY <2>1, <2>2, <2>3
<1> QED
  BY <1>1, <1>2, <1>3, <1>4 DEF PlaceHolds

LEMMA LivePortsStep ==
  ASSUME PlanInv, PlanInv', LivePorts, StandingPorts, OrphansMatch, Overlap = {}, [Next]_vars
  PROVE  LivePorts'
<1> SUFFICES ASSUME NEW r \in Jobs, rows'[r].status \in {"active", "inactive"},
                    Up(rows[r].version)'
             PROVE  containers'[rows'[r].version].port = rows'[r].port
  BY DEF LivePorts
<1>1. /\ TypeOK /\ rows[r].version \in Names /\ rows'[r].version \in Names
      /\ containers \in [Names -> ContainerRecords]
  BY DEF PlanInv, SerialInv, TypeOK, RowTables, RowRecords
<1>2. ASSUME NEW j \in Jobs, Commit(j)
      PROVE  containers'[rows'[r].version].port = rows'[r].port
  <2>1. /\ jobs[j].pc = "commit" /\ jobs[j].pc \in Loading /\ containers' = containers
        /\ SerialInv
    BY <1>2 DEF Commit, Docker, Loading, PlanInv
  <2>2. rows' = Final(j)
    BY <1>2, <2>1, CommitWrites, NoRowLost
  <2>3. CASE r = Promoted(j)
    <3>1. rows'[r].version = jobs[j].version /\ rows'[r].port = jobs[j].port
      BY <2>1, <2>2, <2>3, FinalRows
    <3>2. Standing(j)
      BY <2>1 DEF SerialInv, CapturesHold, CaptureHolds, Standing, Promoting, Deploying
    <3> QED
      BY <2>1, <3>1, <3>2 DEF StandingPorts, Up
  <2>4. CASE r # Promoted(j)
    <3>1. rows[r].status = "active" /\ rows'[r].port = rows[r].port /\ rows'[r].version = rows[r].version
      BY <2>1, <2>2, <2>4, FinalRows
    <3> QED
      BY <2>1, <3>1 DEF LivePorts, Up
  <2> QED
    BY <2>3, <2>4
<1>3. ASSUME \A j \in Jobs : ~Commit(j)
      PROVE  /\ rows'[r] = rows[r] /\ rows[r].status \in {"active", "inactive"}
             /\ Up(rows[r].version) => containers[rows[r].version].port = rows[r].port
  BY <1>3, LiveRowsStay DEF LivePorts
<1>4. ASSUME NEW j \in Jobs, Run(j)
      PROVE  containers'[rows'[r].version].port = rows'[r].port
  <2>1. \A i \in Jobs : ~Commit(i)
    BY <1>4 DEF Run, Commit, PlanInv, SerialInv, OneOperation, InFlight
  <2>2. /\ rows'[r] = rows[r] /\ rows[r].status \in {"active", "inactive"}
        /\ Up(rows[r].version) => containers[rows[r].version].port = rows[r].port
    BY <1>3, <2>1
  <2>3. CASE containers'[rows[r].version] = containers[rows[r].version]
    BY <2>2, <2>3 DEF Up
  <2>4. CASE containers'[rows[r].version] # containers[rows[r].version]
    <3>1. rows[r].version = jobs[j].version /\ containers'[rows[r].version].port = jobs[j].port
      BY <1>1, <1>4, <2>4, RunStarts
    <3>2. rows[r].port = jobs[j].port
      BY <1>4, <2>2, <3>1, RunOnRow DEF Run
    <3> QED
      BY <2>2, <3>1, <3>2
  <2> QED
    BY <2>3, <2>4
<1>5. CASE OrphanEnds
  <2>1. \A j \in Jobs : ~Commit(j)
    BY <1>5 DEF OrphanEnds, Commit, PromoteFails, PlanInv, SerialInv, TypeOK, JobRecords
  <2>2. /\ rows'[r] = rows[r] /\ rows[r].status \in {"active", "inactive"}
        /\ Up(rows[r].version) => containers[rows[r].version].port = rows[r].port
    BY <1>3, <2>1
  <2>3. PICK o \in orphans : containers' = containers \/ containers' \in RunLeaves(o.version, o.port)
    BY <1>5 DEF OrphanEnds
  <2>4. o.version \in Names
    BY <1>1 DEF TypeOK, OrphanRecords
  <2>5. \/ containers' = containers
        \/ \E s \in {"created", "running", "restarting"} : containers' =
             [containers EXCEPT ![o.version] = [state |-> s, port |-> o.port, build |-> images[o.version]]]
    BY <2>3 DEF RunLeaves, Started
  <2>6. \/ containers'[rows[r].version] = containers[rows[r].version]
        \/ rows[r].version = o.version /\ containers'[rows[r].version].port = o.port
    BY <1>1, <2>4, <2>5
  <2> QED
    BY <2>2, <2>6 DEF OrphansMatch, Up
<1>6. CASE ~OrphanEnds /\ \A j \in Jobs : ~Commit(j) /\ ~Run(j)
  <2>1. Fallen(rows[r].version)
    BY <1>1, <1>6, ContainersFall
  <2> QED
    BY <1>3, <1>6, <2>1 DEF Fallen, Up
<1> QED
  BY <1>2, <1>4, <1>5, <1>6

LEMMA StandingPortsStep ==
  ASSUME PlanInv, StandingPorts, OrphansMatch, Overlap = {}, [Next]_vars
  PROVE  StandingPorts'
<1> SUFFICES ASSUME NEW j \in Jobs, Standing(j)'
             PROVE  containers'[jobs'[j].version].state # "absent"
                      => containers'[jobs'[j].version].port = jobs'[j].port
  BY DEF StandingPorts
<1>1. ~OrphanEnds
  <2> SUFFICES ASSUME OrphanEnds PROVE FALSE
    OBVIOUS
  <2>1. orphans # {} /\ jobs' = jobs
    BY DEF OrphanEnds
  <2>2. ~Standing(j)
    BY <2>1, OrphansAlone DEF OrphansMatch
  <2> QED
    BY <2>1, <2>2 DEF Standing, Promoting
<1>2. Stands(j)
  BY <1>1, StandingStep
<1>3. CASE Run(j) /\ RunSucceeds(jobs[j].version, jobs[j].port)
  <2>1. containers'[jobs[j].version].port = jobs[j].port
    BY <1>3, RunStarts DEF PlanInv, SerialInv
  <2> QED
    BY <1>2, <2>1 DEF Stands
<1>4. CASE Standing(j) /\ containers'[jobs[j].version] = containers[jobs[j].version]
  BY <1>2, <1>4 DEF Stands, StandingPorts
<1> QED
  BY <1>2, <1>3, <1>4 DEF Stands

\* An aborted job whose docker client is left goes on to its end.
LEMMA OrphansGoOn ==
  ASSUME PlanInv, StatusFollows, Overlap = {}, [Next]_vars, NEW i \in Jobs, OrphansOf(i), ~Crash
  PROVE  rows' = rows /\ (OrphansOf(i)' \/ PastAbort')
<1>1. /\ InFlight(i) /\ registered = i /\ status[i] = "aborted"
      /\ \A j \in Jobs : InFlight(j) => j = i
      /\ jobs[i].pc \in {"exited", "cleanup", "finish"} /\ jobs \in [Jobs -> JobRecords]
  BY OrphansAlone DEF OrphansOf, PlanInv, SerialInv, TypeOK
<1>2. status'[i] = "aborted"
  BY <1>1, StatusStep
<1>3. CASE Thread(i)
  <2>1. CASE Check(i)
    <3>1. jobs'[i].pc = "cleanup" /\ rows' = rows
      BY <1>1, <2>1 DEF Check, NoJob, Jobs
    <3> QED
      BY <1>2, <3>1 DEF OrphansOf, Standing, Loading
  <2>2. CASE Cleanup(i)
    <3>1. jobs'[i].pc = "finish" /\ rows' = rows
      BY <1>1, <2>2 DEF Cleanup
    <3> QED
      BY <1>2, <3>1 DEF OrphansOf, Standing, Loading
  <2>3. CASE Finish(i) \/ Monitor(i)
    <3>1. jobs'[i].pc = "over" /\ rows' = rows
      BY <1>1, <2>3 DEF Finish, Monitor, Over, Unused
    <3> QED
      BY <1>2, <3>1 DEF PastAbort, InFlight
  <2> QED
    BY <1>1, <1>3, <2>1, <2>2, <2>3 DEF Thread, SetupNginx, RejectVhost, LaunchDeploy, LaunchRefused,
       Build, Remove, Run, Stop, Verify, SwitchNginx, DemoteOthers, LockTimeout, Commit
<1>4. ASSUME rows' = rows, jobs' = jobs
      PROVE  rows' = rows /\ OrphansOf(i)'
  <2>1. jobs'[i] = jobs[i]
    BY <1>4
  <2>2. Standing(i)' <=> Standing(i)
    BY <2>1 DEF Standing, Promoting
  <2> QED
    BY <1>2, <1>4, <2>1, <2>2 DEF OrphansOf
<1>5. ASSUME NEW j \in Jobs, Client(j)
      PROVE  FALSE
  <2>1. jobs[i].pc \in {"unused", "over"}
    BY <1>5, ClientStarts DEF PlanInv
  <2> QED
    BY <1>1, <2>1
<1>6. ~(SetLimit \/ DeleteDocker \/ Handler)
  <2> SUFFICES ASSUME SetLimit \/ DeleteDocker \/ Handler PROVE FALSE
    OBVIOUS
  <2>1. jobs[i].pc \in {"unused", "over"}
    BY HandlersRest DEF PlanInv, Handler
  <2> QED
    BY <1>1, <2>1
<1>7. ~Abort
  BY <1>1 DEF Abort
<1>8. CASE OrphanEnds \/ UNCHANGED vars
  BY <1>4, <1>8 DEF OrphanEnds, vars
<1>9. ASSUME NEW j \in Jobs, Thread(j)
      PROVE  j = i
  BY <1>1, <1>9, ThreadAlone DEF PlanInv
<1> QED
  BY <1>3, <1>5, <1>6, <1>7, <1>8, <1>9 DEF Next

LEMMA OrphansMatchStep ==
  ASSUME PlanInv, StatusFollows, OrphansMatch, Overlap = {}, [Next]_vars
  PROVE  OrphansMatch' \/ PastAbort'
<1>1. CASE orphans' = {}
  BY <1>1 DEF OrphansMatch
<1>2. CASE orphans # {} /\ orphans' # {}
  <2>1. PICK i \in Jobs : OrphansOf(i)
    BY <1>2 DEF OrphansMatch
  <2>2. ~Crash
    BY <1>2 DEF Crash
  <2>3. ~Abort
    BY <2>1, OrphansAlone DEF Abort
  <2>4. orphans' \subseteq orphans
    BY <2>2, <2>3, OrphansSame DEF OrphanEnds
  <2>5. rows' = rows /\ (OrphansOf(i)' \/ PastAbort')
    BY <2>1, <2>2, OrphansGoOn
  <2> QED
    BY <2>4, <2>5 DEF OrphansMatch
<1>3. CASE orphans = {} /\ orphans' # {}
  <2>1. Abort
    BY <1>3, OrphansSame DEF Crash, OrphanEnds
  <2>0. PICK j \in Jobs : j = registered
    BY <2>1 DEF PlanInv, SerialInv, TypeOK, Abort
  <2>2. /\ jobs \in [Jobs -> JobRecords] /\ status[j] = "running" /\ rows' = rows
        /\ AbortRegistered
        /\ status \in [Jobs -> {"none", "running", "done", "error", "aborted", "lost"}]
    BY <2>0, <2>1 DEF PlanInv, SerialInv, TypeOK, Abort
  <2>3. /\ jobs[j].kind \in {"deploy", "rollback"} /\ jobs[j].pc \in {"build", "run"}
        /\ orphans' = {[doing |-> jobs[j].pc, version |-> jobs[j].version,
                        port |-> jobs[j].port, build |-> j]}
        /\ status' = [status EXCEPT ![j] = "aborted"]
        /\ jobs' = [jobs EXCEPT ![j].pc = "exited", ![j].outcome = "failed"]
    BY <1>3, <2>0, <2>1, <2>2 DEF AbortRegistered, Alive, Abort
  <2>4. jobs'[j].pc = "exited" /\ jobs'[j].outcome = "failed" /\ status'[j] = "aborted"
    BY <2>2, <2>3 DEF JobRecords
  <2>5. OrphansOf(j)'
    <3>1. \A i \in Jobs : jobs'[i].pc = "exited" /\ jobs'[i].outcome = "failed"
                          /\ status'[i] = "aborted" => OrphansOf(i)'
      BY DEF OrphansOf, Standing, Loading
    <3> QED
      BY <2>2, <2>4, <3>1
  <2>6. \A o \in orphans' : o.version = jobs[j].version /\ o.port = jobs[j].port
    BY <2>3
  <2>7. \A r \in Jobs : rows[r].status \in {"active", "inactive"} /\ rows[r].version = jobs[j].version
                        => rows[r].port = jobs[j].port
    BY <2>2, <2>3, RunOnRow
  <2> QED
    BY <2>2, <2>5, <2>6, <2>7 DEF OrphansMatch
<1> QED
  BY <1>1, <1>2, <1>3

LEMMA LaunchPortStep ==
  ASSUME PlanInv, PlanInv', LaunchPortInv, Overlap = {}, [Next]_vars
  PROVE  LaunchPortInv'
<1>1. StatusFollows'
  BY StatusFollowsStep DEF LaunchPortInv
<1>2. CASE PastAbort
  BY <1>1, <1>2, PastAbortStays DEF LaunchPortInv
<1>3. CASE LivePorts /\ StandingPorts /\ OrphansMatch
  BY <1>1, <1>3, LivePortsStep, StandingPortsStep, OrphansMatchStep DEF LaunchPortInv
<1> QED
  BY <1>2, <1>3 DEF LaunchPortInv

\* With operations issued one at a time, a new container never gets a port that a live
\* version's container serves, through crashes, lock timeouts, rejected vhosts and
\* failing containers.
THEOREM LaunchedPortFree == Overlap = {} => (Spec => []LaunchedPortIsFree)
<1> SUFFICES ASSUME Overlap = {} PROVE Spec => []LaunchedPortIsFree
  OBVIOUS
<1>1. Init => PlanInv /\ LaunchPortInv
  <2> SUFFICES ASSUME Init PROVE LaunchPortInv
    BY PlanInit
  <2>1. /\ \A j \in Jobs : jobs[j].pc = "unused" /\ rows[j].status = "absent" /\ status[j] = "none"
        /\ orphans = {}
    BY DEF Init, Unused, NoRow
  <2> QED
    BY <2>1 DEF LaunchPortInv, StatusFollows, LivePorts, StandingPorts, Standing, Promoting,
       Deploying, OrphansMatch
<1>2. (PlanInv /\ LaunchPortInv) /\ [Next]_vars => (PlanInv /\ LaunchPortInv)'
  BY PlanStep, LaunchPortStep
<1>3. PlanInv /\ LaunchPortInv => LaunchedPortIsFree
  BY PortIsFree
<1> QED
  BY <1>1, <1>2, <1>3, PTL DEF Spec
=============================================================================
