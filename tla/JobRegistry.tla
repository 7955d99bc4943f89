---------------------------- MODULE JobRegistry ----------------------------
(* The in-memory job registry of services/docker_service.py, for one key:    *)
(* the job last registered under it, the processes and threads that still     *)
(* belong to earlier ones, and their log files.                               *)
(*                                                                            *)
(* A job is started in one of three ways: "spawned" (_spawn, with a monitor   *)
(* thread), "deploy" (register_external_job, with a thread of deploy_service  *)
(* that finishes it by key) and "install" (register_external_job, finished by *)
(* the session that runs it: InstallSession). A log is its number of writes.  *)
EXTENDS Naturals, FiniteSets

CONSTANTS MaxJobs,   \* job objects in use at a time
          MaxLog     \* writes of one job

ASSUME RegistryAssumption == MaxJobs \in Nat /\ MaxLog \in Nat

VARIABLES jobs,        \* the job objects: each with its process, its thread and its log
          registered,  \* _jobs[key]
          aborting     \* the job an abort_job has looked at and not marked yet

registryVars == <<jobs, registered, aborting>>

Jobs == 1..MaxJobs
NoJob == 0

Kinds == {"none", "spawned", "deploy", "install"}
Statuses == {"none", "running", "done", "error", "aborted"}
Codes == {"none", "ok", "failed"}       \* exit codes: None, 0, anything else

JobType ==
  [kind : Kinds, status : Statuses, exit : Codes,
   process : {"none", "alive", "exited"}, code : Codes,
   log : 0..MaxLog, kept : BOOLEAN,
   own : BOOLEAN,                         \* no other job's outcome was put down to it
   thread : {"none", "new", "waiting", "finishing", "over"},
   target : Jobs \cup {NoJob}]

RegistryTypeOK ==
  /\ jobs \in [Jobs -> JobType]
  /\ registered \in Jobs \cup {NoJob}
  /\ aborting \in Jobs \cup {NoJob}

Unused ==
  [kind |-> "none", status |-> "none", exit |-> "none", process |-> "none", code |-> "none",
   log |-> 0, kept |-> TRUE, own |-> TRUE, thread |-> "none", target |-> NoJob]

RegistryInit ==
  /\ jobs = [j \in Jobs |-> Unused]
  /\ registered = NoJob
  /\ aborting = NoJob

----------------------------------------------------------------------------
(* Registering *)

Used == {j \in Jobs : jobs[j].kind # "none"}

\* Something still refers to the job object: the registry, a thread or process, an abort.
InUse(j) ==
  \/ j \in {registered, aborting}
  \/ jobs[j].process = "alive"
  \/ jobs[j].thread \in {"new", "waiting", "finishing"}
  \/ \E k \in Jobs : jobs[k].thread = "waiting" /\ jobs[k].target = j

Started(kind) ==
  [Unused EXCEPT !.kind = kind, !.status = "running", !.process = "alive",
                 !.thread = IF kind = "install" THEN "none" ELSE "new"]

\* Registering unlinks the log of the job it replaces, unless that one is running.
WithoutOldLog ==
  IF registered # NoJob /\ jobs[registered].status # "running"
  THEN [jobs EXCEPT ![registered].kept = FALSE]
  ELSE jobs

\* Objects that neither the registry's side uses nor a client holds are gone.
Register(j, kind, held) ==
  LET garbage == {k \in Jobs : ~InUse(k) /\ k \notin held} IN
  /\ j \in garbage /\ \A k \in garbage : j <= k
  /\ jobs' = [k \in Jobs |-> CASE k = j -> Started(kind)
                             [] k \in garbage \ {j} -> Unused
                             [] OTHER -> WithoutOldLog[k]]
  /\ registered' = j
  /\ UNCHANGED aborting

\* Everything that was started has ended and been accounted for.
Quiet == \A j \in Used : /\ jobs[j].process = "exited"
                         /\ jobs[j].thread \in {"none", "over"}
                         /\ jobs[j].status # "running"

----------------------------------------------------------------------------
(* Processes *)

Writes(j) ==
  /\ jobs[j].process = "alive" /\ jobs[j].log < MaxLog
  /\ jobs' = [jobs EXCEPT ![j].log = @ + 1]
  /\ UNCHANGED <<registered, aborting>>

Exits(j) ==
  /\ jobs[j].process = "alive"
  /\ \E code \in {"ok", "failed"} :
       jobs' = [jobs EXCEPT ![j].process = "exited", ![j].code = code]
  /\ UNCHANGED <<registered, aborting>>

----------------------------------------------------------------------------
(* Threads *)

\* Mutant: every outcome is a success.
OutcomeDone(job, mine, exit, aborted) ==
  [job EXCEPT !.exit = exit, !.own = @ /\ mine,
              !.status = IF @ = "running" THEN "done" ELSE @]

\* Mutant: the exit code is taken for the status.
OutcomeByCode(job, mine, exit, aborted) ==
  [job EXCEPT !.exit = exit, !.own = @ /\ mine, !.status = IF aborted THEN "aborted" ELSE exit]

\* The outcome of a job, written under the lock: "aborted" is not overwritten.
Outcome(job, mine, exit, aborted) ==
  [job EXCEPT !.exit = exit, !.own = @ /\ mine,
              !.status = IF @ # "running" THEN @
                         ELSE IF aborted THEN "aborted"
                         ELSE IF exit = "ok" THEN "done" ELSE "error"]

\* finish_external_job: whatever job is registered by now.
FinishRegistered(js, by, exit, aborted) ==
  [js EXCEPT ![registered] = Outcome(@, by = registered, exit, aborted)]

\* _monitor_job looks its job up by key when the thread first runs.
MonitorStarts(j) ==
  /\ jobs[j].kind = "spawned" /\ jobs[j].thread = "new"
  /\ jobs' = [jobs EXCEPT ![j].thread = "waiting", ![j].target = registered]
  /\ UNCHANGED <<registered, aborting>>

MonitorEnds(j) ==
  /\ jobs[j].kind = "spawned" /\ jobs[j].thread = "waiting"
  /\ LET watched == jobs[j].target IN
     /\ jobs[watched].process = "exited"
     /\ jobs' = [[jobs EXCEPT ![watched] = Outcome(@, watched = j, jobs[watched].code, FALSE)]
                   EXCEPT ![j].thread = "over", ![j].target = NoJob]
  /\ UNCHANGED <<registered, aborting>>

\* _finalize appends to the log, then finishes the job under the key. A process that ended
\* well may still have left no running container, or promote may raise.
DeployLogs(j) ==
  /\ jobs[j].kind = "deploy" /\ jobs[j].thread = "new" /\ jobs[j].process = "exited"
  /\ \/ jobs[j].log < MaxLog /\ jobs' = [jobs EXCEPT ![j].thread = "finishing", ![j].log = @ + 1]
     \/ jobs' = [jobs EXCEPT ![j].thread = "finishing"]
  /\ UNCHANGED <<registered, aborting>>

DeployEnds(j) ==
  /\ jobs[j].kind = "deploy" /\ jobs[j].thread = "finishing"
  /\ \E exit \in {jobs[j].code, "failed"} :
       jobs' = [FinishRegistered(jobs, j, exit, FALSE) EXCEPT ![j].thread = "over"]
  /\ UNCHANGED <<registered, aborting>>

----------------------------------------------------------------------------
(* abort_job: it reads the status and signals the process without the lock, *)
(* and marks the job under it. That a process may exit at any time stands    *)
(* for the signal.                                                           *)

AbortLooks ==
  /\ aborting = NoJob
  /\ registered # NoJob /\ jobs[registered].status = "running"
  /\ aborting' = registered
  /\ UNCHANGED <<jobs, registered>>

AbortMarks ==
  /\ aborting # NoJob
  /\ jobs' = [jobs EXCEPT ![aborting].status = "aborted"]
  /\ aborting' = NoJob
  /\ UNCHANGED registered

----------------------------------------------------------------------------
Threads(j) == MonitorStarts(j) \/ MonitorEnds(j) \/ DeployLogs(j) \/ DeployEnds(j)
=============================================================================
