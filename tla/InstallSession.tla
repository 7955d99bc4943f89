--------------------------- MODULE InstallSession ---------------------------
(* WebSocket sessions over the job registry: the install session of an       *)
(* interactive plugin (routers/plugins.py), an exec shell (run_exec_session), *)
(* and the sockets that only tail a job (stream_job). Coroutines of one event *)
(* loop: an action runs from one await to the next, and between two of them   *)
(* come other sessions, threads, processes and API requests.                  *)
EXTENDS JobRegistry

CONSTANTS Clients,   \* sockets opened during a run
          NoClient,
          Faults     \* "abort": jobs are aborted; "send": a send fails once the client is gone

ASSUME SessionAssumption == NoClient \notin Clients

VARIABLES mode,         \* what the sockets of this key are for; never changes
          provisioned,  \* the compose project has ComposeService rows
          slot,         \* the client in interactive_service._active
          clients

sessionVars == <<mode, provisioned, slot, clients>>
vars == <<registryVars, sessionVars>>

Modes == {"compose", "dockerfile", "exec", "watch"}

ClientType ==
  [pc : {"idle", "ready", "pump", "deserted", "drain", "kill", "killed", "build", "launch",
         "attach", "sample", "read", "code", "exited", "told"},
   job : Jobs \cup {NoJob},           \* what it runs, and later what it streams
   offset : 0..MaxLog,
   code : Codes \cup {"unknown"}]     \* the code of the exit frame; -1 is "unknown"

TypeOK ==
  /\ RegistryTypeOK
  /\ mode \in Modes /\ provisioned \in BOOLEAN
  /\ slot \in Clients \cup {NoClient}
  /\ clients \in [Clients -> ClientType]

Socket(pc) == [pc |-> pc, job |-> NoJob, offset |-> 0, code |-> "none"]

Init ==
  /\ RegistryInit
  /\ mode \in Modes
  /\ provisioned = (mode # "compose")
  /\ slot = NoClient
  /\ clients = [c \in Clients |-> Socket("idle")]

Ended == {"idle", "exited", "told"}
At(c, pc) == clients[c].pc = pc
Goto(c, pc) == clients' = [clients EXCEPT ![c].pc = pc]
Held == {clients[c].job : c \in Clients}
Running(j) == j # NoJob /\ jobs[j].status = "running"

\* The project is provisioned and the build is next.
AboutToBuild(c) == At(c, "launch") \/ (mode = "dockerfile" /\ At(c, "build"))

\* The finally clause: release(key), by the session that acquired it.
Release(c) == slot' = IF slot = c THEN NoClient ELSE slot

\* The session is over without an exit frame.
Leave(c) == clients' = [clients EXCEPT ![c] = Socket("idle")] /\ Release(c)

----------------------------------------------------------------------------
(* Opening: the checks and try_acquire have no await between them *)

\* install_session: a job in flight is tailed, whatever it is.
TailsRunningJob(c) ==
  /\ mode \in {"compose", "dockerfile"} /\ At(c, "idle") /\ Running(registered)
  /\ Goto(c, "attach")
  /\ UNCHANGED <<registryVars, mode, provisioned, slot>>

\* A socket that only watches: deploy_stream_session, or a plugin that is not interactive.
Watches(c) ==
  /\ mode = "watch" /\ At(c, "idle")
  /\ Goto(c, IF registered = NoJob THEN "idle" ELSE "attach")
  /\ UNCHANGED <<registryVars, mode, provisioned, slot>>

\* Mutant: a job in flight does not matter.
AnyJob == TRUE

\* A job in flight keeps an install session out, but not a shell.
NoneInFlight == mode = "exec" \/ ~Running(registered)

\* Mutant: a provisioned project is installed again.
SlotIsFree == slot = NoClient

\* A compose project that has its services is not installed again, and a slot has one session.
MayRun == (mode = "compose" => ~provisioned) /\ slot = NoClient

Opens(c) ==
  /\ mode # "watch" /\ At(c, "idle") /\ NoneInFlight
  /\ IF MayRun THEN slot' = c /\ Goto(c, "ready") ELSE UNCHANGED <<slot, clients>>
  /\ UNCHANGED <<registryVars, mode, provisioned>>

\* The ready frame cannot be sent, or the child or the build cannot be started.
Fails(c) ==
  /\ At(c, "ready") \/ AboutToBuild(c)
  /\ Leave(c)
  /\ UNCHANGED <<registryVars, mode, provisioned>>

----------------------------------------------------------------------------
(* run_session: a child on a pty, an output pump and an input pump *)

Starts(c) ==
  /\ At(c, "ready")
  /\ \E j \in Jobs : /\ Register(j, "install", Held)
                     /\ clients' = [clients EXCEPT ![c].pc = "pump", ![c].job = j]
  /\ UNCHANGED <<mode, provisioned, slot>>

\* The client closes its end, which neither pump has noticed.
Deserts(c) ==
  /\ At(c, "pump")
  /\ Goto(c, "deserted")
  /\ UNCHANGED <<registryVars, mode, provisioned, slot>>

\* End of file: the child has exited; its code is recorded and reported, or, after an
\* install that went well, the build follows.
ChildEnds(c) ==
  /\ clients[c].pc \in {"pump", "deserted", "drain"}
  /\ LET child == jobs[clients[c].job] IN
     /\ child.process = "exited"
     /\ jobs' = FinishRegistered(jobs, clients[c].job, child.code, FALSE)
     /\ IF child.code = "ok" /\ mode # "exec"
        THEN Goto(c, "build") /\ UNCHANGED slot
        ELSE /\ clients' = [clients EXCEPT ![c].pc = "exited", ![c].code = child.code]
             /\ Release(c)
  /\ UNCHANGED <<registered, aborting, mode, provisioned>>

\* Mutant: the session ends and its child runs on.
SeesDisconnectQuietly(c) ==
  /\ At(c, "deserted")
  /\ Leave(c)
  /\ UNCHANGED <<registryVars, mode, provisioned>>

\* The input pump sees the disconnect first.
SeesDisconnect(c) ==
  /\ At(c, "deserted")
  /\ Goto(c, "kill")
  /\ UNCHANGED <<registryVars, mode, provisioned, slot>>

\* The output pump fails to send first: its task is done, as at end of file, and the session
\* waits for the child.
SendFails(c) ==
  /\ "send" \in Faults
  /\ At(c, "deserted") /\ jobs[clients[c].job].log > 0
  /\ Goto(c, "drain")
  /\ UNCHANGED <<registryVars, mode, provisioned, slot>>

\* _kill_process_group returns when the child is dead.
Kills(c) ==
  /\ At(c, "kill")
  /\ jobs' = [jobs EXCEPT ![clients[c].job] =
                IF @.process = "alive" THEN [@ EXCEPT !.process = "exited", !.code = "failed"]
                                       ELSE @]
  /\ Goto(c, "killed")
  /\ UNCHANGED <<registered, aborting, mode, provisioned, slot>>

\* Mutant: the slot is not released.
RecordsKillHolding(c) ==
  /\ At(c, "killed")
  /\ jobs' = FinishRegistered(jobs, clients[c].job, jobs[clients[c].job].code, TRUE)
  /\ clients' = [clients EXCEPT ![c] = Socket("idle")]
  /\ UNCHANGED <<registered, aborting, mode, provisioned, slot>>

RecordsKill(c) ==
  /\ At(c, "killed")
  /\ jobs' = FinishRegistered(jobs, clients[c].job, jobs[clients[c].job].code, TRUE)
  /\ Leave(c)
  /\ UNCHANGED <<registered, aborting, mode, provisioned>>

----------------------------------------------------------------------------
(* After install.sh: the build *)

\* A compose session says so on the socket before it goes on: with nobody there, it ends.
LosesBuild(c) ==
  /\ mode = "compose" /\ At(c, "build")
  /\ Leave(c)
  /\ UNCHANGED <<registryVars, mode, provisioned>>

\* _finish_compose_from_ws in a worker thread; it may raise before the rows are committed.
Provisions(c) ==
  /\ mode = "compose" /\ At(c, "build")
  /\ \/ provisioned' = TRUE /\ Goto(c, "launch") /\ UNCHANGED slot
     \/ Leave(c) /\ UNCHANGED provisioned
  /\ UNCHANGED <<registryVars, mode>>

LaunchesBuild(c) ==
  /\ AboutToBuild(c)
  /\ \E j \in Jobs : Register(j, "deploy", Held)
  /\ Goto(c, "attach")
  /\ UNCHANGED <<mode, provisioned, slot>>

----------------------------------------------------------------------------
(* stream_job *)

\* It keeps the job it found; every session that streams finds one.
Attaches(c) ==
  /\ At(c, "attach")
  /\ clients' = [clients EXCEPT ![c].pc = "sample", ![c].job = registered]
  /\ UNCHANGED <<registryVars, mode, provisioned, slot>>

\* Mutant: the status is not looked at again before the last read.
SamplesOnce(c) ==
  /\ At(c, "sample")
  /\ Goto(c, "read")
  /\ UNCHANGED <<registryVars, mode, provisioned, slot>>

\* The status is sampled before the log is read: the last read follows a sample that was
\* not "running". What is read while the job runs is only part of that.
Samples(c) ==
  /\ At(c, "sample") /\ ~Running(clients[c].job)
  /\ Goto(c, "read")
  /\ UNCHANGED <<registryVars, mode, provisioned, slot>>

Reads(c) ==
  /\ At(c, "read")
  /\ LET job == jobs[clients[c].job] IN
     clients' = [clients EXCEPT ![c].pc = "code",
                                ![c].offset = IF job.kept THEN job.log ELSE @]
  /\ UNCHANGED <<registryVars, mode, provisioned, slot>>

\* It waits a second for the exit code, then sends -1.
SendsExit(c) ==
  /\ At(c, "code")
  /\ LET exit == jobs[clients[c].job].exit IN
     clients' = [clients EXCEPT ![c].pc = "told",
                                ![c].code = IF exit = "none" THEN "unknown" ELSE exit]
  /\ Release(c)
  /\ UNCHANGED <<registryVars, mode, provisioned>>

\* After the exit frame the socket is closed, and the client may come back.
Closes(c) ==
  /\ clients[c].pc \in {"exited", "told"}
  /\ clients' = [clients EXCEPT ![c] = Socket("idle")]
  /\ UNCHANGED <<registryVars, mode, provisioned, slot>>

\* The client goes away; the job goes on.
StopsStreaming(c) ==
  /\ clients[c].pc \in {"attach", "sample", "read", "code"}
  /\ Leave(c)
  /\ UNCHANGED <<registryVars, mode, provisioned>>

----------------------------------------------------------------------------
(* The other side *)

\* A request to the API starts a job under the key: restart, stop or down by _spawn, a deploy.
\* No code stops one while another job is in flight; here it comes when all is quiet.
ApiLaunches ==
  /\ mode # "exec" /\ provisioned
  /\ Quiet /\ slot = NoClient
  /\ \E j \in Jobs, kind \in {"spawned", "deploy"} : Register(j, kind, Held)
  /\ UNCHANGED sessionVars

\* POST abort, or the abort frame of a streaming client.
Aborts ==
  /\ "abort" \in Faults
  /\ AbortLooks
  /\ UNCHANGED sessionVars

Marks == AbortMarks /\ UNCHANGED sessionVars

----------------------------------------------------------------------------
Coroutine(c) ==
  \/ Fails(c) \/ Starts(c) \/ ChildEnds(c) \/ SendFails(c) \/ Kills(c)
  \/ RecordsKill(c) \/ LosesBuild(c) \/ Provisions(c) \/ LaunchesBuild(c)
  \/ Attaches(c) \/ Samples(c) \/ Reads(c) \/ SendsExit(c)

Job(j) == (Writes(j) \/ Exits(j) \/ Threads(j)) /\ UNCHANGED sessionVars

Next ==
  \/ \E c \in Clients :
       TailsRunningJob(c) \/ Watches(c) \/ Opens(c) \/ Coroutine(c)
       \/ Deserts(c) \/ SeesDisconnect(c) \/ StopsStreaming(c) \/ Closes(c)
  \/ \E j \in Jobs : Job(j)
  \/ ApiLaunches \/ Aborts \/ Marks

Spec == Init /\ [][Next]_vars

\* The event loop and the threads run, builds end; an install.sh or a shell need not.
Fairness ==
  /\ \A c \in Clients : WF_vars(Coroutine(c)) /\ WF_vars(SeesDisconnect(c))
  /\ \A j \in Jobs : /\ WF_vars(Threads(j) /\ UNCHANGED sessionVars)
                     /\ WF_vars(jobs[j].kind # "install" /\ Exits(j) /\ UNCHANGED sessionVars)
  /\ WF_vars(Marks)

FairSpec == Spec /\ Fairness

----------------------------------------------------------------------------
(* Properties *)

Undisturbed(j) == j # NoJob /\ jobs[j].status # "aborted" /\ jobs[j].own

\* A client that gets the exit frame of a job it has streamed has been sent the whole log,
\* unless the job was aborted or its log file is gone: the threads write the log before the
\* status changes, and stream_job samples the status before it reads
\* (interactive_service.py:301).
StreamIsComplete ==
  \A c \in Clients :
    LET j == clients[c].job IN
    At(c, "told") /\ Undisturbed(j) /\ jobs[j].kept => clients[c].offset = jobs[j].log

\* The exit frame of a job that was not aborted has the outcome of a process that has ended,
\* and it is the one the registry has (interactive_service.py:315).
ToldTheOutcome ==
  \A c \in Clients :
    LET j == clients[c].job IN
    clients[c].pc \in {"told", "exited"} /\ Undisturbed(j)
      => /\ jobs[j].process = "exited"
         /\ clients[c].code = jobs[j].exit
         /\ clients[c].code = "ok" <=> jobs[j].status = "done"

Finishes(j) ==
  \/ jobs[j].thread \in {"waiting", "finishing"}
  \/ \E c \in Clients : /\ clients[c].job = j
                        /\ clients[c].pc \in {"pump", "deserted", "drain", "kill", "killed"}

\* finish_external_job goes by key: it would put the outcome down to whatever job is there.
\* While something is still to report the outcome of a job, the job is the one under its
\* key, unless an abort has freed the key (docker_service.py:151).
OutcomesStayApart ==
  \A j \in Used : Finishes(j) /\ Undisturbed(j) => j = registered

\* install.sh (or a shell) runs only while its session holds the slot: nothing is left
\* running when a session is over, however it ended (interactive_service.py:225).
InstallsHoldTheSlot ==
  \A j \in Used :
    jobs[j].kind = "install" /\ jobs[j].process = "alive"
      => slot # NoClient /\ clients[slot].job = j

\* The pre phase of a compose plugin never runs on a project that has its services already
\* (plugins.py:400), and never beside a build of it.
PreRunsOnFreshProject ==
  \A j \in Used :
    mode = "compose" /\ jobs[j].kind = "install" /\ jobs[j].process = "alive"
      => ~provisioned /\ \A k \in Used : jobs[k].kind = "install" \/ jobs[k].thread = "over"

StreamsBuild(c) == clients[c].job # NoJob /\ jobs[clients[c].job].kind # "install"

\* A session whose client has gone ends, and frees the slot; one that streams a build ends
\* with it (interactive_service.py:106).
SessionsEnd ==
  \A c \in Clients :
    At(c, "deserted") \/ StreamsBuild(c) ~> clients[c].pc \in Ended /\ slot # c
=============================================================================
