-------------------------- MODULE InstallSessionProofs --------------------------
(* Proofs about InstallSession, for any number of jobs, clients and writes,  *)
(* whatever is aborted and whichever sends fail.                             *)
(*                                                                           *)
(* The properties of InstallSession all rest on one invariant, IInv: what     *)
(* the session that has the slot does, what a job's outcome is before and     *)
(* after it is reported, and what a client has been sent of it.              *)
EXTENDS InstallSession, TLAPS

\* Where a session is while its child may run, and while it keeps the slot.
Runs == {"pump", "deserted", "drain", "kill", "killed"}
Keeps == Runs \cup {"ready", "build", "launch"}

Runner(c) == clients[c].pc \in Runs

\* Something is still to report the outcome of the job.
Pending(j) ==
  \/ jobs[j].thread \in {"new", "waiting", "finishing"}
  \/ \E c \in Clients : Runner(c) /\ clients[c].job = j

\* Nobody else's outcome was put down to the job, and it was not aborted.
Clean(j) == jobs[j].own /\ jobs[j].status # "aborted"

\* What is referred to is there, and threads and processes are in step.
ObjectsExist ==
  /\ \A j \in Jobs : jobs[j].kind = "none" => jobs[j] = Unused
  /\ registered # NoJob \/ Used # {} => registered \in Used
  /\ aborting # NoJob => aborting \in Used
  /\ \A c \in Clients : /\ clients[c].job # NoJob => clients[c].job \in Used
                        /\ clients[c].pc = "attach" => registered \in Used

ObjectIsSound(j) ==
  /\ jobs[j].process # "none"
  /\ jobs[j].process = "exited" => jobs[j].code \in {"ok", "failed"}
  /\ jobs[j].kind = "install" => jobs[j].thread = "none"
  /\ jobs[j].thread = "finishing" => jobs[j].process = "exited"
  /\ jobs[j].thread = "waiting" => jobs[j].target \in Used

\* The outcome of a job is reported once, while it is registered, and stays.
OutcomeIsSound(j) ==
  Clean(j) =>
    IF Pending(j)
    THEN /\ jobs[j].status = "running" /\ j = registered
         /\ jobs[j].thread = "waiting" => jobs[j].target = j
    ELSE /\ jobs[j].status \in {"done", "error"} /\ jobs[j].process = "exited"
         /\ jobs[j].exit \in {"ok", "failed"}
         /\ jobs[j].exit = "ok" <=> jobs[j].status = "done"

\* A child that runs is that of the session with the slot.
ChildIsHeld(j) ==
  jobs[j].kind = "install" /\ jobs[j].process = "alive" =>
    \E c \in Clients : /\ slot = c /\ clients[c].job = j
                       /\ clients[c].pc \in Runs \ {"killed"}

\* A session about to start something finds nothing that is still to be reported; the
\* services of a compose project come after its install.
SessionIsSound(c) ==
  /\ clients[c].pc \in Keeps => slot = c
  /\ clients[c].pc \in Ended => slot # c
  /\ Runner(c) => clients[c].job \in Used /\ jobs[clients[c].job].kind = "install"
  /\ clients[c].pc \in {"ready", "build", "launch"} =>
       \A j \in Used : Clean(j) => ~Pending(j)
  /\ clients[c].pc = "launch" => mode = "compose" /\ provisioned
  /\ mode = "compose" /\ clients[c].pc \in Keeps \ {"launch"} => ~provisioned

\* What a client has been told of a job that is over.
TellsTheTruth(c) ==
  LET j == clients[c].job IN
  /\ clients[c].pc \in {"sample", "read", "code", "told", "exited"} => j \in Used
  /\ clients[c].pc \in {"read", "code", "told", "exited"} /\ Clean(j) =>
       jobs[j].status # "running"
  /\ clients[c].pc \in {"code", "told"} /\ Clean(j) /\ jobs[j].kept =>
       clients[c].offset = jobs[j].log
  /\ clients[c].pc \in {"told", "exited"} /\ Clean(j) => clients[c].code = jobs[j].exit

\* Before there is anything to build, there are only installs (and shells).
OnlyInstalls ==
  mode = "exec" \/ (mode = "compose" /\ ~provisioned) =>
    \A j \in Used : jobs[j].kind = "install"

IInv ==
  /\ TypeOK
  /\ ObjectsExist
  /\ \A j \in Used : ObjectIsSound(j) /\ OutcomeIsSound(j) /\ ChildIsHeld(j)
  /\ \A c \in Clients : SessionIsSound(c) /\ TellsTheTruth(c)
  /\ OnlyInstalls

----------------------------------------------------------------------------
(* The invariant at the start, and what it says in the shapes the steps use *)

LEMMA JobFields ==
  ASSUME TypeOK, NEW j \in Jobs
  PROVE  /\ jobs[j] \in JobType /\ jobs[j].kind \in Kinds /\ jobs[j].status \in Statuses
         /\ jobs[j].exit \in Codes /\ jobs[j].code \in Codes /\ jobs[j].log \in 0..MaxLog
         /\ jobs[j].process \in {"none", "alive", "exited"}
         /\ jobs[j].kept \in BOOLEAN /\ jobs[j].own \in BOOLEAN
         /\ jobs[j].thread \in {"none", "new", "waiting", "finishing", "over"}
         /\ jobs[j].target \in Jobs \cup {NoJob}
<1>1. jobs[j] \in JobType
  BY DEF TypeOK, RegistryTypeOK
<1>2. QED
  BY <1>1 DEF JobType

LEMMA ClientFields ==
  ASSUME TypeOK, NEW c \in Clients
  PROVE  /\ clients[c] \in ClientType /\ clients[c].job \in Jobs \cup {NoJob}
         /\ clients[c].offset \in 0..MaxLog /\ clients[c].code \in Codes \cup {"unknown"}
<1>1. clients[c] \in ClientType
  BY DEF TypeOK
<1>2. QED
  BY <1>1 DEF ClientType

LEMMA JobsArePositive == NoJob \notin Jobs
BY RegistryAssumption DEF NoJob, Jobs

LEMMA InitIsSound == Init => IInv
<1> SUFFICES ASSUME Init PROVE IInv
  OBVIOUS
<1>1. Unused \in JobType /\ Socket("idle") \in ClientType
  <2>1. 0 \in 0..MaxLog
    BY RegistryAssumption
  <2>2. QED
    BY <2>1 DEF Unused, JobType, Socket, ClientType, Kinds, Statuses, Codes, NoJob
<1>2. TypeOK
  BY <1>1 DEF Init, RegistryInit, TypeOK, RegistryTypeOK, Modes
<1>3. /\ \A j \in Jobs : jobs[j] = Unused
      /\ \A c \in Clients : clients[c] = Socket("idle")
      /\ registered = NoJob /\ aborting = NoJob /\ slot = NoClient
  BY DEF Init, RegistryInit
<1>4. Used = {}
  BY <1>3 DEF Used, Unused
<1>5. \A c \in Clients : clients[c].pc = "idle" /\ clients[c].job = NoJob
  BY <1>3 DEF Socket
<1>6. ObjectsExist
  BY <1>3, <1>4, <1>5 DEF ObjectsExist
<1>7. ASSUME NEW c \in Clients PROVE SessionIsSound(c) /\ TellsTheTruth(c)
  BY <1>3, <1>4, <1>5, SessionAssumption
     DEF SessionIsSound, TellsTheTruth, Keeps, Runs, Ended, Runner
<1>8. QED
  BY <1>2, <1>4, <1>6, <1>7 DEF IInv, OnlyInstalls

\* What is reported and clean is under its key, and runs; what is over has its outcome.
LEMMA Outcomes ==
  ASSUME IInv, NEW j \in Used, Clean(j)
  PROVE  /\ Pending(j) => jobs[j].status = "running" /\ j = registered
         /\ Pending(j) /\ jobs[j].thread = "waiting" => jobs[j].target = j
         /\ ~Pending(j) => /\ jobs[j].status \in {"done", "error"} /\ jobs[j].process = "exited"
                           /\ jobs[j].exit \in {"ok", "failed"}
                           /\ jobs[j].exit = "ok" <=> jobs[j].status = "done"
BY DEF IInv, OutcomeIsSound

\* The slot has one session.
LEMMA OneHolder ==
  ASSUME IInv, NEW c \in Clients, NEW d \in Clients,
         clients[c].pc \in Keeps \/ slot = c, clients[d].pc \in Keeps
  PROVE  c = d
BY DEF IInv, SessionIsSound

LEMMA RunnerHasChild ==
  ASSUME IInv, NEW c \in Clients, Runner(c)
  PROVE  /\ slot = c /\ clients[c].job \in Used /\ jobs[clients[c].job].kind = "install"
         /\ jobs[clients[c].job].thread = "none" /\ Pending(clients[c].job)
         /\ clients[c].pc = "killed" => jobs[clients[c].job].process = "exited"
         /\ clients[c].pc \in Keeps /\ (mode = "compose" => ~provisioned)
<1>1. clients[c].pc \in Keeps /\ clients[c].pc \in Keeps \ {"launch"}
  BY DEF Runner, Runs, Keeps
<1>2. slot = c /\ clients[c].job \in Used /\ jobs[clients[c].job].kind = "install"
  BY <1>1 DEF IInv, SessionIsSound
<1>3. jobs[clients[c].job].thread = "none" /\ jobs[clients[c].job].process # "none"
  BY <1>2 DEF IInv, ObjectIsSound
<1>4. ASSUME clients[c].pc = "killed", jobs[clients[c].job].process = "alive" PROVE FALSE
  <2>1. PICK d \in Clients : slot = d /\ clients[d].pc \in Runs \ {"killed"}
    BY <1>2, <1>4 DEF IInv, ChildIsHeld
  <2>2. QED
    BY <1>2, <1>4, <2>1
<1>5. jobs[clients[c].job].process \in {"none", "alive", "exited"}
  BY <1>2, JobFields DEF IInv, Used
<1>6. QED
  BY <1>1, <1>2, <1>3, <1>4, <1>5 DEF Pending, IInv, SessionIsSound

----------------------------------------------------------------------------
(* Steps of sessions that leave the registry alone *)

\* A client that does not move keeps what holds of it, while its job's outcome stays and
\* nothing that is to be reported appears beside a session that relies on there being nothing.
LEMMA Bystander ==
  ASSUME IInv, NEW d \in Clients, clients'[d] = clients[d],
         slot' = d <=> slot = d, UNCHANGED mode,
         clients[d].pc \in Keeps => UNCHANGED provisioned,
         clients[d].job \in Used =>
           /\ clients[d].job \in Used'
           /\ jobs'[clients[d].job].kind = jobs[clients[d].job].kind
           /\ Clean(clients[d].job)' => Clean(clients[d].job)
           /\ Clean(clients[d].job)' /\ jobs[clients[d].job].status # "running" =>
                /\ jobs'[clients[d].job].status = jobs[clients[d].job].status
                /\ jobs'[clients[d].job].exit = jobs[clients[d].job].exit
                /\ jobs'[clients[d].job].log = jobs[clients[d].job].log
                /\ jobs'[clients[d].job].kept => jobs[clients[d].job].kept,
         clients[d].pc \in {"ready", "build", "launch"} =>
           \A k \in Used' : Clean(k)' /\ Pending(k)' => k \in Used /\ Clean(k) /\ Pending(k)
  PROVE  SessionIsSound(d)' /\ TellsTheTruth(d)'
<1>1. SessionIsSound(d) /\ TellsTheTruth(d)
  BY DEF IInv
<1>2. clients[d].pc \in {"ready", "build", "launch"} => clients[d].pc \in Keeps
  BY DEF Keeps
<1>3. Runner(d)' <=> Runner(d)
  BY DEF Runner
<1>4. Runner(d) => clients[d].pc \in Keeps
  BY DEF Runner, Runs, Keeps
<1>5. SessionIsSound(d)'
  <2>1. /\ clients'[d].pc \in Keeps => slot' = d
        /\ clients'[d].pc \in Ended => slot' # d
    BY <1>1 DEF SessionIsSound
  <2>2. Runner(d)' => clients'[d].job \in Used' /\ jobs'[clients'[d].job].kind = "install"
    BY <1>1, <1>3 DEF SessionIsSound
  <2>3. clients'[d].pc \in {"ready", "build", "launch"} =>
          \A j \in Used' : Clean(j)' => ~Pending(j)'
    BY <1>1 DEF SessionIsSound
  <2>4. /\ clients'[d].pc = "launch" => mode' = "compose" /\ provisioned'
        /\ mode' = "compose" /\ clients'[d].pc \in Keeps \ {"launch"} => ~provisioned'
    BY <1>1, <1>2 DEF SessionIsSound
  <2>5. QED
    BY <2>1, <2>2, <2>3, <2>4 DEF SessionIsSound
<1>6. TellsTheTruth(d)'
  <2>1. clients[d].pc \in {"sample", "read", "code", "told", "exited"} => clients[d].job \in Used
    BY <1>1 DEF TellsTheTruth
  <2>2. QED
    BY <1>1, <2>1 DEF TellsTheTruth
<1>7. QED
  BY <1>5, <1>6

\* A session moves: who runs a child still does, and the registry stays as it is.
LEMMA SessionStep ==
  ASSUME IInv, NEW c \in Clients, NEW new \in ClientType,
         clients' = [clients EXCEPT ![c] = new],
         UNCHANGED <<registryVars, mode>>, slot' \in Clients \cup {NoClient},
         provisioned' \in BOOLEAN, provisioned => provisioned',
         provisioned' # provisioned => slot = c,
         \A d \in Clients : d # c => (slot' = d <=> slot = d),
         new.pc \in Runs <=> Runner(c),
         Runner(c) => new.job = clients[c].job /\ slot' = slot /\ new.pc # "killed",
         new.job # NoJob => new.job \in Used,
         new.pc = "attach" => registered \in Used,
         SessionIsSound(c)', TellsTheTruth(c)'
  PROVE  IInv'
<1>1. UNCHANGED <<jobs, registered, aborting, mode>>
  BY DEF registryVars
<1>2. clients'[c] = new /\ \A d \in Clients : d # c => clients'[d] = clients[d]
  BY DEF IInv, TypeOK
<1>3. Used' = Used /\ \A j : Clean(j)' <=> Clean(j)
  BY <1>1 DEF Used, Clean
<1>4. \A j \in Jobs : Pending(j)' <=> Pending(j)
  BY <1>1, <1>2 DEF Pending, Runner
<1>5. TypeOK'
  BY <1>1 DEF IInv, TypeOK, RegistryTypeOK
<1>6. ObjectsExist'
  <2>1. ObjectsExist
    BY DEF IInv
  <2>2. ASSUME NEW d \in Clients
        PROVE  /\ clients'[d].job # NoJob => clients'[d].job \in Used'
               /\ clients'[d].pc = "attach" => registered' \in Used'
    BY <1>1, <1>2, <1>3, <2>1 DEF ObjectsExist
  <2>3. QED
    BY <1>1, <1>3, <2>1, <2>2 DEF ObjectsExist
<1>7. ASSUME NEW j \in Used PROVE ObjectIsSound(j)' /\ OutcomeIsSound(j)' /\ ChildIsHeld(j)'
  <2>1. ObjectIsSound(j) /\ OutcomeIsSound(j) /\ ChildIsHeld(j) /\ j \in Jobs
    BY DEF IInv, Used
  <2>2. ObjectIsSound(j)'
    BY <1>1, <1>3, <2>1 DEF ObjectIsSound
  <2>3. OutcomeIsSound(j)'
    BY <1>1, <1>3, <1>4, <2>1 DEF OutcomeIsSound
  <2>4. ChildIsHeld(j)'
    <3>1. SUFFICES ASSUME jobs[j].kind = "install", jobs[j].process = "alive"
                   PROVE  \E d \in Clients : /\ slot' = d /\ clients'[d].job = j
                                             /\ clients'[d].pc \in Runs \ {"killed"}
      BY <1>1 DEF ChildIsHeld
    <3>2. PICK d \in Clients : /\ slot = d /\ clients[d].job = j
                               /\ clients[d].pc \in Runs \ {"killed"}
      BY <2>1, <3>1 DEF ChildIsHeld
    <3>3. QED
      BY <1>2, <3>2 DEF Runner
  <2>5. QED
    BY <2>2, <2>3, <2>4
<1>8. ASSUME NEW d \in Clients PROVE SessionIsSound(d)' /\ TellsTheTruth(d)'
  <2>1. CASE d = c
    BY <2>1
  <2>2. CASE d # c
    <3>1. clients[d].pc \in Keeps => UNCHANGED provisioned
      BY <2>2, OneHolder DEF IInv, SessionIsSound
    <3>2. \A k \in Used' : Clean(k)' /\ Pending(k)' => k \in Used /\ Clean(k) /\ Pending(k)
      BY <1>3, <1>4 DEF Used
    <3>3. QED
      BY <1>1, <1>2, <1>3, <2>2, <3>1, <3>2, Bystander
  <2>3. QED
    BY <2>1, <2>2
<1>9. OnlyInstalls'
  BY <1>1, <1>3 DEF IInv, OnlyInstalls
<1>10. QED
  BY <1>3, <1>5, <1>6, <1>7, <1>8, <1>9 DEF IInv

\* A session that has no child goes where it does not need the slot.
LEMMA Passes ==
  ASSUME IInv, NEW c \in Clients, NEW new \in ClientType,
         clients' = [clients EXCEPT ![c] = new],
         UNCHANGED <<registryVars, mode, provisioned>>, slot' = slot \/ Release(c),
         ~Runner(c), new.pc \in {"idle", "attach", "sample", "read", "code", "told"},
         new.pc \in {"idle", "told"} => slot' # c,
         new.job # NoJob => new.job \in Used, new.pc = "attach" => registered \in Used,
         TellsTheTruth(c)'
  PROVE  IInv'
<1>1. clients'[c] = new
  BY DEF IInv, TypeOK
<1>2. SessionIsSound(c)'
  BY <1>1 DEF SessionIsSound, Keeps, Runs, Ended, Runner
<1>3. slot' \in Clients \cup {NoClient} /\ \A d \in Clients : d # c => (slot' = d <=> slot = d)
  BY SessionAssumption DEF IInv, TypeOK, Release
<1>4. new.pc \in Runs <=> Runner(c)
  BY DEF Runs
<1>5. /\ UNCHANGED <<registryVars, mode>> /\ provisioned' \in BOOLEAN
      /\ (provisioned => provisioned') /\ (provisioned' # provisioned => slot = c)
  BY DEF IInv, TypeOK
<1>6. Runner(c) => new.job = clients[c].job /\ slot' = slot /\ new.pc # "killed"
  OBVIOUS
<1>7. QED
  BY <1>2, <1>3, <1>4, <1>5, <1>6, SessionStep

LEMMA SocketTyped ==
  /\ Socket("idle") \in ClientType /\ Socket("idle").pc = "idle" /\ Socket("idle").job = NoJob
BY RegistryAssumption DEF Socket, ClientType, Codes, NoJob

LEMMA LeaveStep ==
  ASSUME IInv, NEW c \in Clients, Leave(c), UNCHANGED <<registryVars, mode, provisioned>>,
         ~Runner(c)
  PROVE  IInv'
<1>1. clients' = [clients EXCEPT ![c] = Socket("idle")] /\ Release(c) /\ slot' # c
  BY SessionAssumption DEF Leave, Release
<1>2. clients'[c] = Socket("idle")
  BY <1>1 DEF IInv, TypeOK
<1>3. TellsTheTruth(c)'
  BY <1>2, SocketTyped DEF TellsTheTruth
<1>4. QED
  BY <1>1, <1>3, SocketTyped, Passes

\* Only the place of a session changes.
LEMMA PlaceTyped ==
  ASSUME TypeOK, NEW c \in Clients,
         NEW pc \in {"idle", "ready", "pump", "deserted", "drain", "kill", "killed", "build",
                     "launch", "attach", "sample", "read", "code", "exited", "told"},
         Goto(c, pc)
  PROVE  \E new \in ClientType :
           /\ clients' = [clients EXCEPT ![c] = new] /\ clients'[c] = new
           /\ new.pc = pc /\ new.job = clients[c].job /\ new.offset = clients[c].offset
           /\ new.code = clients[c].code
<1> DEFINE new == [clients[c] EXCEPT !.pc = pc]
<1>1. clients[c] \in ClientType
  BY DEF TypeOK
<1>2. new \in ClientType /\ new.pc = pc /\ new.job = clients[c].job
  BY <1>1 DEF ClientType
<1>3. new.offset = clients[c].offset /\ new.code = clients[c].code
  BY <1>1 DEF ClientType
<1>4. clients' = [clients EXCEPT ![c] = new] /\ clients'[c] = new
  BY DEF Goto, TypeOK
<1>5. QED
  BY <1>2, <1>3, <1>4

LEMMA GoneJobs ==
  ASSUME IInv, NEW c \in Clients
  PROVE  /\ clients[c].job # NoJob => clients[c].job \in Used
         /\ Runner(c) <=> clients[c].pc \in Runs
BY DEF IInv, ObjectsExist, Runner

LEMMA OpeningSteps ==
  ASSUME IInv, NEW c \in Clients, TailsRunningJob(c) \/ Watches(c) \/ Fails(c)
  PROVE  IInv'
<1>1. CASE (TailsRunningJob(c) \/ Watches(c)) /\ Goto(c, "attach")
  <2>1. At(c, "idle") /\ UNCHANGED <<registryVars, mode, provisioned, slot>> /\ registered # NoJob
    <3>1. CASE TailsRunningJob(c)
      BY <3>1 DEF TailsRunningJob, Running
    <3>2. CASE Watches(c) /\ registered # NoJob
      BY <3>2 DEF Watches
    <3>3. CASE Watches(c) /\ registered = NoJob
      <4>1. Goto(c, "idle") /\ clients'[c].pc = "idle"
        BY <3>3 DEF Watches, Goto, IInv, TypeOK, ClientType
      <4>2. clients'[c].pc = "attach"
        BY <1>1 DEF Goto, IInv, TypeOK, ClientType
      <4>3. QED
        BY <4>1, <4>2
    <3>4. QED
      BY <1>1, <3>1, <3>2, <3>3
  <2>2. PICK new \in ClientType :
          /\ clients' = [clients EXCEPT ![c] = new] /\ clients'[c] = new
          /\ new.pc = "attach" /\ new.job = clients[c].job
    BY <1>1, PlaceTyped DEF IInv
  <2>3. registered \in Used
    BY <2>1 DEF IInv, ObjectsExist
  <2>4. ~Runner(c)
    BY <2>1 DEF Runner, Runs, At
  <2>5. TellsTheTruth(c)'
    BY <2>2 DEF TellsTheTruth
  <2>6. QED
    BY <2>1, <2>2, <2>3, <2>4, <2>5, GoneJobs, Passes
<1>2. CASE Watches(c) /\ Goto(c, "idle")
  <2>1. At(c, "idle") /\ UNCHANGED <<registryVars, mode, provisioned, slot>>
    BY <1>2 DEF Watches
  <2>2. PICK new \in ClientType :
          /\ clients' = [clients EXCEPT ![c] = new] /\ clients'[c] = new
          /\ new.pc = "idle" /\ new.job = clients[c].job
    BY <1>2, PlaceTyped DEF IInv
  <2>3. ~Runner(c) /\ slot # c
    BY <2>1 DEF Runner, Runs, At, IInv, SessionIsSound, Ended
  <2>4. TellsTheTruth(c)'
    BY <2>2 DEF TellsTheTruth
  <2>5. QED
    BY <2>1, <2>2, <2>3, <2>4, GoneJobs, Passes
<1>3. CASE Fails(c)
  <2>1. Leave(c) /\ UNCHANGED <<registryVars, mode, provisioned>> /\ ~Runner(c)
    BY <1>3 DEF Fails, AboutToBuild, At, Runner, Runs
  <2>2. QED
    BY <2>1, LeaveStep
<1>4. TailsRunningJob(c) => Goto(c, "attach")
  BY DEF TailsRunningJob
<1>5. Watches(c) => Goto(c, "attach") \/ Goto(c, "idle")
  BY DEF Watches
<1>6. QED
  BY <1>1, <1>2, <1>3, <1>4, <1>5

\* A new session finds nothing that is still to be reported: a job in flight, or a runner,
\* would keep it out.
LEMMA OpensStep ==
  ASSUME IInv, NEW c \in Clients, Opens(c), MayRun
  PROVE  IInv'
<1>1. /\ At(c, "idle") /\ NoneInFlight /\ slot' = c /\ Goto(c, "ready") /\ slot = NoClient
      /\ UNCHANGED <<registryVars, mode, provisioned>> /\ (mode = "compose" => ~provisioned)
  BY DEF Opens, MayRun
<1>2. PICK new \in ClientType :
        /\ clients' = [clients EXCEPT ![c] = new] /\ clients'[c] = new
        /\ new.pc = "ready" /\ new.job = clients[c].job
  BY <1>1, PlaceTyped DEF IInv
<1>3. \A d \in Clients : ~Runner(d)
  BY <1>1, RunnerHasChild, SessionAssumption
<1>4. ASSUME NEW j \in Used, Clean(j), Pending(j) PROVE FALSE
  <2>1. jobs[j].status = "running" /\ j = registered /\ j # NoJob
    BY <1>4, Outcomes, JobsArePositive DEF Used
  <2>2. mode = "exec"
    BY <1>1, <2>1 DEF NoneInFlight, Running
  <2>3. jobs[j].thread = "none"
    BY <2>2 DEF IInv, OnlyInstalls, ObjectIsSound
  <2>4. QED
    BY <1>3, <1>4, <2>3 DEF Pending
<1>5. \A j \in Used' : Clean(j)' => ~Pending(j)'
  <2>1. UNCHANGED <<jobs, registered>> /\ Used' = Used
    BY <1>1 DEF registryVars, Used
  <2>2. \A d \in Clients : ~Runner(d)'
    BY <1>1, <1>2, <1>3 DEF Runner, Runs, IInv, TypeOK
  <2>3. QED
    BY <1>4, <2>1, <2>2 DEF Clean, Pending
<1>6. SessionIsSound(c)' /\ TellsTheTruth(c)'
  BY <1>1, <1>2, <1>5 DEF SessionIsSound, TellsTheTruth, Keeps, Runs, Ended, Runner
<1>7. /\ slot' \in Clients \cup {NoClient}
      /\ \A d \in Clients : d # c => (slot' = d <=> slot = d)
  BY <1>1, SessionAssumption
<1>8. (new.pc \in Runs <=> Runner(c)) /\ new.pc # "attach"
  BY <1>2, <1>3 DEF Runs
<1>9. /\ provisioned' \in BOOLEAN /\ (provisioned => provisioned')
      /\ (provisioned' # provisioned => slot = c)
  BY <1>1 DEF IInv, TypeOK
<1>10. Runner(c) => new.job = clients[c].job /\ slot' = slot /\ new.pc # "killed"
  BY <1>3
<1>11. QED
  BY <1>1, <1>2, <1>6, <1>7, <1>8, <1>9, <1>10, GoneJobs, SessionStep

LEMMA OpensOrNot ==
  ASSUME IInv, NEW c \in Clients, Opens(c)
  PROVE  IInv' \/ UNCHANGED vars
<1>1. CASE ~MayRun
  BY <1>1 DEF Opens, vars, sessionVars
<1>2. QED
  BY <1>1, OpensStep

\* The pumps notice that the client has gone; the child is not touched yet.
LEMMA PumpSteps ==
  ASSUME IInv, NEW c \in Clients, Deserts(c) \/ SeesDisconnect(c) \/ SendFails(c)
  PROVE  IInv'
<1>1. /\ clients[c].pc \in {"pump", "deserted"}
      /\ UNCHANGED <<registryVars, mode, provisioned, slot>>
  BY DEF Deserts, SeesDisconnect, SendFails, At
<1>2. PICK pc \in {"deserted", "kill", "drain"} : Goto(c, pc)
  BY DEF Deserts, SeesDisconnect, SendFails
<1>3. PICK new \in ClientType :
        /\ clients' = [clients EXCEPT ![c] = new] /\ clients'[c] = new
        /\ new.pc = pc /\ new.job = clients[c].job
  BY <1>2, PlaceTyped DEF IInv
<1>4. Runner(c) /\ new.pc \in Runs /\ new.pc \in Keeps \ {"launch"}
  BY <1>1, <1>2, <1>3 DEF Runner, Runs, Keeps
<1>5. /\ slot = c /\ clients[c].job \in Used /\ jobs[clients[c].job].kind = "install"
      /\ (mode = "compose" => ~provisioned)
  BY <1>4, RunnerHasChild
<1>6. UNCHANGED <<jobs, registered>> /\ Used' = Used
  BY <1>1 DEF registryVars, Used
<1>7. SessionIsSound(c)'
  BY <1>1, <1>2, <1>3, <1>4, <1>5, <1>6 DEF SessionIsSound, Runner, Ended
<1>8. TellsTheTruth(c)'
  BY <1>2, <1>3 DEF TellsTheTruth
<1>9. /\ provisioned' \in BOOLEAN /\ (provisioned => provisioned')
      /\ slot' \in Clients \cup {NoClient}
  BY <1>1 DEF IInv, TypeOK
<1>10. (new.pc \in Runs <=> Runner(c)) /\ new.pc # "attach" /\ new.pc # "killed"
  BY <1>2, <1>3, <1>4
<1>11. QED
  BY <1>1, <1>3, <1>5, <1>7, <1>8, <1>9, <1>10, GoneJobs, SessionStep

LEMMA LosesOrStops ==
  ASSUME IInv, NEW c \in Clients, LosesBuild(c) \/ StopsStreaming(c)
  PROVE  IInv'
<1>1. Leave(c) /\ UNCHANGED <<registryVars, mode, provisioned>> /\ ~Runner(c)
  BY DEF LosesBuild, StopsStreaming, At, Runner, Runs
<1>2. QED
  BY <1>1, LeaveStep

LEMMA ProvisionsStep ==
  ASSUME IInv, NEW c \in Clients, Provisions(c)
  PROVE  IInv'
<1>1. /\ mode = "compose" /\ clients[c].pc = "build" /\ UNCHANGED <<registryVars, mode>>
  BY DEF Provisions, At
<1>2. ~Runner(c) /\ clients[c].pc \in Keeps /\ slot = c
  BY <1>1 DEF Runner, Runs, Keeps, IInv, SessionIsSound
<1>3. CASE Leave(c) /\ UNCHANGED provisioned
  BY <1>1, <1>2, <1>3, LeaveStep
<1>4. CASE provisioned' = TRUE /\ Goto(c, "launch") /\ UNCHANGED slot
  <2>1. PICK new \in ClientType :
          /\ clients' = [clients EXCEPT ![c] = new] /\ clients'[c] = new
          /\ new.pc = "launch" /\ new.job = clients[c].job
    BY <1>4, PlaceTyped DEF IInv
  <2>2. \A j \in Used' : Clean(j)' => ~Pending(j)'
    <3>1. UNCHANGED <<jobs, registered>> /\ Used' = Used
      BY <1>1 DEF registryVars, Used
    <3>2. \A d \in Clients : Runner(d)' => Runner(d) /\ clients'[d].job = clients[d].job
      BY <2>1 DEF Runner, Runs, IInv, TypeOK
    <3>3. \A j \in Used : Clean(j) => ~Pending(j)
      BY <1>1 DEF IInv, SessionIsSound
    <3>4. QED
      BY <3>1, <3>2, <3>3 DEF Clean, Pending
  <2>3. SessionIsSound(c)' /\ TellsTheTruth(c)'
    BY <1>1, <1>2, <1>4, <2>1, <2>2
       DEF SessionIsSound, TellsTheTruth, Keeps, Runs, Ended, Runner
  <2>4. /\ slot' \in Clients \cup {NoClient}
        /\ \A d \in Clients : d # c => (slot' = d <=> slot = d)
    BY <1>4 DEF IInv, TypeOK
  <2>5. (new.pc \in Runs <=> Runner(c)) /\ new.pc # "attach"
    BY <1>2, <2>1 DEF Runs
  <2>6. /\ provisioned' \in BOOLEAN /\ (provisioned => provisioned')
        /\ (provisioned' # provisioned => slot = c)
    BY <1>2, <1>4
  <2>7. Runner(c) => new.job = clients[c].job /\ slot' = slot /\ new.pc # "killed"
    BY <1>2
  <2>8. QED
    BY <1>1, <2>1, <2>3, <2>4, <2>5, <2>6, <2>7, GoneJobs, SessionStep
<1>5. QED
  BY <1>3, <1>4 DEF Provisions

----------------------------------------------------------------------------
(* stream_job *)

\* A job whose status is not "running" has been reported, unless it is not clean.
LEMMA OverIsReported ==
  ASSUME IInv, NEW j \in Used, Clean(j), jobs[j].status # "running"
  PROVE  /\ ~Pending(j) /\ jobs[j].exit \in {"ok", "failed"} /\ jobs[j].process = "exited"
         /\ jobs[j].exit = "ok" <=> jobs[j].status = "done"
BY Outcomes

LEMMA AttachesStep ==
  ASSUME IInv, NEW c \in Clients, Attaches(c)
  PROVE  IInv'
<1> DEFINE new == [clients[c] EXCEPT !.pc = "sample", !.job = registered]
<1>1. /\ clients[c].pc = "attach" /\ UNCHANGED <<registryVars, mode, provisioned, slot>>
      /\ clients' = [clients EXCEPT ![c] = new]
  BY DEF Attaches, At
<1>2. registered \in Used /\ registered \in Jobs
  BY <1>1 DEF IInv, ObjectsExist, Used
<1>3. new \in ClientType /\ new.pc = "sample" /\ new.job = registered
  BY <1>2, ClientFields DEF IInv, ClientType
<1>4. clients'[c] = new
  BY <1>1 DEF IInv, TypeOK
<1>5. ~Runner(c)
  BY <1>1 DEF Runner, Runs
<1>6. Used' = Used
  BY <1>1 DEF registryVars, Used
<1> HIDE DEF new
<1>7. TellsTheTruth(c)'
  BY <1>2, <1>3, <1>4, <1>6 DEF TellsTheTruth
<1>8. QED
  BY <1>1, <1>2, <1>3, <1>5, <1>7, Passes

LEMMA SamplesStep ==
  ASSUME IInv, NEW c \in Clients, Samples(c)
  PROVE  IInv'
<1>1. /\ clients[c].pc = "sample" /\ ~Running(clients[c].job) /\ Goto(c, "read")
      /\ UNCHANGED <<registryVars, mode, provisioned, slot>>
  BY DEF Samples, At
<1>2. PICK new \in ClientType :
        /\ clients' = [clients EXCEPT ![c] = new] /\ clients'[c] = new
        /\ new.pc = "read" /\ new.job = clients[c].job
  BY <1>1, PlaceTyped DEF IInv
<1>3. clients[c].job \in Used /\ jobs[clients[c].job].status # "running"
  BY <1>1, JobsArePositive DEF IInv, TellsTheTruth, Running, Used
<1>4. UNCHANGED <<jobs, registered>> /\ Used' = Used /\ ~Runner(c)
  BY <1>1 DEF registryVars, Used, Runner, Runs
<1>5. TellsTheTruth(c)'
  BY <1>2, <1>3, <1>4 DEF TellsTheTruth
<1>6. QED
  BY <1>1, <1>2, <1>4, <1>5, GoneJobs, Passes

LEMMA ReadsStep ==
  ASSUME IInv, NEW c \in Clients, Reads(c)
  PROVE  IInv'
<1> DEFINE j == clients[c].job
           new == [clients[c] EXCEPT !.pc = "code",
                                     !.offset = IF jobs[j].kept THEN jobs[j].log ELSE @]
<1>1. /\ clients[c].pc = "read" /\ UNCHANGED <<registryVars, mode, provisioned, slot>>
      /\ clients' = [clients EXCEPT ![c] = new]
  BY DEF Reads, At
<1>2. j \in Used /\ j \in Jobs /\ (Clean(j) => jobs[j].status # "running")
  BY <1>1 DEF IInv, TellsTheTruth, Used
<1>3. jobs[j].log \in 0..MaxLog
  BY <1>2, JobFields DEF IInv
<1>4. /\ new \in ClientType /\ new.pc = "code" /\ new.job = j
      /\ jobs[j].kept => new.offset = jobs[j].log
  BY <1>3, ClientFields DEF IInv, ClientType
<1>5. clients'[c] = new
  BY <1>1 DEF IInv, TypeOK
<1>6. UNCHANGED <<jobs, registered>> /\ Used' = Used /\ (Clean(j)' <=> Clean(j)) /\ ~Runner(c)
  BY <1>1 DEF registryVars, Used, Clean, Runner, Runs
<1>7. clients'[c].job = clients[c].job
  BY <1>4, <1>5
<1> HIDE DEF new
<1>8. TellsTheTruth(c)'
  BY <1>2, <1>4, <1>5, <1>6, <1>7 DEF TellsTheTruth, Clean
<1>9. QED
  BY <1>1, <1>2, <1>4, <1>6, <1>8, Passes

LEMMA SendsExitStep ==
  ASSUME IInv, NEW c \in Clients, SendsExit(c)
  PROVE  IInv'
<1> DEFINE j == clients[c].job
           code == IF jobs[j].exit = "none" THEN "unknown" ELSE jobs[j].exit
           new == [clients[c] EXCEPT !.pc = "told", !.code = code]
<1>1. /\ clients[c].pc = "code" /\ UNCHANGED <<registryVars, mode, provisioned>> /\ Release(c)
      /\ clients' = [clients EXCEPT ![c] = new]
  BY DEF SendsExit, At
<1>2. /\ j \in Used /\ j \in Jobs /\ (Clean(j) => jobs[j].status # "running")
      /\ (Clean(j) /\ jobs[j].kept => clients[c].offset = jobs[j].log)
  BY <1>1 DEF IInv, TellsTheTruth, Used
<1>3. code \in Codes \cup {"unknown"} /\ (Clean(j) => code = jobs[j].exit)
  BY <1>2, JobFields, OverIsReported DEF IInv
<1> HIDE DEF code
<1>4. /\ new \in ClientType /\ new.pc = "told" /\ new.job = j
      /\ new.offset = clients[c].offset /\ new.code = code
  BY <1>3, ClientFields DEF IInv, ClientType
<1>5. clients'[c] = new
  BY <1>1 DEF IInv, TypeOK
<1>6. UNCHANGED <<jobs, registered>> /\ Used' = Used /\ (Clean(j)' <=> Clean(j)) /\ ~Runner(c)
  BY <1>1 DEF registryVars, Used, Clean, Runner, Runs
<1>7. slot' # c
  BY <1>1, SessionAssumption DEF Release
<1> HIDE DEF new
<1>8. TellsTheTruth(c)'
  BY <1>2, <1>3, <1>4, <1>5, <1>6 DEF TellsTheTruth, Clean
<1>9. QED
  BY <1>1, <1>2, <1>4, <1>6, <1>7, <1>8, Passes

LEMMA ClosesStep ==
  ASSUME IInv, NEW c \in Clients, Closes(c)
  PROVE  IInv'
<1>1. /\ clients[c].pc \in {"exited", "told"} /\ UNCHANGED <<registryVars, mode, provisioned, slot>>
      /\ clients' = [clients EXCEPT ![c] = Socket("idle")]
  BY DEF Closes
<1>2. slot # c /\ ~Runner(c)
  BY <1>1 DEF IInv, SessionIsSound, Ended, Runner, Runs
<1>3. clients'[c] = Socket("idle")
  BY <1>1 DEF IInv, TypeOK
<1>4. TellsTheTruth(c)'
  BY <1>3, SocketTyped DEF TellsTheTruth
<1>5. QED
  BY <1>1, <1>2, <1>4, SocketTyped, Passes

----------------------------------------------------------------------------
(* Processes, threads and aborts *)

LEMMA JobStep ==
  ASSUME IInv, UNCHANGED <<registered, sessionVars>>, aborting' \in Used \cup {NoJob},
         jobs' \in [Jobs -> JobType],
         \A k \in Jobs : /\ jobs'[k].kind = jobs[k].kind
                         /\ jobs[k].kind = "none" => jobs'[k] = jobs[k],
         \A k \in Used : /\ ObjectIsSound(k)' /\ OutcomeIsSound(k)'
                         /\ jobs'[k].process = "alive" => jobs[k].process = "alive"
                         /\ Clean(k)' => Clean(k)
                         /\ Clean(k)' /\ Pending(k)' => Pending(k)
                         /\ Clean(k)' /\ jobs[k].status # "running" => jobs'[k] = jobs[k]
  PROVE  IInv'
<1>1. UNCHANGED <<registered, mode, provisioned, slot, clients>> /\ Used' = Used
  BY DEF sessionVars, Used
<1>2. Used \subseteq Jobs
  BY DEF Used
<1>3. TypeOK'
  BY <1>1, <1>2 DEF IInv, TypeOK, RegistryTypeOK
<1>4. ObjectsExist'
  BY <1>1 DEF IInv, ObjectsExist, Unused
<1>5. ASSUME NEW k \in Used PROVE ChildIsHeld(k)'
  <2>1. ChildIsHeld(k) /\ jobs'[k].kind = jobs[k].kind
    BY <1>2 DEF IInv
  <2>2. QED
    BY <1>1, <2>1 DEF ChildIsHeld
<1>6. ASSUME NEW d \in Clients PROVE SessionIsSound(d)' /\ TellsTheTruth(d)'
  <2>1. /\ UNCHANGED provisioned /\ UNCHANGED mode /\ clients'[d] = clients[d]
        /\ (slot' = d <=> slot = d)
    BY <1>1
  <2>2. \A k \in Used' : Clean(k)' /\ Pending(k)' => k \in Used /\ Clean(k) /\ Pending(k)
    BY <1>1
  <2>3. QED
    BY <1>1, <1>2, <2>1, <2>2, Bystander
<1>7. OnlyInstalls'
  BY <1>1, <1>2 DEF IInv, OnlyInstalls
<1>8. QED
  BY <1>1, <1>3, <1>4, <1>5, <1>6, <1>7 DEF IInv

LEMMA ActiveIsUsed ==
  ASSUME IInv, NEW j \in Jobs,
         jobs[j].process # "none" \/ jobs[j].thread # "none" \/ jobs[j].status # "none"
  PROVE  j \in Used
BY DEF IInv, ObjectsExist, Used, Unused

\* A process that is alive has not been reported.
LEMMA AliveIsPending ==
  ASSUME IInv, NEW j \in Jobs, jobs[j].process = "alive", Clean(j)
  PROVE  Pending(j) /\ jobs[j].status = "running"
BY ActiveIsUsed, Outcomes

\* One job goes on, and nothing is reported: if it is clean, its outcome is still to come.
LEMMA GoesOn ==
  ASSUME IInv, NEW j \in Used, NEW new \in JobType, jobs' = [jobs EXCEPT ![j] = new],
         UNCHANGED <<registered, aborting, sessionVars>>,
         new.kind = jobs[j].kind, new.status = jobs[j].status, new.exit = jobs[j].exit,
         new.own = jobs[j].own, new.process # "none",
         new.process = "alive" => jobs[j].process = "alive",
         new.process = "exited" => new.code \in {"ok", "failed"},
         new.thread = "finishing" => new.process = "exited",
         new.thread = "waiting" => new.target \in Used /\ (Clean(j) => new.target = j),
         new.kind = "install" => new.thread = "none",
         new.thread \in {"new", "waiting", "finishing"} <=>
           jobs[j].thread \in {"new", "waiting", "finishing"},
         Clean(j) => Pending(j)
  PROVE  IInv'
<1>1. j \in Jobs /\ jobs'[j] = new /\ \A k \in Jobs : k # j => jobs'[k] = jobs[k]
  BY DEF Used, IInv, TypeOK, RegistryTypeOK
<1>2. jobs' \in [Jobs -> JobType]
  BY DEF IInv, TypeOK, RegistryTypeOK
<1>3. \A k \in Jobs : /\ jobs'[k].kind = jobs[k].kind
                      /\ jobs[k].kind = "none" => jobs'[k] = jobs[k]
  BY <1>1 DEF Used
<1>4. Used' = Used /\ UNCHANGED <<registered, clients>>
  BY <1>3 DEF Used, sessionVars
<1>5. ASSUME NEW k \in Used
      PROVE  /\ ObjectIsSound(k)' /\ OutcomeIsSound(k)'
             /\ jobs'[k].process = "alive" => jobs[k].process = "alive"
             /\ Clean(k)' => Clean(k)
             /\ Clean(k)' /\ Pending(k)' => Pending(k)
             /\ Clean(k)' /\ jobs[k].status # "running" => jobs'[k] = jobs[k]
  <2>1. k \in Jobs /\ ObjectIsSound(k) /\ OutcomeIsSound(k)
    BY DEF Used, IInv
  <2>2. (Clean(k)' <=> Clean(k)) /\ (Pending(k)' <=> Pending(k))
    BY <1>1, <1>4, <2>1 DEF Clean, Pending, Runner
  <2>3. ObjectIsSound(k)'
    BY <1>1, <1>4, <2>1 DEF ObjectIsSound
  <2>4. OutcomeIsSound(k)'
    BY <1>1, <1>4, <2>1, <2>2 DEF OutcomeIsSound
  <2>5. Clean(k)' /\ jobs[k].status # "running" => jobs'[k] = jobs[k]
    BY <1>1, <2>1, <2>2, Outcomes
  <2>6. QED
    BY <1>1, <2>1, <2>2, <2>3, <2>4, <2>5
<1>6. aborting' \in Used \cup {NoJob}
  BY DEF IInv, ObjectsExist
<1>7. QED
  BY <1>2, <1>3, <1>5, <1>6, JobStep

LEMMA ProcessSteps ==
  ASSUME IInv, NEW j \in Jobs, Writes(j) \/ Exits(j), UNCHANGED sessionVars
  PROVE  IInv'
<1>1. jobs[j].process = "alive" /\ UNCHANGED <<registered, aborting, sessionVars>>
  BY DEF Writes, Exits
<1>2. j \in Used /\ ObjectIsSound(j) /\ (Clean(j) => Pending(j) /\ OutcomeIsSound(j))
  BY <1>1, ActiveIsUsed, AliveIsPending DEF IInv
<1>3. jobs[j] \in JobType
  BY JobFields DEF IInv
<1>4. CASE Writes(j)
  <2> DEFINE new == [jobs[j] EXCEPT !.log = @ + 1]
  <2>1. jobs' = [jobs EXCEPT ![j] = new] /\ jobs[j].log + 1 \in 0..MaxLog
    BY <1>4, JobFields, RegistryAssumption DEF Writes, IInv
  <2>2. new \in JobType
    BY <1>3, <2>1 DEF JobType
  <2>3. /\ new.kind = jobs[j].kind /\ new.status = jobs[j].status /\ new.exit = jobs[j].exit
        /\ new.own = jobs[j].own /\ new.process = jobs[j].process /\ new.code = jobs[j].code
        /\ new.thread = jobs[j].thread /\ new.target = jobs[j].target
    BY <1>3 DEF JobType
  <2> HIDE DEF new
  <2>4. new.thread = "waiting" => new.target \in Used /\ (Clean(j) => new.target = j)
    BY <1>2, <2>3 DEF ObjectIsSound, OutcomeIsSound
  <2>5. QED
    BY <1>1, <1>2, <2>1, <2>2, <2>3, <2>4, GoesOn DEF ObjectIsSound
<1>5. CASE Exits(j)
  <2>1. PICK code \in {"ok", "failed"} :
          jobs' = [jobs EXCEPT ![j].process = "exited", ![j].code = code]
    BY <1>5 DEF Exits
  <2> DEFINE new == [jobs[j] EXCEPT !.process = "exited", !.code = code]
  <2>2. jobs' = [jobs EXCEPT ![j] = new]
    BY <2>1 DEF IInv, TypeOK, RegistryTypeOK
  <2>3. new \in JobType
    BY <1>3 DEF JobType, Codes
  <2>4. /\ new.kind = jobs[j].kind /\ new.status = jobs[j].status /\ new.exit = jobs[j].exit
        /\ new.own = jobs[j].own /\ new.process = "exited" /\ new.code = code
        /\ new.thread = jobs[j].thread /\ new.target = jobs[j].target
    BY <1>3 DEF JobType
  <2> HIDE DEF new
  <2>5. new.thread = "waiting" => new.target \in Used /\ (Clean(j) => new.target = j)
    BY <1>2, <2>4 DEF ObjectIsSound, OutcomeIsSound
  <2>6. QED
    BY <1>1, <1>2, <2>2, <2>3, <2>4, <2>5, GoesOn DEF ObjectIsSound
<1>6. QED
  BY <1>4, <1>5

\* A monitor looks its job up by key: if its own is clean, it is that one.
LEMMA MonitorStartsStep ==
  ASSUME IInv, NEW j \in Jobs, MonitorStarts(j), UNCHANGED sessionVars
  PROVE  IInv'
<1> DEFINE new == [jobs[j] EXCEPT !.thread = "waiting", !.target = registered]
<1>1. /\ jobs[j].kind = "spawned" /\ jobs[j].thread = "new"
      /\ UNCHANGED <<registered, aborting, sessionVars>>
      /\ jobs' = [jobs EXCEPT ![j].thread = "waiting", ![j].target = registered]
  BY DEF MonitorStarts
<1>2. j \in Used /\ Pending(j) /\ ObjectIsSound(j) /\ registered \in Used
  BY <1>1, ActiveIsUsed DEF Pending, IInv, ObjectsExist
<1>3. Clean(j) => j = registered
  BY <1>2, Outcomes
<1>4. jobs[j] \in JobType /\ registered \in Jobs
  BY <1>2, JobFields DEF IInv, Used
<1>5. jobs' = [jobs EXCEPT ![j] = new]
  BY <1>1 DEF IInv, TypeOK, RegistryTypeOK
<1>6. new \in JobType
  BY <1>4 DEF JobType
<1>7. /\ new.kind = jobs[j].kind /\ new.status = jobs[j].status /\ new.exit = jobs[j].exit
      /\ new.own = jobs[j].own /\ new.process = jobs[j].process /\ new.code = jobs[j].code
      /\ new.thread = "waiting" /\ new.target = registered
  BY <1>4 DEF JobType
<1> HIDE DEF new
<1>8. QED
  BY <1>1, <1>2, <1>3, <1>5, <1>6, <1>7, GoesOn DEF ObjectIsSound

LEMMA DeployLogsStep ==
  ASSUME IInv, NEW j \in Jobs, DeployLogs(j), UNCHANGED sessionVars
  PROVE  IInv'
<1>1. /\ jobs[j].kind = "deploy" /\ jobs[j].thread = "new" /\ jobs[j].process = "exited"
      /\ UNCHANGED <<registered, aborting, sessionVars>>
  BY DEF DeployLogs
<1>2. j \in Used /\ Pending(j) /\ ObjectIsSound(j)
  BY <1>1, ActiveIsUsed DEF Pending, IInv
<1>3. jobs[j] \in JobType
  BY JobFields DEF IInv
<1>4. PICK n \in 0..MaxLog :
        jobs' = [jobs EXCEPT ![j] = [@ EXCEPT !.thread = "finishing", !.log = n]]
  <2>1. CASE /\ jobs[j].log < MaxLog
             /\ jobs' = [jobs EXCEPT ![j].thread = "finishing", ![j].log = @ + 1]
    <3>1. jobs[j].log + 1 \in 0..MaxLog
      BY <2>1, JobFields, RegistryAssumption DEF IInv
    <3>2. jobs' = [jobs EXCEPT ![j] = [@ EXCEPT !.thread = "finishing", !.log = jobs[j].log + 1]]
      BY <1>3, <2>1 DEF IInv, TypeOK, RegistryTypeOK, JobType
    <3>3. QED
      BY <3>1, <3>2
  <2>2. CASE jobs' = [jobs EXCEPT ![j].thread = "finishing"]
    <3>1. [jobs[j] EXCEPT !.thread = "finishing"]
            = [jobs[j] EXCEPT !.thread = "finishing", !.log = jobs[j].log]
      BY <1>3 DEF JobType
    <3>2. QED
      BY <2>2, <3>1, JobFields DEF IInv
  <2>3. QED
    BY <2>1, <2>2 DEF DeployLogs
<1> DEFINE new == [jobs[j] EXCEPT !.thread = "finishing", !.log = n]
<1>5. jobs' = [jobs EXCEPT ![j] = new]
  BY <1>4
<1>6. new \in JobType
  BY <1>3 DEF JobType
<1>7. /\ new.kind = jobs[j].kind /\ new.status = jobs[j].status /\ new.exit = jobs[j].exit
      /\ new.own = jobs[j].own /\ new.process = jobs[j].process /\ new.code = jobs[j].code
      /\ new.thread = "finishing"
  BY <1>3 DEF JobType
<1> HIDE DEF new
<1>8. QED
  BY <1>1, <1>2, <1>5, <1>6, <1>7, GoesOn DEF ObjectIsSound

\* An outcome is put down to job r: a clean one has got its own.
Put(r, by, exit, status) ==
  [jobs EXCEPT ![r] = [jobs[r] EXCEPT !.exit = exit, !.own = @ /\ by = r,
                                      !.status = IF @ # "running" THEN @ ELSE status]]

Recorded(js, r, by, exit, status) ==
  /\ js \in [Jobs -> JobType] /\ \A k \in Jobs : k # r => js[k] = jobs[k]
  /\ js[r].exit = exit /\ (js[r].own <=> jobs[r].own /\ by = r)
  /\ js[r].status = IF jobs[r].status # "running" THEN jobs[r].status ELSE status
  /\ js[r].kind = jobs[r].kind /\ js[r].process = jobs[r].process
  /\ js[r].code = jobs[r].code /\ js[r].log = jobs[r].log /\ js[r].kept = jobs[r].kept
  /\ js[r].thread = jobs[r].thread /\ js[r].target = jobs[r].target

LEMMA PutDown ==
  ASSUME TypeOK, NEW r \in Jobs, NEW by, NEW exit \in Codes, NEW status \in Statuses
  PROVE  Recorded(Put(r, by, exit, status), r, by, exit, status)
<1> DEFINE js == Put(r, by, exit, status)
           own == jobs[r].own /\ by = r
           st == IF jobs[r].status # "running" THEN jobs[r].status ELSE status
<1>1. jobs[r] \in JobType
  BY JobFields
<1>2. own \in BOOLEAN /\ st \in Statuses
  BY <1>1 DEF JobType
<1>3. (own <=> jobs[r].own /\ by = r)
      /\ st = IF jobs[r].status # "running" THEN jobs[r].status ELSE status
  OBVIOUS
<1>4. js = [jobs EXCEPT ![r] = [jobs[r] EXCEPT !.exit = exit, !.own = own, !.status = st]]
  BY DEF Put
<1> HIDE DEF own, st, js
<1>5. js[r] = [jobs[r] EXCEPT !.exit = exit, !.own = own, !.status = st]
  BY <1>4 DEF TypeOK, RegistryTypeOK
<1>6. /\ js[r] \in JobType /\ js[r].exit = exit /\ js[r].own = own /\ js[r].status = st
      /\ js[r].kind = jobs[r].kind /\ js[r].process = jobs[r].process
      /\ js[r].code = jobs[r].code /\ js[r].log = jobs[r].log /\ js[r].kept = jobs[r].kept
      /\ js[r].thread = jobs[r].thread /\ js[r].target = jobs[r].target
  BY <1>1, <1>2, <1>5 DEF JobType
<1>7. /\ js \in [Jobs -> JobType] /\ \A k \in Jobs : k # r => js[k] = jobs[k]
  BY <1>4, <1>5, <1>6 DEF TypeOK, RegistryTypeOK
<1>8. QED
  <2>1. Recorded(js, r, by, exit, status)
    BY <1>3, <1>6, <1>7 DEF Recorded
  <2>2. QED
    BY <2>1 DEF js

\* A thread reports.
LEMMA Reports ==
  ASSUME IInv, NEW j \in Used, NEW r \in Used, NEW exit \in {"ok", "failed"},
         jobs[j].kind # "install", jobs[j].thread \in {"waiting", "finishing"},
         Clean(j) => r = j /\ jobs[j].process = "exited",
         UNCHANGED <<registered, aborting, sessionVars>>, jobs' \in [Jobs -> JobType],
         \A k \in Jobs : k \notin {j, r} => jobs'[k] = jobs[k],
         jobs'[j].thread = "over",
         r # j => /\ jobs'[j].own = jobs[j].own /\ jobs'[j].status = jobs[j].status
                  /\ ~jobs'[r].own /\ jobs'[r].thread = jobs[r].thread
                  /\ jobs'[r].target = jobs[r].target,
         r = j => /\ jobs'[j].own => jobs[j].own
                  /\ jobs'[j].exit = exit
                  /\ jobs'[j].status = IF jobs[j].status # "running" THEN jobs[j].status
                                       ELSE IF exit = "ok" THEN "done" ELSE "error",
         \A k \in {j, r} : /\ jobs'[k].kind = jobs[k].kind /\ jobs'[k].code = jobs[k].code
                           /\ jobs'[k].process = jobs[k].process
  PROVE  IInv'
<1>1. j \in Jobs /\ r \in Jobs /\ Used \subseteq Jobs /\ UNCHANGED clients
  BY DEF Used, sessionVars
<1>2. \A k \in Jobs : /\ jobs'[k].kind = jobs[k].kind
                      /\ jobs[k].kind = "none" => jobs'[k] = jobs[k]
  BY <1>1 DEF Used
<1>3. Used' = Used
  BY <1>2 DEF Used
<1>4. ASSUME NEW d \in Clients PROVE ~(Runner(d) /\ clients[d].job = j)
  BY RunnerHasChild
<1>5. Pending(j) /\ ~Pending(j)'
  BY <1>1, <1>4 DEF Pending, Runner
<1>6. ASSUME NEW k \in Used
      PROVE  /\ ObjectIsSound(k)' /\ OutcomeIsSound(k)'
             /\ jobs'[k].process = "alive" => jobs[k].process = "alive"
             /\ Clean(k)' => Clean(k)
             /\ Clean(k)' /\ Pending(k)' => Pending(k)
             /\ Clean(k)' /\ jobs[k].status # "running" => jobs'[k] = jobs[k]
  <2>1. k \in Jobs /\ ObjectIsSound(k) /\ OutcomeIsSound(k)
    BY DEF Used, IInv
  <2>2. ObjectIsSound(k)' /\ (jobs'[k].process = "alive" => jobs[k].process = "alive")
    <3>1. CASE k \notin {j, r}
      BY <1>3, <2>1, <3>1 DEF ObjectIsSound
    <3>2. CASE k = j
      BY <1>3, <2>1, <3>2 DEF ObjectIsSound
    <3>3. CASE k = r /\ r # j
      BY <1>3, <2>1, <3>3 DEF ObjectIsSound
    <3>4. QED
      BY <3>1, <3>2, <3>3
  <2>3. CASE k \notin {j, r}
    <3>1. jobs'[k] = jobs[k] /\ (Clean(k)' <=> Clean(k)) /\ (Pending(k)' <=> Pending(k))
      BY <1>1, <2>1, <2>3 DEF Clean, Pending, Runner
    <3>2. OutcomeIsSound(k)'
      BY <2>1, <3>1 DEF OutcomeIsSound
    <3>3. QED
      BY <2>2, <3>1, <3>2
  <2>4. CASE r # j /\ k \in {j, r}
    <3>1. ~Clean(k)'
      BY <2>4 DEF Clean
    <3>2. QED
      BY <2>2, <3>1 DEF OutcomeIsSound
  <2>5. CASE r = j /\ k = j
    <3>1. Clean(j)' => Clean(j)
      BY <2>5 DEF Clean
    <3>2. Clean(j) => jobs[j].status = "running" /\ jobs[j].process = "exited"
      BY <1>5, Outcomes
    <3>3. OutcomeIsSound(j)'
      BY <1>5, <2>5, <3>1, <3>2 DEF OutcomeIsSound
    <3>4. QED
      BY <1>5, <2>2, <2>5, <3>1, <3>2, <3>3
  <2>6. QED
    BY <2>3, <2>4, <2>5
<1>7. aborting' \in Used \cup {NoJob}
  BY DEF IInv, ObjectsExist
<1>8. QED
  BY <1>2, <1>6, <1>7, JobStep

Closed(j, r, exit, target) ==
  LET done == IF exit = "ok" THEN "done" ELSE "error"
      mid == Put(r, j, exit, done)
  IN  [mid EXCEPT ![j] = [mid[j] EXCEPT !.thread = "over", !.target = target]]

LEMMA ThreadReports ==
  ASSUME IInv, NEW j \in Used, NEW r \in Used, NEW exit \in {"ok", "failed"},
         jobs[j].kind # "install", jobs[j].thread \in {"waiting", "finishing"},
         Clean(j) => r = j /\ jobs[j].process = "exited",
         UNCHANGED <<registered, aborting, sessionVars>>,
         NEW target \in Jobs \cup {NoJob}, jobs' = Closed(j, r, exit, target)
  PROVE  IInv'
<1> DEFINE done == IF exit = "ok" THEN "done" ELSE "error"
           mid == Put(r, j, exit, done)
           new == [mid[j] EXCEPT !.thread = "over", !.target = target]
<1>1. jobs' = [mid EXCEPT ![j] = new]
  BY DEF Closed
<1>2. j \in Jobs /\ r \in Jobs /\ exit \in Codes /\ done \in Statuses
  BY DEF Used, Codes, Statuses
<1>3. done = IF exit = "ok" THEN "done" ELSE "error"
  OBVIOUS
<1> HIDE DEF done
<1>4. /\ mid \in [Jobs -> JobType] /\ \A k \in Jobs : k # r => mid[k] = jobs[k]
      /\ mid[r].exit = exit /\ (mid[r].own <=> jobs[r].own /\ j = r)
      /\ mid[r].status = IF jobs[r].status # "running" THEN jobs[r].status ELSE done
      /\ mid[r].kind = jobs[r].kind /\ mid[r].process = jobs[r].process
      /\ mid[r].code = jobs[r].code
      /\ mid[r].thread = jobs[r].thread /\ mid[r].target = jobs[r].target
  BY <1>2, PutDown DEF IInv, Recorded
<1> HIDE DEF mid
<1>5. mid[j] \in JobType
  BY <1>2, <1>4
<1>6. /\ new \in JobType /\ new.kind = mid[j].kind /\ new.status = mid[j].status
      /\ new.exit = mid[j].exit /\ new.own = mid[j].own /\ new.process = mid[j].process
      /\ new.code = mid[j].code /\ new.thread = "over"
  BY <1>5 DEF JobType
<1> HIDE DEF new
<1>7. /\ jobs' \in [Jobs -> JobType] /\ jobs'[j] = new /\ \A k \in Jobs : k # j => jobs'[k] = mid[k]
  BY <1>1, <1>2, <1>4, <1>6
<1>8. \A k \in Jobs : k \notin {j, r} => jobs'[k] = jobs[k]
  BY <1>4, <1>7
<1>9. \A k \in {j, r} : /\ jobs'[k].kind = jobs[k].kind /\ jobs'[k].code = jobs[k].code
                        /\ jobs'[k].process = jobs[k].process
  <2>1. CASE r = j
    BY <1>4, <1>6, <1>7, <2>1
  <2>2. CASE r # j
    BY <1>2, <1>4, <1>6, <1>7, <2>2
  <2>3. QED
    BY <2>1, <2>2
<1>10. r # j => /\ jobs'[j].own = jobs[j].own /\ jobs'[j].status = jobs[j].status
                /\ ~jobs'[r].own /\ jobs'[r].thread = jobs[r].thread
                /\ jobs'[r].target = jobs[r].target
  BY <1>2, <1>4, <1>6, <1>7
<1>11. r = j => /\ jobs'[j].own => jobs[j].own
                /\ jobs'[j].exit = exit
                /\ jobs'[j].status = IF jobs[j].status # "running" THEN jobs[j].status
                                     ELSE IF exit = "ok" THEN "done" ELSE "error"
  BY <1>3, <1>4, <1>6, <1>7
<1>12. jobs' \in [Jobs -> JobType] /\ jobs'[j].thread = "over"
  BY <1>6, <1>7
<1>13. QED
  BY <1>8, <1>9, <1>10, <1>11, <1>12, Reports, ZenonT(60)

LEMMA MonitorEndsStep ==
  ASSUME IInv, NEW j \in Jobs, MonitorEnds(j), UNCHANGED sessionVars
  PROVE  IInv'
<1> DEFINE r == jobs[j].target
           exit == jobs[r].code
           done == IF exit = "ok" THEN "done" ELSE "error"
           mid == Put(r, j, exit, done)
<1>1. /\ jobs[j].kind = "spawned" /\ jobs[j].thread = "waiting" /\ jobs[r].process = "exited"
      /\ UNCHANGED <<registered, aborting, sessionVars>>
  BY DEF MonitorEnds
<1>2. j \in Used /\ Pending(j) /\ r \in Used /\ exit \in {"ok", "failed"}
  BY <1>1, ActiveIsUsed DEF IInv, ObjectIsSound, Pending
<1>3. Clean(j) => r = j /\ jobs[j].process = "exited"
  BY <1>1, <1>2, Outcomes
<1>4. jobs' = [mid EXCEPT ![j].thread = "over", ![j].target = NoJob]
  BY DEF MonitorEnds, Outcome, Put
<1>5. mid \in [Jobs -> JobType]
  <2>1. r \in Jobs /\ exit \in Codes /\ done \in Statuses
    BY <1>2 DEF Used, Codes, Statuses
  <2> HIDE DEF r, exit, done
  <2>2. QED
    BY <2>1, PutDown DEF IInv, Recorded
<1> HIDE DEF mid
<1>6. jobs' = [mid EXCEPT ![j] = [mid[j] EXCEPT !.thread = "over", !.target = NoJob]]
  BY <1>4, <1>5
<1>7. jobs' = Closed(j, r, exit, NoJob)
  BY <1>6 DEF mid, Closed
<1>8. jobs[j].kind # "install" /\ jobs[j].thread \in {"waiting", "finishing"}
  BY <1>1
<1> HIDE DEF r, exit
<1>9. QED
  BY <1>1, <1>2, <1>3, <1>7, <1>8, ThreadReports

LEMMA DeployEndsStep ==
  ASSUME IInv, NEW j \in Jobs, DeployEnds(j), UNCHANGED sessionVars
  PROVE  IInv'
<1>1. /\ jobs[j].kind = "deploy" /\ jobs[j].thread = "finishing"
      /\ UNCHANGED <<registered, aborting, sessionVars>>
  BY DEF DeployEnds
<1>2. PICK exit \in {jobs[j].code, "failed"} :
        jobs' = [FinishRegistered(jobs, j, exit, FALSE) EXCEPT ![j].thread = "over"]
  BY DEF DeployEnds
<1>3. j \in Used /\ Pending(j) /\ ObjectIsSound(j) /\ registered \in Used
  BY <1>1, ActiveIsUsed DEF Pending, IInv, ObjectsExist
<1>4. jobs[j].process = "exited" /\ exit \in {"ok", "failed"}
  BY <1>1, <1>3 DEF ObjectIsSound
<1>5. Clean(j) => registered = j /\ jobs[j].process = "exited"
  BY <1>3, <1>4, Outcomes
<1> DEFINE done == IF exit = "ok" THEN "done" ELSE "error"
           mid == Put(registered, j, exit, done)
<1>6. mid \in [Jobs -> JobType]
  <2>1. registered \in Jobs /\ exit \in Codes /\ done \in Statuses
    BY <1>3, <1>4 DEF Used, Codes, Statuses
  <2> HIDE DEF done
  <2>2. QED
    BY <2>1, PutDown DEF IInv, Recorded
<1>7. jobs' = [mid EXCEPT ![j].thread = "over"]
  BY <1>2 DEF FinishRegistered, Outcome, Put
<1>8. mid[j] \in JobType /\ mid[j].target \in Jobs \cup {NoJob}
  BY <1>3, <1>6 DEF Used, JobType
<1> HIDE DEF mid
<1>9. jobs' = [mid EXCEPT ![j] = [mid[j] EXCEPT !.thread = "over", !.target = mid[j].target]]
  BY <1>6, <1>7, <1>8 DEF JobType
<1>10. PICK target \in Jobs \cup {NoJob} :
         jobs' = [mid EXCEPT ![j] = [mid[j] EXCEPT !.thread = "over", !.target = target]]
  BY <1>8, <1>9
<1>11. jobs' = Closed(j, registered, exit, target)
  BY <1>10 DEF mid, Closed
<1>12. jobs[j].kind # "install" /\ jobs[j].thread \in {"waiting", "finishing"}
  BY <1>1
<1>13. QED
  BY <1>1, <1>3, <1>4, <1>5, <1>11, <1>12, ThreadReports

\* An abort only takes: the job it marks is not clean any more.
LEMMA AbortSteps ==
  ASSUME IInv, AbortLooks \/ AbortMarks, UNCHANGED sessionVars
  PROVE  IInv'
<1>1. CASE AbortLooks
  <2>1. UNCHANGED <<jobs, registered>> /\ aborting' = registered /\ registered \in Used
    BY <1>1 DEF AbortLooks, IInv, ObjectsExist
  <2>2. UNCHANGED clients
    BY DEF sessionVars
  <2>3. jobs' \in [Jobs -> JobType] /\ Used' = Used
    BY <2>1 DEF IInv, TypeOK, RegistryTypeOK, Used
  <2>4. ASSUME NEW k \in Used
        PROVE  /\ ObjectIsSound(k)' /\ OutcomeIsSound(k)'
               /\ (Clean(k)' <=> Clean(k)) /\ (Pending(k)' <=> Pending(k))
    <3>1. ObjectIsSound(k) /\ OutcomeIsSound(k)
      BY DEF IInv
    <3>2. (Clean(k)' <=> Clean(k)) /\ (Pending(k)' <=> Pending(k))
      BY <2>1, <2>2 DEF Clean, Pending, Runner
    <3>3. QED
      BY <2>1, <2>3, <3>1, <3>2 DEF ObjectIsSound, OutcomeIsSound
  <2>5. QED
    BY <2>1, <2>3, <2>4, JobStep
<1>2. CASE AbortMarks
  <2>1. /\ aborting \in Used /\ aborting \in Jobs /\ aborting' = NoJob /\ UNCHANGED registered
        /\ jobs' = [jobs EXCEPT ![aborting].status = "aborted"]
    BY <1>2 DEF AbortMarks, IInv, ObjectsExist, Used
  <2>2. UNCHANGED clients
    BY DEF sessionVars
  <2>3. jobs[aborting] \in JobType
    BY <2>1, JobFields DEF IInv
  <2> DEFINE new == [jobs[aborting] EXCEPT !.status = "aborted"]
  <2>4. /\ new \in JobType /\ new.status = "aborted" /\ new.kind = jobs[aborting].kind
        /\ new.process = jobs[aborting].process /\ new.code = jobs[aborting].code
        /\ new.thread = jobs[aborting].thread /\ new.target = jobs[aborting].target
    BY <2>3 DEF JobType, Statuses
  <2>5. jobs' = [jobs EXCEPT ![aborting] = new]
    BY <2>1
  <2> HIDE DEF new
  <2>6. /\ jobs' \in [Jobs -> JobType] /\ jobs'[aborting] = new
        /\ \A k \in Jobs : k # aborting => jobs'[k] = jobs[k]
    BY <2>1, <2>4, <2>5 DEF IInv, TypeOK, RegistryTypeOK
  <2>7. \A k \in Jobs : /\ jobs'[k].kind = jobs[k].kind
                        /\ jobs[k].kind = "none" => jobs'[k] = jobs[k]
    BY <2>1, <2>4, <2>6 DEF Used
  <2>8. Used' = Used
    BY <2>7 DEF Used
  <2>9. ASSUME NEW k \in Used
        PROVE  /\ ObjectIsSound(k)' /\ OutcomeIsSound(k)'
               /\ jobs'[k].process = "alive" => jobs[k].process = "alive"
               /\ Clean(k)' => Clean(k)
               /\ Clean(k)' /\ Pending(k)' => Pending(k)
               /\ Clean(k)' /\ jobs[k].status # "running" => jobs'[k] = jobs[k]
    <3>1. k \in Jobs /\ ObjectIsSound(k) /\ OutcomeIsSound(k)
      BY DEF Used, IInv
    <3>2. CASE k = aborting
      <4>1. ~Clean(k)'
        BY <2>4, <2>6, <3>2 DEF Clean
      <4>2. ObjectIsSound(k)' /\ jobs'[k].process = jobs[k].process
        BY <2>4, <2>6, <2>8, <3>1, <3>2 DEF ObjectIsSound
      <4>3. QED
        BY <4>1, <4>2 DEF OutcomeIsSound
    <3>3. CASE k # aborting
      <4>1. jobs'[k] = jobs[k] /\ (Clean(k)' <=> Clean(k)) /\ (Pending(k)' <=> Pending(k))
        BY <2>1, <2>2, <2>6, <3>1, <3>3 DEF Clean, Pending, Runner
      <4>2. ObjectIsSound(k)'
        BY <2>8, <3>1, <4>1 DEF ObjectIsSound
      <4>3. UNCHANGED registered
        BY <2>1
      <4>4. OutcomeIsSound(k)'
        BY <3>1, <4>1, <4>3 DEF OutcomeIsSound
      <4>5. QED
        BY <4>1, <4>2, <4>4
    <3>4. QED
      BY <3>2, <3>3
  <2>10. QED
    BY <2>1, <2>6, <2>7, <2>9, JobStep
<1>3. QED
  BY <1>1, <1>2

----------------------------------------------------------------------------
(* The end of a child *)

\* The session with the child moves on when the child has exited.
LEMMA ChildStep ==
  ASSUME IInv, NEW c \in Clients, Runner(c), NEW new \in ClientType,
         clients' = [clients EXCEPT ![c] = new],
         UNCHANGED <<registered, aborting, mode, provisioned>>, slot' \in {slot, NoClient},
         new.job # NoJob => new.job \in Used, new.pc # "attach",
         jobs' \in [Jobs -> JobType],
         \A k \in Jobs : /\ jobs'[k].kind = jobs[k].kind
                         /\ jobs[k].kind = "none" => jobs'[k] = jobs[k],
         jobs'[clients[c].job].process = "exited",
         \A k \in Used : /\ ObjectIsSound(k)' /\ OutcomeIsSound(k)'
                         /\ jobs'[k].process = "alive" => jobs[k].process = "alive"
                         /\ Clean(k)' => Clean(k)
                         /\ Clean(k)' /\ jobs[k].status # "running" => jobs'[k] = jobs[k],
         SessionIsSound(c)', TellsTheTruth(c)'
  PROVE  IInv'
<1>1. Used' = Used /\ Used \subseteq Jobs
  BY DEF Used
<1>2. clients'[c] = new /\ \A d \in Clients : d # c => clients'[d] = clients[d]
  BY DEF IInv, TypeOK
<1>3. slot = c /\ clients[c].pc \in Keeps
  BY RunnerHasChild
<1>4. TypeOK'
  BY DEF IInv, TypeOK, RegistryTypeOK
<1>5. ObjectsExist'
  <2>1. ObjectsExist
    BY DEF IInv
  <2>2. \A j \in Jobs : jobs'[j].kind = "none" => jobs'[j] = Unused
    BY <2>1 DEF ObjectsExist
  <2>3. ASSUME NEW d \in Clients
        PROVE  /\ clients'[d].job # NoJob => clients'[d].job \in Used'
               /\ clients'[d].pc = "attach" => registered' \in Used'
    BY <1>1, <1>2, <2>1 DEF ObjectsExist
  <2>4. Unused' = Unused
    BY DEF Unused
  <2>5. QED
    BY <1>1, <2>1, <2>2, <2>3, <2>4 DEF ObjectsExist
<1>6. ASSUME NEW k \in Used, jobs'[k].kind = "install", jobs'[k].process = "alive" PROVE FALSE
  <2>1. jobs[k].kind = "install" /\ jobs[k].process = "alive"
    BY <1>1, <1>6
  <2>2. clients[c].job = k
    BY <1>3, <2>1 DEF IInv, ChildIsHeld
  <2>3. QED
    BY <1>6, <2>2
<1>7. ASSUME NEW d \in Clients, d # c PROVE SessionIsSound(d)' /\ TellsTheTruth(d)'
  <2>1. clients'[d] = clients[d] /\ (slot' = d <=> slot = d) /\ clients[d].pc \notin Keeps
    BY <1>2, <1>3, <1>7, OneHolder, SessionAssumption
  <2>2. clients[d].pc \notin {"ready", "build", "launch"}
    BY <2>1 DEF Keeps
  <2>3. UNCHANGED mode /\ UNCHANGED provisioned
    OBVIOUS
  <2>4. QED
    BY <1>1, <2>1, <2>2, <2>3, Bystander
<1>8. OnlyInstalls'
  BY <1>1 DEF IInv, OnlyInstalls
<1>9. \A k \in Used : ChildIsHeld(k)'
  BY <1>6 DEF ChildIsHeld
<1>10. QED
  BY <1>1, <1>4, <1>5, <1>7, <1>8, <1>9 DEF IInv

LEMMA KillsStep ==
  ASSUME IInv, NEW c \in Clients, Kills(c)
  PROVE  IInv'
<1> DEFINE j == clients[c].job
           job == IF jobs[j].process = "alive"
                  THEN [jobs[j] EXCEPT !.process = "exited", !.code = "failed"] ELSE jobs[j]
<1>1. /\ clients[c].pc = "kill" /\ Goto(c, "killed") /\ jobs' = [jobs EXCEPT ![j] = job]
      /\ UNCHANGED <<registered, aborting, mode, provisioned, slot>>
  BY DEF Kills, At
<1>2. PICK new \in ClientType :
        /\ clients' = [clients EXCEPT ![c] = new] /\ clients'[c] = new
        /\ new.pc = "killed" /\ new.job = j
  BY <1>1, PlaceTyped DEF IInv
<1>3. Runner(c) /\ Runner(c)'
  BY <1>1, <1>2 DEF Runner, Runs
<1>4. /\ slot = c /\ j \in Used /\ jobs[j].kind = "install" /\ Pending(j)
      /\ (mode = "compose" => ~provisioned) /\ j \in Jobs
  BY <1>3, RunnerHasChild DEF Used
<1>5. jobs[j] \in JobType /\ ObjectIsSound(j)
  BY <1>4, JobFields DEF IInv
<1>6. /\ job \in JobType /\ job.kind = jobs[j].kind /\ job.status = jobs[j].status
      /\ job.exit = jobs[j].exit /\ job.own = jobs[j].own /\ job.thread = jobs[j].thread
      /\ job.target = jobs[j].target
      /\ job.process = "exited" /\ job.code \in {"ok", "failed"}
  BY <1>5 DEF JobType, Codes, ObjectIsSound
<1> HIDE DEF job
<1>7. /\ jobs' \in [Jobs -> JobType] /\ jobs'[j] = job
      /\ \A k \in Jobs : k # j => jobs'[k] = jobs[k]
  BY <1>1, <1>4, <1>6 DEF IInv, TypeOK, RegistryTypeOK
<1> HIDE DEF j
<1>8. \A k \in Jobs : /\ jobs'[k].kind = jobs[k].kind
                      /\ jobs[k].kind = "none" => jobs'[k] = jobs[k]
  BY <1>4, <1>6, <1>7
<1>9. Used' = Used
  BY <1>8 DEF Used
<1>10. ASSUME NEW k \in Used
       PROVE  /\ ObjectIsSound(k)' /\ OutcomeIsSound(k)'
              /\ jobs'[k].process = "alive" => jobs[k].process = "alive"
              /\ Clean(k)' => Clean(k)
              /\ Clean(k)' /\ jobs[k].status # "running" => jobs'[k] = jobs[k]
  <2>1. k \in Jobs /\ ObjectIsSound(k) /\ OutcomeIsSound(k)
    BY DEF Used, IInv
  <2>2. \A d \in Clients : Runner(d)' /\ clients'[d].job = k <=> Runner(d) /\ clients[d].job = k
    BY <1>2, <1>3 DEF Runner, IInv, TypeOK, j
  <2>3. (Clean(k)' <=> Clean(k)) /\ (Pending(k)' <=> Pending(k))
    BY <1>6, <1>7, <2>1, <2>2 DEF Clean, Pending
  <2>4. UNCHANGED registered
    BY <1>1
  <2>5. CASE k # j
    <3>1. jobs'[k] = jobs[k]
      BY <1>7, <2>1, <2>5
    <3>2. ObjectIsSound(k)'
      BY <1>9, <2>1, <3>1 DEF ObjectIsSound
    <3>3. OutcomeIsSound(k)'
      BY <2>1, <2>3, <2>4, <3>1 DEF OutcomeIsSound
    <3>4. QED
      BY <2>3, <3>1, <3>2, <3>3
  <2>6. CASE k = j
    <3>1. ObjectIsSound(k)'
      BY <1>4, <1>6, <1>7, <1>9, <2>1, <2>6 DEF ObjectIsSound
    <3>2. Clean(k) => jobs[k].status = "running" /\ jobs[k].thread = "none"
      BY <1>4, <1>5, <2>6, Outcomes DEF ObjectIsSound
    <3>3. OutcomeIsSound(k)'
      BY <1>4, <1>6, <1>7, <2>1, <2>3, <2>4, <2>6 DEF OutcomeIsSound
    <3>4. QED
      BY <1>6, <1>7, <2>3, <2>6, <3>1, <3>2, <3>3
  <2>7. QED
    BY <2>5, <2>6
<1>11. SessionIsSound(c)' /\ TellsTheTruth(c)'
  <2>1. j \in Used' /\ jobs'[j].kind = "install"
    BY <1>4, <1>6, <1>7, <1>9
  <2>2. QED
    BY <1>1, <1>2, <1>4, <2>1 DEF SessionIsSound, TellsTheTruth, Runs, Keeps, Ended, Runner
<1>12. /\ jobs'[clients[c].job].process = "exited" /\ slot' \in {slot, NoClient}
       /\ new.pc # "attach" /\ (new.job # NoJob => new.job \in Used)
  BY <1>1, <1>2, <1>4, <1>6, <1>7 DEF j
<1>13. UNCHANGED <<registered, aborting, mode, provisioned>>
  BY <1>1
<1>14. QED
  BY <1>2, <1>3, <1>7, <1>8, <1>10, <1>11, <1>12, <1>13, ChildStep, ZenonT(60)

\* The outcome of a child is recorded and its session leaves it: what it leaves behind is
\* clean only if it was the job under the key, and then nothing is to be reported any more.
LEMMA ChildOutcome ==
  ASSUME IInv, NEW c \in Clients, Runner(c), NEW j, j = clients[c].job,
         jobs[j].process = "exited", NEW status \in Statuses,
         status # "aborted" => status = IF jobs[j].code = "ok" THEN "done" ELSE "error",
         Recorded(jobs', registered, j, jobs[j].code, status), UNCHANGED registered,
         ~Runner(c)', \A d \in Clients : d # c => clients'[d] = clients[d]
  PROVE  /\ jobs' \in [Jobs -> JobType]
         /\ \A k \in Jobs : /\ jobs'[k].kind = jobs[k].kind
                            /\ jobs[k].kind = "none" => jobs'[k] = jobs[k]
         /\ jobs'[j].process = "exited" /\ j \in Used /\ j \in Used'
         /\ \A k \in Used : /\ ObjectIsSound(k)' /\ OutcomeIsSound(k)'
                            /\ jobs'[k].process = "alive" => jobs[k].process = "alive"
                            /\ Clean(k)' => Clean(k)
                            /\ Clean(k)' /\ jobs[k].status # "running" => jobs'[k] = jobs[k]
         /\ \A k \in Used' : Clean(k)' => ~Pending(k)'
         /\ Clean(j)' => jobs'[j].status # "running" /\ jobs'[j].exit = jobs[j].code
<1> DEFINE r == registered
           exit == jobs[j].code
<1>1. /\ slot = c /\ j \in Used /\ jobs[j].kind = "install" /\ jobs[j].thread = "none"
      /\ Pending(j)
  BY RunnerHasChild
<1>2. r \in Used /\ r \in Jobs /\ j \in Jobs /\ Used \subseteq Jobs
  BY <1>1 DEF IInv, ObjectsExist, Used
<1>3. exit \in {"ok", "failed"} /\ exit \in Codes
  BY <1>1 DEF IInv, ObjectIsSound, Codes
<1>4. /\ jobs' \in [Jobs -> JobType] /\ \A k \in Jobs : k # r => jobs'[k] = jobs[k]
      /\ jobs'[r].exit = exit /\ (jobs'[r].own <=> jobs[r].own /\ j = r)
      /\ jobs'[r].status = IF jobs[r].status # "running" THEN jobs[r].status ELSE status
      /\ jobs'[r].kind = jobs[r].kind /\ jobs'[r].process = jobs[r].process
      /\ jobs'[r].code = jobs[r].code
      /\ jobs'[r].thread = jobs[r].thread /\ jobs'[r].target = jobs[r].target
  BY DEF Recorded
<1> HIDE DEF r
<1>5. \A k \in Jobs : /\ jobs'[k].kind = jobs[k].kind
                      /\ jobs[k].kind = "none" => jobs'[k] = jobs[k]
  BY <1>2, <1>4 DEF Used
<1>6. Used' = Used /\ r' = r
  BY <1>5 DEF Used, r
<1>7. \A d \in Clients : Runner(d)' => d # c
  OBVIOUS
<1>8. ~Pending(j)'
  <2>1. jobs'[j].thread = "none"
    BY <1>1, <1>2, <1>4
  <2>2. ASSUME NEW d \in Clients, Runner(d)', clients'[d].job = j PROVE FALSE
    <3>1. Runner(d) /\ d # c
      BY <2>2 DEF Runner
    <3>2. slot = d
      BY <3>1, RunnerHasChild
    <3>3. QED
      BY <1>1, <3>1, <3>2
  <2>3. QED
    BY <2>1, <2>2 DEF Pending
<1>9. ASSUME NEW k \in Jobs, k # j PROVE Pending(k)' <=> Pending(k)
  <2>1. jobs'[k].thread = jobs[k].thread
    BY <1>4, <1>9
  <2>2. \A d \in Clients : Runner(d)' /\ clients'[d].job = k <=> Runner(d) /\ clients[d].job = k
    BY <1>9 DEF Runner
  <2>3. QED
    BY <2>1, <2>2 DEF Pending
<1>10. ASSUME NEW k \in Used
       PROVE  /\ ObjectIsSound(k)' /\ OutcomeIsSound(k)'
              /\ jobs'[k].process = "alive" => jobs[k].process = "alive"
              /\ Clean(k)' => Clean(k)
              /\ Clean(k)' /\ jobs[k].status # "running" => jobs'[k] = jobs[k]
              /\ Clean(k)' => ~Pending(k)'
  <2>1. k \in Jobs /\ ObjectIsSound(k) /\ OutcomeIsSound(k)
    BY DEF Used, IInv
  <2>2. ObjectIsSound(k)' /\ jobs'[k].process = jobs[k].process
    <3>1. CASE k = r
      BY <1>4, <1>6, <2>1, <3>1 DEF ObjectIsSound
    <3>2. CASE k # r
      BY <1>4, <1>6, <2>1, <3>2 DEF ObjectIsSound
    <3>3. QED
      BY <3>1, <3>2
  <2>3. CASE k # r /\ k # j
    <3>1. jobs'[k] = jobs[k] /\ (Clean(k)' <=> Clean(k)) /\ (Pending(k)' <=> Pending(k))
      BY <1>4, <1>9, <2>1, <2>3 DEF Clean
    <3>2. Clean(k) => ~Pending(k)
      BY <2>3, Outcomes DEF r
    <3>3. OutcomeIsSound(k)'
      BY <2>1, <3>1, <3>2 DEF OutcomeIsSound
    <3>4. QED
      BY <2>2, <3>1, <3>2, <3>3
  <2>4. CASE k = r /\ r # j
    <3>1. ~Clean(k)'
      BY <1>4, <2>4 DEF Clean
    <3>2. QED
      BY <2>2, <3>1 DEF OutcomeIsSound
  <2>5. CASE k = j /\ r # j
    <3>1. ~Clean(j)
      BY <1>1, <2>5, Outcomes DEF r
    <3>2. jobs'[k] = jobs[k]
      BY <1>2, <1>4, <2>5
    <3>3. ~Clean(k)'
      BY <2>5, <3>1, <3>2 DEF Clean
    <3>4. QED
      BY <2>2, <3>3 DEF OutcomeIsSound
  <2>6. CASE k = j /\ r = j
    <3>1. Clean(j)' => Clean(j)
      BY <1>4, <2>6 DEF Clean
    <3>2. Clean(j) => jobs[j].status = "running"
      BY <1>1, Outcomes
    <3>3. Clean(j)' => jobs'[j].status = IF exit = "ok" THEN "done" ELSE "error"
      BY <1>4, <2>6, <3>1, <3>2 DEF Clean
    <3>4. jobs'[j].exit = exit /\ jobs'[j].process = "exited"
      BY <1>4, <2>2, <2>6
    <3>5. OutcomeIsSound(j)'
      BY <1>3, <1>8, <3>3, <3>4 DEF OutcomeIsSound
    <3>6. QED
      BY <1>8, <2>2, <2>6, <3>1, <3>2, <3>5
  <2>7. QED
    BY <2>3, <2>4, <2>5, <2>6
<1>11. Clean(j)' => jobs'[j].status # "running" /\ jobs'[j].exit = jobs[j].code
  <2>1. CASE r = j
    <3>1. Clean(j)' => jobs'[j].status \in {"done", "error"}
      BY <1>1, <1>8, <1>10 DEF OutcomeIsSound
    <3>2. QED
      BY <1>4, <2>1, <3>1
  <2>2. CASE r # j
    <3>1. ~Clean(j)
      BY <1>1, <2>2, Outcomes DEF r
    <3>2. QED
      BY <1>2, <1>4, <2>2, <3>1 DEF Clean
  <2>3. QED
    BY <2>1, <2>2
<1>12. jobs'[j].process = "exited"
  BY <1>2, <1>4
<1>13. QED
  BY <1>1, <1>4, <1>5, <1>6, <1>10, <1>11, <1>12

LEMMA ChildEndsStep ==
  ASSUME IInv, NEW c \in Clients, ChildEnds(c)
  PROVE  IInv'
<1>0. PICK j : j = clients[c].job
  OBVIOUS
<1> DEFINE code == jobs[j].code
           status == IF code = "ok" THEN "done" ELSE "error"
<1>1. /\ clients[c].pc \in {"pump", "deserted", "drain"} /\ jobs[j].process = "exited"
      /\ UNCHANGED <<registered, aborting, mode, provisioned>>
  BY <1>0 DEF ChildEnds
<1>2. Runner(c)
  BY <1>1 DEF Runner, Runs
<1>3. /\ slot = c /\ j \in Used /\ j \in Jobs /\ code \in {"ok", "failed"}
      /\ (mode = "compose" => ~provisioned)
  BY <1>0, <1>1, <1>2, RunnerHasChild DEF IInv, ObjectIsSound, Used
<1>4. registered \in Jobs
  BY <1>3 DEF IInv, ObjectsExist, Used
<1>5. Recorded(jobs', registered, j, code, status)
  <2>1. jobs' = Put(registered, j, code, status)
    BY <1>0 DEF ChildEnds, FinishRegistered, Outcome, Put
  <2>2. code \in Codes /\ status \in Statuses /\ TypeOK
    BY <1>3 DEF Codes, Statuses, IInv
  <2> HIDE DEF code, status
  <2>3. Recorded(Put(registered, j, code, status), registered, j, code, status)
    BY <1>4, <2>2, PutDown
  <2>4. QED
    BY <2>1, <2>3
<1>6. PICK new \in ClientType :
        /\ clients' = [clients EXCEPT ![c] = new] /\ clients'[c] = new /\ new.job = j
        /\ new.pc \in {"build", "exited"}
        /\ new.pc = "build" => slot' = slot
        /\ new.pc = "exited" => new.code = code /\ slot' = NoClient
  <2>1. CASE Goto(c, "build") /\ UNCHANGED slot
    <3>1. PICK new \in ClientType :
            /\ clients' = [clients EXCEPT ![c] = new] /\ clients'[c] = new
            /\ new.pc = "build" /\ new.job = j
      BY <1>0, <2>1, PlaceTyped DEF IInv
    <3>2. QED
      BY <2>1, <3>1
  <2>2. CASE clients' = [clients EXCEPT ![c].pc = "exited", ![c].code = code] /\ Release(c)
    <3> DEFINE new == [clients[c] EXCEPT !.pc = "exited", !.code = code]
    <3>1. new \in ClientType /\ new.job = j /\ new.pc = "exited" /\ new.code = code
      BY <1>0, <1>3, ClientFields DEF IInv, ClientType, Codes
    <3>2. clients' = [clients EXCEPT ![c] = new] /\ clients'[c] = new
      BY <2>2 DEF IInv, TypeOK
    <3>3. slot' = NoClient
      BY <1>3, <2>2 DEF Release
    <3> HIDE DEF new
    <3>4. QED
      BY <3>1, <3>2, <3>3
  <2>3. QED
    BY <1>0, <2>1, <2>2 DEF ChildEnds
<1>7. /\ status \in Statuses
      /\ status # "aborted" => status = IF jobs[j].code = "ok" THEN "done" ELSE "error"
  BY DEF Statuses
<1>8. ~Runner(c)' /\ \A d \in Clients : d # c => clients'[d] = clients[d]
  BY <1>6 DEF Runner, Runs, IInv, TypeOK
<1>9. j = clients[c].job /\ UNCHANGED registered
  BY <1>0, <1>1
<1> HIDE DEF status
<1>10. /\ jobs' \in [Jobs -> JobType]
       /\ \A k \in Jobs : /\ jobs'[k].kind = jobs[k].kind
                          /\ jobs[k].kind = "none" => jobs'[k] = jobs[k]
       /\ jobs'[j].process = "exited" /\ j \in Used /\ j \in Used'
       /\ \A k \in Used : /\ ObjectIsSound(k)' /\ OutcomeIsSound(k)'
                          /\ jobs'[k].process = "alive" => jobs[k].process = "alive"
                          /\ Clean(k)' => Clean(k)
                          /\ Clean(k)' /\ jobs[k].status # "running" => jobs'[k] = jobs[k]
       /\ \A k \in Used' : Clean(k)' => ~Pending(k)'
       /\ Clean(j)' => jobs'[j].status # "running" /\ jobs'[j].exit = jobs[j].code
  BY <1>1, <1>2, <1>5, <1>7, <1>8, <1>9, ChildOutcome, ZenonT(60)
<1>11. SessionIsSound(c)' /\ TellsTheTruth(c)'
  <2>1. SessionIsSound(c)'
    BY <1>1, <1>3, <1>6, <1>8, <1>10, SessionAssumption DEF SessionIsSound, Keeps, Runs, Ended
  <2>2. TellsTheTruth(c)'
    BY <1>6, <1>10 DEF TellsTheTruth
  <2>3. QED
    BY <2>1, <2>2
<1>12. /\ jobs'[clients[c].job].process = "exited" /\ slot' \in {slot, NoClient}
       /\ new.pc # "attach" /\ (new.job # NoJob => new.job \in Used)
  BY <1>3, <1>6, <1>9, <1>10
<1>13. UNCHANGED <<registered, aborting, mode, provisioned>>
  BY <1>1
<1>14. QED
  BY <1>2, <1>6, <1>10, <1>11, <1>12, <1>13, ChildStep, ZenonT(60)

LEMMA RecordsKillStep ==
  ASSUME IInv, NEW c \in Clients, RecordsKill(c)
  PROVE  IInv'
<1>0. PICK j : j = clients[c].job
  OBVIOUS
<1> DEFINE code == jobs[j].code
           new == Socket("idle")
<1>1. /\ clients[c].pc = "killed" /\ Leave(c)
      /\ UNCHANGED <<registered, aborting, mode, provisioned>>
  BY DEF RecordsKill, At
<1>2. Runner(c)
  BY <1>1 DEF Runner, Runs
<1>3. /\ slot = c /\ j \in Used /\ j \in Jobs /\ jobs[j].process = "exited"
      /\ code \in {"ok", "failed"}
  BY <1>0, <1>1, <1>2, RunnerHasChild DEF IInv, ObjectIsSound, Used
<1>4. registered \in Jobs
  BY <1>3 DEF IInv, ObjectsExist, Used
<1>5. Recorded(jobs', registered, j, code, "aborted")
  <2>1. jobs' = Put(registered, j, code, "aborted")
    BY <1>0 DEF RecordsKill, FinishRegistered, Outcome, Put
  <2>2. code \in Codes /\ "aborted" \in Statuses /\ TypeOK
    BY <1>3 DEF Codes, Statuses, IInv
  <2> HIDE DEF code
  <2>3. Recorded(Put(registered, j, code, "aborted"), registered, j, code, "aborted")
    BY <1>4, <2>2, PutDown
  <2>4. QED
    BY <2>1, <2>3
<1>6. /\ clients' = [clients EXCEPT ![c] = new] /\ clients'[c] = new /\ slot' = NoClient
      /\ new \in ClientType /\ new.pc = "idle" /\ new.job = NoJob
  BY <1>1, <1>3, SocketTyped DEF Leave, Release, IInv, TypeOK
<1> HIDE DEF new
<1>7. "aborted" \in Statuses
      /\ ("aborted" # "aborted" => "aborted" = IF jobs[j].code = "ok" THEN "done" ELSE "error")
  BY DEF Statuses
<1>8. ~Runner(c)' /\ \A d \in Clients : d # c => clients'[d] = clients[d]
  BY <1>6 DEF Runner, Runs, IInv, TypeOK
<1>9. j = clients[c].job /\ UNCHANGED registered
  BY <1>0, <1>1
<1>10. /\ jobs' \in [Jobs -> JobType]
       /\ \A k \in Jobs : /\ jobs'[k].kind = jobs[k].kind
                          /\ jobs[k].kind = "none" => jobs'[k] = jobs[k]
       /\ jobs'[j].process = "exited" /\ j \in Used /\ j \in Used'
       /\ \A k \in Used : /\ ObjectIsSound(k)' /\ OutcomeIsSound(k)'
                          /\ jobs'[k].process = "alive" => jobs[k].process = "alive"
                          /\ Clean(k)' => Clean(k)
                          /\ Clean(k)' /\ jobs[k].status # "running" => jobs'[k] = jobs[k]
       /\ \A k \in Used' : Clean(k)' => ~Pending(k)'
       /\ Clean(j)' => jobs'[j].status # "running" /\ jobs'[j].exit = jobs[j].code
  BY <1>2, <1>3, <1>5, <1>7, <1>8, <1>9, ChildOutcome, ZenonT(60)
<1>11. SessionIsSound(c)' /\ TellsTheTruth(c)'
  BY <1>6, <1>8, SessionAssumption DEF SessionIsSound, TellsTheTruth, Keeps, Runs
<1>12. /\ jobs'[clients[c].job].process = "exited" /\ slot' \in {slot, NoClient}
       /\ new.pc # "attach" /\ (new.job # NoJob => new.job \in Used)
  BY <1>6, <1>9, <1>10
<1>13. UNCHANGED <<registered, aborting, mode, provisioned>>
  BY <1>1
<1>14. QED
  BY <1>2, <1>6, <1>10, <1>11, <1>12, <1>13, ChildStep, ZenonT(60)

----------------------------------------------------------------------------
(* Registering a job *)

\* Registering gives an object that nothing refers to; those that are referred to stay, but
\* for the log of the last job.
LEMMA Registers ==
  ASSUME IInv, NEW j \in Jobs, NEW kind \in {"spawned", "deploy", "install"},
         Register(j, kind, Held)
  PROVE  /\ jobs' \in [Jobs -> JobType] /\ registered' = j /\ aborting' = aborting
         /\ jobs'[j] = Started(kind) /\ j \in Used'
         /\ \A k \in Jobs : k # j =>
              \/ jobs'[k] = Unused
              \/ /\ jobs'[k].kind = jobs[k].kind /\ jobs'[k].status = jobs[k].status
                 /\ jobs'[k].exit = jobs[k].exit /\ jobs'[k].process = jobs[k].process
                 /\ jobs'[k].code = jobs[k].code /\ jobs'[k].log = jobs[k].log
                 /\ jobs'[k].own = jobs[k].own /\ jobs'[k].thread = jobs[k].thread
                 /\ jobs'[k].target = jobs[k].target
                 /\ jobs'[k].kept => jobs[k].kept
         /\ \A k \in Used : InUse(k) \/ k \in Held =>
              k # j /\ k \in Used' /\ jobs'[k].kind = jobs[k].kind
         /\ \A k \in Used' : k # j => k \in Used
<1> DEFINE garbage == {k \in Jobs : ~InUse(k) /\ k \notin Held}
<1>1. /\ j \in garbage /\ registered' = j /\ aborting' = aborting
      /\ jobs' = [k \in Jobs |-> CASE k = j -> Started(kind)
                                 [] k \in garbage \ {j} -> Unused
                                 [] OTHER -> WithoutOldLog[k]]
  BY DEF Register
<1>2. Started(kind) \in JobType /\ Started(kind).kind = kind /\ Unused \in JobType
      /\ Unused.kind = "none"
  <2>1. 0 \in 0..MaxLog
    BY RegistryAssumption
  <2>2. QED
    BY <2>1 DEF Started, Unused, JobType, Kinds, Statuses, Codes
<1>3. ASSUME NEW k \in Jobs
      PROVE  /\ WithoutOldLog[k] \in JobType
             /\ WithoutOldLog[k].kind = jobs[k].kind /\ WithoutOldLog[k].status = jobs[k].status
             /\ WithoutOldLog[k].exit = jobs[k].exit /\ WithoutOldLog[k].process = jobs[k].process
             /\ WithoutOldLog[k].code = jobs[k].code /\ WithoutOldLog[k].log = jobs[k].log
             /\ WithoutOldLog[k].own = jobs[k].own /\ WithoutOldLog[k].thread = jobs[k].thread
             /\ WithoutOldLog[k].target = jobs[k].target
             /\ WithoutOldLog[k].kept => jobs[k].kept
  <2>1. jobs \in [Jobs -> JobType] /\ jobs[k] \in JobType
    BY JobFields DEF IInv, TypeOK, RegistryTypeOK
  <2>2. WithoutOldLog[k] = jobs[k] \/ WithoutOldLog[k] = [jobs[k] EXCEPT !.kept = FALSE]
    BY <2>1 DEF WithoutOldLog
  <2>3. CASE WithoutOldLog[k] = jobs[k]
    BY <2>1, <2>3
  <2>4. CASE WithoutOldLog[k] = [jobs[k] EXCEPT !.kept = FALSE]
    BY <2>1, <2>4 DEF JobType
  <2>5. QED
    BY <2>2, <2>3, <2>4
<1> HIDE DEF garbage
<1>4. /\ jobs'[j] = Started(kind)
      /\ \A k \in Jobs : k # j /\ k \in garbage => jobs'[k] = Unused
      /\ \A k \in Jobs : k # j /\ k \notin garbage => jobs'[k] = WithoutOldLog[k]
  BY <1>1
<1>5. jobs' \in [Jobs -> JobType]
  BY <1>1, <1>2, <1>3
<1>6. j \in Used'
  BY <1>2, <1>4 DEF Used
<1>7. \A k \in Used : InUse(k) \/ k \in Held =>
         k # j /\ k \in Used' /\ jobs'[k].kind = jobs[k].kind
  <2>1. ASSUME NEW k \in Used, InUse(k) \/ k \in Held PROVE k # j /\ k \notin garbage
    BY <1>1, <2>1 DEF garbage
  <2>2. QED
    BY <1>3, <1>4, <2>1 DEF Used
<1>8. \A k \in Used' : k # j => k \in Used
  BY <1>2, <1>3, <1>4 DEF Used
<1>9. ASSUME NEW k \in Jobs, k # j
      PROVE  \/ jobs'[k] = Unused
             \/ /\ jobs'[k].kind = jobs[k].kind /\ jobs'[k].status = jobs[k].status
                /\ jobs'[k].exit = jobs[k].exit /\ jobs'[k].process = jobs[k].process
                /\ jobs'[k].code = jobs[k].code /\ jobs'[k].log = jobs[k].log
                /\ jobs'[k].own = jobs[k].own /\ jobs'[k].thread = jobs[k].thread
                /\ jobs'[k].target = jobs[k].target
                /\ jobs'[k].kept => jobs[k].kept
  BY <1>3, <1>4, <1>9
<1>10. QED
  BY <1>1, <1>4, <1>5, <1>6, <1>7, <1>8, <1>9

\* A job is registered when nothing is to be reported and no child runs.
LEMMA RegisterStep ==
  ASSUME IInv, NEW j \in Jobs, NEW kind \in {"spawned", "deploy", "install"},
         Register(j, kind, Held), UNCHANGED <<mode, provisioned, slot>>,
         \A k \in Used : /\ Clean(k) => ~Pending(k)
                         /\ ~(jobs[k].kind = "install" /\ jobs[k].process = "alive"),
         kind = "install" \/ ~(mode = "exec" \/ (mode = "compose" /\ ~provisioned)),
         clients' \in [Clients -> ClientType],
         \A d \in Clients : clients'[d].job \in {clients[d].job, j},
         \A d \in Clients : Runner(d)' => (Runner(d) /\ clients'[d].job = clients[d].job)
                                          \/ clients'[d].job = j,
         kind = "install" => \E d \in Clients : /\ slot = d /\ clients'[d].job = j
                                                /\ clients'[d].pc \in Runs \ {"killed"},
         \A d \in Clients :
           \/ clients'[d] = clients[d] /\ clients[d].pc \notin {"ready", "build", "launch"}
           \/ SessionIsSound(d)' /\ TellsTheTruth(d)'
  PROVE  IInv'
<1>1. /\ jobs' \in [Jobs -> JobType] /\ registered' = j /\ aborting' = aborting
      /\ jobs'[j] = Started(kind) /\ j \in Used'
      /\ \A k \in Used' : k # j => k \in Used
  BY Registers
<1>2. \A k \in Jobs : k # j =>
        \/ jobs'[k] = Unused
        \/ /\ jobs'[k].kind = jobs[k].kind /\ jobs'[k].status = jobs[k].status
           /\ jobs'[k].exit = jobs[k].exit /\ jobs'[k].process = jobs[k].process
           /\ jobs'[k].code = jobs[k].code /\ jobs'[k].log = jobs[k].log
           /\ jobs'[k].own = jobs[k].own /\ jobs'[k].thread = jobs[k].thread
           /\ jobs'[k].target = jobs[k].target
           /\ jobs'[k].kept => jobs[k].kept
  BY Registers
<1>3. \A k \in Used : InUse(k) \/ k \in Held =>
        k # j /\ k \in Used' /\ jobs'[k].kind = jobs[k].kind
  BY Registers
<1>4. /\ jobs'[j].kind = kind /\ jobs'[j].status = "running" /\ jobs'[j].process = "alive"
      /\ jobs'[j].own = TRUE
      /\ jobs'[j].thread = IF kind = "install" THEN "none" ELSE "new"
  BY <1>1 DEF Started, Unused
<1>5. Unused.kind = "none" /\ NoJob \notin Jobs
  BY JobsArePositive DEF Unused
<1>6. ASSUME NEW k \in Used', k # j
      PROVE  /\ k \in Used /\ k \in Jobs
             /\ jobs'[k].kind = jobs[k].kind /\ jobs'[k].status = jobs[k].status
             /\ jobs'[k].exit = jobs[k].exit /\ jobs'[k].process = jobs[k].process
             /\ jobs'[k].code = jobs[k].code /\ jobs'[k].log = jobs[k].log
             /\ jobs'[k].own = jobs[k].own /\ jobs'[k].thread = jobs[k].thread
             /\ jobs'[k].target = jobs[k].target
             /\ jobs'[k].kept => jobs[k].kept
  BY <1>1, <1>2, <1>5, <1>6 DEF Used
<1>7. TypeOK'
  BY <1>1 DEF IInv, TypeOK, RegistryTypeOK
<1>8. ObjectsExist'
  <2>1. ObjectsExist
    BY DEF IInv
  <2>2. ASSUME NEW k \in Jobs, jobs'[k].kind = "none" PROVE jobs'[k] = Unused
    <3>1. k # j
      BY <1>4, <2>2
    <3>2. jobs[k].kind = "none" => k # registered
      <4>1. jobs[k].kind = "none" => k \notin Used
        BY DEF Used
      <4>2. registered = NoJob \/ registered \in Used
        BY <2>1 DEF ObjectsExist
      <4>3. QED
        BY <1>5, <4>1, <4>2
    <3>3. CASE jobs[k].kind # "none"
      BY <1>2, <2>2, <3>1, <3>3
    <3>4. CASE jobs[k].kind = "none"
      <4>1. jobs[k] = Unused /\ k # registered
        BY <2>1, <3>2, <3>4 DEF ObjectsExist
      <4>2. WithoutOldLog[k] = jobs[k]
        BY <4>1 DEF WithoutOldLog, IInv, TypeOK, RegistryTypeOK
      <4>3. jobs'[k] = Unused
        BY <3>1, <4>1, <4>2 DEF Register
      <4>4. QED
        BY <4>3
    <3>5. QED
      BY <3>3, <3>4
  <2>3. aborting # NoJob => aborting \in Used'
    BY <1>3, <2>1 DEF ObjectsExist, InUse
  <2>4. ASSUME NEW d \in Clients
        PROVE  clients'[d].job # NoJob => clients'[d].job \in Used'
    <3>1. clients[d].job # NoJob => clients[d].job \in Used /\ clients[d].job \in Held
      BY <2>1 DEF ObjectsExist, Held
    <3>2. QED
      BY <1>1, <1>3, <3>1
  <2>5. Unused' = Unused
    BY DEF Unused
  <2>6. QED
    BY <1>1, <2>2, <2>3, <2>4, <2>5 DEF ObjectsExist
<1>9. ASSUME NEW k \in Used', k # j, Clean(k)' PROVE Clean(k) /\ ~Pending(k)'
  <2>1. Clean(k) /\ ~Pending(k) /\ jobs'[k].thread = jobs[k].thread
    BY <1>6, <1>9 DEF Clean
  <2>2. QED
    BY <1>9, <2>1 DEF Pending
<1>10. ASSUME NEW k \in Used' PROVE ObjectIsSound(k)' /\ OutcomeIsSound(k)' /\ ChildIsHeld(k)'
  <2>1. CASE k = j
    <3>1. ObjectIsSound(k)'
      BY <1>4, <2>1 DEF ObjectIsSound
    <3>2. Pending(k)'
      BY <1>4, <2>1 DEF Pending, Runner
    <3>3. OutcomeIsSound(k)'
      BY <1>1, <1>4, <2>1, <3>2 DEF OutcomeIsSound
    <3>4. ChildIsHeld(k)'
      BY <1>4, <2>1 DEF ChildIsHeld
    <3>5. QED
      BY <3>1, <3>3, <3>4
  <2>2. CASE k # j
    <3>1. ObjectIsSound(k) /\ OutcomeIsSound(k) /\ k \in Used
      BY <1>6, <2>2 DEF IInv
    <3>2. jobs[k].thread = "waiting" => jobs[k].target \in Used'
      <4>1. jobs[k].thread = "waiting" => jobs[k].target \in Used /\ InUse(jobs[k].target)
        BY <1>6, <2>2, <3>1 DEF ObjectIsSound, InUse
      <4>2. QED
        BY <1>3, <4>1
    <3>3. ObjectIsSound(k)'
      BY <1>6, <2>2, <3>1, <3>2 DEF ObjectIsSound
    <3>4. OutcomeIsSound(k)'
      BY <1>6, <1>9, <2>2, <3>1 DEF OutcomeIsSound
    <3>5. ChildIsHeld(k)'
      BY <1>6, <2>2 DEF ChildIsHeld
    <3>6. QED
      BY <3>3, <3>4, <3>5
  <2>3. QED
    BY <2>1, <2>2
<1>11. ASSUME NEW d \in Clients PROVE SessionIsSound(d)' /\ TellsTheTruth(d)'
  <2>1. CASE clients'[d] = clients[d] /\ clients[d].pc \notin {"ready", "build", "launch"}
    <3>1. ASSUME clients[d].job \in Used
          PROVE  /\ clients[d].job \in Used'
                 /\ jobs'[clients[d].job].kind = jobs[clients[d].job].kind
                 /\ Clean(clients[d].job)' => Clean(clients[d].job)
                 /\ Clean(clients[d].job)' /\ jobs[clients[d].job].status # "running" =>
                      /\ jobs'[clients[d].job].status = jobs[clients[d].job].status
                      /\ jobs'[clients[d].job].exit = jobs[clients[d].job].exit
                      /\ jobs'[clients[d].job].log = jobs[clients[d].job].log
                      /\ jobs'[clients[d].job].kept => jobs[clients[d].job].kept
      <4>1. PICK k : k = clients[d].job
        OBVIOUS
      <4>2. k # j /\ k \in Used'
        BY <1>3, <3>1, <4>1 DEF Held
      <4>3. Clean(k)' => Clean(k)
        BY <1>9, <4>2
      <4>4. Clean(clients[d].job)' <=> Clean(k)'
        BY <2>1, <4>1 DEF Clean
      <4>5. QED
        BY <1>6, <4>1, <4>2, <4>3, <4>4
    <3>2. clients[d].pc \in {"ready", "build", "launch"} =>
            \A k \in Used' : Clean(k)' /\ Pending(k)' => k \in Used /\ Clean(k) /\ Pending(k)
      BY <2>1
    <3>3. slot' = d <=> slot = d
      OBVIOUS
    <3>4. UNCHANGED mode /\ (clients[d].pc \in Keeps => UNCHANGED provisioned)
      OBVIOUS
    <3>5. clients'[d] = clients[d]
      BY <2>1
    <3>6. QED
      BY <3>1, <3>2, <3>3, <3>4, <3>5, Bystander, ZenonT(60)
  <2>2. QED
    BY <2>1
<1>12. OnlyInstalls'
  <2>1. ASSUME mode = "exec" \/ (mode = "compose" /\ ~provisioned), NEW k \in Used'
        PROVE  jobs'[k].kind = "install"
    BY <1>4, <1>6, <2>1 DEF IInv, OnlyInstalls
  <2>2. QED
    BY <2>1 DEF OnlyInstalls
<1>13. QED
  BY <1>7, <1>8, <1>10, <1>11, <1>12 DEF IInv

\* Beside a session that is about to start something nothing runs.
LEMMA NothingRuns ==
  ASSUME IInv, NEW c \in Clients, clients[c].pc \in {"ready", "build", "launch"}
  PROVE  /\ slot = c
         /\ \A k \in Used : /\ Clean(k) => ~Pending(k)
                            /\ ~(jobs[k].kind = "install" /\ jobs[k].process = "alive")
         /\ \A d \in Clients : d # c => clients[d].pc \notin {"ready", "build", "launch"}
<1>1. slot = c /\ \A k \in Used : Clean(k) => ~Pending(k)
  BY DEF IInv, SessionIsSound, Keeps
<1>2. ASSUME NEW k \in Used, jobs[k].kind = "install", jobs[k].process = "alive" PROVE FALSE
  <2>1. PICK d \in Clients : slot = d /\ clients[d].pc \in Runs \ {"killed"}
    BY <1>2 DEF IInv, ChildIsHeld
  <2>2. QED
    BY <1>1, <2>1 DEF Runs
<1>3. ASSUME NEW d \in Clients, d # c PROVE clients[d].pc \notin {"ready", "build", "launch"}
  BY <1>1, <1>3 DEF IInv, SessionIsSound, Keeps
<1>4. QED
  BY <1>1, <1>2, <1>3

LEMMA StartsStep ==
  ASSUME IInv, NEW c \in Clients, Starts(c)
  PROVE  IInv'
<1>1. clients[c].pc = "ready" /\ UNCHANGED <<mode, provisioned, slot>>
  BY DEF Starts, At
<1>2. PICK j \in Jobs : /\ Register(j, "install", Held)
                        /\ clients' = [clients EXCEPT ![c].pc = "pump", ![c].job = j]
  BY DEF Starts
<1>3. /\ slot = c
      /\ \A k \in Used : /\ Clean(k) => ~Pending(k)
                         /\ ~(jobs[k].kind = "install" /\ jobs[k].process = "alive")
      /\ \A d \in Clients : d # c => clients[d].pc \notin {"ready", "build", "launch"}
  BY <1>1, NothingRuns
<1>4. /\ clients'[c].pc = "pump" /\ clients'[c].job = j /\ clients' \in [Clients -> ClientType]
      /\ \A d \in Clients : d # c => clients'[d] = clients[d]
  <2>1. clients \in [Clients -> ClientType]
    BY DEF IInv, TypeOK
  <2>2. QED
    BY <1>2, <2>1 DEF ClientType
<1>5. j \in Used' /\ jobs'[j].kind = "install"
  <2>1. j \in Used' /\ jobs'[j] = Started("install")
    BY <1>2, Registers
  <2>2. QED
    BY <2>1 DEF Started, Unused
<1>6. SessionIsSound(c)' /\ TellsTheTruth(c)'
  <2>1. mode = "compose" => ~provisioned
    BY <1>1 DEF IInv, SessionIsSound, Keeps
  <2>2. SessionIsSound(c)'
    BY <1>1, <1>3, <1>4, <1>5, <2>1 DEF SessionIsSound, Ended, Keeps, Runs
  <2>3. TellsTheTruth(c)'
    BY <1>4 DEF TellsTheTruth
  <2>4. QED
    BY <2>2, <2>3
<1>7. \A d \in Clients : clients'[d].job \in {clients[d].job, j}
  BY <1>4
<1>8. \A d \in Clients : Runner(d)' => (Runner(d) /\ clients'[d].job = clients[d].job)
                                       \/ clients'[d].job = j
  BY <1>4 DEF Runner
<1>9. \E d \in Clients : /\ slot = d /\ clients'[d].job = j
                         /\ clients'[d].pc \in Runs \ {"killed"}
  BY <1>3, <1>4 DEF Runs
<1>10. \A d \in Clients :
         \/ clients'[d] = clients[d] /\ clients[d].pc \notin {"ready", "build", "launch"}
         \/ SessionIsSound(d)' /\ TellsTheTruth(d)'
  BY <1>3, <1>4, <1>6
<1>11. QED
  BY <1>1, <1>2, <1>3, <1>4, <1>7, <1>8, <1>9, <1>10, RegisterStep, ZenonT(60)

LEMMA LaunchesBuildStep ==
  ASSUME IInv, NEW c \in Clients, LaunchesBuild(c)
  PROVE  IInv'
<1>1. AboutToBuild(c) /\ Goto(c, "attach") /\ UNCHANGED <<mode, provisioned, slot>>
  BY DEF LaunchesBuild
<1>2. PICK j \in Jobs : Register(j, "deploy", Held)
  BY DEF LaunchesBuild
<1>3. /\ clients[c].pc \in {"ready", "build", "launch"}
      /\ ~(mode = "exec" \/ (mode = "compose" /\ ~provisioned))
  <2>1. clients[c].pc = "launch" \/ (mode = "dockerfile" /\ clients[c].pc = "build")
    BY <1>1 DEF AboutToBuild, At
  <2>2. clients[c].pc = "launch" => mode = "compose" /\ provisioned
    BY DEF IInv, SessionIsSound
  <2>3. QED
    BY <2>1, <2>2
<1>4. /\ slot = c
      /\ \A k \in Used : /\ Clean(k) => ~Pending(k)
                         /\ ~(jobs[k].kind = "install" /\ jobs[k].process = "alive")
      /\ \A d \in Clients : d # c => clients[d].pc \notin {"ready", "build", "launch"}
  BY <1>3, NothingRuns
<1>5. /\ clients'[c].pc = "attach" /\ clients'[c].job = clients[c].job
      /\ clients' \in [Clients -> ClientType]
      /\ \A d \in Clients : d # c => clients'[d] = clients[d]
  <2>1. clients \in [Clients -> ClientType]
    BY DEF IInv, TypeOK
  <2>2. QED
    BY <1>1, <2>1 DEF ClientType, Goto
<1>6. SessionIsSound(c)' /\ TellsTheTruth(c)'
  <2>1. SessionIsSound(c)'
    BY <1>5 DEF SessionIsSound, Ended, Keeps, Runs, Runner
  <2>2. TellsTheTruth(c)'
    BY <1>5 DEF TellsTheTruth
  <2>3. QED
    BY <2>1, <2>2
<1>7. \A d \in Clients : clients'[d].job \in {clients[d].job, j}
  BY <1>5
<1>8. \A d \in Clients : Runner(d)' => (Runner(d) /\ clients'[d].job = clients[d].job)
                                       \/ clients'[d].job = j
  BY <1>5 DEF Runner, Runs
<1>9. \A d \in Clients :
        \/ clients'[d] = clients[d] /\ clients[d].pc \notin {"ready", "build", "launch"}
        \/ SessionIsSound(d)' /\ TellsTheTruth(d)'
  BY <1>4, <1>5, <1>6
<1>10. QED
  BY <1>1, <1>2, <1>3, <1>4, <1>5, <1>7, <1>8, <1>9, RegisterStep, ZenonT(60)

LEMMA ApiLaunchesStep ==
  ASSUME IInv, ApiLaunches
  PROVE  IInv'
<1>1. /\ mode # "exec" /\ provisioned /\ Quiet /\ slot = NoClient
      /\ UNCHANGED <<mode, provisioned, slot, clients>>
  BY DEF ApiLaunches, sessionVars
<1>2. PICK j \in Jobs, kind \in {"spawned", "deploy"} : Register(j, kind, Held)
  BY DEF ApiLaunches
<1>3. ASSUME NEW d \in Clients
      PROVE  ~Runner(d) /\ clients[d].pc \notin {"ready", "build", "launch"}
  BY <1>1, SessionAssumption DEF IInv, SessionIsSound, Keeps, Runner
<1>4. \A k \in Used : /\ Clean(k) => ~Pending(k)
                      /\ ~(jobs[k].kind = "install" /\ jobs[k].process = "alive")
  BY <1>1, <1>3 DEF Quiet, Pending
<1>5. \A d \in Clients : Runner(d)' => (Runner(d) /\ clients'[d].job = clients[d].job)
                                       \/ clients'[d].job = j
  BY <1>1, <1>3 DEF Runner
<1>6. clients' \in [Clients -> ClientType]
  BY <1>1 DEF IInv, TypeOK
<1>7. kind \in {"spawned", "deploy", "install"} /\ kind # "install"
  OBVIOUS
<1>8. ~(mode = "exec" \/ (mode = "compose" /\ ~provisioned))
  BY <1>1
<1>9. \A d \in Clients : clients'[d].job \in {clients[d].job, j}
  BY <1>1
<1>10. \A d \in Clients :
        \/ clients'[d] = clients[d] /\ clients[d].pc \notin {"ready", "build", "launch"}
        \/ SessionIsSound(d)' /\ TellsTheTruth(d)'
  BY <1>1, <1>3
<1>11. QED
  BY <1>1, <1>2, <1>4, <1>5, <1>6, <1>7, <1>8, <1>9, <1>10, RegisterStep, ZenonT(60)

----------------------------------------------------------------------------
(* Every step, and the theorems *)

LEMMA StutterIsSound ==
  ASSUME IInv, UNCHANGED vars
  PROVE  IInv'
<1>1. UNCHANGED <<jobs, registered, aborting, mode, provisioned, slot, clients>>
  BY DEF vars, registryVars, sessionVars
<1>2. TypeOK' /\ ObjectsExist' /\ Used' = Used
  BY <1>1 DEF IInv, TypeOK, RegistryTypeOK, ObjectsExist, Used, Unused
<1>3. ASSUME NEW j \in Used PROVE ObjectIsSound(j)' /\ OutcomeIsSound(j)' /\ ChildIsHeld(j)'
  <2>1. ObjectIsSound(j) /\ OutcomeIsSound(j) /\ ChildIsHeld(j)
    BY DEF IInv
  <2>2. (Clean(j)' <=> Clean(j)) /\ (Pending(j)' <=> Pending(j))
    BY <1>1 DEF Clean, Pending, Runner
  <2>3. ObjectIsSound(j)' /\ OutcomeIsSound(j)'
    BY <1>1, <1>2, <2>1, <2>2 DEF ObjectIsSound, OutcomeIsSound
  <2>4. ChildIsHeld(j)'
    BY <1>1, <2>1 DEF ChildIsHeld
  <2>5. QED
    BY <2>3, <2>4
<1>4. ASSUME NEW c \in Clients PROVE SessionIsSound(c)' /\ TellsTheTruth(c)'
  <2>1. SessionIsSound(c) /\ TellsTheTruth(c)
    BY DEF IInv
  <2>2. \A j \in Used : (Clean(j)' <=> Clean(j)) /\ (Pending(j)' <=> Pending(j))
    BY <1>1 DEF Clean, Pending, Runner
  <2>3. SessionIsSound(c)'
    BY <1>1, <1>2, <2>1, <2>2 DEF SessionIsSound, Runner
  <2>4. TellsTheTruth(c)'
    BY <1>1, <1>2, <2>1 DEF TellsTheTruth, Clean
  <2>5. QED
    BY <2>3, <2>4
<1>5. OnlyInstalls'
  BY <1>1, <1>2 DEF IInv, OnlyInstalls
<1>6. QED
  BY <1>2, <1>3, <1>4, <1>5 DEF IInv

LEMMA CoroutineStep ==
  ASSUME IInv, NEW c \in Clients, Coroutine(c)
  PROVE  IInv'
<1>1. CASE Fails(c)
  BY <1>1, OpeningSteps
<1>2. CASE Starts(c)
  BY <1>2, StartsStep
<1>3. CASE ChildEnds(c) \/ Kills(c) \/ RecordsKill(c)
  BY <1>3, ChildEndsStep, KillsStep, RecordsKillStep
<1>4. CASE SendFails(c)
  BY <1>4, PumpSteps
<1>5. CASE LosesBuild(c)
  BY <1>5, LosesOrStops
<1>6. CASE Provisions(c) \/ LaunchesBuild(c)
  BY <1>6, ProvisionsStep, LaunchesBuildStep
<1>7. CASE Attaches(c) \/ Samples(c)
  BY <1>7, AttachesStep, SamplesStep
<1>8. CASE Reads(c) \/ SendsExit(c)
  BY <1>8, ReadsStep, SendsExitStep
<1>9. QED
  BY <1>1, <1>2, <1>3, <1>4, <1>5, <1>6, <1>7, <1>8 DEF Coroutine

LEMMA StepIsSound ==
  ASSUME IInv, [Next]_vars
  PROVE  IInv'
<1>1. CASE UNCHANGED vars
  BY <1>1, StutterIsSound
<1>2. ASSUME NEW c \in Clients, Coroutine(c) PROVE IInv'
  BY <1>2, CoroutineStep
<1>3. ASSUME NEW c \in Clients, TailsRunningJob(c) \/ Watches(c) PROVE IInv'
  BY <1>3, OpeningSteps
<1>4. ASSUME NEW c \in Clients, Opens(c) PROVE IInv'
  BY <1>4, OpensOrNot, StutterIsSound
<1>5. ASSUME NEW c \in Clients, Deserts(c) \/ SeesDisconnect(c) PROVE IInv'
  BY <1>5, PumpSteps
<1>6. ASSUME NEW c \in Clients, StopsStreaming(c) \/ Closes(c) PROVE IInv'
  BY <1>6, LosesOrStops, ClosesStep
<1>7. ASSUME NEW j \in Jobs, Job(j) PROVE IInv'
  BY <1>7, ProcessSteps, MonitorStartsStep, MonitorEndsStep, DeployLogsStep, DeployEndsStep
     DEF Job, Threads
<1>8. CASE ApiLaunches \/ Aborts \/ Marks
  BY <1>8, ApiLaunchesStep, AbortSteps DEF Aborts, Marks
<1>9. QED
  BY <1>1, <1>2, <1>3, <1>4, <1>5, <1>6, <1>7, <1>8 DEF Next

\* Reachable states satisfy the invariant.
THEOREM SessionsAreSound == Spec => []IInv
<1>1. Init => IInv
  BY InitIsSound
<1>2. IInv /\ [Next]_vars => IInv'
  BY StepIsSound
<1>3. QED
  BY <1>1, <1>2, PTL DEF Spec

\* Every variable keeps its type.
THEOREM TypeCorrect == Spec => []TypeOK
<1>1. IInv => TypeOK
  BY DEF IInv
<1>2. QED
  BY <1>1, SessionsAreSound, PTL

LEMMA JobOfToldClient ==
  ASSUME IInv, NEW c \in Clients, clients[c].pc \in {"told", "exited"},
         Undisturbed(clients[c].job)
  PROVE  clients[c].job \in Used /\ Clean(clients[c].job)
BY DEF IInv, TellsTheTruth, Undisturbed, Clean

\* The exit frame of a streamed job comes after all of its log (stream_job samples the
\* status before it reads), however sessions, threads and aborts interleave.
THEOREM StreamsAreComplete == Spec => []StreamIsComplete
<1>1. ASSUME IInv, NEW c \in Clients, At(c, "told"), Undisturbed(clients[c].job),
             jobs[clients[c].job].kept
      PROVE  clients[c].offset = jobs[clients[c].job].log
  <2>1. clients[c].pc = "told" /\ Clean(clients[c].job)
    BY <1>1, JobOfToldClient DEF At
  <2>2. QED
    BY <1>1, <2>1 DEF IInv, TellsTheTruth
<1>2. IInv => StreamIsComplete
  BY <1>1 DEF StreamIsComplete
<1>3. QED
  BY <1>2, SessionsAreSound, PTL

\* The exit frame has the outcome of a process that has ended, the one in the registry.
THEOREM OutcomesAreTold == Spec => []ToldTheOutcome
<1>1. ASSUME IInv, NEW c \in Clients, clients[c].pc \in {"told", "exited"},
             Undisturbed(clients[c].job)
      PROVE  /\ jobs[clients[c].job].process = "exited"
             /\ clients[c].code = jobs[clients[c].job].exit
             /\ clients[c].code = "ok" <=> jobs[clients[c].job].status = "done"
  <2>1. clients[c].job \in Used /\ Clean(clients[c].job)
    BY <1>1, JobOfToldClient
  <2>2. /\ jobs[clients[c].job].status # "running"
        /\ clients[c].code = jobs[clients[c].job].exit
    BY <1>1, <2>1 DEF IInv, TellsTheTruth
  <2>3. QED
    BY <1>1, <2>1, <2>2, OverIsReported
<1>2. IInv => ToldTheOutcome
  BY <1>1 DEF ToldTheOutcome
<1>3. QED
  BY <1>2, SessionsAreSound, PTL

\* What is still to report the outcome of a job finds that job under its key.
THEOREM OutcomesAreApart == Spec => []OutcomesStayApart
<1>1. ASSUME IInv, NEW j \in Used, Finishes(j), Undisturbed(j) PROVE j = registered
  <2>1. Pending(j) /\ Clean(j)
    BY <1>1 DEF Finishes, Pending, Runner, Runs, Undisturbed, Clean
  <2>2. QED
    BY <1>1, <2>1, Outcomes
<1>2. IInv => OutcomesStayApart
  BY <1>1 DEF OutcomesStayApart
<1>3. QED
  BY <1>2, SessionsAreSound, PTL

\* A child of a session runs only while that session has the slot.
THEOREM ChildrenAreHeld == Spec => []InstallsHoldTheSlot
<1>1. ASSUME IInv, NEW j \in Used, jobs[j].kind = "install", jobs[j].process = "alive"
      PROVE  slot # NoClient /\ clients[slot].job = j
  BY <1>1, SessionAssumption DEF IInv, ChildIsHeld
<1>2. IInv => InstallsHoldTheSlot
  BY <1>1 DEF InstallsHoldTheSlot
<1>3. QED
  BY <1>2, SessionsAreSound, PTL

\* install.sh runs only before the project has services, and beside no build.
THEOREM PreRunsAreFirst == Spec => []PreRunsOnFreshProject
<1>1. ASSUME IInv, mode = "compose", NEW j \in Used, jobs[j].kind = "install",
             jobs[j].process = "alive"
      PROVE  ~provisioned /\ \A k \in Used : jobs[k].kind = "install"
  <2>1. PICK c \in Clients : clients[c].pc \in Runs \ {"killed"}
    BY <1>1 DEF IInv, ChildIsHeld
  <2>2. ~provisioned
    BY <1>1, <2>1, RunnerHasChild DEF Runner
  <2>3. QED
    BY <1>1, <2>2 DEF IInv, OnlyInstalls
<1>2. IInv => PreRunsOnFreshProject
  BY <1>1 DEF PreRunsOnFreshProject
<1>3. QED
  BY <1>2, SessionsAreSound, PTL
=============================================================================
