---------------------------- MODULE BackupsProofs ----------------------------
(* Proofs about Backups, for any number of rows, threads, versions and        *)
(* moments, any schedules and any settings.                                   *)
EXTENDS Backups, NumberLemmas, FiniteSetTheorems, TLAPS

(* The inductive invariant: whose archive is whose. *)

Busy(t) == thread[t].pc # "none"

\* No two rows name one archive, and an imported one has a version that was counted.
RowsDiffer ==
  /\ \A a, b \in Listed : rows[a].file = rows[b].file => a = b
  /\ \A a \in Listed : rows[a].file \in Files
  /\ \A a \in Listed : rows[a].file.imported => rows[a].file.version <= counter

ThreadsDiffer ==
  \A t, u \in Threads :
    Busy(t) /\ Busy(u) /\ t # u => thread[t].id # thread[u].id /\ thread[t].file # thread[u].file

\* A thread's archive is its row's and nobody else's, and is where its step has put it, ...
OwnArchive(t) ==
  /\ thread[t].pc # "pruned" => thread[t].doomed = {}
  /\ Busy(t) =>
       /\ ~thread[t].file.imported
       /\ \A a \in Listed : rows[a].file = thread[t].file <=> a = thread[t].id
       /\ thread[t].pc = "build" => thread[t].file \notin disk
       /\ thread[t].pc \in {"build", "packed"} /\ HasRow(t) =>
            rows[thread[t].id].status = "creating"
       /\ thread[t].pc = "packed" /\ HasRow(t) => thread[t].file \in disk
       /\ thread[t].pc \notin {"build", "packed"} /\ ~HasRow(t) => thread[t].file \notin disk

\* ... and the archives its retention has removed stay away as long as their rows are there.
DoomedGone(t) ==
  \A id \in thread[t].doomed :
    id \in Listed => rows[id].status \in {"ok", "error"} /\ rows[id].file \notin disk

CountedNext == importing # 0 => importing = counter + 1

Names ==
  /\ RowsDiffer /\ ThreadsDiffer /\ \A t \in Threads : OwnArchive(t) /\ DoomedGone(t)

----------------------------------------------------------------------------
(* Types *)

LEMMA NoFileIsNone == NoFile \notin Files /\ Idle \in [pc : {"none"}, id : {0}, file : {NoFile}, doomed : {{}}]
BY BackupsAssumption DEF NoFile, Files, Never, Times, Idle

\* The id of a new row is one that no row has, and that no thread uses.
LEMMA NewIdIsNew ==
  ASSUME TypeOK, MayGive(NewId)
  PROVE  /\ NewId \in Ids /\ NewId \notin Listed
         /\ "reuse" \notin Faults =>
              \A t \in Threads : NewId # thread[t].id /\ NewId \notin thread[t].doomed
<1>1. Listed \cup {0} \subseteq 0..MaxRows /\ MaxRows \in Nat
  BY BackupsAssumption DEF Listed, Ids
<1>2. Max(Listed \cup {0}) \in Listed \cup {0} /\ \A x \in Listed \cup {0} : x <= Max(Listed \cup {0})
  BY <1>1, MaxIsGreatest
<1>3. Max(Listed \cup {0}) \in Nat /\ Listed \subseteq Nat
  BY <1>1, <1>2
<1>4. NewId \notin Listed
  BY <1>2, <1>3 DEF NewId
<1>5. QED
  BY <1>4 DEF MayGive

\* A new row and its thread, which makes the archive.
Makes(t, file, row) ==
  /\ MayGive(NewId) /\ NewId \in Ids
  /\ row.status = "creating" /\ row.file = file /\ ~file.imported
  /\ file \notin FilesOf(Listed) \cup {thread[u].file : u \in Threads}
  /\ rows' = [rows EXCEPT ![NewId] = row]
  /\ thread[t] = Idle
  /\ thread' = [thread EXCEPT ![t] = [pc |-> "build", id |-> NewId, file |-> file, doomed |-> {}]]
  /\ running' = TRUE

RowType == [status : {"none", "creating", "ok", "error"}, file : Files \cup {NoFile},
            remote : {"none", "pending", "ok", "error"}]
BusyType == [pc : {"build", "packed", "ok", "shipped", "pruned"}, id : Ids, file : Files,
             doomed : SUBSET Ids]

LEMMA Types ==
  ASSUME TypeOK
  PROVE  /\ rows \in [Ids -> RowType] /\ thread \in [Threads -> {Idle} \cup BusyType]
         /\ disk \subseteq Files /\ remote \subseteq Files /\ running \in BOOLEAN
         /\ Idle.pc = "none" /\ Idle.id = 0 /\ Idle.doomed = {}
         /\ \A t \in Threads : IF Busy(t) THEN thread[t] \in BusyType ELSE thread[t] = Idle
BY DEF TypeOK, RowType, BusyType, Busy, Idle

LEMMA WithoutTyped == TypeOK => \A ids : Without(ids) \in [Ids -> RowType]
BY DEF NoRow, Row, RowType, TypeOK, Without

LEMMA Created ==
  ASSUME TypeOK, NEW version \in Versions, CreateBackup(version)
  PROVE  \E t \in Threads, file \in Files, row \in RowType : Makes(t, file, row)
<1> DEFINE file == [imported |-> FALSE, version |-> version, ts |-> clock]
           row == Row("creating", file, IF config.target THEN "pending" ELSE "none")
<1>1. file \in Files /\ ~file.imported
  BY DEF TypeOK, Files
<1>2. row \in RowType /\ row.status = "creating" /\ row.file = file
  BY <1>1 DEF Row, RowType
<1>3. MayGive(NewId) /\ NewId \in Ids
  BY DEF CreateBackup, MayGive
<1>4. rows' = [rows EXCEPT ![NewId] = row]
  BY DEF CreateBackup
<1>5. PICK t \in Threads :
        /\ thread[t] = Idle
        /\ thread' = [thread EXCEPT ![t] =
                        [pc |-> "build", id |-> NewId, file |-> file, doomed |-> {}]]
  BY DEF CreateBackup
<1>6. running' = TRUE /\ file \notin FilesOf(Listed) \cup {thread[u].file : u \in Threads}
  BY DEF CreateBackup
<1> HIDE DEF file, row
<1>7. Makes(t, file, row)
  BY <1>1, <1>2, <1>3, <1>4, <1>5, <1>6 DEF Makes
<1>8. QED
  BY <1>1, <1>2, <1>7

LEMMA CreatedTypes ==
  ASSUME TypeOK, NEW version \in Versions, CreateBackup(version)
  PROVE  /\ rows' \in [Ids -> RowType] /\ thread' \in [Threads -> {Idle} \cup BusyType]
         /\ running' \in BOOLEAN
<1>1. PICK t \in Threads, file \in Files, row \in RowType : Makes(t, file, row)
  BY Created
<1>2. [pc |-> "build", id |-> NewId, file |-> file, doomed |-> {}] \in BusyType
  BY <1>1 DEF BusyType, Makes
<1>3. QED
  BY <1>1, <1>2, Types DEF Makes

LEMMA ThreadTypes ==
  ASSUME TypeOK, NEW t \in Threads, CreateJob(t)
  PROVE  /\ rows' \in [Ids -> RowType] /\ thread' \in [Threads -> {Idle} \cup BusyType]
         /\ disk' \subseteq Files /\ remote' \subseteq Files /\ running' \in BOOLEAN
<1>1. /\ rows \in [Ids -> RowType] /\ thread \in [Threads -> {Idle} \cup BusyType]
      /\ disk \subseteq Files /\ remote \subseteq Files /\ running \in BOOLEAN
  BY Types
<1>2. thread[t] \in BusyType
  BY Types DEF CreateJob, Packs, Records, Ships, PrunesLocal, Finishes, Fails, Busy
<1>3. \A pc \in {"packed", "ok", "shipped", "pruned"} :
        [thread EXCEPT ![t].pc = pc] \in [Threads -> {Idle} \cup BusyType]
  <2>1. \A pc \in {"packed", "ok", "shipped", "pruned"} : [thread[t] EXCEPT !.pc = pc] \in BusyType
    BY <1>2 DEF BusyType
  <2>2. QED
    BY <1>1, <2>1
<1>4. \A s \in {"ok", "error"} : [rows EXCEPT ![thread[t].id].status = s] \in [Ids -> RowType]
  BY <1>1 DEF RowType
<1>5. \A s \in {"ok", "error"} : [rows EXCEPT ![thread[t].id].remote = s] \in [Ids -> RowType]
  BY <1>1 DEF RowType
<1>6. [thread EXCEPT ![t] = Idle] \in [Threads -> {Idle} \cup BusyType]
  BY <1>1
<1>7. thread[t].file \in Files
  BY <1>2 DEF BusyType
<1>8. CASE Packs(t)
  BY <1>1, <1>3, <1>7, <1>8 DEF Packs, Goto
<1>9. CASE Records(t)
  BY <1>1, <1>3, <1>4, <1>9 DEF Records, Goto
<1>10. CASE Ships(t)
  BY <1>1, <1>3, <1>5, <1>7, <1>10 DEF Ships, Goto, Uploads, Unreachable
<1>11. CASE PrunesLocal(t)
  <2>1. Surplus(config.keep_local) \in SUBSET Ids
    BY DEF Surplus, Kept, Listed
  <2> DEFINE gone == Surplus(config.keep_local)
             next == [thread[t] EXCEPT !.pc = "pruned", !.doomed = gone]
  <2> HIDE DEF gone
  <2>2. next \in BusyType
    BY <1>2, <2>1 DEF BusyType, gone
  <2>3. thread' = [thread EXCEPT ![t] = next]
    BY <1>1, <1>11 DEF PrunesLocal, gone
  <2>4. thread' \in [Threads -> {Idle} \cup BusyType]
    BY <1>1, <2>2, <2>3
  <2>5. QED
    BY <1>1, <1>11, <2>4 DEF PrunesLocal
<1>12. CASE Finishes(t)
  BY <1>1, <1>6, <1>12, WithoutTyped DEF Finishes, Trims, Unreachable
<1>13. CASE Fails(t)
  BY <1>1, <1>4, <1>6, <1>13 DEF Fails
<1>14. QED
  BY <1>8, <1>9, <1>10, <1>11, <1>12, <1>13 DEF CreateJob

LEMMA TypesFrom ==
  ASSUME TypeOK,
         rows' \in [Ids -> RowType], thread' \in [Threads -> {Idle} \cup BusyType],
         disk' \subseteq Files, remote' \subseteq Files, running' \in BOOLEAN,
         clock' \in Times, up' \in BOOLEAN, config' \in Settings,
         lastRun' \in Times \cup {Never}, counter' \in Versions, active' \in 0..counter',
         scheduler' \in {"idle", "starting"}, importing' \in Versions
  PROVE  TypeOK'
BY DEF TypeOK, RowType, BusyType

LEMMA CountIsKept == ASSUME TypeOK, CountedNext, [Next]_vars PROVE CountedNext'
<1>1. counter \in Nat /\ importing \in Nat
  BY BackupsAssumption DEF TypeOK, Versions
<1>2. CASE \E t \in Threads : CreateJob(t)
  BY <1>2 DEF CountedNext, CreateJob
<1>3. CASE Launch \/ DeployEnds \/ RollbackEnds \/ ApplyConfig \/ DeleteBackup
  BY <1>3 DEF CountedNext, Launch, DeployEnds, RollbackEnds, ApplyConfig, DeleteBackup
<1>4. CASE LaunchImport \/ ImportEnds \/ ImportFails
  BY <1>1, <1>4 DEF CountedNext, LaunchImport, ImportEnds, ImportFails
<1>5. CASE Tick \/ Advance \/ Crash \/ Boot \/ UNCHANGED vars
  BY <1>5 DEF CountedNext, Tick, Arms, Takes, Starts, FailsToStart, Advance, Crash, Boot, vars
<1>6. QED
  BY <1>2, <1>3, <1>4, <1>5 DEF Next

LEMMA TypesAreKept == ASSUME TypeOK, CountedNext, [Next]_vars PROVE TypeOK'
<1>1. /\ rows \in [Ids -> RowType] /\ thread \in [Threads -> {Idle} \cup BusyType]
      /\ disk \subseteq Files /\ remote \subseteq Files /\ running \in BOOLEAN
  BY Types
<1>2. /\ clock \in Times /\ up \in BOOLEAN /\ config \in Settings /\ lastRun \in Times \cup {Never}
      /\ counter \in Versions /\ active \in 0..counter
      /\ scheduler \in {"idle", "starting"} /\ importing \in Versions
      /\ MaxVersions \in Nat /\ MaxClock \in Nat
  BY BackupsAssumption DEF TypeOK
<1>3. active \in Versions /\ (counter < MaxVersions => counter + 1 \in Versions /\ counter + 1 \in 0..(counter + 1))
  BY <1>2 DEF Versions
<1>4. CASE Launch
  <2>1. PICK version \in (1..counter) \cup {active} : CreateBackup(version)
    BY <1>4 DEF Launch
  <2>2. version \in Versions
    BY <1>2, <1>3 DEF Versions
  <2>3. QED
    BY <1>1, <1>2, <1>4, <2>1, <2>2, CreatedTypes, TypesFrom DEF Launch
<1>5. CASE DeployEnds
  <2>1. /\ rows' \in [Ids -> RowType] /\ thread' \in [Threads -> {Idle} \cup BusyType]
        /\ running' \in BOOLEAN
    BY <1>1, <1>3, <1>5, CreatedTypes DEF DeployEnds, AfterDeploy
  <2>2. QED
    BY <1>1, <1>2, <1>3, <1>5, <2>1, TypesFrom DEF DeployEnds
<1>6. CASE RollbackEnds
  <2>1. active' \in 0..counter
    BY <1>2, <1>6 DEF RollbackEnds, Versions
  <2>2. QED
    BY <1>1, <1>2, <1>6, <2>1, TypesFrom DEF RollbackEnds
<1>7. CASE \E t \in Threads : CreateJob(t)
  BY <1>1, <1>2, <1>7, ThreadTypes, TypesFrom DEF CreateJob
<1>8. CASE ApplyConfig
  BY <1>1, <1>2, <1>8, WithoutTyped, TypesFrom DEF ApplyConfig
<1>9. CASE DeleteBackup
  BY <1>1, <1>2, <1>9, WithoutTyped, TypesFrom DEF DeleteBackup, Trims
<1>10. CASE LaunchImport \/ ImportFails
  <2>1. importing' \in Versions
    BY <1>2, <1>3, <1>10 DEF LaunchImport, ImportFails, Versions
  <2>2. QED
    BY <1>1, <1>2, <1>10, <2>1, TypesFrom DEF LaunchImport, ImportFails
<1>11. CASE ImportEnds
  <2> DEFINE file == [imported |-> TRUE, version |-> importing, ts |-> clock]
  <2>1. file \in Files
    BY <1>2 DEF Files
  <2>2. Row("ok", file, "none") \in RowType
    BY <2>1 DEF Row, RowType
  <2>3. rows' = [rows EXCEPT ![NewId] = Row("ok", file, "none")] /\ disk' = disk \cup {file}
    BY <1>11 DEF ImportEnds
  <2> HIDE DEF file
  <2>4. rows' \in [Ids -> RowType] /\ disk' \subseteq Files
    BY <1>1, <2>1, <2>2, <2>3
  <2>5. active' \in 0..counter' /\ counter' \in Versions /\ importing' \in Versions
    <3>1. counter' = counter + 1 /\ UNCHANGED active /\ importing' = 0 /\ counter' \in Versions
      BY <1>2, <1>11 DEF ImportEnds, CountedNext
    <3>2. QED
      BY <1>2, <3>1 DEF Versions
  <2>6. QED
    BY <1>1, <1>2, <1>11, <2>4, <2>5, TypesFrom DEF ImportEnds
<1>12. CASE Tick
  <2>1. CASE Starts
    BY <1>1, <1>2, <1>3, <2>1, CreatedTypes, TypesFrom DEF Starts
  <2>2. CASE Arms \/ Takes \/ FailsToStart
    BY <1>1, <1>2, <2>2, TypesFrom DEF Arms, Takes, FailsToStart
  <2>3. QED
    BY <1>12, <2>1, <2>2 DEF Tick
<1>13. CASE Advance
  <2>1. clock' \in Times
    BY <1>2, <1>13 DEF Advance, Times
  <2>2. QED
    BY <1>1, <1>2, <1>13, <2>1, TypesFrom DEF Advance
<1>14. CASE Crash \/ Boot
  <2>1. 0 \in Versions
    BY <1>2 DEF Versions
  <2>2. QED
    BY <1>1, <1>2, <1>14, <2>1, TypesFrom DEF Crash, Boot
<1>15. CASE UNCHANGED vars
  BY <1>1, <1>2, <1>15, TypesFrom DEF vars
<1>16. QED
  BY <1>4, <1>5, <1>6, <1>7, <1>8, <1>9, <1>10, <1>11, <1>12, <1>13, <1>14, <1>15 DEF Next

LEMMA InitTypes == Init => TypeOK
<1>1. 0 \in Times /\ 0 \in Versions /\ NoRow \in RowType
  BY BackupsAssumption DEF Times, Versions, NoRow, Row, RowType
<1>2. SUFFICES ASSUME Init PROVE TypeOK
  OBVIOUS
<1>3. /\ rows \in [Ids -> RowType] /\ thread \in [Threads -> {Idle} \cup BusyType]
      /\ disk \subseteq Files /\ remote \subseteq Files /\ running \in BOOLEAN
  BY <1>1, <1>2 DEF Init
<1>4. /\ clock \in Times /\ up \in BOOLEAN /\ config \in Settings /\ lastRun \in Times \cup {Never}
      /\ counter \in Versions /\ active \in 0..counter
      /\ scheduler \in {"idle", "starting"} /\ importing \in Versions
  BY <1>1, <1>2 DEF Init
<1>5. QED
  BY <1>3, <1>4 DEF TypeOK, RowType, BusyType

\* Types, whatever fails.
THEOREM TypeCorrect == Spec => []TypeOK
<1>1. Init => TypeOK /\ CountedNext
  BY InitTypes DEF Init, CountedNext
<1>2. TypeOK /\ CountedNext /\ [Next]_vars => TypeOK' /\ CountedNext'
  BY TypesAreKept, CountIsKept
<1>3. QED
  BY <1>1, <1>2, PTL DEF Spec
----------------------------------------------------------------------------
(* Archives and their rows *)

Sound == TypeOK /\ Names /\ ArchivesMatchRows

\* In any set of rows, only a row itself names its archive.
LEMMA OnlyItsRow ==
  ASSUME RowsDiffer, NEW S \in SUBSET Listed, NEW a \in Listed
  PROVE  rows[a].file \in FilesOf(S) <=> a \in S
BY DEF RowsDiffer, FilesOf

\* Nothing changes but what no archive depends on.
LEMMA SoundUnchanged ==
  ASSUME Sound, TypeOK', UNCHANGED <<rows, disk, thread>>, counter' \in Nat, counter' >= counter
  PROVE  Sound'
<1>1. Listed' = Listed /\ Kept' = Kept /\ Doomed' = Doomed
  BY DEF Listed, Kept, Doomed
<1>2. RowsDiffer'
  <2>1. \A a \in Listed : rows[a].file \in Files
    BY DEF Sound, Names, RowsDiffer
  <2>2. \A a \in Listed : rows[a].file.version \in Nat /\ counter \in Nat
    BY <2>1, BackupsAssumption DEF Files, Versions, Sound, TypeOK
  <2>3. QED
    BY <1>1, <2>2 DEF Sound, Names, RowsDiffer
<1>3. ThreadsDiffer'
  BY DEF Sound, Names, ThreadsDiffer, Busy
<1>4. ASSUME NEW t \in Threads PROVE OwnArchive(t)' /\ DoomedGone(t)'
  BY <1>1 DEF Sound, Names, OwnArchive, DoomedGone, Busy, HasRow
<1>5. ArchivesMatchRows'
  BY <1>1 DEF Sound, ArchivesMatchRows, FilesOf
<1>6. QED
  BY <1>2, <1>3, <1>4, <1>5 DEF Sound, Names

\* Rows go, with their archives.
LEMMA SoundRemoval ==
  ASSUME Sound, TypeOK', NEW S \in SUBSET Listed,
         rows' = Without(S), disk' = disk \ FilesOf(S), UNCHANGED <<thread, counter>>
  PROVE  Sound'
<1>1. /\ Listed' = Listed \ S /\ Kept' = Kept \ S /\ Doomed' = Doomed
      /\ \A a \in Ids \ S : rows'[a] = rows[a]
      /\ \A a \in S : rows'[a].status = "none"
      /\ S \subseteq Ids
  BY DEF Listed, Kept, Doomed, Without, NoRow, Row
<1>2. \A a \in Listed : rows[a].file \in FilesOf(S) <=> a \in S
  BY OnlyItsRow DEF Sound, Names
<1>3. RowsDiffer' /\ ThreadsDiffer'
  BY <1>1 DEF Sound, Names, RowsDiffer, ThreadsDiffer, Busy, Listed
<1>4. ASSUME NEW t \in Threads PROVE OwnArchive(t)'
  <2>1. CASE ~Busy(t)
    BY <2>1 DEF OwnArchive, Busy, Sound, Names
  <2>2. CASE Busy(t)
    <3>1. OwnArchive(t) /\ thread[t].id \in Ids
      BY <2>2, Types DEF Sound, Names, BusyType
    <3>2. \A a \in Listed' : rows'[a].file = thread[t].file <=> a = thread[t].id
      BY <1>1, <2>2, <3>1 DEF OwnArchive, Listed
    <3>3. HasRow(t) <=> thread[t].id \in Listed
      BY <2>2, <3>1 DEF HasRow, Busy, Listed
    <3>4. HasRow(t)' <=> thread[t].id \in Listed \ S
      BY <1>1, <2>2, <3>1 DEF HasRow, Busy, Listed
    <3>5. thread[t].id \in Listed => rows[thread[t].id].file = thread[t].file
      BY <2>2, <3>1 DEF OwnArchive
    <3>6. thread[t].pc = "packed" /\ HasRow(t)' => thread[t].file \in disk'
      BY <1>2, <2>2, <3>1, <3>3, <3>4, <3>5 DEF OwnArchive
    <3>7. thread[t].pc \notin {"build", "packed"} /\ ~HasRow(t)' => thread[t].file \notin disk'
      BY <1>2, <2>2, <3>1, <3>3, <3>4, <3>5 DEF OwnArchive
    <3>8. thread[t].pc \in {"build", "packed"} /\ HasRow(t)' =>
            rows'[thread[t].id].status = "creating"
      BY <1>1, <2>2, <3>1, <3>3, <3>4 DEF OwnArchive
    <3>9. QED
      BY <2>2, <3>1, <3>2, <3>6, <3>7, <3>8 DEF OwnArchive, Busy
  <2>3. QED
    BY <2>1, <2>2
<1>5. ASSUME NEW t \in Threads PROVE DoomedGone(t)'
  BY <1>1 DEF Sound, Names, DoomedGone, Listed
<1>6. FilesOf(Kept \ Doomed)' \subseteq disk'
  <2>1. ASSUME NEW a \in Kept \ S, a \notin Doomed PROVE rows'[a].file \in disk'
    <3>1. a \in Listed /\ rows[a].file \in disk /\ rows'[a] = rows[a]
      BY <1>1, <2>1 DEF Sound, ArchivesMatchRows, FilesOf, Kept, Listed
    <3>2. QED
      BY <1>2, <2>1, <3>1
  <2>2. QED
    BY <1>1, <2>1 DEF FilesOf
<1>7. disk' \subseteq FilesOf(Listed)' \cup {thread[t].file : t \in Threads}
  <2>1. ASSUME NEW f \in disk' PROVE (\E a \in Listed' : rows'[a].file = f) \/ (\E t \in Threads : thread[t].file = f)
    <3>1. f \notin FilesOf(S) /\ ((\E a \in Listed : rows[a].file = f) \/ (\E t \in Threads : thread[t].file = f))
      BY <2>1 DEF Sound, ArchivesMatchRows, FilesOf
    <3>2. QED
      BY <1>1, <3>1 DEF FilesOf, Listed
  <2>2. QED
    BY <2>1 DEF FilesOf
<1>8. ArchivesMatchRows'
  BY <1>6, <1>7 DEF ArchivesMatchRows
<1>9. QED
  BY <1>3, <1>4, <1>5, <1>8 DEF Sound, Names

\* A row and a thread for it.
LEMMA SoundCreation ==
  ASSUME Sound, TypeOK', "reuse" \notin Faults,
         NEW t \in Threads, NEW file \in Files, NEW row \in RowType, Makes(t, file, row),
         UNCHANGED disk, counter' \in Nat, counter' >= counter
  PROVE  Sound'
<1> DEFINE new == NewId
<1>1. /\ new \in Ids /\ new \notin Listed
      /\ \A u \in Threads : new # thread[u].id /\ new \notin thread[u].doomed
  BY NewIdIsNew DEF Makes, Sound
<1>2. /\ row.status = "creating" /\ row.file = file /\ ~file.imported
      /\ \A a \in Listed : rows[a].file # file
      /\ \A u \in Threads : thread[u].file # file
      /\ thread[t] = Idle /\ running' = TRUE
      /\ rows' = [rows EXCEPT ![new] = row]
      /\ thread' = [thread EXCEPT ![t] = [pc |-> "build", id |-> new, file |-> file, doomed |-> {}]]
  BY DEF Makes, FilesOf
<1> HIDE DEF new
<1>3. rows \in [Ids -> RowType] /\ thread \in [Threads -> {Idle} \cup BusyType]
      /\ Idle.pc = "none" /\ Idle.id = 0 /\ Idle.doomed = {}
  BY Types DEF Sound
<1>4. /\ rows'[new] = row /\ \A a \in Ids \ {new} : rows'[a] = rows[a]
      /\ thread'[t] = [pc |-> "build", id |-> new, file |-> file, doomed |-> {}]
      /\ \A u \in Threads \ {t} : thread'[u] = thread[u]
  BY <1>1, <1>2, <1>3
<1>5. /\ Listed' = Listed \cup {new} /\ Kept' = Kept /\ Listed \subseteq Ids
  BY <1>1, <1>2, <1>4 DEF Listed, Kept
<1>6. Doomed' = Doomed
  BY <1>2, <1>3, <1>4 DEF Doomed
<1>7. file \notin disk
  BY <1>2 DEF Sound, ArchivesMatchRows, FilesOf
<1>8. RowsDiffer'
  <2>1. \A a, b \in Listed' : rows'[a].file = rows'[b].file => a = b
    BY <1>1, <1>2, <1>4, <1>5 DEF Sound, Names, RowsDiffer
  <2>2. \A a \in Listed : rows[a].file \in Files /\ rows[a].file.version \in Nat /\ counter \in Nat
    BY BackupsAssumption DEF Sound, Names, RowsDiffer, Files, Versions, TypeOK
  <2>3. \A a \in Listed' : rows'[a].file \in Files
    BY <1>1, <1>2, <1>4, <1>5, <2>2
  <2>4. \A a \in Listed' : rows'[a].file.imported => rows'[a].file.version <= counter'
    BY <1>1, <1>2, <1>4, <1>5, <2>2 DEF Sound, Names, RowsDiffer
  <2>5. QED
    BY <2>1, <2>3, <2>4 DEF RowsDiffer
<1>9. ThreadsDiffer'
  BY <1>1, <1>2, <1>4 DEF Sound, Names, ThreadsDiffer, Busy
<1>10. OwnArchive(t)' /\ DoomedGone(t)'
  BY <1>1, <1>2, <1>4, <1>5, <1>7 DEF OwnArchive, DoomedGone, Busy, HasRow
<1>11. ASSUME NEW u \in Threads \ {t} PROVE OwnArchive(u)' /\ DoomedGone(u)'
  <2>1. /\ thread'[u] = thread[u] /\ thread[u].id # new /\ new \notin thread[u].doomed
        /\ thread[u].file # file /\ OwnArchive(u) /\ DoomedGone(u)
    BY <1>1, <1>2, <1>4 DEF Sound, Names
  <2>2. Busy(u) => thread[u].id \in Ids \ {new}
    BY <2>1, Types DEF Sound, BusyType
  <2>3. HasRow(u)' <=> HasRow(u)
    BY <1>4, <2>1, <2>2 DEF HasRow, Busy
  <2>4. \A a \in Listed' : Busy(u) => (rows'[a].file = thread[u].file <=> a = thread[u].id)
    BY <1>2, <1>4, <1>5, <2>1 DEF OwnArchive
  <2>5. Busy(u) => rows'[thread[u].id] = rows[thread[u].id]
    BY <1>4, <2>2
  <2>6. OwnArchive(u)'
    BY <2>1, <2>3, <2>4, <2>5 DEF OwnArchive, Busy
  <2>7. DoomedGone(u)'
    BY <1>4, <1>5, <2>1 DEF DoomedGone
  <2>8. QED
    BY <2>6, <2>7
<1>12. ArchivesMatchRows'
  <2>1. \A a \in Kept \ Doomed : rows'[a] = rows[a]
    BY <1>1, <1>4, <1>5 DEF Kept
  <2>2. FilesOf(Kept \ Doomed)' \subseteq disk
    BY <1>5, <1>6, <2>1 DEF Sound, ArchivesMatchRows, FilesOf
  <2>3. ASSUME NEW f \in disk
        PROVE (\E a \in Listed' : rows'[a].file = f) \/ (\E u \in Threads : thread'[u].file = f)
    <3>1. CASE \E a \in Listed : rows[a].file = f
      BY <1>1, <1>4, <1>5, <3>1
    <3>2. CASE \E u \in Threads : thread[u].file = f
      <4>1. PICK u \in Threads : thread[u].file = f
        BY <3>2
      <4>2. f \in Files /\ Idle.file \notin Files
        BY NoFileIsNone, Types DEF Sound, Idle
      <4>3. u # t
        BY <1>2, <4>1, <4>2
      <4>4. QED
        BY <1>4, <4>1, <4>3
    <3>3. QED
      BY <3>1, <3>2 DEF Sound, ArchivesMatchRows, FilesOf
  <2>4. QED
    BY <2>2, <2>3 DEF ArchivesMatchRows, FilesOf
<1>13. QED
  BY <1>8, <1>9, <1>10, <1>11, <1>12 DEF Sound, Names
\* A thread whose own state stays keeps its archive.
LEMMA OwnStays ==
  ASSUME Sound, NEW u \in Threads, thread'[u] = thread[u], Listed' \subseteq Listed,
         \A a \in Listed' : rows'[a].file = rows[a].file,
         Busy(u) =>
           /\ thread[u].id \in Listed' => rows'[thread[u].id].status = rows[thread[u].id].status
           /\ thread[u].id \in Listed \ Listed' => thread[u].file \notin disk'
           /\ thread[u].file \in disk' => thread[u].file \in disk
           /\ thread[u].pc = "packed" /\ thread[u].id \in Listed' /\ thread[u].file \in disk =>
                thread[u].file \in disk'
  PROVE  OwnArchive(u)'
<1>1. OwnArchive(u)
  BY DEF Sound, Names
<1>2. Busy(u)' <=> Busy(u)
  BY DEF Busy
<1>3. Busy(u) => thread[u].id \in Ids
  BY Types DEF Sound, BusyType
<1>4. Busy(u) => /\ HasRow(u) <=> thread[u].id \in Listed
                 /\ HasRow(u)' <=> thread[u].id \in Listed'
  BY <1>3 DEF HasRow, Busy, Listed
<1>5. Busy(u) => \A a \in Listed' : rows'[a].file = thread[u].file <=> a = thread[u].id
  BY <1>1 DEF OwnArchive
<1>6. QED
  BY <1>1, <1>2, <1>4, <1>5 DEF OwnArchive, Busy

\* A step of a thread that builds an archive.
LEMMA SoundThread ==
  ASSUME Sound, TypeOK', Faults \cap {"torn", "reuse"} = {}, NEW t \in Threads, CreateJob(t)
  PROVE  Sound'
<1> DEFINE id == thread[t].id
           file == thread[t].file
<1>1. Busy(t) /\ thread[t] \in BusyType /\ id \in Ids /\ file \in Files
  BY Types DEF CreateJob, Packs, Records, Ships, PrunesLocal, Finishes, Fails, Busy, Sound, BusyType, HasRow
<1>2. /\ OwnArchive(t) /\ DoomedGone(t) /\ UNCHANGED counter
      /\ rows \in [Ids -> RowType] /\ thread \in [Threads -> {Idle} \cup BusyType]
      /\ Idle.pc = "none" /\ Idle.id = 0 /\ Idle.doomed = {}
  BY Types DEF Sound, Names, CreateJob
<1>3. /\ \A a \in Listed : rows[a].file = file <=> a = id
      /\ \A u \in Threads \ {t} : Busy(u) => thread[u].id # id /\ thread[u].file # file
      /\ HasRow(t) <=> id \in Listed
  BY <1>1, <1>2 DEF OwnArchive, Sound, Names, ThreadsDiffer, HasRow, Busy, Listed
<1>4. /\ \A u \in Threads : ~Busy(u) => thread[u] = Idle /\ thread[u].file \notin Files
  BY Types, NoFileIsNone DEF Sound, Idle
<1>5. /\ RowsDiffer /\ ThreadsDiffer /\ disk \subseteq Files
      /\ \A u \in Threads : OwnArchive(u) /\ DoomedGone(u)
      /\ \A a \in Kept \ Doomed : rows[a].file \in disk
      /\ \A f \in disk : (\E a \in Listed : rows[a].file = f) \/ (\E u \in Threads : thread[u].file = f)
  BY Types DEF Sound, Names, ArchivesMatchRows, FilesOf
<1> HIDE DEF id, file
<1>6. /\ thread[t].id = id /\ thread[t].file = file
      /\ thread[t].pc # "pruned" => thread[t].doomed = {}
      /\ thread[t].pc = "build" => file \notin disk
      /\ thread[t].pc \in {"build", "packed"} /\ id \in Listed => rows[id].status = "creating"
      /\ thread[t].pc = "packed" /\ id \in Listed => file \in disk
      /\ thread[t].pc \notin {"build", "packed"} /\ id \notin Listed => file \notin disk
      /\ ~file.imported
  BY <1>1, <1>2, <1>3 DEF OwnArchive, id, file
<1>7. CASE Packs(t)
  <2>1. /\ thread[t].pc = "build" /\ disk' = disk \cup {file} /\ UNCHANGED rows
        /\ thread'[t] = [thread[t] EXCEPT !.pc = "packed"]
        /\ \A u \in Threads \ {t} : thread'[u] = thread[u]
    BY <1>2, <1>6, <1>7 DEF Packs, Goto
  <2>2. /\ thread'[t].pc = "packed" /\ thread'[t].id = id /\ thread'[t].file = file
        /\ thread'[t].doomed = {}
    BY <1>1, <1>6, <2>1 DEF BusyType
  <2>3. Listed' = Listed /\ Kept' = Kept /\ Doomed' = Doomed
    <3>1. \A u \in Threads : thread'[u].doomed = thread[u].doomed
      BY <1>6, <2>1, <2>2
    <3>2. QED
      BY <2>1, <3>1 DEF Listed, Kept, Doomed
  <2>a. \A u \in Threads : /\ thread'[u].id = thread[u].id /\ thread'[u].file = thread[u].file
                           /\ Busy(u)' <=> Busy(u)
    BY <1>1, <1>6, <2>1, <2>2 DEF Busy
  <2>4. RowsDiffer' /\ ThreadsDiffer'
    BY <1>2, <1>5, <2>1, <2>a, <2>3 DEF RowsDiffer, ThreadsDiffer
  <2>5. OwnArchive(t)'
    <3>1. HasRow(t)' <=> id \in Listed
      BY <1>1, <2>1, <2>2 DEF HasRow, Listed
    <3>2. QED
      BY <1>3, <1>6, <2>1, <2>2, <2>3, <3>1 DEF OwnArchive, Busy
  <2>6. ASSUME NEW u \in Threads \ {t} PROVE OwnArchive(u)'
    BY <1>3, <2>1, <2>3, OwnStays
  <2>7. ASSUME NEW u \in Threads PROVE DoomedGone(u)'
    <3>1. thread'[u].doomed = thread[u].doomed
      BY <1>6, <2>1, <2>2
    <3>2. \A a \in thread[u].doomed : a \in Listed => a # id /\ rows[a].file # file
      BY <1>3, <1>5, <1>6, <2>1 DEF DoomedGone
    <3>3. QED
      BY <1>5, <2>1, <2>3, <3>1, <3>2 DEF DoomedGone
  <2>8. ArchivesMatchRows'
    <3>1. \A f \in disk' : (\E a \in Listed : rows[a].file = f) \/ (\E u \in Threads : thread'[u].file = f)
      BY <1>1, <1>5, <1>6, <2>1, <2>a
    <3>2. QED
      BY <1>5, <2>1, <2>3, <3>1 DEF ArchivesMatchRows, FilesOf
  <2>9. QED
    BY <2>4, <2>5, <2>6, <2>7, <2>8 DEF Sound, Names
<1>8. CASE Records(t) \/ Ships(t)
  <2>1. PICK pc \in {"ok", "shipped"} :
          /\ thread[t].pc \in {"packed", "ok"} /\ id \in Listed /\ UNCHANGED disk
          /\ thread'[t] = [thread[t] EXCEPT !.pc = pc]
          /\ \A u \in Threads \ {t} : thread'[u] = thread[u]
    BY <1>2, <1>3, <1>6, <1>8 DEF Records, Ships, Goto
  <2>2. /\ thread'[t].pc = pc /\ thread'[t].id = id /\ thread'[t].file = file
        /\ thread'[t].doomed = {}
    BY <1>1, <1>6, <2>1 DEF BusyType
  <2>3. /\ \A a \in Ids : rows'[a].file = rows[a].file /\ (a # id => rows'[a] = rows[a])
        /\ \/ thread[t].pc = "packed" /\ rows'[id].status = "ok"
           \/ rows'[id].status = rows[id].status
    <3>1. CASE Records(t)
      BY <1>1, <1>2, <1>6, <3>1 DEF Records, RowType
    <3>2. CASE Ships(t)
      BY <1>1, <1>2, <1>6, <3>2 DEF Ships, RowType
    <3>3. QED
      BY <1>8, <3>1, <3>2
  <2>4. Listed' = Listed /\ Kept' \subseteq Kept \cup {id} /\ Doomed' = Doomed
    <3>1. \A u \in Threads : thread'[u].doomed = thread[u].doomed
      BY <1>6, <2>1, <2>2
    <3>2. QED
      BY <1>1, <2>1, <2>3, <3>1 DEF Listed, Kept, Doomed
  <2>a. \A u \in Threads : /\ thread'[u].id = thread[u].id /\ thread'[u].file = thread[u].file
                           /\ Busy(u)' <=> Busy(u)
    BY <1>1, <1>6, <2>1, <2>2 DEF Busy
  <2>5. RowsDiffer' /\ ThreadsDiffer'
    <3>1. \A a \in Listed : rows'[a].file = rows[a].file
      BY <2>3 DEF Listed
    <3>2. QED
      BY <1>2, <1>5, <2>4, <2>a, <3>1 DEF RowsDiffer, ThreadsDiffer
  <2>6. OwnArchive(t)'
    <3>1. HasRow(t)' <=> id \in Listed
      BY <1>1, <2>2, <2>4 DEF HasRow, Listed
    <3>2. \A a \in Listed : rows'[a].file = rows[a].file
      BY <2>3 DEF Listed
    <3>3. QED
      BY <1>3, <1>6, <2>1, <2>2, <2>4, <3>1, <3>2 DEF OwnArchive, Busy
  <2>7. ASSUME NEW u \in Threads \ {t} PROVE OwnArchive(u)'
    <3>1. \A a \in Listed : rows'[a].file = rows[a].file /\ (a # id => rows'[a] = rows[a])
      BY <2>3 DEF Listed
    <3>2. QED
      BY <1>3, <2>1, <2>4, <3>1, OwnStays
  <2>8. ASSUME NEW u \in Threads PROVE DoomedGone(u)'
    <3>1. thread'[u].doomed = thread[u].doomed /\ DoomedGone(u)
      BY <1>5, <1>6, <2>1, <2>2
    <3>2. \A a \in Listed : /\ rows'[a].file = rows[a].file
                            /\ rows'[a].status = rows[a].status \/ rows'[a].status = "ok"
      BY <2>3 DEF Listed
    <3>3. QED
      BY <2>1, <2>4, <3>1, <3>2 DEF DoomedGone
  <2>9. ArchivesMatchRows'
    <3>1. \A a \in Listed : rows'[a].file = rows[a].file
      BY <2>3 DEF Listed
    <3>2. \A f \in disk' : (\E a \in Listed : rows'[a].file = f) \/ (\E u \in Threads : thread'[u].file = f)
      BY <1>5, <2>1, <2>a, <3>1
    <3>3. ASSUME NEW a \in Kept', a \notin Doomed PROVE rows'[a].file \in disk
      <4>1. a \in Listed /\ rows'[a].status = "ok"
        BY <2>4 DEF Kept
      <4>2. CASE a # id
        BY <1>5, <2>3, <2>4, <3>1, <3>3, <4>1, <4>2
      <4>3. CASE a = id /\ thread[t].pc = "packed"
        BY <1>3, <1>6, <3>1, <4>1, <4>3
      <4>4. CASE a = id /\ rows[id].status = "ok"
        BY <1>5, <3>1, <3>3, <4>1, <4>4 DEF Kept
      <4>5. QED
        BY <2>3, <4>1, <4>2, <4>3, <4>4
    <3>4. QED
      BY <2>1, <2>4, <3>2, <3>3 DEF ArchivesMatchRows, FilesOf
  <2>10. QED
    BY <2>5, <2>6, <2>7, <2>8, <2>9 DEF Sound, Names
<1>9. CASE PrunesLocal(t)
  <2> DEFINE gone == Surplus(config.keep_local)
  <2>1. gone \subseteq Kept /\ Kept \subseteq Listed
    BY DEF Surplus, Kept
  <2> HIDE DEF gone
  <2>2. /\ thread[t].pc = "shipped" /\ UNCHANGED rows /\ disk' = disk \ FilesOf(gone)
        /\ thread'[t] = [thread[t] EXCEPT !.pc = "pruned", !.doomed = gone]
        /\ \A u \in Threads \ {t} : thread'[u] = thread[u]
    BY <1>2, <1>9 DEF PrunesLocal, gone
  <2>3. /\ thread'[t].pc = "pruned" /\ thread'[t].id = id /\ thread'[t].file = file
        /\ thread'[t].doomed = gone
    BY <1>1, <1>6, <2>2 DEF BusyType
  <2>4. \A a \in Listed : rows[a].file \in FilesOf(gone) <=> a \in gone
    BY <1>5, <2>1, OnlyItsRow
  <2>5. Listed' = Listed /\ Kept' = Kept /\ Doomed \cup gone \subseteq Doomed'
    <3>1. \A u \in Threads : thread[u].doomed \subseteq thread'[u].doomed
      BY <1>6, <2>2
    <3>2. Doomed \subseteq Doomed'
      BY <3>1 DEF Doomed
    <3>3. gone \subseteq Doomed'
      BY <2>3 DEF Doomed
    <3>4. Listed' = Listed /\ Kept' = Kept
      BY <2>2 DEF Listed, Kept
    <3>5. QED
      BY <3>2, <3>3, <3>4
  <2>a. \A u \in Threads : /\ thread'[u].id = thread[u].id /\ thread'[u].file = thread[u].file
                           /\ Busy(u)' <=> Busy(u)
    BY <1>1, <1>6, <2>2, <2>3 DEF Busy
  <2>6. RowsDiffer' /\ ThreadsDiffer'
    BY <1>2, <1>5, <2>2, <2>a, <2>5 DEF RowsDiffer, ThreadsDiffer
  <2>7. OwnArchive(t)'
    <3>1. HasRow(t)' <=> id \in Listed
      BY <1>1, <2>2, <2>3 DEF HasRow, Listed
    <3>2. QED
      BY <1>3, <1>6, <2>2, <2>3, <2>5, <3>1 DEF OwnArchive, Busy
  <2>8. ASSUME NEW u \in Threads \ {t} PROVE OwnArchive(u)'
    <3>1. ASSUME Busy(u), thread[u].pc = "packed", thread[u].id \in Listed
          PROVE  thread[u].file \notin FilesOf(gone)
      <4>1. OwnArchive(u) /\ HasRow(u)
        BY <1>5, <3>1 DEF HasRow, Listed
      <4>2. rows[thread[u].id].status = "creating" /\ rows[thread[u].id].file = thread[u].file
        BY <3>1, <4>1 DEF OwnArchive
      <4>3. thread[u].id \notin gone
        BY <2>1, <4>2 DEF Kept
      <4>4. QED
        BY <2>4, <3>1, <4>2, <4>3
    <3>2. QED
      BY <2>2, <2>5, <3>1, OwnStays
  <2>9. ASSUME NEW u \in Threads PROVE DoomedGone(u)'
    <3>1. CASE u = t
      BY <2>1, <2>2, <2>3, <2>4, <2>5, <3>1 DEF DoomedGone, Kept
    <3>2. CASE u # t
      BY <1>5, <2>2, <2>5, <3>2 DEF DoomedGone
    <3>3. QED
      BY <3>1, <3>2
  <2>10. ArchivesMatchRows'
    <3>1. \A f \in disk' : (\E a \in Listed : rows[a].file = f) \/ (\E u \in Threads : thread'[u].file = f)
      BY <1>5, <2>2, <2>a
    <3>2. \A a \in Kept \ Doomed' : rows[a].file \in disk'
      BY <1>5, <2>1, <2>2, <2>4, <2>5
    <3>3. QED
      BY <2>2, <2>5, <3>1, <3>2 DEF ArchivesMatchRows, FilesOf
  <2>11. QED
    BY <2>6, <2>7, <2>8, <2>9, <2>10 DEF Sound, Names
<1>10. CASE Finishes(t)
  <2> DEFINE gone == thread[t].doomed
  <2>1. /\ thread[t].pc = "pruned" /\ UNCHANGED disk /\ rows' = Without(gone)
        /\ thread'[t] = Idle /\ \A u \in Threads \ {t} : thread'[u] = thread[u]
    BY <1>2, <1>10 DEF Finishes
  <2>2. \A a \in gone : a \in Listed => rows[a].status \in {"ok", "error"} /\ rows[a].file \notin disk
    BY <1>5 DEF DoomedGone
  <2>3. Doomed' \cup gone = Doomed
    <3>1. Doomed' = UNION {thread[u].doomed : u \in Threads \ {t}}
      BY <1>2, <2>1 DEF Doomed
    <3>2. QED
      BY <3>1 DEF Doomed
  <2> HIDE DEF gone
  <2>4. /\ Listed' = Listed \ gone /\ Kept' = Kept \ gone
        /\ \A a \in Ids \ gone : rows'[a] = rows[a]
    BY <2>1 DEF Listed, Kept, Without, NoRow, Row
  <2>5. RowsDiffer' /\ ThreadsDiffer'
    <3>1. \A a \in Listed' : a \in Listed /\ rows'[a] = rows[a]
      BY <2>4 DEF Listed
    <3>2. QED
      BY <1>2, <1>5, <2>1, <3>1 DEF RowsDiffer, ThreadsDiffer, Busy
  <2>6. OwnArchive(t)'
    BY <1>2, <2>1 DEF OwnArchive, Busy
  <2>7. ASSUME NEW u \in Threads \ {t} PROVE OwnArchive(u)'
    <3>1. \A a \in Listed' : a \in Listed /\ rows'[a] = rows[a]
      BY <2>4 DEF Listed
    <3>2. Busy(u) /\ thread[u].id \in Listed \ Listed' => thread[u].file \notin disk
      BY <1>5, <2>2, <2>4 DEF OwnArchive
    <3>3. QED
      BY <2>1, <2>4, <3>1, <3>2, OwnStays
  <2>8. ASSUME NEW u \in Threads PROVE DoomedGone(u)'
    <3>1. CASE u = t
      BY <1>2, <2>1, <3>1 DEF DoomedGone
    <3>2. CASE u # t
      <4>1. \A a \in Listed' : a \in Listed /\ rows'[a] = rows[a]
        BY <2>4 DEF Listed
      <4>2. QED
        BY <1>5, <2>1, <3>2, <4>1 DEF DoomedGone
    <3>3. QED
      BY <3>1, <3>2
  <2>9. ArchivesMatchRows'
    <3>1. ASSUME NEW f \in disk
          PROVE  (\E a \in Listed' : rows'[a].file = f) \/ (\E u \in Threads : thread'[u].file = f)
      <4>1. ASSUME NEW a \in Listed, rows[a].file = f PROVE a \in Listed' /\ rows'[a].file = f
        BY <2>2, <2>4, <4>1 DEF Listed
      <4>2. f = file => rows[id].file = f /\ id \in Listed
        BY <1>3, <1>6, <2>1
      <4>3. QED
        BY <1>5, <1>6, <2>1, <4>1, <4>2
    <3>2. \A a \in Kept' : a \notin Doomed' => rows'[a].file \in disk
      BY <1>5, <2>3, <2>4 DEF Kept, Listed
    <3>3. QED
      BY <2>1, <3>1, <3>2 DEF ArchivesMatchRows, FilesOf
  <2>10. QED
    BY <2>5, <2>6, <2>7, <2>8, <2>9 DEF Sound, Names
<1>11. CASE Fails(t)
  <2>1. /\ thread[t].pc # "pruned" /\ disk' = disk \ {file}
        /\ rows' = (IF HasRow(t) THEN [rows EXCEPT ![id].status = "error"] ELSE rows)
        /\ thread'[t] = Idle /\ \A u \in Threads \ {t} : thread'[u] = thread[u]
    BY <1>2, <1>6, <1>11 DEF Fails
  <2>2. /\ \A a \in Ids : rows'[a].file = rows[a].file /\ (a # id => rows'[a] = rows[a])
        /\ rows'[id].status = IF id \in Listed THEN "error" ELSE "none"
    BY <1>1, <1>2, <1>3, <2>1 DEF RowType, Listed
  <2>3. Listed' = Listed /\ Kept' = Kept \ {id} /\ Doomed' = Doomed
    <3>1. \A u \in Threads : thread'[u].doomed = thread[u].doomed
      BY <1>2, <1>6, <2>1
    <3>2. QED
      BY <1>1, <2>2, <3>1 DEF Listed, Kept, Doomed
  <2>4. \A a \in Listed : rows'[a].file = rows[a].file /\ (a # id => rows'[a] = rows[a])
    BY <2>2 DEF Listed
  <2>5. RowsDiffer' /\ ThreadsDiffer'
    BY <1>2, <1>5, <2>1, <2>3, <2>4 DEF RowsDiffer, ThreadsDiffer, Busy
  <2>6. OwnArchive(t)'
    BY <1>2, <2>1 DEF OwnArchive, Busy
  <2>7. ASSUME NEW u \in Threads \ {t} PROVE OwnArchive(u)'
    BY <1>3, <2>1, <2>3, <2>4, OwnStays
  <2>8. ASSUME NEW u \in Threads PROVE DoomedGone(u)'
    <3>1. thread'[u].doomed = thread[u].doomed /\ DoomedGone(u)
      BY <1>2, <1>5, <1>6, <2>1
    <3>2. \A a \in Listed : rows'[a].status \in {rows[a].status, "error"}
      BY <2>2, <2>4
    <3>3. QED
      BY <2>1, <2>3, <2>4, <3>1, <3>2 DEF DoomedGone
  <2>9. ArchivesMatchRows'
    <3>1. \A f \in disk' : (\E a \in Listed : rows'[a].file = f) \/ (\E u \in Threads : thread'[u].file = f)
      BY <1>5, <1>6, <2>1, <2>4
    <3>2. \A a \in Kept' : a \notin Doomed => rows'[a].file \in disk'
      BY <1>3, <1>5, <2>1, <2>3, <2>4 DEF Kept
    <3>3. QED
      BY <2>3, <3>1, <3>2 DEF ArchivesMatchRows, FilesOf
  <2>10. QED
    BY <2>5, <2>6, <2>7, <2>8, <2>9 DEF Sound, Names
<1>12. QED
  BY <1>7, <1>8, <1>9, <1>10, <1>11 DEF CreateJob
\* An imported archive and its row.
LEMMA SoundImport ==
  ASSUME Sound, CountedNext, TypeOK', "reuse" \notin Faults, ImportEnds
  PROVE  Sound'
<1> DEFINE new == NewId
           file == [imported |-> TRUE, version |-> importing, ts |-> clock]
<1>1. /\ new \in Ids /\ new \notin Listed
      /\ \A u \in Threads : new # thread[u].id /\ new \notin thread[u].doomed
  BY NewIdIsNew DEF ImportEnds, Sound
<1>2. /\ file \in Files /\ file.imported /\ file.version = counter + 1
      /\ counter' = counter + 1 /\ counter \in Nat
  BY BackupsAssumption DEF Files, Sound, TypeOK, CountedNext, ImportEnds, Versions
<1>3. /\ rows' = [rows EXCEPT ![new] = Row("ok", file, "none")]
      /\ disk' = disk \cup {file} /\ UNCHANGED thread
  BY DEF ImportEnds
<1> HIDE DEF new, file
<1>4. /\ rows'[new].status = "ok" /\ rows'[new].file = file
      /\ \A a \in Ids \ {new} : rows'[a] = rows[a]
  BY <1>1, <1>3, Types DEF Sound, Row
<1>5. Listed' = Listed \cup {new} /\ Kept' = Kept \cup {new} /\ Listed \subseteq Ids /\ Doomed' = Doomed
  BY <1>1, <1>3, <1>4 DEF Listed, Kept, Doomed
<1>6. \A a \in Listed : /\ rows[a].file # file /\ rows[a].file \in Files
                        /\ rows[a].file.version \in Nat
                        /\ (rows[a].file.imported => rows[a].file.version <= counter)
  <2>1. \A a \in Listed : /\ rows[a].file \in Files /\ rows[a].file.version \in Nat
                          /\ (rows[a].file.imported => rows[a].file.version <= counter)
    BY BackupsAssumption DEF Sound, Names, RowsDiffer, Files, Versions
  <2>2. QED
    BY <1>2, <2>1
<1>7. \A u \in Threads : Busy(u) => thread[u].file # file
  BY <1>2 DEF Sound, Names, OwnArchive
<1>8. RowsDiffer'
  <2>1. \A a, b \in Listed' : rows'[a].file = rows'[b].file => a = b
    BY <1>1, <1>4, <1>5, <1>6 DEF Sound, Names, RowsDiffer
  <2>2. \A a \in Listed' : rows'[a].file \in Files
    BY <1>1, <1>2, <1>4, <1>5, <1>6
  <2>3. \A a \in Listed' : rows'[a].file.imported => rows'[a].file.version <= counter'
    BY <1>1, <1>2, <1>4, <1>5, <1>6
  <2>4. QED
    BY <2>1, <2>2, <2>3 DEF RowsDiffer
<1>9. ThreadsDiffer'
  BY <1>3 DEF Sound, Names, ThreadsDiffer, Busy
<1>10. ASSUME NEW u \in Threads PROVE OwnArchive(u)' /\ DoomedGone(u)'
  <2>1. OwnArchive(u) /\ DoomedGone(u) /\ (Busy(u) => thread[u].id \in Ids \ {new})
    BY <1>1, Types DEF Sound, Names, BusyType
  <2>2. HasRow(u)' <=> HasRow(u)
    BY <1>3, <1>4, <2>1 DEF HasRow, Busy
  <2>3. Busy(u) => \A a \in Listed' : rows'[a].file = thread[u].file <=> a = thread[u].id
    BY <1>1, <1>4, <1>5, <1>7, <2>1 DEF OwnArchive
  <2>4. Busy(u) => rows'[thread[u].id] = rows[thread[u].id]
    BY <1>4, <2>1
  <2>5. OwnArchive(u)'
    BY <1>3, <1>7, <2>1, <2>2, <2>3, <2>4 DEF OwnArchive, Busy
  <2>6. DoomedGone(u)'
    BY <1>1, <1>3, <1>4, <1>5, <1>6, <2>1 DEF DoomedGone
  <2>7. QED
    BY <2>5, <2>6
<1>11. ArchivesMatchRows'
  <2>1. \A a \in Listed : rows'[a] = rows[a]
    BY <1>1, <1>4, <1>5
  <2>2. \A a \in Kept' \ Doomed : rows'[a].file \in disk'
    BY <1>3, <1>4, <1>5, <2>1 DEF Sound, ArchivesMatchRows, FilesOf, Kept
  <2>3. \A f \in disk' : (\E a \in Listed' : rows'[a].file = f) \/ (\E u \in Threads : thread[u].file = f)
    BY <1>3, <1>4, <1>5, <2>1 DEF Sound, ArchivesMatchRows, FilesOf
  <2>4. QED
    BY <1>3, <1>5, <2>2, <2>3 DEF ArchivesMatchRows, FilesOf
<1>12. QED
  BY <1>8, <1>9, <1>10, <1>11 DEF Sound, Names

\* The server stops while no archives are being taken from their rows: every archive has its row.
LEMMA SoundCrash ==
  ASSUME Sound, TypeOK', "torn" \notin Faults, Crash
  PROVE  Sound'
<1>1. /\ UNCHANGED <<rows, disk, counter>> /\ \A t \in Threads : thread'[t] = Idle
      /\ Idle.pc = "none" /\ Idle.doomed = {} /\ Idle.file \notin Files
  BY Types, NoFileIsNone DEF Crash, Sound, Idle
<1>2. Listed' = Listed /\ Kept' = Kept /\ Doomed' = {}
  BY <1>1 DEF Listed, Kept, Doomed
<1>3. Doomed = {} /\ \A t \in Threads : thread[t].pc = "packed" => HasRow(t)
  BY DEF Crash, Torn, Doomed, Sound, Names, OwnArchive
<1>4. RowsDiffer'
  BY <1>1, <1>2 DEF Sound, Names, RowsDiffer
<1>5. ThreadsDiffer' /\ \A t \in Threads : OwnArchive(t)' /\ DoomedGone(t)'
  BY <1>1 DEF ThreadsDiffer, OwnArchive, DoomedGone, Busy
<1>6. ASSUME NEW f \in disk PROVE \E a \in Listed : rows[a].file = f
  <2>1. CASE \E a \in Listed : rows[a].file = f
    BY <2>1
  <2>2. CASE \E t \in Threads : thread[t].file = f
    <3>1. PICK t \in Threads : thread[t].file = f
      BY <2>2
    <3>2. f \in Files
      BY Types DEF Sound
    <3>3. Busy(t) /\ thread[t].id \in Ids
      BY <1>1, <3>1, <3>2, Types DEF Sound, BusyType
    <3>4. HasRow(t)
      BY <1>3, <3>1, <3>3 DEF Sound, Names, OwnArchive
    <3>5. QED
      BY <3>1, <3>3, <3>4 DEF HasRow, Listed, Sound, Names, OwnArchive
  <2>3. QED
    BY <2>1, <2>2 DEF Sound, ArchivesMatchRows, FilesOf
<1>7. ArchivesMatchRows'
  BY <1>1, <1>2, <1>3, <1>6 DEF Sound, ArchivesMatchRows, FilesOf
<1>8. QED
  BY <1>4, <1>5, <1>7 DEF Sound, Names

LEMMA SoundIsKept ==
  ASSUME Sound, CountedNext, Faults \cap {"torn", "reuse"} = {}, [Next]_vars
  PROVE  Sound'
<1>1. TypeOK' /\ TypeOK
  BY TypesAreKept DEF Sound
<1>2. counter \in Nat /\ counter' \in Nat /\ counter >= counter /\ counter + 1 >= counter
  BY <1>1, BackupsAssumption DEF TypeOK, Versions
<1>3. ASSUME NEW version \in Versions, CreateBackup(version), UNCHANGED disk,
             counter' \in {counter, counter + 1}
      PROVE  Sound'
  BY <1>1, <1>2, <1>3, Created, SoundCreation
<1>4. CASE Launch
  <2>1. PICK version \in (1..counter) \cup {active} : CreateBackup(version)
    BY <1>4 DEF Launch
  <2>2. version \in Versions
    BY <1>1, <1>2, BackupsAssumption DEF TypeOK, Versions
  <2>3. QED
    BY <1>3, <1>4, <2>1, <2>2 DEF Launch
<1>5. CASE DeployEnds
  <2>1. counter + 1 \in Versions
    BY <1>1, <1>2, <1>5, BackupsAssumption DEF DeployEnds, TypeOK, Versions
  <2>2. QED
    BY <1>1, <1>2, <1>3, <1>5, <2>1, SoundUnchanged DEF DeployEnds, AfterDeploy
<1>6. CASE \E t \in Threads : CreateJob(t)
  BY <1>1, <1>6, SoundThread
<1>7. CASE ApplyConfig
  <2>1. Surplus(config'.keep_local) \in SUBSET Listed
    BY DEF Surplus, Kept
  <2>2. QED
    BY <1>1, <1>7, <2>1, SoundRemoval DEF ApplyConfig
<1>8. CASE DeleteBackup
  <2>1. PICK id \in Listed : rows' = Without({id}) /\ disk' = disk \ {rows[id].file}
    BY <1>8 DEF DeleteBackup
  <2>2. FilesOf({id}) = {rows[id].file}
    BY DEF FilesOf
  <2>3. UNCHANGED <<thread, counter>> /\ {id} \in SUBSET Listed
    BY <1>8 DEF DeleteBackup
  <2>4. QED
    BY <1>1, <2>1, <2>2, <2>3, SoundRemoval
<1>9. CASE ImportEnds
  BY <1>1, <1>9, SoundImport
<1>10. CASE Crash
  BY <1>1, <1>10, SoundCrash
<1>11. CASE Starts
  <2>1. active \in Versions
    BY <1>1, <1>2, BackupsAssumption DEF TypeOK, Versions
  <2>2. QED
    BY <1>3, <1>11, <2>1 DEF Starts
<1>12. CASE \/ RollbackEnds \/ LaunchImport \/ ImportFails \/ Arms \/ Takes \/ FailsToStart
            \/ Advance \/ Boot \/ UNCHANGED vars
  <2>1. UNCHANGED <<rows, disk, thread, counter>>
    BY <1>12 DEF RollbackEnds, LaunchImport, ImportFails, Arms, Takes, FailsToStart, Advance, Boot, vars
  <2>2. QED
    BY <1>1, <1>2, <2>1, SoundUnchanged
<1>13. QED
  BY <1>4, <1>5, <1>6, <1>7, <1>8, <1>9, <1>10, <1>11, <1>12 DEF Next, Tick

LEMMA InitSound == Init => Sound
<1> SUFFICES ASSUME Init PROVE Sound
  OBVIOUS
<1>1. TypeOK
  BY InitTypes
<1>2. /\ Listed = {} /\ Kept = {} /\ disk = {} /\ \A t \in Threads : thread[t] = Idle
      /\ Idle.pc = "none" /\ Idle.doomed = {}
  BY DEF Init, Listed, Kept, NoRow, Row, Idle
<1>3. RowsDiffer /\ ThreadsDiffer /\ \A t \in Threads : OwnArchive(t) /\ DoomedGone(t)
  BY <1>2 DEF RowsDiffer, ThreadsDiffer, OwnArchive, DoomedGone, Busy
<1>4. ArchivesMatchRows
  BY <1>2 DEF ArchivesMatchRows, FilesOf
<1>5. QED
  BY <1>1, <1>3, <1>4 DEF Sound, Names

\* As long as no job and no server stops between archives and their rows, and no id is given out
\* while a thread still uses it, rows and archives match: whatever raises, however many backups,
\* retentions, deletions and imports work at a time.
THEOREM ArchivesCorrect ==
  ASSUME Faults \cap {"torn", "reuse"} = {}
  PROVE  Spec => []ArchivesMatchRows
<1>1. Init => Sound /\ CountedNext
  BY InitSound DEF Init, CountedNext
<1>2. Sound /\ CountedNext /\ [Next]_vars => Sound' /\ CountedNext'
  BY SoundIsKept, CountIsKept DEF Sound
<1>3. Sound => ArchivesMatchRows
  BY DEF Sound
<1>4. QED
  BY <1>1, <1>2, <1>3, PTL DEF Spec

----------------------------------------------------------------------------
(* Retention *)

\* Among rows that are ok, one is no older than any other.
LEMMA NewestExists ==
  ASSUME TypeOK, RowsDiffer, Kept # {}
  PROVE  \E b \in Kept : \A a \in Kept : rows[b].file.ts >= rows[a].file.ts /\ ~Older(b, a)
<1>1. \A a \in Kept : rows[a].file.ts \in 0..MaxClock /\ a \in 0..MaxRows
  BY BackupsAssumption DEF RowsDiffer, Kept, Listed, Ids, Files, Times
<1> DEFINE times == {rows[a].file.ts : a \in Kept}
           last == Max(times)
           latest == {a \in Kept : rows[a].file.ts = last}
<1>2. times \subseteq 0..MaxClock /\ times # {} /\ MaxClock \in Nat /\ MaxRows \in Nat
  BY <1>1, BackupsAssumption
<1> HIDE DEF times
<1>3. last \in times /\ \A x \in times : x <= last
  BY <1>2, MaxIsGreatest
<1> HIDE DEF last
<1>4. latest \subseteq 0..MaxRows /\ latest # {}
  BY <1>1, <1>3 DEF times
<1> HIDE DEF latest
<1>5. Max(latest) \in latest /\ \A x \in latest : x <= Max(latest)
  BY <1>2, <1>4, MaxIsGreatest
<1>6. PICK b \in latest : \A x \in latest : x <= b
  BY <1>5
<1>7. b \in Kept /\ rows[b].file.ts = last
  BY <1>6 DEF latest
<1>8. ASSUME NEW a \in Kept PROVE rows[b].file.ts >= rows[a].file.ts /\ ~Older(b, a)
  <2>1. rows[a].file.ts \in times /\ rows[a].file.ts \in Nat /\ rows[b].file.ts \in Nat /\ a \in Nat /\ b \in Nat
    BY <1>1, <1>7 DEF times
  <2>2. rows[a].file.ts <= rows[b].file.ts
    BY <1>3, <1>7, <2>1
  <2>3. rows[a].file.ts = rows[b].file.ts => a <= b
    BY <1>6, <1>7 DEF latest
  <2>4. QED
    BY <2>1, <2>2, <2>3 DEF Older
<1>9. QED
  BY <1>7, <1>8

\* Retention spares it.
LEMMA NewestIsSpared ==
  ASSUME TypeOK, RowsDiffer, NEW limit \in Nat \ {0}, NEW id \in Surplus(limit)
  PROVE  \E b \in Kept \ {id} : b \notin Surplus(limit) /\ rows[b].file.ts >= rows[id].file.ts
<1>1. id \in Kept
  BY DEF Surplus
<1>2. PICK b \in Kept : \A a \in Kept : rows[b].file.ts >= rows[a].file.ts /\ ~Older(b, a)
  BY <1>1, NewestExists
<1>3. b \notin Surplus(limit)
  <2>1. {a \in Kept : Older(b, a)} = {}
    BY <1>2
  <2>2. Cardinality({a \in Kept : Older(b, a)}) = 0
    BY <2>1, FS_EmptySet
  <2>3. ~(0 >= limit)
    OBVIOUS
  <2>4. QED
    BY <2>2, <2>3 DEF Surplus
<1>4. QED
  BY <1>1, <1>2, <1>3

\* What retention removes.
LEMMA RetentionKeeps ==
  ASSUME Sound, NEW limit \in Nat \ {0}, disk' = disk \ FilesOf(Surplus(limit))
  PROVE  Retained
<1>1. /\ TypeOK /\ RowsDiffer /\ Surplus(limit) \in SUBSET Listed /\ Kept \subseteq Listed
      /\ \A a \in Kept \ Doomed : rows[a].file \in disk
  BY DEF Sound, Names, ArchivesMatchRows, FilesOf, Surplus, Kept
<1>2. ASSUME NEW id \in Kept \ Doomed, rows[id].file \notin disk'
      PROVE  \E b \in Kept \ {id} : /\ rows[b].file.ts >= rows[id].file.ts
                                    /\ rows[b].file \in disk' \/ b \in Doomed
  <2>1. id \in Surplus(limit)
    BY <1>1, <1>2, OnlyItsRow
  <2>2. PICK b \in Kept \ {id} : b \notin Surplus(limit) /\ rows[b].file.ts >= rows[id].file.ts
    BY <1>1, <2>1, NewestIsSpared
  <2>3. rows[b].file \notin FilesOf(Surplus(limit))
    BY <1>1, <2>2, OnlyItsRow
  <2>4. QED
    BY <1>1, <2>2, <2>3
<1>3. QED
  BY <1>2 DEF Retained

LEMMA StepRetains ==
  ASSUME Sound, [Next]_vars
  PROVE  [Retained]_vars
<1>1. SUFFICES ASSUME Next PROVE Retained
  OBVIOUS
<1>2. \A a \in Kept \ Doomed : rows[a].file \in disk
  BY DEF Sound, ArchivesMatchRows, FilesOf
<1>3. config \in Settings /\ \A c \in Settings : c.keep_local \in Nat \ {0}
  BY BackupsAssumption DEF SettingsType, Sound, TypeOK
<1>4. CASE disk \subseteq disk'
  BY <1>2, <1>4 DEF Retained
<1>5. CASE DeleteBackup
  BY <1>5 DEF Retained
<1>6. CASE ApplyConfig
  <2>1. config' \in Settings /\ disk' = disk \ FilesOf(Surplus(config'.keep_local))
    BY <1>6 DEF ApplyConfig
  <2>2. QED
    BY <1>3, <2>1, RetentionKeeps
<1>7. CASE \E t \in Threads : CreateJob(t)
  <2>1. PICK t \in Threads : CreateJob(t)
    BY <1>7
  <2>2. CASE PrunesLocal(t)
    BY <1>3, <2>2, RetentionKeeps DEF PrunesLocal
  <2>3. CASE Fails(t)
    <3>1. ASSUME NEW id \in Kept \ Doomed, rows[id].file \notin disk' PROVE thread[t].id = id
      <4>1. rows[id].file = thread[t].file /\ id \in Listed
        BY <1>2, <2>3, <3>1 DEF Fails, Kept
      <4>2. OwnArchive(t) /\ Busy(t)
        BY <2>3 DEF Fails, Busy, Sound, Names
      <4>3. QED
        BY <4>1, <4>2 DEF OwnArchive
    <3>2. QED
      BY <2>3, <3>1 DEF Retained
  <2>4. CASE Packs(t) \/ Records(t) \/ Ships(t) \/ Finishes(t)
    BY <1>4, <2>4 DEF Packs, Records, Ships, Finishes
  <2>5. QED
    BY <2>1, <2>2, <2>3, <2>4 DEF CreateJob
<1>8. CASE Launch \/ DeployEnds \/ RollbackEnds \/ LaunchImport \/ ImportEnds \/ ImportFails
  BY <1>4, <1>8 DEF Launch, DeployEnds, RollbackEnds, LaunchImport, ImportEnds, ImportFails
<1>9. CASE Tick \/ Advance \/ Crash \/ Boot
  BY <1>4, <1>9 DEF Tick, Arms, Takes, Starts, FailsToStart, Advance, Crash, Boot
<1>10. QED
  BY <1>1, <1>5, <1>6, <1>7, <1>8, <1>9 DEF Next

\* Under the same conditions, retention never costs the newest archive.
THEOREM NewestRetained ==
  ASSUME Faults \cap {"torn", "reuse"} = {}
  PROVE  Spec => RetainsNewest
<1>1. Init => Sound /\ CountedNext
  BY InitSound DEF Init, CountedNext
<1>2. Sound /\ CountedNext /\ [Next]_vars => Sound' /\ CountedNext'
  BY SoundIsKept, CountIsKept DEF Sound
<1>3. Sound /\ [Next]_vars => [Retained]_vars
  BY StepRetains
<1>4. QED
  BY <1>1, <1>2, <1>3, PTL DEF Spec, RetainsNewest

----------------------------------------------------------------------------
(* The scheduler *)

\* A window that is taken has come since the last run on record.
LEMMA TakesNewWindow ==
  ASSUME TypeOK, Takes
  PROVE  NewWindow
<1> DEFINE previous == Max(Passed(config.cron))
<1>1. /\ Scheduled /\ lastRun # Never /\ Passed(config.cron) # {}
      /\ previous > lastRun /\ lastRun' = clock
  BY DEF Takes, Due, Since
<1>2. config.cron \in DOMAIN Fires /\ clock \in Nat /\ lastRun \in Nat
  BY <1>1, BackupsAssumption DEF Scheduled, TypeOK, SettingsType, Times, Never
<1>3. Passed(config.cron) \subseteq 0..clock
  BY <1>2, BackupsAssumption DEF Passed
<1>4. previous \in Passed(config.cron)
  BY <1>1, <1>2, <1>3, MaxIsGreatest
<1>5. previous \in Fires[config.cron] /\ previous <= clock
  BY <1>4 DEF Passed
<1>6. lastRun < previous
  BY <1>1, <1>2, <1>3, <1>4
<1> HIDE DEF previous
<1>7. previous \in UNION {Fires[c] : c \in DOMAIN Fires}
  BY <1>2, <1>5
<1>8. QED
  BY <1>1, <1>5, <1>6, <1>7 DEF NewWindow

\* No window is served twice, whatever fails and whichever schedules are set.
THEOREM WindowsServedOnce == Spec => OneRunPerWindow
<1>1. TypeOK /\ [Next]_vars => [NewWindow]_vars
  <2> SUFFICES ASSUME TypeOK, Next PROVE NewWindow
    BY DEF NewWindow
  <2>1. CASE Takes
    BY <2>1, TakesNewWindow
  <2>2. CASE ~Takes
    <3>1. ~(scheduler = "idle" /\ scheduler' = "starting")
      BY <2>2 DEF Next, Launch, DeployEnds, RollbackEnds, CreateJob, ApplyConfig, DeleteBackup,
                  LaunchImport, ImportEnds, ImportFails, Tick, Arms, Starts, FailsToStart,
                  Advance, Crash, Boot
    <3>2. QED
      BY <3>1 DEF NewWindow
  <2>3. QED
    BY <2>1, <2>2
<1>2. QED
  BY <1>1, TypeCorrect, PTL DEF OneRunPerWindow, Spec
=============================================================================
