--------------------------- MODULE EnvFilesProofs ----------------------------
(* Proofs about EnvFiles, for every set of texts: its types, and that what a   *)
(* deploy, a rollback or a restart leaves running was created with the         *)
(* current environment.                                                        *)
EXTENDS EnvFiles, TLAPS

RollbackOps == {"rollback", "rollback_data"}

\* A job that is to create the container anew, after it has written the files.
FilesAreWritten ==
  \/ At({"deploy", "restart"}, "launched")
  \/ mode # "compose" /\ At(RollbackOps, "launched")
  \/ At(RollbackOps, "down") \/ At(RollbackOps, "up")

\* The rows are among what the job has seen.
RowsAreSeen == job.op # "none" => \A s \in Scopes : row[s] \in seen[s]

\* So are the files, whatever writes them in the meantime, ...
FilesAreSeen == FilesAreWritten => \A s \in Scopes : file[s] \in seen[s]

\* ... the absence of a scope the override does not list, ...
GapsAreSeen ==
  FilesAreWritten /\ mode = "compose" => \A s \in Scopes \ override : NoText \in seen[s]

\* ... and that of the file a command without --env-file does not name.
AbsenceIsSeen ==
  FilesAreWritten /\ job.pc # "down" /\ ~job.env_file => NoText \in seen["project"]

IInv ==
  /\ TypeOK /\ RowsAreSeen
  /\ FilesAreSeen /\ GapsAreSeen /\ AbsenceIsSeen
  /\ StartsWithCurrentEnv

----------------------------------------------------------------------------
(* Types *)

LEMMA InitTypes == Init => TypeOK
BY EnvAssumption
DEF Init, TypeOK, Nothing, Idle, Content, Scopes, ScopesOf, Environment, Ops

LEMMA WrittenIsRow == ASSUME TypeOK PROVE Written(row) = row
BY DEF TypeOK, Written

JobType ==
  [op : Ops, pc : {"none", "launched", "down", "up", "data", "done"}, env_file : BOOLEAN]

LEMMA LaunchTypes ==
  ASSUME TypeOK, NEW op \in Ops, NEW env_file \in BOOLEAN, Launch(op, env_file, row)
  PROVE  job' \in JobType /\ seen' \in [Scopes -> SUBSET Content]
BY DEF TypeOK, Launch, JobType

\* One action at a time: the types of what it changes.
LEMMA TypesAreKept == ASSUME TypeOK, [Next]_vars PROVE TypeOK'
<1> USE EnvAssumption DEF TypeOK, Scopes, Content, ScopesOf
<1>1. CASE SetEnv
  BY <1>1 DEF SetEnv, Stores, Notes
<1>2. CASE SetServiceEnv
  BY <1>2 DEF SetServiceEnv, AcceptsScope, Stores, Notes
<1>3. CASE BackupWrites
  BY <1>3, WrittenIsRow DEF BackupWrites
<1>4. CASE Deploys
  BY <1>4 DEF Deploys, Launch, Written, EnvFileList, Ops, Idle
<1>5. CASE Restarts
  BY <1>5, WrittenIsRow DEF Restarts, Launch, EnvFileList, Ops, Idle
<1>6. CASE Rollbacks
  <2>1. PICK op \in RollbackOps :
          IF mode = "compose"
          THEN Launch(op, FALSE, row) /\ UNCHANGED file
          ELSE file' = row /\ Launch(op, row["project"] # NoText, row)
    BY <1>6, WrittenIsRow DEF Rollbacks, RollbackOps
  <2>2. UNCHANGED <<mode, row, override, live>>
    BY <1>6 DEF Rollbacks
  <2>3. /\ job' \in JobType /\ seen' \in [Scopes -> SUBSET Content]
        /\ file' = file \/ file' = row
    <3>1. op \in Ops /\ FALSE \in BOOLEAN /\ (row["project"] # NoText) \in BOOLEAN
      BY DEF Ops, RollbackOps
    <3>2. CASE mode = "compose"
      BY <2>1, <3>1, <3>2, LaunchTypes
    <3>3. CASE mode # "compose"
      BY <2>1, <3>1, <3>3, LaunchTypes
    <3>4. QED
      BY <3>2, <3>3
  <2>4. QED
    BY <2>2, <2>3 DEF JobType
<1>7. CASE RestoresVolume
  BY <1>7 DEF RestoresVolume, Launch, Ops, Idle
<1>8. CASE Provisions
  BY <1>8, WrittenIsRow DEF Provisions, At, EnvFileList
<1>9. CASE FindsEnvFile
  BY <1>9, WrittenIsRow DEF FindsEnvFile, At
<1>10. CASE Up
  BY <1>10 DEF Up, Created, Listed, Environment
<1>11. CASE StartsAgain
  BY <1>11 DEF StartsAgain, Created, Listed, Environment
<1>12. CASE RestoresData
  BY <1>12 DEF RestoresData, Archived, Written, Notes, Environment
<1>13. CASE LeavesData
  BY <1>13 DEF LeavesData
<1>14. CASE Fails
  BY <1>14 DEF Fails, Idle, Ops, Environment
<1>15. CASE Ends
  BY <1>15 DEF Ends, Idle, Ops
<1>16. CASE UNCHANGED vars
  BY <1>16 DEF vars
<1>17. QED
  BY <1>1, <1>2, <1>3, <1>4, <1>5, <1>6, <1>7, <1>8, <1>9, <1>10, <1>11, <1>12, <1>13, <1>14,
     <1>15, <1>16 DEF Next

\* Types, for every set of texts.
THEOREM TypeCorrect == Spec => []TypeOK
BY InitTypes, TypesAreKept, PTL DEF Spec

----------------------------------------------------------------------------
(* What starts, starts with the current environment *)

LEMMA InitInvariant == Init => IInv
<1> SUFFICES ASSUME Init PROVE IInv
  OBVIOUS
<1>1. job.op = "none" /\ job.pc = "none"
  BY DEF Init, Idle
<1>2. ~FilesAreWritten
  BY <1>1 DEF FilesAreWritten, At, RollbackOps
<1>3. QED
  BY <1>1, <1>2, InitTypes
  DEF IInv, RowsAreSeen, FilesAreSeen, GapsAreSeen, AbsenceIsSeen, StartsWithCurrentEnv,
      Recreates, At

\* A launch sees the rows; when the files are those rows, and the override their list, the job
\* begins with everything in place.
LEMMA LaunchedFresh ==
  ASSUME TypeOK', NEW op \in Ops \ {"none"}, NEW env_file \in BOOLEAN,
         Launch(op, env_file, row'),
         file' = row' \/ ~FilesAreWritten',
         mode' = "compose" => override' = EnvFileList(row') \/ ~FilesAreWritten',
         env_file = (row'["project"] # NoText) \/ ~FilesAreWritten'
  PROVE  IInv'
<1>1. job' = [op |-> op, pc |-> "launched", env_file |-> env_file]
      /\ seen' = [s \in Scopes |-> {row'[s]}]
  BY DEF Launch
<1>2. \A s \in Scopes : row'[s] \in seen'[s]
  BY <1>1
<1>3. RowsAreSeen'
  BY <1>2 DEF RowsAreSeen
<1>4. FilesAreSeen'
  BY <1>2 DEF FilesAreSeen
<1>5. GapsAreSeen'
  <2>1. SUFFICES ASSUME FilesAreWritten', mode' = "compose", NEW s \in Scopes \ override'
                 PROVE  NoText \in seen'[s]
    BY DEF GapsAreSeen
  <2>2. row'[s] = NoText
    BY <2>1 DEF EnvFileList
  <2>3. QED
    BY <1>2, <2>2
<1>6. AbsenceIsSeen'
  <2>1. SUFFICES ASSUME FilesAreWritten', ~job'.env_file PROVE NoText \in seen'["project"]
    BY DEF AbsenceIsSeen
  <2>2. row'["project"] = NoText
    BY <1>1, <2>1
  <2>3. QED
    BY <1>2, <2>2 DEF Scopes
<1>7. StartsWithCurrentEnv'
  BY <1>1 DEF StartsWithCurrentEnv, At
<1>8. QED
  BY <1>3, <1>4, <1>5, <1>6, <1>7 DEF IInv

\* A row that changes is seen, and the rest was seen before.
LEMMA StoresKeeps ==
  ASSUME IInv, TypeOK', NEW s \in Scopes, Stores(s)
  PROVE  IInv'
<1>1. UNCHANGED <<mode, file, override, live, job>> /\ Notes(row')
  BY DEF Stores
<1>2. FilesAreWritten' <=> FilesAreWritten
  BY <1>1 DEF FilesAreWritten, At
<1>3. \A t \in Scopes : seen[t] \subseteq seen'[t]
  BY <1>1 DEF Notes, IInv, TypeOK
<1>4. RowsAreSeen'
  BY <1>1 DEF RowsAreSeen, Notes
<1>5. FilesAreSeen' /\ GapsAreSeen' /\ AbsenceIsSeen'
  BY <1>1, <1>2, <1>3 DEF IInv, FilesAreSeen, GapsAreSeen, AbsenceIsSeen, Scopes
<1>6. StartsWithCurrentEnv'
  <2>1. At(Recreates, "done")' <=> At(Recreates, "done")
    BY <1>1 DEF At
  <2>2. ScopesOf(mode) \subseteq Scopes
    BY DEF ScopesOf, Scopes
  <2>3. QED
    BY <1>1, <1>3, <2>1, <2>2 DEF IInv, StartsWithCurrentEnv, Scopes
<1>7. QED
  BY <1>4, <1>5, <1>6 DEF IInv

LEMMA InvariantIsKept == ASSUME IInv, [Next]_vars PROVE IInv'
<1> USE DEF IInv
<1>0. TypeOK'
  BY TypesAreKept
<1>1. CASE SetEnv
  <2>1. Stores("project")
    BY <1>1 DEF SetEnv
  <2>2. QED
    BY <2>1, <1>0, StoresKeeps DEF Scopes
<1>2. CASE SetServiceEnv
  <2>1. Stores("service")
    BY <1>2 DEF SetServiceEnv
  <2>2. QED
    BY <2>1, <1>0, StoresKeeps DEF Scopes
<1>3. CASE BackupWrites
  <2>1. file' = row /\ UNCHANGED <<mode, row, override, live, job, seen>>
    BY <1>3, WrittenIsRow DEF BackupWrites
  <2>2. FilesAreWritten' => job.op # "none"
    BY <2>1 DEF FilesAreWritten, At, RollbackOps
  <2>3. QED
    BY <1>0, <2>1, <2>2
    DEF RowsAreSeen, FilesAreSeen, GapsAreSeen, AbsenceIsSeen, StartsWithCurrentEnv, At,
        FilesAreWritten
<1>4. CASE Deploys
  <2>1. file' = row'
    BY <1>4, <1>0 DEF Deploys, Written, TypeOK
  <2>2. Launch("deploy", row'["project"] # NoText, row')
    BY <1>4 DEF Deploys
  <2>3. mode' = "compose" => override' = EnvFileList(row')
    BY <1>4 DEF Deploys
  <2>4. QED
    BY <1>0, <2>1, <2>2, <2>3, LaunchedFresh DEF Ops
<1>5. CASE Restarts
  <2>1. file' = row' /\ UNCHANGED row
    BY <1>5, WrittenIsRow DEF Restarts
  <2>2. Launch("restart", row'["project"] # NoText, row')
    BY <1>5, <2>1 DEF Restarts
  <2>3. mode' = "compose" => override' = EnvFileList(row')
    BY <1>5, <2>1 DEF Restarts
  <2>4. QED
    BY <1>0, <2>1, <2>2, <2>3, LaunchedFresh DEF Ops
<1>6. CASE Rollbacks
  <2>1. UNCHANGED <<mode, row>>
    BY <1>6 DEF Rollbacks
  <2>2. PICK op \in RollbackOps :
          IF mode = "compose"
          THEN Launch(op, FALSE, row) /\ UNCHANGED file
          ELSE file' = row /\ Launch(op, row["project"] # NoText, row)
    BY <1>6, WrittenIsRow DEF Rollbacks, RollbackOps
  <2>3. op \in Ops \ {"none"}
    BY DEF Ops, RollbackOps
  <2>4. CASE mode = "compose"
    <3>1. Launch(op, FALSE, row')
      BY <2>1, <2>2, <2>4
    <3>2. ~FilesAreWritten'
      BY <2>1, <2>4, <3>1 DEF Launch, FilesAreWritten, At, RollbackOps
    <3>3. QED
      BY <1>0, <2>3, <3>1, <3>2, LaunchedFresh
  <2>5. CASE mode # "compose"
    <3>1. file' = row' /\ Launch(op, row'["project"] # NoText, row')
      BY <2>1, <2>2, <2>5
    <3>2. QED
      BY <1>0, <2>1, <2>3, <2>5, <3>1, LaunchedFresh
  <2>6. QED
    BY <2>4, <2>5
<1>7. CASE RestoresVolume
  <2>1. PICK env_file \in BOOLEAN : Launch("restore", env_file, row')
    BY <1>7 DEF RestoresVolume
  <2>2. ~FilesAreWritten'
    BY <2>1 DEF Launch, FilesAreWritten, At, RollbackOps
  <2>3. QED
    BY <1>0, <2>1, <2>2, LaunchedFresh DEF Ops
<1>8. CASE Provisions
  <2>1. /\ file' = row /\ override' = EnvFileList(row) /\ job' = [job EXCEPT !.pc = "down"]
        /\ UNCHANGED <<mode, row, live, seen>> /\ job.op \in RollbackOps
    BY <1>8, WrittenIsRow DEF Provisions, At, RollbackOps
  <2>2. job'.pc = "down" /\ job'.op = job.op /\ job.op # "none"
    BY <2>1 DEF TypeOK, RollbackOps
  <2>3. \A s \in Scopes : row[s] \in seen[s]
    BY <2>2 DEF RowsAreSeen
  <2>4. \A s \in Scopes \ override' : row[s] = NoText
    BY <2>1 DEF EnvFileList
  <2>5. QED
    BY <1>0, <2>1, <2>2, <2>3, <2>4
    DEF RowsAreSeen, FilesAreSeen, GapsAreSeen, AbsenceIsSeen, StartsWithCurrentEnv, At
<1>9. CASE FindsEnvFile
  <2>1. /\ file' = row /\ UNCHANGED <<mode, row, override, live, seen>>
        /\ job' = [job EXCEPT !.pc = "up", !.env_file = row["project"] # NoText]
        /\ At(RollbackOps, "down")
    BY <1>9, WrittenIsRow DEF FindsEnvFile, At, RollbackOps
  <2>2. job'.pc = "up" /\ job'.op = job.op /\ job.op # "none"
    BY <2>1 DEF TypeOK, RollbackOps, At
  <2>3. ~job'.env_file => row["project"] = NoText
    BY <2>1 DEF TypeOK
  <2>4. \A s \in Scopes : row[s] \in seen[s]
    BY <2>2 DEF RowsAreSeen
  <2>5. FilesAreWritten
    BY <2>1 DEF FilesAreWritten
  <2>6. QED
    BY <1>0, <2>1, <2>2, <2>3, <2>4, <2>5
    DEF RowsAreSeen, FilesAreSeen, GapsAreSeen, AbsenceIsSeen, StartsWithCurrentEnv, At, Scopes
<1>10. CASE Up
  <2>1. FilesAreWritten /\ job.pc # "down" /\ job.op # "none"
    BY <1>10 DEF Up, At, FilesAreWritten, RollbackOps
  <2>2. live' = Created(job.env_file) /\ UNCHANGED <<mode, row, file, override, seen>>
    BY <1>10 DEF Up
  <2>3. job'.pc \in {"data", "done"} /\ job'.op = job.op
    BY <1>10 DEF Up, TypeOK
  <2>4. \A s \in ScopesOf(mode) : live'.files[s] \in seen[s]
    <3>1. SUFFICES ASSUME NEW s \in ScopesOf(mode) PROVE live'.files[s] \in seen[s]
      OBVIOUS
    <3>2. s \in Scopes
      BY DEF ScopesOf, Scopes
    <3>3. live'.files[s] = IF s \in Listed THEN file[s] ELSE NoText
      BY <2>2, <3>2 DEF Created
    <3>4. CASE s \in Listed
      BY <2>1, <3>2, <3>3, <3>4 DEF FilesAreSeen
    <3>5. CASE s \notin Listed /\ mode = "compose"
      BY <2>1, <3>2, <3>3, <3>5 DEF GapsAreSeen, Listed
    <3>6. CASE s \notin Listed /\ mode # "compose"
      <4>1. s = "project" /\ ~job.env_file
        BY <3>6 DEF Listed, ScopesOf
      <4>2. QED
        BY <2>1, <3>3, <3>6, <4>1 DEF AbsenceIsSeen
    <3>7. QED
      BY <3>4, <3>5, <3>6
  <2>5. mode = "compose" => live'.variables \in seen["project"]
    BY <2>1, <2>2 DEF Created, FilesAreSeen, AbsenceIsSeen, Scopes
  <2>6. ~FilesAreWritten'
    BY <2>3 DEF FilesAreWritten, At
  <2>7. QED
    BY <1>0, <2>1, <2>2, <2>3, <2>4, <2>5, <2>6
    DEF RowsAreSeen, FilesAreSeen, GapsAreSeen, AbsenceIsSeen, StartsWithCurrentEnv
<1>11. CASE StartsAgain
  <2>1. job'.pc = "done" /\ job'.op = "restore" /\ UNCHANGED <<row, seen>> /\ job.op # "none"
    BY <1>11 DEF StartsAgain, At, TypeOK
  <2>2. QED
    BY <1>0, <2>1
    DEF RowsAreSeen, FilesAreSeen, GapsAreSeen, AbsenceIsSeen, StartsWithCurrentEnv, At,
        FilesAreWritten, Recreates
<1>12. CASE RestoresData
  <2>1. /\ job'.pc = "done" /\ job'.op = "rollback_data" /\ job.op # "none"
        /\ Notes(row')
    BY <1>12 DEF RestoresData, At, TypeOK
  <2>2. RowsAreSeen'
    BY <2>1 DEF Notes, RowsAreSeen
  <2>3. QED
    BY <1>0, <2>1, <2>2
    DEF FilesAreSeen, GapsAreSeen, AbsenceIsSeen, StartsWithCurrentEnv, At, FilesAreWritten,
        Recreates
<1>13. CASE LeavesData
  <2>1. /\ job'.pc = "done" /\ job'.op = "rollback_data" /\ job.op # "none"
        /\ UNCHANGED <<row, seen>>
    BY <1>13 DEF LeavesData, At, TypeOK
  <2>2. QED
    BY <1>0, <2>1
    DEF RowsAreSeen, FilesAreSeen, GapsAreSeen, AbsenceIsSeen, StartsWithCurrentEnv, At,
        FilesAreWritten, Recreates
<1>14. CASE Fails \/ Ends
  <2>1. job'.pc = "none" /\ job'.op = "none"
    BY <1>14 DEF Fails, Ends, Idle
  <2>2. QED
    BY <1>0, <2>1
    DEF RowsAreSeen, FilesAreSeen, GapsAreSeen, AbsenceIsSeen, StartsWithCurrentEnv, At,
        FilesAreWritten
<1>15. CASE UNCHANGED vars
  BY <1>0, <1>15
  DEF vars, RowsAreSeen, FilesAreSeen, GapsAreSeen, AbsenceIsSeen, StartsWithCurrentEnv, At,
      FilesAreWritten
<1>16. QED
  BY <1>1, <1>2, <1>3, <1>4, <1>5, <1>6, <1>7, <1>8, <1>9, <1>10, <1>11, <1>12, <1>13, <1>14,
     <1>15 DEF Next

\* A deploy, a rollback or a restart that ended well left the current environment live, for
\* every set of texts.
THEOREM EnvironmentIsCurrent == Spec => []StartsWithCurrentEnv
<1>1. IInv => StartsWithCurrentEnv
  BY DEF IInv
<1>2. QED
  BY <1>1, InitInvariant, InvariantIsKept, PTL DEF Spec
=============================================================================
