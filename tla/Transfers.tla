------------------------------ MODULE Transfers ------------------------------
(* Archives on their way to and from a project, in pieces: the chunked uploads *)
(* of routers/projects.py, volumes.py and backups.py, the staged downloads,    *)
(* the clients that drive them (cli/fhcli.py), what becomes of an upload (the  *)
(* project's files, its volume, an imported version), and the measured size of *)
(* the volume (services/volume_service.py).                                    *)
(*                                                                            *)
(* A transfer is one client's, under an id of its own. The archive it uploads  *)
(* is told by the transfer: each of its pieces holds the number of the         *)
(* transfer. A file is the pieces written to it; a piece never written is a    *)
(* hole, and the size is that of the last piece written.                       *)
EXTENDS Naturals, FiniteSets, FiniteSetsExt

CONSTANTS
  MaxTransfers,   \* transfers in the life of the system
  MaxChunks,      \* pieces of an archive
  MaxMeasurers,   \* du at a time
  Kinds,          \* the kinds of transfers that are made
  Faults          \* what may happen: see TransfersAssumption

Transfers == 1..MaxTransfers
Chunks == 1..MaxChunks
Measurers == 1..MaxMeasurers

Uploads == {"deploy", "restore", "import"}
Fetches == {"volume", "backup"}

ASSUME TransfersAssumption ==
  /\ MaxTransfers \in Nat /\ MaxChunks \in Nat \ {0} /\ MaxMeasurers \in Nat
  /\ Kinds \subseteq Uploads \cup Fetches
  /\ Faults \subseteq {"client",    \* a client goes away
                       "request",   \* a request is lost, or arrives again, or its answer is lost
                       "docker",    \* tar, du, stop or start fails
                       "import",    \* an import raises
                       "suspend",   \* a client pauses for longer than STAGING_TTL
                       "overlap"}   \* a restore during another, or a download during one

VARIABLES
  kind,       \* the kind of each transfer
  client,     \* where its client is
  sent,       \* the pieces it has sent: a request may still be on its way
  acked,      \* the pieces it has had an answer for
  staged,     \* the staging file of its id
  of,         \* the import a backup download reads
  got,        \* the pieces it has fetched
  expected,   \* the size it was told
  job,        \* what the server does with its upload
  tree,       \* the project's files
  volume,     \* the volume
  kept,       \* the archives imports have kept
  cache,      \* the volume's cached size is fresh
  pending,    \* the volume is in _size_pending
  measurer    \* the measurements under way

transfer == <<kind, client, sent, acked, of, got, expected>>
contents == <<tree, volume, kept>>
sizes == <<cache, pending, measurer>>
vars == <<transfer, staged, job, contents, sizes>>

Hole == 0
Original == MaxTransfers + 1     \* what the project and the volume held before
File == [Chunks -> Transfers \cup {Hole, Original}]
NoFile == [k \in Chunks |-> Hole]
All(d) == [k \in Chunks |-> d]

\* Types.
TypeOK ==
  /\ kind \in [Transfers -> Kinds \cup {"none"}]
  /\ client \in [Transfers -> {"none", "sending", "following", "fetching", "ok", "failed"}]
  /\ sent \in [Transfers -> SUBSET Chunks]
  /\ acked \in [Transfers -> SUBSET Chunks] /\ \A t \in Transfers : acked[t] \subseteq sent[t]
  /\ staged \in [Transfers -> File]
  /\ of \in [Transfers -> Transfers]
  /\ got \in [Transfers -> File]
  /\ expected \in [Transfers -> 0..MaxChunks]
  /\ job \in [Transfers -> {"none", "stop", "wipe", "extract", "start", "import"}]
  /\ tree \in File /\ volume \in File /\ kept \in [Transfers -> File]
  /\ cache \in BOOLEAN /\ pending \in BOOLEAN
  /\ measurer \in [Measurers -> {"none", "background", "waiting"}]

Init ==
  /\ kind = [t \in Transfers |-> "none"]
  /\ client = [t \in Transfers |-> "none"]
  /\ sent = [t \in Transfers |-> {}] /\ acked = [t \in Transfers |-> {}]
  /\ staged = [t \in Transfers |-> NoFile]
  /\ of = [t \in Transfers |-> t]
  /\ got = [t \in Transfers |-> NoFile]
  /\ expected = [t \in Transfers |-> 0]
  /\ job = [t \in Transfers |-> "none"]
  /\ tree = All(Original) /\ volume = All(Original)
  /\ kept = [t \in Transfers |-> NoFile]
  /\ cache = FALSE /\ pending = FALSE
  /\ measurer = [i \in Measurers |-> "none"]

----------------------------------------------------------------------------
(* Files *)

Written(f) == {k \in Chunks : f[k] # Hole}

\* Mutant: the size is the offset after the next piece.
SizePastEnd(f) == 1 + Max(Written(f) \cup {0})

Size(f) == Max(Written(f) \cup {0})
Exists(f) == f # NoFile
Whole(f) == \E d \in Transfers \cup {Original} : f = All(d)

\* A request's body, at its offset in the file that is there, or in a new one.
Piece(f, k, d) == [f EXCEPT ![k] = d]

\* A zip is opened by its last piece; a hole in a member is a bad checksum.
IsZip(f) == Whole(f)

\* A tar that starts with a hole is an empty one, and a valid one: nothing is refused here.
IsTar(f) == Exists(f)

\* The manifest is looked for from the start, to the first hole.
HasManifest(f) == f[1] # Hole

\* Nobody has written to the staging file of t for STAGING_TTL.
Expired(t) ==
  \/ client[t] \notin {"sending", "fetching"} /\ job[t] = "none"
  \/ "suspend" \in Faults

Swept(files, gone) == [t \in Transfers |-> IF t \in gone THEN NoFile ELSE files[t]]

\* Mutant: the sweep does not look at the age of a file.
SweepsAll(kinds, gone) == gone \subseteq {t \in Transfers : kind[t] \in kinds}

\* _sweep_staging of the volumes' or the backups' directory. There is none of the uploads'.
Sweeps(kinds, gone) == gone \subseteq {t \in Transfers : kind[t] \in kinds /\ Expired(t)}

Restoring == {t \in Transfers : job[t] \in {"stop", "wipe", "extract", "start"}}
Busy == \E t \in Transfers : job[t] # "none"

----------------------------------------------------------------------------
(* A client that uploads *)

Begin(t, as, state) ==
  /\ kind[t] = "none" /\ \A u \in Transfers : u < t => kind[u] # "none"
  /\ kind' = [kind EXCEPT ![t] = as]
  /\ client' = [client EXCEPT ![t] = state]

StartsUpload(t) ==
  /\ \E as \in Kinds \cap Uploads : Begin(t, as, "sending")
  /\ UNCHANGED <<sent, acked, staged, of, got, expected, job, contents, sizes>>

\* In order, or in any order and again: the routes promise to take either.
Sends(t) ==
  /\ client[t] = "sending"
  /\ \E k \in Chunks \ sent[t] :
       /\ "request" \in Faults \/ \A j \in 1..(k - 1) : j \in acked[t]
       /\ sent' = [sent EXCEPT ![t] = @ \cup {k}]
  /\ UNCHANGED <<kind, client, acked, staged, of, got, expected, job, contents, sizes>>

\* upload_chunk: also for a client that has gone, and after the upload is complete.
upload_chunk(t) ==
  /\ \E k \in sent[t] :
       /\ k \in acked[t] \/ client[t] # "sending" => "request" \in Faults
       /\ staged' = [staged EXCEPT ![t] = Piece(@, k, t)]
       /\ \/ client[t] = "sending" /\ acked' = [acked EXCEPT ![t] = @ \cup {k}]
          \/ "request" \in Faults /\ UNCHANGED acked
  /\ UNCHANGED <<kind, client, sent, of, got, expected, job, contents, sizes>>

\* The client is killed, and says nothing.
Vanishes(t) ==
  /\ "client" \in Faults
  /\ client[t] \in {"sending", "fetching", "following"}
  /\ client' = [client EXCEPT ![t] = "failed"]
  /\ UNCHANGED <<kind, sent, acked, staged, of, got, expected, job, contents, sizes>>

GivesUp(t, as, state) ==
  /\ "client" \in Faults
  /\ kind[t] = as /\ client[t] = state
  /\ client' = [client EXCEPT ![t] = "failed"]
  /\ staged' = Swept(staged, {t})
  /\ UNCHANGED <<kind, sent, acked, of, got, expected, job, contents, sizes>>

upload_abort(t) == GivesUp(t, "deploy", "sending")

----------------------------------------------------------------------------
(* Completing an upload *)

AsksToComplete(t, as) == kind[t] = as /\ client[t] = "sending" /\ acked[t] = Chunks

\* What every completion asks of the staged file first.
Complete(f) == Exists(f) /\ Size(f) = MaxChunks

Refused(t) ==
  /\ staged' = Swept(staged, {t})
  /\ client' = [client EXCEPT ![t] = "failed"]

\* upload_complete: nothing else runs while it unpacks. A zip with a hole is found out on
\* the way: the members before it are in the project's files by then.
upload_complete(t) ==
  /\ AsksToComplete(t, "deploy")
  /\ IF Complete(staged[t])
     THEN /\ tree' = [k \in Chunks |-> IF staged[t][k] # Hole THEN staged[t][k] ELSE tree[k]]
          /\ staged' = Swept(staged, {t})
          /\ client' = [client EXCEPT ![t] = IF IsZip(staged[t]) THEN "ok" ELSE "failed"]
     ELSE Refused(t) /\ UNCHANGED tree
  /\ UNCHANGED <<kind, sent, acked, of, got, expected, job, volume, kept, sizes>>

\* complete_upload: a restore of the volume, whatever else runs.
complete_upload(t) ==
  /\ AsksToComplete(t, "restore")
  /\ Restoring # {} => "overlap" \in Faults
  /\ IF Complete(staged[t]) /\ IsTar(staged[t])
     THEN /\ job' = [job EXCEPT ![t] = "stop"]
          /\ client' = [client EXCEPT ![t] = "following"]
          /\ UNCHANGED staged
     ELSE Refused(t) /\ UNCHANGED job
  /\ UNCHANGED <<kind, sent, acked, of, got, expected, contents, sizes>>

\* complete_backup_upload: swept first, and refused while the project is busy.
complete_backup_upload(t) ==
  /\ AsksToComplete(t, "import")
  /\ \E gone \in SUBSET Transfers :
       /\ Sweeps({"import"}, gone)
       /\ LET file == Swept(staged, gone)[t] IN
            IF Complete(file) /\ HasManifest(file) /\ ~Busy
            THEN /\ job' = [job EXCEPT ![t] = "import"]
                 /\ client' = [client EXCEPT ![t] = "following"]
                 /\ staged' = Swept(staged, gone)
            ELSE /\ staged' = Swept(staged, gone \cup {t})
                 /\ client' = [client EXCEPT ![t] = "failed"]
                 /\ UNCHANGED job
  /\ UNCHANGED <<kind, sent, acked, of, got, expected, contents, sizes>>

\* fhcli polls the status of the project's job until none runs.
Follows(t) ==
  /\ client[t] = "following" /\ job[t] = "none"
  /\ client' = [client EXCEPT ![t] = "ok"]
  /\ UNCHANGED <<kind, sent, acked, staged, of, got, expected, job, contents, sizes>>

----------------------------------------------------------------------------
(* The jobs *)

\* The containers are stopped, or the job ends before the volume is touched.
Stops(t) ==
  /\ job[t] = "stop"
  /\ \/ job' = [job EXCEPT ![t] = "wipe"] /\ UNCHANGED staged
     \/ /\ "docker" \in Faults
        /\ job' = [job EXCEPT ![t] = "none"] /\ staged' = Swept(staged, {t})
  /\ UNCHANGED <<contents, cache>>

Wipes(t) ==
  /\ job[t] = "wipe"
  /\ job' = [job EXCEPT ![t] = "extract"]
  /\ volume' = NoFile
  /\ UNCHANGED <<staged, tree, kept, cache>>

Forgets == cache' = FALSE

\* tar reads the staging file, to its first hole; the cached size is forgotten.
Extracts(t) ==
  /\ job[t] = "extract"
  /\ job' = [job EXCEPT ![t] = "start"]
  /\ volume' = [k \in Chunks |-> IF \A j \in 1..k : staged[t][j] # Hole
                                 THEN staged[t][k] ELSE volume[k]]
  /\ Forgets
  /\ UNCHANGED <<staged, tree, kept>>

\* The containers are started, or not; the staging file goes either way.
StartsContainers(t) ==
  /\ job[t] = "start"
  /\ job' = [job EXCEPT ![t] = "none"]
  /\ staged' = Swept(staged, {t})
  /\ UNCHANGED <<contents, cache>>

\* The archive is moved to the backups, or removed.
Imports(t) ==
  /\ job[t] = "import"
  /\ \/ kept' = [kept EXCEPT ![t] = staged[t]]
     \/ "import" \in Faults /\ UNCHANGED kept
  /\ job' = [job EXCEPT ![t] = "none"]
  /\ staged' = Swept(staged, {t})
  /\ UNCHANGED <<tree, volume, cache>>

Works(t) ==
  /\ Stops(t) \/ Wipes(t) \/ Extracts(t) \/ StartsContainers(t) \/ Imports(t)
  /\ UNCHANGED <<transfer, pending, measurer>>

----------------------------------------------------------------------------
(* A client that downloads *)

\* prepare_download: a sweep, and the volume as it is now.
prepare_download(t) ==
  /\ "volume" \in Kinds
  /\ Restoring # {} => "overlap" \in Faults
  /\ \E gone \in SUBSET Transfers :
       /\ Sweeps({"restore", "volume"}, gone)
       /\ \/ /\ Begin(t, "volume", "fetching")
             /\ staged' = [Swept(staged, gone) EXCEPT ![t] = volume]
             /\ expected' = [expected EXCEPT ![t] = Size(volume)]
          \/ /\ "docker" \in Faults
             /\ Begin(t, "volume", "failed")
             /\ staged' = Swept(staged, gone)
             /\ UNCHANGED expected
  /\ UNCHANGED <<sent, acked, of, got, job, contents, sizes>>

\* The listing tells the size of an archive that is there.
FetchesBackup(t) ==
  /\ "backup" \in Kinds
  /\ \E o \in Transfers :
       /\ Exists(kept[o])
       /\ of' = [of EXCEPT ![t] = o]
       /\ expected' = [expected EXCEPT ![t] = Size(kept[o])]
  /\ Begin(t, "backup", "fetching")
  /\ UNCHANGED <<sent, acked, staged, got, job, contents, sizes>>

\* One piece of a file, or 404 without the file, which ends the client.
Fetched(t, file) ==
  LET k == 1 + Size(got[t]) IN
    /\ client[t] = "fetching" /\ Size(got[t]) < expected[t]
    /\ \/ Exists(file) /\ got' = [got EXCEPT ![t][k] = file[k]] /\ UNCHANGED client
       \/ ~Exists(file) /\ client' = [client EXCEPT ![t] = "failed"] /\ UNCHANGED got

\* download_chunk of the volumes.
download_chunk(t) ==
  /\ kind[t] = "volume" /\ Fetched(t, staged[t])
  /\ UNCHANGED <<kind, sent, acked, staged, of, expected, job, contents, sizes>>

\* _serve_chunk of the backups.
serve_chunk(t) ==
  /\ kind[t] = "backup" /\ Fetched(t, kept[of[t]])
  /\ UNCHANGED <<kind, sent, acked, staged, of, expected, job, contents, sizes>>

HasAll(t) == client[t] = "fetching" /\ Size(got[t]) = expected[t]

\* The client gives up, and drops the staging file.
abort_download(t) == GivesUp(t, "volume", "fetching")

\* The client has every piece, and drops the staging file.
EndsVolumeFetch(t) ==
  /\ kind[t] = "volume" /\ HasAll(t)
  /\ client' = [client EXCEPT ![t] = "ok"]
  /\ staged' = Swept(staged, {t})
  /\ UNCHANGED <<kind, sent, acked, of, got, expected, job, contents, sizes>>

\* The client has as much as the listing told.
EndsBackupFetch(t) ==
  /\ kind[t] = "backup" /\ HasAll(t)
  /\ client' = [client EXCEPT ![t] = "ok"]
  /\ UNCHANGED <<kind, sent, acked, staged, of, got, expected, job, contents, sizes>>

\* DELETE of a backup, or its retention.
Deletes ==
  /\ \E o \in Transfers : Exists(kept[o]) /\ kept' = [kept EXCEPT ![o] = NoFile]
  /\ UNCHANGED <<transfer, staged, job, tree, volume, sizes>>

----------------------------------------------------------------------------
(* The size of the volume *)

Measures(how) ==
  \E i \in Measurers :
    /\ measurer[i] = "none" /\ \A j \in Measurers : j < i => measurer[j] # "none"
    /\ measurer' = [measurer EXCEPT ![i] = how]

\* volume_size, for GET /projects: on a miss a thread, unless one is pending.
AsksSize ==
  /\ ~cache /\ ~pending
  /\ pending' = TRUE
  /\ Measures("background")
  /\ UNCHANGED <<transfer, staged, job, contents, cache>>

\* volume_size, for GET /volumes: on a miss the request measures; refresh forgets first.
WaitsForSize(refresh) ==
  /\ ~cache \/ refresh
  /\ Forgets
  /\ Measures("waiting")
  /\ UNCHANGED <<transfer, staged, job, contents, pending>>

\* Mutant: the thread leaves the volume pending when du fails.
StillPendingOnFailure(ok) == pending /\ ~ok

\* _size_pending after a measurement, of the thread's or a request's, well or not.
StillPending(ok) == FALSE

Measured(i) ==
  /\ measurer[i] # "none"
  /\ measurer' = [measurer EXCEPT ![i] = "none"]
  /\ cache' = TRUE
  /\ \E ok \in {TRUE} \cup {"docker" \notin Faults} : pending' = StillPending(ok)
  /\ UNCHANGED <<transfer, staged, job, contents>>

\* SIZE_CACHE_TTL.
Expires ==
  /\ cache /\ cache' = FALSE
  /\ UNCHANGED <<transfer, staged, job, contents, pending, measurer>>

----------------------------------------------------------------------------

TransferStep(t) ==
  \/ StartsUpload(t) \/ Sends(t) \/ upload_chunk(t) \/ Vanishes(t) \/ upload_abort(t)
  \/ upload_complete(t) \/ complete_upload(t) \/ complete_backup_upload(t) \/ Follows(t)
  \/ Works(t)
  \/ prepare_download(t) \/ download_chunk(t) \/ abort_download(t) \/ EndsVolumeFetch(t)
  \/ FetchesBackup(t) \/ serve_chunk(t) \/ EndsBackupFetch(t)

Next ==
  \/ \E t \in Transfers : TransferStep(t)
  \/ Deletes
  \/ AsksSize \/ Expires
  \/ \E refresh \in BOOLEAN : WaitsForSize(refresh)
  \/ \E i \in Measurers : Measured(i)

Spec == Init /\ [][Next]_vars

\* du is killed after SIZE_TIMEOUT.
FairSpec == Spec /\ \A i \in Measurers : WF_vars(Measured(i))

----------------------------------------------------------------------------
(* Properties *)

\* Whatever is lost, repeated or late, and whoever else uploads, sweeps, restores or deletes:
\* the project's files, the volume and the archives an import keeps are each one client's
\* archive from the first piece to the last, and so is what a client has fetched that was
\* not told of a failure. The volume is empty only while a job is about to fill it.
ArchivesArriveWhole ==
  /\ Whole(tree)
  /\ Whole(volume) \/ (volume = NoFile /\ \E t \in Transfers : job[t] = "extract")
  /\ \A t \in Transfers : Exists(kept[t]) => kept[t] = All(t)
  /\ \A t \in Transfers : kind[t] \in Fetches /\ client[t] = "ok" => Whole(got[t])

\* A size the UI shows as pending is measured in the end: no failure of du, and no request
\* that measures at the same time, leaves the volume pending without a thread.
SizesGetMeasured == pending ~> ~pending
=============================================================================
