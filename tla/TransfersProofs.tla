--------------------------- MODULE TransfersProofs ---------------------------
(* Proofs about Transfers, for any number of transfers, pieces and measurers. *)
EXTENDS Transfers, NumberLemmas, TLAPS

Beginning(d, n) == [k \in Chunks |-> IF k <= n THEN d ELSE Hole]

\* What has not begun has left nothing.
NothingBefore(t) ==
  kind[t] = "none" => client[t] = "none" /\ job[t] = "none" /\ staged[t] = NoFile
                      /\ got[t] = NoFile

\* Only a client that uploads sends, and only its own archive is in its staging file.
OwnPieces(t) ==
  /\ sent[t] # {} => kind[t] \in Uploads
  /\ kind[t] \in Uploads => \A k \in Chunks : staged[t][k] \in {Hole, t}

\* A piece that was answered is there until the client completes the upload or gives up, ...
AnsweredPieces(t) ==
  /\ client[t] \in {"sending", "following"} => kind[t] \in Uploads
  /\ client[t] = "sending" => job[t] = "none" /\ \A k \in acked[t] : staged[t][k] = t

\* ... and a job has the whole archive.
JobHasAll(t) == job[t] # "none" => kind[t] \in Uploads /\ staged[t] = All(t)

\* What a client has fetched is the beginning of one archive, that it was told the size of.
FetchesOne(t) ==
  client[t] = "fetching" =>
    /\ kind[t] \in Fetches /\ job[t] = "none" /\ expected[t] = MaxChunks
    /\ \E d \in Transfers \cup {Original} :
         /\ \E n \in 0..MaxChunks : got[t] = Beginning(d, n)
         /\ IF kind[t] = "volume" THEN staged[t] = All(d) ELSE d = of[t]

FetchedWhole(t) == kind[t] \in Fetches /\ client[t] = "ok" => Whole(got[t])

Carried(t) ==
  /\ NothingBefore(t) /\ OwnPieces(t) /\ AnsweredPieces(t) /\ JobHasAll(t) /\ FetchesOne(t)
  /\ FetchedWhole(t)

ContentsWhole ==
  /\ Whole(tree)
  /\ Whole(volume) \/ (volume = NoFile /\ \E t \in Transfers : job[t] = "extract")
  /\ \A t \in Transfers : Exists(kept[t]) => kept[t] = All(t)

IInv == TypeOK /\ ContentsWhole /\ \A t \in Transfers : Carried(t)

----------------------------------------------------------------------------
(* Sizes *)

\* The size of a file is the number of its last piece.
LEMMA SizeIsLast ==
  ASSUME NEW f \in File
  PROVE  /\ Size(f) \in 0..MaxChunks
         /\ Size(f) # 0 => f[Size(f)] # Hole
         /\ \A k \in Chunks : f[k] # Hole => k <= Size(f)
<1>1. Written(f) \cup {0} \subseteq 0..MaxChunks /\ MaxChunks \in Nat
  BY TransfersAssumption DEF Written, Chunks
<1>2. /\ Size(f) \in Written(f) \cup {0}
      /\ \A x \in Written(f) \cup {0} : x <= Size(f)
  BY <1>1, MaxIsGreatest DEF Size
<1>3. QED
  BY <1>1, <1>2 DEF Written

LEMMA WholeSize ==
  ASSUME NEW d \in Transfers \cup {Original}
  PROVE  All(d) \in File /\ Size(All(d)) = MaxChunks
<1>1. d # Hole /\ All(d) \in File
  BY TransfersAssumption DEF All, File, Hole, Original, Transfers
<1>2. MaxChunks \in Chunks /\ All(d)[MaxChunks] = d
  BY TransfersAssumption DEF Chunks, All
<1>3. QED
  BY <1>1, <1>2, SizeIsLast, TransfersAssumption DEF Chunks

LEMMA BeginningSize ==
  ASSUME NEW d \in Transfers \cup {Original}, NEW n \in 0..MaxChunks
  PROVE  Size(Beginning(d, n)) = n
<1>1. d # Hole /\ Beginning(d, n) \in File
  BY TransfersAssumption DEF Beginning, File, Hole, Original, Transfers
<1>2. n # 0 => n \in Chunks /\ Beginning(d, n)[n] = d
  BY TransfersAssumption DEF Chunks, Beginning
<1>3. \A k \in Chunks : Beginning(d, n)[k] # Hole => k <= n
  BY DEF Beginning
<1>4. n <= Size(Beginning(d, n))
  BY <1>1, <1>2, SizeIsLast
<1>5. Size(Beginning(d, n)) <= n
  <2>1. Size(Beginning(d, n)) = 0 \/ Size(Beginning(d, n)) \in Chunks
    BY <1>1, SizeIsLast, TransfersAssumption DEF Chunks
  <2>2. QED
    BY <1>1, <1>3, <2>1, SizeIsLast
<1>6. QED
  BY <1>1, <1>4, <1>5, SizeIsLast, TransfersAssumption

----------------------------------------------------------------------------
(* Types *)

LEMMA FilesTyped ==
  /\ Hole \notin Transfers /\ Original \notin Transfers /\ Hole # Original
  /\ NoFile \in File
  /\ \A d \in Transfers \cup {Original, Hole} : All(d) \in File
  /\ \A f \in File, k \in Chunks, d \in Transfers \cup {Original, Hole} : Piece(f, k, d) \in File
BY TransfersAssumption DEF Hole, Original, Transfers, NoFile, File, All, Piece

LEMMA SweptTyped ==
  ASSUME NEW files \in [Transfers -> File], NEW gone
  PROVE  Swept(files, gone) \in [Transfers -> File]
BY FilesTyped DEF Swept

LEMMA InitTypes == Init => TypeOK
<1>1. All(Original) \in File /\ NoFile \in File
  BY FilesTyped
<1>2. 0 \in 0..MaxChunks
  BY TransfersAssumption
<1>3. SUFFICES ASSUME Init PROVE TypeOK
  OBVIOUS
<1>4. /\ kind \in [Transfers -> Kinds \cup {"none"}]
      /\ client \in [Transfers -> {"none", "sending", "following", "fetching", "ok", "failed"}]
      /\ sent \in [Transfers -> SUBSET Chunks] /\ acked \in [Transfers -> SUBSET Chunks]
      /\ \A t \in Transfers : acked[t] \subseteq sent[t]
      /\ job \in [Transfers -> {"none", "stop", "wipe", "extract", "start", "import"}]
  BY <1>3 DEF Init
<1>5. /\ staged \in [Transfers -> File] /\ got \in [Transfers -> File]
      /\ kept \in [Transfers -> File] /\ tree \in File /\ volume \in File
  BY <1>1, <1>3 DEF Init
<1>6. of \in [Transfers -> Transfers] /\ expected \in [Transfers -> 0..MaxChunks]
  BY <1>2, <1>3 DEF Init
<1>7. /\ cache \in BOOLEAN /\ pending \in BOOLEAN
      /\ measurer \in [Measurers -> {"none", "background", "waiting"}]
  BY <1>3 DEF Init
<1>8. QED
  BY <1>4, <1>5, <1>6, <1>7 DEF TypeOK

LEMMA StepTypes ==
  ASSUME TypeOK, NEW t \in Transfers, TransferStep(t)
  PROVE  TypeOK'
<1> USE DEF TypeOK
<1>1. CASE StartsUpload(t)
  <2>1. PICK as \in Kinds \cap Uploads : Begin(t, as, "sending")
    BY <1>1 DEF StartsUpload
  <2>2. kind' \in [Transfers -> Kinds \cup {"none"}] /\ client' = [client EXCEPT ![t] = "sending"]
    BY <2>1 DEF Begin
  <2>3. QED
    BY <1>1, <2>2 DEF StartsUpload, contents, sizes
<1>2. CASE Sends(t)
  BY <1>2 DEF Sends, contents, sizes
<1>3. CASE upload_chunk(t)
  <2>1. PICK k \in Chunks :
          /\ k \in sent[t] /\ staged' = [staged EXCEPT ![t] = Piece(@, k, t)]
          /\ acked' = [acked EXCEPT ![t] = @ \cup {k}] \/ UNCHANGED acked
    BY <1>3 DEF upload_chunk
  <2>2. Piece(staged[t], k, t) \in File
    BY FilesTyped
  <2>3. QED
    BY <1>3, <2>1, <2>2 DEF upload_chunk, contents, sizes
<1>4. CASE Vanishes(t)
  BY <1>4 DEF Vanishes, contents, sizes
<1>5. CASE upload_abort(t) \/ abort_download(t)
  BY <1>5, SweptTyped DEF upload_abort, abort_download, GivesUp, contents, sizes
<1>6. CASE upload_complete(t)
  <2>1. tree' \in File
    <3>1. \A k \in Chunks : staged[t][k] \in Transfers \cup {Hole, Original}
                            /\ tree[k] \in Transfers \cup {Hole, Original}
      BY DEF File
    <3> DEFINE unpacked == [k \in Chunks |-> IF staged[t][k] # Hole THEN staged[t][k] ELSE tree[k]]
    <3>0. unpacked \in File
      BY <3>1 DEF File
    <3>2. CASE Complete(staged[t])
      <4>1. tree' = unpacked
        BY <1>6, <3>2 DEF upload_complete
      <4>2. QED
        BY <3>0, <4>1
    <3>3. CASE ~Complete(staged[t])
      BY <1>6, <3>3 DEF upload_complete
    <3>4. QED
      BY <3>2, <3>3
  <2>2. staged' = Swept(staged, {t}) /\ client' \in {[client EXCEPT ![t] = "ok"], [client EXCEPT ![t] = "failed"]}
    BY <1>6 DEF upload_complete, Refused
  <2>3. QED
    BY <1>6, <2>1, <2>2, SweptTyped DEF upload_complete, sizes
<1>7. CASE complete_upload(t)
  BY <1>7, SweptTyped DEF complete_upload, Refused, contents, sizes
<1>8. CASE complete_backup_upload(t)
  BY <1>8, SweptTyped DEF complete_backup_upload, contents, sizes
<1>9. CASE Follows(t)
  BY <1>9 DEF Follows, contents, sizes
<1>10. CASE Works(t)
  <2>1. CASE Stops(t)
    BY <1>10, <2>1, SweptTyped DEF Works, Stops, transfer, contents
  <2>2. CASE Wipes(t)
    BY <1>10, <2>2, FilesTyped DEF Works, Wipes, transfer
  <2>3. CASE Extracts(t)
    <3>1. \A k \in Chunks : staged[t][k] \in Transfers \cup {Hole, Original}
                            /\ volume[k] \in Transfers \cup {Hole, Original}
      BY DEF File
    <3>2. volume' \in File
      BY <2>3, <3>1 DEF Extracts, File
    <3>3. QED
      BY <1>10, <2>3, <3>2 DEF Works, Extracts, Forgets, transfer
  <2>4. CASE StartsContainers(t)
    BY <1>10, <2>4, SweptTyped DEF Works, StartsContainers, transfer, contents
  <2>5. CASE Imports(t)
    BY <1>10, <2>5, SweptTyped DEF Works, Imports, transfer
  <2>6. QED
    BY <1>10, <2>1, <2>2, <2>3, <2>4, <2>5 DEF Works
<1>11. CASE prepare_download(t)
  <2>1. PICK gone \in SUBSET Transfers :
          \/ /\ Begin(t, "volume", "fetching")
             /\ staged' = [Swept(staged, gone) EXCEPT ![t] = volume]
             /\ expected' = [expected EXCEPT ![t] = Size(volume)]
          \/ /\ Begin(t, "volume", "failed")
             /\ staged' = Swept(staged, gone)
             /\ UNCHANGED expected
    BY <1>11 DEF prepare_download
  <2>2. Swept(staged, gone) \in [Transfers -> File] /\ Size(volume) \in 0..MaxChunks
    BY SweptTyped, SizeIsLast
  <2>3. "volume" \in Kinds
    BY <1>11 DEF prepare_download
  <2>4. QED
    BY <1>11, <2>1, <2>2, <2>3 DEF prepare_download, Begin, contents, sizes
<1>12. CASE FetchesBackup(t)
  BY <1>12, SizeIsLast DEF FetchesBackup, Begin, contents, sizes
<1>13. CASE download_chunk(t) \/ serve_chunk(t)
  <2>1. PICK file \in File : Fetched(t, file)
    BY <1>13 DEF download_chunk, serve_chunk
  <2>2. got' \in [Transfers -> File]
    <3>1. Size(got[t]) \in 0..MaxChunks
      BY SizeIsLast
    <3>2. 1 + Size(got[t]) \in Chunks
      BY <2>1, <3>1, TransfersAssumption DEF Fetched, Chunks
    <3>3. \A k \in Chunks : file[k] \in Transfers \cup {Hole, Original}
      BY DEF File
    <3> DEFINE more == [got[t] EXCEPT ![1 + Size(got[t])] = file[1 + Size(got[t])]]
    <3>4. more \in File
      BY <3>2, <3>3 DEF File
    <3>5. UNCHANGED got \/ got' = [got EXCEPT ![t] = more]
      BY <2>1 DEF Fetched
    <3>6. got \in [Transfers -> File]
      OBVIOUS
    <3> HIDE DEF more, TypeOK
    <3>7. CASE UNCHANGED got
      BY <3>6, <3>7
    <3>8. CASE got' = [got EXCEPT ![t] = more]
      BY <3>4, <3>6, <3>8
    <3>9. QED
      BY <3>5, <3>7, <3>8
  <2>3. client' = client \/ client' = [client EXCEPT ![t] = "failed"]
    BY <2>1 DEF Fetched
  <2>4. QED
    BY <1>13, <2>2, <2>3 DEF download_chunk, serve_chunk, contents, sizes
<1>14. CASE EndsVolumeFetch(t) \/ EndsBackupFetch(t)
  BY <1>14, SweptTyped DEF EndsVolumeFetch, EndsBackupFetch, contents, sizes
<1>15. QED
  BY <1>1, <1>2, <1>3, <1>4, <1>5, <1>6, <1>7, <1>8, <1>9, <1>10, <1>11, <1>12, <1>13, <1>14
  DEF TransferStep

LEMMA TypesAreKept == ASSUME TypeOK, [Next]_vars PROVE TypeOK'
<1>1. CASE \E t \in Transfers : TransferStep(t)
  BY <1>1, StepTypes
<1>2. CASE Deletes
  BY <1>2, FilesTyped DEF TypeOK, Deletes, transfer, sizes
<1>3. CASE AsksSize
  BY <1>3 DEF TypeOK, AsksSize, Measures, transfer, contents
<1>4. CASE Expires
  BY <1>4 DEF TypeOK, Expires, transfer, contents
<1>5. CASE \E refresh \in BOOLEAN : WaitsForSize(refresh)
  BY <1>5 DEF TypeOK, WaitsForSize, Forgets, Measures, transfer, contents
<1>6. CASE \E i \in Measurers : Measured(i)
  BY <1>6 DEF TypeOK, Measured, StillPending, transfer, contents
<1>7. CASE UNCHANGED vars
  BY <1>7 DEF TypeOK, vars, transfer, contents, sizes
<1>8. QED
  BY <1>1, <1>2, <1>3, <1>4, <1>5, <1>6, <1>7 DEF Next

\* Types, for any number of clients, pieces and measurers, and whatever fails.
THEOREM TypeCorrect == Spec => []TypeOK
BY InitTypes, TypesAreKept, PTL DEF Spec


----------------------------------------------------------------------------
(* The invariant *)

\* A transfer whose own state stays, with its file or with one nobody has a use for.
Stays(u) ==
  /\ kind'[u] = kind[u] /\ client'[u] = client[u] /\ sent'[u] = sent[u] /\ acked'[u] = acked[u]
  /\ of'[u] = of[u] /\ got'[u] = got[u] /\ expected'[u] = expected[u] /\ job'[u] = job[u]
  /\ \/ staged'[u] = staged[u]
     \/ staged'[u] = NoFile /\ client[u] \notin {"sending", "fetching"} /\ job[u] = "none"

LEMMA StaysCarried ==
  ASSUME NEW u \in Transfers, Carried(u), Stays(u)
  PROVE  Carried(u)'
<1> USE DEF Carried, Stays
<1>1. NothingBefore(u)'
  BY DEF NothingBefore
<1>2. OwnPieces(u)'
  <2>1. \A k \in Chunks : NoFile[k] = Hole
    BY DEF NoFile
  <2>2. staged[u]' = staged[u] \/ staged[u]' = NoFile
    OBVIOUS
  <2> HIDE DEF NoFile
  <2>3. QED
    BY <2>1, <2>2 DEF OwnPieces
<1>3. AnsweredPieces(u)'
  BY DEF AnsweredPieces
<1>4. JobHasAll(u)'
  BY DEF JobHasAll
<1>5. FetchesOne(u)'
  BY DEF FetchesOne
<1>6. FetchedWhole(u)'
  BY DEF FetchedWhole
<1>7. QED
  BY <1>1, <1>2, <1>3, <1>4, <1>5, <1>6

\* No sweep takes the file of a client that is at work, or of a job.
LEMMA SweptStays ==
  ASSUME "suspend" \notin Faults, NEW kinds, NEW gone \in SUBSET Transfers, Sweeps(kinds, gone),
         NEW u \in Transfers
  PROVE  \/ u \notin gone /\ Swept(staged, gone)[u] = staged[u]
         \/ /\ Swept(staged, gone)[u] = NoFile
            /\ client[u] \notin {"sending", "fetching"} /\ job[u] = "none"
BY DEF Sweeps, Expired, Swept

\* What a step does to the other transfers.
LEMMA OthersStay ==
  ASSUME TypeOK, "suspend" \notin Faults, NEW t \in Transfers, TransferStep(t),
         NEW u \in Transfers, u # t
  PROVE  Stays(u)
<1> USE DEF TypeOK, Stays
<1>1. CASE StartsUpload(t)
  BY <1>1 DEF StartsUpload, Begin
<1>2. CASE Sends(t) \/ Vanishes(t) \/ Follows(t)
  BY <1>2 DEF Sends, Vanishes, Follows
<1>3. CASE upload_chunk(t)
  BY <1>3 DEF upload_chunk
<1>4. CASE upload_abort(t) \/ abort_download(t)
  BY <1>4 DEF upload_abort, abort_download, GivesUp, Swept
<1>5. CASE upload_complete(t)
  BY <1>5 DEF upload_complete, Refused, Swept
<1>6. CASE complete_upload(t)
  BY <1>6 DEF complete_upload, Refused, Swept
<1>7. CASE complete_backup_upload(t)
  <2>1. PICK gone \in SUBSET Transfers :
          /\ Sweeps({"import"}, gone)
          /\ staged' \in {Swept(staged, gone), Swept(staged, gone \cup {t})}
    BY <1>7 DEF complete_backup_upload
  <2>2. staged'[u] = Swept(staged, gone)[u]
    BY <2>1 DEF Swept
  <2>3. QED
    BY <1>7, <2>1, <2>2, SweptStays DEF complete_backup_upload
<1>8. CASE Works(t)
  BY <1>8 DEF Works, Stops, Wipes, Extracts, StartsContainers, Imports, Swept, transfer
<1>9. CASE prepare_download(t)
  <2>1. PICK gone \in SUBSET Transfers :
          /\ Sweeps({"restore", "volume"}, gone)
          /\ staged' \in {Swept(staged, gone), [Swept(staged, gone) EXCEPT ![t] = volume]}
    BY <1>9 DEF prepare_download
  <2>2. staged'[u] = Swept(staged, gone)[u]
    BY <2>1 DEF Swept
  <2>3. QED
    BY <1>9, <2>1, <2>2, SweptStays DEF prepare_download, Begin
<1>10. CASE FetchesBackup(t)
  BY <1>10 DEF FetchesBackup, Begin
<1>11. CASE download_chunk(t) \/ serve_chunk(t)
  BY <1>11 DEF download_chunk, serve_chunk, Fetched
<1>12. CASE EndsVolumeFetch(t) \/ EndsBackupFetch(t)
  BY <1>12 DEF EndsVolumeFetch, EndsBackupFetch, Swept
<1>13. QED
  BY <1>1, <1>2, <1>3, <1>4, <1>5, <1>6, <1>7, <1>8, <1>9, <1>10, <1>11, <1>12 DEF TransferStep

LEMMA ContentsAreKept ==
  ASSUME IInv, NEW t \in Transfers, TransferStep(t)
  PROVE  ContentsWhole'
<1> USE DEF IInv, TypeOK
<1>1. t # Hole /\ \A k \in Chunks : All(t)[k] = t
  BY FilesTyped DEF All
<1>2. /\ Carried(t)
      /\ Whole(tree)
      /\ Whole(volume) \/ (volume = NoFile /\ \E u \in Transfers : job[u] = "extract")
      /\ \A u \in Transfers : Exists(kept[u]) => kept[u] = All(u)
  BY DEF ContentsWhole
<1>3. CASE upload_complete(t)
  <2>1. \A k \in Chunks : staged[t][k] = t
    BY <1>2, <1>3 DEF upload_complete, AsksToComplete, Carried, AnsweredPieces
  <2>2. tree' = tree \/ tree' = All(t)
    <3>1. CASE Complete(staged[t])
      BY <1>1, <1>3, <2>1, <3>1 DEF upload_complete, All
    <3>2. CASE ~Complete(staged[t])
      BY <1>3, <3>2 DEF upload_complete
    <3>3. QED
      BY <3>1, <3>2
  <2>3. Whole(tree')
    BY <1>2, <2>2 DEF Whole
  <2>4. UNCHANGED <<volume, kept, job>>
    BY <1>3 DEF upload_complete
  <2>5. QED
    BY <1>2, <2>3, <2>4 DEF ContentsWhole
<1>4. CASE Works(t)
  <2>1. CASE Stops(t)
    <3>1. UNCHANGED <<tree, volume, kept>> /\ \A u \in Transfers : job[u] = "extract" => job'[u] = "extract"
      BY <2>1 DEF Stops, contents
    <3>2. QED
      BY <1>2, <3>1 DEF ContentsWhole
  <2>2. CASE Wipes(t)
    <3>1. UNCHANGED <<tree, kept>> /\ volume' = NoFile /\ job'[t] = "extract"
      BY <2>2 DEF Wipes
    <3>2. QED
      BY <1>2, <3>1 DEF ContentsWhole
  <2>3. CASE Extracts(t)
    <3>1. staged[t] = All(t)
      BY <1>2, <2>3 DEF Extracts, Carried, JobHasAll
    <3>2. \A k \in Chunks : \A j \in 1..k : j \in Chunks
      BY TransfersAssumption DEF Chunks
    <3>3. \A k \in Chunks : staged[t][k] = t /\ \A j \in 1..k : staged[t][j] # Hole
      BY <1>1, <3>1, <3>2
    <3>4. volume' = All(t)
      BY <2>3, <3>3 DEF Extracts, All
    <3>5. UNCHANGED <<tree, kept>> /\ Whole(volume')
      BY <2>3, <3>4 DEF Extracts, Whole
    <3>6. QED
      BY <1>2, <3>5 DEF ContentsWhole
  <2>4. CASE StartsContainers(t)
    <3>1. UNCHANGED <<tree, volume, kept>> /\ \A u \in Transfers : job[u] = "extract" => job'[u] = "extract"
      BY <2>4 DEF StartsContainers, contents
    <3>2. QED
      BY <1>2, <3>1 DEF ContentsWhole
  <2>5. CASE Imports(t)
    <3>1. staged[t] = All(t)
      BY <1>2, <2>5 DEF Imports, Carried, JobHasAll
    <3>2. UNCHANGED <<tree, volume>> /\ \A u \in Transfers : job[u] = "extract" => job'[u] = "extract"
      BY <2>5 DEF Imports
    <3>3. \A u \in Transfers : kept'[u] = kept[u] \/ (u = t /\ kept'[u] = All(t))
      BY <2>5, <3>1 DEF Imports
    <3>4. QED
      BY <1>2, <3>2, <3>3 DEF ContentsWhole
  <2>6. QED
    BY <1>4, <2>1, <2>2, <2>3, <2>4, <2>5 DEF Works
<1>5. CASE \/ StartsUpload(t) \/ Sends(t) \/ upload_chunk(t) \/ Vanishes(t) \/ upload_abort(t)
           \/ complete_upload(t) \/ complete_backup_upload(t) \/ Follows(t)
           \/ prepare_download(t) \/ download_chunk(t) \/ abort_download(t) \/ EndsVolumeFetch(t)
           \/ FetchesBackup(t) \/ serve_chunk(t) \/ EndsBackupFetch(t)
  <2>1. UNCHANGED <<tree, volume, kept>>
    BY <1>5 DEF StartsUpload, Sends, upload_chunk, Vanishes, upload_abort, GivesUp, complete_upload,
                complete_backup_upload, Follows, prepare_download, download_chunk, abort_download,
                EndsVolumeFetch, FetchesBackup, serve_chunk, EndsBackupFetch, contents
  <2>2. UNCHANGED job \/ job' = [job EXCEPT ![t] = "stop"] \/ job' = [job EXCEPT ![t] = "import"]
    BY <1>5 DEF StartsUpload, Sends, upload_chunk, Vanishes, upload_abort, GivesUp, complete_upload,
                complete_backup_upload, Follows, prepare_download, download_chunk, abort_download,
                EndsVolumeFetch, FetchesBackup, serve_chunk, EndsBackupFetch
  <2>3. UNCHANGED job \/ client[t] = "sending"
    BY <1>5 DEF StartsUpload, Sends, upload_chunk, Vanishes, upload_abort, GivesUp, complete_upload,
                complete_backup_upload, Follows, prepare_download, download_chunk, abort_download,
                EndsVolumeFetch, FetchesBackup, serve_chunk, EndsBackupFetch, AsksToComplete
  <2>4. \A u \in Transfers : job[u] = "extract" => job'[u] = "extract"
    <3>1. client[t] = "sending" => job[t] = "none"
      BY <1>2 DEF Carried, AnsweredPieces
    <3>2. QED
      BY <2>2, <2>3, <3>1
  <2>5. QED
    BY <1>2, <2>1, <2>4 DEF ContentsWhole
<1>6. QED
  BY <1>3, <1>4, <1>5 DEF TransferStep

\* What a step does to its own transfer.
LEMMA OwnIsKept ==
  ASSUME IInv, Faults \cap {"suspend", "overlap"} = {}, NEW t \in Transfers, TransferStep(t)
  PROVE  Carried(t)'
<1> USE DEF Carried
<1> DEFINE Parts == /\ NothingBefore(t)' /\ OwnPieces(t)' /\ AnsweredPieces(t)' /\ JobHasAll(t)'
                    /\ FetchesOne(t)' /\ FetchedWhole(t)'
<1>0. SUFFICES Parts
  OBVIOUS
<1>a. /\ NothingBefore(t) /\ OwnPieces(t) /\ AnsweredPieces(t) /\ JobHasAll(t)
      /\ FetchesOne(t) /\ FetchedWhole(t)
  BY DEF IInv
<1>b. TypeOK
  BY DEF IInv
<1>c. /\ t # Hole /\ \A k \in Chunks : All(t)[k] = t /\ NoFile[k] = Hole
      /\ \A k \in Chunks : Hole \in {Hole, t}
  BY FilesTyped DEF All, NoFile
<1>d. /\ "none" \notin Uploads /\ "none" \notin Fetches /\ "none" \notin Kinds
      /\ Uploads \cap Fetches = {} /\ Kinds \subseteq Uploads \cup Fetches
  BY TransfersAssumption DEF Uploads, Fetches
<1>e. (\A k \in Chunks : staged[t][k] = t) => staged[t] = All(t)
  BY <1>b DEF TypeOK, File, All
<1>1. CASE StartsUpload(t)
  <2>1. /\ kind[t] = "none" /\ kind'[t] \in Uploads /\ client'[t] = "sending"
        /\ UNCHANGED <<sent, acked, staged, got, job>>
    BY <1>1, <1>b DEF StartsUpload, Begin, TypeOK
  <2>2. acked[t] = {}
    BY <1>a, <1>b, <1>d, <2>1 DEF OwnPieces, TypeOK
  <2>3. QED
    BY <1>a, <1>c, <1>d, <2>1, <2>2
    DEF NothingBefore, OwnPieces, AnsweredPieces, JobHasAll, FetchesOne, FetchedWhole
<1>2. CASE Sends(t)
  <2>1. /\ client[t] = "sending" /\ UNCHANGED <<kind, client, acked, staged, of, got, expected, job>>
    BY <1>2 DEF Sends
  <2>2. QED
    BY <1>a, <2>1
    DEF NothingBefore, OwnPieces, AnsweredPieces, JobHasAll, FetchesOne, FetchedWhole
<1>3. CASE upload_chunk(t)
  <2>1. PICK k \in Chunks :
          /\ k \in sent[t] /\ staged' = [staged EXCEPT ![t] = Piece(@, k, t)]
          /\ acked' = [acked EXCEPT ![t] = @ \cup {k}] \/ UNCHANGED acked
    BY <1>3, <1>b DEF upload_chunk, TypeOK
  <2>2. UNCHANGED <<kind, client, sent, of, got, expected, job>> /\ kind[t] \in Uploads
    BY <1>3, <1>a, <2>1 DEF upload_chunk, OwnPieces
  <2>3. staged'[t] = [staged[t] EXCEPT ![k] = t]
    BY <1>b, <2>1 DEF TypeOK, Piece
  <2>4. staged[t] \in File
    BY <1>b DEF TypeOK
  <2>5. \A j \in Chunks : staged'[t][j] = IF j = k THEN t ELSE staged[t][j]
    BY <2>3, <2>4 DEF File
  <2>6. staged[t] = All(t) => staged'[t] = All(t)
    BY <2>3, <2>4 DEF File, All
  <2>7. acked'[t] \subseteq acked[t] \cup {k} /\ acked[t] \subseteq Chunks
    BY <1>b, <2>1 DEF TypeOK
  <2>8. AnsweredPieces(t)'
    BY <1>a, <2>2, <2>5, <2>7 DEF AnsweredPieces
  <2>9. QED
    BY <1>a, <1>d, <2>2, <2>5, <2>6, <2>8
    DEF NothingBefore, OwnPieces, JobHasAll, FetchesOne, FetchedWhole
<1>4. CASE Vanishes(t)
  <2>1. /\ client[t] \in {"sending", "fetching", "following"} /\ client'[t] = "failed"
        /\ UNCHANGED <<kind, sent, acked, staged, of, got, expected, job>>
    BY <1>4, <1>b DEF Vanishes, TypeOK
  <2>2. QED
    BY <1>a, <2>1
    DEF NothingBefore, OwnPieces, AnsweredPieces, JobHasAll, FetchesOne, FetchedWhole
<1>5. CASE upload_abort(t) \/ abort_download(t)
  <2>1. /\ client[t] \in {"sending", "fetching"} /\ client'[t] = "failed" /\ staged'[t] = NoFile
        /\ UNCHANGED <<kind, sent, acked, of, got, expected, job>>
    BY <1>5, <1>b DEF upload_abort, abort_download, GivesUp, Swept, TypeOK
  <2>2. QED
    BY <1>a, <1>c, <2>1
    DEF NothingBefore, OwnPieces, AnsweredPieces, JobHasAll, FetchesOne, FetchedWhole
<1>6. CASE upload_complete(t)
  <2>1. /\ client[t] = "sending" /\ client'[t] \in {"ok", "failed"} /\ staged'[t] = NoFile
        /\ kind[t] = "deploy" /\ UNCHANGED <<kind, sent, acked, of, got, expected, job>>
    BY <1>6, <1>b DEF upload_complete, AsksToComplete, Refused, Swept, TypeOK
  <2>2. QED
    BY <1>a, <1>c, <1>d, <2>1
    DEF NothingBefore, OwnPieces, AnsweredPieces, JobHasAll, FetchesOne, FetchedWhole, Uploads
<1>7. CASE complete_upload(t)
  <2>1. /\ client[t] = "sending" /\ kind[t] = "restore" /\ acked[t] = Chunks
        /\ UNCHANGED <<kind, sent, acked, of, got, expected>>
        /\ \/ job'[t] = "stop" /\ client'[t] = "following" /\ UNCHANGED staged
           \/ client'[t] = "failed" /\ staged'[t] = NoFile /\ UNCHANGED job
    BY <1>7, <1>b DEF complete_upload, AsksToComplete, Refused, Swept, TypeOK
  <2>2. staged[t] = All(t) /\ kind[t] \in Uploads /\ job[t] = "none"
    BY <1>a, <1>e, <2>1 DEF AnsweredPieces, Uploads
  <2>3. QED
    BY <1>a, <1>c, <1>d, <2>1, <2>2
    DEF NothingBefore, OwnPieces, AnsweredPieces, JobHasAll, FetchesOne, FetchedWhole
<1>8. CASE complete_backup_upload(t)
  <2>1. PICK gone \in SUBSET Transfers :
          /\ Sweeps({"import"}, gone)
          /\ \/ /\ job' = [job EXCEPT ![t] = "import"]
                /\ client' = [client EXCEPT ![t] = "following"]
                /\ staged' = Swept(staged, gone)
             \/ /\ staged' = Swept(staged, gone \cup {t})
                /\ client' = [client EXCEPT ![t] = "failed"]
                /\ UNCHANGED job
    BY <1>8 DEF complete_backup_upload
  <2>2. /\ client[t] = "sending" /\ kind[t] = "import" /\ acked[t] = Chunks
        /\ UNCHANGED <<kind, sent, acked, of, got, expected>>
    BY <1>8 DEF complete_backup_upload, AsksToComplete
  <2>3. t \notin gone
    BY <2>1, <2>2 DEF Sweeps, Expired
  <2>4. /\ staged[t] = All(t) /\ kind[t] \in Uploads /\ job[t] = "none"
    BY <1>a, <1>e, <2>2 DEF AnsweredPieces, Uploads
  <2>5. \/ job'[t] = "import" /\ client'[t] = "following" /\ staged'[t] = All(t)
        \/ client'[t] = "failed" /\ staged'[t] = NoFile /\ job'[t] = "none"
    BY <1>b, <2>1, <2>3, <2>4 DEF TypeOK, Swept
  <2>6. QED
    BY <1>a, <1>c, <1>d, <2>2, <2>4, <2>5
    DEF NothingBefore, OwnPieces, AnsweredPieces, JobHasAll, FetchesOne, FetchedWhole
<1>9. CASE Follows(t)
  <2>1. /\ client[t] = "following" /\ client'[t] = "ok" /\ job[t] = "none"
        /\ UNCHANGED <<kind, sent, acked, staged, of, got, expected, job>>
    BY <1>9, <1>b DEF Follows, TypeOK
  <2>2. QED
    BY <1>a, <1>d, <2>1
    DEF NothingBefore, OwnPieces, AnsweredPieces, JobHasAll, FetchesOne, FetchedWhole
<1>10. CASE Works(t)
  <2>1. /\ job[t] # "none" /\ UNCHANGED <<kind, client, sent, acked, of, got, expected>>
        /\ \/ UNCHANGED staged
           \/ job'[t] = "none" /\ staged'[t] = NoFile
    BY <1>10, <1>b DEF Works, Stops, Wipes, Extracts, StartsContainers, Imports, Swept, transfer, TypeOK
  <2>2. kind[t] \in Uploads /\ client[t] \notin {"sending", "fetching"}
    BY <1>a, <2>1 DEF AnsweredPieces, FetchesOne, JobHasAll, NothingBefore
  <2>3. QED
    BY <1>a, <1>c, <1>d, <2>1, <2>2
    DEF NothingBefore, OwnPieces, AnsweredPieces, JobHasAll, FetchesOne, FetchedWhole
<1>11. CASE prepare_download(t)
  <2>1. /\ kind[t] = "none" /\ Restoring = {} /\ "volume" \in Kinds
        /\ UNCHANGED <<sent, acked, of, got, job>> /\ kind'[t] = "volume"
        /\ \/ /\ client'[t] = "fetching" /\ staged'[t] = volume /\ expected'[t] = Size(volume)
           \/ /\ client'[t] = "failed"
    BY <1>11, <1>b DEF prepare_download, Begin, Swept, TypeOK
  <2>2. PICK d \in Transfers \cup {Original} : volume = All(d)
    <3>1. \A u \in Transfers : job[u] # "extract"
      BY <2>1 DEF Restoring
    <3>2. QED
      BY <3>1 DEF IInv, ContentsWhole, Whole
  <2>3. Size(volume) = MaxChunks
    BY <2>2, WholeSize
  <2>4. got[t] = Beginning(d, 0) /\ 0 \in 0..MaxChunks
    BY <1>a, <2>1, TransfersAssumption DEF NothingBefore, NoFile, Beginning, Chunks
  <2>5. job[t] = "none" /\ sent[t] = {} /\ "volume" \in Fetches
    BY <1>a, <1>b, <1>d, <2>1 DEF NothingBefore, OwnPieces, Fetches, TypeOK
  <2>6. FetchesOne(t)'
    BY <2>1, <2>2, <2>3, <2>4, <2>5 DEF FetchesOne
  <2>7. QED
    BY <1>d, <2>1, <2>5, <2>6 DEF NothingBefore, OwnPieces, AnsweredPieces, JobHasAll, FetchedWhole
<1>12. CASE FetchesBackup(t)
  <2>1. PICK o \in Transfers : Exists(kept[o]) /\ of'[t] = o /\ expected'[t] = Size(kept[o])
    BY <1>12, <1>b DEF FetchesBackup, TypeOK
  <2>2. /\ kind[t] = "none" /\ kind'[t] = "backup" /\ client'[t] = "fetching"
        /\ UNCHANGED <<sent, acked, staged, got, job>>
    BY <1>12, <1>b DEF FetchesBackup, Begin, TypeOK
  <2>3. expected'[t] = MaxChunks
    BY <2>1, WholeSize DEF IInv, ContentsWhole
  <2>4. got[t] = Beginning(o, 0) /\ 0 \in 0..MaxChunks
    BY <1>a, <2>2, TransfersAssumption DEF NothingBefore, NoFile, Beginning, Chunks
  <2>5. job[t] = "none" /\ sent[t] = {} /\ "backup" \in Fetches /\ "backup" # "volume"
    BY <1>a, <1>b, <1>d, <2>2 DEF NothingBefore, OwnPieces, Fetches, TypeOK
  <2>6. FetchesOne(t)'
    BY <2>1, <2>2, <2>3, <2>4, <2>5 DEF FetchesOne
  <2>7. QED
    BY <1>d, <2>2, <2>5, <2>6 DEF NothingBefore, OwnPieces, AnsweredPieces, JobHasAll, FetchedWhole
<1>13. CASE download_chunk(t) \/ serve_chunk(t)
  <2>1. client[t] = "fetching" /\ UNCHANGED <<kind, sent, acked, staged, of, expected, job>>
    BY <1>13 DEF download_chunk, serve_chunk, Fetched
  <2>2. PICK d \in Transfers \cup {Original}, n \in 0..MaxChunks :
          /\ got[t] = Beginning(d, n)
          /\ IF kind[t] = "volume" THEN staged[t] = All(d) ELSE d = of[t]
    BY <1>a, <2>1 DEF FetchesOne
  <2>3. PICK file : Fetched(t, file) /\ (Exists(file) => file = All(d))
    <3>1. CASE download_chunk(t)
      BY <2>2, <3>1 DEF download_chunk
    <3>2. CASE serve_chunk(t)
      <4>1. kind[t] # "volume" /\ Fetched(t, kept[of[t]])
        BY <3>2 DEF serve_chunk
      <4>2. of[t] \in Transfers /\ of[t] = d
        BY <1>b, <2>2, <4>1 DEF TypeOK
      <4>3. Exists(kept[of[t]]) => kept[of[t]] = All(d)
        BY <4>2 DEF IInv, ContentsWhole
      <4>4. QED
        BY <4>1, <4>3
    <3>3. QED
      BY <1>13, <3>1, <3>2
  <2>4. Size(got[t]) = n /\ expected[t] = MaxChunks
    BY <1>a, <2>1, <2>2, BeginningSize DEF FetchesOne
  <2>5. CASE Exists(file)
    <3>1. /\ n < MaxChunks /\ UNCHANGED client
          /\ got'[t] = [Beginning(d, n) EXCEPT ![1 + n] = file[1 + n]]
      BY <1>b, <2>2, <2>3, <2>4, <2>5 DEF Fetched, TypeOK
    <3>2. n + 1 \in 0..MaxChunks /\ 1 + n \in Chunks
      BY <3>1, TransfersAssumption DEF Chunks
    <3>3. file[1 + n] = d
      BY <2>3, <2>5, <3>2 DEF All
    <3>4. got'[t] = Beginning(d, n + 1)
      <4>1. got'[t] = [k \in Chunks |-> IF k = 1 + n THEN d ELSE IF k <= n THEN d ELSE Hole]
        BY <3>1, <3>3 DEF Beginning
      <4>2. \A k \in Chunks : k <= n + 1 <=> (k = 1 + n \/ k <= n)
        BY <3>2, TransfersAssumption DEF Chunks
      <4>3. QED
        BY <4>1, <4>2 DEF Beginning
    <3>5. FetchesOne(t)'
      BY <1>a, <2>1, <2>2, <3>1, <3>2, <3>4 DEF FetchesOne
    <3>6. kind[t] \in Fetches /\ client'[t] = "fetching"
      BY <1>a, <2>1, <3>1 DEF FetchesOne
    <3>7. QED
      BY <1>a, <1>d, <2>1, <3>5, <3>6
      DEF NothingBefore, OwnPieces, AnsweredPieces, JobHasAll, FetchedWhole
  <2>6. CASE ~Exists(file)
    <3>1. UNCHANGED got /\ client'[t] = "failed"
      BY <1>b, <2>3, <2>6 DEF Fetched, TypeOK
    <3>2. QED
      BY <1>a, <2>1, <3>1
      DEF NothingBefore, OwnPieces, AnsweredPieces, JobHasAll, FetchedWhole, FetchesOne
  <2>7. QED
    BY <2>5, <2>6
<1>14. CASE EndsVolumeFetch(t) \/ EndsBackupFetch(t)
  <2>1. /\ client[t] = "fetching" /\ client'[t] = "ok" /\ Size(got[t]) = expected[t]
        /\ UNCHANGED <<kind, sent, acked, of, got, expected, job>>
    BY <1>14, <1>b DEF EndsVolumeFetch, EndsBackupFetch, HasAll, TypeOK
  <2>2. PICK d \in Transfers \cup {Original}, n \in 0..MaxChunks : got[t] = Beginning(d, n)
    BY <1>a, <2>1 DEF FetchesOne
  <2>3. n = MaxChunks
    BY <1>a, <2>1, <2>2, BeginningSize DEF FetchesOne
  <2>4. got[t] = All(d)
    BY <2>2, <2>3 DEF Beginning, All, Chunks
  <2>5. Whole(got[t])
    BY <2>4 DEF Whole
  <2>6. kind[t] \in Fetches /\ job[t] = "none"
    BY <1>a, <2>1 DEF FetchesOne
  <2>7. QED
    BY <1>a, <1>d, <2>1, <2>5, <2>6
    DEF NothingBefore, OwnPieces, AnsweredPieces, JobHasAll, FetchedWhole, FetchesOne
<1>15. QED
  BY <1>1, <1>2, <1>3, <1>4, <1>5, <1>6, <1>7, <1>8, <1>9, <1>10, <1>11, <1>12, <1>13, <1>14
  DEF TransferStep

LEMMA InvariantIsKept ==
  ASSUME IInv, Faults \cap {"suspend", "overlap"} = {}, [Next]_vars
  PROVE  IInv'
<1>1. TypeOK'
  BY TypesAreKept DEF IInv
<1>2. CASE \E t \in Transfers : TransferStep(t)
  <2>1. PICK t \in Transfers : TransferStep(t)
    BY <1>2
  <2>2. ContentsWhole' /\ Carried(t)'
    BY <2>1, ContentsAreKept, OwnIsKept
  <2>3. ASSUME NEW u \in Transfers, u # t PROVE Carried(u)'
    <3>1. Stays(u)
      BY <2>1, <2>3, OthersStay DEF IInv
    <3>2. QED
      BY <3>1, StaysCarried DEF IInv
  <2>4. QED
    BY <1>1, <2>2, <2>3 DEF IInv
<1>3. ASSUME NEW u \in Transfers, UNCHANGED <<transfer, staged, job>> PROVE Carried(u)'
  BY <1>3, StaysCarried DEF IInv, Stays, transfer
<1>4. CASE Deletes
  <2>1. /\ UNCHANGED <<transfer, staged, job, tree, volume>>
        /\ \A u \in Transfers : kept'[u] = kept[u] \/ kept'[u] = NoFile
    BY <1>4 DEF Deletes, IInv, TypeOK
  <2>2. ContentsWhole'
    BY <2>1 DEF IInv, ContentsWhole, Exists
  <2>3. QED
    BY <1>1, <1>3, <2>1, <2>2 DEF IInv
<1>5. CASE \/ AsksSize \/ Expires \/ (\E refresh \in BOOLEAN : WaitsForSize(refresh))
           \/ (\E i \in Measurers : Measured(i)) \/ UNCHANGED vars
  <2>1. UNCHANGED <<transfer, staged, job, contents>>
    BY <1>5 DEF AsksSize, Expires, WaitsForSize, Measured, vars
  <2>2. ContentsWhole'
    BY <2>1 DEF IInv, ContentsWhole, contents
  <2>3. QED
    BY <1>1, <1>3, <2>1, <2>2 DEF IInv
<1>6. QED
  BY <1>2, <1>4, <1>5 DEF Next

LEMMA InitInvariant == Init => IInv
<1> SUFFICES ASSUME Init PROVE IInv
  OBVIOUS
<1>1. TypeOK
  BY InitTypes
<1>2. ContentsWhole
  BY DEF Init, ContentsWhole, Whole, Exists
<1>3. ASSUME NEW t \in Transfers PROVE Carried(t)
  <2>1. /\ kind[t] = "none" /\ client[t] = "none" /\ sent[t] = {} /\ job[t] = "none"
        /\ staged[t] = NoFile /\ got[t] = NoFile
    BY DEF Init
  <2>2. "none" \notin Uploads /\ "none" \notin Fetches
    BY DEF Uploads, Fetches
  <2>3. QED
    BY <2>1, <2>2
    DEF Carried, NothingBefore, OwnPieces, AnsweredPieces, JobHasAll, FetchesOne, FetchedWhole
<1>4. QED
  BY <1>1, <1>2, <1>3 DEF IInv

\* Unless a client pauses for longer than its staging file is kept, or fetches the volume while
\* it is being restored, the archives arrive whole, whatever else is lost, repeated or late.
THEOREM ArchivesAreWhole ==
  ASSUME Faults \cap {"suspend", "overlap"} = {}
  PROVE  Spec => []ArchivesArriveWhole
<1>1. IInv => ArchivesArriveWhole
  BY DEF IInv, ContentsWhole, Carried, FetchedWhole, ArchivesArriveWhole
<1>2. IInv /\ [Next]_vars => IInv'
  BY InvariantIsKept
<1>3. QED
  BY <1>1, <1>2, InitInvariant, PTL DEF Spec
=============================================================================
