----------------------------- MODULE CacheSync -----------------------------
(***************************************************************************)
(* One cache file, its metadata and its S3 object, and everybody in the    *)
(* daemon who decides from the metadata what may happen to the file:       *)
(* handleDownload (serve, purge, refresh), the watcher's marks and upload, *)
(* handleDelete, the age evictor; with PVE writing the file, other nodes   *)
(* changing the object, and crashes.                                       *)
(*                                                                         *)
(* A content is a number, new for every write by PVE or another node; 0 is *)
(* "none".  The ETag of an object is its content.  CachedAt, mtime, inode  *)
(* and LastModified are abstracted to the two comparisons the code makes:  *)
(* "fresh" (the metadata was recorded after the file's last write, for its *)
(* size and inode) and "newer" (the file is newer than the object).        *)
(***************************************************************************)
EXTENDS Naturals

CONSTANTS
    Downloads,     \* concurrent handleDownload calls
    NotFound,      \* HEAD answered 404
    NoAnswer,      \* HEAD failed
    MaxVer,        \* bound: contents
    MaxCrashes,    \* bound: crashes
    FixedSize,     \* all contents have one size (raw disks), else all differ
    S3MayFail,     \* requests to S3 may fail
    OtherNodes,    \* other nodes change the object: "never", "apart" from the time
                   \* between HEAD and GET of a download, or at "any" time
    Evicts,        \* cache_max_age is set, and the file is old enough
    LateMarks,     \* an event may wait while requests are served
    BusyWrites     \* PVE may write while a request or an eviction runs

ASSUME AnswerAssumption == {NotFound, NoAnswer} \cap Nat = {} /\ NotFound # NoAnswer
ASSUME BoundAssumption == MaxVer \in Nat \ {0} /\ MaxCrashes \in Nat
ASSUME FlagAssumption ==
    /\ {FixedSize, S3MayFail, Evicts, LateMarks, BusyWrites} \subseteq BOOLEAN
    /\ OtherNodes \in {"never", "apart", "any"}

VARIABLES
    up, crashes,
    last,        \* the last content written anywhere
    file,        \* content of the cache file
    meta,        \* "none", "pending" or "synced"
    tag,         \* the ETag in the metadata, 0 if it has none
    fresh,       \* the metadata was recorded after the file's last write
    remote,      \* content of the object
    newer,       \* the file's mtime is after the object's LastModified
    stored,      \* ghost: contents that have been on S3
    claimed,     \* ghost: the last content PVE wrote under a running daemon
    unmarked,    \* ghost: the last such content the watcher did not mark
    event,       \* an inotify event waits
    queued,      \* the path is in the debounce map, the queue or a timer
    upc,         \* stage of uploadOnce
    usnap,       \* content of the file it opened
    usame,       \* the file is still the one it opened, unchanged
    unewer,      \* the file it opened is newer than the object
    uremarked,   \* marked pending after "started"
    ucanceled,   \* uploadState.canceled
    hpc,         \* stage of handleDelete
    dpc,         \* [Downloads -> stage of handleDownload]
    head,        \* [Downloads -> the answer to HEAD]
    dnewer,      \* [Downloads -> the file is newer than the object HEAD saw]
    got,         \* [Downloads -> content transferred]
    since,       \* ghost: [Downloads -> contents S3 had since the HEAD]
    epc          \* stage of the evictor for this file

fileVars   == <<file, newer, fresh>>
metaVars   == <<meta, tag>>
remoteVars == <<remote, stored>>
watchVars  == <<event, queued>>
uploadVars == <<upc, usnap, usame, unewer, uremarked, ucanceled>>
downVars   == <<dpc, head, dnewer, got, since>>
procVars   == <<up, crashes, claimed, unmarked>>
vars == <<procVars, last, fileVars, metaVars, remoteVars, watchVars, uploadVars,
          hpc, downVars, epc>>

Contents  == 0..MaxVer
UploadPC  == {"idle", "head", "put", "record"}
DownPC    == {"idle", "look", "backfill", "purge", "compare", "invalidate",
              "fetch", "transfer", "rename", "storemeta"}

DataTypeOK ==
    /\ crashes \in 0..MaxCrashes
    /\ last \in Contents /\ claimed \in Contents /\ unmarked \in Contents
    /\ file \in Contents /\ remote \in Contents /\ stored \subseteq Contents
    /\ meta \in {"none", "pending", "synced"} /\ tag \in Contents
    /\ upc \in UploadPC /\ usnap \in Contents
    /\ hpc \in {"idle", "object", "remove"} /\ epc \in {"idle", "remove"}
    /\ dpc \in [Downloads -> DownPC]
    /\ head \in [Downloads -> Contents \cup {NotFound, NoAnswer}]
    /\ got \in [Downloads -> Contents]
    /\ since \in [Downloads -> SUBSET Contents]

FlagTypeOK ==
    /\ up \in BOOLEAN /\ event \in BOOLEAN /\ queued \in BOOLEAN
    /\ fresh \in BOOLEAN /\ newer \in BOOLEAN
    /\ usame \in BOOLEAN /\ unewer \in BOOLEAN
    /\ uremarked \in BOOLEAN /\ ucanceled \in BOOLEAN
    /\ dnewer \in [Downloads -> BOOLEAN]

TypeOK == DataTypeOK /\ FlagTypeOK

NoRequest ==
    /\ event = FALSE /\ queued = FALSE
    /\ upc = "idle" /\ usnap = 0 /\ usame = FALSE /\ unewer = FALSE
    /\ uremarked = FALSE /\ ucanceled = FALSE
    /\ hpc = "idle" /\ epc = "idle"
    /\ dpc = [d \in Downloads |-> "idle"]
    /\ head = [d \in Downloads |-> NoAnswer]
    /\ dnewer = [d \in Downloads |-> FALSE]
    /\ got = [d \in Downloads |-> 0]
    /\ since = [d \in Downloads |-> {}]

\* Nothing anywhere, or a cached copy in sync with its object, or one that an older
\* version left without metadata (api.go:399) before the start.
Init ==
    /\ crashes = 0 /\ last = 1 /\ claimed = 0 /\ unmarked = 0
    /\ remote \in {0, 1} /\ stored = {remote} \ {0}
    /\ file \in {0, remote}
    /\ meta \in IF file = 0 THEN {"none"} ELSE {"none", "synced"}
    /\ tag = (IF meta = "synced" THEN file ELSE 0) /\ fresh = (meta = "synced")
    /\ newer \in {file # 0, fresh} /\ up = (fresh \/ file = 0)
    /\ NoRequest

(***************************************************************************)
(* Writes of the file, the metadata and the object.                        *)
(***************************************************************************)
\* Mutant: sizes are not compared.
SameSize_Any(v, w) == TRUE

SameSize(v, w) == FixedSize \/ v = w

\* The file becomes v (0: removed); its mtime is now, and nobody's snapshot of
\* the file holds any longer.
WriteFile(v) ==
    /\ file' = v
    /\ newer' = (v # 0)
    /\ dnewer' = [d \in Downloads |-> v # 0]
    /\ usame' = FALSE

\* Metadata recorded now for the size of v describes the file f in place.
Describes(f, v) == f # 0 /\ SameSize(f, v)

WriteMeta(state, v, etag, f) ==
    meta' = state /\ tag' = etag /\ fresh' = Describes(f, v)

DropMeta == meta' = "none" /\ tag' = 0 /\ fresh' = FALSE

Covers == meta = "synced" /\ fresh

Markable(f, covered) == f # 0 /\ ~covered

\* MarkPending of the file as it is.
MarkPending ==
    IF Markable(file, Covers)
    THEN WriteMeta("pending", file, 0, file) /\ uremarked' = TRUE
    ELSE UNCHANGED <<metaVars, fresh, uremarked>>

\* The object becomes v # 0; its LastModified is now.
WriteRemote(v) ==
    /\ remote' = v
    /\ stored' = stored \cup {v}
    /\ newer' = FALSE /\ unewer' = FALSE
    /\ since' = [d \in Downloads |-> IF dpc[d] = "idle" THEN {} ELSE since[d] \cup {v}]

(***************************************************************************)
(* PVE and the other nodes.                                                *)
(***************************************************************************)
Busy == epc # "idle" \/ \E d \in Downloads : dpc[d] # "idle"

\* The path may be in the debounce map: then a write starts no episode, and its
\* event marks nothing.  "queued" is also the channel and the timer, where a path
\* waits without being in the map: hence a choice wherever this is a guard.
EpisodeRuns == queued

\* PVE creates or rewrites the file.  Without LateMarks the watcher handles
\* the event before anything else happens.
PVEWrite ==
    /\ last < MaxVer /\ (BusyWrites \/ ~Busy)
    /\ last' = last + 1
    /\ WriteFile(last')
    /\ claimed' = IF up THEN last' ELSE claimed
    /\ \/ /\ up /\ ~LateMarks                                 \* marked
          /\ WriteMeta("pending", last', 0, last') /\ uremarked' = TRUE
          /\ queued' = TRUE /\ UNCHANGED <<event, unmarked>>
       \/ /\ up /\ ~LateMarks /\ EpisodeRuns                  \* seen already
          /\ fresh' = FALSE /\ unmarked' = last'
          /\ UNCHANGED <<metaVars, uremarked, watchVars>>
       \/ /\ ~up \/ LateMarks                                 \* not handled yet
          /\ fresh' = FALSE /\ event' = up
          /\ UNCHANGED <<metaVars, uremarked, queued, unmarked>>
    /\ UNCHANGED <<up, crashes, remoteVars, upc, usnap, unewer, ucanceled, hpc, dpc,
                   head, got, since, epc>>

OthersMay ==
    \/ OtherNodes = "any"
    \/ /\ OtherNodes = "apart"
       /\ \A d \in Downloads : dpc[d] \in {"idle", "transfer", "rename", "storemeta"}

OtherPut ==
    /\ OthersMay /\ last < MaxVer
    /\ last' = last + 1
    /\ WriteRemote(last')
    /\ UNCHANGED <<procVars, file, fresh, metaVars, watchVars, upc, usnap, usame,
                   uremarked, ucanceled, hpc, dpc, head, dnewer, got, epc>>

OtherDelete ==
    /\ OthersMay /\ remote # 0
    /\ remote' = 0
    /\ UNCHANGED <<procVars, last, fileVars, metaVars, stored, watchVars, uploadVars,
                   hpc, downVars, epc>>

(***************************************************************************)
(* The watcher: marks and the background upload.                           *)
(***************************************************************************)
WatcherEvent ==
    /\ up /\ event /\ event' = FALSE
    /\ \/ EpisodeRuns /\ UNCHANGED <<queued, metaVars, fresh, uremarked>>
       \/ queued' = (queued \/ Markable(file, Covers)) /\ MarkPending
    /\ UNCHANGED <<procVars, last, file, newer, remoteVars, upc, usnap, usame, unewer,
                   ucanceled, hpc, downVars, epc>>

\* The path has been stable: drop it if the file is gone, else open the file and
\* read the metadata (none -> HEAD first, covering -> nothing to do, else upload;
\* UploadControl separates these steps).  The debounce is longer than the daemon
\* needs between a rename and its StoreMeta.
UploadStart ==
    /\ up /\ queued /\ upc = "idle" /\ hpc = "idle"
    /\ \A d \in Downloads : dpc[d] # "storemeta"
    /\ queued' = FALSE
    /\ upc' = IF file = 0 \/ Covers THEN "idle" ELSE IF meta = "none" THEN "head" ELSE "put"
    /\ usnap' = file /\ usame' = TRUE /\ unewer' = newer
    /\ uremarked' = FALSE /\ ucanceled' = FALSE
    /\ UNCHANGED <<procVars, last, fileVars, metaVars, remoteVars, event, hpc,
                   downVars, epc>>

\* Mutant: MarkSynced does not compare the file with the one uploaded.
Unchanged_Any == file # 0

\* What MarkSynced requires of the file.
Unchanged == file # 0 /\ usame /\ ~(meta = "pending" /\ uremarked)

\* The HEAD of a file without metadata: the newer side wins.
UploadHead ==
    /\ upc = "head"
    /\ \/ /\ S3MayFail \/ ucanceled                              \* localUnknown
          /\ upc' = "idle" /\ queued' = ~ucanceled
          /\ UNCHANGED <<metaVars, fresh, uremarked>>
       \/ /\ remote = 0 \/ unewer                           \* missing, newer
          /\ IF Markable(file, Covers) THEN WriteMeta("pending", file, 0, file)
             ELSE UNCHANGED <<metaVars, fresh>>
          /\ uremarked' = FALSE
          /\ upc' = "put" /\ UNCHANGED queued
       \/ /\ remote # 0 /\ ~unewer                          \* in sync, older
          /\ IF Unchanged
             THEN WriteMeta("synced", usnap,
                            IF SameSize(usnap, remote) THEN remote ELSE 0, file)
             ELSE UNCHANGED <<metaVars, fresh>>
          /\ upc' = "idle" /\ UNCHANGED <<queued, uremarked>>
    /\ UNCHANGED <<procVars, last, file, newer, remoteVars, event, usnap, usame, unewer,
                   ucanceled, hpc, downVars, epc>>

\* PutObject stores the file as opened, or as a write in place made it.
UploadPut ==
    /\ upc = "put"
    /\ \/ /\ \E v \in {usnap} \cup ({file} \ {0}) : WriteRemote(v) /\ usnap' = v
          /\ upc' = "record" /\ UNCHANGED queued
       \/ /\ S3MayFail \/ ucanceled
          /\ \/ \E v \in {usnap} \cup ({file} \ {0}) : WriteRemote(v)
             \/ UNCHANGED <<remoteVars, newer, unewer, since>>
          /\ upc' = "idle" /\ queued' = ~ucanceled
          /\ UNCHANGED usnap
    /\ UNCHANGED <<procVars, last, file, fresh, metaVars, event, usame, uremarked,
                   ucanceled, hpc, dpc, head, dnewer, got, epc>>

\* MarkSynced, or MarkPending if the file has changed; nothing when canceled.
UploadRecord ==
    /\ upc = "record" /\ upc' = "idle"
    /\ IF ucanceled THEN UNCHANGED <<metaVars, fresh, uremarked>>
       ELSE IF Unchanged THEN WriteMeta("synced", usnap, usnap, file) /\ UNCHANGED uremarked
       ELSE MarkPending
    /\ UNCHANGED <<procVars, last, file, newer, remoteVars, watchVars, usnap, usame,
                   unewer, ucanceled, hpc, downVars, epc>>

(***************************************************************************)
(* handleDelete.                                                           *)
(***************************************************************************)
DeleteBlock ==
    /\ up /\ hpc = "idle" /\ hpc' = "object"
    /\ ucanceled' = (upc # "idle")
    /\ UNCHANGED <<procVars, last, fileVars, metaVars, remoteVars, watchVars, upc, usnap,
                   usame, unewer, uremarked, downVars, epc>>

\* DeleteObject, after the upload has ended.
DeleteObject ==
    /\ hpc = "object" /\ upc = "idle"
    /\ \/ remote' = 0 /\ hpc' = "remove"
       \/ S3MayFail /\ remote' \in {0, remote} /\ hpc' = "idle"
    /\ UNCHANGED <<procVars, last, fileVars, metaVars, stored, watchVars, uploadVars,
                   downVars, epc>>

DeleteRemove ==
    /\ hpc = "remove" /\ hpc' = "idle"
    /\ WriteFile(0) /\ DropMeta
    /\ UNCHANGED <<procVars, last, remoteVars, watchVars, upc, usnap, unewer, uremarked,
                   ucanceled, dpc, head, got, since, epc>>

(***************************************************************************)
(* handleDownload.                                                         *)
(***************************************************************************)
At(d, s)    == dpc[d] = s
Go(d, s)    ==
    /\ dpc' = [dpc EXCEPT ![d] = s]
    /\ since' = IF s = "idle" THEN [since EXCEPT ![d] = {}] ELSE since
Answer(d)   == Go(d, "idle")

\* HEAD, before anything else.
DownloadHead(d) ==
    /\ up /\ At(d, "idle")
    /\ \/ head' = [head EXCEPT ![d] = IF remote = 0 THEN NotFound ELSE remote]
       \/ S3MayFail /\ head' = [head EXCEPT ![d] = NoAnswer]
    /\ dnewer' = [dnewer EXCEPT ![d] = newer]
    /\ since' = [since EXCEPT ![d] = {remote}]
    /\ dpc' = [dpc EXCEPT ![d] = "look"]
    /\ UNCHANGED <<procVars, last, fileVars, metaVars, remoteVars, watchVars, uploadVars,
                   hpc, got, epc>>

\* reconcileLocal of the file without metadata against the HEAD of the request.
LocalWins(d)   == meta = "none" /\ (head[d] = NotFound \/ (head[d] # NoAnswer /\ dnewer[d]))
LocalInSync(d) == meta = "none" /\ head[d] \notin {NotFound, NoAnswer} /\ ~dnewer[d]
                     /\ SameSize(file, head[d])

\* Mutant: a pending file does not win over S3.
Authoritative_Never(d) == LocalWins(d)

\* The local file is the one to serve, whatever S3 has.
Authoritative(d) == meta = "pending" \/ LocalWins(d)

\* The cached file and its metadata, read after the HEAD.
DownloadLook(d) ==
    /\ At(d, "look")
    /\ IF file = 0
       THEN Go(d, IF head[d] \in {NotFound, NoAnswer} THEN "idle" ELSE "fetch")
            /\ UNCHANGED queued
       ELSE IF Authoritative(d)
       THEN Answer(d) /\ queued' = TRUE
       ELSE /\ Go(d, IF LocalInSync(d) THEN "backfill"
                     ELSE IF head[d] = NotFound THEN "purge"
                     ELSE IF head[d] = NoAnswer THEN "idle" ELSE "compare")
            /\ UNCHANGED queued
    /\ UNCHANGED <<procVars, last, fileVars, metaVars, remoteVars, event, uploadVars, hpc,
                   head, dnewer, got, epc>>

\* A file without metadata that matches S3: record it, serve it.
DownloadBackfill(d) ==
    /\ At(d, "backfill") /\ Answer(d)
    /\ WriteMeta("synced", head[d], head[d], file)
    /\ UNCHANGED <<procVars, last, file, newer, remoteVars, watchVars, uploadVars, hpc,
                   head, dnewer, got, epc>>

\* Deleted on S3: remove the cached copy, answer 404.
DownloadPurge(d) ==
    /\ At(d, "purge") /\ Answer(d)
    /\ WriteFile(0) /\ DropMeta
    /\ UNCHANGED <<procVars, last, remoteVars, watchVars, upc, usnap, unewer, uremarked,
                   ucanceled, hpc, head, got, epc>>

\* Mutant: the ETags are not compared.
IsStale_Never(d) == meta = "none"

IsStale(d) == meta = "none" \/ tag # head[d]

\* IsStale reads the metadata again; a hit is served.
DownloadCompare(d) ==
    /\ At(d, "compare")
    /\ Go(d, IF IsStale(d) THEN "invalidate" ELSE "idle")
    /\ UNCHANGED <<procVars, last, fileVars, metaVars, remoteVars, watchVars, uploadVars,
                   hpc, head, dnewer, got, epc>>

DownloadInvalidate(d) ==
    /\ At(d, "invalidate") /\ Go(d, "fetch")
    /\ WriteFile(0) /\ DropMeta
    /\ UNCHANGED <<procVars, last, remoteVars, watchVars, upc, usnap, unewer, uremarked,
                   ucanceled, hpc, head, got, epc>>

\* DownloadToFile into .downloads/: the object as S3 has it now, or an error.
\* Two transfers of the key do not overlap here: they would share the temporary
\* file from its creation to its rename (see DownloadFile).
DownloadFetch(d) ==
    /\ At(d, "fetch") /\ \A e \in Downloads : dpc[e] \notin {"transfer", "rename"}
    /\ \/ remote # 0 /\ got' = [got EXCEPT ![d] = remote] /\ Go(d, "transfer")
       \/ (remote = 0 \/ S3MayFail) /\ UNCHANGED got /\ Answer(d)
    /\ UNCHANGED <<procVars, last, fileVars, metaVars, remoteVars, watchVars, uploadVars,
                   hpc, head, dnewer, epc>>

DownloadTransfer(d) ==
    /\ At(d, "transfer")
    /\ Go(d, "rename") \/ (S3MayFail /\ Answer(d))
    /\ UNCHANGED <<procVars, last, fileVars, metaVars, remoteVars, watchVars, uploadVars,
                   hpc, head, dnewer, got, epc>>

\* The rename over the cache file, which raises an event.  The mtime of the new
\* file is the end of its transfer; the object may have changed before or after.
DownloadRename(d) ==
    /\ At(d, "rename") /\ Go(d, "storemeta")
    /\ file' = got[d] /\ usame' = FALSE
    /\ newer' \in {TRUE, remote = got[d]}
    /\ dnewer' = [e \in Downloads |-> TRUE]
    /\ fresh' = FALSE /\ event' = TRUE
    /\ UNCHANGED <<procVars, last, metaVars, remoteVars, queued, upc, usnap, unewer,
                   uremarked, ucanceled, hpc, head, got, epc>>

\* StoreMeta for the file that is in place now, with the ETag of the HEAD.
DownloadStoreMeta(d) ==
    /\ At(d, "storemeta") /\ Answer(d)
    /\ WriteMeta("synced", got[d], head[d], file)
    /\ UNCHANGED <<procVars, last, file, newer, remoteVars, watchVars, uploadVars, hpc,
                   head, dnewer, got, epc>>

(***************************************************************************)
(* EvictByAge: the metadata is read first, the file removed later.         *)
(***************************************************************************)
\* Mutant: pending files are evicted too.
Evictable_Any == file # 0

Evictable == file # 0 /\ meta = "synced"

EvictCheck ==
    /\ up /\ Evicts /\ epc = "idle" /\ Evictable
    /\ epc' = "remove"
    /\ UNCHANGED <<procVars, last, fileVars, metaVars, remoteVars, watchVars, uploadVars,
                   hpc, downVars>>

EvictRemove ==
    /\ epc = "remove" /\ epc' = "idle"
    /\ WriteFile(0) /\ DropMeta
    /\ UNCHANGED <<procVars, last, remoteVars, watchVars, upc, usnap, unewer, uremarked,
                   ucanceled, hpc, dpc, head, got, since>>

(***************************************************************************)
(* Crash and start.                                                        *)
(***************************************************************************)
Crash ==
    /\ up /\ crashes < MaxCrashes
    /\ up' = FALSE /\ crashes' = crashes + 1
    /\ \/ upc = "put" /\ remote' = usnap /\ stored' = stored \cup {usnap} /\ newer' = FALSE
       \/ UNCHANGED <<remoteVars, newer>>
    /\ unewer' = FALSE
    /\ event' = FALSE /\ queued' = FALSE
    /\ upc' = "idle" /\ usnap' = 0 /\ usame' = FALSE
    /\ uremarked' = FALSE /\ ucanceled' = FALSE
    /\ hpc' = "idle" /\ epc' = "idle"
    /\ dpc' = [d \in Downloads |-> "idle"]
    /\ head' = [d \in Downloads |-> NoAnswer]
    /\ dnewer' = [d \in Downloads |-> FALSE]
    /\ got' = [d \in Downloads |-> 0]
    /\ since' = [d \in Downloads |-> {}]
    /\ UNCHANGED <<claimed, unmarked, last, file, fresh, metaVars>>

\* scanPendingUploads: mark what the metadata does not cover, queue it and what
\* has no metadata (HEAD decides about that one).
Start ==
    /\ ~up /\ up' = TRUE
    /\ queued' = (file # 0 /\ (meta = "none" \/ ~Covers))
    /\ IF meta # "none" /\ Markable(file, Covers) THEN WriteMeta("pending", file, 0, file)
       ELSE UNCHANGED <<metaVars, fresh>>
    /\ UNCHANGED <<crashes, claimed, unmarked, last, file, newer, remoteVars, event, uploadVars, hpc,
                   downVars, epc>>

Download(d) ==
    \/ DownloadHead(d) \/ DownloadLook(d) \/ DownloadBackfill(d) \/ DownloadPurge(d)
    \/ DownloadCompare(d) \/ DownloadInvalidate(d) \/ DownloadFetch(d)
    \/ DownloadTransfer(d) \/ DownloadRename(d) \/ DownloadStoreMeta(d)

Next ==
    \/ PVEWrite \/ OtherPut \/ OtherDelete
    \/ WatcherEvent \/ UploadStart \/ UploadHead \/ UploadPut \/ UploadRecord
    \/ DeleteBlock \/ DeleteObject \/ DeleteRemove
    \/ \E d \in Downloads : Download(d)
    \/ EvictCheck \/ EvictRemove
    \/ Crash \/ Start

Spec == Init /\ [][Next]_vars

(***************************************************************************)
(* Properties.                                                             *)
(***************************************************************************)
\* PVE wrote the file while its path was in the debounce map, so the write was
\* not marked, and S3 has not had it since (a mark that is made meanwhile comes too
\* late for those who have looked by then).
Unseen == file # 0 /\ file = unmarked /\ file \notin stored

\* "Such files must never be purged or overwritten from S3": the daemon on its
\* own never destroys a content that was never on S3 -- except one PVE wrote
\* while the daemon was down, when S3 has a newer object, and one that the
\* watcher saw but did not mark (it does destroy that one).
NoLostWrite ==
    [][file # 0 /\ file' # file /\ last' = last /\ hpc # "remove"
          => file \in stored \/ (file # claimed /\ ~newer) \/ Unseen]_vars

\* What makes a purge, an eviction or a refresh safe: metadata that covers the
\* file and names an object was recorded for a content that has been on S3 (for
\* files of one fixed size the code only assumes that).
SyncedWasStored == file # 0 /\ Covers /\ tag # 0 => file \in stored

\* A cache hit serves what S3 has had at some time since the request's HEAD, or
\* a rewrite by PVE on this node that the watcher has not marked (the file may be
\* removed at any moment, then nothing is served).
HitIsCurrent ==
    [][\A d \in Downloads :
          At(d, "compare") /\ At(d, "idle")' /\ up' /\ file # 0
              => file \in since[d] \/ Unseen]_vars

(***************************************************************************)
(* The inductive invariant behind SyncedWasStored.                         *)
(***************************************************************************)
\* What an upload and a download remember of the file and of S3 is right: a
\* snapshot that still counts is the file, an answer is a content S3 has had.
SnapshotsMatch ==
    /\ remote # 0 => remote \in stored
    /\ upc # "idle" /\ usame => file = usnap
    /\ upc = "record" => usnap \in stored
    /\ \A d \in Downloads : head[d] \in Contents => head[d] \in stored
    /\ \A d \in Downloads : got[d] # 0 => got[d] \in stored

\* A download records or compares an ETag only if its HEAD returned one.
TagKnown ==
    \A d \in Downloads :
        dpc[d] \in {"backfill", "compare", "invalidate", "fetch", "transfer", "rename",
                   "storemeta"} => head[d] \in Contents

MarksInv == TypeOK /\ TagKnown /\ SnapshotsMatch /\ (~FixedSize => SyncedWasStored)
=============================================================================
