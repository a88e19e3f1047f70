--------------------------- MODULE UploadControl ---------------------------
(***************************************************************************)
(* Background uploads of proxs3d: what makes a file that PVE wrote into    *)
(* the cache directory reach S3, and what keeps an upload from undoing a   *)
(* delete (internal/api/watcher.go, handleDelete of internal/api/api.go,   *)
(* the marks of internal/cache/cache.go).                                  *)
(*                                                                         *)
(* A path stands for a cache file and the S3 object of the same key.  The  *)
(* content of a file is a version number: every write by PVE makes a new   *)
(* version, 0 is "no file" and "no object".  Size, mtime and inode are     *)
(* abstracted to the version, so metadata covers a file exactly when it    *)
(* was recorded for the file's current version.  Time is abstracted: a     *)
(* debounce period or a back-off may end at any moment.                    *)
(***************************************************************************)
EXTENDS Naturals, Sequences, FiniteSets

CONSTANTS
    Paths,          \* cache files
    Uploaders,      \* identities for uploadNewFile goroutines
    Timers,         \* identities for retry timers
    Handlers,       \* identities for concurrent handleDelete calls
    None,           \* no uploader, no timer, no path
    QueueCap,       \* capacity of the uploadRequests channel
    MaxVer,         \* bound: versions of one file
    MaxRetries,     \* bound: the retry count saturates (its delay does)
    MaxCrashes,     \* bound: crashes of the daemon
    S3MayFail,      \* HEAD and PutObject may fail
    DeleteMayFail,  \* DeleteObject may fail
    RemoveMayFail,  \* removing the local file may fail
    WatchGaps,      \* directories get their watch only later
    FilesInUse      \* other processes keep files open for long

ASSUME NoneAssumption == None \notin Uploaders \cup Timers \cup Paths
ASSUME FiniteAssumption == IsFiniteSet(Handlers)
ASSUME BoundAssumption ==
    /\ QueueCap \in Nat
    /\ MaxVer \in Nat \ {0}
    /\ MaxRetries \in Nat
    /\ MaxCrashes \in Nat
ASSUME FailureAssumption ==
    {S3MayFail, DeleteMayFail, RemoveMayFail, WatchGaps, FilesInUse} \subseteq BOOLEAN

VARIABLES
    up,           \* the daemon is running
    crashes,      \* crashes so far
    inUse,        \* paths another process has open
    file,         \* [Paths -> version] the local content
    writes,       \* [Paths -> version] the last version written anywhere
    meta,         \* [Paths -> state of the metadata file]
    metaVer,      \* [Paths -> version] the content the metadata describes
    remote,       \* [Paths -> version] the object on S3
    watched,      \* paths whose directory has an inotify watch
    events,       \* [Paths -> Nat] inotify events not yet received
    pending,      \* the debounce map of the watcher loop
    queue,        \* the uploadRequests channel
    uploads,      \* [Paths -> Uploaders \cup {None}] Server.uploads
    pc,           \* [Uploaders -> stage of uploadNewFile/uploadOnce]
    path,         \* [Uploaders -> Paths \cup {None}] the goroutine's localPath
    snap,         \* [Uploaders -> version] info: the file as opened
    retry,        \* [Uploaders -> BOOLEAN] result of uploadOnce
    rerun,        \* [Uploaders -> BOOLEAN] uploadState.rerun
    canceled,     \* [Uploaders -> BOOLEAN] uploadState.canceled
    remarked,     \* [Paths -> BOOLEAN] marked pending after "started"
    retries,      \* [Paths -> Nat] Server.retries
    retryTimers,  \* [Paths -> Timers \cup {None}] Server.retryTimers
    timerPath,    \* [Timers -> Paths \cup {None}] what a timer was made for
    armed,        \* [Timers -> BOOLEAN] the runtime timer is set
    fired,        \* [Timers -> BOOLEAN] the callback runs, lock not taken
    blocked,      \* [Paths -> Nat] Server.blocked
    hpc,          \* [Handlers -> stage of handleDelete]
    target,       \* [Handlers -> Paths \cup {None}] the handler's path
    waitFor,      \* [Handlers -> Uploaders \cup {None}] <-st.done
    gone          \* ghost: a delete was answered "ok", no write since

hostVars    == <<up, crashes, inUse>>
localVars   == <<file, writes, meta, metaVer, remarked>>
watchVars   == <<watched, events, pending, queue>>
uploadVars  == <<uploads, pc, path, snap, retry, rerun, canceled>>
timerVars   == <<retries, retryTimers, timerPath, armed, fired>>
handlerVars == <<blocked, hpc, target, waitFor, gone>>
vars == <<hostVars, localVars, remote, watchVars, uploadVars, timerVars,
          handlerVars>>

Versions    == 0..MaxVer
UploadPC    == {"idle", "spawned", "open", "arm", "check", "head", "put",
                "landed", "record", "returned"}
HandlerPC   == {"idle", "waiting", "removing", "unblocking"}
\* The stages in which a goroutine owns the entry of its path in uploads.
Registered  == UploadPC \ {"idle", "spawned"}

LocalTypeOK ==
    /\ up \in BOOLEAN /\ crashes \in 0..MaxCrashes /\ inUse \subseteq Paths
    /\ file \in [Paths -> Versions] /\ writes \in [Paths -> Versions]
    /\ meta \in [Paths -> {"none", "pending", "synced"}]
    /\ metaVer \in [Paths -> Versions]
    /\ remarked \in [Paths -> BOOLEAN] /\ gone \in [Paths -> BOOLEAN]
    /\ remote \in [Paths -> Versions]

WatchTypeOK ==
    /\ watched \subseteq Paths /\ pending \subseteq Paths
    /\ events \in [Paths -> Nat]
    /\ queue \in Seq(Paths) /\ Len(queue) <= QueueCap

UploadTypeOK ==
    /\ uploads \in [Paths -> Uploaders \cup {None}]
    /\ pc \in [Uploaders -> UploadPC]
    /\ path \in [Uploaders -> Paths \cup {None}]
    /\ snap \in [Uploaders -> Versions]
    /\ retry \in [Uploaders -> BOOLEAN] /\ rerun \in [Uploaders -> BOOLEAN]
    /\ canceled \in [Uploaders -> BOOLEAN]

TimerTypeOK ==
    /\ retries \in [Paths -> 0..MaxRetries]
    /\ retryTimers \in [Paths -> Timers \cup {None}]
    /\ timerPath \in [Timers -> Paths \cup {None}]
    /\ armed \in [Timers -> BOOLEAN] /\ fired \in [Timers -> BOOLEAN]

HandlerTypeOK ==
    /\ blocked \in [Paths -> Nat]
    /\ hpc \in [Handlers -> HandlerPC]
    /\ target \in [Handlers -> Paths \cup {None}]
    /\ waitFor \in [Handlers -> Uploaders \cup {None}]

TypeOK == LocalTypeOK /\ WatchTypeOK /\ UploadTypeOK /\ TimerTypeOK /\ HandlerTypeOK

(***************************************************************************)
(* Initial states: the daemon is not running; a file is absent, or cached  *)
(* and in sync with its object.                                            *)
(***************************************************************************)
\* Nothing in memory: every map empty, no goroutine, no timer, no handler.
FreshProcess ==
    /\ pending = {} /\ queue = << >>
    /\ uploads = [p \in Paths |-> None]
    /\ pc = [u \in Uploaders |-> "idle"]
    /\ path = [u \in Uploaders |-> None]
    /\ snap = [u \in Uploaders |-> 0]
    /\ retry = [u \in Uploaders |-> FALSE]
    /\ rerun = [u \in Uploaders |-> FALSE]
    /\ canceled = [u \in Uploaders |-> FALSE]
    /\ remarked = [p \in Paths |-> FALSE]
    /\ retries = [p \in Paths |-> 0]
    /\ retryTimers = [p \in Paths |-> None]
    /\ timerPath = [t \in Timers |-> None]
    /\ armed = [t \in Timers |-> FALSE]
    /\ fired = [t \in Timers |-> FALSE]
    /\ blocked = [p \in Paths |-> 0]
    /\ hpc = [h \in Handlers |-> "idle"]
    /\ target = [h \in Handlers |-> None]
    /\ waitFor = [h \in Handlers |-> None]

Init ==
    /\ up = FALSE /\ crashes = 0 /\ inUse = {}
    /\ remote \in [Paths -> {0, 1}]
    /\ file \in [Paths -> {0, 1}]
    /\ \A p \in Paths : file[p] <= remote[p]
    /\ writes = [p \in Paths |-> 1]
    /\ meta = [p \in Paths |-> IF file[p] = 1 THEN "synced" ELSE "none"]
    /\ metaVer = file
    /\ watched = {}
    /\ events = [p \in Paths |-> 0]
    /\ gone = [p \in Paths |-> FALSE]
    /\ FreshProcess

(***************************************************************************)
(* Metadata (cache.go).  Marks take fc.mu, so each is one step.            *)
(***************************************************************************)
\* In-sync metadata recorded for version v of the file.
Covers(p, v) == meta[p] = "synced" /\ metaVer[p] = v

\* MarkPending succeeds: the file is there and not already covered.
Markable(p) == file[p] # 0 /\ ~Covers(p, file[p])

WritePending(p) ==
    /\ meta' = [meta EXCEPT ![p] = "pending"]
    /\ metaVer' = [metaVer EXCEPT ![p] = file[p]]

\* MarkPending, whose timestamp is later than "started" of a running upload.
MarkPending(p) ==
    IF Markable(p)
    THEN WritePending(p) /\ remarked' = [remarked EXCEPT ![p] = TRUE]
    ELSE UNCHANGED <<meta, metaVer, remarked>>

\* Mutant: MarkSynced does not compare the file with the one uploaded.
Fresh_AnyContent(p, v) == file[p] # 0 /\ ~(meta[p] = "pending" /\ remarked[p])

\* What MarkSynced requires: the file is the one uploaded as version v, and
\* was not marked pending after the upload started.
Fresh(p, v) ==
    /\ file[p] # 0 /\ file[p] = v
    /\ ~(meta[p] = "pending" /\ remarked[p])

WriteSynced(p) ==
    /\ meta' = [meta EXCEPT ![p] = "synced"]
    /\ metaVer' = [metaVer EXCEPT ![p] = file[p]]

(***************************************************************************)
(* The environment: PVE writes files, a VM start or a plugin call asks for *)
(* a file that is pending.                                                 *)
(***************************************************************************)
\* PVE creates or rewrites a file.  A watched directory yields an event.
PVEWrite(p) ==
    /\ writes[p] < MaxVer
    /\ writes' = [writes EXCEPT ![p] = @ + 1]
    /\ file' = [file EXCEPT ![p] = writes'[p]]
    /\ gone' = [gone EXCEPT ![p] = FALSE]
    /\ events' = [events EXCEPT ![p] = IF up /\ p \in watched THEN @ + 1 ELSE @]
    /\ UNCHANGED <<hostVars, meta, metaVer, remarked, remote, watched, pending,
                   queue, uploadVars, timerVars, blocked, hpc, target, waitFor>>

\* A process opens a file and keeps it open: a VM with the ISO attached, a
\* restore, a copy by hand.  Bound: while the path is in the debounce map, for
\* only its tick looks, and to it an earlier open is the same.
PVEOpen(p) ==
    /\ FilesInUse /\ file[p] # 0 /\ p \in pending
    /\ inUse' = inUse \cup {p}
    /\ UNCHANGED <<up, crashes, localVars, remote, watchVars, uploadVars, timerVars,
                   handlerVars>>

\* It closes the file, or another file takes the path: /proc shows an open file
\* that has lost its name as deleted.
PVEClose(p) ==
    /\ p \in inUse
    /\ inUse' = inUse \ {p}
    /\ UNCHANGED <<up, crashes, localVars, remote, watchVars, uploadVars, timerVars,
                   handlerVars>>

\* Mutant: the bound of the channel is off by one.
RequestUpload_OneMore(p) ==
    queue' = IF Len(queue) <= QueueCap THEN Append(queue, p) ELSE queue

\* requestUpload: a non-blocking send, dropped when the channel is full.
RequestUpload(p) ==
    queue' = IF Len(queue) < QueueCap THEN Append(queue, p) ELSE queue

\* handleDownload finds a local file that wins over S3 (pending, or without
\* metadata and missing on S3 or newer): it serves it and asks for its upload.
DownloadPending(p) ==
    /\ up /\ file[p] # 0 /\ meta[p] \in {"pending", "none"}
    /\ RequestUpload(p)
    /\ UNCHANGED <<hostVars, localVars, remote, watched, events, pending,
                   uploadVars, timerVars, handlerVars>>

(***************************************************************************)
(* The watcher loop of watchCacheDirs, one action per case of its select.  *)
(***************************************************************************)
\* A create or write event: mark the file before anything else acts on it,
\* unless an episode is already pending.
WatcherEvent(p) ==
    /\ up /\ events[p] > 0
    /\ events' = [events EXCEPT ![p] = @ - 1]
    /\ IF p \in pending
       THEN UNCHANGED <<meta, metaVer, remarked, pending>>
       ELSE /\ MarkPending(p)
            /\ pending' = IF Markable(p) THEN pending \cup {p} ELSE pending
    /\ UNCHANGED <<hostVars, file, writes, remote, watched, queue, uploadVars,
                   timerVars, handlerVars>>

\* A path arrives on uploadRequests.
WatcherRequest ==
    /\ up /\ queue # << >>
    /\ pending' = pending \cup {Head(queue)}
    /\ queue' = Tail(queue)
    /\ UNCHANGED <<hostVars, localVars, remote, watched, events, uploadVars,
                   timerVars, handlerVars>>

\* Mutant: blocks are ignored.
UploadBlocked_Never(p) == FALSE

\* A delete works on the path.
UploadBlocked(p) == blocked[p] > 0

\* The tick finds a path that has been stable: drop it if the file is gone.
TickDrop(p) ==
    /\ up /\ p \in pending /\ file[p] = 0
    /\ pending' = pending \ {p}
    /\ UNCHANGED <<hostVars, localVars, remote, watched, events, queue,
                   uploadVars, timerVars, handlerVars>>

\* Some process has the file open, the daemon's own uploads included (one that
\* reads a file replaced since does not count; after a rewrite in place it
\* would, until it ends: the step below then only comes later).
FileInUse(p) ==
    \/ p \in inUse
    \/ \E u \in Uploaders :
          /\ path[u] = p /\ snap[u] = file[p]
          /\ pc[u] \in {"arm", "check", "head", "put", "landed", "record"}

\* ... or start "go uploadNewFile", unless a handler blocks it or it is in use
\* (such a file, and one that is not stable, stays pending: no step).
TickSpawn(p) ==
    /\ up /\ p \in pending /\ file[p] # 0 /\ ~UploadBlocked(p) /\ ~FileInUse(p)
    /\ pending' = pending \ {p}
    /\ \E u \in Uploaders :
          /\ pc[u] = "idle"
          /\ pc' = [pc EXCEPT ![u] = "spawned"]
          /\ path' = [path EXCEPT ![u] = p]
    /\ UNCHANGED <<hostVars, localVars, remote, watched, events, queue, uploads,
                   snap, retry, rerun, canceled, timerVars, handlerVars>>

\* addWatchDirs finds the directory of a path.
AddWatch(p) ==
    /\ up /\ p \notin watched
    /\ watched' = watched \cup {p}
    /\ UNCHANGED <<hostVars, localVars, remote, events, pending, queue,
                   uploadVars, timerVars, handlerVars>>

(***************************************************************************)
(* uploadNewFile and uploadOnce.  uploadsMu makes each of UploadEnter,     *)
(* UploadArm, UploadLanded and UploadFinish one step; file and network     *)
(* operations are steps of their own.                                      *)
(***************************************************************************)
Stage(u, s) == pc' = [pc EXCEPT ![u] = s]

\* uploadOnce returns r to the loop of uploadNewFile.
Return(u, r) == Stage(u, "returned") /\ retry' = [retry EXCEPT ![u] = r]

\* The goroutine ends.
Exit(u) == Stage(u, "idle") /\ path' = [path EXCEPT ![u] = None]

\* Delete got in after the watcher's check: hand the path back to it.
EnterBlocked(u) ==
    /\ pc[u] = "spawned" /\ UploadBlocked(path[u])
    /\ RequestUpload(path[u])
    /\ Exit(u)
    /\ UNCHANGED <<hostVars, localVars, remote, watched, events, pending, uploads,
                   snap, retry, rerun, canceled, timerVars, handlerVars>>

\* Mutant: the running upload is not looked up.
UploadRunning_Never(p) == FALSE

UploadRunning(p) == uploads[p] # None

\* An upload of the path is running: ask it for another round.
EnterRunning(u) ==
    /\ pc[u] = "spawned" /\ ~UploadBlocked(path[u]) /\ UploadRunning(path[u])
    /\ rerun' = [rerun EXCEPT ![uploads[path[u]]] = TRUE]
    /\ Exit(u)
    /\ UNCHANGED <<hostVars, localVars, remote, watchVars, uploads, snap, retry,
                   canceled, timerVars, handlerVars>>

\* Register a new uploadState and start the first attempt.
EnterFresh(u) ==
    /\ pc[u] = "spawned" /\ ~UploadBlocked(path[u]) /\ ~UploadRunning(path[u])
    /\ uploads' = [uploads EXCEPT ![path[u]] = u]
    /\ rerun' = [rerun EXCEPT ![u] = FALSE]
    /\ canceled' = [canceled EXCEPT ![u] = FALSE]
    /\ remarked' = [remarked EXCEPT ![path[u]] = FALSE]
    /\ Stage(u, "open")
    /\ UNCHANGED <<hostVars, file, writes, meta, metaVer, remote, watchVars, path,
                   snap, retry, timerVars, handlerVars>>

\* Open and stat; a file that is gone ends the attempt without retry.
UploadOpen(u) ==
    /\ pc[u] = "open"
    /\ IF file[path[u]] = 0
       THEN Return(u, FALSE) /\ UNCHANGED snap
       ELSE /\ snap' = [snap EXCEPT ![u] = file[path[u]]]
            /\ Stage(u, "arm") /\ UNCHANGED retry
    /\ UNCHANGED <<hostVars, localVars, remote, watchVars, uploads, path, rerun,
                   canceled, timerVars, handlerVars>>

\* Publish st.cancel, unless the upload was canceled before it.
UploadArm(u) ==
    /\ pc[u] = "arm"
    /\ IF canceled[u] THEN Return(u, FALSE) ELSE Stage(u, "check") /\ UNCHANGED retry
    /\ UNCHANGED <<hostVars, localVars, remote, watchVars, uploads, path, snap,
                   rerun, canceled, timerVars, handlerVars>>

\* Read the metadata: none -> ask S3 first, covering -> nothing to upload.
UploadCheck(u) ==
    /\ pc[u] = "check"
    /\ IF Covers(path[u], snap[u])
       THEN Return(u, FALSE)
       ELSE /\ Stage(u, IF meta[path[u]] = "none" THEN "head" ELSE "put")
            /\ UNCHANGED retry
    /\ UNCHANGED <<hostVars, localVars, remote, watchVars, uploads, path, snap,
                   rerun, canceled, timerVars, handlerVars>>

\* HEAD gave no answer: reconcileLocal says localUnknown.
HeadUnknown(u) ==
    /\ pc[u] = "head" /\ (S3MayFail \/ canceled[u])
    /\ Return(u, TRUE)
    /\ UNCHANGED <<hostVars, localVars, remote, watchVars, uploads, path, snap,
                   rerun, canceled, timerVars, handlerVars>>

\* localMissing, or localNewer than an existing object: the local file wins,
\* and its mark must not count as a rewrite against this upload.
HeadLocalWins(u) ==
    /\ pc[u] = "head"
    /\ IF Markable(path[u]) THEN WritePending(path[u]) ELSE UNCHANGED <<meta, metaVer>>
    /\ remarked' = [remarked EXCEPT ![path[u]] = FALSE]
    /\ Stage(u, "put")
    /\ UNCHANGED <<hostVars, file, writes, remote, watchVars, uploads, path, snap,
                   retry, rerun, canceled, timerVars, handlerVars>>

\* localInSync or localOlder: record the local copy without uploading it.
HeadRemoteWins(u) ==
    /\ pc[u] = "head" /\ remote[path[u]] # 0
    /\ IF Fresh(path[u], snap[u]) THEN WriteSynced(path[u]) ELSE UNCHANGED <<meta, metaVer>>
    /\ Return(u, FALSE)
    /\ UNCHANGED <<hostVars, file, writes, remarked, remote, watchVars, uploads, path,
                   snap, rerun, canceled, timerVars, handlerVars>>

\* What S3 may hold after a PutObject: the file as opened, or what a write in
\* place made of it meanwhile.
PutContent(u) == {snap[u]} \cup ({file[path[u]]} \ {0})

PutOK(u) ==
    /\ pc[u] = "put"
    /\ \E v \in PutContent(u) : remote' = [remote EXCEPT ![path[u]] = v]
    /\ Stage(u, "landed")
    /\ UNCHANGED <<hostVars, localVars, watchVars, uploads, path, snap, retry,
                   rerun, canceled, timerVars, handlerVars>>

\* An error or a canceled context; the object may have been stored anyway.
PutFail(u) ==
    /\ pc[u] = "put" /\ (S3MayFail \/ canceled[u])
    /\ \E v \in PutContent(u) \cup {remote[path[u]]} :
          remote' = [remote EXCEPT ![path[u]] = v]
    /\ Return(u, TRUE)
    /\ UNCHANGED <<hostVars, localVars, watchVars, uploads, path, snap, rerun,
                   canceled, timerVars, handlerVars>>

\* Deleted while the last bytes were in flight: record nothing.
UploadLanded(u) ==
    /\ pc[u] = "landed"
    /\ IF canceled[u] THEN Return(u, FALSE) ELSE Stage(u, "record") /\ UNCHANGED retry
    /\ UNCHANGED <<hostVars, localVars, remote, watchVars, uploads, path, snap,
                   rerun, canceled, timerVars, handlerVars>>

\* MarkSynced, or MarkPending if the file changed during the upload.
UploadRecord(u) ==
    /\ pc[u] = "record"
    /\ IF Fresh(path[u], snap[u])
       THEN WriteSynced(path[u]) /\ UNCHANGED remarked
       ELSE MarkPending(path[u])
    /\ Return(u, FALSE)
    /\ UNCHANGED <<hostVars, file, writes, remote, watchVars, uploads, path, snap,
                   rerun, canceled, timerVars, handlerVars>>

\* Mutant: a trigger during an upload is dropped.
RerunWanted_Never(u) == FALSE

\* A trigger came during the attempt, and no delete canceled it.
RerunWanted(u) == rerun[u] /\ ~canceled[u]

\* A trigger came during the attempt: go round again.
UploadRerun(u) ==
    /\ pc[u] = "returned" /\ RerunWanted(u)
    /\ rerun' = [rerun EXCEPT ![u] = FALSE]
    /\ remarked' = [remarked EXCEPT ![path[u]] = FALSE]
    /\ Stage(u, "open")
    /\ UNCHANGED <<hostVars, file, writes, meta, metaVer, remote, watchVars, uploads,
                   path, snap, retry, canceled, timerVars, handlerVars>>

\* scheduleRetryLocked: push the path's timer back, or make one.
ScheduleRetry(p) ==
    /\ retries' = [retries EXCEPT ![p] = IF @ < MaxRetries THEN @ + 1 ELSE @]
    /\ IF retryTimers[p] # None
       THEN /\ armed' = [armed EXCEPT ![retryTimers[p]] = TRUE]
            /\ UNCHANGED <<retryTimers, timerPath>>
       ELSE \E t \in Timers :
              /\ timerPath[t] = None
              /\ timerPath' = [timerPath EXCEPT ![t] = p]
              /\ armed' = [armed EXCEPT ![t] = TRUE]
              /\ retryTimers' = [retryTimers EXCEPT ![p] = t]
    /\ UNCHANGED fired

\* A timer nobody refers to any more is free again.
Freed(t) == timerPath' = [timerPath EXCEPT ![t] = None]

\* Forget the retries of a path; a callback that already runs is not stopped.
StopRetry(p) ==
    /\ retries' = [retries EXCEPT ![p] = 0]
    /\ retryTimers' = [retryTimers EXCEPT ![p] = None]
    /\ IF retryTimers[p] # None
       THEN /\ armed' = [armed EXCEPT ![retryTimers[p]] = FALSE]
            /\ IF fired[retryTimers[p]] THEN UNCHANGED timerPath ELSE Freed(retryTimers[p])
       ELSE UNCHANGED <<armed, timerPath>>
    /\ UNCHANGED fired

\* Mutant: a failed upload is not retried.
RetryWanted_Never(u) == FALSE

\* The attempt failed, and not because a delete canceled it.
RetryWanted(u) == retry[u] /\ ~canceled[u]

\* Mutant: st.done is never closed.
CloseDone_Never(u) == UNCHANGED waitFor

\* close(st.done) wakes every handler that waits for the upload.
CloseDone(u) ==
    waitFor' = [h \in Handlers |-> IF waitFor[h] = u THEN None ELSE waitFor[h]]

\* Leave uploads, arrange or stop the retry, and close st.done.
UploadFinish(u) ==
    /\ pc[u] = "returned" /\ ~RerunWanted(u)
    /\ uploads' = [uploads EXCEPT ![path[u]] = None]
    /\ IF RetryWanted(u) THEN ScheduleRetry(path[u]) ELSE StopRetry(path[u])
    /\ CloseDone(u)
    /\ snap' = [snap EXCEPT ![u] = 0]
    /\ retry' = [retry EXCEPT ![u] = FALSE]
    /\ rerun' = [rerun EXCEPT ![u] = FALSE]
    /\ canceled' = [canceled EXCEPT ![u] = FALSE]
    /\ Exit(u)
    /\ UNCHANGED <<hostVars, localVars, remote, watchVars, blocked, hpc, target, gone>>

\* The runtime starts the callback; from here Stop and Reset do not undo it.
\* Bound: one callback of a timer at a time waits for uploadsMu.
TimerFire(t) ==
    /\ up /\ armed[t] /\ ~fired[t]
    /\ armed' = [armed EXCEPT ![t] = FALSE]
    /\ fired' = [fired EXCEPT ![t] = TRUE]
    /\ UNCHANGED <<hostVars, localVars, remote, watchVars, uploadVars, retries,
                   retryTimers, timerPath, handlerVars>>

\* The callback: forget the timer if it is still the path's, ask for an upload.
TimerCallback(t) ==
    /\ fired[t]
    /\ fired' = [fired EXCEPT ![t] = FALSE]
    /\ retryTimers' = [p \in Paths |-> IF retryTimers[p] = t THEN None ELSE retryTimers[p]]
    /\ IF armed[t] THEN UNCHANGED timerPath ELSE Freed(t)
    /\ RequestUpload(timerPath[t])
    /\ UNCHANGED <<hostVars, localVars, remote, watched, events, pending, uploadVars,
                   retries, armed, handlerVars>>
(***************************************************************************)
(* handleDelete: blockUploads, DeleteObject, cache.Remove, unblock.        *)
(***************************************************************************)
\* Mutant: the upload in flight is neither canceled nor waited for.
InFlight_Ignored(p) == None

\* The upload whose end a blocking handler waits for.
InFlight(p) == uploads[p]

\* blockUploads: count the block, cancel the upload in flight.
DeleteBlock(h, p) ==
    /\ up /\ hpc[h] = "idle"
    /\ hpc' = [hpc EXCEPT ![h] = "waiting"]
    /\ target' = [target EXCEPT ![h] = p]
    /\ blocked' = [blocked EXCEPT ![p] = @ + 1]
    /\ waitFor' = [waitFor EXCEPT ![h] = InFlight(p)]
    /\ IF InFlight(p) # None
       THEN /\ canceled' = [canceled EXCEPT ![InFlight(p)] = TRUE]
            /\ rerun' = [rerun EXCEPT ![InFlight(p)] = FALSE]
       ELSE UNCHANGED <<canceled, rerun>>
    /\ UNCHANGED <<hostVars, localVars, remote, watchVars, uploads, pc, path, snap,
                   retry, timerVars, gone>>

\* st.done is closed (or there was no upload): DeleteObject succeeds.
DeleteObject(h) ==
    /\ hpc[h] = "waiting" /\ waitFor[h] = None
    /\ remote' = [remote EXCEPT ![target[h]] = 0]
    /\ hpc' = [hpc EXCEPT ![h] = "removing"]
    /\ UNCHANGED <<hostVars, localVars, watchVars, uploadVars, timerVars, blocked,
                   target, waitFor, gone>>

\* DeleteObject fails (or its answer is lost): error 500, nothing else done.
DeleteFail(h) ==
    /\ DeleteMayFail
    /\ hpc[h] = "waiting" /\ waitFor[h] = None
    /\ \E v \in {0, remote[target[h]]} : remote' = [remote EXCEPT ![target[h]] = v]
    /\ hpc' = [hpc EXCEPT ![h] = "unblocking"]
    /\ UNCHANGED <<hostVars, localVars, watchVars, uploadVars, timerVars, blocked,
                   target, waitFor, gone>>

\* cache.Remove drops the file and its metadata; the caller is told "ok".
RemoveLocal(h) ==
    /\ hpc[h] = "removing"
    /\ file' = [file EXCEPT ![target[h]] = 0]
    /\ meta' = [meta EXCEPT ![target[h]] = "none"]
    /\ metaVer' = [metaVer EXCEPT ![target[h]] = 0]
    /\ gone' = [gone EXCEPT ![target[h]] = TRUE]
    /\ inUse' = inUse \ {target[h]}
    /\ hpc' = [hpc EXCEPT ![h] = "unblocking"]
    /\ UNCHANGED <<up, crashes, writes, remarked, remote, watchVars, uploadVars,
                   timerVars, blocked, target, waitFor>>

\* cache.Remove cannot unlink the file: it keeps the metadata and clears a
\* pending flag (whether that covers the file depends on its size).
RemoveFail(h) ==
    /\ RemoveMayFail
    /\ hpc[h] = "removing" /\ file[target[h]] # 0
    /\ IF meta[target[h]] = "pending"
       THEN /\ meta' = [meta EXCEPT ![target[h]] = "synced"]
            /\ \E v \in {metaVer[target[h]], file[target[h]]} :
                  metaVer' = [metaVer EXCEPT ![target[h]] = v]
       ELSE UNCHANGED <<meta, metaVer>>
    /\ gone' = [gone EXCEPT ![target[h]] = TRUE]
    /\ hpc' = [hpc EXCEPT ![h] = "unblocking"]
    /\ UNCHANGED <<hostVars, file, writes, remarked, remote, watchVars, uploadVars,
                   timerVars, blocked, target, waitFor>>

\* The deferred unblock.
Unblock(h) ==
    /\ hpc[h] = "unblocking"
    /\ blocked' = [blocked EXCEPT ![target[h]] = @ - 1]
    /\ hpc' = [hpc EXCEPT ![h] = "idle"]
    /\ target' = [target EXCEPT ![h] = None]
    /\ UNCHANGED <<hostVars, localVars, remote, watchVars, uploadVars, timerVars,
                   waitFor, gone>>

(***************************************************************************)
(* Crash and start of the daemon.                                          *)
(***************************************************************************)
\* The process dies (or is stopped: main does not wait for uploads).  A
\* PutObject in flight has reached S3 or never will.
Crash ==
    /\ up /\ crashes < MaxCrashes
    /\ up' = FALSE /\ crashes' = crashes + 1
    /\ \E landed \in SUBSET {u \in Uploaders : pc[u] = "put"} :
          remote' = [p \in Paths |->
              IF \E u \in landed : path[u] = p
              THEN snap[CHOOSE u \in landed : path[u] = p] ELSE remote[p]]
    /\ pending' = {} /\ queue' = << >> /\ watched' = {}
    /\ events' = [p \in Paths |-> 0]
    /\ uploads' = [p \in Paths |-> None]
    /\ pc' = [u \in Uploaders |-> "idle"] /\ path' = [u \in Uploaders |-> None]
    /\ snap' = [u \in Uploaders |-> 0]
    /\ retry' = [u \in Uploaders |-> FALSE] /\ rerun' = [u \in Uploaders |-> FALSE]
    /\ canceled' = [u \in Uploaders |-> FALSE]
    /\ remarked' = [p \in Paths |-> FALSE]
    /\ retries' = [p \in Paths |-> 0] /\ retryTimers' = [p \in Paths |-> None]
    /\ timerPath' = [t \in Timers |-> None]
    /\ armed' = [t \in Timers |-> FALSE] /\ fired' = [t \in Timers |-> FALSE]
    /\ blocked' = [p \in Paths |-> 0]
    /\ hpc' = [h \in Handlers |-> "idle"] /\ target' = [h \in Handlers |-> None]
    /\ waitFor' = [h \in Handlers |-> None]
    /\ UNCHANGED <<inUse, file, writes, meta, metaVer, gone>>

\* scanPendingUploads queues a file without metadata, and marks and queues one
\* whose metadata does not cover it.
Unconfirmed(p) == file[p] # 0 /\ (meta[p] = "none" \/ Markable(p))

\* watchCacheDirs starts: the scan, and the first addWatchDirs (with WatchGaps
\* it may come later, or the directory may not exist yet).
Start ==
    /\ ~up /\ up' = TRUE
    /\ pending' = {p \in Paths : Unconfirmed(p)}
    /\ meta' = [p \in Paths |->
          IF meta[p] # "none" /\ Markable(p) THEN "pending" ELSE meta[p]]
    /\ metaVer' = [p \in Paths |->
          IF meta[p] # "none" /\ Markable(p) THEN file[p] ELSE metaVer[p]]
    /\ watched' = IF WatchGaps THEN {} ELSE Paths
    /\ UNCHANGED <<crashes, inUse, file, writes, remarked, remote, events, queue, uploadVars,
                   timerVars, handlerVars>>

(***************************************************************************)
(* The specification.                                                      *)
(***************************************************************************)
Upload(u) ==
    \/ EnterBlocked(u) \/ EnterRunning(u) \/ EnterFresh(u)
    \/ UploadOpen(u) \/ UploadArm(u) \/ UploadCheck(u)
    \/ HeadUnknown(u) \/ HeadLocalWins(u) \/ HeadRemoteWins(u)
    \/ PutOK(u) \/ PutFail(u) \/ UploadLanded(u) \/ UploadRecord(u)
    \/ UploadRerun(u) \/ UploadFinish(u)

Delete(h) ==
    \/ DeleteObject(h) \/ DeleteFail(h)
    \/ RemoveLocal(h) \/ RemoveFail(h)
    \/ Unblock(h)

Watch ==
    \/ WatcherRequest
    \/ \E p \in Paths : WatcherEvent(p) \/ TickDrop(p) \/ TickSpawn(p)

Next ==
    \/ \E p \in Paths :
          PVEWrite(p) \/ PVEOpen(p) \/ PVEClose(p) \/ DownloadPending(p) \/ AddWatch(p)
    \/ Watch
    \/ \E u \in Uploaders : Upload(u)
    \/ \E t \in Timers : TimerFire(t) \/ TimerCallback(t)
    \/ \E h \in Handlers : Delete(h) \/ \E p \in Paths : DeleteBlock(h, p)
    \/ Crash
    \/ Start

Spec == Init /\ [][Next]_vars

\* The Go scheduler runs every goroutine that can run, select serves every
\* ready case, timers fire, network calls end (uploads and the HEAD have a
\* context with a timeout, DeleteObject the timeouts of the transport), the
\* service manager starts the daemon; and S3 does not fail for ever.  Nothing
\* makes PVE close a file.
Fairness ==
    /\ WF_vars(Start)
    /\ WF_vars(WatcherRequest)
    /\ \A p \in Paths : /\ WF_vars(WatcherEvent(p))
                        /\ WF_vars(TickDrop(p))
                        /\ WF_vars(TickSpawn(p))
    /\ \A u \in Uploaders : /\ WF_vars(Upload(u))
                            /\ SF_vars(PutOK(u))
                            /\ SF_vars(HeadLocalWins(u) \/ HeadRemoteWins(u))
    /\ \A t \in Timers : WF_vars(TimerFire(t)) /\ WF_vars(TimerCallback(t))
    /\ \A h \in Handlers : WF_vars(Delete(h))

FairSpec == Spec /\ Fairness

(***************************************************************************)
(* Properties.                                                             *)
(***************************************************************************)
\* A handler is past <-st.done and has not lifted its block.
Holds(h, p) == hpc[h] # "idle" /\ waitFor[h] = None /\ target[h] = p

\* uploadNewFile deduplicates triggers: two goroutines never work on the same
\* path at once, whatever the order of ticks, reruns and retries.
OneUploadPerPath ==
    \A u, v \in Uploaders :
        pc[u] \in Registered /\ pc[v] \in Registered /\ path[u] = path[v] => u = v

\* blockUploads: once a delete got past its wait, no upload of the path is in
\* any stage and none starts until every delete of the path has unblocked.
NoUploadWhileHeld ==
    \A h \in Handlers, u \in Uploaders :
        Holds(h, path[u]) => pc[u] \notin Registered

\* No PutObject lands after the DeleteObject of a delete: the object stays off
\* S3 until PVE writes the file again.
NoResurrection ==
    \A p \in Paths :
        gone[p] \/ (\E h \in Handlers : hpc[h] = "removing" /\ target[h] = p)
            => remote[p] = 0

\* A local file whose content is not recorded as being on S3.
Owed(p) == file[p] # 0 /\ ~Covers(p, file[p])

\* Something is still going to look at the path: an event, the debounce map, a
\* request, an upload that has not given up, a timer, or a delete.
Engaged(p) ==
    \/ events[p] > 0
    \/ p \in pending
    \/ \E i \in DOMAIN queue : queue[i] = p
    \/ \E u \in Uploaders :
          /\ path[u] = p
          /\ pc[u] = "returned" => (retry[u] \/ rerun[u]) /\ ~canceled[u]
    \/ \E t \in Timers : timerPath[t] = p
    \/ \E h \in Handlers : target[h] = p /\ hpc[h] \in {"waiting", "removing"}

\* A write by PVE is never forgotten while the daemon runs: as long as the file
\* is not recorded as uploaded, something is engaged on it (single cached path,
\* so that a full queue already holds the path).
NoWriteForgotten == \A p \in Paths : up /\ Owed(p) => Engaged(p)

\* The step that records an upload as done is right: at that moment the object
\* has exactly the content of the file.
RecordRight ==
    \A u \in Uploaders :
        pc[u] = "record" /\ pc'[u] = "returned" /\ Owed(path[u]) /\ ~Owed(path[u])'
            => remote[path[u]] = file[path[u]]

\* MarkSynced after a PutObject tells the truth, although the file may have been
\* rewritten in place, marked or deleted while the PutObject was running.
RecordedIsStored == [][RecordRight]_vars

\* The abstract view: who has access to the object of a path.
Uploading == {p \in Paths : \E u \in Uploaders : pc[u] \in Registered /\ path[u] = p}
Held      == {p \in Paths : \E h \in Handlers : Holds(h, p)}

Access == INSTANCE ObjectAccess
              WITH Objects <- Paths, Contents <- Versions, NoContent <- 0,
                   store <- remote, uploading <- Uploading, held <- Held

\* Uploads and deletes of a path take turns on its object, and only the one
\* whose turn it is changes the object.
ImplementsObjectAccess == Access!Spec

\* A delete never waits for ever for the upload it canceled.
DeleteEnds == \A h \in Handlers : hpc[h] = "waiting" ~> hpc[h] = "idle"

\* Every write reaches S3 (or is deleted, or superseded by a later one that
\* does): through failures with back-off, rewrites, deletes and a crash,
\* provided that in the end no other process keeps the file open (fileInUse
\* leaves such a file in the debounce map for as long as that lasts).
EventuallyUploaded ==
    \A p \in Paths : <>[](p \notin inUse) => (Owed(p) ~> ~Owed(p))

(***************************************************************************)
(* The inductive invariant behind the safety properties.                   *)
(***************************************************************************)
\* uploads holds exactly the goroutines that are working.
UploadsMatch ==
    /\ \A u \in Uploaders : path[u] = None <=> pc[u] = "idle"
    /\ \A u \in Uploaders : pc[u] \in Registered => uploads[path[u]] = u
    /\ \A p \in Paths : uploads[p] # None =>
          pc[uploads[p]] \in Registered /\ path[uploads[p]] = p

\* A delete waits for the upload registered under its path; past the wait no
\* upload is registered there.
WaitsMatch ==
    \A h \in Handlers :
        /\ target[h] = None <=> hpc[h] = "idle"
        /\ waitFor[h] # None => hpc[h] = "waiting"
        /\ hpc[h] # "idle" => uploads[target[h]] = waitFor[h]

\* blocked counts the deletes of a path, so no unblock is lost or doubled.
Deleting(p) == {h \in Handlers : target[h] = p}
BlocksMatch == \A p \in Paths : blocked[p] = Cardinality(Deleting(p))

\* A timer in the map was made for that path; one that is set or has fired was
\* made for some path.
TimersMatch ==
    /\ \A p \in Paths : retryTimers[p] # None => timerPath[retryTimers[p]] = p
    /\ \A t \in Timers : armed[t] \/ fired[t] => timerPath[t] # None

\* Version numbers only grow; a PutObject that returned stored the file as it
\* was opened, unless the file has changed since.
VersionsMatch ==
    /\ \A p \in Paths : file[p] <= writes[p]
    /\ \A u \in Uploaders : snap[u] # 0 =>
          pc[u] \in Registered /\ snap[u] <= writes[path[u]]
    /\ \A u \in Uploaders :
          pc[u] \in {"landed", "record"} /\ file[path[u]] # 0 /\ file[path[u]] = snap[u]
              => remote[path[u]] = snap[u]

\* A deleted file is gone everywhere and no upload has it open.
GoneMatch ==
    \A p \in Paths :
        /\ gone[p] => /\ file[p] = 0 /\ remote[p] = 0
                      /\ \A u \in Uploaders :
                            path[u] = p => pc[u] \notin {"arm", "check", "head", "put"}
        /\ (\E h \in Handlers : hpc[h] = "removing" /\ target[h] = p) => remote[p] = 0

ControlInv ==
    TypeOK /\ UploadsMatch /\ WaitsMatch /\ BlocksMatch /\ TimersMatch

StoreInv == ControlInv /\ VersionsMatch /\ (~RemoveMayFail => GoneMatch)
=============================================================================
