----------------------------- MODULE RenameCopy -----------------------------
(***************************************************************************)
(* handleRename and handleCopy (internal/api/api.go): two keys of one      *)
(* storage, their objects, cache files and metadata, against background    *)
(* uploads of both, PVE, another node, failures and a crash.               *)
(*                                                                         *)
(* A content is a number that is also its ETag, 0 is "none", and Partial   *)
(* is the beginning of a file that is being copied.                        *)
(***************************************************************************)
EXTENDS Naturals, FiniteSets

CONSTANTS
    Keys,
    Requests,      \* concurrent rename and copy requests
    NoKey,
    Partial,
    MaxVer,        \* bound: contents
    MaxCrashes,    \* bound: crashes
    MaxRequests,   \* bound: requests begun
    S3MayFail,     \* requests to S3 (with or without effect) and local copies may fail
    OtherNodes,    \* another node writes objects
    FreeNames,     \* requests name destinations that are not in use
    BusyWrites     \* PVE and the other node may write a key a request works on

ASSUME KeyAssumption == NoKey \notin Keys /\ Partial \notin Nat
ASSUME BoundAssumption ==
    MaxVer \in Nat \ {0} /\ MaxCrashes \in Nat /\ MaxRequests \in Nat
ASSUME FlagAssumption == {S3MayFail, OtherNodes, FreeNames, BusyWrites} \subseteq BOOLEAN

VARIABLES
    up, crashes, begun,
    last,      \* the last content written
    cache,     \* [Keys -> file, its metadata (meta, tag), and whether the metadata
               \* was recorded after the file's last write (fresh)]
    remote,    \* [Keys -> content] the objects
    stored,    \* ghost: contents that have been on S3
    events,    \* keys with an inotify event that waits
    queued,    \* keys in the debounce map, the queue or a timer
    upload,    \* [Keys -> stage of uploadOnce, file as opened, still the same, canceled]
    req,       \* [Requests -> the request, see ReqType]
    gone       \* ghost: keys renamed away and not written since

vars == <<up, crashes, begun, last, cache, remote, stored, events, queued, upload, req, gone>>

Contents == 0..MaxVer \cup {Partial}
Absent   == [file |-> 0, meta |-> "none", tag |-> 0, fresh |-> FALSE]
NoUpload == [at |-> "idle", snap |-> 0, same |-> FALSE, canceled |-> FALSE]
NoReq    == [at |-> "idle", op |-> "none", from |-> NoKey, to |-> NoKey, blocks |-> {},
             cached |-> FALSE, etag |-> 0, snap |-> 0, info |-> NoKey, want |-> 0,
             sure |-> FALSE]
Stages   == {"idle", "block", "wait", "look", "copyobject", "create", "fill", "open", "put",
             "delete", "move", "stat", "record", "forget", "done"}

CacheType  == [file: Contents, meta: {"none", "pending", "synced"}, tag: Contents,
               fresh: BOOLEAN]
UploadType == [at: {"idle", "put", "record"}, snap: Contents, same: BOOLEAN,
               canceled: BOOLEAN]
\* cached: srcCached; etag: of the destination's object; snap: the local file as
\* opened; info: where the file described by the FileInfo in hand is, if anywhere.
\* Ghosts, about the source when it was looked at: want: what it was (or what its own
\* upload has made of it since); sure: its cached copy was its object, or a marked
\* write that S3 never had.
ReqType    == [at: Stages, op: {"none", "rename", "copy"}, from: Keys \cup {NoKey},
               to: Keys \cup {NoKey}, blocks: SUBSET Keys, cached: BOOLEAN, etag: Contents,
               snap: Contents, info: Keys \cup {NoKey}, want: Contents, sure: BOOLEAN]

TypeOK ==
    /\ up \in BOOLEAN /\ crashes \in 0..MaxCrashes /\ begun \in 0..MaxRequests
    /\ last \in 0..MaxVer
    /\ cache \in [Keys -> CacheType]
    /\ \A k \in Keys : cache[k].meta # "synced" => cache[k].tag = 0
    /\ remote \in [Keys -> Contents]
    /\ stored \subseteq Contents /\ gone \subseteq Keys
    /\ events \subseteq Keys /\ queued \subseteq Keys
    /\ upload \in [Keys -> UploadType] /\ req \in [Requests -> ReqType]

\* The daemon runs and every key is absent, only on S3, or cached in sync.
Init ==
    /\ up = TRUE /\ crashes = 0 /\ begun = 0 /\ last = 1
    /\ remote \in [Keys -> {0, 1}]
    /\ cache \in [Keys -> {Absent, [file |-> 1, meta |-> "synced", tag |-> 1, fresh |-> TRUE]}]
    /\ \A k \in Keys : cache[k].file \in {0, remote[k]}
    /\ stored = {1} /\ events = {} /\ queued = {}
    /\ gone = {}
    /\ upload = [k \in Keys |-> NoUpload]
    /\ req = [h \in Requests |-> NoReq]

(***************************************************************************)
(* Files, metadata, objects.                                               *)
(***************************************************************************)
Covers(c) == c.meta = "synced" /\ c.fresh

\* Entry c after its file was written: v, with the metadata as it was.
Written(c, v) == [c EXCEPT !.file = v, !.fresh = FALSE]

\* Mutant: the ETag of the content before stays.
Marked_KeepTag(c) ==
    IF c.file = 0 \/ Covers(c) THEN c
    ELSE [c EXCEPT !.meta = "pending", !.fresh = TRUE]

\* Entry c after MarkPending.
Marked(c) ==
    IF c.file = 0 \/ Covers(c) THEN c
    ELSE [c EXCEPT !.meta = "pending", !.tag = 0, !.fresh = TRUE]

\* Entry c after writeMeta of in-sync metadata with this ETag.
Synced(c, etag) == [c EXCEPT !.meta = "synced", !.tag = etag, !.fresh = TRUE]

\* Whoever opened or described the file at k has not seen its new content.
Touch(r, k) == [h \in Requests |-> IF r[h].info = k THEN [r[h] EXCEPT !.info = NoKey] ELSE r[h]]
Rewritten(k) == upload' = [upload EXCEPT ![k].same = FALSE]

WriteRemote(k, v) == remote' = [remote EXCEPT ![k] = v] /\ stored' = stored \cup {v}

(***************************************************************************)
(* PVE and the other node.                                                 *)
(***************************************************************************)
Working(k) == \E h \in Requests : k \in {req[h].from, req[h].to}

\* Entry c of k after an event.  An episode that runs, in the debounce map, marks nothing
\* more; a key that is only in the queue or in a timer is not in the map.
Noticed(k, c) == {Marked(c)} \cup (IF k \in queued THEN {c} ELSE {})

\* A write by PVE while the daemon runs (UploadControl has the others).  Its event is
\* handled before anything else happens.
PVEWrite(k) ==
    /\ up /\ last < MaxVer /\ (BusyWrites \/ ~Working(k))
    /\ last' = last + 1
    /\ \E c \in Noticed(k, Written(cache[k], last')) : cache' = [cache EXCEPT ![k] = c]
    /\ queued' = queued \cup {k} /\ gone' = gone \ {k}
    /\ Rewritten(k) /\ req' = Touch(req, k)
    /\ UNCHANGED <<up, crashes, begun, remote, stored, events>>

OtherPut(k) ==
    /\ OtherNodes /\ last < MaxVer /\ (BusyWrites \/ ~Working(k))
    /\ last' = last + 1
    /\ WriteRemote(k, last') /\ gone' = gone \ {k}
    /\ UNCHANGED <<up, crashes, begun, cache, events, queued, upload, req>>

(***************************************************************************)
(* The watcher and the background upload (coarser than in UploadControl).  *)
(***************************************************************************)
\* An event of a write by the daemon itself is handled some time after it.
WatcherEvent(k) ==
    /\ up /\ k \in events
    /\ events' = events \ {k}
    /\ \E c \in Noticed(k, cache[k]) :
          /\ cache' = [cache EXCEPT ![k] = c]
          /\ queued' = IF Marked(cache[k]) = cache[k] THEN queued ELSE queued \cup {k}
    /\ UNCHANGED <<up, crashes, begun, last, remote, stored, upload, req, gone>>

\* Mutant: blocks are ignored.
Blocked_Never(k) == FALSE

Blocked(k) == \E h \in Requests : k \in req[h].blocks

\* A tick: drop a file that is gone or covered, upload one that wins over S3, and
\* record without ETag one without metadata that is older than its object.
UploadStart(k) ==
    /\ up /\ k \in queued /\ ~Blocked(k) /\ upload[k].at = "idle"
    /\ queued' = queued \ {k}
    /\ \/ cache[k].file # 0 /\ ~Covers(cache[k])
          /\ upload' = [upload EXCEPT ![k] =
                           [at |-> "put", snap |-> cache[k].file, same |-> TRUE,
                            canceled |-> FALSE]]
          /\ UNCHANGED cache
       \/ cache[k].file # 0 /\ cache[k].meta = "none" /\ remote[k] # 0
          /\ cache' = [cache EXCEPT ![k] = Synced(@, IF @.file = remote[k] THEN remote[k] ELSE 0)]
          /\ UNCHANGED upload
       \/ (cache[k].file = 0 \/ Covers(cache[k])) /\ UNCHANGED <<cache, upload>>
    /\ UNCHANGED <<up, crashes, begun, last, remote, stored, events, req, gone>>

\* Ghost: the object that a request is about to copy is another one now.
Sends(k, v) ==
    /\ WriteRemote(k, v)
    /\ req' = [h \in Requests |->
                 IF req[h].at = "copyobject" /\ req[h].from = k THEN [req[h] EXCEPT !.want = v]
                 ELSE req[h]]

UploadPut(k) ==
    /\ upload[k].at = "put"
    /\ \/ /\ Sends(k, upload[k].snap)
          /\ upload' = [upload EXCEPT ![k].at = "record"] /\ UNCHANGED queued
       \/ /\ S3MayFail \/ upload[k].canceled
          /\ Sends(k, upload[k].snap) \/ UNCHANGED <<remote, stored, req>>
          /\ upload' = [upload EXCEPT ![k] = NoUpload]
          /\ queued' = IF upload[k].canceled THEN queued ELSE queued \cup {k}
    /\ UNCHANGED <<up, crashes, begun, last, cache, events, gone>>

UploadRecord(k) ==
    /\ upload[k].at = "record"
    /\ upload' = [upload EXCEPT ![k] = NoUpload]
    /\ cache' = IF upload[k].canceled THEN cache
                ELSE [cache EXCEPT ![k] = IF upload[k].same THEN Synced(@, upload[k].snap)
                                          ELSE Marked(@)]
    /\ UNCHANGED <<up, crashes, begun, last, remote, stored, events, queued, req, gone>>

\* EvictByAge removes a file that is not pending (a request may be using it).
Evict(k) ==
    /\ up /\ cache[k].file # 0 /\ cache[k].meta = "synced"
    /\ cache' = [cache EXCEPT ![k] = Absent]
    /\ Rewritten(k) /\ req' = Touch(req, k)
    /\ UNCHANGED <<up, crashes, begun, last, remote, stored, events, queued, gone>>

(***************************************************************************)
(* The requests.  A request that ends lifts its blocks (deferred).         *)
(***************************************************************************)
Rename(h) == req[h].op = "rename"
Go(r, s)  == [r EXCEPT !.at = s]
Set(h, r) == req' = [req EXCEPT ![h] = r]
End(h)    == Set(h, NoReq)

\* blockUploads of the first name: the source of a rename, the destination of a copy.
BlockUploads(h, r, k, s) ==
    /\ Set(h, [r EXCEPT !.at = s, !.blocks = @ \cup {k}])
    /\ upload' = [upload EXCEPT ![k].canceled = (upload[k].at # "idle")]

Begin(h, op, f, t) ==
    /\ up /\ req[h].at = "idle" /\ f # t /\ begun < MaxRequests
    /\ FreeNames => remote[t] = 0 /\ cache[t].file = 0 /\ ~Working(t)
    /\ begun' = begun + 1 /\ gone' = gone \ {t}
    /\ LET r == [NoReq EXCEPT !.op = op, !.from = f, !.to = t]
       IN  IF op = "rename" THEN BlockUploads(h, r, f, "block") ELSE BlockUploads(h, r, t, "wait")
    /\ UNCHANGED <<up, crashes, last, cache, remote, stored, events, queued>>

\* The source's upload has ended; block the destination of a rename.
BlockTo(h) ==
    /\ req[h].at = "block" /\ upload[req[h].from].at = "idle"
    /\ BlockUploads(h, req[h], req[h].to, "wait")
    /\ UNCHANGED <<up, crashes, begun, last, cache, remote, stored, events, queued, gone>>

\* Mutant: a pending source is copied on S3 like any other.
LocalAuthoritative_Never(k) == FALSE

LocalAuthoritative(k) == cache[k].file # 0 /\ cache[k].meta \in {"none", "pending"}

\* The destination's upload has ended: is the source cached, and does it win?
Look(h) ==
    /\ req[h].at = "wait" /\ upload[req[h].to].at = "idle"
    /\ LET r     == req[h]
           local == LocalAuthoritative(r.from)
       IN  Set(h, [r EXCEPT !.at = IF ~local THEN "copyobject"
                                   ELSE IF Rename(h) THEN "open" ELSE "create",
                            !.cached = (cache[r.from].file # 0),
                            !.want = IF local THEN cache[r.from].file ELSE remote[r.from],
                            !.sure = \/ cache[r.from].file \in {0, remote[r.from]}
                                     \/ /\ cache[r.from].meta # "synced"
                                        /\ cache[r.from].file \notin stored])
    /\ UNCHANGED <<up, crashes, begun, last, cache, remote, stored, events, queued, upload, gone>>

CopyObject(h) ==
    /\ req[h].at = "copyobject"
    /\ LET r == req[h] IN
       \/ /\ remote[r.from] # 0 /\ WriteRemote(r.to, remote[r.from])
          /\ Set(h, [r EXCEPT !.etag = remote[r.from],
                              !.at = IF Rename(h) THEN "delete"
                                     ELSE IF r.cached THEN "create" ELSE "done"])
       \/ /\ S3MayFail \/ remote[r.from] = 0
          /\ \/ remote[r.from] # 0 /\ WriteRemote(r.to, remote[r.from])
             \/ UNCHANGED <<remote, stored>>
          /\ IF r.cached
             THEN Set(h, [r EXCEPT !.at = IF Rename(h) THEN "open" ELSE "create",
                                   !.want = cache[r.from].file])
             ELSE End(h)
    /\ UNCHANGED <<up, crashes, begun, last, cache, events, queued, upload, gone>>

\* copyLocalFile: truncate or create the destination ...
CopyCreate(h) ==
    /\ req[h].at = "create"
    /\ LET r == req[h] IN
       IF cache[r.from].file # 0
       THEN /\ cache' = [cache EXCEPT ![r.to] = Written(@, Partial)]
            /\ events' = events \cup {r.to} /\ Rewritten(r.to)
            /\ req' = [Touch(req, r.to) EXCEPT ![h] = [r EXCEPT !.at = "fill",
                                                               !.snap = cache[r.from].file]]
       ELSE /\ Set(h, IF r.etag # 0 THEN Go(r, "done") ELSE NoReq)
            /\ UNCHANGED <<cache, events, upload>>
    /\ UNCHANGED <<up, crashes, begun, last, remote, stored, queued, gone>>

\* ... and fill it, or remove it if that fails.
CopyFill(h) ==
    /\ req[h].at = "fill"
    /\ LET r == req[h] IN
       \/ /\ cache' = [cache EXCEPT ![r.to] = Written(@, r.snap)]
          /\ events' = events \cup {r.to}
          /\ req' = [Touch(req, r.to) EXCEPT ![h] = Go(r, IF r.etag # 0 THEN "stat" ELSE "open")]
       \/ /\ S3MayFail
          /\ cache' = [cache EXCEPT ![r.to] = Written(@, 0)]
          /\ req' = [Touch(req, r.to) EXCEPT ![h] = IF r.etag # 0 THEN Go(r, "done") ELSE NoReq]
          /\ UNCHANGED events
    /\ Rewritten(req[h].to)
    /\ UNCHANGED <<up, crashes, begun, last, remote, stored, queued, gone>>

\* putFile of the source (rename) or of the local destination (copy).
PutOpen(h) ==
    /\ req[h].at = "open"
    /\ LET r == req[h]
           k == IF Rename(h) THEN r.from ELSE r.to
       IN  Set(h, IF cache[k].file = 0 THEN NoReq
                  ELSE [r EXCEPT !.at = "put", !.info = k, !.snap = cache[k].file])
    /\ UNCHANGED <<up, crashes, begun, last, cache, remote, stored, events, queued, upload, gone>>

\* A failed copy takes its local destination back (Invalidate).
Put(h) ==
    /\ req[h].at = "put"
    /\ LET r == req[h] IN
       \/ /\ WriteRemote(r.to, r.snap)
          /\ Set(h, [r EXCEPT !.etag = r.snap, !.at = IF Rename(h) THEN "delete" ELSE "record"])
          /\ UNCHANGED <<cache, upload>>
       \/ /\ S3MayFail
          /\ WriteRemote(r.to, r.snap) \/ UNCHANGED <<remote, stored>>
          /\ IF Rename(h) THEN UNCHANGED <<cache, upload>>
             ELSE cache' = [cache EXCEPT ![r.to] = Absent] /\ Rewritten(r.to)
          /\ End(h)
    /\ UNCHANGED <<up, crashes, begun, last, events, queued, gone>>

\* The source's object goes; a failure is only logged.
DeleteObject(h) ==
    /\ req[h].at = "delete"
    /\ LET r == req[h] IN
       /\ \/ remote' = [remote EXCEPT ![r.from] = 0] /\ gone' = gone \cup {r.from}
          \/ S3MayFail /\ UNCHANGED <<remote, gone>>
       /\ Set(h, Go(r, IF r.cached THEN "move" ELSE "forget"))
    /\ UNCHANGED <<up, crashes, begun, last, cache, stored, events, queued, upload>>

\* The local rename; the file in hand moves along.
Move(h) ==
    /\ req[h].at = "move"
    /\ LET r == req[h] IN
       IF cache[r.from].file # 0
       THEN /\ cache' = [cache EXCEPT ![r.to] = Written(@, cache[r.from].file),
                                      ![r.from] = Written(@, 0)]
            /\ events' = events \cup {r.to}
            /\ Set(h, IF r.info = r.from THEN [r EXCEPT !.info = r.to, !.at = "record"]
                      ELSE Go(r, IF r.snap # 0 THEN "record" ELSE "stat"))
       ELSE Set(h, Go(r, "forget")) /\ UNCHANGED <<cache, events>>
    /\ UNCHANGED <<up, crashes, begun, last, remote, stored, queued, upload, gone>>

StatTo(h) ==
    /\ req[h].at = "stat"
    /\ Set(h, [req[h] EXCEPT !.at = "record",
                             !.info = IF cache[req[h].to].file # 0 THEN req[h].to ELSE NoKey])
    /\ UNCHANGED <<up, crashes, begun, last, cache, remote, stored, events, queued, upload, gone>>

\* Mutant: the destination is recorded whatever the file is by now.
Unchanged_Any(r) == cache[r.to].file # 0

\* What MarkSynced compares: the file is still the one described.
Unchanged(r) == r.info = r.to

\* recordOwnWrite, which overrides a mark by the watcher.
Record(h) ==
    /\ req[h].at = "record"
    /\ LET r == req[h] IN
       /\ cache' = IF Unchanged(r) THEN [cache EXCEPT ![r.to] = Synced(@, r.etag)] ELSE cache
       /\ Set(h, Go(r, IF Rename(h) THEN "forget" ELSE "done"))
    /\ UNCHANGED <<up, crashes, begun, last, remote, stored, events, queued, upload, gone>>

\* Invalidate of the source's name.
Forget(h) ==
    /\ req[h].at = "forget"
    /\ cache' = [cache EXCEPT ![req[h].from] = Absent]
    /\ Rewritten(req[h].from)
    /\ req' = [Touch(req, req[h].from) EXCEPT ![h] = Go(req[h], "done")]
    /\ UNCHANGED <<up, crashes, begun, last, remote, stored, events, queued, gone>>

\* The answer "ok".
Answer(h) ==
    /\ req[h].at = "done" /\ End(h)
    /\ UNCHANGED <<up, crashes, begun, last, cache, remote, stored, events, queued, upload, gone>>

(***************************************************************************)
(* Crash and start.                                                        *)
(***************************************************************************)
Crash ==
    /\ up /\ crashes < MaxCrashes
    /\ up' = FALSE /\ crashes' = crashes + 1
    /\ events' = {} /\ queued' = {}
    /\ upload' = [k \in Keys |-> NoUpload] /\ req' = [h \in Requests |-> NoReq]
    /\ gone' = gone \ {req[h].from : h \in Requests}
    /\ UNCHANGED <<begun, last, cache, remote, stored>>

\* scanPendingUploads.
Start ==
    /\ ~up /\ up' = TRUE
    /\ queued' = {k \in Keys : cache[k].file # 0 /\ ~Covers(cache[k])}
    /\ cache' = [k \in Keys |-> IF cache[k].meta = "none" THEN cache[k] ELSE Marked(cache[k])]
    /\ UNCHANGED <<crashes, begun, last, remote, stored, events, upload, req, gone>>

Serve(h) ==
    \/ BlockTo(h) \/ Look(h) \/ CopyObject(h) \/ CopyCreate(h) \/ CopyFill(h)
    \/ PutOpen(h) \/ Put(h) \/ DeleteObject(h) \/ Move(h) \/ StatTo(h) \/ Record(h)
    \/ Forget(h) \/ Answer(h)

Next ==
    \/ \E k \in Keys : \/ PVEWrite(k) \/ OtherPut(k) \/ WatcherEvent(k) \/ Evict(k)
                       \/ UploadStart(k) \/ UploadPut(k) \/ UploadRecord(k)
    \/ \E h \in Requests : \/ \E op \in {"rename", "copy"}, f, t \in Keys : Begin(h, op, f, t)
                           \/ Serve(h)
    \/ Crash \/ Start

Spec == Init /\ [][Next]_vars

(***************************************************************************)
(* Properties.                                                             *)
(***************************************************************************)
\* handleCopy and handleRename record for their destination the ETag of exactly the
\* file they leave there, if the cached source was its object, or a write S3 never had
\* and marked so (not an older version, and not a rewrite that watcher.go:60 leaves
\* unmarked: those are recorded as in sync with an object that is another content).
RecordsWhatIsThere ==
    [][\A h \in Requests :
          LET k == req[h].to
              recorded == req[h].at = "record" /\ req'[h].at \in {"forget", "done"}
          IN  recorded /\ req[h].sure /\ cache'[k] # cache[k] => cache'[k].file = cache'[k].tag]_vars

\* A rename or copy answered "ok" has made the destination's object what the
\* source was when it looked (or what the upload of an unmarked rewrite of it made of it
\* before the copy), and no background upload has changed it since.
DestinationIsSource ==
    [][\A h \in Requests :
          req'[h].at = "done" /\ up' => remote'[req'[h].to] = req'[h].want]_vars

\* A name renamed away stays away from S3 until it is written again or a
\* request names it as destination: no
\* background upload in flight brings the object back (unless the daemon crashed
\* in the middle of the request).
SourceStaysAway == \A k \in gone : remote[k] = 0

\* A write that was marked as pending and that S3 never had stays in the cache,
\* under some name and without a record that it is in sync, until S3 has it or PVE
\* or a request writes over it (or it is only the copy a request made of a cached
\* file that is not its object and that the daemon does not take for newer).
NoLostWrite ==
    [][\A k \in Keys :
          LET v == cache[k].file IN
          cache[k].meta = "pending" /\ v \in 1..MaxVer \ stored
              => \/ v \in stored'
                 \/ cache'[k].file # v /\ (last' # last \/ \E h \in Requests : req[h].to = k)
                 \/ \E j \in Keys : cache'[j].file = v /\ ~Covers(cache'[j])
                 \/ \E h \in Requests : req[h].to = k /\ req[h].at = "record" /\ ~req[h].sure]_vars
=============================================================================
