------------------------------- MODULE Resync -------------------------------
(***************************************************************************)
(* handleResync (internal/api/resync.go) and handleUpload on one key: they *)
(* write the object and the metadata beside the background upload, and     *)
(* blockUploads does not hold them.  Against writes by PVE, another node,  *)
(* a delete and failing requests.                                          *)
(*                                                                         *)
(* A content is the time at which it was first written, 0 is "none".       *)
(***************************************************************************)
EXTENDS Naturals

CONSTANTS
    MaxTime,      \* bound: writes
    Sizes,        \* the number of sizes that contents have
    HeadMayFail,  \* resync's HEAD may fail for other reasons than 404
    S3MayFail,    \* the other requests to S3 may fail
    OtherNodes    \* another node writes and deletes the object

ASSUME TimeAssumption == MaxTime \in Nat /\ MaxTime >= 2
ASSUME SizeAssumption == Sizes \in Nat \ {0}
ASSUME FlagAssumption == {HeadMayFail, S3MayFail, OtherNodes} \subseteq BOOLEAN

VARIABLES
    now,      \* time of the last write
    file,     \* content, mtime, and the metadata: state, content whose size it has (of),
              \* ETag (tag, a content) and CachedAt (at)
    remote,   \* content and LastModified of the object
    stored,   \* ghost: contents that have been on S3
    event,    \* an inotify event waits
    queued,   \* the key is in the debounce map, the queue or a timer
    bg,       \* background upload: stage, content and mtime as opened, canceled
    rs,       \* resync: stage, force, scanned file (v, mtime), HEAD (err, seen), opened file
    send,     \* handleUpload: stage, content, and whether its path is the cache file's own
    del       \* handleDelete: stage

vars == <<now, file, remote, stored, event, queued, bg, rs, send, del>>

Times    == 0..MaxTime
Absent   == [v |-> 0, mtime |-> 0, meta |-> "none", of |-> 0, tag |-> 0, at |-> 0]
Gone     == [v |-> 0, lm |-> 0]
Idle     == [at |-> "idle", v |-> 0, mtime |-> 0, canceled |-> FALSE]
NoSend   == [at |-> "idle", v |-> 0, own |-> FALSE]
NoResync == [at |-> "idle", force |-> FALSE, v |-> 0, mtime |-> 0, err |-> FALSE,
             seen |-> Gone, up |-> 0, upMtime |-> 0]

Objects == [v: Times, lm: Times]

TypeOK ==
    /\ now \in Times /\ remote \in Objects /\ stored \subseteq Times
    /\ file \in [v: Times, mtime: Times, meta: {"none", "pending", "synced"}, of: Times,
                 tag: Times, at: Times]
    /\ file.meta # "synced" => file.tag = 0
    /\ event \in BOOLEAN /\ queued \in BOOLEAN
    /\ send \in [at: {"idle", "put", "link"}, v: Times, own: BOOLEAN]
    /\ bg \in [at: {"idle", "put", "record"}, v: Times, mtime: Times, canceled: BOOLEAN]
    /\ rs \in [at: {"idle", "head", "decide", "backfill", "open", "put", "record"},
               force: BOOLEAN, v: Times, mtime: Times, err: BOOLEAN, seen: Objects,
               up: Times, upMtime: Times]
    /\ del \in {"idle", "delete", "remove"}

(***************************************************************************)
(* Sizes and metadata.                                                     *)
(***************************************************************************)
SameSize(v, w) == v % Sizes = w % Sizes

\* The metadata of entry f describes a file with this content and mtime.
Covers(f, v, mtime) == f.meta = "synced" /\ SameSize(f.of, v) /\ mtime <= f.at

\* Entry f after the file was written, after MarkPending and after writeMeta of
\* in-sync metadata with the size of v and this ETag.
Written(f, v, mtime) == [f EXCEPT !.v = v, !.mtime = mtime]

\* Mutant: the ETag of the content before stays.
Marked_KeepTag(f) ==
    IF f.v = 0 \/ Covers(f, f.v, f.mtime) THEN f
    ELSE [f EXCEPT !.meta = "pending", !.of = f.v, !.at = now]

Marked(f) ==
    IF f.v = 0 \/ Covers(f, f.v, f.mtime) THEN f
    ELSE [f EXCEPT !.meta = "pending", !.of = f.v, !.tag = 0, !.at = now]

Synced(f, v, etag) == [f EXCEPT !.meta = "synced", !.of = v, !.tag = etag, !.at = now]

\* Mutant: a file rewritten during the upload is recorded like any other.
Unchanged_Any(mtime) == file.v # 0

\* What MarkSynced compares (every write has an mtime of its own here).
Unchanged(mtime) == file.v # 0 /\ file.mtime = mtime

Put(v, t) == remote' = [v |-> v, lm |-> t] /\ stored' = stored \cup {v}

\* The daemon runs; the file is absent, in sync, or without metadata, and the
\* object may have been changed or deleted by another node since.
Init ==
    /\ now = 2
    /\ remote \in {Gone, [v |-> 1, lm |-> 1], [v |-> 1, lm |-> 2], [v |-> 2, lm |-> 2]}
    /\ file \in {Absent, Written(Absent, 1, 1), Written(Absent, 2, 2),
                 Synced(Written(Absent, 1, 1), 1, 1)}
    /\ stored = {1, remote.v}
    /\ event = FALSE /\ queued = FALSE
    /\ bg = Idle /\ rs = NoResync /\ send = NoSend /\ del = "idle"

(***************************************************************************)
(* PVE and the other node.                                                 *)
(***************************************************************************)
PVEWrite ==
    /\ now < MaxTime
    /\ now' = now + 1 /\ file' = Written(file, now', now') /\ event' = TRUE
    /\ UNCHANGED <<remote, stored, queued, bg, rs, send, del>>

OtherPut ==
    /\ OtherNodes /\ now < MaxTime
    /\ now' = now + 1 /\ Put(now', now')
    /\ UNCHANGED <<file, event, queued, bg, rs, send, del>>

OtherDelete ==
    /\ OtherNodes /\ remote # Gone /\ remote' = Gone
    /\ UNCHANGED <<now, file, stored, event, queued, bg, rs, send, del>>

(***************************************************************************)
(* The watcher and the background upload (coarser than in UploadControl).  *)
(***************************************************************************)
\* An episode that runs, in the debounce map, marks nothing more; a key that is only in the
\* queue or in a timer is not in the map.
WatcherEvent ==
    /\ event /\ event' = FALSE
    /\ \/ file' = Marked(file) /\ queued' = (queued \/ file' # file)
       \/ queued /\ UNCHANGED <<file, queued>>
    /\ UNCHANGED <<now, remote, stored, bg, rs, send, del>>

\* uploadOnce up to its PutObject: drop, record what reconcileLocal finds in sync or
\* older (without ETag), or upload; without an answer to its HEAD it tries again.
BgStart ==
    /\ queued /\ del = "idle" /\ bg.at = "idle"
    /\ LET put == [at |-> "put", v |-> file.v, mtime |-> file.mtime, canceled |-> FALSE]
       IN \/ /\ file.v = 0 \/ Covers(file, file.v, file.mtime)
             /\ queued' = FALSE /\ UNCHANGED <<file, bg>>
          \/ /\ file.v # 0 /\ file.meta # "none" /\ ~Covers(file, file.v, file.mtime)
             /\ queued' = FALSE /\ bg' = put /\ UNCHANGED file
          \/ /\ file.v # 0 /\ file.meta = "none" /\ (remote = Gone \/ file.mtime > remote.lm)
             /\ queued' = FALSE /\ bg' = put /\ file' = Marked(file)
          \/ /\ file.v # 0 /\ file.meta = "none" /\ remote # Gone /\ file.mtime <= remote.lm
             /\ file' = IF SameSize(file.v, remote.v) THEN Synced(file, remote.v, remote.v)
                        ELSE Synced(file, file.v, 0)
             /\ queued' = FALSE /\ UNCHANGED bg
    /\ UNCHANGED <<now, remote, stored, event, rs, send, del>>

BgPut ==
    /\ bg.at = "put"
    /\ \/ Put(bg.v, now) /\ bg' = [bg EXCEPT !.at = "record"] /\ UNCHANGED queued
       \/ /\ S3MayFail \/ bg.canceled
          /\ Put(bg.v, now) \/ UNCHANGED <<remote, stored>>
          /\ bg' = Idle /\ queued' = (queued \/ ~bg.canceled)
    /\ UNCHANGED <<now, file, event, rs, send, del>>

BgRecord ==
    /\ bg.at = "record" /\ bg' = Idle
    /\ file' = IF bg.canceled THEN file
               ELSE IF Unchanged(bg.mtime) THEN Synced(file, bg.v, bg.v) ELSE Marked(file)
    /\ UNCHANGED <<now, remote, stored, event, queued, rs, send, del>>

(***************************************************************************)
(* handleDelete (its blocks hold the background upload only).              *)
(***************************************************************************)
DeleteBegin ==
    /\ del = "idle" /\ del' = "delete"
    /\ bg' = [bg EXCEPT !.canceled = (bg.at # "idle")]
    /\ UNCHANGED <<now, file, remote, stored, event, queued, rs, send>>

DeleteObject ==
    /\ del = "delete" /\ bg.at = "idle"
    /\ \/ remote' = Gone /\ del' = "remove"
       \/ S3MayFail /\ del' = "idle" /\ UNCHANGED remote
    /\ UNCHANGED <<now, file, stored, event, queued, bg, rs, send>>

DeleteRemove ==
    /\ del = "remove" /\ del' = "idle" /\ file' = Absent
    /\ UNCHANGED <<now, remote, stored, event, queued, bg, rs, send>>

(***************************************************************************)
(* handleUpload: the object, then Link.                                    *)
(***************************************************************************)
\* Of a file elsewhere, a new content, or of the cache file itself.
UploadOpen ==
    /\ send.at = "idle"
    /\ \/ /\ now < MaxTime /\ now' = now + 1
          /\ send' = [at |-> "put", v |-> now', own |-> FALSE]
       \/ /\ file.v # 0 /\ now' = now
          /\ send' = [at |-> "put", v |-> file.v, own |-> TRUE]
    /\ UNCHANGED <<file, remote, stored, event, queued, bg, rs, del>>

UploadPut ==
    /\ send.at = "put"
    /\ \/ Put(send.v, now) /\ send' = [send EXCEPT !.at = "link"]
       \/ S3MayFail /\ (Put(send.v, now) \/ UNCHANGED <<remote, stored>>) /\ send' = NoSend
    /\ UNCHANGED <<now, file, event, queued, bg, rs, del>>

\* A file elsewhere is hard-linked if the cache has none, else copied into the one it has.
\* Of the cache file itself (sameInode) only the metadata is written, whatever has been
\* written to it since it was opened; if it is gone, nothing.
UploadLink ==
    /\ send.at = "link" /\ send' = NoSend
    /\ LET v == send.v IN
       \/ /\ ~send.own /\ file.v = 0 /\ now' = now
          /\ file' = Synced(Written(file, v, v), v, v) /\ event' = TRUE
       \/ /\ ~send.own /\ file.v # 0 /\ now < MaxTime /\ now' = now + 1
          /\ file' = [Synced(Written(file, v, now'), v, v) EXCEPT !.at = now']
          /\ event' = TRUE
       \/ /\ send.own
          /\ file' = IF file.v = 0 THEN file ELSE Synced(file, v, v)
          /\ UNCHANGED <<now, event>>
    /\ UNCHANGED <<remote, stored, queued, bg, rs, del>>

(***************************************************************************)
(* handleResync, at this key.                                              *)
(***************************************************************************)
Scan(force) ==
    /\ rs.at = "idle" /\ file.v # 0
    /\ rs' = [NoResync EXCEPT !.at = "head", !.force = force, !.v = file.v,
                              !.mtime = file.mtime]
    /\ UNCHANGED <<now, file, remote, stored, event, queued, bg, send, del>>

Head ==
    /\ rs.at = "head"
    /\ \E err \in (IF HeadMayFail THEN BOOLEAN ELSE {FALSE}) :
          rs' = [rs EXCEPT !.at = "decide", !.seen = remote, !.err = err \/ remote = Gone]
    /\ UNCHANGED <<now, file, remote, stored, event, queued, bg, send, del>>

InSync ==
    /\ ~rs.err /\ SameSize(rs.v, rs.seen.v)
    /\ Covers(file, rs.v, rs.mtime) \/ rs.mtime <= rs.seen.lm

\* Mutant: whichever side is newer, the file goes up.
LocalNewer_Any == TRUE

LocalNewer == rs.mtime > rs.seen.lm

\* Every HEAD error counts as "missing in S3".
Decide ==
    /\ rs.at = "decide"
    /\ \/ InSync /\ file.meta = "none" /\ rs' = [rs EXCEPT !.at = "backfill"]
       \/ InSync /\ file.meta # "none" /\ rs' = NoResync
       \/ ~InSync /\ (rs.err \/ LocalNewer \/ rs.force) /\ rs' = [rs EXCEPT !.at = "open"]
       \/ ~InSync /\ ~(rs.err \/ LocalNewer \/ rs.force) /\ rs' = NoResync
    /\ UNCHANGED <<now, file, remote, stored, event, queued, bg, send, del>>

\* StoreMeta, whatever the file and its metadata are by now.
Backfill ==
    /\ rs.at = "backfill" /\ rs' = NoResync
    /\ file' = Synced(file, rs.seen.v, rs.seen.v)
    /\ UNCHANGED <<now, remote, stored, event, queued, bg, send, del>>

Open ==
    /\ rs.at = "open"
    /\ rs' = IF file.v = 0 THEN NoResync
             ELSE [rs EXCEPT !.at = "put", !.up = file.v, !.upMtime = file.mtime]
    /\ UNCHANGED <<now, file, remote, stored, event, queued, bg, send, del>>

PutObject ==
    /\ rs.at = "put" /\ UNCHANGED now
    /\ \/ Put(rs.up, now) /\ rs' = [rs EXCEPT !.at = "record"]
       \/ S3MayFail /\ (Put(rs.up, now) \/ UNCHANGED <<remote, stored>>) /\ rs' = NoResync
    /\ UNCHANGED <<file, event, queued, bg, send, del>>

Record ==
    /\ rs.at = "record" /\ rs' = NoResync
    /\ file' = IF Unchanged(rs.upMtime) THEN Synced(file, rs.up, rs.up) ELSE Marked(file)
    /\ UNCHANGED <<now, remote, stored, event, queued, bg, send, del>>

Next ==
    \/ PVEWrite \/ OtherPut \/ OtherDelete
    \/ WatcherEvent \/ BgStart \/ BgPut \/ BgRecord
    \/ DeleteBegin \/ DeleteObject \/ DeleteRemove
    \/ UploadOpen \/ UploadPut \/ UploadLink
    \/ (\E force \in BOOLEAN : Scan(force))
    \/ Head \/ Decide \/ Backfill \/ Open \/ PutObject \/ Record

Spec == Init /\ [][Next]_vars

(***************************************************************************)
(* Properties.                                                             *)
(***************************************************************************)
\* "size mismatch, S3 LastModified newer -> skip unless force=1": without force,
\* resync replaces no object newer than the file that it scanned by another content,
\* if nobody has touched the object since the HEAD.
KeepsNewer ==
    [][rs.at = "put" /\ rs' # rs /\ remote' # remote /\ ~rs.force
          => \/ remote = Gone \/ remote # rs.seen
             \/ rs.up = remote.v \/ rs.mtime >= remote.lm]_vars

\* Resync's StoreMeta and Link of the cache file itself write metadata for a file that
\* they do not compare with the one they looked at (resync.go:107, cache.go:267-295).
Unguarded ==
    \/ rs.at = "backfill" /\ rs' # rs
    \/ send.at = "link" /\ send.own /\ send' # send

\* A write that was marked as pending and that S3 never had stays marked until S3 has
\* it, or it is written over or deleted: an upload that ends, of the watcher, of resync or
\* of a request, never records it as in sync for what the file was before.  (What is
\* Unguarded may.)
NoLostWrite ==
    [][file.meta = "pending" /\ file.v \notin stored /\ ~Unguarded
          => \/ file.v \in stored' \/ file'.v # file.v
             \/ ~Covers(file', file'.v, file'.mtime)]_vars
=============================================================================
