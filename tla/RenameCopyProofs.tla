-------------------------- MODULE RenameCopyProofs --------------------------
(***************************************************************************)
(* Rename and copy: while no request writes a name that another one uses,  *)
(* a name renamed away stays away from S3, the destination becomes what    *)
(* the source was, what is recorded for it is what is there, and no write  *)
(* is lost.                                                                *)
(***************************************************************************)
EXTENDS RenameCopy, TLAPS

\* TypeOK, with the types of the entries in one set.
EntryType == {c \in CacheType : c.meta # "synced" => c.tag = 0}

Typed ==
    /\ up \in BOOLEAN /\ crashes \in 0..MaxCrashes /\ begun \in 0..MaxRequests
    /\ last \in 0..MaxVer
    /\ cache \in [Keys -> EntryType] /\ remote \in [Keys -> Contents]
    /\ stored \subseteq Contents /\ gone \subseteq Keys
    /\ events \subseteq Keys /\ queued \subseteq Keys
    /\ upload \in [Keys -> UploadType] /\ req \in [Requests -> ReqType]

\* A request that has named its two keys.
Named(r) == r.from \in Keys /\ r.to \in Keys

\* The stages that a rename and a copy pass through, and the keys they block: a rename
\* both, a copy its destination.
Shape(r) ==
    /\ r.at = "idle" => r = NoReq
    /\ r.at # "idle" => r.op # "none" /\ Named(r) /\ r.from # r.to
    /\ r.at \in {"block", "delete", "move", "forget"} => r.op = "rename"
    /\ r.at \in {"create", "fill"} => r.op = "copy"
    /\ r.op = "rename" => r.from \in r.blocks
    /\ r.op # "none" /\ r.at # "block" => r.to \in r.blocks

\* No background upload runs on the keys that a request has blocked and waited for.
Held(r) ==
    /\ r.op = "rename" /\ r.at # "block" => upload[r.from].at = "idle"
    /\ r.at \notin {"idle", "block", "wait"} => upload[r.to].at = "idle"

ShapeMatch == \A h \in Requests : Shape(req[h]) /\ Held(req[h])

Moving(k) == \E h \in Requests : req[h].from = k /\ req[h].at \in {"move", "forget"}

\* A name renamed away: neither an upload nor the request can write it, and its cached
\* copy is gone unless the local rename is still to come.
GoneMatch ==
    \A k \in gone :
        /\ remote[k] = 0 /\ upload[k].at = "idle"
        /\ \A h \in Requests : req[h].to # k
        /\ cache[k].file = 0 \/ Moving(k)

\* The names a request writes, and those it uses.
Writes(r) == IF r.op = "rename" THEN {r.from, r.to} ELSE {r.to}
Uses(r)   == {r.from, r.to}

\* PVE locks what it renames, and what it copies to: no request writes a name that another
\* one uses (copies may share their source).
Apart ==
    \A g, h \in Requests :
        g # h /\ req[g].at # "idle" /\ req[h].at # "idle" =>
            Writes(req[g]) \cap Uses(req[h]) = {}

\* A file under upload that is in sync as far as its metadata says has been written unmarked,
\* is the one that the upload opened, and is in no debounce map since.
MarkMatch ==
    /\ up \/ /\ \A h \in Requests : req[h].at = "idle"
             /\ \A k \in Keys : upload[k].at = "idle"
    /\ \A k \in Keys :
          upload[k].at # "idle" /\ cache[k].meta = "synced"
              => upload[k].snap = cache[k].file /\ k \notin queued

\* The FileInfo in hand describes the file that is moved and recorded, if there is one.
InHand(r) ==
    /\ r.at \in {"block", "wait", "copyobject"} => r.snap = 0
    /\ r.op = "rename" /\ r.at \in {"put", "delete", "move"} /\ r.snap # 0
          => r.info = r.from \/ cache[r.from].file = 0
    /\ r.at = "record" \/ (r.op = "copy" /\ r.at = "put")
          => (r.info = r.to <=> cache[r.to].file # 0)

Is(k, v)    == cache[k].file \in {0, v}
Uploaded(r) == IF r.op = "rename" THEN r.from ELSE r.to

\* The object that a request is about to copy is what it found; an upload of its file, one
\* written unmarked, only makes it what that file is.
CopySource(r) ==
    /\ r.want = remote[r.from]
    /\ upload[r.from].at # "idle" => Is(r.from, upload[r.from].snap)
    /\ r.sure => Is(r.from, r.want)

\* What a request is about to send or to leave in the cache is what it found.
FromSource(r) ==
    /\ r.at \in {"block", "wait", "copyobject", "open", "put"} => r.etag = 0
    /\ r.at = "copyobject" => CopySource(r)
    /\ r.at = "create" /\ (r.etag = 0 \/ r.sure) => Is(r.from, r.want)
    /\ r.at = "fill" /\ (r.etag = 0 \/ r.sure) => r.snap = r.want
    /\ r.at \in {"open", "put"} => Is(Uploaded(r), r.want)
    /\ r.at = "put" => r.snap = r.want /\ r.snap # 0
    /\ r.sure /\ r.at \in {"delete", "move"} => Is(r.from, r.want)
    /\ r.sure /\ r.at \in {"stat", "record"} => Is(r.to, r.want)

\* The destination's object, once there, is what the request found.
Delivered(r) ==
    /\ r.at \in {"delete", "move", "forget", "stat", "record"} => r.etag # 0
    /\ r.etag # 0 => r.etag = r.want
    /\ r.etag # 0 \/ r.at = "done" => remote[r.to] = r.want

SourceMatch == \A h \in Requests : InHand(req[h]) /\ FromSource(req[h]) /\ Delivered(req[h])

RequestInv == Typed /\ ShapeMatch /\ MarkMatch /\ SourceMatch

\* PVE and the other node do not write the keys of a request while it works.
Undisturbed == ~BusyWrites

USE KeyAssumption, BoundAssumption, FlagAssumption

-----------------------------------------------------------------------------
(* Types. *)

\* Typed is TypeOK with the types of the entries in one set each.
LEMMA TypedOK == (TypeOK <=> Typed) /\ (TypeOK' <=> Typed')
BY DEF TypeOK, Typed, EntryType

\* The contents a step can write: 0, the next one, the beginning of a file.
LEMMA ContentsNat ==
    /\ 0 \in Contents /\ 1 \in Contents /\ Partial \in Contents /\ Partial # 0
    /\ 0..MaxVer \subseteq Contents
    /\ \A n \in 0..MaxVer : n < MaxVer => n + 1 \in 0..MaxVer
BY DEF Contents

\* What writes of the file and of its metadata make of an entry.
LEMMA EntryTypes ==
    ASSUME NEW c \in EntryType
    PROVE  /\ Absent \in EntryType /\ Marked(c) \in EntryType
           /\ \A v \in Contents : Written(c, v) \in EntryType /\ Synced(c, v) \in EntryType
           /\ \A v \in Contents : Marked(Written(c, v)) \in EntryType
<1> USE ContentsNat DEF EntryType, CacheType
<1>1. Absent \in EntryType
  BY DEF Absent
<1>2. \A d \in EntryType : Marked(d) \in EntryType
  BY DEF Marked
<1>3. \A v \in Contents : Written(c, v) \in EntryType
  BY DEF Written
<1>4. \A v \in Contents : Synced(c, v) \in EntryType
  BY DEF Synced
<1> QED BY <1>1, <1>2, <1>3, <1>4

\* What writes of the file and of its metadata leave.
LEMMA EntryFields ==
    ASSUME NEW c \in EntryType
    PROVE  /\ Absent.file = 0 /\ Absent.meta = "none" /\ Absent.fresh = FALSE
           /\ Marked(c).file = c.file
           /\ Covers(c) => Marked(c) = c
           /\ c.file # 0 /\ ~Covers(c) => Marked(c).meta = "pending"
           /\ c.file = 0 => Marked(c) = c
           /\ \A v : /\ Written(c, v).file = v /\ Written(c, v).meta = c.meta
                     /\ ~Covers(Written(c, v))
           /\ \A v : /\ Synced(c, v).file = c.file /\ Synced(c, v).tag = v
                     /\ Covers(Synced(c, v))
BY DEF EntryType, CacheType, Absent, Marked, Written, Synced, Covers

\* A request that lost sight of its file: nothing else of it changes.
Lost(r, k) == IF r.info = k THEN [r EXCEPT !.info = NoKey] ELSE r

LEMMA LostType ==
    ASSUME NEW r \in ReqType, NEW k \in Keys
    PROVE  /\ Lost(r, k) \in ReqType
           /\ Lost(r, k).info = IF r.info = k THEN NoKey ELSE r.info
           /\ Lost(r, k).at = r.at /\ Lost(r, k).op = r.op /\ Lost(r, k).from = r.from
           /\ Lost(r, k).to = r.to /\ Lost(r, k).blocks = r.blocks
           /\ Lost(r, k).cached = r.cached /\ Lost(r, k).etag = r.etag
           /\ Lost(r, k).snap = r.snap /\ Lost(r, k).want = r.want /\ Lost(r, k).sure = r.sure
BY DEF Lost, ReqType

LEMMA TouchType ==
    ASSUME req \in [Requests -> ReqType], NEW k \in Keys
    PROVE  /\ Touch(req, k) = [h \in Requests |-> Lost(req[h], k)]
           /\ Touch(req, k) \in [Requests -> ReqType]
<1>1. Touch(req, k) = [h \in Requests |-> Lost(req[h], k)]
  BY DEF Touch, Lost
<1>2. \A h \in Requests : Lost(req[h], k) \in ReqType
  BY LostType
<1> QED BY <1>1, <1>2

\* The requests that are answered, and the stages of the others.
LEMMA ReqEdits ==
    ASSUME NEW r \in ReqType
    PROVE  NoReq \in ReqType /\ \A s \in Stages : Go(r, s) \in ReqType
<1>1. NoReq \in ReqType
  BY ContentsNat DEF NoReq, ReqType, Stages
<1>2. \A s \in Stages : Go(r, s) \in ReqType
  BY DEF Go, ReqType
<1> QED BY <1>1, <1>2

LEMMA InitTyped == Init => Typed
<1> SUFFICES ASSUME Init PROVE Typed
  OBVIOUS
<1> USE ContentsNat DEF Init
<1>1. last \in 0..MaxVer
  BY Z3
<1>2. cache \in [Keys -> EntryType]
  <2>1. [file |-> 1, meta |-> "synced", tag |-> 1, fresh |-> TRUE] \in EntryType
    BY DEF EntryType, CacheType
  <2>2. Absent \in EntryType
    BY DEF Absent, EntryType, CacheType
  <2> QED BY <2>1, <2>2
<1>3. remote \in [Keys -> Contents] /\ stored \subseteq Contents
  OBVIOUS
<1>4. upload \in [Keys -> UploadType]
  BY DEF NoUpload, UploadType
<1>5. req \in [Requests -> ReqType]
  <2>1. NoReq \in ReqType
    BY DEF NoReq, ReqType, Stages
  <2> QED BY <2>1
<1> QED BY <1>1, <1>2, <1>3, <1>4, <1>5 DEF Typed

\* The steps of the environment and of the background uploads keep the types.
LEMMA KeyTyped ==
    ASSUME Typed, NEW k \in Keys,
           \/ PVEWrite(k) \/ OtherPut(k) \/ WatcherEvent(k) \/ Evict(k)
           \/ UploadStart(k) \/ UploadPut(k) \/ UploadRecord(k)
    PROVE  Typed'
<1> DEFINE c == cache[k]
<1>0. c \in EntryType /\ c.file \in Contents /\ remote[k] \in Contents
  BY DEF Typed, EntryType, CacheType
<1>1. upload[k] \in UploadType /\ upload[k].snap \in Contents
  BY DEF Typed, UploadType
<1>2. /\ Absent \in EntryType /\ Marked(c) \in EntryType
      /\ \A v \in Contents : Written(c, v) \in EntryType /\ Synced(c, v) \in EntryType
      /\ \A v \in Contents : Marked(Written(c, v)) \in EntryType
  BY <1>0, EntryTypes
<1>3. Touch(req, k) \in [Requests -> ReqType]
  BY TouchType DEF Typed
<1>4. [upload EXCEPT ![k].same = FALSE] \in [Keys -> UploadType]
  BY <1>1 DEF Typed, UploadType
<1>5. NoUpload \in UploadType
  BY ContentsNat DEF NoUpload, UploadType
<1> HIDE DEF c
<1>6. CASE PVEWrite(k)
  <2>1. last' \in 0..MaxVer /\ last' \in Contents
    BY <1>6, ContentsNat DEF PVEWrite, Typed
  <2>2. \A d \in Noticed(k, Written(c, last')) : d \in EntryType
    BY <1>2, <2>1 DEF Noticed
  <2>3. cache' \in [Keys -> EntryType]
    BY <1>6, <2>2 DEF PVEWrite, Typed, c
  <2> QED BY <1>6, <2>1, <2>3, <1>3, <1>4 DEF PVEWrite, Typed, Rewritten
<1>7. CASE OtherPut(k)
  <2>1. last' \in 0..MaxVer /\ last' \in Contents
    BY <1>7, ContentsNat DEF OtherPut, Typed
  <2> QED BY <1>7, <2>1 DEF OtherPut, Typed, WriteRemote
<1>8. CASE WatcherEvent(k)
  <2>1. cache' \in [Keys -> EntryType]
    BY <1>0, <1>2, <1>8 DEF WatcherEvent, Noticed, Typed, c
  <2> QED BY <1>8, <2>1 DEF WatcherEvent, Typed
<1>9. CASE Evict(k)
  <2>1. cache' \in [Keys -> EntryType]
    BY <1>9, <1>2 DEF Evict, Typed
  <2> QED BY <1>9, <2>1, <1>3, <1>4 DEF Evict, Typed, Rewritten
<1>10. CASE UploadStart(k)
  <2>1. cache' \in [Keys -> EntryType]
    BY <1>10, <1>0, <1>2, ContentsNat DEF UploadStart, Typed, c
  <2>2. [at |-> "put", snap |-> cache[k].file, same |-> TRUE, canceled |-> FALSE] \in UploadType
    BY <1>0 DEF UploadType, c
  <2>3. upload' \in [Keys -> UploadType]
    BY <1>10, <2>2 DEF UploadStart, Typed
  <2> QED BY <1>10, <2>1, <2>3 DEF UploadStart, Typed
<1>11. CASE UploadPut(k)
  <2>1. [upload EXCEPT ![k].at = "record"] \in [Keys -> UploadType]
    BY <1>1 DEF Typed, UploadType
  <2>2. upload' \in [Keys -> UploadType]
    BY <1>11, <2>1, <1>5 DEF UploadPut, Typed
  <2>3. remote' \in [Keys -> Contents] /\ stored' \subseteq Contents
    BY <1>11, <1>1 DEF UploadPut, Sends, WriteRemote, Typed
  <2>4. \A g \in Requests : [req[g] EXCEPT !.want = upload[k].snap] \in ReqType
    BY <1>1 DEF Typed, ReqType
  <2>5. req' \in [Requests -> ReqType]
    BY <1>11, <2>4 DEF UploadPut, Sends, Typed
  <2> QED BY <1>11, <2>2, <2>3, <2>5 DEF UploadPut, Typed
<1>12. CASE UploadRecord(k)
  <2>1. cache' \in [Keys -> EntryType]
    BY <1>12, <1>1, <1>2 DEF UploadRecord, Typed, c
  <2> QED BY <1>12, <1>5, <2>1 DEF UploadRecord, Typed
<1> QED BY <1>6, <1>7, <1>8, <1>9, <1>10, <1>11, <1>12

\* blockUploads keeps the types.
LEMMA BlockTyped ==
    ASSUME Typed, NEW h \in Requests, NEW r \in ReqType, NEW k \in Keys, NEW s \in Stages,
           BlockUploads(h, r, k, s)
    PROVE  req' \in [Requests -> ReqType] /\ upload' \in [Keys -> UploadType]
<1>1. [r EXCEPT !.at = s, !.blocks = @ \cup {k}] \in ReqType
  BY DEF ReqType
<1>2. upload[k] \in UploadType
  BY DEF Typed
<1>3. [upload EXCEPT ![k].canceled = (upload[k].at # "idle")] \in [Keys -> UploadType]
  BY <1>2 DEF Typed, UploadType
<1> QED BY <1>1, <1>3 DEF BlockUploads, Set, Typed

LEMMA BeginTyped ==
    ASSUME Typed, NEW h \in Requests, NEW op \in {"rename", "copy"}, NEW f \in Keys,
           NEW t \in Keys, Begin(h, op, f, t)
    PROVE  Typed'
<1> DEFINE r == [NoReq EXCEPT !.op = op, !.from = f, !.to = t]
<1>1. r \in ReqType
  BY ContentsNat DEF NoReq, ReqType, Stages
<1>2. BlockUploads(h, r, f, "block") \/ BlockUploads(h, r, t, "wait")
  BY DEF Begin
<1>3. "block" \in Stages /\ "wait" \in Stages
  BY DEF Stages
<1> HIDE DEF r
<1>4. req' \in [Requests -> ReqType] /\ upload' \in [Keys -> UploadType]
  BY <1>1, <1>2, <1>3, BlockTyped
<1> QED BY <1>4 DEF Begin, Typed

LEMMA ServeTyped ==
    ASSUME Typed, NEW h \in Requests, Named(req[h]), Serve(h)
    PROVE  Typed'
<1> DEFINE r == req[h]
           f == r.from
           t == r.to
<1>0. r \in ReqType /\ f \in Keys /\ t \in Keys
  BY DEF Typed, Named
<1>1. /\ cache[f] \in EntryType /\ cache[t] \in EntryType
      /\ cache[f].file \in Contents /\ cache[t].file \in Contents
      /\ remote[f] \in Contents /\ remote[t] \in Contents
  BY <1>0 DEF Typed, EntryType, CacheType
<1>2. /\ Absent \in EntryType
      /\ \A v \in Contents : /\ Written(cache[f], v) \in EntryType
                             /\ Written(cache[t], v) \in EntryType
                             /\ Synced(cache[t], v) \in EntryType
  BY <1>1, EntryTypes
<1>3. /\ NoReq \in ReqType /\ \A s \in Stages : Go(r, s) \in ReqType
      /\ r.snap \in Contents /\ r.etag \in Contents
  BY <1>0, ReqEdits DEF ReqType
<1>4. Touch(req, f) \in [Requests -> ReqType] /\ Touch(req, t) \in [Requests -> ReqType]
  BY <1>0, TouchType DEF Typed
<1>5. \A k \in Keys : [upload EXCEPT ![k].same = FALSE] \in [Keys -> UploadType]
  BY DEF Typed, UploadType
<1>6. Stages = {"idle", "block", "wait", "look", "copyobject", "create", "fill", "open", "put",
                "delete", "move", "stat", "record", "forget", "done"}
  BY DEF Stages
<1>7. \A v \in Contents : stored \cup {v} \subseteq Contents
  BY DEF Typed
<1>8. /\ \A q \in ReqType : [req EXCEPT ![h] = q] \in [Requests -> ReqType]
      /\ \A q \in ReqType : [Touch(req, t) EXCEPT ![h] = q] \in [Requests -> ReqType]
      /\ \A q \in ReqType : [Touch(req, f) EXCEPT ![h] = q] \in [Requests -> ReqType]
  BY <1>4 DEF Typed
<1>9. CASE BlockTo(h)
  <2>1. req' \in [Requests -> ReqType] /\ upload' \in [Keys -> UploadType]
    BY <1>0, <1>6, <1>9, BlockTyped DEF BlockTo
  <2> QED BY <1>9, <2>1 DEF BlockTo, Typed
<1>10. CASE Look(h)
  <2>1. PICK s \in {"copyobject", "open", "create"}, b \in BOOLEAN, w \in Contents, y \in BOOLEAN :
           Set(h, [r EXCEPT !.at = s, !.cached = b, !.want = w, !.sure = y])
    <3> DEFINE local == LocalAuthoritative(f)
               s == IF ~local THEN "copyobject" ELSE IF Rename(h) THEN "open" ELSE "create"
               b == cache[f].file # 0
               w == IF local THEN cache[f].file ELSE remote[f]
               y == \/ cache[f].file \in {0, remote[f]}
                    \/ cache[f].meta # "synced" /\ cache[f].file \notin stored
    <3>1. Set(h, [r EXCEPT !.at = s, !.cached = b, !.want = w, !.sure = y])
      BY <1>10 DEF Look
    <3>2. s \in {"copyobject", "open", "create"} /\ b \in BOOLEAN /\ y \in BOOLEAN
      OBVIOUS
    <3>3. w \in Contents
      BY <1>1
    <3> HIDE DEF s, b, w, y
    <3> QED BY <3>1, <3>2, <3>3
  <2>2. [r EXCEPT !.at = s, !.cached = b, !.want = w, !.sure = y] \in ReqType
    BY <1>0, <1>6 DEF ReqType
  <2>3. req' \in [Requests -> ReqType]
    BY <2>1, <2>2, <1>8 DEF Set
  <2> QED BY <1>10, <2>3 DEF Look, Typed
<1>11. CASE CopyObject(h)
  <2>1. remote' \in [Keys -> Contents] /\ stored' \subseteq Contents
    BY <1>11, <1>0, <1>1, <1>7 DEF CopyObject, WriteRemote, Typed
  <2>2. /\ \A s \in Stages : [r EXCEPT !.etag = remote[f], !.at = s] \in ReqType
        /\ \A s \in Stages : [r EXCEPT !.at = s, !.want = cache[f].file] \in ReqType
    BY <1>0, <1>1 DEF ReqType
  <2>3. PICK q \in ReqType : req' = [req EXCEPT ![h] = q]
    BY <1>11, <1>3, <1>6, <2>2 DEF CopyObject, Set, End
  <2>4. req' \in [Requests -> ReqType]
    BY <2>3, <1>8
  <2> QED BY <1>11, <2>1, <2>4 DEF CopyObject, Typed
<1>12. CASE CopyCreate(h)
  <2>1. [r EXCEPT !.at = "fill", !.snap = cache[f].file] \in ReqType
    BY <1>0, <1>1, <1>6 DEF ReqType
  <2>2. cache' \in [Keys -> EntryType] /\ events' \subseteq Keys
    BY <1>12, <1>0, <1>2, ContentsNat DEF CopyCreate, Typed
  <2>3. upload' \in [Keys -> UploadType]
    BY <1>12, <1>0, <1>5 DEF CopyCreate, Rewritten, Typed
  <2>4. req' \in [Requests -> ReqType]
    <3>1. CASE cache[f].file # 0
      BY <3>1, <1>12, <2>1, <1>8 DEF CopyCreate
    <3>2. CASE cache[f].file = 0
      <4>1. PICK q \in ReqType : req' = [req EXCEPT ![h] = q]
        BY <3>2, <1>12, <1>3, <1>6 DEF CopyCreate, Set
      <4> QED BY <4>1, <1>8
    <3> QED BY <3>1, <3>2
  <2> QED BY <1>12, <2>2, <2>3, <2>4 DEF CopyCreate, Typed
<1>13. CASE CopyFill(h)
  <2>1. cache' \in [Keys -> EntryType] /\ events' \subseteq Keys
    BY <1>13, <1>0, <1>2, <1>3, ContentsNat DEF CopyFill, Typed
  <2>2. upload' \in [Keys -> UploadType]
    BY <1>13, <1>0, <1>5 DEF CopyFill, Rewritten
  <2>3. PICK q \in ReqType : req' = [Touch(req, t) EXCEPT ![h] = q]
    BY <1>13, <1>3, <1>6 DEF CopyFill
  <2>4. req' \in [Requests -> ReqType]
    BY <2>3, <1>8
  <2> QED BY <1>13, <2>1, <2>2, <2>4 DEF CopyFill, Typed
<1>14. CASE PutOpen(h)
  <2>1. \A k \in {f, t} : [r EXCEPT !.at = "put", !.info = k, !.snap = cache[k].file] \in ReqType
    BY <1>0, <1>1, <1>6 DEF ReqType
  <2>2. PICK q \in ReqType : req' = [req EXCEPT ![h] = q]
    BY <1>14, <1>3, <2>1 DEF PutOpen, Set
  <2>3. req' \in [Requests -> ReqType]
    BY <2>2, <1>8
  <2> QED BY <1>14, <2>3 DEF PutOpen, Typed
<1>15. CASE Put(h)
  <2>1. \A s \in Stages : [r EXCEPT !.etag = r.snap, !.at = s] \in ReqType
    BY <1>0, <1>3 DEF ReqType
  <2>2. PICK q \in ReqType : req' = [req EXCEPT ![h] = q]
    BY <1>15, <1>3, <1>6, <2>1 DEF Put, Set, End
  <2>3. req' \in [Requests -> ReqType]
    BY <2>2, <1>8
  <2>4. remote' \in [Keys -> Contents] /\ stored' \subseteq Contents
    BY <1>15, <1>0, <1>3, <1>7 DEF Put, WriteRemote, Typed
  <2>5. cache' \in [Keys -> EntryType]
    BY <1>15, <1>2 DEF Put, Typed
  <2>6. upload' \in [Keys -> UploadType]
    BY <1>15, <1>0, <1>5 DEF Put, Rewritten, Typed
  <2> QED BY <1>15, <2>3, <2>4, <2>5, <2>6 DEF Put, Typed
<1>16. CASE DeleteObject(h)
  <2>1. req' \in [Requests -> ReqType]
    BY <1>16, <1>3, <1>6, <1>8 DEF DeleteObject, Set
  <2>2. remote' \in [Keys -> Contents] /\ gone' \subseteq Keys
    BY <1>16, <1>0, ContentsNat DEF DeleteObject, Typed
  <2> QED BY <1>16, <2>1, <2>2 DEF DeleteObject, Typed
<1>17. CASE Move(h)
  <2>1. [r EXCEPT !.info = t, !.at = "record"] \in ReqType
    BY <1>0, <1>6 DEF ReqType
  <2>2. PICK q \in ReqType : req' = [req EXCEPT ![h] = q]
    BY <1>17, <1>3, <1>6, <2>1 DEF Move, Set
  <2>3. req' \in [Requests -> ReqType]
    BY <2>2, <1>8
  <2>4. cache' \in [Keys -> EntryType] /\ events' \subseteq Keys
    BY <1>17, <1>0, <1>1, <1>2, ContentsNat DEF Move, Typed
  <2> QED BY <1>17, <2>3, <2>4 DEF Move, Typed
<1>18. CASE StatTo(h)
  <2>1. \A k \in {t, NoKey} : [r EXCEPT !.at = "record", !.info = k] \in ReqType
    BY <1>0, <1>6 DEF ReqType
  <2>2. PICK k \in {t, NoKey} : Set(h, [r EXCEPT !.at = "record", !.info = k])
    BY <1>18 DEF StatTo
  <2>3. req' \in [Requests -> ReqType]
    BY <2>1, <2>2, <1>8 DEF Set
  <2> QED BY <1>18, <2>3 DEF StatTo, Typed
<1>19. CASE Record(h)
  <2>1. req' \in [Requests -> ReqType]
    BY <1>19, <1>3, <1>6, <1>8 DEF Record, Set
  <2>2. cache' \in [Keys -> EntryType]
    BY <1>19, <1>2, <1>3 DEF Record, Typed
  <2> QED BY <1>19, <2>1, <2>2 DEF Record, Typed
<1>20. CASE Forget(h)
  <2>1. req' \in [Requests -> ReqType]
    BY <1>20, <1>3, <1>6, <1>8 DEF Forget
  <2>2. cache' \in [Keys -> EntryType]
    BY <1>20, <1>2 DEF Forget, Typed
  <2>3. upload' \in [Keys -> UploadType]
    BY <1>20, <1>0, <1>5 DEF Forget, Rewritten
  <2> QED BY <1>20, <2>1, <2>2, <2>3 DEF Forget, Typed
<1>21. CASE Answer(h)
  <2>1. req' \in [Requests -> ReqType]
    BY <1>21, <1>3, <1>8 DEF Answer, Set, End
  <2> QED BY <1>21, <2>1 DEF Answer, Typed
<1> QED BY <1>9, <1>10, <1>11, <1>12, <1>13, <1>14, <1>15, <1>16, <1>17, <1>18, <1>19, <1>20,
            <1>21 DEF Serve

\* A crash and a start keep the types.
LEMMA RestartTyped == Typed /\ (Crash \/ Start) => Typed'
<1> SUFFICES ASSUME Typed, Crash \/ Start PROVE Typed'
  OBVIOUS
<1>1. CASE Crash
  <2>1. NoUpload \in UploadType /\ NoReq \in ReqType
    BY ContentsNat DEF NoUpload, UploadType, NoReq, ReqType, Stages
  <2>2. crashes' \in 0..MaxCrashes
    BY <1>1 DEF Crash, Typed
  <2> QED BY <1>1, <2>1, <2>2 DEF Crash, Typed
<1>2. CASE Start
  <2>1. \A k \in Keys : Marked(cache[k]) \in EntryType
    BY EntryTypes DEF Typed
  <2> QED BY <1>2, <2>1 DEF Start, Typed
<1> QED BY <1>1, <1>2

-----------------------------------------------------------------------------
(* What requests block stays without uploads. *)

\* A step changes one request; the others at most lose sight of their file.
Others(h) ==
    \A g \in Requests \ {h} : req'[g] = req[g] \/ \E k \in Keys : req'[g] = Lost(req[g], k)

\* A request is where it was: it may lose sight of its file, and another object may be there
\* for it to copy.
Keeps(r, q) ==
    /\ q \in ReqType
    /\ q.at = r.at /\ q.op = r.op /\ q.from = r.from /\ q.to = r.to /\ q.blocks = r.blocks
    /\ q.cached = r.cached /\ q.etag = r.etag /\ q.snap = r.snap /\ q.sure = r.sure
    /\ r.at # "copyobject" => q.want = r.want
    /\ q.info \in {r.info, NoKey}
    /\ r = NoReq => q = r

\* Uploads neither start nor end, nor open a file.
SameUploads ==
    \A k \in Keys : upload'[k].at = upload[k].at /\ upload'[k].snap = upload[k].snap

\* What a request blocks is blocked for every upload.
LEMMA BlocksUploads ==
    ASSUME Typed, NEW h \in Requests, NEW k \in req[h].blocks PROVE Blocked(k)
BY DEF Blocked

\* Losing sight of its file leaves a request where it was ...
LEMMA LostKeeps ==
    ASSUME NEW r \in ReqType, NEW k \in Keys PROVE Keeps(r, r) /\ Keeps(r, Lost(r, k))
<1>1. r = NoReq => Lost(r, k) = r
  BY DEF Lost, NoReq
<1>2. Keeps(r, r)
  BY DEF Keeps, ReqType
<1> QED BY <1>1, <1>2, LostType DEF Keeps

\* ... and in shape.
LEMMA KeepsShape ==
    ASSUME NEW r \in ReqType, NEW q, Keeps(r, q), Shape(r), Held(r)
    PROVE  Shape(q) /\ Held(q)
BY DEF Keeps, Shape, Held, Named

\* What blockUploads makes of a request.
Blocking(r, k, s) == [r EXCEPT !.at = s, !.blocks = @ \cup {k}]

LEMMA BlockShape ==
    ASSUME Typed, NEW h \in Requests, NEW r \in ReqType, NEW k \in Keys, NEW s \in Stages,
           BlockUploads(h, r, k, s)
    PROVE  /\ req'[h] = Blocking(r, k, s)
           /\ Others(h) /\ SameUploads
<1>1. req' = [req EXCEPT ![h] = [r EXCEPT !.at = s, !.blocks = @ \cup {k}]]
  BY DEF BlockUploads, Set
<1>2. upload' = [upload EXCEPT ![k].canceled = (upload[k].at # "idle")]
  BY DEF BlockUploads
<1>3. req'[h] = Blocking(r, k, s) /\ Others(h)
  BY <1>1 DEF Blocking, Typed, Others
<1>4. SameUploads
  BY <1>2 DEF Typed, UploadType, SameUploads
<1> QED BY <1>3, <1>4

LEMMA BeginShape ==
    ASSUME Typed, NEW h \in Requests, NEW op \in {"rename", "copy"}, NEW f \in Keys,
           NEW t \in Keys, Begin(h, op, f, t)
    PROVE  Shape(req'[h]) /\ Others(h) /\ SameUploads /\ req'[h].at \in {"block", "wait"}
           /\ req'[h].from = f /\ req'[h].to = t /\ (req'[h].at = "wait" => op = "copy")
           /\ req'[h].op = op
           /\ req'[h].info = NoKey /\ req'[h].snap = 0 /\ req'[h].etag = 0
<1> DEFINE r == [NoReq EXCEPT !.op = op, !.from = f, !.to = t]
<1>1. r \in ReqType
  BY ContentsNat DEF NoReq, ReqType, Stages
<1>2. /\ r.op = op /\ r.from = f /\ r.to = t /\ f # t
      /\ r.info = NoKey /\ r.snap = 0 /\ r.etag = 0
  BY DEF NoReq, Begin
<1>3. \/ op = "rename" /\ BlockUploads(h, r, f, "block")
      \/ op = "copy" /\ BlockUploads(h, r, t, "wait")
  BY DEF Begin
<1>4. "block" \in Stages /\ "wait" \in Stages
  BY DEF Stages
<1> HIDE DEF r
<1>5. CASE op = "rename"
  <2>1. req'[h] = Blocking(r, f, "block") /\ Others(h) /\ SameUploads
    <3>1. BlockUploads(h, r, f, "block")
      BY <1>3, <1>5
    <3> QED BY <3>1, <1>1, <1>4, BlockShape
  <2> QED BY <2>1, <1>1, <1>2, <1>5 DEF Blocking, ReqType, Shape, Named
<1>6. CASE op = "copy"
  <2>1. req'[h] = Blocking(r, t, "wait") /\ Others(h) /\ SameUploads
    <3>1. BlockUploads(h, r, t, "wait")
      BY <1>3, <1>6
    <3> QED BY <3>1, <1>1, <1>4, BlockShape
  <2> QED BY <2>1, <1>1, <1>2, <1>6 DEF Blocking, ReqType, Shape, Named
<1> QED BY <1>5, <1>6

LEMMA RewrittenSame ==
    ASSUME Typed, NEW k \in Keys, Rewritten(k) \/ UNCHANGED upload PROVE SameUploads
BY DEF Typed, UploadType, Rewritten, SameUploads

LEMMA SetOthers ==
    ASSUME Typed, NEW h \in Requests, NEW q, NEW k \in Keys,
           \/ req' = [req EXCEPT ![h] = q]
           \/ req' = [Touch(req, k) EXCEPT ![h] = q]
    PROVE  req'[h] = q /\ Others(h)
<1>1. Touch(req, k) = [g \in Requests |-> Lost(req[g], k)]
  BY TouchType DEF Typed
<1> QED BY <1>1 DEF Others, Typed

\* Every step of a request leaves it in shape, with the uploads of its keys held.
LEMMA ServeShape ==
    ASSUME Typed, NEW h \in Requests, Shape(req[h]), Held(req[h]), Serve(h)
    PROVE  /\ Shape(req'[h]) /\ Held(req[h])' /\ Others(h) /\ SameUploads
           /\ req'[h] = NoReq \/ /\ req'[h].op = req[h].op /\ req'[h].from = req[h].from
                                 /\ req'[h].to = req[h].to
           /\ req[h].at # "idle" /\ Named(req[h])
<1> DEFINE r == req[h]
           f == r.from
           t == r.to
<1>0. /\ r \in ReqType /\ f \in Keys /\ t \in Keys /\ r.at # "idle" /\ r.op # "none"
      /\ f # t
  <2>1. r.at # "idle"
    BY DEF Serve, BlockTo, Look, CopyObject, CopyCreate, CopyFill, PutOpen, Put, DeleteObject,
           Move, StatTo, Record, Forget, Answer
  <2> QED BY <2>1 DEF Typed, Shape, Named
<1>1. Shape(NoReq) /\ Held(NoReq)'
  BY DEF Shape, Held, NoReq
<1>2. SUFFICES /\ SameUploads /\ Others(h) /\ Shape(req'[h])
               /\ \/ req'[h] = NoReq
                  \/ /\ req'[h].op = r.op /\ req'[h].from = f /\ req'[h].to = t
                     /\ \/ req'[h].at \in {"block", "wait"}
                        \/ upload[t].at = "idle"
                     /\ r.op = "rename" => upload[f].at = "idle"
  <2>1. CASE req'[h] = NoReq
    BY <1>0, <1>1, <2>1, <1>2 DEF Named, Held
  <2>2. CASE req'[h] # NoReq
    BY <1>0, <2>2, <1>2 DEF Held, SameUploads, Named
  <2> QED BY <2>1, <2>2
<1>3. SameUploads
  <2>1. CASE BlockTo(h)
    BY <1>0, <2>1, BlockShape DEF BlockTo, Stages
  <2>2. CASE ~BlockTo(h)
    <3>1. \E k \in Keys : Rewritten(k) \/ UNCHANGED upload
      BY <1>0, <2>2 DEF Serve, Look, CopyObject, CopyCreate, CopyFill, PutOpen, Put,
         DeleteObject, Move, StatTo, Record, Forget, Answer
    <3> QED BY <3>1, RewrittenSame
  <2> QED BY <2>1, <2>2
<1>5. CASE BlockTo(h)
  <2>1. "wait" \in Stages
    BY DEF Stages
  <2>2. req'[h] = Blocking(r, t, "wait") /\ Others(h)
    BY <1>0, <1>5, <2>1, BlockShape DEF BlockTo
  <2>3. upload[f].at = "idle" /\ r.at = "block"
    BY <1>5 DEF BlockTo
  <2> HIDE DEF r
  <2> QED BY <1>0, <1>3, <2>2, <2>3 DEF r, Blocking, Shape, Named, ReqType
<1>6. CASE ~BlockTo(h)
  <2>1. (r.op = "rename" => r.at # "block" /\ upload[f].at = "idle") /\ r.at # "block"
    BY <1>6, <1>0 DEF Serve, Look, CopyObject, CopyCreate, CopyFill, PutOpen, Put, Held,
       DeleteObject, Move, StatTo, Record, Forget, Answer
  <2>2. upload[t].at = "idle"
    BY <1>6, <1>0 DEF Serve, Look, CopyObject, CopyCreate, CopyFill, PutOpen, Put, Held,
       DeleteObject, Move, StatTo, Record, Forget, Answer
  <2>3. PICK q : /\ \/ req' = [req EXCEPT ![h] = q]
                    \/ \E k \in Keys : req' = [Touch(req, k) EXCEPT ![h] = q]
                 /\ q = NoReq \/ /\ q.op = r.op /\ q.from = f /\ q.to = t /\ q.blocks = r.blocks
                                 /\ q.at \in {"copyobject", "create", "fill", "open", "put",
                                              "delete", "move", "stat", "record", "forget",
                                              "done"}
                                 /\ q.at \in {"delete", "move", "forget"} => r.op = "rename"
                                 /\ q.at \in {"create", "fill"} => r.op = "copy"
    <3> DEFINE Fine(q) ==
                 q = NoReq \/ /\ q.op = r.op /\ q.from = f /\ q.to = t /\ q.blocks = r.blocks
                              /\ q.at \in {"copyobject", "create", "fill", "open", "put",
                                           "delete", "move", "stat", "record", "forget",
                                           "done"}
                              /\ q.at \in {"delete", "move", "forget"} => r.op = "rename"
                              /\ q.at \in {"create", "fill"} => r.op = "copy"
    <3>1. r.op \in {"rename", "copy"}
      BY <1>0 DEF ReqType
    <3>2. r.at \in {"delete", "move", "forget"} => r.op = "rename"
      BY DEF Shape
    <3>3. r.at \in {"create", "fill"} => r.op = "copy"
      BY DEF Shape
    <3>4. CASE Look(h)
      <4> DEFINE local == LocalAuthoritative(f)
                 s == IF ~local THEN "copyobject" ELSE IF Rename(h) THEN "open" ELSE "create"
                 b == cache[f].file # 0
                 w == IF local THEN cache[f].file ELSE remote[f]
                 y == \/ cache[f].file \in {0, remote[f]}
                      \/ cache[f].meta # "synced" /\ cache[f].file \notin stored
                 q == [r EXCEPT !.at = s, !.cached = b, !.want = w, !.sure = y]
      <4>1. req' = [req EXCEPT ![h] = q]
        BY <3>4 DEF Look, Set
      <4>2. s \in {"copyobject", "open", "create"} /\ (s = "create" => r.op = "copy")
        BY <3>1 DEF Rename
      <4> HIDE DEF s, b, w, y
      <4>3. Fine(q)
        BY <4>2, <1>0 DEF ReqType
      <4> HIDE DEF q
      <4> QED BY <4>1, <4>3
    <3>5. CASE CopyObject(h)
      <4>1. \/ \E x \in {"delete", "create", "done"} :
                 /\ req' = [req EXCEPT ![h] = [r EXCEPT !.etag = remote[f], !.at = x]]
                 /\ x = "create" => r.op = "copy"
                 /\ x = "delete" => r.op = "rename"
            \/ \E x \in {"open", "create"} :
                 /\ req' = [req EXCEPT ![h] = [r EXCEPT !.at = x, !.want = cache[f].file]]
                 /\ x = "create" => r.op = "copy"
            \/ req' = [req EXCEPT ![h] = NoReq]
        BY <3>1, <3>5 DEF CopyObject, Set, End, Rename
      <4>2. /\ \A x \in {"delete", "create", "done"} :
                  (x = "create" => r.op = "copy") /\ (x = "delete" => r.op = "rename")
                     => Fine([r EXCEPT !.etag = remote[f], !.at = x])
            /\ \A x \in {"open", "create"} :
                  (x = "create" => r.op = "copy")
                     => Fine([r EXCEPT !.at = x, !.want = cache[f].file])
            /\ Fine(NoReq)
        BY <1>0 DEF ReqType
      <4> HIDE DEF Fine
      <4> QED BY <4>1, <4>2 DEF Fine
    <3>6. CASE CopyCreate(h)
      <4>1. PICK v :
               \/ req' = [Touch(req, t) EXCEPT ![h] = [r EXCEPT !.at = "fill", !.snap = v]]
               \/ req' = [req EXCEPT ![h] = Go(r, "done")]
               \/ req' = [req EXCEPT ![h] = NoReq]
        BY <3>6 DEF CopyCreate, Set
      <4>2. /\ Fine([r EXCEPT !.at = "fill", !.snap = v]) /\ Fine(NoReq) /\ Fine(Go(r, "done"))
        BY <3>3, <3>6, <1>0 DEF ReqType, Go, CopyCreate
      <4> QED BY <4>1, <4>2, <1>0
    <3>7. CASE CopyFill(h)
      <4>1. \/ \E s \in {"stat", "open", "done"} : req' = [Touch(req, t) EXCEPT ![h] = Go(r, s)]
            \/ req' = [Touch(req, t) EXCEPT ![h] = NoReq]
        BY <3>7 DEF CopyFill
      <4>2. Fine(NoReq) /\ \A s \in {"stat", "open", "done"} : Fine(Go(r, s))
        BY <3>7, <1>0 DEF ReqType, Go, CopyFill
      <4> QED BY <4>1, <4>2, <1>0
    <3>8. CASE PutOpen(h)
      <4>1. PICK v, k :
               \/ req' = [req EXCEPT ![h] = [r EXCEPT !.at = "put", !.info = k, !.snap = v]]
               \/ req' = [req EXCEPT ![h] = NoReq]
        BY <3>8 DEF PutOpen, Set
      <4>2. Fine(NoReq) /\ Fine([r EXCEPT !.at = "put", !.info = k, !.snap = v])
        BY <1>0 DEF ReqType
      <4> QED BY <4>1, <4>2
    <3>9. CASE Put(h)
      <4>1. PICK v, s :
               /\ s \in {"delete", "record"}
               /\ \/ req' = [req EXCEPT ![h] = [r EXCEPT !.etag = v, !.at = s]]
                  \/ req' = [req EXCEPT ![h] = NoReq]
               /\ s = "delete" => r.op = "rename"
        BY <3>9 DEF Put, Set, End, Rename
      <4>2. Fine(NoReq) /\ Fine([r EXCEPT !.etag = v, !.at = s])
        BY <4>1, <1>0 DEF ReqType
      <4> QED BY <4>1, <4>2
    <3>10. CASE Move(h)
      <4>1. PICK k, s :
               /\ s \in {"record", "stat", "forget"}
               /\ \/ req' = [req EXCEPT ![h] = [r EXCEPT !.info = k, !.at = "record"]]
                  \/ req' = [req EXCEPT ![h] = Go(r, s)]
        BY <3>10 DEF Move, Set
      <4>2. r.op = "rename"
        BY <3>2, <3>10 DEF Move
      <4>3. Fine(Go(r, s)) /\ Fine([r EXCEPT !.info = k, !.at = "record"])
        BY <4>1, <4>2, <1>0 DEF ReqType, Go
      <4> QED BY <4>1, <4>3
    <3>11. CASE StatTo(h)
      <4>1. PICK k : req' = [req EXCEPT ![h] = [r EXCEPT !.at = "record", !.info = k]]
        BY <3>11 DEF StatTo, Set
      <4>2. Fine([r EXCEPT !.at = "record", !.info = k])
        BY <1>0 DEF ReqType
      <4> QED BY <4>1, <4>2
    <3>12. CASE DeleteObject(h) \/ Record(h) \/ Forget(h)
      <4>1. PICK s \in {"move", "forget", "done"} :
               /\ \/ req' = [req EXCEPT ![h] = Go(r, s)]
                  \/ req' = [Touch(req, f) EXCEPT ![h] = Go(r, s)]
               /\ s # "done" => r.op = "rename"
        BY <3>2, <3>12 DEF DeleteObject, Record, Forget, Set, Rename
      <4>2. Fine(Go(r, s))
        BY <4>1, <1>0 DEF ReqType, Go
      <4> QED BY <4>1, <4>2, <1>0
    <3>13. CASE Answer(h)
      <4>1. req' = [req EXCEPT ![h] = NoReq] /\ Fine(NoReq)
        BY <3>13 DEF Answer, Set, End
      <4> QED BY <4>1
    <3> QED BY <1>6, <3>4, <3>5, <3>6, <3>7, <3>8, <3>9, <3>10, <3>11, <3>12, <3>13 DEF Serve
  <2>4. req'[h] = q /\ Others(h)
    BY <1>0, <2>3, SetOthers
  <2>5. Shape(q)
    <3>1. CASE q = NoReq
      BY <1>1, <3>1
    <3>2. CASE q # NoReq
      BY <1>0, <2>1, <2>3, <3>2 DEF Shape, Named, Held
    <3> QED BY <3>1, <3>2
  <2> QED BY <1>3, <2>1, <2>2, <2>3, <2>4, <2>5
<1> QED BY <1>5, <1>6

\* The steps of the environment and of the background uploads leave requests where they are,
\* and start no upload of a blocked key.
LEMMA KeyEffect ==
    ASSUME Typed, NEW k \in Keys,
           \/ PVEWrite(k) \/ OtherPut(k) \/ WatcherEvent(k) \/ Evict(k)
           \/ UploadStart(k) \/ UploadPut(k) \/ UploadRecord(k)
    PROVE  /\ \A h \in Requests : Keeps(req[h], req'[h])
           /\ \A p \in Keys : upload[p].at = "idle" /\ Blocked(p) => upload'[p].at = "idle"
<1>1. Touch(req, k) = [g \in Requests |-> Lost(req[g], k)]
  BY TouchType DEF Typed
<1>2. ASSUME NEW h \in Requests PROVE Keeps(req[h], req'[h])
  <2> DEFINE r == req[h]
             w == [r EXCEPT !.want = upload[k].snap]
  <2>1. r \in ReqType /\ upload[k].snap \in Contents
    BY DEF Typed, UploadType
  <2>2. r.at = "copyobject" => Keeps(r, w)
    <3>1. r.at = "copyobject" => r # NoReq
      BY DEF NoReq
    <3> QED BY <2>1, <3>1 DEF Keeps, ReqType
  <2>3. \/ req'[h] = r \/ req'[h] = Lost(r, k)
        \/ r.at = "copyobject" /\ req'[h] = w
    BY <1>1 DEF PVEWrite, OtherPut, WatcherEvent, Evict, UploadStart, UploadPut, Sends,
       UploadRecord
  <2> QED BY <2>1, <2>2, <2>3, LostKeeps
<1>3. SUFFICES ASSUME NEW p \in Keys, upload[p].at = "idle", Blocked(p)
               PROVE  upload'[p].at = "idle"
  BY <1>2
<1>4. CASE PVEWrite(k) \/ Evict(k)
  <2>1. SameUploads
    BY <1>4, RewrittenSame DEF PVEWrite, Evict
  <2> QED BY <1>3, <2>1 DEF SameUploads
<1>5. CASE OtherPut(k) \/ WatcherEvent(k)
  BY <1>3, <1>5 DEF OtherPut, WatcherEvent
<1>6. CASE UploadStart(k)
  BY <1>3, <1>6 DEF UploadStart, Typed
<1>7. CASE UploadPut(k) \/ UploadRecord(k)
  BY <1>3, <1>7 DEF UploadPut, UploadRecord, Typed, NoUpload
<1> QED BY <1>4, <1>5, <1>6, <1>7

\* What a request that loses sight of its file keeps.
LEMMA OthersFields ==
    ASSUME Typed, NEW h \in Requests, Others(h), NEW g \in Requests \ {h}
    PROVE  /\ req'[g].at = req[g].at /\ req'[g].op = req[g].op /\ req'[g].from = req[g].from
           /\ req'[g].to = req[g].to /\ req'[g].cached = req[g].cached
           /\ req'[g].etag = req[g].etag /\ req'[g].snap = req[g].snap
           /\ req'[g].want = req[g].want /\ req'[g].sure = req[g].sure
           /\ req'[g].info \in {req[g].info, NoKey}
<1>1. req[g] \in ReqType /\ (req'[g] = req[g] \/ \E k \in Keys : req'[g] = Lost(req[g], k))
  BY DEF Typed, Others
<1> QED BY <1>1, LostType

\* A request leaves alone what it does not write.
LEMMA ServeApart ==
    ASSUME Typed, ShapeMatch, NEW h \in Requests, Serve(h),
           NEW p \in Keys, p \notin Writes(req[h])
    PROVE  /\ cache'[p] = cache[p] /\ remote'[p] = remote[p]
           /\ \A g \in Requests \ {h} : req[g].info = p => req'[g].info = p
<1> DEFINE r == req[h]
<1>1. /\ r \in ReqType /\ r.from \in Keys /\ r.to \in Keys /\ r.at # "idle"
  BY ServeShape DEF ShapeMatch, Named, Typed
<1>2. /\ p # r.to
      /\ r.at \in {"block", "delete", "move", "forget"} => p # r.from
  BY DEF ShapeMatch, Shape, Writes
<1>3. cache'[p] = cache[p]
  BY <1>1, <1>2 DEF Typed, Serve, BlockTo, Look, CopyObject, CopyCreate, CopyFill, PutOpen,
     Put, DeleteObject, Move, StatTo, Record, Forget, Answer
<1>4. remote'[p] = remote[p]
  BY <1>1, <1>2 DEF Typed, Serve, BlockTo, Look, CopyObject, CopyCreate, CopyFill, PutOpen,
     Put, DeleteObject, Move, StatTo, Record, Forget, Answer, WriteRemote
<1>5. ASSUME NEW g \in Requests \ {h}, req[g].info = p PROVE req'[g].info = p
  <2>1. \A k \in Keys : k # p => Touch(req, k)[g] = req[g]
    BY <1>5 DEF Touch
  <2>2. \/ req'[g] = req[g]
        \/ req'[g] = Touch(req, r.to)[g]
        \/ r.at = "forget" /\ req'[g] = Touch(req, r.from)[g]
    <3>1. \A k \in Keys : Touch(req, k) \in [Requests -> ReqType]
      BY TouchType DEF Typed
    <3> QED BY <1>1, <1>5, <3>1 DEF Typed, Serve, BlockTo, BlockUploads, Look, CopyObject,
         CopyCreate, CopyFill, PutOpen, Put, DeleteObject, Move, StatTo, Record, Forget,
         Answer, Set, End
  <2> QED BY <1>1, <1>2, <1>5, <2>1, <2>2
<1> QED BY <1>3, <1>4, <1>5

LEMMA InitShape == Init => ShapeMatch
BY DEF Init, ShapeMatch, Shape, Held, NoReq

\* A request keeps its shape while others take steps.
LEMMA ShapeKept ==
    ASSUME Typed, NEW h \in Requests, Shape(req[h]), Held(req[h]),
           Keeps(req[h], req'[h]),
           \A p \in Keys : upload[p].at = "idle" /\ Blocked(p) => upload'[p].at = "idle"
    PROVE  Shape(req'[h]) /\ Held(req[h])'
<1>1. Shape(req'[h]) /\ Held(req'[h])
  BY KeepsShape DEF Typed
<1>2. req'[h].blocks = req[h].blocks
  BY DEF Keeps
<1>3. \A p \in req'[h].blocks : Blocked(p)
  BY <1>2 DEF Blocked
<1>4. CASE req'[h].at = "idle"
  BY <1>1, <1>4 DEF Shape, Held, NoReq
<1>5. CASE req'[h].at # "idle"
  BY <1>1, <1>3, <1>5 DEF Shape, Named, Held
<1> QED BY <1>4, <1>5

LEMMA ShapeNext == Typed /\ ShapeMatch /\ [Next]_vars => Typed' /\ ShapeMatch'
<1> SUFFICES ASSUME Typed, ShapeMatch, [Next]_vars PROVE Typed' /\ ShapeMatch'
  OBVIOUS
<1>1. ASSUME NEW k \in Keys,
             \/ PVEWrite(k) \/ OtherPut(k) \/ WatcherEvent(k) \/ Evict(k)
             \/ UploadStart(k) \/ UploadPut(k) \/ UploadRecord(k)
      PROVE  Typed' /\ ShapeMatch'
  <2>1. Typed'
    BY <1>1, KeyTyped
  <2>2. \A h \in Requests : Shape(req'[h]) /\ Held(req[h])'
    BY <1>1, KeyEffect, ShapeKept DEF ShapeMatch
  <2> QED BY <2>1, <2>2 DEF ShapeMatch
<1>2. ASSUME NEW h \in Requests, Others(h), SameUploads, Shape(req'[h]), Held(req[h])'
      PROVE  ShapeMatch'
  <2>1. \A g \in Requests \ {h} : Shape(req'[g]) /\ Held(req[g])'
    <3>1. ASSUME NEW g \in Requests \ {h} PROVE Keeps(req[g], req'[g])
      <4>1. req[g] \in ReqType
        BY DEF Typed
      <4>2. req'[g] = req[g] \/ \E k \in Keys : req'[g] = Lost(req[g], k)
        BY <1>2 DEF Others
      <4>3. CASE req'[g] = req[g]
        <5>1. Keeps(req[g], req[g])
          BY <4>1 DEF Keeps
        <5> QED BY <4>3, <5>1
      <4>4. CASE \E k \in Keys : req'[g] = Lost(req[g], k)
        <5>1. PICK k \in Keys : req'[g] = Lost(req[g], k)
          BY <4>4
        <5>2. Keeps(req[g], Lost(req[g], k))
          BY <4>1, LostKeeps
        <5> QED BY <5>1, <5>2
      <4> QED BY <4>2, <4>3, <4>4
    <3> QED BY <1>2, <3>1, ShapeKept DEF ShapeMatch, SameUploads
  <2> QED BY <1>2, <2>1 DEF ShapeMatch
<1>3. ASSUME NEW h \in Requests, NEW op \in {"rename", "copy"}, NEW f \in Keys, NEW t \in Keys,
             Begin(h, op, f, t)
      PROVE  Typed' /\ ShapeMatch'
  <2>1. /\ Shape(req'[h]) /\ Others(h) /\ SameUploads /\ req'[h].at \in {"block", "wait"}
        /\ req'[h].at = "wait" => req'[h].op = "copy"
    BY <1>3, BeginShape
  <2>2. Held(req[h])'
    BY <2>1 DEF Held
  <2> QED BY <1>2, <1>3, <2>1, <2>2, BeginTyped
<1>4. ASSUME NEW h \in Requests, Serve(h) PROVE Typed' /\ ShapeMatch'
  <2>1. Shape(req'[h]) /\ Held(req[h])' /\ Others(h) /\ SameUploads /\ Named(req[h])
    BY <1>4, ServeShape DEF ShapeMatch
  <2> QED BY <1>2, <1>4, <2>1, ServeTyped
<1>5. CASE Crash \/ Start
  <2>1. Typed'
    BY <1>5, RestartTyped
  <2>2. CASE Crash
    <3>1. \A h \in Requests : req'[h] = NoReq
      BY <2>2 DEF Crash
    <3>2. Shape(NoReq) /\ NoReq.at = "idle" /\ NoReq.op = "none"
      BY DEF Shape, NoReq
    <3>3. \A h \in Requests : Shape(req'[h]) /\ Held(req[h])'
      BY <3>1, <3>2 DEF Held
    <3> QED BY <2>1, <3>3 DEF ShapeMatch
  <2>3. CASE Start
    <3>1. \A h \in Requests : Shape(req'[h]) /\ Held(req[h])'
      BY <2>3 DEF Start, ShapeMatch, Held
    <3> QED BY <2>1, <3>1 DEF ShapeMatch
  <2> QED BY <1>5, <2>1, <2>2, <2>3
<1>6. CASE UNCHANGED vars
  BY <1>6 DEF vars, Typed, ShapeMatch, Held
<1> QED BY <1>1, <1>3, <1>4, <1>5, <1>6 DEF Next

\* Every variable keeps its type and no stage is reached out of order: for every number of
\* keys and of concurrent requests, with failures and crashes (handleRename, handleCopy).
THEOREM TypeCorrect == Spec => []TypeOK
<1>1. Init => Typed /\ ShapeMatch
  BY InitTyped, InitShape
<1>2. Typed /\ ShapeMatch /\ [Next]_vars => (Typed /\ ShapeMatch)'
  BY ShapeNext
<1>3. Typed /\ ShapeMatch => TypeOK
  BY TypedOK
<1> QED BY <1>1, <1>2, <1>3, PTL DEF Spec

-----------------------------------------------------------------------------
(* Names renamed away. *)

\* Changes of the file of an entry.
LEMMA FileKept ==
    ASSUME Typed, NEW k \in Keys
    PROVE  /\ Marked(cache[k]).file = cache[k].file
           /\ \A v : Synced(cache[k], v).file = cache[k].file
           /\ \A v : Written(cache[k], v).file = v
           /\ Absent.file = 0
<1>1. cache[k] \in EntryType
  BY DEF Typed
<1> QED BY <1>1 DEF EntryType, CacheType, Absent, Marked, Written, Synced, Covers

\* The steps of the environment and of the background uploads leave gone names alone.
LEMMA GoneKeys ==
    ASSUME Typed, ShapeMatch, GoneMatch, NEW k \in Keys,
           \/ PVEWrite(k) \/ OtherPut(k) \/ WatcherEvent(k) \/ Evict(k)
           \/ UploadStart(k) \/ UploadPut(k) \/ UploadRecord(k)
    PROVE  GoneMatch'
<1>1. \A h \in Requests : /\ req'[h].to = req[h].to /\ req'[h].from = req[h].from
                          /\ req'[h].at = req[h].at
  BY KeyEffect DEF Keeps
<1>2. \A p \in Keys : Moving(p) => Moving(p)'
  BY <1>1 DEF Moving
<1>3. \A p \in Keys : Moving(p) => Blocked(p)
  BY DEF Moving, ShapeMatch, Shape, Blocked
<1>4. gone' \subseteq gone /\ gone \subseteq Keys
  BY DEF Typed, PVEWrite, OtherPut, WatcherEvent, Evict, UploadStart, UploadPut, UploadRecord
<1>5. SUFFICES ASSUME NEW p \in Keys, p \in gone'
               PROVE  /\ remote'[p] = 0 /\ upload'[p].at = "idle"
                      /\ cache'[p].file = 0 \/ cache'[p].file = cache[p].file
  BY <1>1, <1>2, <1>4 DEF GoneMatch
<1>6. /\ remote[p] = 0 /\ upload[p].at = "idle"
      /\ cache[p].file = 0 \/ Blocked(p)
  BY <1>3, <1>4, <1>5 DEF GoneMatch
<1>7. CASE PVEWrite(k)
  <2>1. SameUploads
    BY <1>7, RewrittenSame DEF PVEWrite
  <2>2. p # k
    BY <1>5, <1>7 DEF PVEWrite
  <2> QED BY <1>6, <1>7, <2>1, <2>2 DEF PVEWrite, SameUploads, Typed
<1>8. CASE Evict(k)
  <2>1. SameUploads
    BY <1>8, RewrittenSame DEF Evict
  <2> QED BY <1>6, <1>8, <2>1, FileKept DEF Evict, SameUploads, Typed
<1>9. CASE OtherPut(k)
  BY <1>5, <1>6, <1>9 DEF OtherPut, WriteRemote, Typed
<1>10. CASE WatcherEvent(k)
  <2>1. cache' = cache \/ cache' = [cache EXCEPT ![k] = Marked(cache[k])]
    BY <1>10 DEF WatcherEvent, Noticed, Typed
  <2> QED BY <1>6, <1>10, <2>1, FileKept DEF WatcherEvent, Typed
<1>11. CASE UploadStart(k)
  <2>1. p = k => cache[k].file = 0
    BY <1>6, <1>11 DEF UploadStart
  <2>2. CASE p = k
    BY <1>6, <1>11, <2>1, <2>2 DEF UploadStart
  <2>3. CASE p # k
    BY <1>6, <1>11, <2>3 DEF UploadStart, Typed
  <2> QED BY <2>2, <2>3
<1>12. CASE UploadPut(k)
  BY <1>6, <1>12 DEF UploadPut, Sends, WriteRemote, Typed
<1>13. CASE UploadRecord(k)
  BY <1>6, <1>13 DEF UploadRecord, Typed
<1> QED BY <1>7, <1>8, <1>9, <1>10, <1>11, <1>12, <1>13

\* A request writes no name but its destination, and takes its source away.
LEMMA GoneServe ==
    ASSUME Apart, Typed, ShapeMatch, GoneMatch, NEW h \in Requests, Serve(h)
    PROVE  GoneMatch'
<1> DEFINE r == req[h]
           f == r.from
           t == r.to
<1>0. /\ r \in ReqType /\ f \in Keys /\ t \in Keys /\ f # t /\ NoKey \notin gone
      /\ gone \subseteq Keys /\ r.at # "idle"
      /\ r.at \in {"delete", "move", "forget"} => r.op = "rename"
  BY DEF Typed, ShapeMatch, Shape, Named, Serve, BlockTo, Look, CopyObject, CopyCreate,
     CopyFill, PutOpen, Put, DeleteObject, Move, StatTo, Record, Forget, Answer
<1>1. /\ SameUploads /\ Others(h)
      /\ req'[h] = NoReq \/ (req'[h].op = r.op /\ req'[h].from = f /\ req'[h].to = t)
  BY ServeShape DEF ShapeMatch
<1>12. \A g \in Requests \ {h} : /\ req'[g].at = req[g].at /\ req'[g].from = req[g].from
                                 /\ req'[g].to = req[g].to
  BY <1>1, OthersFields
<1>2. t \notin gone /\ NoReq.to \notin gone /\ f # t /\ NoReq.to # f
  BY <1>0 DEF GoneMatch, NoReq
<1>3. ASSUME gone' = gone,
             \A p \in gone : remote'[p] = 0,
             \A p \in gone : cache'[p].file = 0 \/
                /\ cache'[p].file = cache[p].file
                /\ r.at \in {"move", "forget"} /\ p = f => req'[h].at \in {"move", "forget"}
      PROVE  GoneMatch'
  <2>1. \A p \in gone : upload'[p].at = "idle"
    BY <1>0, <1>1 DEF GoneMatch, SameUploads
  <2>2. \A p \in gone : \A g \in Requests : req'[g].to # p
    BY <1>0, <1>1, <1>2, <1>12 DEF GoneMatch
  <2>3. ASSUME NEW p \in gone, cache'[p].file # 0 PROVE Moving(p)'
    <3>1. cache[p].file # 0 /\ Moving(p)
      BY <1>3, <2>3 DEF GoneMatch
    <3>5. PICK g \in Requests : req[g].from = p /\ req[g].at \in {"move", "forget"}
      BY <3>1 DEF Moving
    <3>6. g # h => Moving(p)'
      BY <1>12, <3>5 DEF Moving
    <3>2. SUFFICES ASSUME p = f, r.at \in {"move", "forget"} PROVE Moving(p)'
      BY <3>5, <3>6
    <3>3. req'[h].at \in {"move", "forget"}
      BY <1>3, <2>3, <3>2
    <3>4. req'[h].from = f
      BY <1>1, <3>3 DEF NoReq
    <3> QED BY <3>2, <3>3, <3>4 DEF Moving
  <2> QED BY <1>3, <2>1, <2>2, <2>3 DEF GoneMatch
<1>4. \A p \in gone : remote[p] = 0 /\ p # t /\ p \in Keys
  BY <1>0, <1>2 DEF GoneMatch
<1>5. CASE BlockTo(h) \/ Look(h) \/ PutOpen(h) \/ StatTo(h) \/ Answer(h)
  BY <1>3, <1>4, <1>5 DEF BlockTo, Look, PutOpen, StatTo, Answer
<1>6. CASE CopyObject(h) \/ Put(h)
  BY <1>3, <1>4, <1>6 DEF CopyObject, Put, WriteRemote, Typed
<1>7. CASE CopyCreate(h) \/ CopyFill(h)
  BY <1>3, <1>4, <1>7 DEF CopyCreate, CopyFill, Typed
<1>8. CASE DeleteObject(h)
  <2>1. r.op = "rename" /\ r.at = "delete" /\ upload[f].at = "idle" /\ r.at # "idle"
    BY <1>0, <1>8 DEF DeleteObject, ShapeMatch, Held
  <2>2. \E s \in {"move", "forget"} : req' = [req EXCEPT ![h] = Go(r, s)]
    BY <1>8 DEF DeleteObject, Set
  <2>3. req'[h].at \in {"move", "forget"} /\ req'[h].from = f /\ req'[h].to = t
    BY <1>0, <2>2 DEF Typed, Go, ReqType
  <2>5. \/ remote' = [remote EXCEPT ![f] = 0] /\ gone' = gone \cup {f}
        \/ remote' = remote /\ gone' = gone
    BY <1>8 DEF DeleteObject
  <2>6. cache' = cache /\ upload' = upload
    BY <1>8 DEF DeleteObject
  <2>7. ASSUME NEW p \in gone, p # f
        PROVE  /\ remote'[p] = 0 /\ upload'[p].at = "idle"
               /\ cache'[p].file = 0 \/ Moving(p)'
               /\ \A g \in Requests : req'[g].to # p
    <3>1. Moving(p) => Moving(p)'
      BY <1>12, <2>7 DEF Moving
    <3>2. \A g \in Requests : req'[g].to # p
      BY <1>0, <1>4, <1>12, <2>3, <2>7 DEF GoneMatch
    <3> QED BY <1>0, <1>4, <2>5, <2>6, <2>7, <3>1, <3>2 DEF GoneMatch, Typed
  <2>10. \A g \in Requests : req'[g].to # f
    <3>1. ASSUME NEW g \in Requests \ {h} PROVE req[g].to # f
      <4>1. CASE req[g].at = "idle"
        BY <1>0, <4>1 DEF ShapeMatch, Shape, NoReq
      <4>2. CASE req[g].at # "idle"
        <5>1. Writes(r) \cap Uses(req[g]) = {} /\ f \in Writes(r)
          BY <1>0, <2>1, <4>2 DEF Apart, Writes
        <5> QED BY <5>1 DEF Uses
      <4> QED BY <4>1, <4>2
    <3> QED BY <1>0, <1>12, <2>3, <3>1
  <2>8. f \in gone' => remote'[f] = 0
    BY <1>4, <1>0, <2>5 DEF Typed
  <2>9. gone' \subseteq gone \cup {f}
    BY <2>5
  <2> SUFFICES ASSUME NEW p \in gone'
               PROVE  /\ remote'[p] = 0 /\ upload'[p].at = "idle"
                      /\ \A g \in Requests : req'[g].to # p
                      /\ cache'[p].file = 0 \/ Moving(p)'
    BY DEF GoneMatch, Moving
  <2>11. CASE p = f
    <3>1. upload'[f].at = "idle"
      BY <2>1, <2>6
    <3>2. Moving(p)'
      BY <2>3, <2>11 DEF Moving
    <3> QED BY <2>8, <2>10, <2>11, <3>1, <3>2
  <2>12. CASE p # f
    BY <2>7, <2>9, <2>12
  <2> QED BY <2>11, <2>12
<1>9. CASE Move(h)
  <2>1. CASE cache[f].file # 0
    <3>1. cache' = [cache EXCEPT ![t] = Written(cache[t], cache[f].file),
                                 ![f] = Written(cache[f], 0)]
      BY <1>9, <2>1 DEF Move
    <3>2. Written(cache[f], 0).file = 0
      BY <1>0, FileKept
    <3> QED BY <1>0, <1>3, <1>4, <1>9, <3>1, <3>2 DEF Move, Typed
  <2>2. CASE cache[f].file = 0
    BY <1>0, <1>3, <1>4, <1>9, <2>2 DEF Move
  <2> QED BY <2>1, <2>2
<1>10. CASE Record(h)
  BY <1>0, <1>3, <1>4, <1>10 DEF Record, Typed
<1>11. CASE Forget(h)
  BY <1>0, <1>3, <1>4, <1>11, FileKept DEF Forget, Typed
<1> QED BY <1>5, <1>6, <1>7, <1>8, <1>9, <1>10, <1>11 DEF Serve

LEMMA GoneNext ==
    Apart /\ Typed /\ ShapeMatch /\ GoneMatch /\ [Next]_vars => GoneMatch'
<1> SUFFICES ASSUME Apart, Typed, ShapeMatch, GoneMatch, [Next]_vars PROVE GoneMatch'
  OBVIOUS
<1>1. ASSUME NEW h \in Requests, NEW op \in {"rename", "copy"}, NEW f \in Keys, NEW t \in Keys,
             Begin(h, op, f, t)
      PROVE  GoneMatch'
  <2>1. req'[h].to = t /\ SameUploads /\ Others(h)
    BY <1>1, BeginShape
  <2>2. req[h].at = "idle" /\ gone \subseteq Keys
    BY <1>1 DEF Begin, Typed
  <2>3. \A g \in Requests \ {h} : /\ req'[g].at = req[g].at /\ req'[g].from = req[g].from
                                  /\ req'[g].to = req[g].to
    BY <2>1, OthersFields
  <2>4. \A p : Moving(p) => Moving(p)'
    BY <2>2, <2>3 DEF Moving
  <2> QED BY <1>1, <2>1, <2>2, <2>3, <2>4 DEF Begin, GoneMatch, SameUploads
<1>2. CASE Crash
  <2>1. \A p \in gone' : ~Moving(p) /\ p \in gone
    BY <1>2 DEF Crash, Moving
  <2>2. gone \subseteq Keys
    BY DEF Typed
  <2> QED BY <1>2, <2>1, <2>2 DEF Crash, GoneMatch, NoReq, NoUpload
<1>3. CASE Start
  <2>1. \A k \in Keys : cache'[k].file = cache[k].file
    BY <1>3, FileKept DEF Start
  <2>2. \A p : Moving(p) => Moving(p)'
    BY <1>3 DEF Start, Moving
  <2>3. gone \subseteq Keys
    BY DEF Typed
  <2> QED BY <1>3, <2>1, <2>2, <2>3 DEF Start, GoneMatch
<1>4. CASE UNCHANGED vars
  BY <1>4 DEF vars, GoneMatch, Moving
<1> QED BY <1>1, <1>2, <1>3, <1>4, GoneKeys, GoneServe DEF Next

\* While requests keep apart, a name renamed away stays away from S3, whatever PVE, the other
\* node, the background uploads and failures do: handleRename blocks the uploads of both
\* names and waits for those that run before it deletes the source's object.
THEOREM StaysAway == Spec /\ []Apart => []SourceStaysAway
<1>1. Init => Typed /\ ShapeMatch /\ GoneMatch
  BY InitTyped, InitShape DEF Init, GoneMatch
<1>2. Apart /\ Typed /\ ShapeMatch /\ GoneMatch /\ [Next]_vars
          => (Typed /\ ShapeMatch /\ GoneMatch)'
  BY ShapeNext, GoneNext
<1>3. Typed /\ ShapeMatch /\ GoneMatch => SourceStaysAway
  BY DEF GoneMatch, SourceStaysAway
<1> QED BY <1>1, <1>2, <1>3, PTL DEF Spec

-----------------------------------------------------------------------------
(* What a request found, and what it leaves. *)

\* While a request works on a key, others remove its file at most: PVE and the other node
\* do not write.
LEMMA WorkingKept ==
    ASSUME Undisturbed, Typed, NEW p \in Keys, Working(p), NEW k \in Keys,
           \/ PVEWrite(k) \/ OtherPut(k) \/ WatcherEvent(k) \/ Evict(k)
           \/ UploadStart(k) \/ UploadPut(k) \/ UploadRecord(k)
    PROVE  /\ \/ /\ cache'[p].file = cache[p].file
                 /\ \A h \in Requests : req[h].info = p => req'[h].info = p
              \/ cache'[p].file = 0 /\ \A h \in Requests : req'[h].info # p
           /\ upload[p].at = "idle" => remote'[p] = remote[p]
<1>1. Touch(req, k) = [g \in Requests |-> Lost(req[g], k)]
  BY TouchType DEF Typed
<1>2. \A h \in Requests : Lost(req[h], k).info = IF req[h].info = k THEN NoKey ELSE req[h].info
  <2>1. \A h \in Requests : req[h] \in ReqType
    BY DEF Typed
  <2> QED BY <2>1, LostType
<1>3. /\ Marked(cache[p]).file = cache[p].file
      /\ \A v : Synced(cache[p], v).file = cache[p].file
      /\ Absent.file = 0
  BY FileKept
<1>4. CASE PVEWrite(k)
  <2>1. p # k /\ SameUploads
    BY <1>4, RewrittenSame DEF PVEWrite, Undisturbed
  <2> QED BY <1>1, <1>2, <1>4, <2>1 DEF PVEWrite, SameUploads, Typed
<1>5. CASE OtherPut(k)
  BY <1>5 DEF OtherPut, WriteRemote, Undisturbed, Typed
<1>6. CASE WatcherEvent(k)
  <2>1. cache' = cache \/ cache' = [cache EXCEPT ![k] = Marked(cache[k])]
    BY <1>6 DEF WatcherEvent, Noticed, Typed
  <2>2. cache'[p] = cache[p] \/ cache'[p] = Marked(cache[p])
    BY <2>1 DEF Typed
  <2> QED BY <1>3, <1>6, <2>2 DEF WatcherEvent
<1>7. CASE Evict(k)
  <2>1. SameUploads
    BY <1>7, RewrittenSame DEF Evict
  <2>2. cache'[p] = IF p = k THEN Absent ELSE cache[p]
    BY <1>7 DEF Evict, Typed
  <2> QED BY <1>1, <1>2, <1>3, <1>7, <2>1, <2>2 DEF Evict, SameUploads, Typed
<1>8. CASE UploadStart(k)
  <2>1. req' = req /\ remote' = remote
    BY <1>8 DEF UploadStart
  <2>2. cache'[p] = cache[p] \/ \E v : cache'[p] = Synced(cache[p], v)
    BY <1>8 DEF UploadStart, Typed
  <2> QED BY <1>3, <2>1, <2>2
<1>9. CASE UploadPut(k)
  <2>1. cache' = cache /\ (upload[p].at = "idle" => remote'[p] = remote[p])
    BY <1>9 DEF UploadPut, Sends, WriteRemote, Typed
  <2>2. \A h \in Requests : req'[h].info = req[h].info
    BY <1>9 DEF UploadPut, Sends, Typed, ReqType
  <2> QED BY <2>1, <2>2
<1>10. CASE UploadRecord(k)
  <2>1. req' = req /\ remote' = remote
    BY <1>10 DEF UploadRecord
  <2>2. \/ cache'[p] = cache[p] \/ cache'[p] = Marked(cache[p])
        \/ \E v : cache'[p] = Synced(cache[p], v)
    BY <1>10 DEF UploadRecord, Typed
  <2> QED BY <1>3, <2>1, <2>2
<1> QED BY <1>4, <1>5, <1>6, <1>7, <1>8, <1>9, <1>10

\* So does the source of what a request is about to copy.
LEMMA CopyKept ==
    ASSUME Undisturbed, Typed, NEW h \in Requests, req[h].at = "copyobject",
           req[h].from \in Keys, CopySource(req[h]), NEW k \in Keys,
           \/ PVEWrite(k) \/ OtherPut(k) \/ WatcherEvent(k) \/ Evict(k)
           \/ UploadStart(k) \/ UploadPut(k) \/ UploadRecord(k)
    PROVE  CopySource(req[h])'
<1> DEFINE r == req[h]
           q == req'[h]
           f == r.from
<1>1. q.from = f /\ q.sure = r.sure
  BY KeyEffect DEF Keeps
<1>2. Working(f) /\ f \in Keys /\ r \in ReqType
  BY DEF Working, Typed
<1>3. cache'[f].file \in {cache[f].file, 0}
  BY <1>2, WorkingKept
<1>4. CASE UploadPut(k) /\ k = f
  <2>1. cache' = cache /\ upload[f].at = "put"
    BY <1>4 DEF UploadPut
  <2>2. upload'[f].at # "idle" => upload'[f].snap = upload[f].snap
    BY <1>4 DEF UploadPut, Typed, UploadType, NoUpload
  <2>3. \/ q = r /\ remote'[f] = remote[f]
        \/ q = [r EXCEPT !.want = upload[f].snap] /\ remote'[f] = upload[f].snap
    BY <1>2, <1>4 DEF UploadPut, Sends, WriteRemote, Typed
  <2>4. \/ q.want = r.want /\ remote'[f] = remote[f]
        \/ q.want = upload[f].snap /\ remote'[f] = upload[f].snap
    BY <1>2, <2>3 DEF ReqType
  <2> QED BY <1>1, <2>1, <2>2, <2>4 DEF CopySource, Is
<1>5. CASE ~(UploadPut(k) /\ k = f)
  <2>1. q.want = r.want /\ remote'[f] = remote[f]
    <3>1. Touch(req, k) = [g \in Requests |-> Lost(req[g], k)]
      BY TouchType DEF Typed
    <3>2. Lost(r, k).want = r.want
      BY <1>2, LostType
    <3>3. q = r \/ q = Lost(r, k)
      BY <1>5, <3>1 DEF PVEWrite, OtherPut, WatcherEvent, Evict, UploadStart, UploadPut, Sends,
         UploadRecord, Typed
    <3>4. remote'[f] = remote[f]
      BY <1>2, <1>5 DEF PVEWrite, OtherPut, WatcherEvent, Evict, UploadStart, UploadPut, Sends,
         UploadRecord, WriteRemote, Undisturbed, Typed
    <3> QED BY <3>2, <3>3, <3>4
  <2>2. upload'[f].at # "idle" =>
           \/ upload[f].at # "idle" /\ upload'[f].snap = upload[f].snap
           \/ upload'[f].snap = cache[f].file
    <3>1. CASE PVEWrite(k) \/ Evict(k) \/ OtherPut(k) \/ WatcherEvent(k)
      <4>1. SameUploads
        BY <3>1, RewrittenSame DEF PVEWrite, Evict, OtherPut, WatcherEvent
      <4> QED BY <1>2, <4>1 DEF SameUploads
    <3>2. CASE UploadStart(k)
      BY <1>2, <3>2 DEF UploadStart, Typed
    <3>3. CASE UploadPut(k) \/ UploadRecord(k)
      BY <1>2, <1>5, <3>3 DEF UploadPut, UploadRecord, Typed, NoUpload
    <3> QED BY <3>1, <3>2, <3>3
  <2> QED BY <1>1, <1>3, <2>1, <2>2 DEF CopySource, Is
<1> QED BY <1>4, <1>5

\* A request keeps its promises while others take steps, if they leave its files alone or
\* remove them, write neither of its objects, and keep the source of its copy.
LEMMA PromiseKept ==
    ASSUME NEW h \in Requests, Shape(req[h]), Held(req[h]),
           InHand(req[h]), FromSource(req[h]), Delivered(req[h]),
           Keeps(req[h], req'[h]),
           req[h].at = "copyobject" => CopySource(req[h])',
           req[h].at # "idle" => \A p \in Uses(req[h]) :
              /\ \/ cache'[p].file = cache[p].file /\ (req[h].info = p => req'[h].info = p)
                 \/ cache'[p].file = 0 /\ req'[h].info # p
              /\ upload[p].at = "idle" => remote'[p] = remote[p]
    PROVE  InHand(req[h])' /\ FromSource(req[h])' /\ Delivered(req[h])'
<1> DEFINE r == req[h]
           q == req'[h]
           f == r.from
           t == r.to
<1>0. /\ q.at = r.at /\ q.op = r.op /\ q.from = f /\ q.to = t /\ q.etag = r.etag
      /\ q.snap = r.snap /\ q.sure = r.sure /\ q.info \in {r.info, NoKey}
      /\ r.at # "copyobject" => q.want = r.want
  BY DEF Keeps
<1>1. CASE r.at = "idle"
  <2>1. r.op = "none" /\ r.etag = 0
    BY <1>1 DEF Shape, NoReq
  <2> QED BY <1>0, <1>1, <2>1 DEF InHand, FromSource, Delivered
<1>2. CASE r.at # "idle"
  <2>1. f # NoKey /\ t # NoKey
    BY <1>2 DEF Shape, Named
  <2>2. \A p \in {f, t} :
           /\ \/ cache'[p].file = cache[p].file /\ (r.info = p => q.info = p)
              \/ cache'[p].file = 0 /\ q.info # p
           /\ upload[p].at = "idle" => remote'[p] = remote[p]
    BY <1>2 DEF Uses
  <2>3. InHand(req[h])'
    BY <1>0, <2>1, <2>2 DEF InHand
  <2>4. FromSource(req[h])'
    <3>1. CASE r.at = "copyobject"
      BY <1>0, <3>1 DEF FromSource
    <3>2. CASE r.at # "copyobject"
      BY <1>0, <2>2, <3>2 DEF FromSource, Is, Uploaded
    <3> QED BY <3>1, <3>2
  <2>5. r.at = "copyobject" => r.etag = 0
    BY DEF FromSource
  <2>6. r.etag # 0 \/ r.at = "done" => upload[t].at = "idle"
    BY <1>2 DEF FromSource, Held
  <2>7. Delivered(req[h])'
    BY <1>0, <2>2, <2>5, <2>6 DEF Delivered
  <2> QED BY <2>3, <2>4, <2>7
<1> QED BY <1>1, <1>2

LEMMA KeySource ==
    ASSUME Undisturbed, Typed, ShapeMatch, SourceMatch, NEW k \in Keys,
           \/ PVEWrite(k) \/ OtherPut(k) \/ WatcherEvent(k) \/ Evict(k)
           \/ UploadStart(k) \/ UploadPut(k) \/ UploadRecord(k)
    PROVE  SourceMatch'
<1> SUFFICES ASSUME NEW h \in Requests
             PROVE  InHand(req[h])' /\ FromSource(req[h])' /\ Delivered(req[h])'
  BY DEF SourceMatch
<1> DEFINE r == req[h]
           q == req'[h]
<1>1. Keeps(r, q)
  BY KeyEffect
<1>2. InHand(r) /\ FromSource(r) /\ Delivered(r) /\ Shape(r) /\ Held(r)
  BY DEF SourceMatch, ShapeMatch
<1>3. ASSUME r.at # "idle", NEW p \in Uses(r)
      PROVE  /\ \/ cache'[p].file = cache[p].file /\ (r.info = p => q.info = p)
                \/ cache'[p].file = 0 /\ q.info # p
             /\ upload[p].at = "idle" => remote'[p] = remote[p]
  <2>1. p \in Keys /\ Working(p)
    BY <1>2, <1>3 DEF Shape, Named, Working, Uses
  <2> QED BY <2>1, WorkingKept
<1>4. r.at = "copyobject" => CopySource(req[h])'
  BY <1>2, CopyKept DEF FromSource, Shape, Named
<1> QED BY <1>1, <1>2, <1>3, <1>4, PromiseKept

\* The steps of the environment and of the background uploads keep the marks true.
LEMMA KeyMark ==
    ASSUME Typed, MarkMatch, NEW k \in Keys,
           \/ PVEWrite(k) \/ OtherPut(k) \/ WatcherEvent(k) \/ Evict(k)
           \/ UploadStart(k) \/ UploadPut(k) \/ UploadRecord(k)
    PROVE  MarkMatch'
<1> DEFINE c == cache[k]
           d == cache'[k]
           Fits == upload'[k].at # "idle" /\ d.meta = "synced"
                       => upload'[k].snap = d.file /\ k \notin queued'
<1>1. \A p \in Keys \ {k} : /\ cache'[p] = cache[p] /\ upload'[p] = upload[p]
                            /\ p \in queued' => p \in queued
  BY DEF Typed, Rewritten, WriteRemote, Sends, PVEWrite, OtherPut, WatcherEvent, Evict,
     UploadStart, UploadPut, UploadRecord
<1>2. up' = up /\ (up \/ upload[k].at # "idle" \/ upload'[k].at = "idle")
  BY DEF PVEWrite, OtherPut, WatcherEvent, Evict, UploadStart, UploadPut, UploadRecord
<1>3. \A h \in Requests : req'[h].at = req[h].at
  BY KeyEffect DEF Keeps
<1>4. SUFFICES Fits
  <2>1. ASSUME NEW p \in Keys, upload'[p].at # "idle", cache'[p].meta = "synced"
        PROVE  upload'[p].snap = cache'[p].file /\ p \notin queued'
    <3>1. CASE p = k
      BY <1>4, <2>1, <3>1
    <3>2. CASE p # k
      <4>1. cache'[p] = cache[p] /\ upload'[p] = upload[p] /\ (p \in queued' => p \in queued)
        BY <1>1, <3>2
      <4>2. upload[p].snap = cache[p].file /\ p \notin queued
        BY <2>1, <4>1 DEF MarkMatch
      <4> QED BY <4>1, <4>2
    <3> QED BY <3>1, <3>2
  <2>2. ASSUME ~up'
        PROVE  /\ \A h \in Requests : req'[h].at = "idle"
               /\ \A p \in Keys : upload'[p].at = "idle"
    <3>1. /\ \A h \in Requests : req[h].at = "idle"
          /\ \A p \in Keys : upload[p].at = "idle"
      BY <1>2, <2>2 DEF MarkMatch
    <3>2. ASSUME NEW p \in Keys PROVE upload'[p].at = "idle"
      <4>1. CASE p = k
        BY <1>2, <2>2, <3>1, <4>1
      <4>2. CASE p # k
        <5>1. upload'[p] = upload[p]
          BY <1>1, <4>2
        <5> QED BY <3>1, <5>1
      <4> QED BY <4>1, <4>2
    <3> QED BY <1>3, <3>1, <3>2
  <2> QED BY <2>1, <2>2 DEF MarkMatch
<1>5. /\ upload[k].at # "idle" /\ c.meta = "synced" => upload[k].snap = c.file /\ k \notin queued
      /\ c \in EntryType
  BY DEF MarkMatch, Typed
<1>6. /\ Marked(c) = c \/ Marked(c).meta = "pending"
      /\ \A v : v # 0 => Marked(Written(c, v)).meta = "pending"
      /\ \A v : Written(c, v).meta = c.meta
      /\ Absent.meta = "none"
  BY <1>5 DEF EntryType, CacheType, Marked, Written, Covers, Absent
<1> HIDE DEF c, d
<1>7. CASE PVEWrite(k)
  <2>1. last' # 0
    BY <1>7 DEF PVEWrite, Typed
  <2>2. d = Marked(Written(c, last')) \/ (k \in queued /\ d = Written(c, last'))
    BY <1>7 DEF PVEWrite, Noticed, Typed, c, d
  <2>3. SameUploads
    BY <1>7, RewrittenSame DEF PVEWrite
  <2> QED BY <1>5, <1>6, <2>1, <2>2, <2>3 DEF SameUploads
<1>8. CASE OtherPut(k)
  BY <1>5, <1>8 DEF OtherPut, c, d
<1>9. CASE WatcherEvent(k)
  <2>1. upload' = upload
    BY <1>9 DEF WatcherEvent
  <2>2. \/ d = Marked(c)
        \/ k \in queued /\ d = c
    BY <1>9 DEF WatcherEvent, Noticed, Typed, c, d
  <2>3. Marked(c) = c => queued' = queued
    BY <1>9 DEF WatcherEvent, c
  <2> QED BY <1>5, <1>6, <2>1, <2>2, <2>3
<1>10. CASE Evict(k)
  <2>1. d = Absent
    BY <1>10 DEF Evict, Typed, d
  <2> QED BY <1>6, <2>1
<1>11. CASE UploadStart(k)
  <2>1. upload[k].at = "idle" /\ k \notin queued'
    BY <1>11 DEF UploadStart
  <2>2. \/ upload'[k].snap = c.file /\ d = c
        \/ upload'[k] = upload[k]
    BY <1>11 DEF UploadStart, Typed, c, d
  <2> QED BY <2>1, <2>2
<1>12. CASE UploadPut(k)
  <2>1. upload[k].at = "put" /\ d = c
    BY <1>12 DEF UploadPut, c, d
  <2>2. \/ upload'[k].snap = upload[k].snap /\ queued' = queued
        \/ upload'[k].at = "idle"
    BY <1>12 DEF UploadPut, Typed, UploadType, NoUpload
  <2> QED BY <1>5, <2>1, <2>2
<1>13. CASE UploadRecord(k)
  <2>1. upload'[k].at = "idle"
    BY <1>13 DEF UploadRecord, Typed, NoUpload
  <2> QED BY <2>1
<1> QED BY <1>7, <1>8, <1>9, <1>10, <1>11, <1>12, <1>13

\* Where a step of a request begins.
LEMMA ServeFrame ==
    ASSUME Apart, RequestInv, NEW h \in Requests, Serve(h)
    PROVE  /\ req[h] \in ReqType /\ req[h].from \in Keys /\ req[h].to \in Keys
           /\ req[h].from # req[h].to /\ req[h].at # "idle" /\ up /\ Others(h)
           /\ req[h].op \in {"rename", "copy"}
           /\ Shape(req[h]) /\ Held(req[h])
           /\ InHand(req[h]) /\ FromSource(req[h]) /\ Delivered(req[h])
           /\ SameUploads
           /\ req'[h] = NoReq \/ (req'[h].op = req[h].op /\ req'[h].from = req[h].from
                                  /\ req'[h].to = req[h].to)
           /\ \A g \in Requests \ {h} :
                 req[g].at # "idle" => req[g].to \notin {req[h].from, req[h].to}
<1>1. Typed /\ ShapeMatch /\ MarkMatch /\ SourceMatch
  BY DEF RequestInv
<1>2. Shape(req[h]) /\ Held(req[h])
  BY <1>1 DEF ShapeMatch
<1>3. /\ req[h].at # "idle" /\ Named(req[h]) /\ SameUploads /\ Others(h)
      /\ req'[h] = NoReq \/ (req'[h].op = req[h].op /\ req'[h].from = req[h].from
                             /\ req'[h].to = req[h].to)
  BY <1>1, <1>2, ServeShape
<1>4. req[h] \in ReqType /\ up
  BY <1>1, <1>3 DEF Typed, MarkMatch
<1>5. InHand(req[h]) /\ FromSource(req[h]) /\ Delivered(req[h])
  BY <1>1 DEF SourceMatch
<1>6. req[h].from # req[h].to /\ req[h].op \in {"rename", "copy"}
  BY <1>2, <1>3, <1>4 DEF Shape, ReqType
<1>7. ASSUME NEW g \in Requests \ {h}, req[g].at # "idle"
      PROVE  req[g].to \notin {req[h].from, req[h].to}
  <2>1. Writes(req[g]) \cap Uses(req[h]) = {} /\ req[g].to \in Writes(req[g])
    BY <1>3, <1>7 DEF Apart, Writes
  <2> QED BY <2>1 DEF Uses
<1> QED BY <1>2, <1>3, <1>4, <1>5, <1>6, <1>7 DEF Named

\* What the other requests rely on stays as it is.
LEMMA ServeOthers ==
    ASSUME Apart, RequestInv, NEW h \in Requests, Serve(h), NEW g \in Requests \ {h}
    PROVE  InHand(req[g])' /\ FromSource(req[g])' /\ Delivered(req[g])'
<1>1. /\ Typed /\ ShapeMatch /\ Shape(req[g]) /\ Held(req[g])
      /\ InHand(req[g]) /\ FromSource(req[g]) /\ Delivered(req[g])
  BY DEF RequestInv, ShapeMatch, SourceMatch
<1>2. Others(h) /\ SameUploads /\ req[h].at # "idle"
  BY ServeFrame
<1>3. ASSUME req[g].at # "idle", NEW p \in Uses(req[g])
      PROVE  /\ cache'[p] = cache[p] /\ remote'[p] = remote[p]
             /\ upload'[p].at = upload[p].at /\ upload'[p].snap = upload[p].snap
             /\ req[g].info = p => req'[g].info = p
  <2>1. p \in Keys
    BY <1>1, <1>3 DEF Shape, Named, Uses
  <2>2. p \notin Writes(req[h])
    BY <1>2, <1>3 DEF Apart
  <2> QED BY <1>1, <1>2, <2>1, <2>2, ServeApart DEF SameUploads
<1>4. Keeps(req[g], req'[g]) /\ req'[g].want = req[g].want
  <2>1. req[g] \in ReqType
    BY <1>1 DEF Typed
  <2>2. CASE req'[g] = req[g]
    <3>1. Keeps(req[g], req[g])
      BY <2>1 DEF Keeps
    <3> QED BY <2>2, <3>1
  <2>3. CASE \E k \in Keys : req'[g] = Lost(req[g], k)
    <3>1. PICK k \in Keys : req'[g] = Lost(req[g], k)
      BY <2>3
    <3>2. Keeps(req[g], Lost(req[g], k)) /\ Lost(req[g], k).want = req[g].want
      BY <2>1, LostKeeps, LostType
    <3> QED BY <3>1, <3>2
  <2> QED BY <1>2, <2>2, <2>3 DEF Others
<1>5. req[g].at = "copyobject" => CopySource(req[g])'
  <2>1. req[g].at = "copyobject" => CopySource(req[g]) /\ req[g].from \in Uses(req[g])
    BY <1>1 DEF FromSource, Uses
  <2>2. req'[g].from = req[g].from /\ req'[g].sure = req[g].sure
    BY <1>4 DEF Keeps
  <2> QED BY <1>3, <1>4, <2>1, <2>2 DEF CopySource, Is
<1> QED BY <1>1, <1>3, <1>4, <1>5, PromiseKept

\* A request writes only files whose uploads it has waited for.
LEMMA ServeMark ==
    ASSUME Apart, RequestInv, NEW h \in Requests, Serve(h)
    PROVE  MarkMatch'
<1> DEFINE r == req[h]
           f == r.from
           t == r.to
<1>0. /\ r \in ReqType /\ f \in Keys /\ t \in Keys /\ up
      /\ Shape(r) /\ Held(r) /\ SameUploads /\ Typed /\ MarkMatch
  BY ServeFrame DEF RequestInv
<1>1. up' = up /\ queued' = queued
  BY DEF Serve, BlockTo, BlockUploads, Look, CopyObject, CopyCreate, CopyFill, PutOpen, Put,
     DeleteObject, Move, StatTo, Record, Forget, Answer
<1>2. \A p \in Keys : \/ cache'[p] = cache[p]
                      \/ p = t /\ r.at \notin {"idle", "block", "wait"}
                      \/ p = f /\ r.at \in {"move", "forget"}
  BY <1>0 DEF Typed, Serve, BlockTo, BlockUploads, Look, CopyObject, CopyCreate, CopyFill,
     PutOpen, Put, DeleteObject, Move, StatTo, Record, Forget, Answer
<1>3. \A p \in Keys : cache'[p] = cache[p] \/ upload[p].at = "idle"
  BY <1>0, <1>2 DEF Held, Shape
<1> QED BY <1>0, <1>1, <1>3 DEF MarkMatch, SameUploads

\* A request that is over promises nothing.
LEMMA NothingOwed ==
    ASSUME NEW h \in Requests, req'[h] = NoReq
    PROVE  InHand(req[h])' /\ FromSource(req[h])' /\ Delivered(req[h])'
<1>1. NoReq.at = "idle" /\ NoReq.op = "none" /\ NoReq.etag = 0
  BY DEF NoReq
<1>2. req'[h].at = "idle" /\ req'[h].op = "none" /\ req'[h].etag = 0
  BY <1>1
<1> QED BY <1>2 DEF InHand, FromSource, Delivered

\* Every step of a request keeps what it promises.
LEMMA ServeSource ==
    ASSUME Apart, RequestInv, NEW h \in Requests, Serve(h)
    PROVE  SourceMatch'
<1> DEFINE r == req[h]
           q == req'[h]
           f == r.from
           t == r.to
<1>0. /\ r \in ReqType /\ f \in Keys /\ t \in Keys /\ f # t /\ r.at # "idle" /\ up
      /\ r.op \in {"rename", "copy"}
      /\ Shape(r) /\ Held(r) /\ InHand(r) /\ FromSource(r) /\ Delivered(r) /\ SameUploads
      /\ Typed /\ MarkMatch
  BY ServeFrame DEF RequestInv
<1>1. SUFFICES q # NoReq => InHand(req[h])' /\ FromSource(req[h])' /\ Delivered(req[h])'
  BY NothingOwed, ServeOthers DEF SourceMatch
<1>2. /\ cache \in [Keys -> EntryType] /\ req \in [Requests -> ReqType]
      /\ remote \in [Keys -> Contents]
  BY <1>0 DEF Typed
<1>3. /\ \A k \in Keys : \A v : Written(cache[k], v).file = v
      /\ \A k \in Keys : \A v : Synced(cache[k], v).file = cache[k].file
      /\ Absent.file = 0
  <2>1. \A k \in Keys : cache[k] \in EntryType
    BY <1>2
  <2> QED BY <2>1 DEF EntryType, CacheType, Written, Synced, Absent
<1>4. /\ r.at \in {"block", "delete", "move", "forget"} => r.op = "rename"
      /\ r.at \in {"create", "fill"} => r.op = "copy"
  BY <1>0 DEF Shape
<1>5. Touch(req, t) \in [Requests -> ReqType] /\ Touch(req, f) \in [Requests -> ReqType]
  BY <1>0, <1>2, TouchType
<1> DEFINE Fields(a, e, s, i, w) ==
             /\ q.at = a /\ q.op = r.op /\ q.from = f /\ q.to = t /\ q.cached = r.cached
             /\ q.sure = r.sure /\ q.etag = e /\ q.snap = s /\ q.info = i /\ q.want = w
<1> HIDE DEF r
<1>6. \A s : q = Go(r, s) => Fields(s, r.etag, r.snap, r.info, r.want)
  BY <1>0 DEF Go, ReqType
<1> USE DEF InHand, FromSource, CopySource, Delivered, Is, Uploaded
<1>7. CASE BlockTo(h)
  <2>1. q = Blocking(r, t, "wait") /\ r.at = "block"
    <3>1. BlockUploads(h, r, t, "wait") /\ "wait" \in Stages
      BY <1>7 DEF BlockTo, Stages, r
    <3> QED BY <1>0, <1>7, <3>1, BlockShape DEF BlockTo, r
  <2>2. Fields("wait", r.etag, r.snap, r.info, r.want)
    BY <1>0, <2>1 DEF Blocking, ReqType
  <2> QED BY <1>0, <2>1, <2>2
<1>8. CASE Look(h)
  <2> DEFINE local == LocalAuthoritative(f)
             a == IF ~local THEN "copyobject" ELSE IF r.op = "rename" THEN "open" ELSE "create"
             w == IF local THEN cache[f].file ELSE remote[f]
             y == \/ cache[f].file \in {0, remote[f]}
                  \/ cache[f].meta # "synced" /\ cache[f].file \notin stored
             b == cache[f].file # 0
  <2>1. q = [r EXCEPT !.at = a, !.cached = b, !.want = w, !.sure = y]
    BY <1>2, <1>8 DEF Look, Set, Rename, r
  <2>2. /\ r.at = "wait" /\ upload[t].at = "idle"
        /\ cache' = cache /\ remote' = remote /\ upload' = upload
    BY <1>8 DEF Look, r
  <2>3. /\ ~local /\ upload[f].at # "idle" => cache[f].file \in {0, upload[f].snap}
        /\ ~local /\ y => cache[f].file \in {0, remote[f]}
        /\ local => cache[f].file # 0
    <3>1. cache[f] \in EntryType
      BY <1>0, <1>2
    <3>2. ~local => cache[f].file = 0 \/ cache[f].meta = "synced"
      BY <3>1 DEF LocalAuthoritative, EntryType, CacheType
    <3>3. ~local /\ y => cache[f].file \in {0, remote[f]}
      BY <3>2
    <3> QED BY <1>0, <3>2, <3>3 DEF MarkMatch, LocalAuthoritative
  <2>4. /\ a \in {"copyobject", "open", "create"} /\ (a = "copyobject" <=> ~local)
        /\ a = "open" => r.op = "rename"
        /\ local => w = cache[f].file
        /\ ~local => w = remote[f]
    BY <1>0
  <2> HIDE DEF local, a, w, y, b
  <2>5. /\ q.at = a /\ q.op = r.op /\ q.from = f /\ q.to = t /\ q.sure = y
        /\ q.etag = r.etag /\ q.snap = r.snap /\ q.info = r.info /\ q.want = w
    BY <1>0, <2>1 DEF ReqType
  <2> QED BY <1>0, <2>2, <2>3, <2>4, <2>5
<1>9. CASE CopyObject(h)
  <2>1. /\ r.at = "copyobject" /\ cache' = cache /\ upload' = upload /\ r.want = remote[f]
        /\ r.etag = 0 /\ r.snap = 0
    BY <1>0, <1>9 DEF CopyObject, r
  <2>2. CASE /\ remote[f] # 0 /\ remote' = [remote EXCEPT ![t] = remote[f]]
             /\ q = [r EXCEPT !.etag = remote[f],
                              !.at = IF r.op = "rename" THEN "delete"
                                     ELSE IF r.cached THEN "create" ELSE "done"]
    <3>1. PICK s \in {"delete", "create", "done"} : Fields(s, remote[f], r.snap, r.info, r.want)
      BY <1>0, <2>2 DEF ReqType
    <3>2. remote'[t] = remote[f]
      BY <1>0, <1>2, <2>2
    <3> QED BY <1>0, <2>1, <2>2, <3>1, <3>2
  <2>3. CASE q = [r EXCEPT !.at = IF r.op = "rename" THEN "open" ELSE "create",
                           !.want = cache[f].file]
    <3>1. PICK s \in {"open", "create"} :
             /\ Fields(s, r.etag, r.snap, r.info, cache[f].file)
             /\ s = "open" => r.op = "rename"
      BY <1>0, <2>3 DEF ReqType
    <3> QED BY <1>0, <2>1, <2>3, <3>1
  <2>4. CASE q = NoReq
    BY <2>4
  <2> QED BY <1>2, <1>9, <2>2, <2>3, <2>4 DEF CopyObject, Set, End, Rename, WriteRemote, r
<1>10. CASE CopyCreate(h)
  <2>1. r.at = "create" /\ remote' = remote /\ r.op = "copy"
    BY <1>4, <1>10 DEF CopyCreate, r
  <2>2. CASE cache[f].file # 0
    <3>1. q = [r EXCEPT !.at = "fill", !.snap = cache[f].file]
      BY <1>5, <1>10, <2>2 DEF CopyCreate, r
    <3>2. Fields("fill", r.etag, cache[f].file, r.info, r.want)
      BY <1>0, <3>1 DEF ReqType
    <3> QED BY <1>0, <2>1, <2>2, <3>2
  <2>3. CASE cache[f].file = 0
    <3>1. q = NoReq \/ (r.etag # 0 /\ q = Go(r, "done"))
      BY <1>2, <1>10, <2>3 DEF CopyCreate, Set, r
    <3> QED BY <1>0, <1>6, <2>1, <3>1
  <2> QED BY <2>2, <2>3
<1>11. CASE CopyFill(h)
  <2>1. r.at = "fill" /\ remote' = remote /\ r.op = "copy"
    BY <1>4, <1>11 DEF CopyFill, r
  <2>2. CASE /\ cache' = [cache EXCEPT ![t] = Written(@, r.snap)]
             /\ q = Go(r, IF r.etag # 0 THEN "stat" ELSE "open")
    <3>1. PICK s \in {"stat", "open"} : /\ Fields(s, r.etag, r.snap, r.info, r.want)
                                        /\ s = "stat" <=> r.etag # 0
      BY <1>6, <2>2
    <3>2. cache'[t].file = r.snap
      BY <1>0, <1>2, <1>3, <2>2
    <3> QED BY <1>0, <2>1, <3>1, <3>2
  <2>3. CASE q = IF r.etag # 0 THEN Go(r, "done") ELSE NoReq
    BY <1>0, <1>6, <2>1, <2>3
  <2> QED BY <1>5, <1>11, <2>2, <2>3 DEF CopyFill, r
<1>12. CASE PutOpen(h)
  <2>1. r.at = "open" /\ cache' = cache /\ remote' = remote /\ upload' = upload
    BY <1>12 DEF PutOpen, r
  <2> DEFINE k == IF r.op = "rename" THEN f ELSE t
  <2>2. q = NoReq \/ (cache[k].file # 0
                      /\ q = [r EXCEPT !.at = "put", !.info = k, !.snap = cache[k].file])
    BY <1>2, <1>12 DEF PutOpen, Set, Rename, r
  <2>3. q = NoReq \/ (cache[k].file # 0 /\ Fields("put", r.etag, cache[k].file, k, r.want))
    BY <1>0, <2>2 DEF ReqType
  <2> QED BY <1>0, <2>1, <2>3
<1>13. CASE Put(h)
  <2>1. r.at = "put" /\ r.snap # 0 /\ r.snap = r.want
    BY <1>0, <1>13 DEF Put, r
  <2>2. CASE q = NoReq
    BY <2>2
  <2>3. CASE /\ cache' = cache /\ remote' = [remote EXCEPT ![t] = r.snap]
             /\ q = [r EXCEPT !.etag = r.snap,
                              !.at = IF r.op = "rename" THEN "delete" ELSE "record"]
    <3>1. PICK s \in {"delete", "record"} : /\ Fields(s, r.snap, r.snap, r.info, r.want)
                                            /\ s = "delete" <=> r.op = "rename"
      BY <1>0, <2>3 DEF ReqType
    <3>2. remote'[t] = r.snap
      BY <1>0, <1>2, <2>3
    <3> QED BY <1>0, <2>1, <2>3, <3>1, <3>2
  <2> QED BY <1>2, <1>13, <2>2, <2>3 DEF Put, Set, End, Rename, WriteRemote, r
<1>14. CASE DeleteObject(h)
  <2>1. /\ r.at = "delete" /\ r.op = "rename" /\ cache' = cache
        /\ \E s \in {"move", "forget"} : q = Go(r, s)
    BY <1>2, <1>4, <1>14 DEF DeleteObject, Set, r
  <2>2. PICK s \in {"move", "forget"} : Fields(s, r.etag, r.snap, r.info, r.want)
    BY <1>6, <2>1
  <2>3. remote'[t] = remote[t]
    BY <1>0, <1>2, <1>14 DEF DeleteObject, r
  <2> QED BY <1>0, <2>1, <2>2, <2>3
<1>15. CASE Move(h)
  <2>1. r.at = "move" /\ r.op = "rename" /\ remote' = remote
    BY <1>4, <1>15 DEF Move, r
  <2>2. CASE cache[f].file # 0
    <3>1. cache' = [cache EXCEPT ![t] = Written(cache[t], cache[f].file),
                                 ![f] = Written(cache[f], 0)]
      BY <1>15, <2>2 DEF Move, r
    <3>2. cache'[t].file = cache[f].file
      BY <1>0, <1>2, <1>3, <3>1
    <3>3. CASE r.info = f
      <4>1. q = [r EXCEPT !.info = t, !.at = "record"]
        BY <1>2, <1>15, <2>2, <3>3 DEF Move, Set, r
      <4>2. Fields("record", r.etag, r.snap, t, r.want)
        BY <1>0, <4>1 DEF ReqType
      <4> QED BY <1>0, <2>1, <2>2, <3>2, <4>2
    <3>4. CASE r.info # f
      <4>1. r.snap = 0
        BY <1>0, <2>1, <2>2, <3>4
      <4>2. q = Go(r, "stat")
        BY <1>2, <1>15, <2>2, <3>4, <4>1 DEF Move, Set, r
      <4>3. Fields("stat", r.etag, r.snap, r.info, r.want)
        BY <1>6, <4>2
      <4> QED BY <1>0, <2>1, <3>2, <4>3
    <3> QED BY <3>3, <3>4
  <2>3. CASE cache[f].file = 0
    <3>1. q = Go(r, "forget")
      BY <1>2, <1>15, <2>3 DEF Move, Set, r
    <3>2. Fields("forget", r.etag, r.snap, r.info, r.want)
      BY <1>6, <3>1
    <3> QED BY <1>0, <2>1, <3>2
  <2> QED BY <2>2, <2>3
<1>16. CASE StatTo(h)
  <2> DEFINE i == IF cache[t].file # 0 THEN t ELSE NoKey
  <2>1. /\ r.at = "stat" /\ cache' = cache /\ remote' = remote
        /\ q = [r EXCEPT !.at = "record", !.info = i]
    BY <1>2, <1>16 DEF StatTo, Set, r
  <2>2. Fields("record", r.etag, r.snap, i, r.want)
    BY <1>0, <2>1 DEF ReqType
  <2>3. i = t <=> cache[t].file # 0
    BY <1>0
  <2> QED BY <1>0, <2>1, <2>2, <2>3
<1>17. CASE Record(h)
  <2>1. /\ r.at = "record" /\ remote' = remote
        /\ q = Go(r, IF r.op = "rename" THEN "forget" ELSE "done")
    BY <1>2, <1>17 DEF Record, Set, Rename, r
  <2>2. PICK s \in {"forget", "done"} : Fields(s, r.etag, r.snap, r.info, r.want)
    BY <1>6, <2>1
  <2> QED BY <1>0, <2>1, <2>2
<1>18. CASE Forget(h)
  <2>1. r.at = "forget" /\ remote' = remote /\ q = Go(r, "done")
    BY <1>5, <1>18 DEF Forget, r
  <2>2. Fields("done", r.etag, r.snap, r.info, r.want)
    BY <1>6, <2>1
  <2> QED BY <1>0, <2>1, <2>2
<1>19. CASE Answer(h)
  BY <1>2, <1>19 DEF Answer, Set, End
<1> QED BY <1>7, <1>8, <1>9, <1>10, <1>11, <1>12, <1>13, <1>14, <1>15, <1>16, <1>17, <1>18,
            <1>19 DEF Serve

LEMMA BeginRequest ==
    ASSUME RequestInv, NEW h \in Requests, NEW op \in {"rename", "copy"},
           NEW f \in Keys, NEW t \in Keys, Begin(h, op, f, t)
    PROVE  MarkMatch' /\ SourceMatch'
<1>1. /\ SameUploads /\ req'[h].at \in {"block", "wait"} /\ req'[h].snap = 0
      /\ req'[h].etag = 0
  BY BeginShape DEF RequestInv
<1>2. /\ req[h].at = "idle" /\ up /\ up' /\ cache' = cache /\ remote' = remote
      /\ queued' = queued
      /\ \A g \in Requests \ {h} : req'[g] = req[g]
  BY DEF Begin, BlockUploads, Set, RequestInv, Typed
<1>3. SourceMatch'
  <2>1. InHand(req[h])' /\ FromSource(req[h])' /\ Delivered(req[h])'
    BY <1>1 DEF InHand, FromSource, Delivered
  <2>2. ASSUME NEW g \in Requests \ {h}
        PROVE  InHand(req[g])' /\ FromSource(req[g])' /\ Delivered(req[g])'
    <3>1. /\ Shape(req[g]) /\ InHand(req[g]) /\ FromSource(req[g]) /\ Delivered(req[g])
          /\ Held(req[g])
      BY DEF RequestInv, SourceMatch, ShapeMatch
    <3>2. Keeps(req[g], req'[g])
      BY <1>2, LostKeeps DEF RequestInv, Typed
    <3>3. req[g].at = "copyobject" => CopySource(req[g])'
      BY <1>1, <1>2, <3>1 DEF Shape, Named, FromSource, CopySource, Is, SameUploads
    <3> QED BY <1>2, <3>1, <3>2, <3>3, PromiseKept
  <2> QED BY <2>1, <2>2 DEF SourceMatch
<1> QED BY <1>1, <1>2, <1>3 DEF RequestInv, MarkMatch, SameUploads

LEMMA RestartRequest ==
    ASSUME RequestInv, Crash \/ Start PROVE MarkMatch' /\ SourceMatch'
<1>1. CASE Crash
  <2>1. \A h \in Requests : req'[h] = NoReq
    BY <1>1 DEF Crash
  <2>2. SourceMatch'
    BY <2>1, NothingOwed DEF SourceMatch
  <2> QED BY <1>1, <2>1, <2>2 DEF Crash, MarkMatch, NoUpload, NoReq
<1>2. CASE Start
  <2>1. \A h \in Requests : req'[h] = req[h] /\ req[h].at = "idle" /\ req[h] = NoReq
    BY <1>2 DEF Start, RequestInv, MarkMatch, ShapeMatch, Shape
  <2>2. SourceMatch'
    BY <2>1, NothingOwed DEF SourceMatch
  <2>3. \A k \in Keys : upload'[k].at = "idle"
    BY <1>2 DEF Start, RequestInv, MarkMatch
  <2> QED BY <1>2, <2>2, <2>3 DEF Start, MarkMatch
<1> QED BY <1>1, <1>2

LEMMA RequestNext ==
    ASSUME Undisturbed PROVE Apart /\ RequestInv /\ [Next]_vars => RequestInv'
<1> SUFFICES ASSUME Apart, RequestInv, [Next]_vars PROVE RequestInv'
  OBVIOUS
<1>1. Typed' /\ ShapeMatch' /\ Typed /\ ShapeMatch /\ MarkMatch /\ SourceMatch
  BY ShapeNext DEF RequestInv
<1>2. ASSUME NEW k \in Keys,
             \/ PVEWrite(k) \/ OtherPut(k) \/ WatcherEvent(k) \/ Evict(k)
             \/ UploadStart(k) \/ UploadPut(k) \/ UploadRecord(k)
      PROVE  MarkMatch' /\ SourceMatch'
  BY <1>1, <1>2, KeyMark, KeySource
<1>3. ASSUME NEW h \in Requests, Serve(h) PROVE MarkMatch' /\ SourceMatch'
  BY <1>3, ServeMark, ServeSource
<1>4. CASE UNCHANGED vars
  <2>1. MarkMatch'
    BY <1>1, <1>4 DEF vars, MarkMatch
  <2>2. SourceMatch'
    BY <1>1, <1>4 DEF vars, SourceMatch, InHand, FromSource, CopySource, Is, Uploaded, Delivered
  <2> QED BY <1>1, <2>1, <2>2 DEF RequestInv
<1>5. ASSUME NEW h \in Requests, NEW op \in {"rename", "copy"}, NEW f \in Keys, NEW t \in Keys,
             Begin(h, op, f, t)
      PROVE  MarkMatch' /\ SourceMatch'
  BY <1>5, BeginRequest
<1>6. CASE Crash \/ Start
  BY <1>1, <1>6, RestartRequest DEF RequestInv
<1> QED BY <1>1, <1>2, <1>3, <1>4, <1>5, <1>6 DEF RequestInv, Next

LEMMA InitRequest == Init => RequestInv
<1> SUFFICES ASSUME Init PROVE RequestInv
  OBVIOUS
<1>1. SourceMatch
  BY DEF Init, SourceMatch, InHand, FromSource, Delivered, NoReq
<1>2. MarkMatch
  BY DEF Init, MarkMatch, NoUpload
<1> QED BY <1>1, <1>2, InitTyped, InitShape DEF RequestInv

\* A rename or copy that answers "ok" has made its destination's object what its source was
\* when it looked, if requests keep apart and nobody else writes its names: no background
\* upload changes the destination (blockUploads of both names by handleRename, of the
\* destination by handleCopy), and one of the source only before it is copied.
THEOREM DeliversSource ==
    ASSUME Undisturbed
    PROVE  Spec /\ []Apart => DestinationIsSource
<1>1. RequestInv' => \A h \in Requests :
         req'[h].at = "done" /\ up' => remote'[req'[h].to] = req'[h].want
  BY DEF RequestInv, SourceMatch, Delivered
<1>2. Init => RequestInv
  BY InitRequest
<1>3. Apart /\ RequestInv /\ [Next]_vars => RequestInv'
  BY RequestNext
<1> QED BY <1>1, <1>2, <1>3, PTL DEF Spec, DestinationIsSource

\* What a rename or copy records for its destination is the ETag of the file it leaves
\* there, under the same hypotheses, if the cached source was its object or a marked write
\* that S3 never had: the FileInfo it compares (recordOwnWrite) is that of
\* the file it uploaded or copied, and the ETag that of the object it wrote.
THEOREM RecordsTruth ==
    ASSUME Undisturbed
    PROVE  Spec /\ []Apart => RecordsWhatIsThere
<1>1. ASSUME Apart, RequestInv, [Next]_vars, NEW h \in Requests,
             req[h].at = "record", req'[h].at \in {"forget", "done"}, req[h].sure,
             cache'[req[h].to] # cache[req[h].to]
      PROVE  cache'[req[h].to].file = cache'[req[h].to].tag
  <2> DEFINE r == req[h]
             t == r.to
  <2>1. Typed /\ ShapeMatch
    BY <1>1 DEF RequestInv
  <2>2. Record(h)
    <3>1. ASSUME NEW k \in Keys,
                 \/ PVEWrite(k) \/ OtherPut(k) \/ WatcherEvent(k) \/ Evict(k)
                 \/ UploadStart(k) \/ UploadPut(k) \/ UploadRecord(k)
          PROVE  FALSE
      <4>1. req'[h].at = r.at
        BY <2>1, <3>1, KeyEffect DEF Keeps
      <4> QED BY <1>1, <4>1
    <3>2. ASSUME Crash PROVE FALSE
      BY <1>1, <3>2 DEF Crash, NoReq
    <3>6. ASSUME NEW g \in Requests \ {h}, Others(g) PROVE FALSE
      BY <1>1, <2>1, <3>6, OthersFields
    <3>3. ASSUME NEW g \in Requests, NEW op \in {"rename", "copy"}, NEW f \in Keys,
                 NEW k \in Keys, Begin(g, op, f, k)
          PROVE  FALSE
      <4>1. g = h
        BY <2>1, <3>3, <3>6, BeginShape
      <4> QED BY <1>1, <3>3, <4>1 DEF Begin
    <3>7. ASSUME NEW g \in Requests, Serve(g) PROVE g = h
      BY <2>1, <3>6, <3>7, ServeShape DEF ShapeMatch
    <3>4. ASSUME Serve(h), ~Record(h) PROVE FALSE
      BY <1>1, <3>4 DEF Serve, BlockTo, Look, CopyObject, CopyCreate, CopyFill, PutOpen, Put,
         DeleteObject, Move, StatTo, Forget, Answer
    <3>5. ASSUME Start \/ UNCHANGED vars PROVE FALSE
      BY <1>1, <3>5 DEF Start, vars
    <3> QED BY <1>1, <3>1, <3>2, <3>3, <3>4, <3>5, <3>7 DEF Next
  <2>3. InHand(r) /\ FromSource(r) /\ Delivered(r) /\ t \in Keys /\ t # NoKey
    BY <1>1, <2>2, ServeFrame DEF Serve
  <2>4. r.info = t /\ cache' = [cache EXCEPT ![t] = Synced(@, r.etag)]
    BY <1>1, <2>2 DEF Record, Unchanged
  <2>5. cache'[t] = Synced(cache[t], r.etag) /\ cache[t] \in EntryType
    BY <2>1, <2>3, <2>4 DEF Typed
  <2>6. cache[t].file # 0 /\ cache[t].file = r.want /\ r.etag = r.want
    BY <1>1, <2>3, <2>4 DEF InHand, FromSource, Delivered, Is
  <2>7. cache'[t].file = cache[t].file /\ cache'[t].tag = r.etag
    BY <2>5 DEF EntryType, CacheType, Synced
  <2> QED BY <2>6, <2>7
<1>2. Apart /\ RequestInv /\ [Next]_vars => \A h \in Requests :
         LET k == req[h].to
             recorded == req[h].at = "record" /\ req'[h].at \in {"forget", "done"}
         IN  recorded /\ req[h].sure /\ cache'[k] # cache[k] => cache'[k].file = cache'[k].tag
  BY <1>1
<1>3. Init => RequestInv
  BY InitRequest
<1>4. Apart /\ RequestInv /\ [Next]_vars => RequestInv'
  BY RequestNext
<1> QED BY <1>2, <1>3, <1>4, PTL DEF Spec, RecordsWhatIsThere
-----------------------------------------------------------------------------
(* No write is lost. *)

\* Objects are contents S3 has had; an upload that landed has stored what it opened, which
\* is the file unless that was written since.
StoredMatch ==
    \A k \in Keys :
        /\ remote[k] \in stored \cup {0}
        /\ upload[k].at = "record" => upload[k].snap \in stored
        /\ upload[k].at # "idle" /\ upload[k].same => cache[k].file = upload[k].snap

\* A rename that forgets its source's name, or will not move its file, has none there.
Emptied(r) ==
    /\ r.op = "rename"
    /\ \/ r.at \in {"stat", "record", "forget"}
       \/ ~r.cached /\ r.at \in {"copyobject", "open", "put", "delete"}

EmptyMatch == \A h \in Requests : Emptied(req[h]) => cache[req[h].from].file = 0

KeptInv == StoredMatch /\ EmptyMatch

\* What a background upload remembers of its file stays, and it may learn that the file
\* was written.
UploadsStay ==
    \A p \in Keys : /\ upload'[p].at = upload[p].at /\ upload'[p].snap = upload[p].snap
                    /\ upload'[p].same => upload[p].same

LEMMA UploadsEdited ==
    ASSUME Typed, NEW k \in Keys, NEW b \in BOOLEAN,
           \/ Rewritten(k) \/ UNCHANGED upload
           \/ upload' = [upload EXCEPT ![k].canceled = b]
    PROVE  UploadsStay /\ (Rewritten(k) => ~upload'[k].same)
BY DEF Typed, UploadType, Rewritten, UploadsStay

\* Steps that keep what uploads remember keep it true, if what they do to a file under
\* upload is known to it and S3 gets nothing it is not remembered to have had.
LEMMA StoredKept ==
    ASSUME StoredMatch, UploadsStay, stored \subseteq stored',
           \A p \in Keys : remote'[p] \in {remote[p], 0} \cup stored',
           \A p \in Keys : \/ cache'[p].file = cache[p].file
                           \/ upload'[p].at = "idle" \/ ~upload'[p].same
    PROVE  StoredMatch'
BY DEF StoredMatch, UploadsStay

(* PVE, the other node, the watcher, the uploads and the evictor keep it. *)
LEMMA KeptKey ==
    ASSUME Undisturbed, Typed, ShapeMatch, KeptInv, NEW k \in Keys,
           \/ PVEWrite(k) \/ OtherPut(k) \/ WatcherEvent(k) \/ Evict(k)
           \/ UploadStart(k) \/ UploadPut(k) \/ UploadRecord(k)
    PROVE  KeptInv'
<1>1. EmptyMatch'
  <2> SUFFICES ASSUME NEW h \in Requests, Emptied(req'[h])
               PROVE  cache'[req'[h].from].file = 0
    BY DEF EmptyMatch, Emptied
  <2>1. /\ req'[h].at = req[h].at /\ req'[h].from = req[h].from
        /\ req'[h].cached = req[h].cached /\ req'[h].op = req[h].op
    BY KeyEffect DEF Keeps
  <2>2. CASE req[h].at = "idle"
    BY <2>1, <2>2 DEF Emptied
  <2>3. CASE req[h].at # "idle"
    <3>1. req[h].from \in Keys /\ Working(req[h].from)
      BY <2>3 DEF ShapeMatch, Shape, Named, Working
    <3>2. cache'[req[h].from].file \in {cache[req[h].from].file, 0}
      BY <3>1, WorkingKept
    <3> QED BY <2>1, <3>2 DEF KeptInv, EmptyMatch, Emptied
  <2> QED BY <2>2, <2>3
<1>2. \A p \in Keys : Marked(cache[p]).file = cache[p].file
                      /\ \A v : Synced(cache[p], v).file = cache[p].file
  <2>1. \A p \in Keys : cache[p] \in EntryType
    BY DEF Typed
  <2> QED BY <2>1 DEF EntryType, CacheType, Marked, Synced
<1>3. StoredMatch
  BY DEF KeptInv
<1>4. StoredMatch'
  <2>1. CASE PVEWrite(k) \/ Evict(k)
    <3>1. UploadsStay /\ ~upload'[k].same
      BY <2>1, UploadsEdited DEF PVEWrite, Evict
    <3>2. \A p \in Keys \ {k} : cache'[p] = cache[p]
      BY <2>1 DEF PVEWrite, Evict, Typed
    <3>3. stored' = stored /\ remote' = remote
      BY <2>1 DEF PVEWrite, Evict
    <3> QED BY <1>3, <3>1, <3>2, <3>3, StoredKept
  <2>2. CASE OtherPut(k)
    BY <1>3, <2>2 DEF OtherPut, WriteRemote, StoredMatch, Typed
  <2>3. CASE WatcherEvent(k)
    BY <1>2, <1>3, <2>3 DEF WatcherEvent, Noticed, StoredMatch, Typed
  <2>4. CASE UploadStart(k)
    <3>1. \A p \in Keys : cache'[p].file = cache[p].file
      BY <1>2, <2>4 DEF UploadStart, Typed
    <3>2. \A p \in Keys : \/ upload'[p] = upload[p]
                          \/ upload'[p].at = "put" /\ upload'[p].snap = cache[p].file
      BY <2>4 DEF UploadStart, Typed
    <3> QED BY <1>3, <2>4, <3>1, <3>2 DEF UploadStart, StoredMatch
  <2>5. CASE UploadPut(k)
    BY <1>3, <2>5 DEF UploadPut, Sends, WriteRemote, StoredMatch, Typed, UploadType, NoUpload
  <2>6. CASE UploadRecord(k)
    <3>1. \A p \in Keys : cache'[p].file = cache[p].file
      BY <1>2, <2>6 DEF UploadRecord, Typed
    <3> QED BY <1>3, <2>6, <3>1 DEF UploadRecord, StoredMatch, Typed, NoUpload
  <2> QED BY <2>1, <2>2, <2>3, <2>4, <2>5, <2>6
<1> QED BY <1>1, <1>4 DEF KeptInv

(* A request writes only files whose uploads it has waited for, and empties its source
   before it forgets it. *)
LEMMA KeptServe ==
    ASSUME Apart, RequestInv, KeptInv, NEW h \in Requests, Serve(h)
    PROVE  KeptInv'
<1> DEFINE r == req[h]
           q == req'[h]
           f == r.from
           t == r.to
<1>0. /\ r \in ReqType /\ f \in Keys /\ t \in Keys /\ f # t /\ r.at # "idle"
      /\ r.op \in {"rename", "copy"} /\ Others(h)
      /\ Shape(r) /\ Held(r)
      /\ Typed /\ StoredMatch /\ EmptyMatch
  BY ServeFrame DEF RequestInv, KeptInv
<1>1. /\ cache \in [Keys -> EntryType] /\ req \in [Requests -> ReqType]
      /\ Touch(req, t) \in [Requests -> ReqType] /\ Touch(req, f) \in [Requests -> ReqType]
  BY <1>0, TouchType DEF Typed
<1>2. /\ \A v : Written(cache[t], v).file = v /\ Written(cache[f], v).file = v
      /\ \A v : Synced(cache[t], v).file = cache[t].file
      /\ Absent.file = 0
  <2>1. cache[t] \in EntryType /\ cache[f] \in EntryType
    BY <1>0, <1>1
  <2> QED BY <2>1 DEF EntryType, CacheType, Written, Synced, Absent
<1>3. /\ r.at \in {"block", "delete", "move", "forget"} => r.op = "rename"
      /\ r.at \notin {"block", "wait"} => upload[t].at = "idle"
      /\ r.at # "block" /\ r.op = "rename" => upload[f].at = "idle"
  BY <1>0 DEF Shape, Held
<1>4. UploadsStay
  <2>1. \E k \in Keys, b \in BOOLEAN : \/ Rewritten(k) \/ UNCHANGED upload
                                      \/ upload' = [upload EXCEPT ![k].canceled = b]
    BY <1>0 DEF Serve, BlockTo, BlockUploads, Look, CopyObject, CopyCreate, CopyFill, PutOpen,
       Put, DeleteObject, Move, StatTo, Record, Forget, Answer
  <2> QED BY <1>0, <2>1, UploadsEdited
<1>5. \A p \in Keys : \/ cache'[p].file = cache[p].file \/ upload[p].at = "idle"
  <2>1. \A p \in Keys \ {f, t} : cache'[p] = cache[p]
    BY <1>0, <1>1 DEF Serve, BlockTo, Look, CopyObject, CopyCreate, CopyFill, PutOpen,
       Put, DeleteObject, Move, StatTo, Record, Forget, Answer
  <2>2. cache'[t] = cache[t] \/ upload[t].at = "idle"
    BY <1>0, <1>3 DEF Serve, BlockTo, Look, CopyObject, CopyCreate, CopyFill, PutOpen,
       Put, DeleteObject, Move, StatTo, Record, Forget, Answer
  <2>3. cache'[f] = cache[f] \/ upload[f].at = "idle"
    BY <1>0, <1>1, <1>3 DEF Serve, BlockTo, Look, CopyObject, CopyCreate, CopyFill, PutOpen,
       Put, DeleteObject, Move, StatTo, Record, Forget, Answer
  <2> QED BY <2>1, <2>2, <2>3
<1>6. stored \subseteq stored' /\ \A p \in Keys : remote'[p] \in {remote[p], 0} \cup stored'
  BY <1>0 DEF Serve, BlockTo, Look, CopyObject, CopyCreate, CopyFill, PutOpen,
     Put, DeleteObject, Move, StatTo, Record, Forget, Answer, WriteRemote, Typed
<1>7. StoredMatch'
  BY <1>0, <1>4, <1>5, <1>6, StoredKept DEF UploadsStay
<1>8. EmptyMatch'
  <2> HIDE DEF r
  <2>13. ASSUME NEW g \in Requests \ {h}, Emptied(req'[g]) PROVE cache'[req'[g].from].file = 0
    <3>1. Emptied(req[g]) /\ req'[g].from = req[g].from /\ req[g].at # "idle"
      BY <1>0, <2>13, OthersFields DEF Emptied
    <3>2. req[g].from \in Keys /\ cache[req[g].from].file = 0 /\ ShapeMatch
      BY <1>0, <3>1 DEF EmptyMatch, ShapeMatch, Shape, Named, RequestInv
    <3>3. req[g].from \notin Writes(req[h])
      BY <3>1, ServeFrame DEF Apart, Uses
    <3> QED BY <1>0, <3>1, <3>2, <3>3, ServeApart
  <2>0. SUFFICES ASSUME q.op = "rename", q.from = f, r.op = "rename"
                 PROVE  Emptied(q) => cache'[f].file = 0
    <3>1. q = NoReq \/ (q.op = r.op /\ q.from = f)
      BY ServeFrame DEF r
    <3> QED BY <2>0, <2>13, <3>1 DEF EmptyMatch, Emptied, NoReq
  <2>1. Emptied(r) => cache[f].file = 0
    BY <1>0 DEF EmptyMatch, r
  <2>2. CASE BlockTo(h)
    <3>1. q = [r EXCEPT !.at = "wait", !.blocks = @ \cup {t}]
      BY <1>0, <1>1, <2>2 DEF BlockTo, BlockUploads, Set, r
    <3> QED BY <1>0, <3>1 DEF ReqType, Emptied
  <2>3. CASE Look(h)
    <3>1. /\ cache' = cache
          /\ \E s \in {"copyobject", "open"} : \E w, y :
                 q = [r EXCEPT !.at = s, !.cached = (cache[f].file # 0), !.want = w, !.sure = y]
      BY <1>0, <1>1, <2>0, <2>3 DEF Look, Set, Rename, r
    <3>2. q.cached = (cache[f].file # 0) /\ q.at \in {"copyobject", "open"}
      BY <1>0, <3>1 DEF ReqType
    <3> QED BY <3>1, <3>2 DEF Emptied
  <2>4. CASE CopyObject(h)
    <3>1. cache' = cache /\ r.at = "copyobject"
      BY <2>4 DEF CopyObject, r
    <3>2. \/ q = [r EXCEPT !.etag = remote[f], !.at = "delete"]
          \/ q = [r EXCEPT !.at = "open", !.want = cache[f].file]
          \/ q = NoReq
      BY <1>0, <1>1, <2>0, <2>4 DEF CopyObject, Set, End, Rename, r
    <3>3. q = NoReq \/ (q.at \in {"delete", "open"} /\ q.cached = r.cached)
      BY <1>0, <3>2 DEF ReqType
    <3> QED BY <2>0, <2>1, <3>1, <3>3 DEF Emptied, NoReq
  <2>5. CASE CopyCreate(h) \/ CopyFill(h)
    BY <1>0, <2>0, <2>5 DEF CopyCreate, CopyFill, Shape, r
  <2>6. CASE PutOpen(h)
    <3>1. /\ cache' = cache /\ r.at = "open"
          /\ q = NoReq \/ q = [r EXCEPT !.at = "put", !.info = f, !.snap = cache[f].file]
      BY <1>0, <1>1, <2>0, <2>6 DEF PutOpen, Set, Rename, r
    <3>2. q = NoReq \/ (q.at = "put" /\ q.cached = r.cached)
      BY <1>0, <3>1 DEF ReqType
    <3> QED BY <2>0, <2>1, <3>1, <3>2 DEF Emptied, NoReq
  <2>7. CASE Put(h)
    <3>1. /\ cache' = cache /\ r.at = "put"
          /\ q = NoReq \/ q = [r EXCEPT !.etag = r.snap, !.at = "delete"]
      BY <1>0, <1>1, <2>0, <2>7 DEF Put, Set, End, Rename, r
    <3>2. q = NoReq \/ (q.at = "delete" /\ q.cached = r.cached)
      BY <1>0, <3>1 DEF ReqType
    <3> QED BY <2>0, <2>1, <3>1, <3>2 DEF Emptied, NoReq
  <2>8. CASE DeleteObject(h)
    <3>1. /\ cache' = cache /\ r.at = "delete"
          /\ q = Go(r, IF r.cached THEN "move" ELSE "forget")
      BY <1>0, <1>1, <2>8 DEF DeleteObject, Set, r
    <3>2. r.cached => q.at = "move"
      BY <1>0, <3>1 DEF Go, ReqType
    <3> QED BY <2>0, <2>1, <3>1, <3>2 DEF Emptied
  <2>9. CASE Move(h)
    <3>1. cache[f].file # 0 => cache' = [cache EXCEPT ![t] = Written(@, cache[f].file),
                                                      ![f] = Written(@, 0)]
      BY <2>9 DEF Move, r
    <3>2. cache[f].file = 0 => cache' = cache
      BY <2>9 DEF Move, r
    <3> QED BY <1>0, <1>1, <1>2, <3>1, <3>2
  <2>10. CASE StatTo(h) \/ Record(h)
    <3>1. r.at \in {"stat", "record"} /\ cache'[f] = cache[f]
      BY <1>0, <1>1, <2>10 DEF StatTo, Record, r
    <3> QED BY <2>0, <2>1, <3>1 DEF Emptied
  <2>11. CASE Forget(h)
    BY <1>0, <1>1, <1>2, <2>11 DEF Forget, r
  <2>12. CASE Answer(h)
    BY <1>0, <1>1, <2>0, <2>12 DEF Answer, Set, End, NoReq
  <2> QED BY <2>2, <2>3, <2>4, <2>5, <2>6, <2>7, <2>8, <2>9, <2>10, <2>11, <2>12 DEF Serve
<1> QED BY <1>7, <1>8 DEF KeptInv

(* The beginning of a request, a crash and a start keep it. *)
LEMMA KeptBegin ==
    ASSUME RequestInv, KeptInv, NEW h \in Requests, NEW op \in {"rename", "copy"},
           NEW f \in Keys, NEW t \in Keys, Begin(h, op, f, t)
    PROVE  KeptInv'
<1>1. /\ cache' = cache /\ remote' = remote /\ stored' = stored /\ Typed
      /\ \A g \in Requests \ {h} : req'[g] = req[g]
  BY DEF Begin, BlockUploads, Set, RequestInv, Typed
<1>2. req'[h].at \in {"block", "wait"}
  BY BeginShape DEF RequestInv
<1>3. UploadsStay
  <2>1. \E k \in Keys, b \in BOOLEAN : upload' = [upload EXCEPT ![k].canceled = b]
    BY DEF Begin, BlockUploads
  <2> QED BY <1>1, <2>1, UploadsEdited
<1>4. StoredMatch'
  BY <1>1, <1>3, StoredKept DEF KeptInv
<1>5. EmptyMatch'
  BY <1>1, <1>2 DEF KeptInv, EmptyMatch, Emptied
<1> QED BY <1>4, <1>5 DEF KeptInv

LEMMA KeptRestart ==
    ASSUME RequestInv, KeptInv, Crash \/ Start PROVE KeptInv'
<1>1. StoredMatch /\ EmptyMatch /\ Typed
  BY DEF KeptInv, RequestInv
<1>2. CASE Crash
  <2>1. /\ \A k \in Keys : upload'[k] = NoUpload
        /\ \A h \in Requests : req'[h] = NoReq
        /\ remote' = remote /\ stored' = stored
    BY <1>2 DEF Crash
  <2>2. NoUpload.at = "idle" /\ NoReq.op = "none"
    BY DEF NoUpload, NoReq
  <2>3. StoredMatch'
    BY <1>1, <2>1, <2>2 DEF StoredMatch
  <2>4. EmptyMatch'
    BY <2>1, <2>2 DEF EmptyMatch, Emptied
  <2> QED BY <2>3, <2>4 DEF KeptInv
<1>3. CASE Start
  <2>1. \A k \in Keys : cache'[k].file = cache[k].file
    <3>1. \A k \in Keys : cache[k] \in EntryType
      BY <1>1 DEF Typed
    <3>2. \A k \in Keys : cache'[k] = IF cache[k].meta = "none" THEN cache[k]
                                      ELSE Marked(cache[k])
      BY <1>3 DEF Start
    <3>3. \A c \in EntryType : Marked(c).file = c.file
      BY EntryFields
    <3>4. \A k \in Keys : Marked(cache[k]).file = cache[k].file
      BY <3>1, <3>3
    <3> QED BY <3>2, <3>4
  <2>2. req' = req /\ upload' = upload /\ remote' = remote /\ stored' = stored
    BY <1>3 DEF Start
  <2>3. StoredMatch'
    BY <1>1, <2>1, <2>2 DEF StoredMatch
  <2>4. \A h \in Requests : req[h].at = "idle"
    BY <1>3 DEF Start, RequestInv, MarkMatch
  <2> QED BY <2>2, <2>3, <2>4 DEF KeptInv, EmptyMatch, Emptied
<1> QED BY <1>2, <1>3

LEMMA KeptNext ==
    ASSUME Undisturbed, Apart, RequestInv, KeptInv, [Next]_vars PROVE KeptInv'
<1>1. CASE UNCHANGED vars
  BY <1>1 DEF vars, KeptInv, StoredMatch, EmptyMatch, Emptied
<1>2. CASE Next
  BY <1>2, KeptKey, KeptServe, KeptBegin, KeptRestart DEF Next, RequestInv
<1> QED BY <1>1, <1>2

LEMMA InitKept == Init => KeptInv
BY DEF Init, KeptInv, StoredMatch, EmptyMatch, Emptied, NoUpload, NoReq

\* What NoLostWrite allows to become of v, the content of the pending file at k.
Kept(k, v) ==
    \/ v \in stored'
    \/ cache'[k].file # v /\ (last' # last \/ \E h \in Requests : req[h].to = k)
    \/ \E j \in Keys : cache'[j].file = v /\ ~Covers(cache'[j])
    \/ \E h \in Requests : req[h].to = k /\ req[h].at = "record" /\ ~req[h].sure

LEMMA KeyKeeps ==
    ASSUME Typed, StoredMatch, NEW k \in Keys, cache[k].meta = "pending",
           cache[k].file \in 1..MaxVer \ stored, NEW j \in Keys,
           \/ PVEWrite(j) \/ OtherPut(j) \/ WatcherEvent(j) \/ Evict(j)
           \/ UploadStart(j) \/ UploadPut(j) \/ UploadRecord(j)
    PROVE  Kept(k, cache[k].file)
<1> DEFINE v == cache[k].file
<1>0. cache[k] \in EntryType /\ v # 0 /\ v \notin stored
  BY DEF Typed
<1>1. ~Covers(cache[k]) /\ Marked(cache[k]).file = v /\ ~Covers(Marked(cache[k]))
  BY <1>0 DEF EntryType, CacheType, Covers, Marked
<1>2. (cache'[k] = cache[k] \/ cache'[k] = Marked(cache[k])) => Kept(k, v)
  BY <1>1 DEF Kept
<1>3. j # k => cache'[k] = cache[k]
  BY DEF PVEWrite, OtherPut, WatcherEvent, Evict, UploadStart, UploadPut, UploadRecord, Typed
<1>4. CASE j = k /\ PVEWrite(k)
  <2>1. last' # last
    BY <1>4 DEF PVEWrite, Typed
  <2>2. cache'[k] \in {Marked(Written(cache[k], last')), Written(cache[k], last')}
    BY <1>4 DEF PVEWrite, Noticed, Typed
  <2>3. ~Covers(cache'[k])
    BY <1>0, <2>2 DEF EntryType, CacheType, Covers, Marked, Written
  <2> QED BY <2>1, <2>3 DEF Kept
<1>5. CASE j = k /\ (OtherPut(k) \/ WatcherEvent(k) \/ UploadPut(k))
  <2>1. cache'[k] = cache[k] \/ cache'[k] = Marked(cache[k])
    BY <1>5 DEF OtherPut, WatcherEvent, Noticed, UploadPut, Typed
  <2> QED BY <1>2, <2>1
<1>6. CASE j = k /\ (Evict(k) \/ UploadStart(k))
  <2>1. cache'[k] = cache[k]
    BY <1>6 DEF Evict, UploadStart
  <2> QED BY <1>2, <2>1
<1>7. CASE j = k /\ UploadRecord(k)
  <2>1. ~upload[k].same
    BY <1>0, <1>7 DEF UploadRecord, StoredMatch
  <2>2. cache'[k] = cache[k] \/ cache'[k] = Marked(cache[k])
    BY <1>7, <2>1 DEF UploadRecord, Typed
  <2> QED BY <1>2, <2>2
<1> QED BY <1>2, <1>3, <1>4, <1>5, <1>6, <1>7

LEMMA ServeKeeps ==
    ASSUME Apart, RequestInv, KeptInv, NEW k \in Keys, cache[k].meta = "pending",
           cache[k].file \in 1..MaxVer \ stored, NEW h \in Requests, Serve(h)
    PROVE  Kept(k, cache[k].file)
<1> DEFINE v == cache[k].file
           r == req[h]
           f == r.from
           t == r.to
<1>0. /\ r \in ReqType /\ f \in Keys /\ t \in Keys /\ f # t /\ Shape(r)
      /\ InHand(r) /\ FromSource(r) /\ Delivered(r)
      /\ Typed /\ StoredMatch /\ EmptyMatch
  BY ServeFrame DEF RequestInv, KeptInv
<1>1. /\ cache \in [Keys -> EntryType] /\ cache[t] \in EntryType /\ cache[f] \in EntryType
      /\ v # 0 /\ v \notin stored /\ v \in Nat /\ v # Partial
  BY <1>0 DEF Typed
<1>2. /\ \A w : /\ Written(cache[t], w).file = w /\ ~Covers(Written(cache[t], w))
                /\ Written(cache[f], w).file = w /\ ~Covers(Written(cache[f], w))
      /\ Absent.file = 0
  <2>1. ASSUME NEW c \in EntryType
        PROVE  /\ \A w : Written(c, w).file = w /\ ~Covers(Written(c, w))
               /\ Absent.file = 0
    BY DEF EntryType, CacheType, Absent, Written, Covers
  <2> QED BY <1>1, <2>1
<1>3. cache'[k] = cache[k] => Kept(k, v)
  BY DEF Kept, Covers
<1>4. k = t /\ (cache'[k].file # v \/ ~Covers(cache'[k])) => Kept(k, v)
  BY DEF Kept
<1>5. CASE k \notin {f, t}
  <2>1. cache'[k] = cache[k]
    BY <1>0, <1>1, <1>5 DEF Serve, BlockTo, Look, CopyObject, CopyCreate, CopyFill, PutOpen,
       Put, DeleteObject, Move, StatTo, Record, Forget, Answer
  <2> QED BY <1>3, <2>1
<1>6. CASE BlockTo(h) \/ Look(h) \/ CopyObject(h) \/ PutOpen(h) \/ DeleteObject(h) \/ StatTo(h)
           \/ Answer(h)
  <2>1. cache' = cache
    BY <1>6 DEF BlockTo, Look, CopyObject, PutOpen, DeleteObject, StatTo, Answer
  <2> QED BY <1>3, <2>1
<1>7. CASE CopyCreate(h) \/ CopyFill(h) \/ Put(h)
  <2>1. \/ cache' = cache
        \/ \E w : cache' = [cache EXCEPT ![t] = Written(@, w)]
        \/ cache' = [cache EXCEPT ![t] = Absent]
    BY <1>7 DEF CopyCreate, CopyFill, Put
  <2>2. \/ cache'[k] = cache[k]
        \/ k = t /\ \E w : cache'[k] = Written(cache[t], w)
        \/ k = t /\ cache'[k] = Absent
    BY <1>0, <1>1, <2>1
  <2> QED BY <1>1, <1>2, <1>3, <1>4, <2>2
<1>8. CASE Move(h)
  <2>1. CASE cache[f].file # 0
    <3>1. cache' = [cache EXCEPT ![t] = Written(@, cache[f].file), ![f] = Written(@, 0)]
      BY <1>8, <2>1 DEF Move
    <3>2. cache'[t] = Written(cache[t], cache[f].file)
      BY <1>0, <1>1, <3>1
    <3>3. CASE k = t
      BY <1>2, <1>4, <3>2, <3>3
    <3>4. CASE k = f
      BY <1>0, <1>2, <3>2, <3>4 DEF Kept
    <3> QED BY <1>5, <3>3, <3>4
  <2>2. CASE cache[f].file = 0
    <3>1. cache' = cache
      BY <1>8, <2>2 DEF Move
    <3> QED BY <1>3, <3>1
  <2> QED BY <2>1, <2>2
<1>9. CASE Record(h)
  <2>1. r.at = "record" /\ (cache' = cache \/ (r.info = t /\ \A p \in Keys \ {t} : cache'[p] = cache[p]))
    BY <1>1, <1>9 DEF Record, Unchanged
  <2>2. CASE k = t /\ r.info = t /\ r.sure
    <3>1. v = remote[t]
      BY <1>0, <1>1, <2>1, <2>2 DEF FromSource, Delivered, Is
    <3> QED BY <1>0, <1>1, <3>1 DEF StoredMatch
  <2>3. CASE k = t /\ ~r.sure
    BY <2>1, <2>3 DEF Kept
  <2> QED BY <1>3, <2>1, <2>2, <2>3
<1>10. CASE Forget(h)
  <2>1. r.at = "forget" /\ \A p \in Keys \ {f} : cache'[p] = cache[p]
    BY <1>0, <1>1, <1>10 DEF Forget
  <2>2. cache[f].file = 0
    BY <1>0, <2>1 DEF EmptyMatch, Emptied, Shape
  <2>3. k # f
    BY <1>1, <2>2
  <2> QED BY <1>3, <2>1, <2>3
<1> QED BY <1>6, <1>7, <1>8, <1>9, <1>10 DEF Serve

LEMMA NextKeeps ==
    ASSUME Apart, RequestInv, KeptInv, [Next]_vars, NEW k \in Keys,
           cache[k].meta = "pending", cache[k].file \in 1..MaxVer \ stored
    PROVE  Kept(k, cache[k].file)
<1>1. Typed /\ StoredMatch
  BY DEF RequestInv, KeptInv
<1>2. cache'[k] = cache[k] \/ cache'[k] = Marked(cache[k]) => Kept(k, cache[k].file)
  <2>1. cache[k] \in EntryType
    BY <1>1 DEF Typed
  <2>2. /\ ~Covers(cache[k]) /\ ~Covers(Marked(cache[k]))
        /\ Marked(cache[k]).file = cache[k].file
    BY <2>1 DEF Covers, Marked, EntryType, CacheType
  <2> QED BY <2>2 DEF Kept
<1>3. CASE UNCHANGED vars \/ Crash
  BY <1>2, <1>3 DEF vars, Crash
<1>4. CASE Start
  BY <1>2, <1>4 DEF Start
<1>5. ASSUME NEW h \in Requests, NEW op, NEW f, NEW t, Begin(h, op, f, t)
      PROVE  Kept(k, cache[k].file)
  BY <1>2, <1>5 DEF Begin
<1> QED BY <1>1, <1>3, <1>4, <1>5, KeyKeeps, ServeKeeps DEF Next

\* A write that is pending and that S3 never had stays in the cache, without a record that it
\* is in sync, until S3 has it or something is written over it, if requests keep apart and
\* nobody else writes their names: handleRename and handleCopy upload or move what is
\* newer than its object (localAuthoritative) and record for the destination the object they
\* made of it (recordOwnWrite), and Invalidate the source's name only when no file is there.
THEOREM KeepsWrites ==
    ASSUME Undisturbed
    PROVE  Spec /\ []Apart => NoLostWrite
<1>1. Apart /\ RequestInv /\ KeptInv /\ [Next]_vars => \A k \in Keys :
          LET v == cache[k].file IN
          cache[k].meta = "pending" /\ v \in 1..MaxVer \ stored
              => \/ v \in stored'
                 \/ cache'[k].file # v /\ (last' # last \/ \E h \in Requests : req[h].to = k)
                 \/ \E j \in Keys : cache'[j].file = v /\ ~Covers(cache'[j])
                 \/ \E h \in Requests : req[h].to = k /\ req[h].at = "record" /\ ~req[h].sure
  BY NextKeeps DEF Kept
<1>2. Init => RequestInv /\ KeptInv
  BY InitRequest, InitKept
<1>3. Apart /\ RequestInv /\ KeptInv /\ [Next]_vars => RequestInv' /\ KeptInv'
  BY RequestNext, KeptNext
<1> QED BY <1>1, <1>2, <1>3, PTL DEF Spec, NoLostWrite

=============================================================================
