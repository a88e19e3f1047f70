---------------------------- MODULE ResyncProofs ----------------------------
(***************************************************************************)
(* Resync, upload requests, background uploads and deletes on one key:     *)
(* without force resync replaces nothing newer, and no upload that ends    *)
(* and looks at the file hides a write -- for every number of writes and   *)
(* sizes, and whatever fails.                                              *)
(***************************************************************************)
EXTENDS Resync, TLAPS

\* A request uploads a file from elsewhere.
Sends == send.at # "idle" /\ ~send.own

\* A file of content v and mtime t is the one that the upload request, the background upload
\* or resync means when it has this mtime.
Means(v, t) ==
    /\ Sends /\ t = send.v => v = send.v
    /\ bg.at # "idle" /\ t = bg.mtime => v = bg.v
    /\ rs.at \in {"put", "record"} /\ t = rs.upMtime => v = rs.up

\* mtimes tell contents apart, because every write takes a time of its own; a hard link
\* alone brings an older one, that of the uploaded content.
TimesMatch ==
    /\ file.v <= now /\ file.mtime <= now /\ send.v <= now
    /\ bg.mtime <= now /\ rs.upMtime <= now
    /\ file.v # 0 => Means(file.v, file.mtime)
    /\ Sends => Means(send.v, send.v)
    /\ file.meta = "pending" => file.v # 0

\* What is about to be recorded has reached S3.
StoredMatch ==
    /\ bg.at = "record" => bg.v \in stored
    /\ rs.at = "record" => rs.up \in stored
    /\ send.at = "link" => send.v \in stored

\* Why resync uploads without force: it found no object, or an older one.
ReasonMatch ==
    /\ ~HeadMayFail /\ rs.err => rs.seen = Gone
    /\ rs.at \in {"open", "put"} /\ ~rs.force => rs.err \/ rs.mtime > rs.seen.lm

ResyncInv == TypeOK /\ TimesMatch /\ StoredMatch /\ ReasonMatch

USE TimeAssumption, SizeAssumption, FlagAssumption

-----------------------------------------------------------------------------
(* Entries and their metadata. *)

FileType == {f \in [v: Times, mtime: Times, meta: {"none", "pending", "synced"}, of: Times,
                    tag: Times, at: Times] : f.meta # "synced" => f.tag = 0}

BgType == [at: {"idle", "put", "record"}, v: Times, mtime: Times, canceled: BOOLEAN]
SendType == [at: {"idle", "put", "link"}, v: Times, own: BOOLEAN]
RsType == [at: {"idle", "head", "decide", "backfill", "open", "put", "record"},
           force: BOOLEAN, v: Times, mtime: Times, err: BOOLEAN, seen: Objects,
           up: Times, upMtime: Times]

Typed ==
    /\ now \in Times /\ remote \in Objects /\ stored \subseteq Times
    /\ file \in FileType
    /\ event \in BOOLEAN /\ queued \in BOOLEAN /\ send \in SendType
    /\ bg \in BgType /\ rs \in RsType /\ del \in {"idle", "delete", "remove"}

LEMMA TypedOK == (TypeOK <=> Typed) /\ (TypeOK' <=> Typed')
BY DEF TypeOK, Typed, FileType, BgType, SendType, RsType

LEMMA TimesNat ==
    /\ Times \subseteq Nat /\ 0 \in Times /\ 1 \in Times /\ 2 \in Times
    /\ \A t \in Times : t < MaxTime => t + 1 \in Times
BY DEF Times

LEMMA EntryTypes ==
    ASSUME NEW f \in FileType, now \in Times
    PROVE  /\ Absent \in FileType
           /\ \A v, m \in Times : Written(f, v, m) \in FileType
           /\ Marked(f) \in FileType
           /\ \A v, e \in Times : Synced(f, v, e) \in FileType
<1>1. Absent \in FileType
  BY TimesNat DEF FileType, Absent
<1>2. \A v, m \in Times : Written(f, v, m) \in FileType
  BY DEF FileType, Written
<1>3. [f EXCEPT !.meta = "pending", !.of = f.v, !.tag = 0, !.at = now] \in FileType
  BY TimesNat DEF FileType
<1>4. \A v, e \in Times : Synced(f, v, e) \in FileType
  BY DEF FileType, Synced
<1> QED BY <1>1, <1>2, <1>3, <1>4 DEF Marked

LEMMA EntryFields ==
    ASSUME NEW f \in FileType
    PROVE  /\ Marked(f).v = f.v /\ Marked(f).mtime = f.mtime
           /\ Marked(f).meta = "pending" => f.v # 0 \/ f.meta = "pending"
           /\ \A v, e \in Times : /\ Synced(f, v, e).v = f.v
                                  /\ Synced(f, v, e).mtime = f.mtime
                                  /\ Synced(f, v, e).meta = "synced"
BY DEF FileType, Times, Marked, Synced

\* What the steps need of the two, for the file as it is.
LEMMA FileTypes ==
    ASSUME Typed
    PROVE  /\ Marked(file) \in FileType
           /\ Marked(file).v = file.v /\ Marked(file).mtime = file.mtime
           /\ Marked(file).meta = "pending" => file.v # 0 \/ file.meta = "pending"
           /\ \A v, e \in Times : /\ Synced(file, v, e) \in FileType
                                 /\ Synced(file, v, e).v = file.v
                                 /\ Synced(file, v, e).mtime = file.mtime
                                 /\ Synced(file, v, e).meta = "synced"
<1>1. file \in FileType /\ now \in Times
  BY DEF Typed
<1>2. Marked(file) \in FileType /\ \A v, e \in Times : Synced(file, v, e) \in FileType
  BY <1>1, EntryTypes
<1> QED BY <1>1, <1>2, EntryFields

LEMMA InitInv == Init => ResyncInv
<1> SUFFICES ASSUME Init PROVE ResyncInv
  OBVIOUS
<1> USE TimesNat DEF Init
<1>1. remote \in Objects /\ now \in Times
  BY DEF Gone, Objects
<1>2. /\ file \in FileType
      /\ file.v <= 2 /\ file.mtime <= 2 /\ file.meta # "pending"
  <2>1. Absent \in FileType
    BY <1>1 DEF Absent, FileType
  <2>2. /\ Absent.v = 0 /\ Absent.mtime = 0 /\ Absent.meta = "none" /\ Absent.tag = 0
    BY DEF Absent
  <2> HIDE DEF Absent
  <2>3. CASE file = Absent
    BY <2>1, <2>2, <2>3
  <2>4. CASE file = Written(Absent, 1, 1) \/ file = Written(Absent, 2, 2)
    <3>1. PICK v \in {1, 2} :
             file = [v |-> v, mtime |-> v, meta |-> "none", of |-> 0, tag |-> 0, at |-> 0]
      BY <2>4 DEF Written, Absent
    <3> QED BY <3>1 DEF FileType
  <2>5. CASE file = Synced(Written(Absent, 1, 1), 1, 1)
    <3>1. file = [v |-> 1, mtime |-> 1, meta |-> "synced", of |-> 1, tag |-> 1, at |-> now]
      BY <2>5 DEF Written, Synced, Absent
    <3> QED BY <1>1, <3>1 DEF FileType
  <2> QED BY <2>3, <2>4, <2>5
<1>3. Idle \in [at: {"idle", "put", "record"}, v: Times, mtime: Times, canceled: BOOLEAN]
  BY DEF Idle
<1>4. NoResync \in [at: {"idle", "head", "decide", "backfill", "open", "put", "record"},
                    force: BOOLEAN, v: Times, mtime: Times, err: BOOLEAN, seen: Objects,
                    up: Times, upMtime: Times]
  BY DEF NoResync, Gone, Objects
<1>5. TypeOK
  BY <1>1, <1>2, <1>3, <1>4 DEF TypeOK, FileType, Objects, NoSend
<1>6. TimesMatch
  BY <1>2 DEF TimesMatch, Means, Sends, Idle, NoSend, NoResync
<1>7. StoredMatch /\ ReasonMatch
  BY DEF StoredMatch, ReasonMatch, Idle, NoSend, NoResync
<1> QED BY <1>5, <1>6, <1>7 DEF ResyncInv

-----------------------------------------------------------------------------
(* The steps.  PVE, the other node and the watcher first. *)

LEMMA NumbersTyped ==
    ASSUME Typed
    PROVE  /\ now \in Nat /\ send.v \in Nat /\ file.v \in Nat /\ file.mtime \in Nat
           /\ bg.v \in Nat /\ bg.mtime \in Nat /\ rs.up \in Nat /\ rs.upMtime \in Nat
BY TimesNat DEF Typed, FileType, BgType, SendType, RsType

LEMMA OutsideInv ==
    ASSUME ResyncInv, PVEWrite \/ OtherPut \/ OtherDelete \/ WatcherEvent
    PROVE  ResyncInv'
<1> USE TypedOK, TimesNat, NumbersTyped DEF ResyncInv
<1>1. CASE PVEWrite
  <2>1. file' = [file EXCEPT !.v = now', !.mtime = now'] /\ now' = now + 1 /\ now' \in Times
    BY <1>1 DEF PVEWrite, Written, Typed
  <2>2. Typed'
    BY <1>1, <2>1 DEF PVEWrite, Typed, FileType
  <2>3. file'.v = now' /\ file'.mtime = now'
    BY <2>1 DEF Typed, FileType
  <2>4. TimesMatch'
    BY <1>1, <2>1, <2>3 DEF PVEWrite, TimesMatch, Means, Sends
  <2> QED BY <1>1, <2>2, <2>4 DEF PVEWrite, StoredMatch, ReasonMatch
<1>2. CASE OtherPut
  <2>1. Typed'
    BY <1>2 DEF OtherPut, Put, Typed, Objects
  <2>2. TimesMatch'
    BY <1>2 DEF OtherPut, TimesMatch, Means, Sends
  <2> QED BY <1>2, <2>1, <2>2 DEF OtherPut, Put, StoredMatch, ReasonMatch
<1>3. CASE OtherDelete
  <2>1. Typed'
    BY <1>3 DEF OtherDelete, Gone, Typed, Objects
  <2> QED BY <1>3, <2>1 DEF OtherDelete, TimesMatch, Means, Sends, StoredMatch, ReasonMatch
<1>4. CASE WatcherEvent
  <2>1. /\ file' \in {file, Marked(file)} /\ event' = FALSE /\ queued' \in BOOLEAN
        /\ UNCHANGED <<now, remote, stored, bg, rs, send, del>>
    BY <1>4 DEF WatcherEvent, Typed
  <2>a. /\ file' \in FileType /\ file'.v = file.v /\ file'.mtime = file.mtime
        /\ file'.meta = "pending" => file.v # 0
    BY <2>1, FileTypes DEF TimesMatch, Typed
  <2>2. Typed'
    BY <2>1, <2>a DEF Typed
  <2>3. TimesMatch'
    BY <2>1, <2>a DEF TimesMatch, Means, Sends
  <2> QED BY <1>4, <2>2, <2>3 DEF WatcherEvent, StoredMatch, ReasonMatch
<1> QED BY <1>1, <1>2, <1>3, <1>4

-----------------------------------------------------------------------------
(* The background upload. *)

LEMMA BackgroundInv ==
    ASSUME ResyncInv, BgStart \/ BgPut \/ BgRecord
    PROVE  ResyncInv'
<1> USE TypedOK, TimesNat, NumbersTyped DEF ResyncInv
<1>0. file \in FileType /\ now \in Times /\ file.v \in Times /\ file.mtime \in Times
  BY DEF Typed, FileType
<1>1. CASE BgStart
  <2> DEFINE put == [at |-> "put", v |-> file.v, mtime |-> file.mtime, canceled |-> FALSE]
  <2>1. /\ UNCHANGED <<now, remote, stored, event, rs, send, del>>
        /\ bg.at = "idle" /\ queued' \in BOOLEAN
    BY <1>1 DEF BgStart
  <2>2. bg' = bg \/ (bg' = put /\ file.v # 0)
    BY <1>1 DEF BgStart
  <2>3. PICK v, e \in Times :
          file' \in {file, Marked(file)} \/ (file.v # 0 /\ file' = Synced(file, v, e))
    <3>1. remote.v \in Times
      BY DEF Typed, Objects
    <3> QED BY <1>0, <1>1, <3>1 DEF BgStart
  <2>4. /\ file' \in FileType /\ file'.v = file.v /\ file'.mtime = file.mtime
        /\ file'.meta = "pending" => file.v # 0
    BY <1>0, <2>3, FileTypes DEF TimesMatch
  <2>5. bg' \in BgType
    <3>1. put \in BgType
      BY <1>0 DEF BgType
    <3>2. bg \in BgType
      BY DEF Typed
    <3> QED BY <2>2, <3>1, <3>2
  <2>6. Typed'
    BY <2>1, <2>4, <2>5 DEF Typed
  <2>7. TimesMatch'
    BY <2>1, <2>2, <2>4 DEF TimesMatch, Means, Sends
  <2>8. StoredMatch' /\ ReasonMatch'
    BY <2>1, <2>2 DEF StoredMatch, ReasonMatch
  <2> QED BY <2>6, <2>7, <2>8
<1>2. CASE BgPut
  <2>1. /\ UNCHANGED <<now, file, event, rs, send, del>> /\ queued' \in BOOLEAN
        /\ remote' \in Objects /\ stored' \subseteq Times /\ stored \subseteq stored'
        /\ bg' = Idle \/ (bg' = [bg EXCEPT !.at = "record"] /\ bg.at = "put" /\ bg.v \in stored')
    BY <1>2 DEF BgPut, Put, Typed, Objects, BgType
  <2>2. bg' \in BgType
    <3>1. bg \in BgType
      BY DEF Typed
    <3>2. Idle \in BgType /\ [bg EXCEPT !.at = "record"] \in BgType
      BY <3>1 DEF BgType, Idle
    <3> QED BY <2>1, <3>2
  <2>3. bg'.at # "idle" => bg'.v = bg.v /\ bg'.mtime = bg.mtime /\ bg.at # "idle" /\ bg'.v \in stored'
    BY <2>1 DEF Typed, BgType, Idle
  <2>4. bg'.mtime <= now
    BY <2>1 DEF Typed, BgType, Idle, TimesMatch
  <2>5. Typed'
    BY <2>1, <2>2 DEF Typed
  <2>6. TimesMatch'
    BY <2>1, <2>3, <2>4 DEF TimesMatch, Means, Sends
  <2>7. StoredMatch' /\ ReasonMatch'
    BY <2>1, <2>3 DEF StoredMatch, ReasonMatch
  <2> QED BY <2>5, <2>6, <2>7
<1>3. CASE BgRecord
  <2>1. bg.v \in Times /\ UNCHANGED <<now, remote, stored, event, queued, rs, send, del>>
        /\ bg' = Idle
    BY <1>3 DEF BgRecord, Typed, BgType
  <2>2. file' \in {file, Marked(file), Synced(file, bg.v, bg.v)}
    BY <1>3 DEF BgRecord
  <2>3. /\ file' \in FileType /\ file'.v = file.v /\ file'.mtime = file.mtime
        /\ file'.meta = "pending" => file.v # 0
    BY <1>0, <2>1, <2>2, FileTypes DEF TimesMatch
  <2>4. Typed'
    BY <2>1, <2>3 DEF Typed, BgType, Idle
  <2>5. TimesMatch'
    BY <2>1, <2>3 DEF TimesMatch, Means, Sends, Idle
  <2>6. StoredMatch' /\ ReasonMatch'
    BY <2>1 DEF StoredMatch, ReasonMatch, Idle
  <2> QED BY <2>4, <2>5, <2>6
<1> QED BY <1>1, <1>2, <1>3

-----------------------------------------------------------------------------
(* Deletes and upload requests. *)

LEMMA DeleteInv ==
    ASSUME ResyncInv, DeleteBegin \/ DeleteObject \/ DeleteRemove
    PROVE  ResyncInv'
<1> USE TypedOK, TimesNat, NumbersTyped DEF ResyncInv
<1>1. CASE DeleteBegin
  <2>1. bg' \in BgType /\ bg'.at = bg.at /\ bg'.v = bg.v /\ bg'.mtime = bg.mtime
    BY <1>1 DEF DeleteBegin, Typed, BgType
  <2>2. Typed'
    BY <1>1, <2>1 DEF DeleteBegin, Typed
  <2> QED BY <1>1, <2>1, <2>2 DEF DeleteBegin, TimesMatch, Means, Sends, StoredMatch, ReasonMatch
<1>2. CASE DeleteObject
  <2>1. Typed'
    BY <1>2 DEF DeleteObject, Typed, Gone, Objects
  <2> QED BY <1>2, <2>1 DEF DeleteObject, TimesMatch, Means, Sends, StoredMatch, ReasonMatch
<1>3. CASE DeleteRemove
  <2>1. /\ file' \in FileType /\ file'.v = 0 /\ file'.mtime = 0 /\ file'.meta = "none"
        /\ UNCHANGED <<now, remote, stored, event, queued, bg, rs, send>> /\ del' = "idle"
    BY <1>3 DEF DeleteRemove, Absent, FileType
  <2>2. Typed'
    BY <2>1 DEF Typed
  <2>3. TimesMatch'
    BY <2>1 DEF TimesMatch, Means, Sends
  <2> QED BY <2>1, <2>2, <2>3 DEF StoredMatch, ReasonMatch
<1> QED BY <1>1, <1>2, <1>3

LEMMA UploadInv ==
    ASSUME ResyncInv, UploadOpen \/ UploadPut \/ UploadLink
    PROVE  ResyncInv'
<1> USE TypedOK, TimesNat, NumbersTyped DEF ResyncInv
<1>0. NoSend \in SendType /\ NoSend.at = "idle" /\ NoSend.v = 0 /\ send \in SendType
      /\ file \in FileType /\ file.v \in Times /\ now \in Times
  BY DEF NoSend, SendType, Typed, FileType
<1>1. CASE UploadOpen
  <2>1. PICK v \in Times, own \in BOOLEAN :
           /\ send' = [at |-> "put", v |-> v, own |-> own]
           /\ \/ ~own /\ v = now + 1 /\ now' = now + 1
              \/ own /\ v = file.v /\ now' = now
    BY <1>0, <1>1 DEF UploadOpen
  <2>2. /\ send' \in SendType /\ send'.at = "put" /\ send'.v = v /\ send'.own = own
        /\ now' \in Times
        /\ UNCHANGED <<file, remote, stored, event, queued, bg, rs, del>>
    BY <1>0, <1>1, <2>1 DEF UploadOpen, SendType
  <2>3. Typed'
    BY <2>2 DEF Typed
  <2>4. TimesMatch'
    BY <2>1, <2>2 DEF TimesMatch, Means, Sends
  <2> QED BY <2>2, <2>3, <2>4 DEF StoredMatch, ReasonMatch
<1>2. CASE UploadPut
  <2>1. /\ UNCHANGED <<now, file, event, queued, bg, rs, del>>
        /\ remote' \in Objects /\ stored' \subseteq Times /\ stored \subseteq stored'
    <3>1. send.v \in Times
      BY <1>0 DEF SendType
    <3> QED BY <1>0, <1>2, <3>1 DEF UploadPut, Put, Typed, Objects
  <2>2. /\ send' \in SendType /\ send'.v <= now
        /\ Sends' => Sends /\ send'.v = send.v
        /\ send'.at = "link" => send'.v \in stored'
    <3>1. CASE send' = NoSend
      BY <1>0, <3>1 DEF Sends
    <3>2. CASE /\ send' = [send EXCEPT !.at = "link"] /\ stored' = stored \cup {send.v}
               /\ send.at = "put"
      <4>1. /\ send' \in SendType /\ send'.at = "link" /\ send'.v = send.v
            /\ send'.own = send.own
        BY <1>0, <3>2 DEF SendType
      <4> QED BY <3>2, <4>1 DEF Sends, TimesMatch
    <3> QED BY <1>2, <3>1, <3>2 DEF UploadPut, Put
  <2>3. Typed'
    BY <2>1, <2>2 DEF Typed
  <2>4. TimesMatch'
    BY <2>1, <2>2 DEF TimesMatch, Means, Sends
  <2> QED BY <2>1, <2>2, <2>3, <2>4 DEF StoredMatch, ReasonMatch
<1>3. CASE UploadLink
  <2>1. /\ send.at = "link" /\ send' = NoSend /\ event' \in BOOLEAN /\ send.v \in Times
        /\ UNCHANGED <<remote, stored, queued, bg, rs, del>>
    BY <1>0, <1>3 DEF UploadLink, SendType, Typed
  <2>2. /\ now' \in Times /\ file' \in FileType
        /\ \/ /\ Sends /\ file'.v = send.v /\ file'.meta = "synced"
              /\ \/ now' = now /\ file'.mtime = send.v
                 \/ now' = now + 1 /\ file'.mtime = now'
           \/ /\ now' = now /\ file'.v = file.v /\ file'.mtime = file.mtime
              /\ file'.meta = "pending" => file.v # 0
    <3>1. CASE /\ ~send.own /\ now' = now
               /\ file' = Synced(Written(file, send.v, send.v), send.v, send.v)
      BY <1>0, <2>1, <3>1 DEF Sends, Synced, Written, FileType
    <3>2. CASE /\ ~send.own /\ now < MaxTime /\ now' = now + 1
               /\ file' = [Synced(Written(file, send.v, now'), send.v, send.v)
                             EXCEPT !.at = now']
      BY <1>0, <2>1, <3>2 DEF Sends, Synced, Written, FileType
    <3>3. CASE file' \in {file, Synced(file, send.v, send.v)} /\ now' = now
      BY <1>0, <2>1, <3>3, FileTypes DEF TimesMatch
    <3> QED BY <1>3, <3>1, <3>2, <3>3 DEF UploadLink
  <2>3. Typed'
    BY <1>0, <2>1, <2>2 DEF Typed
  <2>4. TimesMatch'
    BY <1>0, <2>1, <2>2 DEF TimesMatch, Means, Sends
  <2> QED BY <1>0, <2>1, <2>3, <2>4 DEF StoredMatch, ReasonMatch
<1> QED BY <1>1, <1>2, <1>3

-----------------------------------------------------------------------------
(* The resync request: up to the verdict, then what it does. *)

LEMMA ResyncTypes ==
    ASSUME rs \in RsType
    PROVE  /\ NoResync \in RsType /\ NoResync.at = "idle" /\ ~NoResync.err
           /\ NoResync.upMtime = 0
           /\ rs.force \in BOOLEAN /\ rs.err \in BOOLEAN /\ rs.seen \in Objects
           /\ rs.mtime \in Times /\ rs.up \in Times /\ rs.upMtime \in Times
BY TimesNat DEF RsType, NoResync, Gone, Objects

LEMMA VerdictInv ==
    ASSUME ResyncInv, (\E force \in BOOLEAN : Scan(force)) \/ Head \/ Decide
    PROVE  ResyncInv'
<1> USE TypedOK, TimesNat, NumbersTyped DEF ResyncInv
<1>0. /\ UNCHANGED <<now, file, remote, stored, event, queued, bg, send, del>>
      /\ rs \in RsType
  BY DEF Scan, Head, Decide, Typed
<1>1. /\ rs' \in RsType /\ rs'.at \notin {"put", "record"} /\ rs'.upMtime <= now
      /\ ~HeadMayFail /\ rs'.err => rs'.seen = Gone
      /\ rs'.at = "open" /\ ~rs'.force => rs'.err \/ rs'.mtime > rs'.seen.lm
  <2>1. CASE \E force \in BOOLEAN : Scan(force)
    <3>1. PICK force \in BOOLEAN : Scan(force)
      BY <2>1
    <3>2. file.v \in Times /\ file.mtime \in Times
      BY DEF Typed, FileType
    <3>3. rs' = [at |-> "head", force |-> force, v |-> file.v, mtime |-> file.mtime,
                 err |-> FALSE, seen |-> Gone, up |-> 0, upMtime |-> 0]
      BY <3>1 DEF Scan, NoResync
    <3>4. Gone \in Objects
      BY DEF Gone, Objects
    <3>5. rs' \in RsType
      BY <3>2, <3>3, <3>4 DEF RsType
    <3> QED BY <3>3, <3>5
  <2>2. CASE Head
    <3>1. PICK err \in (IF HeadMayFail THEN BOOLEAN ELSE {FALSE}) :
             rs' = [rs EXCEPT !.at = "decide", !.seen = remote, !.err = err \/ remote = Gone]
      BY <2>2 DEF Head
    <3>2. err \in BOOLEAN /\ remote \in Objects
      BY <3>1 DEF Typed
    <3>3. rs' \in RsType
      BY <1>0, <3>1, <3>2 DEF RsType
    <3>4. rs'.at = "decide" /\ rs'.seen = remote /\ rs'.upMtime = rs.upMtime
          /\ rs'.err = (err \/ remote = Gone)
      BY <1>0, <3>1 DEF RsType
    <3> QED BY <3>1, <3>3, <3>4 DEF TimesMatch
  <2>3. CASE Decide
    <3>1. CASE rs' = NoResync
      BY <1>0, <3>1, ResyncTypes
    <3>2. CASE rs' = [rs EXCEPT !.at = "backfill"]
      <4>1. rs' \in RsType
        BY <1>0, <3>2 DEF RsType
      <4>2. /\ rs'.at = "backfill" /\ rs'.err = rs.err /\ rs'.seen = rs.seen
            /\ rs'.upMtime = rs.upMtime
        BY <1>0, <3>2 DEF RsType
      <4> QED BY <4>1, <4>2 DEF TimesMatch, ReasonMatch
    <3>3. CASE rs' = [rs EXCEPT !.at = "open"] /\ (rs.err \/ LocalNewer \/ rs.force)
      <4>1. rs' \in RsType
        BY <1>0, <3>3 DEF RsType
      <4>2. /\ rs'.at = "open" /\ rs'.err = rs.err /\ rs'.seen = rs.seen
            /\ rs'.upMtime = rs.upMtime /\ rs'.mtime = rs.mtime /\ rs'.force = rs.force
        BY <1>0, <3>3 DEF RsType
      <4> QED BY <3>3, <4>1, <4>2 DEF TimesMatch, ReasonMatch, LocalNewer
    <3> QED BY <2>3, <3>1, <3>2, <3>3 DEF Decide
  <2> QED BY <2>1, <2>2, <2>3
<1>2. Typed'
  BY <1>0, <1>1 DEF Typed
<1>3. TimesMatch'
  BY <1>0, <1>1 DEF TimesMatch, Means, Sends
<1>4. StoredMatch' /\ ReasonMatch'
  BY <1>0, <1>1 DEF StoredMatch, ReasonMatch
<1> QED BY <1>2, <1>3, <1>4

LEMMA CarryOutInv ==
    ASSUME ResyncInv, Backfill \/ Open \/ PutObject \/ Record
    PROVE  ResyncInv'
<1> USE TypedOK, TimesNat, NumbersTyped DEF ResyncInv
<1>0. rs \in RsType /\ file \in FileType
  BY DEF Typed
<1>1. CASE Backfill \/ Record
  <2>1. /\ UNCHANGED <<now, remote, stored, event, queued, bg, send, del>>
        /\ rs' = NoResync
    BY <1>1 DEF Backfill, Record
  <2>2. PICK v, e \in Times : file' \in {Marked(file), Synced(file, v, e)}
    <3>1. rs.seen.v \in Times /\ rs.up \in Times
      BY <1>0 DEF RsType, Objects
    <3> QED BY <1>1, <3>1 DEF Backfill, Record
  <2>3. /\ file' \in FileType /\ file'.v = file.v /\ file'.mtime = file.mtime
        /\ file'.meta = "pending" => file.v # 0
    BY <2>2, FileTypes DEF TimesMatch
  <2>4. Typed'
    BY <1>0, <2>1, <2>3, ResyncTypes DEF Typed
  <2>5. TimesMatch'
    BY <1>0, <2>1, <2>3, ResyncTypes DEF TimesMatch, Means, Sends
  <2>6. StoredMatch' /\ ReasonMatch'
    BY <1>0, <2>1, ResyncTypes DEF StoredMatch, ReasonMatch
  <2> QED BY <2>4, <2>5, <2>6
<1>2. CASE Open
  <2>1. /\ UNCHANGED <<now, file, remote, stored, event, queued, bg, send, del>>
        /\ rs.at = "open"
        /\ \/ rs' = NoResync
           \/ /\ rs' = [rs EXCEPT !.at = "put", !.up = file.v, !.upMtime = file.mtime]
              /\ file.v # 0
    BY <1>2 DEF Open
  <2>2. file.v \in Times /\ file.mtime \in Times
    BY <1>0 DEF FileType
  <2>3. CASE rs' = NoResync
    <3>1. Typed'
      BY <1>0, <2>1, <2>3, ResyncTypes DEF Typed
    <3>2. TimesMatch'
      BY <1>0, <2>1, <2>3, ResyncTypes DEF TimesMatch, Means, Sends
    <3> QED BY <1>0, <2>1, <2>3, <3>1, <3>2, ResyncTypes DEF StoredMatch, ReasonMatch
  <2>4. CASE /\ rs' = [rs EXCEPT !.at = "put", !.up = file.v, !.upMtime = file.mtime]
             /\ file.v # 0
    <3>1. rs' \in RsType
      BY <1>0, <2>2, <2>4 DEF RsType
    <3>2. /\ rs'.at = "put" /\ rs'.up = file.v /\ rs'.upMtime = file.mtime
          /\ rs'.force = rs.force /\ rs'.err = rs.err /\ rs'.seen = rs.seen
          /\ rs'.mtime = rs.mtime
      BY <1>0, <2>4 DEF RsType
    <3>3. Typed'
      BY <2>1, <3>1 DEF Typed
    <3>4. TimesMatch'
      BY <2>1, <2>4, <3>2 DEF TimesMatch, Means, Sends
    <3>5. StoredMatch' /\ ReasonMatch'
      BY <2>1, <3>2 DEF StoredMatch, ReasonMatch
    <3> QED BY <3>3, <3>4, <3>5
  <2> QED BY <2>1, <2>3, <2>4
<1>3. CASE PutObject
  <2>1. /\ UNCHANGED <<now, file, event, queued, bg, send, del>>
        /\ remote' \in Objects /\ stored' \subseteq Times /\ stored \subseteq stored'
    <3>1. rs.up \in Times
      BY <1>0 DEF RsType
    <3> QED BY <1>3, <3>1 DEF PutObject, Put, Typed, Objects
  <2>2. CASE rs' = NoResync
    <3>1. Typed'
      BY <1>0, <2>1, <2>2, ResyncTypes DEF Typed
    <3>2. TimesMatch'
      BY <1>0, <2>1, <2>2, ResyncTypes DEF TimesMatch, Means, Sends
    <3> QED BY <1>0, <2>1, <2>2, <3>1, <3>2, ResyncTypes DEF StoredMatch, ReasonMatch
  <2>3. CASE rs' = [rs EXCEPT !.at = "record"] /\ rs.at = "put" /\ rs.up \in stored'
    <3>1. rs' \in RsType
      BY <1>0, <2>3 DEF RsType
    <3>2. /\ rs'.at = "record" /\ rs'.up = rs.up /\ rs'.upMtime = rs.upMtime
          /\ rs'.force = rs.force /\ rs'.err = rs.err /\ rs'.seen = rs.seen
          /\ rs'.mtime = rs.mtime
      BY <1>0, <2>3 DEF RsType
    <3>3. Typed'
      BY <2>1, <3>1 DEF Typed
    <3>4. TimesMatch'
      BY <2>1, <2>3, <3>2 DEF TimesMatch, Means, Sends
    <3>5. StoredMatch' /\ ReasonMatch'
      BY <2>1, <2>3, <3>2 DEF StoredMatch, ReasonMatch
    <3> QED BY <3>3, <3>4, <3>5
  <2> QED BY <1>3, <2>2, <2>3 DEF PutObject, Put
<1> QED BY <1>1, <1>2, <1>3

-----------------------------------------------------------------------------
(* The theorems. *)

LEMMA NextInv == ResyncInv /\ [Next]_vars => ResyncInv'
<1> SUFFICES ASSUME ResyncInv, [Next]_vars PROVE ResyncInv'
  OBVIOUS
<1>1. CASE UNCHANGED vars
  BY <1>1 DEF vars, ResyncInv, TypeOK, TimesMatch, Means, Sends, StoredMatch, ReasonMatch
<1> QED BY <1>1, OutsideInv, BackgroundInv, DeleteInv, UploadInv, VerdictInv, CarryOutInv
        DEF Next

THEOREM ResyncInvariant == Spec => []ResyncInv
BY InitInv, NextInv, PTL DEF Spec

\* The watcher, the request handlers and resync leave the entry of the cache, its metadata
\* and the object in states that the types name, for every number of writes.
THEOREM TypeCorrect == Spec => []TypeOK
BY ResyncInvariant, PTL DEF ResyncInv

\* resync.go:67-96: if HEAD fails for a missing object only, resync without force replaces
\* no object newer than the scanned file, as long as nobody has touched it since the HEAD.
\* (Where HEAD may fail otherwise it does: the run ResyncBlind shows it.)
THEOREM ReplacesNothingNewer ==
    ASSUME ~HeadMayFail
    PROVE  Spec => KeepsNewer
<1>1. ResyncInv /\ [Next]_vars
         => [rs.at = "put" /\ rs' # rs /\ remote' # remote /\ ~rs.force
               => \/ remote = Gone \/ remote # rs.seen
                  \/ rs.up = remote.v \/ rs.mtime >= remote.lm]_vars
  <2> SUFFICES ASSUME ResyncInv, rs.at = "put", ~rs.force, remote = rs.seen
               PROVE  remote = Gone \/ rs.mtime >= remote.lm
    OBVIOUS
  <2>1. rs.mtime \in Nat /\ remote.lm \in Nat
    BY TypedOK, TimesNat DEF ResyncInv, Typed, RsType, Objects
  <2> QED BY <2>1 DEF ResyncInv, ReasonMatch
<1> QED BY <1>1, ResyncInvariant, PTL DEF Spec, KeepsNewer

\* watcher.go:495-510, resync.go:140-153, cache.go (MarkSynced, Link): whatever uploads
\* run beside one another and however they end, a pending write that S3 never had is not
\* recorded as in sync for the content that the file had before; but resync's StoreMeta
\* (resync.go:107) and Link of the cache file itself (sameInode, cache.go:267-295), which do
\* not look at the file again, may do so.
THEOREM KeepsWrites == Spec => NoLostWrite
<1>1. ResyncInv /\ [Next]_vars
         => [file.meta = "pending" /\ file.v \notin stored /\ ~Unguarded
               => \/ file.v \in stored' \/ file'.v # file.v
                  \/ ~Covers(file', file'.v, file'.mtime)]_vars
  <2> SUFFICES ASSUME ResyncInv, [Next]_vars, file.meta = "pending", file.v \notin stored,
                      ~Unguarded, file'.v = file.v,
                      Covers(file', file'.v, file'.mtime)
               PROVE  file.v \in stored'
    OBVIOUS
  <2>1. file'.meta = "synced" /\ file' # file
    BY DEF Covers
  <2>2. Marked(file).meta = "pending" /\ file.v # 0
    <3>1. file.v # 0 /\ file \in FileType
      BY TypedOK DEF ResyncInv, TimesMatch, Typed
    <3> QED BY <3>1 DEF Marked, Covers, FileType
  <2>3. CASE PVEWrite \/ DeleteRemove
    <3>1. file \in FileType
      BY TypedOK DEF ResyncInv, Typed
    <3>2. Written(file, now', now').meta = "pending" /\ Absent.meta = "none"
      BY <3>1 DEF FileType, Written, Absent
    <3> QED BY <2>1, <2>3, <3>2 DEF PVEWrite, DeleteRemove
  <2>4. CASE WatcherEvent \/ BgStart
    BY <2>1, <2>2, <2>4 DEF WatcherEvent, BgStart, Covers
  <2>5. CASE BgRecord
    <3>1. Unchanged(bg.mtime) /\ bg.at = "record"
      BY <2>1, <2>2, <2>5 DEF BgRecord
    <3> QED BY <2>2, <3>1 DEF ResyncInv, TimesMatch, Means, Sends, StoredMatch, Unchanged
  <2>6. CASE UploadLink
    <3>1. send.at = "link" /\ send' # send
      BY <2>6 DEF UploadLink, NoSend
    <3>2. ~send.own
      BY <3>1 DEF Unguarded
    <3>3. file'.v = send.v
      BY <2>6, <3>2, TypedOK DEF UploadLink, Synced, Written, ResyncInv, Typed, FileType
    <3> QED BY <3>1, <3>3 DEF ResyncInv, StoredMatch
  <2>7. CASE Record
    <3>1. Unchanged(rs.upMtime) /\ rs.at = "record"
      BY <2>1, <2>2, <2>7 DEF Record
    <3> QED BY <2>2, <3>1 DEF ResyncInv, TimesMatch, Means, Sends, StoredMatch, Unchanged
  <2>8. CASE \/ OtherPut \/ OtherDelete \/ BgPut \/ DeleteBegin \/ DeleteObject
             \/ UploadOpen \/ UploadPut \/ (\E force \in BOOLEAN : Scan(force)) \/ Head \/ Decide \/ Open \/ PutObject
             \/ UNCHANGED vars
    BY <2>1, <2>8 DEF OtherPut, OtherDelete, BgPut, DeleteBegin, DeleteObject, UploadOpen,
       UploadPut, Scan, Head, Decide, Open, PutObject, vars
  <2>9. ~Backfill
    <3>1. Backfill => rs.at = "backfill" /\ rs' # rs
      BY DEF Backfill, NoResync
    <3> QED BY <3>1 DEF Unguarded
  <2> QED BY <2>3, <2>4, <2>5, <2>6, <2>7, <2>8, <2>9 DEF Next
<1> QED BY <1>1, ResyncInvariant, PTL DEF Spec, NoLostWrite
=============================================================================
