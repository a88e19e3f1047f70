--------------------------- MODULE CacheSyncProofs ---------------------------
(***************************************************************************)
(* Proofs about CacheSync, for every number of downloads and every choice  *)
(* of failures, late events and concurrent writers.                        *)
(*                                                                         *)
(* MarksInv is inductive: its type part needs TagKnown (a download records *)
(* an ETag only if its HEAD returned one), SnapshotsMatch needs only the   *)
(* types, and SyncedWasStored is kept because whoever records an ETag       *)
(* holds a content that SnapshotsMatch says has been on S3.                *)
(*                                                                         *)
(* KeepInv is inductive for a calm daemon: it says who knows of a content  *)
(* S3 has never had (the mark, the times a request or an upload has read)  *)
(* and that nobody who may take the file away has overlooked it.           *)
(*                                                                         *)
(* HitInv is inductive for one download at a time: the recorded ETag is    *)
(* that of the file, or of a content that nobody can bring back to S3.     *)
(***************************************************************************)
EXTENDS CacheSync, TLAPS

(* The invariant holds before the daemon has done anything. *)
LEMMA InitMarks == Init => MarksInv
<1> SUFFICES ASSUME Init PROVE MarksInv
  OBVIOUS
<1>1. DataTypeOK
  BY AnswerAssumption, BoundAssumption DEF Init, NoRequest, DataTypeOK, Contents, UploadPC, DownPC
<1>2. FlagTypeOK
  BY DEF Init, NoRequest, FlagTypeOK
<1>3. TagKnown
  BY DEF Init, NoRequest, TagKnown
<1>4. SnapshotsMatch
  BY AnswerAssumption DEF Init, NoRequest, SnapshotsMatch, Contents
<1>5. SyncedWasStored
  BY DEF Init, SyncedWasStored
<1>6. QED
  BY <1>1, <1>2, <1>3, <1>4, <1>5 DEF MarksInv, TypeOK

(* No step leaves the types of the contents and stages. *)
LEMMA DataTypeStep ==
  ASSUME DataTypeOK, FlagTypeOK, TagKnown, [Next]_vars
  PROVE  DataTypeOK'
<1>1. CASE PVEWrite
  BY <1>1, AnswerAssumption, BoundAssumption DEF DataTypeOK, FlagTypeOK, TagKnown, PVEWrite,
         Busy, WriteFile, WriteMeta, Describes, SameSize, metaVars, remoteVars, Contents,
         UploadPC, DownPC
<1>2. CASE OtherPut
  BY <1>2, AnswerAssumption, BoundAssumption DEF DataTypeOK, FlagTypeOK, TagKnown, OtherPut,
         OthersMay, WriteRemote, procVars, metaVars, watchVars, Contents, UploadPC, DownPC
<1>3. CASE OtherDelete
  BY <1>3, AnswerAssumption, BoundAssumption DEF DataTypeOK, FlagTypeOK, TagKnown,
         OtherDelete, OthersMay, procVars, fileVars, metaVars, watchVars, uploadVars,
         downVars, Contents, UploadPC, DownPC
<1>4. CASE WatcherEvent
  BY <1>4, AnswerAssumption, BoundAssumption DEF DataTypeOK, FlagTypeOK, TagKnown,
         WatcherEvent, metaVars, Markable, Covers, MarkPending, WriteMeta, Describes,
         SameSize, procVars, remoteVars, downVars, Contents, UploadPC, DownPC
<1>5. CASE UploadStart
  BY <1>5, AnswerAssumption, BoundAssumption DEF DataTypeOK, FlagTypeOK, TagKnown,
         UploadStart, Covers, procVars, fileVars, metaVars, remoteVars, downVars, Contents,
         UploadPC, DownPC
<1>6. CASE UploadHead
  BY <1>6, AnswerAssumption, BoundAssumption DEF DataTypeOK, FlagTypeOK, TagKnown, UploadHead,
         metaVars, Markable, Covers, WriteMeta, Describes, SameSize, Unchanged, procVars,
         remoteVars, downVars, Contents, UploadPC, DownPC
<1>7. CASE UploadPut
  <2>1. crashes' \in 0..MaxCrashes
    BY <1>7 DEF DataTypeOK, UploadPut, procVars
  <2>2. last' \in Contents /\ claimed' \in Contents /\ unmarked' \in Contents /\ file' \in Contents
    BY <1>7, AnswerAssumption, BoundAssumption DEF DataTypeOK, UploadPut, WriteRemote,
           remoteVars, procVars, metaVars, Contents, UploadPC, DownPC
  <2>3. remote' \in Contents
    BY <1>7, AnswerAssumption, BoundAssumption DEF DataTypeOK, UploadPut, WriteRemote,
           remoteVars, procVars, metaVars, Contents, UploadPC, DownPC
  <2>4. stored' \subseteq Contents
    <3>1. \/ \E v \in {usnap} \cup ({file} \ {0}) : stored' = stored \cup {v}
          \/ stored' = stored
      BY <1>7 DEF UploadPut, WriteRemote, remoteVars
    <3>2. {usnap, file} \subseteq Contents /\ stored \subseteq Contents
      BY DEF DataTypeOK
    <3>3. QED
      BY <3>1, <3>2
  <2>5. meta' \in {"none", "pending", "synced"} /\ tag' \in Contents
    BY <1>7, AnswerAssumption, BoundAssumption DEF DataTypeOK, UploadPut, WriteRemote,
           remoteVars, procVars, metaVars, Contents, UploadPC, DownPC
  <2>6. upc' \in UploadPC
    BY <1>7, AnswerAssumption, BoundAssumption DEF DataTypeOK, UploadPut, WriteRemote,
           remoteVars, procVars, metaVars, Contents, UploadPC, DownPC
  <2>7. usnap' \in Contents
    BY <1>7, AnswerAssumption, BoundAssumption DEF DataTypeOK, UploadPut, WriteRemote,
           remoteVars, procVars, metaVars, Contents, UploadPC, DownPC
  <2>8. hpc' \in {"idle", "object", "remove"} /\ epc' \in {"idle", "remove"}
    BY <1>7, AnswerAssumption, BoundAssumption DEF DataTypeOK, UploadPut, WriteRemote,
           remoteVars, procVars, metaVars, Contents, UploadPC, DownPC
  <2>9. dpc' \in [Downloads -> DownPC]
    BY <1>7, AnswerAssumption, BoundAssumption DEF DataTypeOK, UploadPut, WriteRemote,
           remoteVars, procVars, metaVars, Contents, UploadPC, DownPC
  <2>10. head' \in [Downloads -> Contents \cup {NotFound, NoAnswer}]
    BY <1>7, AnswerAssumption, BoundAssumption DEF DataTypeOK, UploadPut, WriteRemote,
           remoteVars, procVars, metaVars, Contents, UploadPC, DownPC
  <2>11. got' \in [Downloads -> Contents]
    BY <1>7, AnswerAssumption, BoundAssumption DEF DataTypeOK, UploadPut, WriteRemote,
           remoteVars, procVars, metaVars, Contents, UploadPC, DownPC
  <2>12. since' \in [Downloads -> SUBSET Contents]
    BY <1>7, AnswerAssumption, BoundAssumption DEF DataTypeOK, UploadPut, WriteRemote,
           remoteVars, procVars, metaVars, Contents, UploadPC, DownPC
  <2>13. QED BY <2>1, <2>2, <2>3, <2>4, <2>5, <2>6, <2>7, <2>8, <2>9, <2>10, <2>11, <2>12 DEF DataTypeOK
<1>8. CASE UploadRecord
  BY <1>8, AnswerAssumption, BoundAssumption DEF DataTypeOK, FlagTypeOK, TagKnown,
         UploadRecord, metaVars, Unchanged, WriteMeta, Describes, SameSize, MarkPending,
         Markable, Covers, procVars, remoteVars, watchVars, downVars, Contents, UploadPC,
         DownPC
<1>9. CASE DeleteBlock
  BY <1>9, AnswerAssumption, BoundAssumption DEF DataTypeOK, FlagTypeOK, TagKnown,
         DeleteBlock, procVars, fileVars, metaVars, remoteVars, watchVars, downVars, Contents,
         UploadPC, DownPC
<1>10. CASE DeleteObject
  BY <1>10, AnswerAssumption, BoundAssumption DEF DataTypeOK, FlagTypeOK, TagKnown,
         DeleteObject, procVars, fileVars, metaVars, watchVars, uploadVars, downVars,
         Contents, UploadPC, DownPC
<1>11. CASE DeleteRemove
  BY <1>11, AnswerAssumption, BoundAssumption DEF DataTypeOK, FlagTypeOK, TagKnown,
         DeleteRemove, WriteFile, DropMeta, procVars, remoteVars, watchVars, Contents,
         UploadPC, DownPC
<1>12. CASE EvictCheck
  BY <1>12, AnswerAssumption, BoundAssumption DEF DataTypeOK, FlagTypeOK, TagKnown,
         EvictCheck, Evictable, procVars, fileVars, metaVars, remoteVars, watchVars,
         uploadVars, downVars, Contents, UploadPC, DownPC
<1>13. CASE EvictRemove
  BY <1>13, AnswerAssumption, BoundAssumption DEF DataTypeOK, FlagTypeOK, TagKnown,
         EvictRemove, WriteFile, DropMeta, procVars, remoteVars, watchVars, Contents,
         UploadPC, DownPC
<1>14. CASE Crash
  <2>1. crashes' \in 0..MaxCrashes
    <3>1. crashes \in Nat /\ MaxCrashes \in Nat /\ crashes < MaxCrashes /\ crashes' = crashes + 1
      BY <1>14, BoundAssumption DEF DataTypeOK, Crash
    <3>2. QED BY <3>1
  <2>2. last' \in Contents /\ claimed' \in Contents /\ unmarked' \in Contents /\ file' \in Contents
    BY <1>14, AnswerAssumption, BoundAssumption DEF DataTypeOK, Crash, remoteVars, metaVars,
           Contents, UploadPC, DownPC
  <2>3. remote' \in Contents
    BY <1>14, AnswerAssumption, BoundAssumption DEF DataTypeOK, Crash, remoteVars, metaVars,
           Contents, UploadPC, DownPC
  <2>4. stored' \subseteq Contents
    BY <1>14, AnswerAssumption, BoundAssumption DEF DataTypeOK, Crash, remoteVars, metaVars,
           Contents, UploadPC, DownPC
  <2>5. meta' \in {"none", "pending", "synced"} /\ tag' \in Contents
    BY <1>14, AnswerAssumption, BoundAssumption DEF DataTypeOK, Crash, remoteVars, metaVars,
           Contents, UploadPC, DownPC
  <2>6. upc' \in UploadPC
    BY <1>14, AnswerAssumption, BoundAssumption DEF DataTypeOK, Crash, remoteVars, metaVars,
           Contents, UploadPC, DownPC
  <2>7. usnap' \in Contents
    BY <1>14, AnswerAssumption, BoundAssumption DEF DataTypeOK, Crash, remoteVars, metaVars,
           Contents, UploadPC, DownPC
  <2>8. hpc' \in {"idle", "object", "remove"} /\ epc' \in {"idle", "remove"}
    BY <1>14, AnswerAssumption, BoundAssumption DEF DataTypeOK, Crash, remoteVars, metaVars,
           Contents, UploadPC, DownPC
  <2>9. dpc' \in [Downloads -> DownPC]
    BY <1>14, AnswerAssumption, BoundAssumption DEF DataTypeOK, Crash, remoteVars, metaVars,
           Contents, UploadPC, DownPC
  <2>10. head' \in [Downloads -> Contents \cup {NotFound, NoAnswer}]
    BY <1>14, AnswerAssumption, BoundAssumption DEF DataTypeOK, Crash, remoteVars, metaVars,
           Contents, UploadPC, DownPC
  <2>11. got' \in [Downloads -> Contents]
    BY <1>14, AnswerAssumption, BoundAssumption DEF DataTypeOK, Crash, remoteVars, metaVars,
           Contents, UploadPC, DownPC
  <2>12. since' \in [Downloads -> SUBSET Contents]
    BY <1>14, AnswerAssumption, BoundAssumption DEF DataTypeOK, Crash, remoteVars, metaVars,
           Contents, UploadPC, DownPC
  <2>13. QED BY <2>1, <2>2, <2>3, <2>4, <2>5, <2>6, <2>7, <2>8, <2>9, <2>10, <2>11, <2>12 DEF DataTypeOK
<1>15. CASE Start
  BY <1>15, AnswerAssumption, BoundAssumption DEF DataTypeOK, FlagTypeOK, TagKnown, Start,
         Covers, Markable, WriteMeta, Describes, SameSize, metaVars, remoteVars, uploadVars,
         downVars, Contents, UploadPC, DownPC
<1>16. CASE \E d \in Downloads : Download(d)
  <2>0. PICK d \in Downloads : Download(d)
    BY <1>16
  <2>1. CASE DownloadHead(d)
    BY <2>1, AnswerAssumption, BoundAssumption DEF DataTypeOK, FlagTypeOK, TagKnown,
           DownloadHead, At, procVars, fileVars, metaVars, remoteVars, watchVars,
           uploadVars, Contents, UploadPC, DownPC
  <2>2. CASE DownloadLook(d)
    BY <2>2, AnswerAssumption, BoundAssumption DEF DataTypeOK, FlagTypeOK, TagKnown,
           DownloadLook, At, Go, Authoritative, LocalWins, Answer, LocalInSync, SameSize,
           procVars, fileVars, metaVars, remoteVars, uploadVars, Contents, UploadPC, DownPC
  <2>3. CASE DownloadBackfill(d)
    BY <2>3, AnswerAssumption, BoundAssumption DEF DataTypeOK, FlagTypeOK, TagKnown,
           DownloadBackfill, At, Answer, Go, WriteMeta, Describes, SameSize, procVars,
           remoteVars, watchVars, uploadVars, Contents, UploadPC, DownPC
  <2>4. CASE DownloadPurge(d)
    BY <2>4, AnswerAssumption, BoundAssumption DEF DataTypeOK, FlagTypeOK, TagKnown,
           DownloadPurge, At, Answer, Go, WriteFile, DropMeta, procVars, remoteVars,
           watchVars, Contents, UploadPC, DownPC
  <2>5. CASE DownloadCompare(d)
    BY <2>5, AnswerAssumption, BoundAssumption DEF DataTypeOK, FlagTypeOK, TagKnown,
           DownloadCompare, At, Go, IsStale, procVars, fileVars, metaVars, remoteVars,
           watchVars, uploadVars, Contents, UploadPC, DownPC
  <2>6. CASE DownloadInvalidate(d)
    BY <2>6, AnswerAssumption, BoundAssumption DEF DataTypeOK, FlagTypeOK, TagKnown,
           DownloadInvalidate, At, Go, WriteFile, DropMeta, procVars, remoteVars, watchVars,
           Contents, UploadPC, DownPC
  <2>7. CASE DownloadFetch(d)
    BY <2>7, AnswerAssumption, BoundAssumption DEF DataTypeOK, FlagTypeOK, TagKnown,
           DownloadFetch, At, Go, Answer, procVars, fileVars, metaVars, remoteVars,
           watchVars, uploadVars, Contents, UploadPC, DownPC
  <2>8. CASE DownloadTransfer(d)
    BY <2>8, AnswerAssumption, BoundAssumption DEF DataTypeOK, FlagTypeOK, TagKnown,
           DownloadTransfer, At, Go, Answer, procVars, fileVars, metaVars, remoteVars,
           watchVars, uploadVars, Contents, UploadPC, DownPC
  <2>9. CASE DownloadRename(d)
    BY <2>9, AnswerAssumption, BoundAssumption DEF DataTypeOK, FlagTypeOK, TagKnown,
           DownloadRename, At, Go, procVars, metaVars, remoteVars, Contents, UploadPC,
           DownPC
  <2>10. CASE DownloadStoreMeta(d)
    BY <2>10, AnswerAssumption, BoundAssumption DEF DataTypeOK, FlagTypeOK, TagKnown,
           DownloadStoreMeta, At, Answer, Go, WriteMeta, Describes, SameSize, procVars,
           remoteVars, watchVars, uploadVars, Contents, UploadPC, DownPC
  <2>11. QED
    BY <2>0, <2>1, <2>2, <2>3, <2>4, <2>5, <2>6, <2>7, <2>8, <2>9, <2>10 DEF Download
<1>17. CASE UNCHANGED vars
  BY <1>17 DEF DataTypeOK, FlagTypeOK, TagKnown, vars, procVars, fileVars, metaVars,
         remoteVars, watchVars, uploadVars, downVars
<1>18. QED
  BY <1>1, <1>2, <1>3, <1>4, <1>5, <1>6, <1>7, <1>8, <1>9, <1>10, <1>11, <1>12, <1>13, <1>14,
     <1>15, <1>16, <1>17 DEF Next

(* No step leaves the types of the flags. *)
LEMMA FlagTypeStep ==
  ASSUME DataTypeOK, FlagTypeOK, [Next]_vars
  PROVE  FlagTypeOK'
<1>1. CASE PVEWrite
  BY <1>1, AnswerAssumption, BoundAssumption, FlagAssumption DEF DataTypeOK, FlagTypeOK,
         PVEWrite, Busy, WriteFile, WriteMeta, Describes, SameSize, EpisodeRuns, metaVars,
         remoteVars, watchVars, Contents, UploadPC, DownPC
<1>2. CASE OtherPut
  BY <1>2, AnswerAssumption, BoundAssumption, FlagAssumption DEF DataTypeOK, FlagTypeOK,
         OtherPut, OthersMay, WriteRemote, procVars, metaVars, watchVars, Contents, UploadPC,
         DownPC
<1>3. CASE OtherDelete
  BY <1>3, AnswerAssumption, BoundAssumption, FlagAssumption DEF DataTypeOK, FlagTypeOK,
         OtherDelete, OthersMay, procVars, fileVars, metaVars, watchVars, uploadVars,
         downVars, Contents, UploadPC, DownPC
<1>4. CASE WatcherEvent
  BY <1>4, AnswerAssumption, BoundAssumption, FlagAssumption DEF DataTypeOK, FlagTypeOK,
         WatcherEvent, metaVars, Markable, Covers, MarkPending, WriteMeta, Describes,
         SameSize, procVars, remoteVars, downVars, Contents, UploadPC, DownPC
<1>5. CASE UploadStart
  BY <1>5, AnswerAssumption, BoundAssumption, FlagAssumption DEF DataTypeOK, FlagTypeOK,
         UploadStart, Covers, procVars, fileVars, metaVars, remoteVars, downVars, Contents,
         UploadPC, DownPC
<1>6. CASE UploadHead
  BY <1>6, AnswerAssumption, BoundAssumption, FlagAssumption DEF DataTypeOK, FlagTypeOK,
         UploadHead, metaVars, Markable, Covers, WriteMeta, Describes, SameSize, Unchanged,
         procVars, remoteVars, downVars, Contents, UploadPC, DownPC
<1>7. CASE UploadPut
  BY <1>7, AnswerAssumption, BoundAssumption, FlagAssumption DEF DataTypeOK, FlagTypeOK,
         UploadPut, WriteRemote, remoteVars, procVars, metaVars, Contents, UploadPC, DownPC
<1>8. CASE UploadRecord
  BY <1>8, AnswerAssumption, BoundAssumption, FlagAssumption DEF DataTypeOK, FlagTypeOK,
         UploadRecord, metaVars, Unchanged, WriteMeta, Describes, SameSize, MarkPending,
         Markable, Covers, procVars, remoteVars, watchVars, downVars, Contents, UploadPC,
         DownPC
<1>9. CASE DeleteBlock
  BY <1>9, AnswerAssumption, BoundAssumption, FlagAssumption DEF DataTypeOK, FlagTypeOK,
         DeleteBlock, procVars, fileVars, metaVars, remoteVars, watchVars, downVars, Contents,
         UploadPC, DownPC
<1>10. CASE DeleteObject
  BY <1>10, AnswerAssumption, BoundAssumption, FlagAssumption DEF DataTypeOK, FlagTypeOK,
         DeleteObject, procVars, fileVars, metaVars, watchVars, uploadVars, downVars,
         Contents, UploadPC, DownPC
<1>11. CASE DeleteRemove
  BY <1>11, AnswerAssumption, BoundAssumption, FlagAssumption DEF DataTypeOK, FlagTypeOK,
         DeleteRemove, WriteFile, DropMeta, procVars, remoteVars, watchVars, Contents,
         UploadPC, DownPC
<1>12. CASE EvictCheck
  BY <1>12, AnswerAssumption, BoundAssumption, FlagAssumption DEF DataTypeOK, FlagTypeOK,
         EvictCheck, Evictable, procVars, fileVars, metaVars, remoteVars, watchVars,
         uploadVars, downVars, Contents, UploadPC, DownPC
<1>13. CASE EvictRemove
  BY <1>13, AnswerAssumption, BoundAssumption, FlagAssumption DEF DataTypeOK, FlagTypeOK,
         EvictRemove, WriteFile, DropMeta, procVars, remoteVars, watchVars, Contents,
         UploadPC, DownPC
<1>14. CASE Crash
  BY <1>14, AnswerAssumption, BoundAssumption, FlagAssumption DEF DataTypeOK, FlagTypeOK,
         Crash, remoteVars, metaVars, Contents, UploadPC, DownPC
<1>15. CASE Start
  BY <1>15, AnswerAssumption, BoundAssumption, FlagAssumption DEF DataTypeOK, FlagTypeOK,
         Start, Covers, Markable, WriteMeta, Describes, SameSize, metaVars, remoteVars,
         uploadVars, downVars, Contents, UploadPC, DownPC
<1>16. CASE \E d \in Downloads : Download(d)
  <2>0. PICK d \in Downloads : Download(d)
    BY <1>16
  <2>1. CASE DownloadHead(d)
    BY <2>1, AnswerAssumption, BoundAssumption, FlagAssumption DEF DataTypeOK, FlagTypeOK,
           DownloadHead, At, procVars, fileVars, metaVars, remoteVars, watchVars,
           uploadVars, Contents, UploadPC, DownPC
  <2>2. CASE DownloadLook(d)
    BY <2>2, AnswerAssumption, BoundAssumption, FlagAssumption DEF DataTypeOK, FlagTypeOK,
           DownloadLook, At, Go, Authoritative, LocalWins, Answer, LocalInSync, SameSize,
           procVars, fileVars, metaVars, remoteVars, uploadVars, Contents, UploadPC, DownPC
  <2>3. CASE DownloadBackfill(d)
    BY <2>3, AnswerAssumption, BoundAssumption, FlagAssumption DEF DataTypeOK, FlagTypeOK,
           DownloadBackfill, At, Answer, Go, WriteMeta, Describes, SameSize, procVars,
           remoteVars, watchVars, uploadVars, Contents, UploadPC, DownPC
  <2>4. CASE DownloadPurge(d)
    BY <2>4, AnswerAssumption, BoundAssumption, FlagAssumption DEF DataTypeOK, FlagTypeOK,
           DownloadPurge, At, Answer, Go, WriteFile, DropMeta, procVars, remoteVars,
           watchVars, Contents, UploadPC, DownPC
  <2>5. CASE DownloadCompare(d)
    BY <2>5, AnswerAssumption, BoundAssumption, FlagAssumption DEF DataTypeOK, FlagTypeOK,
           DownloadCompare, At, Go, IsStale, procVars, fileVars, metaVars, remoteVars,
           watchVars, uploadVars, Contents, UploadPC, DownPC
  <2>6. CASE DownloadInvalidate(d)
    BY <2>6, AnswerAssumption, BoundAssumption, FlagAssumption DEF DataTypeOK, FlagTypeOK,
           DownloadInvalidate, At, Go, WriteFile, DropMeta, procVars, remoteVars, watchVars,
           Contents, UploadPC, DownPC
  <2>7. CASE DownloadFetch(d)
    BY <2>7, AnswerAssumption, BoundAssumption, FlagAssumption DEF DataTypeOK, FlagTypeOK,
           DownloadFetch, At, Go, Answer, procVars, fileVars, metaVars, remoteVars,
           watchVars, uploadVars, Contents, UploadPC, DownPC
  <2>8. CASE DownloadTransfer(d)
    BY <2>8, AnswerAssumption, BoundAssumption, FlagAssumption DEF DataTypeOK, FlagTypeOK,
           DownloadTransfer, At, Go, Answer, procVars, fileVars, metaVars, remoteVars,
           watchVars, uploadVars, Contents, UploadPC, DownPC
  <2>9. CASE DownloadRename(d)
    BY <2>9, AnswerAssumption, BoundAssumption, FlagAssumption DEF DataTypeOK, FlagTypeOK,
           DownloadRename, At, Go, procVars, metaVars, remoteVars, Contents, UploadPC,
           DownPC
  <2>10. CASE DownloadStoreMeta(d)
    BY <2>10, AnswerAssumption, BoundAssumption, FlagAssumption DEF DataTypeOK, FlagTypeOK,
           DownloadStoreMeta, At, Answer, Go, WriteMeta, Describes, SameSize, procVars,
           remoteVars, watchVars, uploadVars, Contents, UploadPC, DownPC
  <2>11. QED
    BY <2>0, <2>1, <2>2, <2>3, <2>4, <2>5, <2>6, <2>7, <2>8, <2>9, <2>10 DEF Download
<1>17. CASE UNCHANGED vars
  BY <1>17 DEF DataTypeOK, FlagTypeOK, vars, procVars, fileVars, metaVars, remoteVars,
         watchVars, uploadVars, downVars
<1>18. QED
  BY <1>1, <1>2, <1>3, <1>4, <1>5, <1>6, <1>7, <1>8, <1>9, <1>10, <1>11, <1>12, <1>13, <1>14,
     <1>15, <1>16, <1>17 DEF Next

(* A download whose HEAD failed never gets to where the ETag is used. *)
LEMMA TagKnownStep ==
  ASSUME DataTypeOK, TagKnown, [Next]_vars
  PROVE  TagKnown'
<1>1. CASE PVEWrite
  BY <1>1, AnswerAssumption, BoundAssumption DEF DataTypeOK, TagKnown, PVEWrite, Busy,
         WriteFile, WriteMeta, Describes, SameSize, metaVars, remoteVars, Contents, UploadPC,
         DownPC
<1>2. CASE OtherPut
  BY <1>2, AnswerAssumption, BoundAssumption DEF DataTypeOK, TagKnown, OtherPut, OthersMay,
         WriteRemote, procVars, metaVars, watchVars, Contents, UploadPC, DownPC
<1>3. CASE OtherDelete
  BY <1>3, AnswerAssumption, BoundAssumption DEF DataTypeOK, TagKnown, OtherDelete, OthersMay,
         procVars, fileVars, metaVars, watchVars, uploadVars, downVars, Contents, UploadPC,
         DownPC
<1>4. CASE WatcherEvent
  BY <1>4, AnswerAssumption, BoundAssumption DEF DataTypeOK, TagKnown, WatcherEvent, metaVars,
         Markable, Covers, MarkPending, WriteMeta, Describes, SameSize, procVars, remoteVars,
         downVars, Contents, UploadPC, DownPC
<1>5. CASE UploadStart
  BY <1>5, AnswerAssumption, BoundAssumption DEF DataTypeOK, TagKnown, UploadStart, Covers,
         procVars, fileVars, metaVars, remoteVars, downVars, Contents, UploadPC, DownPC
<1>6. CASE UploadHead
  BY <1>6, AnswerAssumption, BoundAssumption DEF DataTypeOK, TagKnown, UploadHead, metaVars,
         Markable, Covers, WriteMeta, Describes, SameSize, Unchanged, procVars, remoteVars,
         downVars, Contents, UploadPC, DownPC
<1>7. CASE UploadPut
  BY <1>7, AnswerAssumption, BoundAssumption DEF DataTypeOK, TagKnown, UploadPut, WriteRemote,
         remoteVars, procVars, metaVars, Contents, UploadPC, DownPC
<1>8. CASE UploadRecord
  BY <1>8, AnswerAssumption, BoundAssumption DEF DataTypeOK, TagKnown, UploadRecord, metaVars,
         Unchanged, WriteMeta, Describes, SameSize, MarkPending, Markable, Covers, procVars,
         remoteVars, watchVars, downVars, Contents, UploadPC, DownPC
<1>9. CASE DeleteBlock
  BY <1>9, AnswerAssumption, BoundAssumption DEF DataTypeOK, TagKnown, DeleteBlock, procVars,
         fileVars, metaVars, remoteVars, watchVars, downVars, Contents, UploadPC, DownPC
<1>10. CASE DeleteObject
  BY <1>10, AnswerAssumption, BoundAssumption DEF DataTypeOK, TagKnown, DeleteObject,
         procVars, fileVars, metaVars, watchVars, uploadVars, downVars, Contents, UploadPC,
         DownPC
<1>11. CASE DeleteRemove
  BY <1>11, AnswerAssumption, BoundAssumption DEF DataTypeOK, TagKnown, DeleteRemove,
         WriteFile, DropMeta, procVars, remoteVars, watchVars, Contents, UploadPC, DownPC
<1>12. CASE EvictCheck
  BY <1>12, AnswerAssumption, BoundAssumption DEF DataTypeOK, TagKnown, EvictCheck, Evictable,
         procVars, fileVars, metaVars, remoteVars, watchVars, uploadVars, downVars, Contents,
         UploadPC, DownPC
<1>13. CASE EvictRemove
  BY <1>13, AnswerAssumption, BoundAssumption DEF DataTypeOK, TagKnown, EvictRemove,
         WriteFile, DropMeta, procVars, remoteVars, watchVars, Contents, UploadPC, DownPC
<1>14. CASE Crash
  BY <1>14, AnswerAssumption, BoundAssumption DEF DataTypeOK, TagKnown, Crash, remoteVars,
         metaVars, Contents, UploadPC, DownPC
<1>15. CASE Start
  BY <1>15, AnswerAssumption, BoundAssumption DEF DataTypeOK, TagKnown, Start, Covers,
         Markable, WriteMeta, Describes, SameSize, metaVars, remoteVars, uploadVars, downVars,
         Contents, UploadPC, DownPC
<1>16. CASE \E d \in Downloads : Download(d)
  <2>0. PICK d \in Downloads : Download(d)
    BY <1>16
  <2>1. CASE DownloadHead(d)
    BY <2>1, AnswerAssumption, BoundAssumption DEF DataTypeOK, TagKnown, DownloadHead, At,
           procVars, fileVars, metaVars, remoteVars, watchVars, uploadVars, Contents,
           UploadPC, DownPC
  <2>2. CASE DownloadLook(d)
    BY <2>2, AnswerAssumption, BoundAssumption DEF DataTypeOK, TagKnown, DownloadLook, At,
           Go, Authoritative, LocalWins, Answer, LocalInSync, SameSize, procVars, fileVars,
           metaVars, remoteVars, uploadVars, Contents, UploadPC, DownPC
  <2>3. CASE DownloadBackfill(d)
    BY <2>3, AnswerAssumption, BoundAssumption DEF DataTypeOK, TagKnown, DownloadBackfill,
           At, Answer, Go, WriteMeta, Describes, SameSize, procVars, remoteVars, watchVars,
           uploadVars, Contents, UploadPC, DownPC
  <2>4. CASE DownloadPurge(d)
    BY <2>4, AnswerAssumption, BoundAssumption DEF DataTypeOK, TagKnown, DownloadPurge, At,
           Answer, Go, WriteFile, DropMeta, procVars, remoteVars, watchVars, Contents,
           UploadPC, DownPC
  <2>5. CASE DownloadCompare(d)
    BY <2>5, AnswerAssumption, BoundAssumption DEF DataTypeOK, TagKnown, DownloadCompare,
           At, Go, IsStale, procVars, fileVars, metaVars, remoteVars, watchVars, uploadVars,
           Contents, UploadPC, DownPC
  <2>6. CASE DownloadInvalidate(d)
    BY <2>6, AnswerAssumption, BoundAssumption DEF DataTypeOK, TagKnown, DownloadInvalidate,
           At, Go, WriteFile, DropMeta, procVars, remoteVars, watchVars, Contents, UploadPC,
           DownPC
  <2>7. CASE DownloadFetch(d)
    BY <2>7, AnswerAssumption, BoundAssumption DEF DataTypeOK, TagKnown, DownloadFetch, At,
           Go, Answer, procVars, fileVars, metaVars, remoteVars, watchVars, uploadVars,
           Contents, UploadPC, DownPC
  <2>8. CASE DownloadTransfer(d)
    BY <2>8, AnswerAssumption, BoundAssumption DEF DataTypeOK, TagKnown, DownloadTransfer,
           At, Go, Answer, procVars, fileVars, metaVars, remoteVars, watchVars, uploadVars,
           Contents, UploadPC, DownPC
  <2>9. CASE DownloadRename(d)
    BY <2>9, AnswerAssumption, BoundAssumption DEF DataTypeOK, TagKnown, DownloadRename, At,
           Go, procVars, metaVars, remoteVars, Contents, UploadPC, DownPC
  <2>10. CASE DownloadStoreMeta(d)
    BY <2>10, AnswerAssumption, BoundAssumption DEF DataTypeOK, TagKnown, DownloadStoreMeta,
           At, Answer, Go, WriteMeta, Describes, SameSize, procVars, remoteVars, watchVars,
           uploadVars, Contents, UploadPC, DownPC
  <2>11. QED
    BY <2>0, <2>1, <2>2, <2>3, <2>4, <2>5, <2>6, <2>7, <2>8, <2>9, <2>10 DEF Download
<1>17. CASE UNCHANGED vars
  BY <1>17 DEF DataTypeOK, TagKnown, vars, procVars, fileVars, metaVars, remoteVars,
         watchVars, uploadVars, downVars
<1>18. QED
  BY <1>1, <1>2, <1>3, <1>4, <1>5, <1>6, <1>7, <1>8, <1>9, <1>10, <1>11, <1>12, <1>13, <1>14,
     <1>15, <1>16, <1>17 DEF Next

(* Every step keeps what uploads and downloads remember right. *)
LEMMA SnapshotsStep ==
  ASSUME TypeOK, TypeOK', SnapshotsMatch, [Next]_vars
  PROVE  SnapshotsMatch'
<1>1. CASE PVEWrite
  BY <1>1, AnswerAssumption, BoundAssumption DEF TypeOK, DataTypeOK, FlagTypeOK,
         SnapshotsMatch, PVEWrite, Busy, WriteFile, WriteMeta, Describes, SameSize, metaVars,
         remoteVars, Contents, UploadPC, DownPC
<1>2. CASE OtherPut
  BY <1>2, AnswerAssumption, BoundAssumption DEF TypeOK, DataTypeOK, FlagTypeOK,
         SnapshotsMatch, OtherPut, OthersMay, WriteRemote, procVars, metaVars, watchVars,
         Contents, UploadPC, DownPC
<1>3. CASE OtherDelete
  BY <1>3, AnswerAssumption, BoundAssumption DEF TypeOK, DataTypeOK, FlagTypeOK,
         SnapshotsMatch, OtherDelete, OthersMay, procVars, fileVars, metaVars, watchVars,
         uploadVars, downVars, Contents, UploadPC, DownPC
<1>4. CASE WatcherEvent
  BY <1>4, AnswerAssumption, BoundAssumption DEF TypeOK, DataTypeOK, FlagTypeOK,
         SnapshotsMatch, WatcherEvent, metaVars, Markable, Covers, MarkPending, WriteMeta,
         Describes, SameSize, procVars, remoteVars, downVars, Contents, UploadPC, DownPC
<1>5. CASE UploadStart
  BY <1>5, AnswerAssumption, BoundAssumption DEF TypeOK, DataTypeOK, FlagTypeOK,
         SnapshotsMatch, UploadStart, Covers, procVars, fileVars, metaVars, remoteVars,
         downVars, Contents, UploadPC, DownPC
<1>6. CASE UploadHead
  BY <1>6, AnswerAssumption, BoundAssumption DEF TypeOK, DataTypeOK, FlagTypeOK,
         SnapshotsMatch, UploadHead, metaVars, Markable, Covers, WriteMeta, Describes,
         SameSize, Unchanged, procVars, remoteVars, downVars, Contents, UploadPC, DownPC
<1>7. CASE UploadPut
  BY <1>7, AnswerAssumption, BoundAssumption DEF TypeOK, DataTypeOK, FlagTypeOK,
         SnapshotsMatch, UploadPut, WriteRemote, remoteVars, procVars, metaVars, Contents,
         UploadPC, DownPC
<1>8. CASE UploadRecord
  BY <1>8, AnswerAssumption, BoundAssumption DEF TypeOK, DataTypeOK, FlagTypeOK,
         SnapshotsMatch, UploadRecord, metaVars, Unchanged, WriteMeta, Describes, SameSize,
         MarkPending, Markable, Covers, procVars, remoteVars, watchVars, downVars, Contents,
         UploadPC, DownPC
<1>9. CASE DeleteBlock
  BY <1>9, AnswerAssumption, BoundAssumption DEF TypeOK, DataTypeOK, FlagTypeOK,
         SnapshotsMatch, DeleteBlock, procVars, fileVars, metaVars, remoteVars, watchVars,
         downVars, Contents, UploadPC, DownPC
<1>10. CASE DeleteObject
  BY <1>10, AnswerAssumption, BoundAssumption DEF TypeOK, DataTypeOK, FlagTypeOK,
         SnapshotsMatch, DeleteObject, procVars, fileVars, metaVars, watchVars, uploadVars,
         downVars, Contents, UploadPC, DownPC
<1>11. CASE DeleteRemove
  BY <1>11, AnswerAssumption, BoundAssumption DEF TypeOK, DataTypeOK, FlagTypeOK,
         SnapshotsMatch, DeleteRemove, WriteFile, DropMeta, procVars, remoteVars, watchVars,
         Contents, UploadPC, DownPC
<1>12. CASE EvictCheck
  BY <1>12, AnswerAssumption, BoundAssumption DEF TypeOK, DataTypeOK, FlagTypeOK,
         SnapshotsMatch, EvictCheck, Evictable, procVars, fileVars, metaVars, remoteVars,
         watchVars, uploadVars, downVars, Contents, UploadPC, DownPC
<1>13. CASE EvictRemove
  BY <1>13, AnswerAssumption, BoundAssumption DEF TypeOK, DataTypeOK, FlagTypeOK,
         SnapshotsMatch, EvictRemove, WriteFile, DropMeta, procVars, remoteVars, watchVars,
         Contents, UploadPC, DownPC
<1>14. CASE Crash
  <2>1. upc' = "idle" /\ got' = [d \in Downloads |-> 0] /\ head' = [d \in Downloads |-> NoAnswer]
    BY <1>14 DEF Crash
  <2>2. remote' # 0 => remote' \in stored'
    BY <1>14 DEF SnapshotsMatch, Crash, remoteVars
  <2>3. QED
    BY <2>1, <2>2, AnswerAssumption, BoundAssumption DEF SnapshotsMatch, Contents
<1>15. CASE Start
  BY <1>15, AnswerAssumption, BoundAssumption DEF TypeOK, DataTypeOK, FlagTypeOK,
         SnapshotsMatch, Start, Covers, Markable, WriteMeta, Describes, SameSize, metaVars,
         remoteVars, uploadVars, downVars, Contents, UploadPC, DownPC
<1>16. CASE \E d \in Downloads : Download(d)
  <2>0. PICK d \in Downloads : Download(d)
    BY <1>16
  <2>1. CASE DownloadHead(d)
    BY <2>1, AnswerAssumption, BoundAssumption DEF TypeOK, DataTypeOK, FlagTypeOK,
           SnapshotsMatch, DownloadHead, At, procVars, fileVars, metaVars, remoteVars,
           watchVars, uploadVars, Contents, UploadPC, DownPC
  <2>2. CASE DownloadLook(d)
    BY <2>2, AnswerAssumption, BoundAssumption DEF TypeOK, DataTypeOK, FlagTypeOK,
           SnapshotsMatch, DownloadLook, At, Go, Authoritative, LocalWins, Answer,
           LocalInSync, SameSize, procVars, fileVars, metaVars, remoteVars, uploadVars,
           Contents, UploadPC, DownPC
  <2>3. CASE DownloadBackfill(d)
    BY <2>3, AnswerAssumption, BoundAssumption DEF TypeOK, DataTypeOK, FlagTypeOK,
           SnapshotsMatch, DownloadBackfill, At, Answer, Go, WriteMeta, Describes, SameSize,
           procVars, remoteVars, watchVars, uploadVars, Contents, UploadPC, DownPC
  <2>4. CASE DownloadPurge(d)
    BY <2>4, AnswerAssumption, BoundAssumption DEF TypeOK, DataTypeOK, FlagTypeOK,
           SnapshotsMatch, DownloadPurge, At, Answer, Go, WriteFile, DropMeta, procVars,
           remoteVars, watchVars, Contents, UploadPC, DownPC
  <2>5. CASE DownloadCompare(d)
    BY <2>5, AnswerAssumption, BoundAssumption DEF TypeOK, DataTypeOK, FlagTypeOK,
           SnapshotsMatch, DownloadCompare, At, Go, IsStale, procVars, fileVars, metaVars,
           remoteVars, watchVars, uploadVars, Contents, UploadPC, DownPC
  <2>6. CASE DownloadInvalidate(d)
    BY <2>6, AnswerAssumption, BoundAssumption DEF TypeOK, DataTypeOK, FlagTypeOK,
           SnapshotsMatch, DownloadInvalidate, At, Go, WriteFile, DropMeta, procVars,
           remoteVars, watchVars, Contents, UploadPC, DownPC
  <2>7. CASE DownloadFetch(d)
    BY <2>7, AnswerAssumption, BoundAssumption DEF TypeOK, DataTypeOK, FlagTypeOK,
           SnapshotsMatch, DownloadFetch, At, Go, Answer, procVars, fileVars, metaVars,
           remoteVars, watchVars, uploadVars, Contents, UploadPC, DownPC
  <2>8. CASE DownloadTransfer(d)
    BY <2>8, AnswerAssumption, BoundAssumption DEF TypeOK, DataTypeOK, FlagTypeOK,
           SnapshotsMatch, DownloadTransfer, At, Go, Answer, procVars, fileVars, metaVars,
           remoteVars, watchVars, uploadVars, Contents, UploadPC, DownPC
  <2>9. CASE DownloadRename(d)
    BY <2>9, AnswerAssumption, BoundAssumption DEF TypeOK, DataTypeOK, FlagTypeOK,
           SnapshotsMatch, DownloadRename, At, Go, procVars, metaVars, remoteVars, Contents,
           UploadPC, DownPC
  <2>10. CASE DownloadStoreMeta(d)
    BY <2>10, AnswerAssumption, BoundAssumption DEF TypeOK, DataTypeOK, FlagTypeOK,
           SnapshotsMatch, DownloadStoreMeta, At, Answer, Go, WriteMeta, Describes,
           SameSize, procVars, remoteVars, watchVars, uploadVars, Contents, UploadPC, DownPC
  <2>11. QED
    BY <2>0, <2>1, <2>2, <2>3, <2>4, <2>5, <2>6, <2>7, <2>8, <2>9, <2>10 DEF Download
<1>17. CASE UNCHANGED vars
  BY <1>17 DEF TypeOK, DataTypeOK, FlagTypeOK, SnapshotsMatch, vars, procVars, fileVars,
         metaVars, remoteVars, watchVars, uploadVars, downVars
<1>18. QED
  BY <1>1, <1>2, <1>3, <1>4, <1>5, <1>6, <1>7, <1>8, <1>9, <1>10, <1>11, <1>12, <1>13, <1>14,
     <1>15, <1>16, <1>17 DEF Next

(* Whoever records an ETag for the file knows that S3 has had its content. *)
LEMMA SyncedStep ==
  ASSUME ~FixedSize, TypeOK, SnapshotsMatch, SyncedWasStored, [Next]_vars
  PROVE  SyncedWasStored'
<1>1. CASE PVEWrite
  BY <1>1, AnswerAssumption, BoundAssumption DEF TypeOK, DataTypeOK, FlagTypeOK,
         SnapshotsMatch, SyncedWasStored, Covers, PVEWrite, Busy, WriteFile, WriteMeta,
         Describes, SameSize, metaVars, remoteVars, Contents, UploadPC, DownPC
<1>2. CASE OtherPut
  BY <1>2, AnswerAssumption, BoundAssumption DEF TypeOK, DataTypeOK, FlagTypeOK,
         SnapshotsMatch, SyncedWasStored, Covers, OtherPut, OthersMay, WriteRemote, procVars,
         metaVars, watchVars, Contents, UploadPC, DownPC
<1>3. CASE OtherDelete
  BY <1>3, AnswerAssumption, BoundAssumption DEF TypeOK, DataTypeOK, FlagTypeOK,
         SnapshotsMatch, SyncedWasStored, Covers, OtherDelete, OthersMay, procVars, fileVars,
         metaVars, watchVars, uploadVars, downVars, Contents, UploadPC, DownPC
<1>4. CASE WatcherEvent
  BY <1>4, AnswerAssumption, BoundAssumption DEF TypeOK, DataTypeOK, FlagTypeOK,
         SnapshotsMatch, SyncedWasStored, Covers, WatcherEvent, metaVars, Markable,
         MarkPending, WriteMeta, Describes, SameSize, procVars, remoteVars, downVars,
         Contents, UploadPC, DownPC
<1>5. CASE UploadStart
  BY <1>5, AnswerAssumption, BoundAssumption DEF TypeOK, DataTypeOK, FlagTypeOK,
         SnapshotsMatch, SyncedWasStored, Covers, UploadStart, procVars, fileVars, metaVars,
         remoteVars, downVars, Contents, UploadPC, DownPC
<1>6. CASE UploadHead
  BY <1>6, AnswerAssumption, BoundAssumption DEF TypeOK, DataTypeOK, FlagTypeOK,
         SnapshotsMatch, SyncedWasStored, Covers, UploadHead, metaVars, Markable, WriteMeta,
         Describes, SameSize, Unchanged, procVars, remoteVars, downVars, Contents, UploadPC,
         DownPC
<1>7. CASE UploadPut
  BY <1>7, AnswerAssumption, BoundAssumption DEF TypeOK, DataTypeOK, FlagTypeOK,
         SnapshotsMatch, SyncedWasStored, Covers, UploadPut, WriteRemote, remoteVars,
         procVars, metaVars, Contents, UploadPC, DownPC
<1>8. CASE UploadRecord
  BY <1>8, AnswerAssumption, BoundAssumption DEF TypeOK, DataTypeOK, FlagTypeOK,
         SnapshotsMatch, SyncedWasStored, Covers, UploadRecord, metaVars, Unchanged,
         WriteMeta, Describes, SameSize, MarkPending, Markable, procVars, remoteVars,
         watchVars, downVars, Contents, UploadPC, DownPC
<1>9. CASE DeleteBlock
  BY <1>9, AnswerAssumption, BoundAssumption DEF TypeOK, DataTypeOK, FlagTypeOK,
         SnapshotsMatch, SyncedWasStored, Covers, DeleteBlock, procVars, fileVars, metaVars,
         remoteVars, watchVars, downVars, Contents, UploadPC, DownPC
<1>10. CASE DeleteObject
  BY <1>10, AnswerAssumption, BoundAssumption DEF TypeOK, DataTypeOK, FlagTypeOK,
         SnapshotsMatch, SyncedWasStored, Covers, DeleteObject, procVars, fileVars, metaVars,
         watchVars, uploadVars, downVars, Contents, UploadPC, DownPC
<1>11. CASE DeleteRemove
  BY <1>11, AnswerAssumption, BoundAssumption DEF TypeOK, DataTypeOK, FlagTypeOK,
         SnapshotsMatch, SyncedWasStored, Covers, DeleteRemove, WriteFile, DropMeta, procVars,
         remoteVars, watchVars, Contents, UploadPC, DownPC
<1>12. CASE EvictCheck
  BY <1>12, AnswerAssumption, BoundAssumption DEF TypeOK, DataTypeOK, FlagTypeOK,
         SnapshotsMatch, SyncedWasStored, Covers, EvictCheck, Evictable, procVars, fileVars,
         metaVars, remoteVars, watchVars, uploadVars, downVars, Contents, UploadPC, DownPC
<1>13. CASE EvictRemove
  BY <1>13, AnswerAssumption, BoundAssumption DEF TypeOK, DataTypeOK, FlagTypeOK,
         SnapshotsMatch, SyncedWasStored, Covers, EvictRemove, WriteFile, DropMeta, procVars,
         remoteVars, watchVars, Contents, UploadPC, DownPC
<1>14. CASE Crash
  BY <1>14, AnswerAssumption, BoundAssumption DEF TypeOK, DataTypeOK, FlagTypeOK,
         SnapshotsMatch, SyncedWasStored, Covers, Crash, remoteVars, metaVars, Contents,
         UploadPC, DownPC
<1>15. CASE Start
  BY <1>15, AnswerAssumption, BoundAssumption DEF TypeOK, DataTypeOK, FlagTypeOK,
         SnapshotsMatch, SyncedWasStored, Covers, Start, Markable, WriteMeta, Describes,
         SameSize, metaVars, remoteVars, uploadVars, downVars, Contents, UploadPC, DownPC
<1>16. CASE \E d \in Downloads : Download(d)
  <2>0. PICK d \in Downloads : Download(d)
    BY <1>16
  <2>1. CASE DownloadHead(d)
    BY <2>1, AnswerAssumption, BoundAssumption DEF TypeOK, DataTypeOK, FlagTypeOK,
           SnapshotsMatch, SyncedWasStored, Covers, DownloadHead, At, procVars, fileVars,
           metaVars, remoteVars, watchVars, uploadVars, Contents, UploadPC, DownPC
  <2>2. CASE DownloadLook(d)
    BY <2>2, AnswerAssumption, BoundAssumption DEF TypeOK, DataTypeOK, FlagTypeOK,
           SnapshotsMatch, SyncedWasStored, Covers, DownloadLook, At, Go, Authoritative,
           LocalWins, Answer, LocalInSync, SameSize, procVars, fileVars, metaVars,
           remoteVars, uploadVars, Contents, UploadPC, DownPC
  <2>3. CASE DownloadBackfill(d)
    BY <2>3, AnswerAssumption, BoundAssumption DEF TypeOK, DataTypeOK, FlagTypeOK,
           SnapshotsMatch, SyncedWasStored, Covers, DownloadBackfill, At, Answer, Go,
           WriteMeta, Describes, SameSize, procVars, remoteVars, watchVars, uploadVars,
           Contents, UploadPC, DownPC
  <2>4. CASE DownloadPurge(d)
    BY <2>4, AnswerAssumption, BoundAssumption DEF TypeOK, DataTypeOK, FlagTypeOK,
           SnapshotsMatch, SyncedWasStored, Covers, DownloadPurge, At, Answer, Go,
           WriteFile, DropMeta, procVars, remoteVars, watchVars, Contents, UploadPC, DownPC
  <2>5. CASE DownloadCompare(d)
    BY <2>5, AnswerAssumption, BoundAssumption DEF TypeOK, DataTypeOK, FlagTypeOK,
           SnapshotsMatch, SyncedWasStored, Covers, DownloadCompare, At, Go, IsStale,
           procVars, fileVars, metaVars, remoteVars, watchVars, uploadVars, Contents,
           UploadPC, DownPC
  <2>6. CASE DownloadInvalidate(d)
    BY <2>6, AnswerAssumption, BoundAssumption DEF TypeOK, DataTypeOK, FlagTypeOK,
           SnapshotsMatch, SyncedWasStored, Covers, DownloadInvalidate, At, Go, WriteFile,
           DropMeta, procVars, remoteVars, watchVars, Contents, UploadPC, DownPC
  <2>7. CASE DownloadFetch(d)
    BY <2>7, AnswerAssumption, BoundAssumption DEF TypeOK, DataTypeOK, FlagTypeOK,
           SnapshotsMatch, SyncedWasStored, Covers, DownloadFetch, At, Go, Answer, procVars,
           fileVars, metaVars, remoteVars, watchVars, uploadVars, Contents, UploadPC, DownPC
  <2>8. CASE DownloadTransfer(d)
    BY <2>8, AnswerAssumption, BoundAssumption DEF TypeOK, DataTypeOK, FlagTypeOK,
           SnapshotsMatch, SyncedWasStored, Covers, DownloadTransfer, At, Go, Answer,
           procVars, fileVars, metaVars, remoteVars, watchVars, uploadVars, Contents,
           UploadPC, DownPC
  <2>9. CASE DownloadRename(d)
    BY <2>9, AnswerAssumption, BoundAssumption DEF TypeOK, DataTypeOK, FlagTypeOK,
           SnapshotsMatch, SyncedWasStored, Covers, DownloadRename, At, Go, procVars,
           metaVars, remoteVars, Contents, UploadPC, DownPC
  <2>10. CASE DownloadStoreMeta(d)
    BY <2>10, AnswerAssumption, BoundAssumption DEF TypeOK, DataTypeOK, FlagTypeOK,
           SnapshotsMatch, SyncedWasStored, Covers, DownloadStoreMeta, At, Answer, Go,
           WriteMeta, Describes, SameSize, procVars, remoteVars, watchVars, uploadVars,
           Contents, UploadPC, DownPC
  <2>11. QED
    BY <2>0, <2>1, <2>2, <2>3, <2>4, <2>5, <2>6, <2>7, <2>8, <2>9, <2>10 DEF Download
<1>17. CASE UNCHANGED vars
  BY <1>17 DEF TypeOK, DataTypeOK, FlagTypeOK, SnapshotsMatch, SyncedWasStored, Covers, vars,
         procVars, fileVars, metaVars, remoteVars, watchVars, uploadVars, downVars
<1>18. QED
  BY <1>1, <1>2, <1>3, <1>4, <1>5, <1>6, <1>7, <1>8, <1>9, <1>10, <1>11, <1>12, <1>13, <1>14,
     <1>15, <1>16, <1>17 DEF Next

(* MarkPending, MarkSynced, StoreMeta, Invalidate and Remove, from whichever
   request, evictor or upload they come, keep the metadata, the snapshots and
   the answers of S3 consistent. *)
THEOREM MarksConsistent == Spec => []MarksInv
<1>1. Init => MarksInv
  BY InitMarks
<1>2. MarksInv /\ [Next]_vars => MarksInv'
  <2> SUFFICES ASSUME MarksInv, [Next]_vars PROVE MarksInv'
    OBVIOUS
  <2>1. TypeOK'
    BY DataTypeStep, FlagTypeStep DEF MarksInv, TypeOK
  <2>2. TagKnown'
    BY TagKnownStep DEF MarksInv, TypeOK
  <2>3. SnapshotsMatch'
    BY <2>1, SnapshotsStep DEF MarksInv
  <2>4. ~FixedSize => SyncedWasStored'
    BY SyncedStep DEF MarksInv
  <2>5. QED
    BY <2>1, <2>2, <2>3, <2>4 DEF MarksInv
<1>3. QED
  BY <1>1, <1>2, PTL DEF Spec

(* Unless all files have one size, a file whose metadata covers it and names an
   object has been on S3: what makes a purge, an eviction and a refresh safe. *)
THEOREM SyncedHasBeenStored == ~FixedSize => (Spec => []SyncedWasStored)
<1>1. ASSUME ~FixedSize PROVE MarksInv => SyncedWasStored
  BY <1>1 DEF MarksInv
<1>2. ASSUME ~FixedSize PROVE Spec => []SyncedWasStored
  BY <1>1, <1>2, MarksConsistent, PTL
<1>3. QED
  BY <1>2

-----------------------------------------------------------------------------
(* No write is lost. *)

\* To lose the file as it is would be no loss: S3 has had it, or has something newer and
\* PVE wrote it while the daemon was down; or it is a rewrite that was not marked.
Safe == file \in stored \/ (file # claimed /\ ~newer) \/ Unseen

\* Nothing runs without the daemon.
DownMatch == ~up => upc = "idle" /\ epc = "idle" /\ \A d \in Downloads : dpc[d] = "idle"

\* A write under a running daemon stays marked until S3 has it, if it was marked at all.
ClaimMatch ==
    /\ claimed <= last
    /\ file # 0 /\ file = claimed /\ file \notin stored => meta = "pending" \/ Unseen

\* Who compares times knows of a file that is newer than the object; an upload without
\* metadata knows of a mark.
NewerMatch ==
    /\ \A d \in Downloads : dpc[d] # "idle" /\ newer => dnewer[d]
    /\ upc = "head" /\ usame => (newer => unewer) /\ (meta = "pending" => uremarked)

\* An eviction or a download that may take the file away has found it to be safe.
HoldMatch ==
    file # 0 /\ (epc = "remove" \/ \E d \in Downloads : dpc[d] \notin {"idle", "look"}) => Safe

\* What counts as in sync is safe: for a daemon that starts, if the metadata covers it.
SyncMatch == file # 0 /\ meta = "synced" /\ (up \/ fresh) => Safe

KeepInv == DownMatch /\ ClaimMatch /\ NewerMatch /\ HoldMatch /\ SyncMatch

\* Events are handled at once, and PVE does not write while a request or an eviction runs.
Calm == ~LateMarks /\ ~BusyWrites

(* The invariant holds before the daemon has done anything. *)
LEMMA InitKeep == Init => KeepInv
BY BoundAssumption DEF Init, NoRequest, KeepInv, DownMatch, ClaimMatch, NewerMatch,
       HoldMatch, SyncMatch, Safe, Unseen

(* The writers, the watcher, the uploads, deletes and the evictor keep it. *)
LEMMA KeepOutside ==
    ASSUME Calm, KeepInv, MarksInv, MarksInv',
           PVEWrite \/ OtherPut \/ OtherDelete \/ WatcherEvent \/ UploadStart \/
           UploadHead \/ UploadPut \/ UploadRecord \/ DeleteBlock \/ DeleteObject \/
           DeleteRemove \/ EvictCheck \/ EvictRemove \/ Crash \/ Start
    PROVE  KeepInv'
<1>0. DataTypeOK /\ FlagTypeOK /\ SnapshotsMatch /\ TagKnown
  BY DEF MarksInv, TypeOK
<1> USE AnswerAssumption, BoundAssumption DEF KeepInv, DownMatch, ClaimMatch,
        NewerMatch, HoldMatch, SyncMatch, Safe, Unseen
<1>1. CASE PVEWrite
  BY <1>0, <1>1 DEF PVEWrite, Calm, DataTypeOK, FlagTypeOK, SnapshotsMatch,
         Contents, Busy, WriteFile, WriteMeta, Describes, SameSize, EpisodeRuns, metaVars,
         remoteVars, watchVars
<1>2. CASE OtherPut
  BY <1>0, <1>2 DEF OtherPut, Calm, DataTypeOK, FlagTypeOK, SnapshotsMatch,
         Contents, OthersMay, WriteRemote, procVars, metaVars, watchVars
<1>3. CASE OtherDelete
  BY <1>0, <1>3 DEF OtherDelete, Calm, DataTypeOK, FlagTypeOK, SnapshotsMatch,
         Contents, OthersMay, procVars, fileVars, metaVars, watchVars, uploadVars, downVars
<1>4. CASE WatcherEvent
  BY <1>0, <1>4 DEF WatcherEvent, Calm, DataTypeOK, FlagTypeOK, SnapshotsMatch,
         Contents, metaVars, Markable, Covers, MarkPending, WriteMeta, Describes, SameSize,
         procVars, remoteVars, downVars
<1>5. CASE UploadStart
  BY <1>0, <1>5 DEF UploadStart, Calm, DataTypeOK, FlagTypeOK, SnapshotsMatch,
         Contents, Covers, procVars, fileVars, metaVars, remoteVars, downVars
<1>6. CASE UploadHead
  BY <1>0, <1>6 DEF UploadHead, Calm, DataTypeOK, FlagTypeOK, SnapshotsMatch,
         Contents, metaVars, Markable, Covers, WriteMeta, Describes, SameSize, Unchanged,
         procVars, remoteVars, downVars
<1>7. CASE UploadPut
  BY <1>0, <1>7 DEF UploadPut, Calm, DataTypeOK, FlagTypeOK, SnapshotsMatch,
         Contents, WriteRemote, remoteVars, procVars, metaVars
<1>8. CASE UploadRecord
  BY <1>0, <1>8 DEF UploadRecord, Calm, DataTypeOK, FlagTypeOK, SnapshotsMatch,
         Contents, Unchanged, MarkPending, Markable, Covers, WriteMeta, Describes,
         SameSize, procVars, metaVars, remoteVars, watchVars, downVars
<1>9. CASE DeleteBlock
  BY <1>0, <1>9 DEF DeleteBlock, Calm, DataTypeOK, FlagTypeOK, SnapshotsMatch,
         Contents, procVars, fileVars, metaVars, remoteVars, watchVars, downVars
<1>10. CASE DeleteObject
  BY <1>0, <1>10 DEF DeleteObject, Calm, DataTypeOK, FlagTypeOK, SnapshotsMatch,
         Contents, procVars, fileVars, metaVars, remoteVars, watchVars, uploadVars,
         downVars
<1>11. CASE DeleteRemove
  BY <1>0, <1>11 DEF DeleteRemove, Calm, DataTypeOK, FlagTypeOK, SnapshotsMatch,
         Contents, WriteFile, DropMeta, procVars, remoteVars, watchVars
<1>12. CASE EvictCheck
  BY <1>0, <1>12 DEF EvictCheck, Calm, DataTypeOK, FlagTypeOK, SnapshotsMatch,
         Contents, Evictable, procVars, fileVars, metaVars, remoteVars, watchVars,
         uploadVars, downVars
<1>13. CASE EvictRemove
  BY <1>0, <1>13 DEF EvictRemove, Calm, DataTypeOK, FlagTypeOK, SnapshotsMatch,
         Contents, WriteFile, DropMeta, procVars, remoteVars, watchVars
<1>14. CASE Crash
  BY <1>0, <1>14 DEF Crash, Calm, DataTypeOK, FlagTypeOK, SnapshotsMatch, Contents,
         metaVars, remoteVars
<1>15. CASE Start
  BY <1>0, <1>15 DEF Start, Calm, DataTypeOK, FlagTypeOK, SnapshotsMatch, Contents,
         Markable, Covers, WriteMeta, Describes, SameSize, remoteVars, metaVars,
         uploadVars, downVars
<1> QED
  BY <1>1, <1>2, <1>3, <1>4, <1>5, <1>6, <1>7, <1>8, <1>9, <1>10, <1>11, <1>12, <1>13,
     <1>14, <1>15

(* A download keeps it, at every step and with any number of others running. *)
LEMMA KeepDownload ==
    ASSUME KeepInv, MarksInv, NEW d \in Downloads, Download(d)
    PROVE  KeepInv'
<1>0. DataTypeOK /\ FlagTypeOK /\ SnapshotsMatch /\ TagKnown
  BY DEF MarksInv, TypeOK
<1> USE AnswerAssumption, BoundAssumption DEF KeepInv, DownMatch, ClaimMatch,
        NewerMatch, HoldMatch, SyncMatch, Safe, Unseen
<1>1. CASE DownloadHead(d)
  BY <1>0, <1>1 DEF DownloadHead, DataTypeOK, FlagTypeOK, SnapshotsMatch, TagKnown,
         Contents, procVars, fileVars, metaVars, remoteVars, watchVars, uploadVars
<1>2. CASE DownloadLook(d)
  BY <1>0, <1>2 DEF DownloadLook, DataTypeOK, FlagTypeOK, SnapshotsMatch, TagKnown,
         Contents, Go, Answer, At, Authoritative, LocalWins, LocalInSync, SameSize,
         procVars, fileVars, metaVars, remoteVars, uploadVars
<1>3. CASE DownloadBackfill(d)
  BY <1>0, <1>3 DEF DownloadBackfill, DataTypeOK, FlagTypeOK, SnapshotsMatch,
         TagKnown, Contents, Go, Answer, At, WriteMeta, Describes, SameSize, procVars,
         remoteVars, watchVars, uploadVars
<1>4. CASE DownloadPurge(d)
  BY <1>0, <1>4 DEF DownloadPurge, DataTypeOK, FlagTypeOK, SnapshotsMatch, TagKnown,
         Contents, Go, Answer, At, WriteFile, DropMeta, procVars, remoteVars, watchVars
<1>5. CASE DownloadCompare(d)
  BY <1>0, <1>5 DEF DownloadCompare, DataTypeOK, FlagTypeOK, SnapshotsMatch,
         TagKnown, Contents, Go, At, procVars, fileVars, metaVars, remoteVars, watchVars,
         uploadVars
<1>6. CASE DownloadInvalidate(d)
  BY <1>0, <1>6 DEF DownloadInvalidate, DataTypeOK, FlagTypeOK, SnapshotsMatch,
         TagKnown, Contents, Go, At, WriteFile, DropMeta, procVars, remoteVars, watchVars
<1>7. CASE DownloadFetch(d)
  BY <1>0, <1>7 DEF DownloadFetch, DataTypeOK, FlagTypeOK, SnapshotsMatch, TagKnown,
         Contents, Go, Answer, At, procVars, fileVars, metaVars, remoteVars, watchVars,
         uploadVars
<1>8. CASE DownloadTransfer(d)
  BY <1>0, <1>8 DEF DownloadTransfer, DataTypeOK, FlagTypeOK, SnapshotsMatch,
         TagKnown, Contents, Go, Answer, At, procVars, fileVars, metaVars, remoteVars,
         watchVars, uploadVars
<1>9. CASE DownloadRename(d)
  BY <1>0, <1>9 DEF DownloadRename, DataTypeOK, FlagTypeOK, SnapshotsMatch,
         TagKnown, Contents, Go, At, procVars, metaVars, remoteVars
<1>10. CASE DownloadStoreMeta(d)
  BY <1>0, <1>10 DEF DownloadStoreMeta, DataTypeOK, FlagTypeOK, SnapshotsMatch,
         TagKnown, Contents, Go, Answer, At, WriteMeta, Describes, SameSize, procVars,
         remoteVars, watchVars, uploadVars
<1> QED
  BY <1>1, <1>2, <1>3, <1>4, <1>5, <1>6, <1>7, <1>8, <1>9, <1>10 DEF Download

(* Every step keeps what the daemon knows of a content S3 has never had. *)
LEMMA KeepNext ==
    ASSUME Calm, KeepInv, MarksInv, MarksInv', [Next]_vars
    PROVE  KeepInv'
<1>1. CASE UNCHANGED vars
  BY <1>1 DEF KeepInv, DownMatch, ClaimMatch, NewerMatch, HoldMatch, SyncMatch, Safe, Unseen, vars,
         procVars, fileVars, metaVars, remoteVars, uploadVars, downVars
<1>2. CASE \E d \in Downloads : Download(d)
  BY <1>2, KeepDownload
<1>3. CASE ~(\E d \in Downloads : Download(d)) /\ Next
  BY <1>3, KeepOutside DEF Next
<1> QED
  BY <1>1, <1>2, <1>3

(* Only a purge, a refresh, an eviction and a delete take the file away; all but the
   delete find it safe. *)
LEMMA StepLosesNothing ==
    ASSUME KeepInv, DataTypeOK, [Next]_vars,
           file # 0, file' # file, last' = last, hpc # "remove"
    PROVE  Safe
<1>1. CASE PVEWrite
  BY <1>1, BoundAssumption DEF PVEWrite, DataTypeOK, Contents
<1>2. CASE DeleteRemove
  BY <1>2 DEF DeleteRemove
<1>3. CASE EvictRemove
  BY <1>3 DEF EvictRemove, KeepInv, HoldMatch
<1>4. ASSUME NEW d \in Downloads, Download(d) PROVE Safe
  <2>1. dpc[d] \notin {"idle", "look"}
    BY <1>4 DEF Download, DownloadHead, DownloadLook, DownloadBackfill, DownloadPurge,
           DownloadCompare, DownloadInvalidate, DownloadFetch, DownloadTransfer,
           DownloadRename, DownloadStoreMeta, At, fileVars
  <2>2. QED
    BY <2>1 DEF KeepInv, HoldMatch
<1>5. CASE OtherPut \/ OtherDelete \/ WatcherEvent \/ UploadStart \/ UploadHead
             \/ UploadPut \/ UploadRecord \/ DeleteBlock \/ DeleteObject \/ EvictCheck
             \/ Crash \/ Start \/ UNCHANGED vars
  BY <1>5 DEF OtherPut, OtherDelete, WatcherEvent, UploadStart, UploadHead, UploadPut,
         UploadRecord, DeleteBlock, DeleteObject, EvictCheck, Crash, Start, fileVars, vars
<1> QED
  BY <1>1, <1>2, <1>3, <1>4, <1>5 DEF Next

(* Such files must never be purged or overwritten from S3 (api.go, handleDownload): as
   long as events are handled at once and PVE does not write into a running request, no
   purge, refresh or eviction by age destroys a content S3 has never had, whatever fails,
   whatever the other nodes do, and also if all files have one size; but for a rewrite
   whose event found the path in the debounce map and was not marked. *)
THEOREM LosesNoWrite == ASSUME Calm PROVE Spec => NoLostWrite
<1>1. Init => KeepInv
  BY InitKeep
<1>2. KeepInv /\ MarksInv /\ MarksInv' /\ [Next]_vars => KeepInv'
  BY KeepNext
<1>3. KeepInv /\ MarksInv /\ [Next]_vars =>
        [file # 0 /\ file' # file /\ last' = last /\ hpc # "remove"
            => file \in stored \/ (file # claimed /\ ~newer) \/ Unseen]_vars
  BY StepLosesNothing DEF Safe, MarksInv, TypeOK
<1>4. QED
  BY <1>1, <1>2, <1>3, MarksConsistent, PTL DEF Spec, NoLostWrite

-----------------------------------------------------------------------------
(* A cache hit is current. *)

\* What a content that no longer counts would need to return: S3, the file or a running
\* upload must have it.
Dead(t) == remote # t /\ file # t /\ (upc \in {"head", "put"} => usnap # t)

Recording == \E d \in Downloads : dpc[d] = "storemeta"

\* The file is the last write that was not marked when PVE made it.
Rewritten == file = unmarked

\* Every content anybody remembers was written before.
NumberMatch ==
    /\ file <= last /\ tag <= last /\ usnap <= last /\ unmarked <= last
    /\ \A v \in stored : v <= last
    /\ hpc = "remove" => upc = "idle"

\* The file in each stage of a download and of an eviction.
StageMatch ==
    /\ ~up => upc = "idle" /\ epc = "idle" /\ \A d \in Downloads : dpc[d] = "idle"
    /\ \A d \in Downloads :
          /\ dpc[d] # "idle" => head[d] # 0 /\ (head[d] \in Contents => head[d] \in since[d])
          /\ dpc[d] = "backfill" => file \in {0, head[d]}
          /\ dpc[d] \in {"compare", "invalidate"} /\ file # 0
                => Covers \/ file # head[d] \/ Rewritten
          /\ dpc[d] \in {"fetch", "transfer", "rename"} => file = 0
          /\ dpc[d] = "storemeta" => file \in {0, got[d]} /\ ~usame /\ ~Covers
    /\ epc = "remove" /\ file # 0 => meta = "synced" \/ Recording \/ Rewritten
    /\ up /\ file # 0 /\ meta = "synced" => fresh \/ Recording \/ Rewritten

\* A file that is not the one a running upload has opened was never on S3, or it was
\* downloaded and is recorded.
OpenMatch ==
    upc \in {"head", "put"} /\ file \notin {0, usnap} => file \notin stored \/ Covers \/ Recording

\* The answer of a HEAD is what S3 still has, or nobody can bring it back unnoticed.
AnswerMatch ==
    \A d \in Downloads :
        /\ dpc[d] = "look" /\ upc \in {"head", "put"} /\ usnap = head[d]
              => remote \in {0, head[d]} \/ (file = head[d] /\ meta # "synced")
        /\ dpc[d] \in {"compare", "invalidate", "fetch"} /\ upc \in {"head", "put"}
              => usnap # head[d] \/ remote \in {0, head[d]}
        /\ dpc[d] \in {"look", "compare", "invalidate"} /\ file = head[d] /\ Rewritten /\ ~Covers
              => remote \in {0, head[d]}
        /\ dpc[d] \in {"transfer", "rename", "storemeta"} => got[d] = head[d] \/ Dead(head[d])

\* The recorded ETag is that of the file, or of a content that is gone, or the file is a
\* rewrite nobody marked.
TagMatch ==
    /\ meta # "synced" => tag = 0
    /\ file # 0 /\ meta = "synced" /\ (up \/ fresh) /\ ~Recording =>
          \/ tag \in {0, file}
          \/ Unseen
          \/ /\ Dead(tag)
             /\ \A d \in Downloads : dpc[d] # "idle" => head[d] # tag \/ file \in since[d]

HitInv == NumberMatch /\ StageMatch /\ OpenMatch /\ AnswerMatch /\ TagMatch

\* What a hit relies on: sizes tell contents apart, other nodes keep away between the HEAD
\* and the GET of a download, and downloads come one at a time.
Settled ==
    /\ Calm /\ ~FixedSize /\ OtherNodes # "any"
    /\ \A d \in Downloads, e \in Downloads : d = e

(* The invariant holds before the daemon has done anything. *)
LEMMA InitHit == ASSUME ~FixedSize PROVE Init => HitInv
<1> SUFFICES ASSUME Init PROVE HitInv
  OBVIOUS
<1>0. \A d \in Downloads : dpc[d] = "idle"
  BY DEF Init, NoRequest
<1>1. NumberMatch
  BY DEF Init, NoRequest, NumberMatch
<1>2. StageMatch
  BY <1>0 DEF Init, NoRequest, StageMatch, Recording
<1>3. OpenMatch
  BY DEF Init, NoRequest, OpenMatch
<1>4. AnswerMatch
  BY <1>0 DEF AnswerMatch
<1>5. TagMatch
  BY <1>0 DEF Init, TagMatch
<1> QED
  BY <1>1, <1>2, <1>3, <1>4, <1>5 DEF HitInv

(* The writers, the watcher, the uploads, deletes and the evictor keep it. *)
LEMMA HitOutside ==
    ASSUME Settled, HitInv, MarksInv, MarksInv',
           PVEWrite \/ OtherPut \/ OtherDelete \/ WatcherEvent \/ UploadStart \/
           UploadHead \/ UploadPut \/ UploadRecord \/ DeleteBlock \/ DeleteObject \/
           DeleteRemove \/ EvictCheck \/ EvictRemove \/ Crash \/ Start
    PROVE  HitInv'
<1>0. DataTypeOK /\ FlagTypeOK /\ SnapshotsMatch /\ TagKnown
  BY DEF MarksInv, TypeOK
<1>b. NotFound \notin Nat /\ NoAnswer \notin Nat
  BY AnswerAssumption
<1>a. dpc \in [Downloads -> DownPC] /\ dpc' \in [Downloads -> DownPC]
  BY DEF MarksInv, TypeOK, DataTypeOK
<1> USE AnswerAssumption, BoundAssumption DEF Settled, Calm, Recording, Covers,
       Dead, HitInv, NumberMatch, StageMatch, OpenMatch, AnswerMatch, TagMatch, DataTypeOK,
       FlagTypeOK, SnapshotsMatch, TagKnown, Contents, Unseen, Rewritten
<1>1. CASE PVEWrite
  BY <1>0, <1>1 DEF PVEWrite, Busy, WriteFile, WriteMeta, Describes, SameSize,
         EpisodeRuns, metaVars, remoteVars, watchVars
<1>2. CASE OtherPut
  BY <1>0, <1>2 DEF OtherPut, OthersMay, WriteRemote, procVars, metaVars, watchVars
<1>3. CASE OtherDelete
  BY <1>0, <1>3 DEF OtherDelete, OthersMay, procVars, fileVars, metaVars, watchVars,
         uploadVars, downVars
<1>4. CASE WatcherEvent
  BY <1>0, <1>4 DEF WatcherEvent, metaVars, Markable, MarkPending, WriteMeta,
         Describes, SameSize, procVars, remoteVars, downVars
<1>5. CASE UploadStart
  <2>1. NumberMatch'
    BY <1>0, <1>5 DEF UploadStart, procVars, fileVars, metaVars, remoteVars, downVars
  <2>2. StageMatch'
    BY <1>0, <1>5 DEF UploadStart, procVars, fileVars, metaVars, remoteVars, downVars
  <2>3. OpenMatch'
    BY <1>0, <1>5 DEF UploadStart, procVars, fileVars, metaVars, remoteVars, downVars
  <2>4. AnswerMatch'
    BY <1>0, <1>5 DEF UploadStart, procVars, fileVars, metaVars, remoteVars, downVars
  <2>5. TagMatch'
    BY <1>0, <1>5 DEF UploadStart, procVars, fileVars, metaVars, remoteVars, downVars
  <2> QED
    BY <2>1, <2>2, <2>3, <2>4, <2>5 DEF HitInv
<1>6. CASE UploadHead
  BY <1>0, <1>6 DEF UploadHead, metaVars, Markable, WriteMeta, Describes, SameSize,
         Unchanged, procVars, remoteVars, downVars
<1>7. CASE UploadPut
  <2>1. NumberMatch'
    BY <1>0, <1>7 DEF UploadPut, WriteRemote, remoteVars, procVars, metaVars
  <2>2. StageMatch'
    BY <1>0, <1>7 DEF UploadPut, WriteRemote, remoteVars, procVars, metaVars
  <2>3. OpenMatch'
    BY <1>0, <1>7 DEF UploadPut, WriteRemote, remoteVars, procVars, metaVars
  <2>4. AnswerMatch'
    BY <1>0, <1>7 DEF UploadPut, WriteRemote, remoteVars, procVars, metaVars
  <2>5. TagMatch'
    BY <1>0, <1>7 DEF UploadPut, WriteRemote, remoteVars, procVars, metaVars
  <2> QED
    BY <2>1, <2>2, <2>3, <2>4, <2>5 DEF HitInv
<1>8. CASE UploadRecord
  BY <1>0, <1>8 DEF UploadRecord, Unchanged, MarkPending, Markable, WriteMeta,
         Describes, SameSize, procVars, metaVars, remoteVars, watchVars, downVars
<1>9. CASE DeleteBlock
  BY <1>0, <1>9 DEF DeleteBlock, procVars, fileVars, metaVars, remoteVars,
         watchVars, downVars
<1>10. CASE DeleteObject
  BY <1>0, <1>10 DEF DeleteObject, procVars, fileVars, metaVars, remoteVars,
         watchVars, uploadVars, downVars
<1>11. CASE DeleteRemove
  BY <1>0, <1>11 DEF DeleteRemove, WriteFile, DropMeta, procVars, remoteVars, watchVars
<1>12. CASE EvictCheck
  BY <1>0, <1>12 DEF EvictCheck, Evictable, procVars, fileVars, metaVars,
         remoteVars, watchVars, uploadVars, downVars
<1>13. CASE EvictRemove
  <2>1. NumberMatch'
    BY <1>0, <1>13 DEF EvictRemove, WriteFile, DropMeta, procVars, remoteVars
  <2>2. StageMatch'
    BY <1>0, <1>13 DEF EvictRemove, WriteFile, DropMeta, procVars, remoteVars
  <2>3. OpenMatch'
    BY <1>0, <1>13 DEF EvictRemove, WriteFile, DropMeta, procVars, remoteVars
  <2>4. AnswerMatch'
    BY <1>0, <1>13 DEF EvictRemove, WriteFile, DropMeta, procVars, remoteVars
  <2>5. TagMatch'
    BY <1>0, <1>13 DEF EvictRemove, WriteFile, DropMeta, procVars, remoteVars
  <2> QED
    BY <2>1, <2>2, <2>3, <2>4, <2>5 DEF HitInv
<1>14. CASE Crash
  <2>1. NumberMatch'
    <3>1. last \in Nat /\ usnap <= last
      BY <1>0 DEF HitInv, NumberMatch, DataTypeOK, Contents
    <3>2. \A v \in stored' : v <= last
      BY <3>1, <1>14 DEF HitInv, NumberMatch, Crash, remoteVars
    <3>3. /\ file' = file /\ tag' = tag /\ usnap' = 0 /\ last' = last /\ hpc' = "idle"
          /\ unmarked' = unmarked
      BY <1>14 DEF Crash, metaVars
    <3> QED
      BY <3>1, <3>2, <3>3 DEF HitInv, NumberMatch
  <2>2. StageMatch'
    BY <1>0, <1>14 DEF Crash, metaVars, remoteVars
  <2>3. OpenMatch'
    BY <1>0, <1>14 DEF Crash, metaVars, remoteVars
  <2>4. AnswerMatch'
    BY <1>0, <1>14 DEF Crash, metaVars, remoteVars
  <2>5. TagMatch'
    BY <1>0, <1>14 DEF Crash, metaVars, remoteVars
  <2> QED
    BY <2>1, <2>2, <2>3, <2>4, <2>5 DEF HitInv
<1>15. CASE Start
  BY <1>0, <1>15 DEF Start, Markable, WriteMeta, Describes, SameSize, remoteVars,
         metaVars, uploadVars, downVars
<1> QED
  BY <1>1, <1>2, <1>3, <1>4, <1>5, <1>6, <1>7, <1>8, <1>9, <1>10, <1>11, <1>12,
         <1>13, <1>14, <1>15

(* The download keeps it at every step. *)
LEMMA HitDownload ==
    ASSUME Settled, HitInv, MarksInv, MarksInv',
           NEW d \in Downloads, Download(d)
    PROVE  HitInv'
<1>0. DataTypeOK /\ FlagTypeOK /\ SnapshotsMatch /\ TagKnown
  BY DEF MarksInv, TypeOK
<1>b. NotFound \notin Nat /\ NoAnswer \notin Nat
  BY AnswerAssumption
<1>a. dpc \in [Downloads -> DownPC] /\ dpc' \in [Downloads -> DownPC]
  BY DEF MarksInv, TypeOK, DataTypeOK
<1> USE AnswerAssumption, BoundAssumption DEF Settled, Calm, Recording, Covers,
       Dead, HitInv, NumberMatch, StageMatch, OpenMatch, AnswerMatch, TagMatch, DataTypeOK,
       FlagTypeOK, SnapshotsMatch, TagKnown, Contents, Unseen, Rewritten
<1>1. CASE DownloadHead(d)
  <2>a. UNCHANGED <<last, file, meta, tag, fresh, stored, remote, upc, usnap, usame, up,
                    hpc, epc, got, unmarked>>
    BY <1>1 DEF DownloadHead, procVars, fileVars, metaVars, remoteVars, uploadVars
  <2>b. dpc[d] = "idle" /\ dpc'[d] = "look" /\ ~Recording /\ ~Recording'
    BY <1>0, <1>1 DEF DownloadHead, At
  <2>c. head'[d] = remote \/ head'[d] \in {NotFound, NoAnswer}
    BY <1>0, <1>1 DEF DownloadHead
  <2>d. (head'[d] \in Contents => head'[d] \in since'[d]) /\ head'[d] # 0 /\ up
    BY <1>0, <1>b, <1>1 DEF DownloadHead
  <2>e. tag \in Nat /\ usnap \in Nat /\ file \in Nat /\ \A x \in Downloads : x = d
    BY <1>0
  <2> HIDE DEF Recording
  <2>1. NumberMatch'
    BY <2>a
  <2>2. StageMatch'
    BY <2>a, <2>b, <2>d, <2>e
  <2>3. OpenMatch'
    BY <2>a, <2>b
  <2>4. AnswerMatch'
    BY <1>b, <2>a, <2>b, <2>c, <2>e
  <2>5. TagMatch'
    BY <1>b, <2>a, <2>b, <2>c, <2>e
  <2> QED
    BY <2>1, <2>2, <2>3, <2>4, <2>5
<1>2. CASE DownloadLook(d)
  BY <1>0, <1>2 DEF DownloadLook, Go, Answer, At, Authoritative, LocalWins,
         LocalInSync, SameSize, procVars, fileVars, metaVars, remoteVars, uploadVars
<1>3. CASE DownloadBackfill(d)
  BY <1>0, <1>3 DEF DownloadBackfill, Go, Answer, At, WriteMeta, Describes,
         SameSize, procVars, remoteVars, watchVars, uploadVars
<1>4. CASE DownloadPurge(d)
  BY <1>0, <1>4 DEF DownloadPurge, Go, Answer, At, WriteFile, DropMeta, procVars,
         remoteVars, watchVars
<1>5. CASE DownloadCompare(d)
  BY <1>0, <1>5 DEF DownloadCompare, Go, At, procVars, fileVars, metaVars,
         remoteVars, watchVars, uploadVars
<1>6. CASE DownloadInvalidate(d)
  BY <1>0, <1>6 DEF DownloadInvalidate, Go, At, WriteFile, DropMeta, procVars,
         remoteVars, watchVars
<1>7. CASE DownloadFetch(d)
  BY <1>0, <1>7 DEF DownloadFetch, Go, Answer, At, procVars, fileVars, metaVars,
         remoteVars, watchVars, uploadVars
<1>8. CASE DownloadTransfer(d)
  BY <1>0, <1>8 DEF DownloadTransfer, Go, Answer, At, procVars, fileVars, metaVars,
         remoteVars, watchVars, uploadVars
<1>9. CASE DownloadRename(d)
  BY <1>0, <1>9 DEF DownloadRename, Go, At, procVars, metaVars, remoteVars
<1>10. CASE DownloadStoreMeta(d)
  BY <1>0, <1>10 DEF DownloadStoreMeta, Go, Answer, At, WriteMeta, Describes,
         SameSize, procVars, remoteVars, watchVars, uploadVars
<1> QED
  BY <1>1, <1>2, <1>3, <1>4, <1>5, <1>6, <1>7, <1>8, <1>9, <1>10 DEF Download

(* Every step keeps it. *)
LEMMA HitNext ==
    ASSUME Settled, HitInv, MarksInv, MarksInv', [Next]_vars
    PROVE  HitInv'
<1>1. CASE UNCHANGED vars
  BY <1>1 DEF HitInv, NumberMatch, StageMatch, OpenMatch, AnswerMatch, TagMatch, Dead,
         Recording, Covers, Unseen, Rewritten, vars, procVars, fileVars, metaVars, remoteVars, watchVars,
         uploadVars, downVars
<1>2. CASE \E d \in Downloads : Download(d)
  BY <1>2, HitDownload
<1>3. CASE ~(\E d \in Downloads : Download(d)) /\ Next
  BY <1>3, HitOutside DEF Next
<1> QED
  BY <1>1, <1>2, <1>3

(* A download that leaves the comparison for an answer found the ETag of its HEAD in the
   metadata, and that is the ETag of the file. *)
LEMMA StepHitsCurrent ==
    ASSUME Settled, HitInv, MarksInv, [Next]_vars, NEW d \in Downloads,
           dpc[d] = "compare", dpc'[d] = "idle", up', file # 0
    PROVE  file \in since[d] \/ Unseen
<1>1. DataTypeOK /\ TagKnown
  BY DEF MarksInv, TypeOK
<1>2. DownloadCompare(d)
  <2>1. ASSUME NEW e \in Downloads, Download(e) PROVE DownloadCompare(d)
    <3>1. e = d
      BY DEF Settled
    <3>2. QED
      BY <2>1, <3>1 DEF Download, DownloadHead, DownloadLook, DownloadBackfill,
             DownloadPurge, DownloadInvalidate, DownloadFetch, DownloadTransfer, DownloadRename,
             DownloadStoreMeta, At
  <2>2. CASE Crash
    BY <2>2 DEF Crash
  <2>3. CASE ~Crash /\ ((~(\E e \in Downloads : Download(e)) /\ Next) \/ UNCHANGED vars)
    BY <2>3 DEF Next, PVEWrite, OtherPut, OtherDelete, WatcherEvent, UploadStart,
           UploadHead, UploadPut, UploadRecord, DeleteBlock, DeleteObject, DeleteRemove, EvictCheck,
           EvictRemove, Start, downVars, vars
  <2>4. QED
    BY <2>1, <2>2, <2>3
<1>3. meta # "none" /\ tag = head[d]
  BY <1>1, <1>2 DEF DownloadCompare, Go, IsStale, DataTypeOK
<1>4. head[d] \in Contents /\ head[d] # 0 /\ head[d] \in since[d]
  BY <1>1 DEF TagKnown, HitInv, StageMatch
<1>5. up /\ ~Recording
  BY <1>2 DEF Settled, Recording, DownloadCompare, procVars
<1>6. meta = "synced"
  BY <1>3, <1>4 DEF HitInv, TagMatch
<1>7. \/ tag \in {0, file}
      \/ Unseen
      \/ file \in since[d]
  BY <1>3, <1>5, <1>6 DEF HitInv, TagMatch
<1> QED
  BY <1>3, <1>4, <1>7

(* A cache hit serves what S3 has had at some time since the HEAD of the request, or a
   rewrite by PVE that the watcher has not marked and S3 never had (api.go,
   handleDownload, IsStale of cache.go, and the debounce map of watcher.go). *)
THEOREM HitsAreCurrent == ASSUME Settled PROVE Spec => HitIsCurrent
<1>1. Init => HitInv
  BY InitHit DEF Settled
<1>2. HitInv /\ MarksInv /\ MarksInv' /\ [Next]_vars => HitInv'
  BY HitNext
<1>3. HitInv /\ MarksInv /\ [Next]_vars =>
        [\A d \in Downloads :
            At(d, "compare") /\ At(d, "idle")' /\ up' /\ file # 0
                => file \in since[d] \/ Unseen]_vars
  BY StepHitsCurrent DEF At
<1>4. QED
  BY <1>1, <1>2, <1>3, MarksConsistent, PTL DEF Spec, HitIsCurrent
=============================================================================
