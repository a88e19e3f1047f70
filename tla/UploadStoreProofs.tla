------------------------- MODULE UploadStoreProofs -------------------------
(***************************************************************************)
(* What the control invariant of UploadControlProofs is good for: what     *)
(* uploads and deletes leave in the cache and on S3 (joined with two       *)
(* invariants on contents, VersionsMatch and GoneMatch), that they take    *)
(* turns on an object as ObjectAccess says, and that no write is forgotten *)
(* (joined with EngagedInv).                                               *)
(***************************************************************************)
EXTENDS UploadControlProofs

(***************************************************************************)
(* What is recorded and what is deleted.                                   *)
(***************************************************************************)
\* PVE, the plugin and the watcher: a write makes a version no upload has seen.
LEMMA VersionsWatch ==
    ASSUME ControlInv, VersionsMatch,
           NEW p \in Paths,
           PVEWrite(p) \/ PVEOpen(p) \/ PVEClose(p) \/ DownloadPending(p) \/ AddWatch(p)
              \/ WatcherEvent(p)
              \/ TickDrop(p) \/ TickSpawn(p)
    PROVE  VersionsMatch'
<1>1. CASE PVEWrite(p)
  BY <1>1 DEF VersionsMatch, PVEWrite, ControlInv, TypeOK, LocalTypeOK, UploadTypeOK,
     Versions, uploadVars
<1>2. CASE TickSpawn(p)
  BY <1>2 DEF VersionsMatch, TickSpawn, Registered, localVars
<1>3. CASE PVEOpen(p) \/ PVEClose(p) \/ DownloadPending(p) \/ AddWatch(p) \/ WatcherEvent(p) \/ TickDrop(p)
  BY <1>3 DEF VersionsMatch, PVEOpen, PVEClose, DownloadPending, hostVars, localVars, uploadVars, timerVars,
     handlerVars, AddWatch, WatcherEvent, TickDrop
<1> QED BY <1>1, <1>2, <1>3

\* A stage of an upload: PutObject stores the file as it was opened, or as it is.
LEMMA VersionsUpload ==
    ASSUME ControlInv, VersionsMatch,
           NEW u \in Uploaders, Upload(u)
    PROVE  VersionsMatch'
<1>1. CASE EnterBlocked(u)
  BY <1>1 DEF VersionsMatch, EnterBlocked, Exit, Stage, Registered, localVars
<1>2. CASE EnterRunning(u)
  BY <1>2 DEF VersionsMatch, EnterRunning, Exit, Stage, Registered, localVars
<1>3. CASE EnterFresh(u)
  BY <1>3 DEF VersionsMatch, EnterFresh, Stage, Registered
<1>4. CASE UploadOpen(u)
  BY <1>4 DEF VersionsMatch, UploadOpen, ControlInv, TypeOK, UploadTypeOK, UploadsMatch,
     Return, Stage, Registered, UploadPC, localVars
<1>5. CASE UploadArm(u)
  BY <1>5 DEF VersionsMatch, UploadArm, ControlInv, TypeOK, UploadTypeOK, Return, Stage,
     Registered, UploadPC, localVars
<1>6. CASE UploadCheck(u)
  BY <1>6 DEF VersionsMatch, UploadCheck, ControlInv, TypeOK, UploadTypeOK, Return, Stage,
     Registered, UploadPC, localVars
<1>7. CASE HeadUnknown(u)
  BY <1>7 DEF VersionsMatch, HeadUnknown, Return, Stage, Registered, UploadPC, localVars
<1>8. CASE HeadLocalWins(u)
  BY <1>8 DEF VersionsMatch, HeadLocalWins, Stage, Registered, UploadPC
<1>9. CASE HeadRemoteWins(u)
  BY <1>9 DEF VersionsMatch, HeadRemoteWins, Return, Stage, Registered, UploadPC
<1>10. CASE PutOK(u)
  BY <1>10 DEF VersionsMatch, PutOK, ControlInv, TypeOK, LocalTypeOK, UploadTypeOK,
     UploadsMatch, PutContent, Stage, Registered, UploadPC, localVars
<1>11. CASE PutFail(u)
  BY <1>11 DEF VersionsMatch, PutFail, ControlInv, UploadsMatch, Return, Stage, Registered,
     UploadPC, localVars
<1>12. CASE UploadLanded(u)
  BY <1>12 DEF VersionsMatch, UploadLanded, ControlInv, TypeOK, UploadTypeOK, Return, Stage,
     Registered, UploadPC, localVars
<1>13. CASE UploadRecord(u)
  BY <1>13 DEF VersionsMatch, UploadRecord, Return, Stage, Registered, UploadPC
<1>14. CASE UploadRerun(u)
  BY <1>14 DEF VersionsMatch, UploadRerun, Stage, Registered, UploadPC
<1>15. CASE UploadFinish(u)
  BY <1>15 DEF VersionsMatch, UploadFinish, ControlInv, TypeOK, UploadTypeOK, Exit, Stage,
     localVars
<1> QED BY <1>1, <1>2, <1>3, <1>4, <1>5, <1>6, <1>7, <1>8, <1>9, <1>10, <1>11, <1>12, <1>13,
     <1>14, <1>15 DEF Upload

\* A step of a delete: no upload of the path is between PutObject and its record.
LEMMA VersionsDelete ==
    ASSUME ControlInv, VersionsMatch,
           NEW h \in Handlers, Delete(h)
    PROVE  VersionsMatch'
<1>1. CASE DeleteObject(h)
  BY <1>1, NoneAssumption DEF VersionsMatch, DeleteObject, ControlInv, UploadsMatch,
     WaitsMatch, localVars, uploadVars
<1>2. CASE DeleteFail(h)
  BY <1>2, NoneAssumption DEF VersionsMatch, DeleteFail, ControlInv, UploadsMatch,
     WaitsMatch, localVars, uploadVars
<1>3. CASE RemoveLocal(h)
  BY <1>3 DEF VersionsMatch, RemoveLocal, ControlInv, TypeOK, LocalTypeOK, Versions,
     uploadVars
<1>4. CASE RemoveFail(h) \/ Unblock(h)
  BY <1>4 DEF VersionsMatch, RemoveFail, hostVars, watchVars, uploadVars, timerVars,
     Unblock, localVars
<1> QED BY <1>1, <1>2, <1>3, <1>4 DEF Delete

\* Every step keeps VersionsMatch.
LEMMA VersionsNext == ControlInv /\ VersionsMatch /\ [Next]_vars => VersionsMatch'
<1> SUFFICES ASSUME ControlInv, VersionsMatch, [Next]_vars
             PROVE  VersionsMatch'
  OBVIOUS
<1>1. ASSUME NEW p \in Paths,
             PVEWrite(p) \/ PVEOpen(p) \/ PVEClose(p) \/ DownloadPending(p) \/ AddWatch(p)
                \/ WatcherEvent(p)
                \/ TickDrop(p) \/ TickSpawn(p)
      PROVE  VersionsMatch'
  BY <1>1, VersionsWatch
<1>2. ASSUME NEW u \in Uploaders, Upload(u) PROVE VersionsMatch'
  BY <1>2, VersionsUpload
<1>3. ASSUME NEW h \in Handlers, Delete(h) PROVE VersionsMatch'
  BY <1>3, VersionsDelete
<1>4. ASSUME NEW h \in Handlers, NEW p \in Paths, DeleteBlock(h, p) PROVE VersionsMatch'
  BY <1>4 DEF VersionsMatch, DeleteBlock, localVars
<1>5. CASE Crash
  BY <1>5 DEF VersionsMatch, Crash
<1>6. CASE WatcherRequest \/ Start
  BY <1>6 DEF VersionsMatch, WatcherRequest, Start, localVars, uploadVars, handlerVars
<1>7. ASSUME NEW t \in Timers, TimerFire(t) \/ TimerCallback(t) PROVE VersionsMatch'
  BY <1>7 DEF VersionsMatch, TimerFire, TimerCallback, localVars, uploadVars, handlerVars
<1>8. CASE UNCHANGED vars
  BY <1>8 DEF VersionsMatch, vars, localVars, uploadVars, handlerVars
<1> QED BY <1>1, <1>2, <1>3, <1>4, <1>5, <1>6, <1>7, <1>8 DEF Next, Watch

\* PVE, the plugin and the watcher: a write ends the claim that the file is gone.
LEMMA GoneWatch ==
    ASSUME ControlInv, VersionsMatch, GoneMatch, ~RemoveMayFail,
           NEW p \in Paths,
           PVEWrite(p) \/ PVEOpen(p) \/ PVEClose(p) \/ DownloadPending(p) \/ AddWatch(p)
              \/ WatcherEvent(p)
              \/ TickDrop(p) \/ TickSpawn(p)
    PROVE  GoneMatch'
<1>1. CASE PVEWrite(p)
  BY <1>1 DEF GoneMatch, PVEWrite, ControlInv, TypeOK, LocalTypeOK, uploadVars
<1>2. CASE TickSpawn(p)
  BY <1>2 DEF GoneMatch, TickSpawn, localVars, handlerVars
<1>3. CASE PVEOpen(p) \/ PVEClose(p) \/ DownloadPending(p) \/ AddWatch(p) \/ WatcherEvent(p) \/ TickDrop(p)
  BY <1>3 DEF GoneMatch, PVEOpen, PVEClose, DownloadPending, hostVars, localVars, uploadVars, timerVars,
     handlerVars, AddWatch, WatcherEvent, TickDrop
<1> QED BY <1>1, <1>2, <1>3

\* A stage of an upload: a file that is gone cannot be opened, and a path a delete works on has no upload.
LEMMA GoneUpload ==
    ASSUME ControlInv, VersionsMatch, GoneMatch, ~RemoveMayFail,
           NEW u \in Uploaders, Upload(u)
    PROVE  GoneMatch'
<1>1. CASE EnterBlocked(u)
  BY <1>1 DEF GoneMatch, EnterBlocked, Exit, Stage, localVars, handlerVars
<1>2. CASE EnterRunning(u)
  BY <1>2 DEF GoneMatch, EnterRunning, Exit, Stage, localVars, handlerVars
<1>3. CASE EnterFresh(u)
  BY <1>3 DEF GoneMatch, EnterFresh, Stage, handlerVars
<1>4. CASE UploadOpen(u)
  BY <1>4 DEF GoneMatch, UploadOpen, ControlInv, TypeOK, UploadTypeOK, Return, Stage,
     localVars, handlerVars
<1>5. CASE UploadArm(u)
  BY <1>5 DEF GoneMatch, UploadArm, ControlInv, TypeOK, UploadTypeOK, Return, Stage,
     localVars, handlerVars
<1>6. CASE UploadCheck(u)
  BY <1>6 DEF GoneMatch, UploadCheck, ControlInv, TypeOK, UploadTypeOK, Return, Stage,
     localVars, handlerVars
<1>7. CASE HeadUnknown(u)
  BY <1>7 DEF GoneMatch, HeadUnknown, Return, Stage, localVars, handlerVars
<1>8. CASE HeadLocalWins(u)
  BY <1>8 DEF GoneMatch, HeadLocalWins, Stage, handlerVars
<1>9. CASE HeadRemoteWins(u)
  BY <1>9 DEF GoneMatch, HeadRemoteWins, Return, Stage, handlerVars
<1>10. CASE PutOK(u)
  BY <1>10, NoneAssumption DEF GoneMatch, PutOK, ControlInv, UploadsMatch, WaitsMatch,
     Stage, Registered, UploadPC, localVars, handlerVars
<1>11. CASE PutFail(u)
  BY <1>11, NoneAssumption DEF GoneMatch, PutFail, ControlInv, UploadsMatch, WaitsMatch,
     Return, Stage, Registered, UploadPC, localVars, handlerVars
<1>12. CASE UploadLanded(u)
  BY <1>12 DEF GoneMatch, UploadLanded, ControlInv, TypeOK, UploadTypeOK, Return, Stage,
     localVars, handlerVars
<1>13. CASE UploadRecord(u)
  BY <1>13 DEF GoneMatch, UploadRecord, Return, Stage, handlerVars
<1>14. CASE UploadRerun(u)
  BY <1>14 DEF GoneMatch, UploadRerun, Stage, handlerVars
<1>15. CASE UploadFinish(u)
  BY <1>15 DEF GoneMatch, UploadFinish, Exit, Stage, localVars
<1> QED BY <1>1, <1>2, <1>3, <1>4, <1>5, <1>6, <1>7, <1>8, <1>9, <1>10, <1>11, <1>12, <1>13,
     <1>14, <1>15 DEF Upload

\* A step of a delete: object and file are both removed while uploads are held back.
LEMMA GoneDelete ==
    ASSUME ControlInv, VersionsMatch, GoneMatch, ~RemoveMayFail,
           NEW h \in Handlers, Delete(h)
    PROVE  GoneMatch'
<1>1. CASE DeleteObject(h)
  BY <1>1 DEF GoneMatch, DeleteObject, ControlInv, TypeOK, LocalTypeOK, localVars,
     uploadVars
<1>2. CASE DeleteFail(h)
  BY <1>2 DEF GoneMatch, DeleteFail, localVars, uploadVars
<1>3. CASE RemoveLocal(h)
  BY <1>3, NoneAssumption DEF GoneMatch, RemoveLocal, ControlInv, TypeOK, LocalTypeOK,
     UploadsMatch, WaitsMatch, Registered, UploadPC, uploadVars
<1>4. CASE RemoveFail(h)
  BY <1>4 DEF GoneMatch, RemoveFail
<1>5. CASE Unblock(h)
  BY <1>5 DEF GoneMatch, Unblock, localVars, uploadVars
<1> QED BY <1>1, <1>2, <1>3, <1>4, <1>5 DEF Delete

\* Every step keeps GoneMatch.
LEMMA GoneNext == ControlInv /\ VersionsMatch /\ GoneMatch /\ ~RemoveMayFail /\ [Next]_vars => GoneMatch'
<1> SUFFICES ASSUME ControlInv, VersionsMatch, GoneMatch, ~RemoveMayFail, [Next]_vars
             PROVE  GoneMatch'
  OBVIOUS
<1>1. ASSUME NEW p \in Paths,
             PVEWrite(p) \/ PVEOpen(p) \/ PVEClose(p) \/ DownloadPending(p) \/ AddWatch(p)
                \/ WatcherEvent(p)
                \/ TickDrop(p) \/ TickSpawn(p)
      PROVE  GoneMatch'
  BY <1>1, GoneWatch
<1>2. ASSUME NEW u \in Uploaders, Upload(u) PROVE GoneMatch'
  BY <1>2, GoneUpload
<1>3. ASSUME NEW h \in Handlers, Delete(h) PROVE GoneMatch'
  BY <1>3, GoneDelete
<1>4. ASSUME NEW h \in Handlers, NEW p \in Paths, DeleteBlock(h, p) PROVE GoneMatch'
  BY <1>4 DEF GoneMatch, DeleteBlock, localVars
<1>5. CASE Crash
  BY <1>5 DEF GoneMatch, Crash, ControlInv, TypeOK, UploadTypeOK
<1>6. CASE WatcherRequest \/ Start
  BY <1>6 DEF GoneMatch, WatcherRequest, Start, localVars, uploadVars, handlerVars
<1>7. ASSUME NEW t \in Timers, TimerFire(t) \/ TimerCallback(t) PROVE GoneMatch'
  BY <1>7 DEF GoneMatch, TimerFire, TimerCallback, localVars, uploadVars, handlerVars
<1>8. CASE UNCHANGED vars
  BY <1>8 DEF GoneMatch, vars, localVars, uploadVars, handlerVars
<1> QED BY <1>1, <1>2, <1>3, <1>4, <1>5, <1>6, <1>7, <1>8 DEF Next, Watch

\* The store invariant holds in every reachable state.
THEOREM StoreInvariant == Spec => []StoreInv
<1>1. Init => StoreInv
  <2>1. Init => VersionsMatch
    BY DEF Init, FreshProcess, VersionsMatch, Registered, UploadPC
  <2>2. Init => GoneMatch
    BY DEF Init, FreshProcess, GoneMatch
  <2> QED BY <2>1, <2>2, ControlInit DEF StoreInv
<1>2. StoreInv /\ [Next]_vars => StoreInv'
  <2>1. StoreInv /\ [Next]_vars => ControlInv' /\ VersionsMatch'
    BY ControlNext, VersionsNext DEF StoreInv
  <2>2. StoreInv /\ [Next]_vars /\ ~RemoveMayFail => GoneMatch'
    BY GoneNext DEF StoreInv
  <2> QED BY <2>1, <2>2 DEF StoreInv
<1> QED BY <1>1, <1>2, PTL DEF Spec

\* When the local file can always be removed, a deleted object stays off S3
\* until PVE writes the file again: no upload, retry, rerun or restart of the
\* daemon brings it back.
THEOREM DeletedStaysDeleted == ~RemoveMayFail => (Spec => []NoResurrection)
<1>1. ~RemoveMayFail /\ StoreInv => NoResurrection
  BY DEF StoreInv, GoneMatch, NoResurrection
<1>2. CASE ~RemoveMayFail
  <2>1. StoreInv => NoResurrection
    BY <1>1, <1>2
  <2> QED BY <2>1, StoreInvariant, PTL
<1> QED BY <1>2

\* Only UploadRecord takes an upload from "record" to "returned".
LEMMA RecordStep ==
    ASSUME ControlInv, Next, NEW u \in Uploaders, pc[u] = "record", pc'[u] = "returned"
    PROVE  UploadRecord(u)
<1>1. ASSUME NEW v \in Uploaders, Upload(v) PROVE UploadRecord(u)
  <2>1. CASE v = u
    BY <1>1, <2>1
      DEF Upload, EnterBlocked, EnterRunning, EnterFresh, UploadOpen, UploadArm, UploadCheck,
          HeadUnknown, HeadLocalWins, HeadRemoteWins, PutOK, PutFail, UploadLanded,
          UploadRerun, UploadFinish
  <2>2. CASE v # u
    <3>1. pc'[u] = pc[u]
      BY <1>1, <2>2
        DEF Upload, EnterBlocked, EnterRunning, EnterFresh, UploadOpen, UploadArm, UploadCheck,
            HeadUnknown, HeadLocalWins, HeadRemoteWins, PutOK, PutFail, UploadLanded,
            UploadRecord, UploadRerun, UploadFinish, Stage, Return, Exit,
            ControlInv, TypeOK, UploadTypeOK
    <3> QED BY <3>1
  <2> QED BY <2>1, <2>2
<1>2. CASE \E p \in Paths : TickSpawn(p)
  BY <1>2 DEF TickSpawn, ControlInv, TypeOK, UploadTypeOK
<1>3. CASE Crash
  BY <1>3 DEF Crash
<1>4. CASE UNCHANGED pc
  BY <1>4
<1>5. UNCHANGED pc \/ (\E v \in Uploaders : Upload(v)) \/ (\E p \in Paths : TickSpawn(p)) \/ Crash
  BY DEF Next, Watch, PVEWrite, PVEOpen, PVEClose, DownloadPending, AddWatch, WatcherEvent, WatcherRequest,
     TickDrop, TimerFire, TimerCallback, DeleteBlock, Delete, DeleteObject, DeleteFail,
     RemoveLocal, RemoveFail, Unblock, Start, uploadVars
<1> QED BY <1>1, <1>2, <1>3, <1>4, <1>5

\* MarkSynced after an upload tells the truth: the object has exactly the
\* content of the file at that moment.
THEOREM RecordsTruth == Spec => RecordedIsStored
<1>1. StoreInv /\ [Next]_vars => [RecordRight]_vars
  <2> SUFFICES ASSUME StoreInv, Next, NEW u \in Uploaders, pc[u] = "record",
                      pc'[u] = "returned", Owed(path[u]), ~Owed(path[u])'
               PROVE  remote[path[u]] = file[path[u]]
    BY DEF RecordRight
  <2>1. UploadRecord(u)
    BY RecordStep DEF StoreInv
  <2>2. path[u] \in Paths
    BY NoneAssumption
      DEF StoreInv, ControlInv, TypeOK, UploadTypeOK, UploadsMatch
  <2>3. Fresh(path[u], snap[u])
    <3> SUFFICES ASSUME ~Fresh(path[u], snap[u]) PROVE Owed(path[u])'
      OBVIOUS
    <3>1. MarkPending(path[u]) /\ UNCHANGED <<file, path>>
      BY <2>1 DEF UploadRecord
    <3>2. Markable(path[u])
      BY DEF Owed, Markable
    <3>3. meta' = [meta EXCEPT ![path[u]] = "pending"]
      BY <3>1, <3>2 DEF MarkPending, WritePending
    <3> QED BY <2>2, <3>1, <3>3
          DEF Owed, Covers, StoreInv, ControlInv, TypeOK, LocalTypeOK
  <2> QED BY <2>3 DEF StoreInv, VersionsMatch, Fresh
<1> QED BY <1>1, StoreInvariant, PTL DEF RecordedIsStored, Spec

(***************************************************************************)
(* UploadControl implements ObjectAccess: uploads and deletes of a path    *)
(* take turns on its object, for any number of goroutines and handlers.    *)
(***************************************************************************)
\* The objects with a turn of an upload are those with an entry in uploads; a
\* delete holds a path only without one.
LEMMA Turns ==
    ASSUME ControlInv
    PROVE  /\ Uploading = {p \in Paths : uploads[p] # None}
           /\ \A p \in Held : uploads[p] = None
           /\ Held \subseteq Paths
<1>1. Uploading = {p \in Paths : uploads[p] # None}
  BY NoneAssumption DEF ControlInv, TypeOK, UploadTypeOK, UploadsMatch, Uploading
<1>2. \A p \in Held : uploads[p] = None
  BY DEF ControlInv, WaitsMatch, Held, Holds
<1> QED BY <1>1, <1>2 DEF Held

\* The same in the state after a step.
LEMMA NextTurns ==
    ASSUME ControlInv'
    PROVE  /\ Uploading' = {p \in Paths : uploads'[p] # None}
           /\ Held' \subseteq Paths
<1>1. Uploading' = {p \in Paths : uploads'[p] # None}
  BY NoneAssumption DEF ControlInv, TypeOK, UploadTypeOK, UploadsMatch, Uploading
<1> QED BY <1>1 DEF Held

\* Goroutines that only move between working stages, or do not work at all,
\* take and give no turn.
LEMMA SameTurns ==
    ASSUME ControlInv, ControlInv', UNCHANGED <<uploads, hpc, target, waitFor>>
    PROVE  UNCHANGED <<Uploading, Held>>
<1>1. Held' = Held
  BY DEF Held, Holds
<1> QED BY <1>1, Turns, NextTurns

\* Before the daemon starts nobody has a turn.
LEMMA AccessInit == Init => Access!Init
<1> SUFFICES ASSUME Init PROVE Access!Init
  OBVIOUS
<1>1. remote \in [Paths -> Versions]
  BY BoundAssumption DEF Init, Versions
<1>2. Uploading = {} /\ Held = {}
  BY DEF Init, FreshProcess, Uploading, Held, Holds, Registered, UploadPC
<1> QED BY <1>1, <1>2 DEF Access!Init

\* Every step is a turn taken, used or given back, or changes neither the
\* objects nor the turns.
LEMMA AccessNext == ControlInv /\ ControlInv' /\ [Next]_vars => [Access!Next]_(Access!vars)
<1> SUFFICES ASSUME ControlInv, ControlInv', [Next]_vars
             PROVE  Access!Next \/ UNCHANGED <<remote, Uploading, Held>>
  BY DEF Access!vars
<1> DEFINE Done == Access!Next \/ UNCHANGED <<remote, Uploading, Held>>
<1>1. CASE Watch \/ \E p \in Paths : PVEWrite(p) \/ PVEOpen(p) \/ PVEClose(p) \/ DownloadPending(p) \/ AddWatch(p)
  BY <1>1, SameTurns DEF Watch, WatcherRequest, WatcherEvent, TickDrop, TickSpawn, PVEWrite,
     PVEOpen, PVEClose, DownloadPending, AddWatch, handlerVars, uploadVars
<1>2. ASSUME NEW u \in Uploaders, Upload(u) PROVE Done
  <2>1. CASE EnterFresh(u)
    <3>1. path[u] \in Paths /\ uploads[path[u]] = None /\ uploads' = [uploads EXCEPT ![path[u]] = u]
      BY <2>1, NoneAssumption
        DEF ControlInv, TypeOK, UploadTypeOK, UploadsMatch, EnterFresh, UploadRunning
    <3>2. \A h \in Handlers : target[h] # path[u]
      BY <2>1, <3>1, NotBlocked DEF ControlInv, TypeOK, EnterFresh
    <3>3. path[u] \notin Uploading \cup Held
      BY <3>1, <3>2, Turns DEF Held, Holds
    <3>4. Uploading' = Uploading \cup {path[u]}
      BY <3>1, Turns, NextTurns, NoneAssumption DEF ControlInv, TypeOK, UploadTypeOK
    <3>5. UNCHANGED <<remote, Held>>
      BY <2>1 DEF EnterFresh, handlerVars, Held, Holds
    <3> QED BY <3>1, <3>3, <3>4, <3>5 DEF Access!Next, Access!BeginUpload
  <2>2. CASE UploadFinish(u)
    <3>1. path[u] \in Paths /\ uploads[path[u]] = u /\ uploads' = [uploads EXCEPT ![path[u]] = None]
      BY <2>2, NoneAssumption
        DEF ControlInv, TypeOK, UploadTypeOK, UploadsMatch, UploadFinish, Registered, UploadPC
    <3>2. path[u] \in Uploading /\ Uploading' = Uploading \ {path[u]}
      BY <3>1, Turns, NextTurns, NoneAssumption DEF ControlInv, TypeOK, UploadTypeOK
    <3>3. UNCHANGED <<remote, hpc, target>>
          /\ waitFor' = [h \in Handlers |-> IF waitFor[h] = u THEN None ELSE waitFor[h]]
      BY <2>2 DEF UploadFinish, CloseDone
    <3>4. \A h \in Handlers : waitFor[h] = u => hpc[h] # "idle" /\ target[h] = path[u]
      BY <3>1, NoneAssumption
        DEF ControlInv, TypeOK, HandlerTypeOK, UploadTypeOK, UploadsMatch, WaitsMatch
    <3>5. \A p \in Paths : p # path[u] => (p \in Held' <=> p \in Held)
      BY <3>3, <3>4, NoneAssumption DEF Held, Holds, ControlInv, TypeOK, HandlerTypeOK
    <3>6. path[u] \notin Held
      BY <3>1, Turns, NoneAssumption
    <3>7. Held' \in {Held, Held \cup {path[u]}}
      BY <3>1, <3>5, <3>6, Turns, NextTurns
    <3> QED BY <3>1, <3>2, <3>3, <3>7 DEF Access!Next, Access!EndUpload
  <2>3. CASE PutOK(u) \/ PutFail(u)
    <3>1. path[u] \in Paths /\ path[u] \in Uploading
      BY <2>3, NoneAssumption DEF ControlInv, TypeOK, UploadTypeOK, UploadsMatch, PutOK, PutFail,
         Uploading, Registered, UploadPC
    <3>2. UNCHANGED <<Uploading, Held>>
      BY <2>3, SameTurns DEF PutOK, PutFail, handlerVars
    <3>3. \E c \in Versions : remote' = [remote EXCEPT ![path[u]] = c]
      <4>1. PutContent(u) \cup {remote[path[u]]} \subseteq Versions
        BY <3>1 DEF ControlInv, TypeOK, LocalTypeOK, UploadTypeOK, PutContent
      <4> QED BY <2>3, <4>1 DEF PutOK, PutFail
    <3> QED BY <3>1, <3>2, <3>3 DEF Access!Next, Access!Put
  <2>4. CASE EnterBlocked(u) \/ EnterRunning(u) \/ UploadOpen(u) \/ UploadArm(u) \/ UploadCheck(u)
             \/ HeadUnknown(u) \/ HeadLocalWins(u) \/ HeadRemoteWins(u) \/ UploadLanded(u)
             \/ UploadRecord(u) \/ UploadRerun(u)
    BY <2>4, SameTurns DEF EnterBlocked, EnterRunning, UploadOpen, UploadArm, UploadCheck,
       HeadUnknown, HeadLocalWins, HeadRemoteWins, UploadLanded, UploadRecord, UploadRerun, handlerVars
  <2> QED BY <1>2, <2>1, <2>2, <2>3, <2>4 DEF Upload
<1>3. ASSUME NEW t \in Timers, TimerFire(t) \/ TimerCallback(t) PROVE Done
  BY <1>3, SameTurns DEF TimerFire, TimerCallback, uploadVars, handlerVars
<1>4. ASSUME NEW h \in Handlers, NEW p \in Paths, DeleteBlock(h, p) PROVE Done
  <2>1. UNCHANGED <<remote, Uploading>>
    BY <1>4, Turns, NextTurns DEF DeleteBlock
  <2>2. /\ hpc' = [hpc EXCEPT ![h] = "waiting"] /\ target' = [target EXCEPT ![h] = p]
        /\ waitFor' = [waitFor EXCEPT ![h] = uploads[p]] /\ hpc[h] = "idle" /\ target[h] = None
    BY <1>4 DEF ControlInv, WaitsMatch, DeleteBlock, InFlight
  <2>3. CASE uploads[p] = None
    <3>1. Held' = Held \cup {p}
      BY <2>2, <2>3, NoneAssumption DEF Held, Holds, ControlInv, TypeOK, HandlerTypeOK
    <3>2. p \notin Uploading
      BY <2>3, Turns
    <3> QED BY <2>1, <3>1, <3>2 DEF Access!Next, Access!BeginHold
  <2>4. CASE uploads[p] # None
    <3>1. Held' = Held
      BY <2>2, <2>4, NoneAssumption DEF Held, Holds, ControlInv, TypeOK, HandlerTypeOK
    <3> QED BY <2>1, <3>1
  <2> QED BY <2>3, <2>4
<1>5. ASSUME NEW h \in Handlers, Delete(h) PROVE Done
  <2>1. target[h] \in Paths /\ hpc[h] # "idle"
    BY <1>5, NoneAssumption DEF ControlInv, TypeOK, HandlerTypeOK, WaitsMatch, Delete, DeleteObject,
       DeleteFail, RemoveLocal, RemoveFail, Unblock
  <2>2. Uploading' = Uploading
    BY <1>5, Turns, NextTurns
      DEF Delete, DeleteObject, DeleteFail, RemoveLocal, RemoveFail, Unblock, uploadVars
  <2>3. CASE DeleteObject(h) \/ DeleteFail(h)
    <3>1. Held' = Held
      BY <2>3 DEF DeleteObject, DeleteFail, Held, Holds, ControlInv, TypeOK, HandlerTypeOK
    <3>2. target[h] \in Held
      BY <2>1, <2>3 DEF DeleteObject, DeleteFail, Held, Holds
    <3>3. remote' = [remote EXCEPT ![target[h]] = 0] \/ remote' = remote
      BY <2>1, <2>3 DEF DeleteObject, DeleteFail, ControlInv, TypeOK, LocalTypeOK
    <3> QED BY <2>1, <2>2, <3>1, <3>2, <3>3 DEF Access!Next, Access!Delete
  <2>4. CASE RemoveLocal(h) \/ RemoveFail(h)
    BY <2>2, <2>4 DEF RemoveLocal, RemoveFail, Held, Holds, ControlInv, TypeOK, HandlerTypeOK
  <2>5. CASE Unblock(h)
    <3>1. hpc' = [hpc EXCEPT ![h] = "idle"] /\ target' = [target EXCEPT ![h] = None]
          /\ UNCHANGED <<remote, waitFor>>
      BY <2>5 DEF Unblock
    <3>2. \A p \in Paths : p # target[h] => (p \in Held' <=> p \in Held)
      BY <2>1, <3>1, NoneAssumption DEF Held, Holds, ControlInv, TypeOK, HandlerTypeOK
    <3>3. Held' = Held \/ Held' = Held \ {target[h]}
      <4>1. target[h] \in Held
        BY <2>1, <2>5 DEF Unblock, Held, Holds, ControlInv, WaitsMatch
      <4>2. Held' \subseteq Paths /\ Held \subseteq Paths
        BY DEF Held
      <4> QED BY <3>2, <4>1, <4>2
    <3> QED BY <2>1, <2>2, <3>1, <3>3 DEF Access!Next, Access!EndHold
  <2> QED BY <1>5, <2>3, <2>4, <2>5 DEF Delete
<1>6. CASE Crash
  <2>1. Uploading' = {} /\ Held' = {}
    BY <1>6 DEF Crash, Uploading, Held, Holds, Registered, UploadPC
  <2>2. remote' \in [Paths -> Versions]
    BY DEF ControlInv, TypeOK, LocalTypeOK
  <2>3. \A p \in Paths \ Uploading : remote'[p] = remote[p]
    BY <1>6 DEF Crash, Uploading, Registered, UploadPC
  <2> QED BY <2>1, <2>2, <2>3 DEF Access!Next, Access!Die
<1>7. CASE Start
  BY <1>7, SameTurns DEF Start, uploadVars, handlerVars
<1>8. CASE UNCHANGED vars
  BY <1>8, SameTurns DEF vars, uploadVars, handlerVars
<1> QED BY <1>1, <1>2, <1>3, <1>4, <1>5, <1>6, <1>7, <1>8 DEF Next

\* Every behaviour of the upload machinery is one of ObjectAccess: what the
\* daemon promises about the order of uploads and deletes of one object.
THEOREM ImplementsAccess == Spec => ImplementsObjectAccess
<1>1. Init => Access!Init
  BY AccessInit
<1>2. ControlInv /\ ControlInv' /\ [Next]_vars => [Access!Next]_(Access!vars)
  BY AccessNext
<1> QED BY <1>1, <1>2, ControlInvariant, PTL DEF Spec, Access!Spec, ImplementsObjectAccess

(***************************************************************************)
(* No write is forgotten: a file that is not recorded as uploaded has      *)
(* somebody who will look at it, whatever runs, fails or crashes.          *)
(***************************************************************************)
\* Somebody other than a running upload or a timer is going to look at the path.
Busy(p) ==
    \/ events[p] > 0 \/ p \in pending
    \/ \E i \in DOMAIN queue : queue[i] = p
    \/ \E u \in Uploaders : pc[u] = "spawned" /\ path[u] = p
    \/ \E h \in Handlers : target[h] = p /\ hpc[h] \in {"waiting", "removing"}

\* The upload has not seen the file as it is, or ends without wanting a retry.
Doubtful(u) ==
    IF pc[u] = "returned" THEN ~retry[u]
    ELSE \/ pc[u] # "open" /\ snap[u] # file[path[u]]
         \/ meta[path[u]] = "pending" /\ remarked[path[u]]

\* Every directory is watched while the daemon runs, and nothing runs without it.
ProcessMatch == IF up THEN watched = Paths ELSE \A u \in Uploaders : pc[u] = "idle"

\* Whoever canceled an upload waits for it.
CancelMatch == \A u \in Uploaders : canceled[u] => \E h \in Handlers : waitFor[h] = u

\* An upload that will not do for the file as it is runs again, or somebody else looks at
\* the file: it may forget the retries of the path.
DoubtMatch ==
    \A u \in Uploaders :
        pc[u] \in Registered /\ Doubtful(u) /\ Owed(path[u]) => rerun[u] \/ Busy(path[u])

OwedMatch ==
    \A p \in Paths :
        up /\ Owed(p) => Busy(p) \/ uploads[p] # None \/ \E t \in Timers : timerPath[t] = p

EngagedInv == ControlInv /\ ProcessMatch /\ CancelMatch /\ DoubtMatch /\ OwedMatch

\* Directories are watched from the start; objects and files can be deleted.
Quiet == ~WatchGaps /\ ~DeleteMayFail /\ ~RemoveMayFail

\* The request channel is not full, or has every path in it.
Roomy == Len(queue) < QueueCap \/ \A p \in Paths : \E i \in DOMAIN queue : queue[i] = p

(* What one step may change. *)

\* A goroutine that is working works on the path that it is registered for.
LEMMA AtWork ==
    ASSUME ControlInv, NEW u \in Uploaders
    PROVE  /\ pc[u] # "idle" => path[u] \in Paths
           /\ pc[u] \in Registered => uploads[path[u]] = u
           /\ \A v \in Uploaders :
                 pc[u] \in Registered /\ pc[v] \in Registered /\ path[u] = path[v] => u = v
BY NoneAssumption DEF ControlInv, TypeOK, UploadTypeOK, UploadsMatch

\* A requested path is in the channel afterwards, sent or not, and no other one is lost.
LEMMA Requested ==
    ASSUME Roomy, ControlInv, NEW p \in Paths, RequestUpload(p)
    PROVE  /\ \E i \in DOMAIN queue' : queue'[i] = p
           /\ \A q : (\E i \in DOMAIN queue : queue[i] = q) => \E i \in DOMAIN queue' : queue'[i] = q
<1>1. queue \in Seq(Paths)
  BY DEF ControlInv, TypeOK, WatchTypeOK
<1>2. CASE Len(queue) < QueueCap
  <2>1. queue' = Append(queue, p)
    BY <1>2 DEF RequestUpload
  <2>2. /\ Len(queue') = Len(queue) + 1 /\ queue'[Len(queue) + 1] = p /\ queue' \in Seq(Paths)
        /\ \A i \in 1..Len(queue) : queue'[i] = queue[i]
    BY <1>1, <2>1
  <2>3. Len(queue) + 1 \in DOMAIN queue' /\ DOMAIN queue \subseteq DOMAIN queue'
        /\ DOMAIN queue = 1..Len(queue)
    BY <1>1, <2>2
  <2> QED BY <2>2, <2>3
<1>3. CASE ~(Len(queue) < QueueCap)
  <2>1. queue' = queue
    BY <1>3 DEF RequestUpload
  <2> QED BY <1>3, <2>1 DEF Roomy
<1> QED BY <1>2, <1>3

\* Only a write makes a file owed: marks are put on files that are owed already.
LEMMA OwedByWrite ==
    ASSUME Quiet, ControlInv, Next, NEW p \in Paths, Owed(p)', ~Owed(p)
    PROVE  PVEWrite(p)
<1>0. /\ file \in [Paths -> Versions] /\ meta \in [Paths -> {"none", "pending", "synced"}]
      /\ metaVer \in [Paths -> Versions]
  BY DEF ControlInv, TypeOK, LocalTypeOK
<1>1. UNCHANGED <<file, meta, metaVer>> => FALSE
  BY DEF Owed, Covers
<1>2. ASSUME NEW q \in Paths, PVEWrite(q) PROVE q = p
  BY <1>0, <1>2 DEF PVEWrite, Owed, Covers
<1>3. ASSUME NEW q \in Paths, WritePending(q), Markable(q), UNCHANGED file PROVE FALSE
  BY <1>0, <1>3 DEF WritePending, Markable, Owed, Covers
<1>4. ASSUME NEW q \in Paths, WriteSynced(q), UNCHANGED file PROVE FALSE
  BY <1>0, <1>4 DEF WriteSynced, Owed, Covers
<1>5. ASSUME NEW q \in Paths, WatcherEvent(q) PROVE FALSE
  BY <1>1, <1>3, <1>5 DEF WatcherEvent, MarkPending
<1>6. ASSUME NEW u \in Uploaders, Upload(u) PROVE FALSE
  <2>1. CASE HeadLocalWins(u) \/ HeadRemoteWins(u) \/ UploadRecord(u)
    <3>1. path[u] \in Paths
      BY <2>1, AtWork DEF HeadLocalWins, HeadRemoteWins, UploadRecord
    <3> QED BY <1>1, <1>3, <1>4, <2>1, <3>1
            DEF HeadLocalWins, HeadRemoteWins, UploadRecord, MarkPending
  <2>2. CASE ~(HeadLocalWins(u) \/ HeadRemoteWins(u) \/ UploadRecord(u))
    BY <1>1, <1>6, <2>2 DEF Upload, EnterBlocked, EnterRunning, EnterFresh, UploadOpen,
       UploadArm, UploadCheck, HeadUnknown, PutOK, PutFail, UploadLanded, UploadRerun,
       UploadFinish, localVars
  <2> QED BY <2>1, <2>2
<1>7. ASSUME NEW h \in Handlers, Delete(h) \/ \E q \in Paths : DeleteBlock(h, q) PROVE FALSE
  <2>1. CASE RemoveLocal(h)
    BY <1>0, <2>1 DEF RemoveLocal, Owed, Covers
  <2>2. CASE ~RemoveLocal(h)
    BY <1>1, <1>7, <2>2 DEF Delete, DeleteObject, DeleteFail, RemoveFail, Unblock, DeleteBlock,
       localVars, Quiet
  <2> QED BY <2>1, <2>2
<1>8. CASE Start
  BY <1>0, <1>8 DEF Start, Markable, Owed, Covers
<1>9. CASE WatcherRequest \/ Crash \/ (\E t \in Timers : TimerFire(t) \/ TimerCallback(t))
           \/ (\E q \in Paths : PVEOpen(q) \/ PVEClose(q) \/ DownloadPending(q) \/ AddWatch(q)
                              \/ TickDrop(q) \/ TickSpawn(q))
  BY <1>1, <1>9 DEF PVEOpen, PVEClose, WatcherRequest, Crash, TimerFire, TimerCallback, DownloadPending, AddWatch,
     TickDrop, TickSpawn, localVars
<1> QED BY <1>2, <1>5, <1>6, <1>7, <1>8, <1>9 DEF Next, Watch

\* Who was going to look at an owed path still is, or has just asked the running upload
\* for another round, or has become the running upload.
LEMMA BusyKept ==
    ASSUME Quiet, Roomy, ControlInv, Next, up', NEW p \in Paths, Busy(p), Owed(p)'
    PROVE  \/ Busy(p)'
           \/ \E u \in Uploaders : path[u] = p /\ (EnterRunning(u) \/ EnterFresh(u))
<1> DEFINE Spawned(u) == pc[u] = "spawned" /\ path[u] = p
           Delays(h)  == target[h] = p /\ hpc[h] \in {"waiting", "removing"}
<1>0. /\ events \in [Paths -> Nat] /\ queue \in Seq(Paths)
      /\ pc \in [Uploaders -> UploadPC] /\ path \in [Uploaders -> Paths \cup {None}]
      /\ hpc \in [Handlers -> HandlerPC] /\ target \in [Handlers -> Paths \cup {None}]
  BY DEF ControlInv, TypeOK, WatchTypeOK, UploadTypeOK, HandlerTypeOK
<1>1. ASSUME UNCHANGED watchVars, UNCHANGED <<hpc, target>>, UNCHANGED <<pc, path>>
      PROVE  Busy(p)'
  BY <1>1 DEF Busy, watchVars
<1>2. ASSUME NEW q \in Paths, PVEWrite(q) PROVE Busy(p)'
  BY <1>0, <1>2 DEF PVEWrite, Busy, uploadVars
<1>3. ASSUME NEW q \in Paths, WatcherEvent(q) PROVE Busy(p)'
  <2>1. CASE events[p] > 0 /\ q = p
    <3>1. Owed(p)
      <4> SUFFICES ASSUME ~Owed(p) PROVE FALSE
        OBVIOUS
      <4>1. PVEWrite(p)
        BY OwedByWrite
      <4> QED BY <1>0, <1>3, <4>1 DEF PVEWrite, WatcherEvent
    <3>2. p \in pending'
      BY <1>0, <1>3, <2>1, <3>1 DEF WatcherEvent, Owed, Markable
    <3> QED BY <3>2 DEF Busy
  <2>2. CASE ~(events[p] > 0 /\ q = p)
    <3>1. (events[p] > 0 => events'[p] > 0) /\ pending \subseteq pending'
      BY <1>0, <1>3, <2>2 DEF WatcherEvent
    <3> QED BY <1>3, <3>1 DEF WatcherEvent, Busy, uploadVars, handlerVars
  <2> QED BY <2>1, <2>2
<1>4. CASE WatcherRequest
  <2>1. CASE \E i \in DOMAIN queue : queue[i] = p
    <3>1. PICK i \in DOMAIN queue : queue[i] = p
      BY <2>1
    <3>2. queue # << >> /\ queue' = Tail(queue) /\ Head(queue) \in pending'
      BY <1>4 DEF WatcherRequest
    <3>3. CASE i = 1
      BY <1>0, <3>1, <3>2, <3>3 DEF Busy
    <3>4. CASE i # 1
      <4>1. i \in 1..Len(queue) /\ Len(queue) \in Nat
        BY <1>0, <3>1
      <4>2. i - 1 \in 1..Len(Tail(queue)) /\ Tail(queue)[i - 1] = queue[i]
        BY <1>0, <3>2, <3>4, <4>1
      <4>3. i - 1 \in DOMAIN queue' /\ queue'[i - 1] = p
        BY <1>0, <3>1, <3>2, <4>2
      <4> QED BY <4>3 DEF Busy
    <3> QED BY <3>3, <3>4
  <2>2. CASE ~\E i \in DOMAIN queue : queue[i] = p
    BY <1>4, <2>2 DEF WatcherRequest, Busy, uploadVars, handlerVars
  <2> QED BY <2>1, <2>2
<1>5. ASSUME NEW q \in Paths, TickDrop(q) PROVE Busy(p)'
  <2>1. q # p
    BY <1>5 DEF TickDrop, Owed, localVars
  <2> QED BY <1>5, <2>1 DEF TickDrop, Busy, uploadVars, handlerVars
<1>6. ASSUME NEW q \in Paths, TickSpawn(q) PROVE Busy(p)'
  <2>1. PICK u \in Uploaders : /\ pc[u] = "idle" /\ pc' = [pc EXCEPT ![u] = "spawned"]
                               /\ path' = [path EXCEPT ![u] = q]
    BY <1>6 DEF TickSpawn
  <2>2. /\ pc'[u] = "spawned" /\ path'[u] = q
        /\ \A v \in Uploaders : Spawned(v) => pc'[v] = "spawned" /\ path'[v] = p
    BY <1>0, <2>1
  <2>3. UNCHANGED <<events, queue, hpc, target>> /\ pending' = pending \ {q}
    BY <1>6 DEF TickSpawn, handlerVars
  <2> QED BY <2>2, <2>3 DEF Busy
<1>7. ASSUME NEW q \in Paths, DownloadPending(q) PROVE Busy(p)'
  BY <1>7, Requested DEF DownloadPending, Busy, uploadVars, handlerVars
<1>8. ASSUME NEW q \in Paths, AddWatch(q) \/ PVEOpen(q) \/ PVEClose(q) PROVE Busy(p)'
  BY <1>8 DEF AddWatch, PVEOpen, PVEClose, Busy, watchVars, uploadVars, handlerVars
<1>9. ASSUME NEW u \in Uploaders, Upload(u)
      PROVE  Busy(p)' \/ (path[u] = p /\ (EnterRunning(u) \/ EnterFresh(u)))
  <2>0. pc[u] = "spawned" => path[u] \in Paths
    BY <1>0, AtWork
  <2>1. CASE EnterBlocked(u)
    <3>1. path[u] \in Paths /\ RequestUpload(path[u])
      BY <2>0, <2>1 DEF EnterBlocked
    <3>2. CASE path[u] = p
      BY <3>1, <3>2, Requested DEF Busy
    <3>3. CASE path[u] # p
      <4>1. \A v \in Uploaders : Spawned(v) => pc'[v] = "spawned" /\ path'[v] = p
        BY <1>0, <2>1, <3>3 DEF EnterBlocked, Exit, Stage
      <4>2. UNCHANGED <<events, pending, hpc, target>>
        BY <2>1 DEF EnterBlocked, handlerVars
      <4> QED BY <3>1, <4>1, <4>2, Requested DEF Busy
    <3> QED BY <3>2, <3>3
  <2>2. CASE (EnterRunning(u) \/ EnterFresh(u)) /\ path[u] # p
    <3>1. \A v \in Uploaders : Spawned(v) => pc'[v] = "spawned" /\ path'[v] = p
      BY <1>0, <2>2 DEF EnterRunning, EnterFresh, Exit, Stage
    <3>2. UNCHANGED <<watchVars, hpc, target>>
      BY <2>2 DEF EnterRunning, EnterFresh, handlerVars
    <3> QED BY <3>1, <3>2 DEF Busy, watchVars
  <2>3. CASE ~(EnterBlocked(u) \/ EnterRunning(u) \/ EnterFresh(u))
    <3>1. UNCHANGED watchVars /\ UNCHANGED <<hpc, target>>
      BY <1>9, <2>3 DEF Upload, UploadOpen, UploadArm, UploadCheck, HeadUnknown, HeadLocalWins,
         HeadRemoteWins, PutOK, PutFail, UploadLanded, UploadRecord, UploadRerun, UploadFinish,
         handlerVars
    <3>2. pc[u] # "spawned"
      BY <1>9, <2>3 DEF Upload, UploadOpen, UploadArm, UploadCheck, HeadUnknown, HeadLocalWins,
         HeadRemoteWins, PutOK, PutFail, UploadLanded, UploadRecord, UploadRerun, UploadFinish
    <3>3. \A v \in Uploaders : v # u => pc'[v] = pc[v] /\ path'[v] = path[v]
      BY <1>0, <1>9, <2>3 DEF Upload, UploadOpen, UploadArm, UploadCheck, HeadUnknown,
         HeadLocalWins, HeadRemoteWins, PutOK, PutFail, UploadLanded, UploadRecord, UploadRerun,
         UploadFinish, Return, Exit, Stage
    <3>4. (\E v \in Uploaders : Spawned(v)) => \E v \in Uploaders : pc'[v] = "spawned" /\ path'[v] = p
      BY <3>2, <3>3
    <3>5. Busy(p)'
      BY <3>1, <3>4 DEF Busy, watchVars
    <3> QED BY <3>5
  <2> QED BY <2>1, <2>2, <2>3
<1>10. ASSUME NEW t \in Timers, TimerFire(t) \/ TimerCallback(t) PROVE Busy(p)'
  <2>1. CASE TimerFire(t)
    BY <1>1, <2>1 DEF TimerFire, watchVars, uploadVars, handlerVars
  <2>2. CASE TimerCallback(t)
    <3>1. timerPath[t] \in Paths
      BY <2>2, NoneAssumption DEF TimerCallback, ControlInv, TypeOK, TimerTypeOK, TimersMatch
    <3>2. RequestUpload(timerPath[t])
      BY <2>2 DEF TimerCallback
    <3> QED BY <2>2, <3>1, <3>2, Requested DEF TimerCallback, Busy, uploadVars, handlerVars
  <2> QED BY <1>10, <2>1, <2>2
<1>11. ASSUME NEW h \in Handlers, Delete(h) \/ \E q \in Paths : DeleteBlock(h, q) PROVE Busy(p)'
  <2>1. UNCHANGED watchVars /\ UNCHANGED <<pc, path>>
    BY <1>11 DEF Delete, DeleteObject, DeleteFail, RemoveLocal, RemoveFail, Unblock, DeleteBlock,
       uploadVars
  <2>2. \A g \in Handlers : Delays(g) => Delays(g)'
    <3>1. CASE RemoveLocal(h)
      <4>1. target[h] = p => FALSE
        BY <3>1 DEF RemoveLocal, Owed, ControlInv, TypeOK, LocalTypeOK
      <4> QED BY <1>0, <3>1, <4>1 DEF RemoveLocal
    <3>2. CASE ~RemoveLocal(h)
      BY <1>0, <1>11, <3>2 DEF Delete, DeleteObject, DeleteFail, RemoveFail, Unblock, DeleteBlock,
         Quiet
    <3> QED BY <3>1, <3>2
  <2> QED BY <2>1, <2>2 DEF Busy, watchVars
<1>12. CASE Start
  BY <1>12 DEF Start, Busy, Unconfirmed, Markable, Owed, Covers, uploadVars, handlerVars, ControlInv,
     TypeOK, LocalTypeOK
<1>13. ~Crash
  BY DEF Crash
<1> QED BY <1>2, <1>3, <1>4, <1>5, <1>6, <1>7, <1>8, <1>9, <1>10, <1>11, <1>12, <1>13
        DEF Next, Watch

LEMMA ProcessNext ==
    ASSUME Quiet, ControlInv, ProcessMatch, Next
    PROVE  ProcessMatch'
<1>1. CASE Crash \/ Start
  BY <1>1 DEF ProcessMatch, Crash, Start, Quiet
<1>2. CASE ~(Crash \/ Start)
  <2>1. up' = up
    BY <1>2 DEF Next, Watch, PVEWrite, PVEOpen, PVEClose, DownloadPending, AddWatch, WatcherEvent, WatcherRequest,
       TickDrop, TickSpawn, Upload, EnterBlocked, EnterRunning, EnterFresh, UploadOpen,
       UploadArm, UploadCheck, HeadUnknown, HeadLocalWins, HeadRemoteWins, PutOK, PutFail,
       UploadLanded, UploadRecord, UploadRerun, UploadFinish, TimerFire, TimerCallback,
       Delete, DeleteObject, DeleteFail, RemoveLocal, RemoveFail, Unblock, DeleteBlock,
       hostVars
  <2>2. CASE up
    <3>1. watched' = watched
      BY <1>2, <2>2 DEF ProcessMatch, Next, Watch, PVEWrite, PVEOpen, PVEClose, DownloadPending, AddWatch,
         WatcherEvent, WatcherRequest, TickDrop, TickSpawn, Upload, EnterBlocked, EnterRunning,
         EnterFresh, UploadOpen, UploadArm, UploadCheck, HeadUnknown, HeadLocalWins,
         HeadRemoteWins, PutOK, PutFail, UploadLanded, UploadRecord, UploadRerun, UploadFinish,
         TimerFire, TimerCallback, Delete, DeleteObject, DeleteFail, RemoveLocal, RemoveFail,
         Unblock, DeleteBlock, watchVars
    <3> QED BY <2>1, <2>2, <3>1 DEF ProcessMatch
  <2>3. CASE ~up
    <3>1. \A u \in Uploaders : ~Upload(u)
      BY <2>3 DEF ProcessMatch, Upload, EnterBlocked, EnterRunning, EnterFresh, UploadOpen,
         UploadArm, UploadCheck, HeadUnknown, HeadLocalWins, HeadRemoteWins, PutOK, PutFail,
         UploadLanded, UploadRecord, UploadRerun, UploadFinish
    <3>2. pc' = pc
      BY <1>2, <2>3, <3>1 DEF Next, Watch, PVEWrite, PVEOpen, PVEClose, DownloadPending, AddWatch,
         WatcherEvent, WatcherRequest, TickDrop, TickSpawn, TimerFire, TimerCallback, Delete,
         DeleteObject, DeleteFail, RemoveLocal, RemoveFail, Unblock, DeleteBlock, uploadVars
    <3> QED BY <2>1, <2>3, <3>2 DEF ProcessMatch
  <2> QED BY <2>2, <2>3
<1> QED BY <1>1, <1>2

LEMMA CancelNext ==
    ASSUME ControlInv, CancelMatch, Next
    PROVE  CancelMatch'
<1>0. /\ canceled \in [Uploaders -> BOOLEAN] /\ waitFor \in [Handlers -> Uploaders \cup {None}]
  BY DEF ControlInv, TypeOK, UploadTypeOK, HandlerTypeOK
<1>1. ASSUME NEW u \in Uploaders, EnterFresh(u) PROVE CancelMatch'
  BY <1>0, <1>1 DEF EnterFresh, handlerVars, CancelMatch
<1>2. ASSUME NEW u \in Uploaders, UploadFinish(u) PROVE CancelMatch'
  BY <1>0, <1>2 DEF UploadFinish, CloseDone, CancelMatch
<1>3. ASSUME NEW h \in Handlers, NEW p \in Paths, DeleteBlock(h, p) PROVE CancelMatch'
  <2>1. waitFor[h] = None
    BY <1>3 DEF DeleteBlock, ControlInv, WaitsMatch
  <2>2. waitFor' = [waitFor EXCEPT ![h] = uploads[p]]
    BY <1>3 DEF DeleteBlock, InFlight
  <2>3. uploads[p] # None => canceled' = [canceled EXCEPT ![uploads[p]] = TRUE]
    BY <1>3 DEF DeleteBlock, InFlight
  <2>4. uploads[p] = None => canceled' = canceled
    BY <1>3 DEF DeleteBlock, InFlight
  <2> SUFFICES ASSUME NEW u \in Uploaders, canceled'[u] PROVE \E g \in Handlers : waitFor'[g] = u
    BY DEF CancelMatch
  <2>5. CASE canceled[u]
    <3>1. PICK g \in Handlers : waitFor[g] = u
      BY <2>5 DEF CancelMatch
    <3>2. g # h
      BY <2>1, <3>1, NoneAssumption
    <3> QED BY <1>0, <2>2, <3>1, <3>2
  <2>6. CASE ~canceled[u]
    <3>1. u = uploads[p]
      BY <1>0, <2>3, <2>4, <2>6
    <3> QED BY <1>0, <2>2, <3>1
  <2> QED BY <2>5, <2>6
<1>4. CASE Crash
  BY <1>4 DEF Crash, CancelMatch
<1>5. CASE UNCHANGED <<canceled, waitFor>>
  BY <1>5 DEF CancelMatch
<1> QED BY <1>1, <1>2, <1>3, <1>4, <1>5 DEF Next, Watch, PVEWrite, PVEOpen, PVEClose, DownloadPending, AddWatch,
       WatcherEvent, WatcherRequest, TickDrop, TickSpawn, Upload, EnterBlocked, EnterRunning,
       UploadOpen, UploadArm, UploadCheck, HeadUnknown, HeadLocalWins, HeadRemoteWins, PutOK,
       PutFail, UploadLanded, UploadRecord, UploadRerun, TimerFire, TimerCallback, Delete,
       DeleteObject, DeleteFail, RemoveLocal, RemoveFail, Unblock, Start, uploadVars, handlerVars

\* A canceled upload has a delete that waits for it.
LEMMA CanceledBusy ==
    ASSUME ControlInv, CancelMatch, NEW u \in Uploaders, canceled[u], pc[u] \in Registered
    PROVE  Busy(path[u])
<1>1. PICK h \in Handlers : waitFor[h] = u
  BY DEF CancelMatch
<1>2. hpc[h] = "waiting" /\ uploads[target[h]] = u /\ target[h] \in Paths
  BY <1>1, NoneAssumption DEF ControlInv, TypeOK, HandlerTypeOK, WaitsMatch
<1>3. path[u] = target[h]
  BY <1>2, NoneAssumption DEF ControlInv, UploadsMatch
<1> QED BY <1>2, <1>3 DEF Busy

\* The steps of the upload itself: before it returns without a retry it has recorded the
\* file as it is, or the file is gone, or it has been canceled.
LEMMA DoubtOwn ==
    ASSUME Quiet, EngagedInv, Next, NEW u \in Uploaders, Upload(u), pc'[u] \in Registered,
           Doubtful(u)', Owed(path[u])'
    PROVE  rerun'[u] \/ Busy(path[u])'
<1> DEFINE p == path[u]
<1>0. /\ file \in [Paths -> Versions] /\ meta \in [Paths -> {"none", "pending", "synced"}]
      /\ metaVer \in [Paths -> Versions] /\ remarked \in [Paths -> BOOLEAN]
      /\ pc \in [Uploaders -> UploadPC] /\ path \in [Uploaders -> Paths \cup {None}]
      /\ snap \in [Uploaders -> Versions] /\ retry \in [Uploaders -> BOOLEAN]
      /\ ControlInv
  BY DEF EngagedInv, ControlInv, TypeOK, LocalTypeOK, UploadTypeOK
<1>1. CASE EnterBlocked(u) \/ EnterRunning(u) \/ UploadFinish(u)
  BY <1>0, <1>1 DEF EnterBlocked, EnterRunning, UploadFinish, Exit, Stage, Registered
<1>2. CASE EnterFresh(u) \/ UploadRerun(u)
  <2>1. path[u] \in Paths
    BY <1>0, <1>2, AtWork DEF EnterFresh, UploadRerun
  <2> QED BY <1>0, <1>2, <2>1 DEF EnterFresh, UploadRerun, Stage, Doubtful
<1>3. CASE \/ UploadOpen(u) \/ UploadArm(u) \/ UploadCheck(u) \/ HeadUnknown(u) \/ HeadLocalWins(u)
           \/ HeadRemoteWins(u) \/ PutOK(u) \/ PutFail(u) \/ UploadLanded(u) \/ UploadRecord(u)
  <2>1. /\ pc[u] \in Registered /\ pc[u] # "returned"
        /\ UNCHANGED <<path, rerun, watchVars, hpc, target, file>>
    BY <1>3 DEF UploadOpen, UploadArm, UploadCheck, HeadUnknown, HeadLocalWins, HeadRemoteWins,
       PutOK, PutFail, UploadLanded, UploadRecord, Registered, UploadPC, localVars, handlerVars
  <2>2. p \in Paths
    BY <1>0, <2>1, AtWork DEF Registered
  <2>3. pc' = [pc EXCEPT ![u] = pc'[u]] /\ pc'[u] # pc[u]
    BY <1>0, <1>3 DEF UploadOpen, UploadArm, UploadCheck, HeadUnknown, HeadLocalWins, HeadRemoteWins,
       PutOK, PutFail, UploadLanded, UploadRecord, Stage, Return
  <2>4. Busy(p) => Busy(p)'
    <3>1. \A v \in Uploaders : pc[v] = "spawned" => pc'[v] = "spawned"
      BY <1>0, <2>1, <2>3 DEF Registered
    <3> QED BY <2>1, <3>1 DEF Busy, watchVars
  <2>5. Owed(p)
    <3> SUFFICES ASSUME ~Owed(p) PROVE FALSE
      OBVIOUS
    <3>1. PVEWrite(p)
      BY <1>0, <2>2, <2>1, OwedByWrite
    <3> QED BY <2>3, <3>1 DEF PVEWrite, uploadVars
  <2>6. Doubtful(u) \/ canceled[u]
    <3>1. CASE UploadOpen(u)
      BY <1>0, <2>1, <2>2, <2>5, <3>1 DEF UploadOpen, Return, Stage, Doubtful, Owed, localVars
    <3>2. CASE UploadArm(u) \/ UploadLanded(u)
      BY <1>0, <2>1, <3>2 DEF UploadArm, UploadLanded, Return, Stage, Doubtful, localVars
    <3>3. CASE UploadCheck(u)
      BY <1>0, <2>1, <2>5, <3>3 DEF UploadCheck, Return, Stage, Doubtful, Owed, localVars
    <3>4. CASE HeadUnknown(u) \/ PutFail(u)
      BY <1>0, <3>4 DEF HeadUnknown, PutFail, Return, Stage, Doubtful
    <3>5. CASE HeadLocalWins(u)
      <4>1. pc'[u] = "put" /\ snap' = snap /\ ~remarked'[p] /\ pc[u] = "head"
        BY <1>0, <2>2, <3>5 DEF HeadLocalWins, Stage
      <4> QED BY <2>1, <4>1 DEF Doubtful
    <3>6. CASE HeadRemoteWins(u)
      <4>1. ~Fresh(p, snap[u])
        BY <1>0, <2>1, <2>2, <3>6 DEF HeadRemoteWins, WriteSynced, Owed, Covers
      <4> QED BY <2>5, <3>6, <4>1 DEF HeadRemoteWins, Fresh, Owed, Doubtful
    <3>7. CASE PutOK(u)
      BY <1>0, <2>1, <3>7 DEF PutOK, Stage, Doubtful, localVars
    <3>8. CASE UploadRecord(u)
      <4>1. ~Fresh(p, snap[u])
        BY <1>0, <2>1, <2>2, <3>8 DEF UploadRecord, WriteSynced, Owed, Covers
      <4> QED BY <2>5, <3>8, <4>1 DEF UploadRecord, Fresh, Owed, Doubtful
    <3> QED BY <1>3, <3>1, <3>2, <3>3, <3>4, <3>5, <3>6, <3>7, <3>8
  <2>7. rerun[u] \/ Busy(p)
    BY <2>1, <2>5, <2>6, CanceledBusy DEF EngagedInv, DoubtMatch
  <2> QED BY <2>1, <2>4, <2>7
<1> QED BY <1>1, <1>2, <1>3 DEF Upload

\* The steps of others, for an upload at work: what they change of it and of its file.
LEMMA DoubtOther ==
    ASSUME Quiet, EngagedInv, Next, NEW u \in Uploaders, pc'[u] \in Registered, ~Upload(u)
    PROVE  /\ pc'[u] = pc[u] /\ path'[u] = path[u] /\ path[u] \in Paths /\ up /\ up'
           /\ snap'[u] = snap[u] /\ retry'[u] = retry[u]
           /\ rerun'[u] \/ rerun'[u] = rerun[u] \/ Busy(path[u])'
           /\ \/ /\ file'[path[u]] = file[path[u]] /\ meta'[path[u]] = meta[path[u]]
                 /\ remarked'[path[u]] = remarked[path[u]]
              \/ PVEWrite(path[u])
              \/ WatcherEvent(path[u])
              \/ file'[path[u]] = 0
<1> DEFINE p == path[u]
<1>0. /\ file \in [Paths -> Versions] /\ meta \in [Paths -> {"none", "pending", "synced"}]
      /\ metaVer \in [Paths -> Versions] /\ remarked \in [Paths -> BOOLEAN]
      /\ pc \in [Uploaders -> UploadPC] /\ path \in [Uploaders -> Paths \cup {None}]
      /\ snap \in [Uploaders -> Versions] /\ retry \in [Uploaders -> BOOLEAN]
      /\ rerun \in [Uploaders -> BOOLEAN] /\ hpc \in [Handlers -> HandlerPC]
      /\ target \in [Handlers -> Paths \cup {None}]
      /\ ControlInv /\ ProcessMatch
  BY DEF EngagedInv, ControlInv, TypeOK, LocalTypeOK, UploadTypeOK, HandlerTypeOK
<1>1. ASSUME NEW v \in Uploaders, v # u, Upload(v)
      PROVE  /\ pc'[u] = pc[u] /\ path'[u] = path[u] /\ snap'[u] = snap[u] /\ retry'[u] = retry[u]
             /\ rerun'[u] \/ rerun'[u] = rerun[u]
             /\ file' = file /\ up' = up
  BY <1>0, <1>1 DEF Upload, EnterBlocked, EnterRunning, EnterFresh, UploadOpen,
     UploadArm, UploadCheck, HeadUnknown, HeadLocalWins, HeadRemoteWins, PutOK, PutFail,
     UploadLanded, UploadRecord, UploadRerun, UploadFinish, Stage, Return, Exit, localVars, hostVars
<1>2. ASSUME NEW v \in Uploaders, v # u, Upload(v), pc[u] \in Registered
      PROVE  meta'[p] = meta[p] /\ remarked'[p] = remarked[p]
  <2>0. p \in Paths
    BY <1>0, <1>2, AtWork DEF Registered
  <2>1. CASE UNCHANGED <<meta, remarked>>
    BY <2>1
  <2>2. CASE EnterFresh(v)
    <3>1. path[v] # p /\ path[v] \in Paths
      BY <1>0, <1>2, <2>2, AtWork, NoneAssumption DEF EnterFresh, UploadRunning
    <3> QED BY <1>0, <2>0, <2>2, <3>1 DEF EnterFresh
  <2>3. CASE HeadLocalWins(v) \/ HeadRemoteWins(v) \/ UploadRecord(v) \/ UploadRerun(v)
    <3>1. path[v] # p /\ path[v] \in Paths
      BY <1>0, <1>2, <2>3, AtWork DEF HeadLocalWins, HeadRemoteWins, UploadRecord, UploadRerun,
         Registered, UploadPC
    <3> QED BY <1>0, <2>0, <2>3, <3>1 DEF HeadLocalWins, HeadRemoteWins, UploadRecord, UploadRerun,
            WritePending, WriteSynced, MarkPending
  <2> QED BY <1>2, <2>1, <2>2, <2>3 DEF Upload, EnterBlocked, EnterRunning, UploadOpen,
     UploadArm, UploadCheck, HeadUnknown, PutOK, PutFail, UploadLanded, UploadFinish, localVars
<1>3. CASE \E v \in Uploaders : Upload(v)
  <2>1. PICK v \in Uploaders : v # u /\ Upload(v)
    BY <1>3
  <2>2. pc[u] \in Registered
    BY <1>1, <2>1
  <2>3. up /\ p \in Paths
    BY <1>0, <2>2, AtWork DEF ProcessMatch, Registered
  <2> QED BY <1>1, <1>2, <2>1, <2>2, <2>3
<1>4. CASE \E q \in Paths : TickSpawn(q)
  <2>1. UNCHANGED <<up, file, meta, remarked, snap, retry, rerun>> /\ pc'[u] = pc[u] /\ path'[u] = path[u]
    BY <1>0, <1>4 DEF TickSpawn, localVars, hostVars, Registered
  <2> QED BY <1>0, <2>1, AtWork DEF ProcessMatch, Registered
<1>5. CASE UNCHANGED <<pc, path>> /\ ~(\E v \in Uploaders : Upload(v)) /\ ~(\E q \in Paths : TickSpawn(q))
  <2>1. up /\ p \in Paths /\ pc[u] \in Registered
    BY <1>0, <1>5, AtWork DEF ProcessMatch, Registered
  <2>2. CASE \E h \in Handlers, q \in Paths : DeleteBlock(h, q)
    <3>1. PICK h \in Handlers, q \in Paths : DeleteBlock(h, q)
      BY <2>2
    <3>2. q = p => Busy(p)'
      <4>1. q = p => target'[h] = p /\ hpc'[h] = "waiting"
        BY <1>0, <2>1, <3>1 DEF DeleteBlock
      <4> QED BY <1>5, <4>1 DEF Busy
    <3>3. q # p => rerun'[u] = rerun[u]
      <4>1. q # p => uploads[q] # u
        BY <1>0, <2>1, NoneAssumption DEF ControlInv, UploadsMatch
      <4> QED BY <1>0, <3>1, <4>1 DEF DeleteBlock, InFlight
    <3> QED BY <1>5, <2>1, <3>1, <3>2, <3>3 DEF DeleteBlock, hostVars, localVars
  <2>3. CASE \E q \in Paths : PVEWrite(q) \/ WatcherEvent(q)
    <3>1. PICK q \in Paths : PVEWrite(q) \/ WatcherEvent(q)
      BY <2>3
    <3>2. CASE q = p
      BY <1>5, <2>1, <3>1, <3>2 DEF PVEWrite, WatcherEvent, hostVars, uploadVars
    <3>3. CASE q # p
      <4>1. file'[p] = file[p] /\ meta'[p] = meta[p] /\ remarked'[p] = remarked[p]
        BY <1>0, <2>1, <3>1, <3>3 DEF PVEWrite, WatcherEvent, MarkPending, WritePending
      <4> QED BY <1>5, <2>1, <3>1, <4>1 DEF PVEWrite, WatcherEvent, hostVars, uploadVars
    <3> QED BY <3>2, <3>3
  <2>4. CASE \E h \in Handlers : Delete(h)
    <3>1. PICK h \in Handlers : Delete(h)
      BY <2>4
    <3>2. CASE RemoveLocal(h)
      <4>1. target[h] \in Paths
        BY <1>0, <3>2, NoneAssumption DEF RemoveLocal, ControlInv, WaitsMatch
      <4>2. \/ file'[p] = 0
            \/ file'[p] = file[p] /\ meta'[p] = meta[p] /\ remarked'[p] = remarked[p]
        BY <1>0, <2>1, <3>2, <4>1 DEF RemoveLocal
      <4> QED BY <1>5, <2>1, <3>2, <4>2 DEF RemoveLocal, hostVars, uploadVars
    <3>3. CASE ~RemoveLocal(h)
      BY <1>5, <2>1, <3>1, <3>3 DEF Delete, DeleteObject, DeleteFail, RemoveFail, Unblock, Quiet,
         hostVars, localVars, uploadVars
    <3> QED BY <3>2, <3>3
  <2>5. CASE WatcherRequest \/ (\E t \in Timers : TimerFire(t) \/ TimerCallback(t))
             \/ (\E q \in Paths : PVEOpen(q) \/ PVEClose(q) \/ DownloadPending(q) \/ AddWatch(q)
                                \/ TickDrop(q))
    BY <1>5, <2>1, <2>5 DEF PVEOpen, PVEClose, WatcherRequest, TimerFire, TimerCallback, DownloadPending, AddWatch,
       TickDrop, hostVars, localVars, uploadVars
  <2>6. ~Crash
    BY <1>0 DEF Crash, Registered
  <2>7. ~Start
    BY <2>1 DEF Start
  <2> QED BY <1>5, <2>2, <2>3, <2>4, <2>5, <2>6, <2>7 DEF Next, Watch
<1>6. ~Crash
  BY <1>0 DEF Crash, Registered
<1> QED BY <1>3, <1>4, <1>5, <1>6 DEF Next, Watch, PVEWrite, PVEOpen, PVEClose, DownloadPending, AddWatch,
    WatcherEvent, WatcherRequest, TickDrop, TimerFire, TimerCallback, Delete, DeleteObject,
    DeleteFail, RemoveLocal, RemoveFail, Unblock, DeleteBlock, Start, uploadVars

LEMMA DoubtNext ==
    ASSUME Quiet, Roomy, EngagedInv, Next
    PROVE  DoubtMatch'
<1> SUFFICES ASSUME NEW u \in Uploaders, pc'[u] \in Registered, Doubtful(u)', Owed(path[u])'
             PROVE  rerun'[u] \/ Busy(path[u])'
  BY DEF DoubtMatch, Registered, UploadPC
<1>0. /\ ControlInv /\ events \in [Paths -> Nat] /\ rerun \in [Uploaders -> BOOLEAN]
      /\ remarked \in [Paths -> BOOLEAN]
  BY DEF EngagedInv, ControlInv, TypeOK, WatchTypeOK, UploadTypeOK, LocalTypeOK
<1>1. CASE Upload(u)
  BY <1>1, DoubtOwn
<1>2. CASE ~Upload(u)
  <2>0. PICK p \in Paths : p = path[u]
    BY <1>2, DoubtOther
  <2>1. /\ pc'[u] = pc[u] /\ path'[u] = p /\ path[u] = p /\ up /\ up'
        /\ snap'[u] = snap[u] /\ retry'[u] = retry[u]
        /\ rerun'[u] \/ rerun'[u] = rerun[u] \/ Busy(path[u])'
        /\ \/ file'[p] = file[p] /\ meta'[p] = meta[p] /\ remarked'[p] = remarked[p]
           \/ PVEWrite(p)
           \/ WatcherEvent(p)
           \/ file'[p] = 0
    BY <1>2, <2>0, DoubtOther
  <2>2. file'[p] # 0 /\ Owed(p)'
    BY <2>1 DEF Owed, Covers
  <2>3. CASE PVEWrite(p)
    <3>1. events'[p] > 0
      BY <1>0, <2>1, <2>3 DEF PVEWrite, EngagedInv, ProcessMatch
    <3> QED BY <2>1, <3>1 DEF Busy
  <2>4. CASE Doubtful(u) /\ Owed(p)
    <3>1. rerun[u] \/ Busy(p)
      BY <2>1, <2>4 DEF EngagedInv, DoubtMatch
    <3>2. CASE Busy(p)
      <4>1. \/ Busy(p)'
            \/ \E v \in Uploaders : path[v] = p /\ (EnterRunning(v) \/ EnterFresh(v))
        BY <1>0, <2>1, <2>2, <3>2, BusyKept
      <4>2. CASE \E v \in Uploaders : path[v] = p /\ (EnterRunning(v) \/ EnterFresh(v))
        <5>1. PICK v \in Uploaders : path[v] = p /\ (EnterRunning(v) \/ EnterFresh(v))
          BY <4>2
        <5>2. uploads[p] = u
          BY <1>0, <2>1, AtWork
        <5> QED BY <1>0, <5>1, <5>2, NoneAssumption DEF EnterRunning, EnterFresh, UploadRunning
      <4> QED BY <2>1, <4>1, <4>2 DEF Busy
    <3> QED BY <2>1, <3>1, <3>2
  <2>5. CASE ~Owed(p)
    <3>1. PVEWrite(p)
      BY <1>0, <2>2, <2>5, OwedByWrite
    <3> QED BY <2>3, <3>1
  <2>6. CASE ~Doubtful(u) /\ Owed(p) /\ ~PVEWrite(p)
    <3>1. WatcherEvent(p)
      BY <2>1, <2>2, <2>6 DEF Doubtful
    <3>2. p \in pending'
      BY <1>0, <2>1, <2>6, <3>1 DEF WatcherEvent, MarkPending, Markable, Owed, Doubtful
    <3> QED BY <2>1, <3>2 DEF Busy
  <2> QED BY <2>3, <2>4, <2>5, <2>6
<1> QED BY <1>1, <1>2

\* The upload of a path ends: it leaves a timer, or somebody who is busy.
LEMMA OwedFinish ==
    ASSUME EngagedInv, NEW p \in Paths, NEW u \in Uploaders, path[u] = p, UploadFinish(u), Owed(p)
    PROVE  Busy(p)' \/ \E t \in Timers : timerPath'[t] = p
<1>0. /\ ControlInv /\ p = path[u] /\ pc[u] = "returned" /\ pc[u] \in Registered
  BY AtWork DEF EngagedInv, UploadFinish, Registered, UploadPC
<1>1. CASE RetryWanted(u)
  <2>1. ScheduleRetry(p)
    BY <1>0, <1>1 DEF UploadFinish
  <2>2. CASE retryTimers[p] # None
    BY <1>0, <2>1, <2>2 DEF ScheduleRetry, ControlInv, TypeOK, TimerTypeOK, TimersMatch
  <2>3. CASE retryTimers[p] = None
    BY <1>0, <2>1, <2>3 DEF ScheduleRetry, ControlInv, TypeOK, TimerTypeOK
  <2> QED BY <2>2, <2>3
<1>2. CASE ~RetryWanted(u)
  <2>1. Busy(p)
    <3>1. CASE canceled[u]
      BY <1>0, <3>1, CanceledBusy DEF EngagedInv
    <3>2. CASE ~canceled[u]
      <4>1. ~rerun[u] /\ ~retry[u]
        BY <1>2, <3>2 DEF UploadFinish, RerunWanted, RetryWanted
      <4> QED BY <1>0, <4>1 DEF EngagedInv, DoubtMatch, Doubtful
    <3> QED BY <3>1, <3>2
  <2>2. UNCHANGED <<watchVars, hpc, target>>
    BY DEF UploadFinish
  <2>3. \A v \in Uploaders : pc[v] = "spawned" => pc'[v] = "spawned" /\ path'[v] = path[v]
    BY <1>0 DEF UploadFinish, Exit, Stage, ControlInv, TypeOK, UploadTypeOK
  <2>4. Busy(p)'
    BY <2>1, <2>2, <2>3 DEF Busy, watchVars
  <2> QED BY <2>4
<1> QED BY <1>1, <1>2

LEMMA OwedNext ==
    ASSUME Quiet, Roomy, EngagedInv, Next
    PROVE  OwedMatch'
<1> SUFFICES ASSUME NEW p \in Paths, up', Owed(p)'
             PROVE  Busy(p)' \/ uploads'[p] # None \/ \E t \in Timers : timerPath'[t] = p
  BY DEF OwedMatch
<1>0. /\ ControlInv /\ ProcessMatch /\ events \in [Paths -> Nat]
      /\ file \in [Paths -> Versions] /\ meta \in [Paths -> {"none", "pending", "synced"}]
      /\ metaVer \in [Paths -> Versions]
      /\ uploads \in [Paths -> Uploaders \cup {None}]
      /\ timerPath \in [Timers -> Paths \cup {None}]
  BY DEF EngagedInv, ControlInv, TypeOK, WatchTypeOK, UploadTypeOK, TimerTypeOK, LocalTypeOK
<1>1. CASE Start
  <2>1. p \in pending'
    BY <1>0, <1>1 DEF Start, Unconfirmed, Markable, Owed, Covers
  <2> QED BY <2>1 DEF Busy
<1>2. CASE ~Owed(p) /\ ~Start
  <2>1. PVEWrite(p)
    BY <1>0, <1>2, OwedByWrite
  <2>2. up
    BY <2>1 DEF PVEWrite, hostVars
  <2>3. events'[p] > 0
    BY <1>0, <2>1, <2>2 DEF PVEWrite, ProcessMatch
  <2> QED BY <2>3 DEF Busy
<1>3. CASE Owed(p) /\ ~Start
  <2>1. up
    <3> SUFFICES ASSUME ~up PROVE FALSE
      OBVIOUS
    <3>1. up' = up
      BY <1>3 DEF Next, Watch, PVEWrite, PVEOpen, PVEClose, DownloadPending, AddWatch, WatcherEvent, WatcherRequest,
         TickDrop, TickSpawn, Upload, EnterBlocked, EnterRunning, EnterFresh, UploadOpen,
         UploadArm, UploadCheck, HeadUnknown, HeadLocalWins, HeadRemoteWins, PutOK, PutFail,
         UploadLanded, UploadRecord, UploadRerun, UploadFinish, TimerFire, TimerCallback,
         Delete, DeleteObject, DeleteFail, RemoveLocal, RemoveFail, Unblock, DeleteBlock,
         Crash, hostVars
    <3> QED BY <3>1
  <2>2. CASE \E u \in Uploaders : path[u] = p /\ UploadFinish(u)
    BY <1>3, <2>2, OwedFinish
  <2>3. CASE Busy(p) /\ ~\E u \in Uploaders : path[u] = p /\ UploadFinish(u)
    <3>1. CASE Busy(p)'
      BY <3>1
    <3>2. CASE ~Busy(p)'
      <4>1. PICK u \in Uploaders : path[u] = p /\ (EnterRunning(u) \/ EnterFresh(u))
        BY <1>0, <2>3, <3>2, BusyKept
      <4> QED BY <1>0, <4>1, NoneAssumption DEF EnterRunning, EnterFresh, UploadRunning
    <3> QED BY <3>1, <3>2
  <2>4. CASE uploads[p] # None /\ ~\E u \in Uploaders : path[u] = p /\ UploadFinish(u)
    <3>1. ~Crash
      BY DEF Crash
    <3>2. CASE \E u \in Uploaders : EnterFresh(u)
      BY <1>0, <2>4, <3>2, NoneAssumption DEF EnterFresh
    <3>4. CASE \E u \in Uploaders : UploadFinish(u)
      <4>1. PICK u \in Uploaders : UploadFinish(u) /\ path[u] # p
        BY <2>4, <3>4
      <4> QED BY <1>0, <2>4, <4>1 DEF UploadFinish
    <3>3. CASE ~\E u \in Uploaders : EnterFresh(u) \/ UploadFinish(u)
      <4>1. uploads' = uploads
        BY <1>3, <2>4, <3>1, <3>3 DEF Next, Watch, PVEWrite, PVEOpen, PVEClose, DownloadPending, AddWatch,
           WatcherEvent, WatcherRequest, TickDrop, TickSpawn, Upload, EnterBlocked, EnterRunning,
           UploadOpen, UploadArm, UploadCheck, HeadUnknown, HeadLocalWins, HeadRemoteWins, PutOK,
           PutFail, UploadLanded, UploadRecord, UploadRerun, TimerFire, TimerCallback, Delete,
           DeleteObject, DeleteFail, RemoveLocal, RemoveFail, Unblock, DeleteBlock, uploadVars
      <4> QED BY <2>4, <4>1
    <3> QED BY <3>2, <3>3, <3>4
  <2>5. CASE (\E t \in Timers : timerPath[t] = p) /\ ~\E u \in Uploaders : path[u] = p /\ UploadFinish(u)
    <3>1. PICK t \in Timers : timerPath[t] = p
      BY <2>5
    <3>2. CASE \E s \in Timers : TimerCallback(s)
      <4>1. PICK s \in Timers : TimerCallback(s)
        BY <3>2
      <4>2. timerPath[s] \in Paths
        BY <1>0, <4>1 DEF TimerCallback, ControlInv, TimersMatch
      <4>3. CASE timerPath[s] = p
        <5>1. \E i \in DOMAIN queue' : queue'[i] = p
          BY <1>0, <4>1, <4>2, <4>3, Requested DEF TimerCallback
        <5> QED BY <5>1 DEF Busy
      <4>4. CASE timerPath[s] # p
        BY <1>0, <3>1, <4>1, <4>4 DEF TimerCallback, Freed
      <4> QED BY <4>3, <4>4
    <3>4. CASE \E u \in Uploaders : UploadFinish(u)
      <4>1. PICK u \in Uploaders : UploadFinish(u) /\ path[u] # p
        BY <2>5, <3>4
      <4>2. path[u] \in Paths
        BY <1>0, <4>1, AtWork DEF UploadFinish
      <4>3. \A q \in Paths : retryTimers[q] # None => timerPath[retryTimers[q]] = q
        BY <1>0 DEF ControlInv, TimersMatch
      <4>4. timerPath'[t] = p
        BY <1>0, <3>1, <4>1, <4>2, <4>3, NoneAssumption DEF UploadFinish, ScheduleRetry, StopRetry, Freed
      <4> QED BY <4>4
    <3>3. CASE (~\E s \in Timers : TimerCallback(s)) /\ ~\E u \in Uploaders : UploadFinish(u)
      <4>1. timerPath' = timerPath \/ Crash
        BY <1>3, <2>5, <3>3 DEF Next, Watch, PVEWrite, PVEOpen, PVEClose, DownloadPending, AddWatch,
           WatcherEvent, WatcherRequest, TickDrop, TickSpawn, Upload, EnterBlocked, EnterRunning,
           EnterFresh, UploadOpen, UploadArm, UploadCheck, HeadUnknown, HeadLocalWins,
           HeadRemoteWins, PutOK, PutFail, UploadLanded, UploadRecord, UploadRerun, TimerFire,
           Delete, DeleteObject, DeleteFail, RemoveLocal, RemoveFail, Unblock, DeleteBlock, timerVars
      <4>2. ~Crash
        BY DEF Crash
      <4> QED BY <3>1, <4>1, <4>2
    <3> QED BY <3>2, <3>3, <3>4
  <2> QED BY <1>3, <2>1, <2>2, <2>3, <2>4, <2>5 DEF EngagedInv, OwedMatch
<1> QED BY <1>1, <1>2, <1>3


LEMMA EngagedNext == Quiet /\ Roomy /\ EngagedInv /\ [Next]_vars => EngagedInv'
<1> SUFFICES ASSUME Quiet, Roomy, EngagedInv, [Next]_vars PROVE EngagedInv'
  OBVIOUS
<1>1. CASE Next
  BY <1>1, ControlNext, ProcessNext, CancelNext, DoubtNext, OwedNext DEF EngagedInv
<1>2. CASE UNCHANGED vars
  <2>1. ControlInv'
    BY ControlNext DEF EngagedInv
  <2>2. ProcessMatch' /\ CancelMatch'
    BY <1>2 DEF EngagedInv, ProcessMatch, CancelMatch, vars, hostVars, watchVars, uploadVars,
       handlerVars
  <2>3. DoubtMatch'
    BY <1>2 DEF EngagedInv, DoubtMatch, Doubtful, Owed, Covers, Busy, Registered, UploadPC, vars,
       localVars, watchVars, uploadVars, handlerVars
  <2>4. OwedMatch'
    BY <1>2 DEF EngagedInv, OwedMatch, Owed, Covers, Busy, vars, hostVars, localVars,
       watchVars, uploadVars, timerVars, handlerVars
  <2> QED BY <2>1, <2>2, <2>3, <2>4 DEF EngagedInv
<1> QED BY <1>1, <1>2

\* The invariant holds as long as no request is lost to a full channel.
LEMMA EngagedAlways ==
    ASSUME Quiet
    PROVE  Spec /\ []Roomy => [](EngagedInv /\ NoWriteForgotten)
<1>1. Init => EngagedInv
  <2> SUFFICES ASSUME Init PROVE EngagedInv
    OBVIOUS
  <2>1. ~up /\ (\A u \in Uploaders : pc[u] = "idle" /\ ~canceled[u])
    BY DEF Init, FreshProcess
  <2> QED BY <2>1, ControlInit DEF EngagedInv, ProcessMatch, CancelMatch, DoubtMatch, OwedMatch,
          Registered
<1>2. EngagedInv /\ Roomy /\ [Next]_vars => EngagedInv'
  BY EngagedNext
<1>3. EngagedInv => NoWriteForgotten
  <2> SUFFICES ASSUME EngagedInv, NEW p \in Paths, up, Owed(p) PROVE Engaged(p)
    BY DEF NoWriteForgotten
  <2>1. CASE Busy(p)
    BY <2>1 DEF Busy, Engaged
  <2>2. CASE uploads[p] # None /\ ~Busy(p)
    <3>1. PICK u \in Uploaders : uploads[p] = u
      BY <2>2 DEF EngagedInv, ControlInv, TypeOK, UploadTypeOK
    <3>2. pc[u] \in Registered /\ path[u] = p
      BY <2>2, <3>1 DEF EngagedInv, ControlInv, UploadsMatch
    <3>3. pc[u] = "returned" => (retry[u] \/ rerun[u]) /\ ~canceled[u]
      BY <2>2, <3>2, CanceledBusy DEF EngagedInv, DoubtMatch, Doubtful
    <3> QED BY <3>2, <3>3 DEF Engaged
  <2> QED BY <2>1, <2>2 DEF EngagedInv, OwedMatch, Engaged
<1> QED BY <1>1, <1>2, <1>3, PTL DEF Spec

\* watcher.go (uploadNewFile, uploadOnce, scheduleRetry, blockUploads): no order of events,
\* ticks, reruns, retries, deletes and restarts leaves a written file that is not recorded as
\* uploaded with nobody to look at it, for any number of cached paths, as long as the channel
\* of requests (1024 entries, api.go:79) is not full -- for deletes that succeed and
\* directories watched from the start, without either of which it does happen.
THEOREM NothingForgotten ==
    ASSUME Quiet
    PROVE  Spec /\ []Roomy => []NoWriteForgotten
BY EngagedAlways, PTL

\* The same for one cached path, whatever the channel holds: when it is full, the path is in
\* it (requestUpload drops what does not fit).
THEOREM OnePathNotForgotten ==
    ASSUME Quiet, QueueCap > 0, \A p, q \in Paths : p = q
    PROVE  Spec => []NoWriteForgotten
<1>1. ControlInv => Roomy
  <2> SUFFICES ASSUME ControlInv, ~(Len(queue) < QueueCap), NEW p \in Paths
               PROVE  \E i \in DOMAIN queue : queue[i] = p
    BY DEF Roomy
  <2>1. queue \in Seq(Paths)
    BY DEF ControlInv, TypeOK, WatchTypeOK
  <2>2. 1 \in DOMAIN queue /\ queue[1] \in Paths
    BY <2>1, BoundAssumption
  <2> QED BY <2>2
<1> QED BY <1>1, ControlInvariant, NothingForgotten, PTL

============================================================================
