------------------------- MODULE UploadControlProofs -------------------------
(***************************************************************************)
(* Proofs about UploadControl, for every number of paths, goroutines,      *)
(* timers and handlers, every queue capacity and every bound.              *)
(***************************************************************************)
EXTENDS UploadControl, FiniteSetTheorems, TLAPS

(***************************************************************************)
(* A conjunct of the invariant holds on when its variables do not change.  *)
(***************************************************************************)
\* Each part of the invariant depends only on its own variables.
LEMMA Frame ==
    /\ LocalTypeOK /\ UNCHANGED <<hostVars, file, writes, meta, metaVer, remarked, gone, remote>> => LocalTypeOK'
    /\ WatchTypeOK /\ UNCHANGED <<watched, pending, events, queue>> => WatchTypeOK'
    /\ UploadTypeOK /\ UNCHANGED <<uploads, pc, path, snap, retry, rerun, canceled>> => UploadTypeOK'
    /\ TimerTypeOK /\ UNCHANGED <<retries, retryTimers, timerPath, armed, fired>> => TimerTypeOK'
    /\ HandlerTypeOK /\ UNCHANGED <<blocked, hpc, target, waitFor>> => HandlerTypeOK'
    /\ UploadsMatch /\ UNCHANGED <<uploads, pc, path>> => UploadsMatch'
    /\ WaitsMatch /\ UNCHANGED <<hpc, target, waitFor, uploads>> => WaitsMatch'
    /\ BlocksMatch /\ UNCHANGED <<blocked, target>> => BlocksMatch'
    /\ TimersMatch /\ UNCHANGED <<retryTimers, timerPath, armed, fired>> => TimersMatch'
<1>1. LocalTypeOK /\ UNCHANGED <<hostVars, file, writes, meta, metaVer, remarked, gone, remote>> => LocalTypeOK'
    BY DEF LocalTypeOK, Versions, hostVars
<1>2. WatchTypeOK /\ UNCHANGED <<watched, pending, events, queue>> => WatchTypeOK'
    BY DEF WatchTypeOK
<1>3. UploadTypeOK /\ UNCHANGED <<uploads, pc, path, snap, retry, rerun, canceled>> => UploadTypeOK'
    BY DEF UploadTypeOK, UploadPC, Versions
<1>4. TimerTypeOK /\ UNCHANGED <<retries, retryTimers, timerPath, armed, fired>> => TimerTypeOK'
    BY DEF TimerTypeOK
<1>5. HandlerTypeOK /\ UNCHANGED <<blocked, hpc, target, waitFor>> => HandlerTypeOK'
    BY DEF HandlerTypeOK, HandlerPC
<1>6. UploadsMatch /\ UNCHANGED <<uploads, pc, path>> => UploadsMatch'
    BY DEF UploadsMatch, Registered, UploadPC
<1>7. WaitsMatch /\ UNCHANGED <<hpc, target, waitFor, uploads>> => WaitsMatch'
    BY DEF WaitsMatch
<1>8. BlocksMatch /\ UNCHANGED <<blocked, target>> => BlocksMatch'
    BY DEF BlocksMatch, Deleting
<1>9. TimersMatch /\ UNCHANGED <<retryTimers, timerPath, armed, fired>> => TimersMatch'
    BY DEF TimersMatch
<1> QED BY <1>1, <1>2, <1>3, <1>4, <1>5, <1>6, <1>7, <1>8, <1>9

\* Metadata marks keep their types.
LEMMA MarkPendingType ==
    ASSUME LocalTypeOK, NEW p \in Paths, MarkPending(p)
    PROVE  /\ meta' \in [Paths -> {"none", "pending", "synced"}]
           /\ metaVer' \in [Paths -> Versions]
           /\ remarked' \in [Paths -> BOOLEAN]
<1>1. CASE Markable(p)
  <2>1. meta' = [meta EXCEPT ![p] = "pending"] /\ metaVer' = [metaVer EXCEPT ![p] = file[p]]
    BY <1>1 DEF MarkPending, WritePending
  <2>2. remarked' = [remarked EXCEPT ![p] = TRUE]
    BY <1>1 DEF MarkPending
  <2> QED BY <2>1, <2>2 DEF LocalTypeOK
<1>2. CASE ~Markable(p)
  BY <1>2 DEF LocalTypeOK, MarkPending
<1> QED BY <1>1, <1>2

\* A working goroutine moves to another working stage.
LEMMA MoveStage ==
    ASSUME UploadTypeOK, UploadsMatch, NEW u \in Uploaders, pc[u] \in Registered,
           NEW s \in Registered, pc' = [pc EXCEPT ![u] = s],
           UNCHANGED <<uploads, path>>
    PROVE  UploadsMatch'
BY NoneAssumption DEF UploadTypeOK, UploadsMatch, Registered, UploadPC

\* The deletes of a path are finitely many.
LEMMA DeletingFinite ==
    ASSUME NEW p
    PROVE  IsFiniteSet(Deleting(p)) /\ Cardinality(Deleting(p)) \in Nat
<1>1. Deleting(p) \subseteq Handlers
  BY DEF Deleting
<1> QED BY <1>1, FiniteAssumption, FS_Subset, FS_CardinalityType

\* A path nobody blocks is the target of no delete.
LEMMA NotBlocked ==
    ASSUME HandlerTypeOK, BlocksMatch, NEW p \in Paths, ~UploadBlocked(p)
    PROVE  \A h \in Handlers : target[h] # p
<1>1. Cardinality(Deleting(p)) = 0
  BY DEF HandlerTypeOK, BlocksMatch, UploadBlocked
<1>2. Deleting(p) = {}
  BY <1>1, DeletingFinite, FS_EmptySet
<1> QED BY <1>2 DEF Deleting

\* Arranging or stopping a retry keeps the types of the timers.
LEMMA RetryType ==
    ASSUME TimerTypeOK, NEW p \in Paths, ScheduleRetry(p) \/ StopRetry(p)
    PROVE  TimerTypeOK'
<1>1. retries' \in [Paths -> 0..MaxRetries]
  BY BoundAssumption DEF TimerTypeOK, ScheduleRetry, StopRetry
<1>2. fired' \in [Timers -> BOOLEAN]
  BY DEF TimerTypeOK, ScheduleRetry, StopRetry
<1>3. CASE ScheduleRetry(p)
  <2>1. CASE retryTimers[p] # None
    BY <1>1, <1>2, <1>3, <2>1, NoneAssumption DEF TimerTypeOK, ScheduleRetry
  <2>2. CASE retryTimers[p] = None
    <3>1. PICK t \in Timers :
            /\ timerPath' = [timerPath EXCEPT ![t] = p]
            /\ armed' = [armed EXCEPT ![t] = TRUE]
            /\ retryTimers' = [retryTimers EXCEPT ![p] = t]
      BY <1>3, <2>2 DEF ScheduleRetry
    <3> QED BY <1>1, <1>2, <3>1 DEF TimerTypeOK
  <2> QED BY <2>1, <2>2
<1>4. CASE StopRetry(p)
  <2>1. CASE retryTimers[p] # None
    BY <1>1, <1>2, <1>4, <2>1, NoneAssumption DEF TimerTypeOK, StopRetry, Freed
  <2>2. CASE retryTimers[p] = None
    BY <1>1, <1>2, <1>4, <2>2 DEF TimerTypeOK, StopRetry
  <2> QED BY <2>1, <2>2
<1> QED BY <1>3, <1>4

\* Writes by PVE and every case of the watcher loop keep the invariant.
LEMMA WatcherStep ==
    ASSUME ControlInv,
           \/ \E p \in Paths : PVEWrite(p)
           \/ \E p \in Paths : DownloadPending(p)
           \/ WatcherRequest
           \/ \E p \in Paths : WatcherEvent(p)
           \/ \E p \in Paths : TickDrop(p)
           \/ \E p \in Paths : TickSpawn(p)
           \/ \E p \in Paths : AddWatch(p)
           \/ \E p \in Paths : PVEOpen(p) \/ PVEClose(p)
    PROVE  ControlInv'
<1>1. ASSUME NEW p \in Paths, PVEWrite(p) PROVE ControlInv'
  <2>1. LocalTypeOK'
    BY <1>1, BoundAssumption DEF ControlInv, TypeOK, PVEWrite, LocalTypeOK, Versions,
          hostVars, uploadVars, timerVars
  <2>2. WatchTypeOK'
    BY <1>1, BoundAssumption DEF ControlInv, TypeOK, PVEWrite, WatchTypeOK, hostVars,
          uploadVars, timerVars
  <2> QED
    BY <1>1, <2>1, <2>2, Frame DEF ControlInv, TypeOK, PVEWrite, hostVars, localVars,
          watchVars, uploadVars, timerVars, handlerVars
<1>2. ASSUME NEW p \in Paths, DownloadPending(p) PROVE ControlInv'
  <2>1. WatchTypeOK'
    BY <1>2, BoundAssumption DEF ControlInv, TypeOK, DownloadPending, WatchTypeOK,
          RequestUpload, hostVars, localVars, uploadVars, timerVars, handlerVars
  <2> QED
    BY <1>2, <2>1, Frame DEF ControlInv, TypeOK, DownloadPending, hostVars, localVars,
          watchVars, uploadVars, timerVars, handlerVars
<1>3. ASSUME WatcherRequest PROVE ControlInv'
  <2>1. WatchTypeOK'
    BY <1>3, BoundAssumption DEF ControlInv, TypeOK, WatcherRequest, WatchTypeOK,
          hostVars, localVars, uploadVars, timerVars, handlerVars
  <2> QED
    BY <1>3, <2>1, Frame DEF ControlInv, TypeOK, WatcherRequest, hostVars, localVars,
          watchVars, uploadVars, timerVars, handlerVars
<1>4. ASSUME NEW p \in Paths, WatcherEvent(p) PROVE ControlInv'
  <2>1. LocalTypeOK'
    BY <1>4, BoundAssumption DEF ControlInv, TypeOK, WatcherEvent, LocalTypeOK,
          MarkPending, Markable, Covers, WritePending, Versions, hostVars, uploadVars,
          timerVars, handlerVars
  <2>2. WatchTypeOK'
    BY <1>4, BoundAssumption DEF ControlInv, TypeOK, WatcherEvent, WatchTypeOK,
          MarkPending, Markable, Covers, WritePending, hostVars, uploadVars, timerVars,
          handlerVars
  <2> QED
    BY <1>4, <2>1, <2>2, Frame DEF ControlInv, TypeOK, WatcherEvent, hostVars,
          localVars, watchVars, uploadVars, timerVars, handlerVars
<1>5. ASSUME NEW p \in Paths, TickDrop(p) PROVE ControlInv'
  <2>1. WatchTypeOK'
    BY <1>5, BoundAssumption DEF ControlInv, TypeOK, TickDrop, WatchTypeOK, hostVars,
          localVars, uploadVars, timerVars, handlerVars
  <2> QED
    BY <1>5, <2>1, Frame DEF ControlInv, TypeOK, TickDrop, hostVars, localVars,
          watchVars, uploadVars, timerVars, handlerVars
<1>6. ASSUME NEW p \in Paths, TickSpawn(p) PROVE ControlInv'
  <2>1. WatchTypeOK'
    BY <1>6, BoundAssumption DEF ControlInv, TypeOK, TickSpawn, WatchTypeOK,
          UploadBlocked, hostVars, localVars, timerVars, handlerVars
  <2>2. UploadTypeOK'
    BY <1>6, NoneAssumption, BoundAssumption DEF ControlInv, TypeOK, TickSpawn,
          UploadTypeOK, UploadsMatch, UploadBlocked, UploadPC, Versions, Registered,
          hostVars, localVars, timerVars, handlerVars
  <2>3. UploadsMatch'
    BY <1>6, NoneAssumption DEF ControlInv, TypeOK, TickSpawn, UploadsMatch,
          UploadTypeOK, UploadBlocked, Registered, UploadPC, Versions, hostVars,
          localVars, timerVars, handlerVars
  <2> QED
    BY <1>6, <2>1, <2>2, <2>3, Frame DEF ControlInv, TypeOK, TickSpawn, hostVars,
          localVars, watchVars, uploadVars, timerVars, handlerVars
<1>7. ASSUME NEW p \in Paths, AddWatch(p) PROVE ControlInv'
  <2>1. WatchTypeOK'
    BY <1>7, BoundAssumption DEF ControlInv, TypeOK, AddWatch, WatchTypeOK, hostVars,
          localVars, uploadVars, timerVars, handlerVars
  <2> QED
    BY <1>7, <2>1, Frame DEF ControlInv, TypeOK, AddWatch, hostVars, localVars,
          watchVars, uploadVars, timerVars, handlerVars
<1>8. ASSUME NEW p \in Paths, PVEOpen(p) \/ PVEClose(p) PROVE ControlInv'
  <2>1. LocalTypeOK'
    BY <1>8 DEF ControlInv, TypeOK, PVEOpen, PVEClose, LocalTypeOK, Versions, localVars,
          handlerVars
  <2> QED
    BY <1>8, <2>1, Frame DEF ControlInv, TypeOK, PVEOpen, PVEClose, localVars, watchVars,
          uploadVars, timerVars, handlerVars
<1> QED BY <1>1, <1>2, <1>3, <1>4, <1>5, <1>6, <1>7, <1>8

\* Entering uploadNewFile keeps the invariant: a goroutine registers only where
\* no other is registered and no delete blocks.
LEMMA EnterStep ==
    ASSUME ControlInv,
           \/ \E u \in Uploaders : EnterBlocked(u)
           \/ \E u \in Uploaders : EnterRunning(u)
           \/ \E u \in Uploaders : EnterFresh(u)
    PROVE  ControlInv'
<1>1. ASSUME NEW u \in Uploaders, EnterBlocked(u) PROVE ControlInv'
  <2>1. WatchTypeOK'
    BY <1>1, BoundAssumption DEF ControlInv, TypeOK, EnterBlocked, WatchTypeOK,
          UploadTypeOK, UploadsMatch, UploadBlocked, RequestUpload, Exit, Stage,
          UploadPC, Versions, Registered, hostVars, localVars, timerVars, handlerVars
  <2>2. UploadTypeOK'
    BY <1>1, NoneAssumption, BoundAssumption DEF ControlInv, TypeOK, EnterBlocked,
          UploadTypeOK, UploadsMatch, LocalTypeOK, UploadBlocked, RequestUpload, Exit,
          Stage, UploadPC, Versions, Registered, hostVars, localVars, timerVars,
          handlerVars
  <2>3. UploadsMatch'
    BY <1>1, NoneAssumption DEF ControlInv, TypeOK, EnterBlocked, UploadsMatch,
          UploadTypeOK, UploadBlocked, RequestUpload, Exit, Stage, Registered, UploadPC,
          Versions, hostVars, localVars, timerVars, handlerVars
  <2> QED
    BY <1>1, <2>1, <2>2, <2>3, Frame DEF ControlInv, TypeOK, EnterBlocked, hostVars,
          localVars, watchVars, uploadVars, timerVars, handlerVars
<1>2. ASSUME NEW u \in Uploaders, EnterRunning(u) PROVE ControlInv'
  <2>1. UploadTypeOK'
    BY <1>2, NoneAssumption, BoundAssumption DEF ControlInv, TypeOK, EnterRunning,
          UploadTypeOK, UploadsMatch, LocalTypeOK, UploadBlocked, UploadRunning, Exit,
          Stage, UploadPC, Versions, Registered, hostVars, localVars, watchVars,
          timerVars, handlerVars
  <2>2. UploadsMatch'
    BY <1>2, NoneAssumption DEF ControlInv, TypeOK, EnterRunning, UploadsMatch,
          UploadTypeOK, UploadBlocked, UploadRunning, Exit, Stage, Registered, UploadPC,
          Versions, hostVars, localVars, watchVars, timerVars, handlerVars
  <2> QED
    BY <1>2, <2>1, <2>2, Frame DEF ControlInv, TypeOK, EnterRunning, hostVars,
          localVars, watchVars, uploadVars, timerVars, handlerVars
<1>3. ASSUME NEW u \in Uploaders, EnterFresh(u) PROVE ControlInv'
  <2>1. LocalTypeOK'
    BY <1>3, BoundAssumption DEF ControlInv, TypeOK, EnterFresh, LocalTypeOK,
          UploadTypeOK, UploadsMatch, UploadBlocked, UploadRunning, Stage, Versions,
          UploadPC, Registered, hostVars, watchVars, timerVars, handlerVars
  <2>2. UploadTypeOK'
    BY <1>3, NoneAssumption, BoundAssumption DEF ControlInv, TypeOK, EnterFresh,
          UploadTypeOK, UploadsMatch, LocalTypeOK, UploadBlocked, UploadRunning, Stage,
          UploadPC, Versions, Registered, hostVars, watchVars, timerVars, handlerVars
  <2>3. UploadsMatch'
    BY <1>3, NoneAssumption DEF ControlInv, TypeOK, EnterFresh, UploadsMatch,
          UploadTypeOK, UploadBlocked, UploadRunning, Stage, Registered, UploadPC,
          Versions, hostVars, watchVars, timerVars, handlerVars
  <2>4. WaitsMatch'
    <3>1. path[u] \in Paths
      BY <1>3, NoneAssumption DEF ControlInv, TypeOK, UploadTypeOK, UploadsMatch, EnterFresh
    <3>2. \A h \in Handlers : target[h] # path[u]
      BY <1>3, <3>1, NotBlocked DEF ControlInv, TypeOK, EnterFresh
    <3> QED
      BY <1>3, <3>1, <3>2, NoneAssumption
        DEF ControlInv, TypeOK, UploadTypeOK, HandlerTypeOK, WaitsMatch, EnterFresh, handlerVars
  <2> QED
    BY <1>3, <2>1, <2>2, <2>3, <2>4, Frame DEF ControlInv, TypeOK, EnterFresh,
          hostVars, localVars, watchVars, uploadVars, timerVars, handlerVars
<1> QED BY <1>1, <1>2, <1>3

\* The stages of uploadOnce keep the invariant.
LEMMA UploadStep ==
    ASSUME ControlInv,
           \/ \E u \in Uploaders : UploadOpen(u)
           \/ \E u \in Uploaders : UploadArm(u)
           \/ \E u \in Uploaders : UploadCheck(u)
           \/ \E u \in Uploaders : HeadUnknown(u)
           \/ \E u \in Uploaders : HeadLocalWins(u)
           \/ \E u \in Uploaders : HeadRemoteWins(u)
           \/ \E u \in Uploaders : PutOK(u)
           \/ \E u \in Uploaders : PutFail(u)
           \/ \E u \in Uploaders : UploadLanded(u)
           \/ \E u \in Uploaders : UploadRecord(u)
           \/ \E u \in Uploaders : UploadRerun(u)
    PROVE  ControlInv'
<1>1. ASSUME NEW u \in Uploaders, UploadOpen(u) PROVE ControlInv'
  <2>1. UploadTypeOK'
    <3>1. CASE file[path[u]] = 0
      BY <1>1, <3>1, NoneAssumption
        DEF ControlInv, TypeOK, UploadTypeOK, LocalTypeOK, UploadPC, UploadOpen, Stage, Return
    <3>2. CASE ~(file[path[u]] = 0)
      BY <1>1, <3>2, NoneAssumption
        DEF ControlInv, TypeOK, UploadTypeOK, LocalTypeOK, UploadsMatch, UploadPC, UploadOpen, Stage, Return
    <3> QED BY <3>1, <3>2
  <2>2. UploadsMatch'
    BY <1>1, MoveStage DEF ControlInv, TypeOK, UploadOpen, Stage, Return, UploadPC,
          Registered, hostVars, localVars, watchVars, timerVars, handlerVars
  <2> QED
    BY <1>1, <2>1, <2>2, Frame DEF ControlInv, TypeOK, UploadOpen, hostVars, localVars,
          watchVars, uploadVars, timerVars, handlerVars
<1>2. ASSUME NEW u \in Uploaders, UploadArm(u) PROVE ControlInv'
  <2>1. UploadTypeOK'
    <3>1. CASE canceled[u]
      BY <1>2, <3>1, NoneAssumption
        DEF ControlInv, TypeOK, UploadTypeOK, LocalTypeOK, UploadPC, UploadArm, Stage, Return
    <3>2. CASE ~(canceled[u])
      BY <1>2, <3>2, NoneAssumption
        DEF ControlInv, TypeOK, UploadTypeOK, LocalTypeOK, UploadsMatch, UploadPC, UploadArm, Stage, Return
    <3> QED BY <3>1, <3>2
  <2>2. UploadsMatch'
    BY <1>2, MoveStage DEF ControlInv, TypeOK, UploadArm, Stage, Return, UploadPC,
          Registered, hostVars, localVars, watchVars, timerVars, handlerVars
  <2> QED
    BY <1>2, <2>1, <2>2, Frame DEF ControlInv, TypeOK, UploadArm, hostVars, localVars,
          watchVars, uploadVars, timerVars, handlerVars
<1>3. ASSUME NEW u \in Uploaders, UploadCheck(u) PROVE ControlInv'
  <2>1. UploadTypeOK'
    <3>1. CASE Covers(path[u], snap[u])
      BY <1>3, <3>1, NoneAssumption
        DEF ControlInv, TypeOK, UploadTypeOK, LocalTypeOK, UploadPC, UploadCheck, Stage, Return
    <3>2. CASE ~(Covers(path[u], snap[u]))
      BY <1>3, <3>2, NoneAssumption
        DEF ControlInv, TypeOK, UploadTypeOK, LocalTypeOK, UploadsMatch, UploadPC, UploadCheck, Stage, Return
    <3> QED BY <3>1, <3>2
  <2>2. UploadsMatch'
    BY <1>3, MoveStage DEF ControlInv, TypeOK, UploadCheck, Stage, Return, UploadPC,
          Registered, hostVars, localVars, watchVars, timerVars, handlerVars
  <2> QED
    BY <1>3, <2>1, <2>2, Frame DEF ControlInv, TypeOK, UploadCheck, hostVars,
          localVars, watchVars, uploadVars, timerVars, handlerVars
<1>4. ASSUME NEW u \in Uploaders, HeadUnknown(u) PROVE ControlInv'
  <2>1. UploadTypeOK'
    BY <1>4, NoneAssumption, BoundAssumption DEF ControlInv, TypeOK, HeadUnknown,
          UploadTypeOK, UploadsMatch, LocalTypeOK, Return, Stage, UploadPC, Versions,
          Registered, hostVars, localVars, watchVars, timerVars, handlerVars
  <2>2. UploadsMatch'
    BY <1>4, MoveStage DEF ControlInv, TypeOK, HeadUnknown, Stage, Return, UploadPC,
          Registered, hostVars, localVars, watchVars, timerVars, handlerVars
  <2> QED
    BY <1>4, <2>1, <2>2, Frame DEF ControlInv, TypeOK, HeadUnknown, hostVars,
          localVars, watchVars, uploadVars, timerVars, handlerVars
<1>5. ASSUME NEW u \in Uploaders, HeadLocalWins(u) PROVE ControlInv'
  <2>1. LocalTypeOK'
    BY <1>5, BoundAssumption DEF ControlInv, TypeOK, HeadLocalWins, LocalTypeOK,
          UploadTypeOK, UploadsMatch, Markable, Covers, WritePending, Stage, Versions,
          UploadPC, Registered, hostVars, watchVars, timerVars, handlerVars
  <2>2. UploadTypeOK'
    BY <1>5, NoneAssumption, BoundAssumption DEF ControlInv, TypeOK, HeadLocalWins,
          UploadTypeOK, UploadsMatch, LocalTypeOK, Markable, Covers, WritePending, Stage,
          UploadPC, Versions, Registered, hostVars, watchVars, timerVars, handlerVars
  <2>3. UploadsMatch'
    BY <1>5, MoveStage DEF ControlInv, TypeOK, HeadLocalWins, Stage, UploadPC,
          Registered, hostVars, watchVars, timerVars, handlerVars
  <2> QED
    BY <1>5, <2>1, <2>2, <2>3, Frame DEF ControlInv, TypeOK, HeadLocalWins, hostVars,
          localVars, watchVars, uploadVars, timerVars, handlerVars
<1>6. ASSUME NEW u \in Uploaders, HeadRemoteWins(u) PROVE ControlInv'
  <2>1. LocalTypeOK'
    BY <1>6, BoundAssumption DEF ControlInv, TypeOK, HeadRemoteWins, LocalTypeOK,
          UploadTypeOK, UploadsMatch, Fresh, WriteSynced, Return, Stage, Versions,
          UploadPC, Registered, hostVars, watchVars, timerVars, handlerVars
  <2>2. UploadTypeOK'
    BY <1>6, NoneAssumption, BoundAssumption DEF ControlInv, TypeOK, HeadRemoteWins,
          UploadTypeOK, UploadsMatch, LocalTypeOK, Fresh, WriteSynced, Return, Stage,
          UploadPC, Versions, Registered, hostVars, watchVars, timerVars, handlerVars
  <2>3. UploadsMatch'
    BY <1>6, MoveStage DEF ControlInv, TypeOK, HeadRemoteWins, Stage, Return, UploadPC,
          Registered, hostVars, watchVars, timerVars, handlerVars
  <2> QED
    BY <1>6, <2>1, <2>2, <2>3, Frame DEF ControlInv, TypeOK, HeadRemoteWins, hostVars,
          localVars, watchVars, uploadVars, timerVars, handlerVars
<1>7. ASSUME NEW u \in Uploaders, PutOK(u) PROVE ControlInv'
  <2>1. LocalTypeOK'
    BY <1>7, BoundAssumption DEF ControlInv, TypeOK, PutOK, LocalTypeOK, UploadTypeOK,
          UploadsMatch, PutContent, Stage, Versions, UploadPC, Registered, hostVars,
          localVars, watchVars, timerVars, handlerVars
  <2>2. UploadTypeOK'
    BY <1>7, NoneAssumption, BoundAssumption DEF ControlInv, TypeOK, PutOK, UploadTypeOK,
          UploadsMatch, LocalTypeOK, PutContent, Stage, UploadPC, Versions, Registered,
          hostVars, localVars, watchVars, timerVars, handlerVars
  <2>3. UploadsMatch'
    BY <1>7, MoveStage DEF ControlInv, TypeOK, PutOK, Stage, UploadPC, Registered,
          hostVars, localVars, watchVars, timerVars, handlerVars
  <2> QED
    BY <1>7, <2>1, <2>2, <2>3, Frame DEF ControlInv, TypeOK, PutOK, hostVars,
          localVars, watchVars, uploadVars, timerVars, handlerVars
<1>8. ASSUME NEW u \in Uploaders, PutFail(u) PROVE ControlInv'
  <2>1. LocalTypeOK'
    BY <1>8, BoundAssumption DEF ControlInv, TypeOK, PutFail, LocalTypeOK, UploadTypeOK,
          UploadsMatch, PutContent, Return, Stage, Versions, UploadPC, Registered,
          hostVars, localVars, watchVars, timerVars, handlerVars
  <2>2. UploadTypeOK'
    BY <1>8, NoneAssumption, BoundAssumption DEF ControlInv, TypeOK, PutFail,
          UploadTypeOK, UploadsMatch, LocalTypeOK, PutContent, Return, Stage, UploadPC,
          Versions, Registered, hostVars, localVars, watchVars, timerVars, handlerVars
  <2>3. UploadsMatch'
    BY <1>8, MoveStage DEF ControlInv, TypeOK, PutFail, Stage, Return, UploadPC,
          Registered, hostVars, localVars, watchVars, timerVars, handlerVars
  <2> QED
    BY <1>8, <2>1, <2>2, <2>3, Frame DEF ControlInv, TypeOK, PutFail, hostVars,
          localVars, watchVars, uploadVars, timerVars, handlerVars
<1>9. ASSUME NEW u \in Uploaders, UploadLanded(u) PROVE ControlInv'
  <2>1. UploadTypeOK'
    <3>1. CASE canceled[u]
      BY <1>9, <3>1, NoneAssumption
        DEF ControlInv, TypeOK, UploadTypeOK, LocalTypeOK, UploadPC, UploadLanded, Stage, Return
    <3>2. CASE ~(canceled[u])
      BY <1>9, <3>2, NoneAssumption
        DEF ControlInv, TypeOK, UploadTypeOK, LocalTypeOK, UploadsMatch, UploadPC, UploadLanded, Stage, Return
    <3> QED BY <3>1, <3>2
  <2>2. UploadsMatch'
    BY <1>9, MoveStage DEF ControlInv, TypeOK, UploadLanded, Stage, Return, UploadPC,
          Registered, hostVars, localVars, watchVars, timerVars, handlerVars
  <2> QED
    BY <1>9, <2>1, <2>2, Frame DEF ControlInv, TypeOK, UploadLanded, hostVars,
          localVars, watchVars, uploadVars, timerVars, handlerVars
<1>10. ASSUME NEW u \in Uploaders, UploadRecord(u) PROVE ControlInv'
  <2>1. LocalTypeOK'
    <3>1. path[u] \in Paths
      BY <1>10, NoneAssumption DEF ControlInv, TypeOK, UploadTypeOK, UploadsMatch, UploadRecord
    <3>2. CASE Fresh(path[u], snap[u])
      BY <1>10, <3>1, <3>2
        DEF ControlInv, TypeOK, LocalTypeOK, UploadRecord, WriteSynced, hostVars, handlerVars
    <3>3. CASE ~Fresh(path[u], snap[u])
      <4>1. MarkPending(path[u])
        BY <1>10, <3>3 DEF UploadRecord
      <4> QED
        BY <1>10, <3>1, <4>1, MarkPendingType
          DEF ControlInv, TypeOK, LocalTypeOK, UploadRecord, hostVars, handlerVars
    <3> QED BY <3>2, <3>3
  <2>2. UploadTypeOK'
    BY <1>10, NoneAssumption, BoundAssumption DEF ControlInv, TypeOK, UploadRecord,
          UploadTypeOK, UploadsMatch, LocalTypeOK, Fresh, WriteSynced, MarkPending,
          Markable, Covers, WritePending, Return, Stage, UploadPC, Versions, Registered,
          hostVars, watchVars, timerVars, handlerVars
  <2>3. UploadsMatch'
    BY <1>10, MoveStage DEF ControlInv, TypeOK, UploadRecord, Stage, Return, UploadPC,
          Registered, hostVars, watchVars, timerVars, handlerVars
  <2> QED
    BY <1>10, <2>1, <2>2, <2>3, Frame DEF ControlInv, TypeOK, UploadRecord, hostVars,
          localVars, watchVars, uploadVars, timerVars, handlerVars
<1>11. ASSUME NEW u \in Uploaders, UploadRerun(u) PROVE ControlInv'
  <2>1. LocalTypeOK'
    BY <1>11, BoundAssumption DEF ControlInv, TypeOK, UploadRerun, LocalTypeOK,
          UploadTypeOK, UploadsMatch, RerunWanted, Stage, Versions, UploadPC, Registered,
          hostVars, watchVars, timerVars, handlerVars
  <2>2. UploadTypeOK'
    BY <1>11, NoneAssumption, BoundAssumption DEF ControlInv, TypeOK, UploadRerun,
          UploadTypeOK, UploadsMatch, LocalTypeOK, RerunWanted, Stage, UploadPC,
          Versions, Registered, hostVars, watchVars, timerVars, handlerVars
  <2>3. UploadsMatch'
    BY <1>11, MoveStage DEF ControlInv, TypeOK, UploadRerun, Stage, UploadPC, Registered,
          hostVars, watchVars, timerVars, handlerVars
  <2> QED
    BY <1>11, <2>1, <2>2, <2>3, Frame DEF ControlInv, TypeOK, UploadRerun, hostVars,
          localVars, watchVars, uploadVars, timerVars, handlerVars
<1> QED BY <1>1, <1>2, <1>3, <1>4, <1>5, <1>6, <1>7, <1>8, <1>9, <1>10, <1>11

\* Leaving uploadNewFile, with its timer and its waiters, keeps the invariant.
LEMMA FinishStep ==
    ASSUME ControlInv,
           \/ \E u \in Uploaders : UploadFinish(u)
           \/ \E t \in Timers : TimerFire(t)
           \/ \E t \in Timers : TimerCallback(t)
    PROVE  ControlInv'
<1>1. ASSUME NEW u \in Uploaders, UploadFinish(u) PROVE ControlInv'
  <2>1. UploadTypeOK'
    BY <1>1, NoneAssumption, BoundAssumption DEF ControlInv, TypeOK, UploadFinish,
          UploadTypeOK, UploadsMatch, LocalTypeOK, RerunWanted, RetryWanted,
          ScheduleRetry, StopRetry, Freed, CloseDone, Exit, Stage, UploadPC, Versions,
          Registered, hostVars, localVars, watchVars
  <2>2. TimerTypeOK'
    <3>1. path[u] \in Paths
      BY <1>1, NoneAssumption DEF ControlInv, TypeOK, UploadTypeOK, UploadsMatch, UploadFinish
    <3> QED BY <1>1, <3>1, RetryType DEF ControlInv, TypeOK, UploadFinish
  <2>3. HandlerTypeOK'
    BY <1>1, NoneAssumption DEF ControlInv, TypeOK, UploadFinish, HandlerTypeOK,
          RerunWanted, RetryWanted, ScheduleRetry, StopRetry, Freed, CloseDone, Exit,
          Stage, HandlerPC, hostVars, localVars, watchVars
  <2>4. UploadsMatch'
    BY <1>1, NoneAssumption DEF ControlInv, TypeOK, UploadFinish, UploadsMatch,
          UploadTypeOK, RerunWanted, RetryWanted, ScheduleRetry, StopRetry, Freed,
          CloseDone, Exit, Stage, Registered, UploadPC, Versions, hostVars, localVars,
          watchVars
  <2>5. WaitsMatch'
    BY <1>1, NoneAssumption DEF ControlInv, TypeOK, UploadFinish, WaitsMatch,
          HandlerTypeOK, UploadTypeOK, UploadsMatch, RerunWanted, RetryWanted,
          ScheduleRetry, StopRetry, Freed, CloseDone, Exit, Stage, HandlerPC, UploadPC,
          Versions, Registered, hostVars, localVars, watchVars
  <2>6. TimersMatch'
    BY <1>1, NoneAssumption DEF ControlInv, TypeOK, UploadFinish, TimersMatch,
          TimerTypeOK, UploadTypeOK, UploadsMatch, RerunWanted, RetryWanted,
          ScheduleRetry, StopRetry, Freed, CloseDone, Exit, Stage, UploadPC, Versions,
          Registered, hostVars, localVars, watchVars
  <2> QED
    BY <1>1, <2>1, <2>2, <2>3, <2>4, <2>5, <2>6, Frame DEF ControlInv, TypeOK,
          UploadFinish, hostVars, localVars, watchVars, uploadVars, timerVars,
          handlerVars
<1>2. ASSUME NEW t \in Timers, TimerFire(t) PROVE ControlInv'
  <2>1. TimerTypeOK'
    BY <1>2, NoneAssumption, BoundAssumption DEF ControlInv, TypeOK, TimerFire,
          TimerTypeOK, TimersMatch, hostVars, localVars, watchVars, uploadVars,
          handlerVars
  <2>2. TimersMatch'
    BY <1>2, NoneAssumption DEF ControlInv, TypeOK, TimerFire, TimersMatch, TimerTypeOK,
          hostVars, localVars, watchVars, uploadVars, handlerVars
  <2> QED
    BY <1>2, <2>1, <2>2, Frame DEF ControlInv, TypeOK, TimerFire, hostVars, localVars,
          watchVars, uploadVars, timerVars, handlerVars
<1>3. ASSUME NEW t \in Timers, TimerCallback(t) PROVE ControlInv'
  <2>1. WatchTypeOK'
    BY <1>3, BoundAssumption DEF ControlInv, TypeOK, TimerCallback, WatchTypeOK,
          TimerTypeOK, TimersMatch, Freed, RequestUpload, hostVars, localVars,
          uploadVars, handlerVars
  <2>2. TimerTypeOK'
    BY <1>3, NoneAssumption, BoundAssumption DEF ControlInv, TypeOK, TimerCallback,
          TimerTypeOK, TimersMatch, Freed, RequestUpload, hostVars, localVars,
          uploadVars, handlerVars
  <2>3. TimersMatch'
    BY <1>3, NoneAssumption DEF ControlInv, TypeOK, TimerCallback, TimersMatch,
          TimerTypeOK, Freed, RequestUpload, hostVars, localVars, uploadVars,
          handlerVars
  <2> QED
    BY <1>3, <2>1, <2>2, <2>3, Frame DEF ControlInv, TypeOK, TimerCallback, hostVars,
          localVars, watchVars, uploadVars, timerVars, handlerVars
<1> QED BY <1>1, <1>2, <1>3

\* Every step of handleDelete keeps the invariant.
LEMMA DeleteStep ==
    ASSUME ControlInv,
           \/ \E h \in Handlers : \E p \in Paths : DeleteBlock(h, p)
           \/ \E h \in Handlers : DeleteObject(h)
           \/ \E h \in Handlers : DeleteFail(h)
           \/ \E h \in Handlers : RemoveLocal(h)
           \/ \E h \in Handlers : RemoveFail(h)
           \/ \E h \in Handlers : Unblock(h)
    PROVE  ControlInv'
<1>1. ASSUME NEW h \in Handlers, NEW p \in Paths, DeleteBlock(h, p) PROVE ControlInv'
  <2>1. UploadTypeOK'
    <3>1. CASE InFlight(p) # None
      BY <1>1, <3>1, NoneAssumption DEF ControlInv, TypeOK, UploadTypeOK, DeleteBlock, InFlight
    <3>2. CASE InFlight(p) = None
      BY <1>1, <3>2 DEF ControlInv, TypeOK, UploadTypeOK, DeleteBlock
    <3> QED BY <3>1, <3>2
  <2>2. HandlerTypeOK'
    BY <1>1, NoneAssumption DEF ControlInv, TypeOK, DeleteBlock, HandlerTypeOK,
          WaitsMatch, UploadTypeOK, InFlight, HandlerPC, UploadPC, Versions, hostVars,
          localVars, watchVars, timerVars
  <2>3. WaitsMatch'
    BY <1>1, NoneAssumption DEF ControlInv, TypeOK, DeleteBlock, WaitsMatch,
          HandlerTypeOK, UploadTypeOK, InFlight, HandlerPC, UploadPC, Versions,
          hostVars, localVars, watchVars, timerVars
  <2>4. BlocksMatch'
    <3> SUFFICES ASSUME NEW q \in Paths
                 PROVE  blocked'[q] = Cardinality(Deleting(q)')
      BY DEF BlocksMatch
    <3>1. target[h] = None /\ target' = [target EXCEPT ![h] = p] /\ target \in [Handlers -> Paths \cup {None}]
      BY <1>1 DEF ControlInv, TypeOK, HandlerTypeOK, WaitsMatch, DeleteBlock
    <3>2. blocked[q] = Cardinality(Deleting(q)) /\ blocked' = [blocked EXCEPT ![p] = @ + 1] /\ blocked \in [Paths -> Nat]
      BY <1>1 DEF ControlInv, TypeOK, HandlerTypeOK, BlocksMatch, DeleteBlock
    <3>3. CASE q = p
      <4>1. Deleting(q)' = Deleting(q) \cup {h} /\ h \notin Deleting(q)
        BY <1>1, <3>1, <3>3, NoneAssumption DEF Deleting
      <4> QED BY <3>2, <3>3, <4>1, DeletingFinite, FS_AddElement
    <3>4. CASE q # p
      <4>1. Deleting(q)' = Deleting(q)
        BY <3>1, <3>4, NoneAssumption DEF Deleting
      <4> QED BY <3>2, <3>4, <4>1
    <3> QED BY <3>3, <3>4
  <2> QED
    BY <1>1, <2>1, <2>2, <2>3, <2>4, Frame DEF ControlInv, TypeOK, DeleteBlock,
          hostVars, localVars, watchVars, uploadVars, timerVars, handlerVars
<1>2. ASSUME NEW h \in Handlers, DeleteObject(h) PROVE ControlInv'
  <2>1. LocalTypeOK'
    BY <1>2, BoundAssumption DEF ControlInv, TypeOK, DeleteObject, LocalTypeOK,
          HandlerTypeOK, WaitsMatch, Versions, HandlerPC, hostVars, localVars,
          watchVars, uploadVars, timerVars
  <2>2. HandlerTypeOK'
    BY <1>2, NoneAssumption DEF ControlInv, TypeOK, DeleteObject, HandlerTypeOK,
          WaitsMatch, UploadTypeOK, HandlerPC, UploadPC, Versions, hostVars, localVars,
          watchVars, uploadVars, timerVars
  <2>3. WaitsMatch'
    BY <1>2, NoneAssumption DEF ControlInv, TypeOK, DeleteObject, WaitsMatch,
          HandlerTypeOK, UploadTypeOK, HandlerPC, UploadPC, Versions, hostVars,
          localVars, watchVars, uploadVars, timerVars
  <2> QED
    BY <1>2, <2>1, <2>2, <2>3, Frame DEF ControlInv, TypeOK, DeleteObject, hostVars,
          localVars, watchVars, uploadVars, timerVars, handlerVars
<1>3. ASSUME NEW h \in Handlers, DeleteFail(h) PROVE ControlInv'
  <2>1. LocalTypeOK'
    BY <1>3, BoundAssumption DEF ControlInv, TypeOK, DeleteFail, LocalTypeOK,
          HandlerTypeOK, WaitsMatch, Versions, HandlerPC, hostVars, localVars,
          watchVars, uploadVars, timerVars
  <2>2. HandlerTypeOK'
    BY <1>3, NoneAssumption DEF ControlInv, TypeOK, DeleteFail, HandlerTypeOK,
          WaitsMatch, UploadTypeOK, HandlerPC, UploadPC, Versions, hostVars, localVars,
          watchVars, uploadVars, timerVars
  <2>3. WaitsMatch'
    BY <1>3, NoneAssumption DEF ControlInv, TypeOK, DeleteFail, WaitsMatch,
          HandlerTypeOK, UploadTypeOK, HandlerPC, UploadPC, Versions, hostVars,
          localVars, watchVars, uploadVars, timerVars
  <2> QED
    BY <1>3, <2>1, <2>2, <2>3, Frame DEF ControlInv, TypeOK, DeleteFail, hostVars,
          localVars, watchVars, uploadVars, timerVars, handlerVars
<1>4. ASSUME NEW h \in Handlers, RemoveLocal(h) PROVE ControlInv'
  <2>1. LocalTypeOK'
    BY <1>4, BoundAssumption DEF ControlInv, TypeOK, RemoveLocal, LocalTypeOK,
          HandlerTypeOK, WaitsMatch, Versions, HandlerPC, hostVars, watchVars,
          uploadVars, timerVars
  <2>2. HandlerTypeOK'
    BY <1>4, NoneAssumption DEF ControlInv, TypeOK, RemoveLocal, HandlerTypeOK,
          WaitsMatch, UploadTypeOK, HandlerPC, UploadPC, Versions, hostVars, watchVars,
          uploadVars, timerVars
  <2>3. WaitsMatch'
    BY <1>4, NoneAssumption DEF ControlInv, TypeOK, RemoveLocal, WaitsMatch,
          HandlerTypeOK, UploadTypeOK, HandlerPC, UploadPC, Versions, hostVars,
          watchVars, uploadVars, timerVars
  <2> QED
    BY <1>4, <2>1, <2>2, <2>3, Frame DEF ControlInv, TypeOK, RemoveLocal, hostVars,
          localVars, watchVars, uploadVars, timerVars, handlerVars
<1>5. ASSUME NEW h \in Handlers, RemoveFail(h) PROVE ControlInv'
  <2>1. LocalTypeOK'
    BY <1>5, BoundAssumption DEF ControlInv, TypeOK, RemoveFail, LocalTypeOK,
          HandlerTypeOK, WaitsMatch, Versions, HandlerPC, hostVars, watchVars,
          uploadVars, timerVars
  <2>2. HandlerTypeOK'
    BY <1>5, NoneAssumption DEF ControlInv, TypeOK, RemoveFail, HandlerTypeOK,
          WaitsMatch, UploadTypeOK, HandlerPC, UploadPC, Versions, hostVars, watchVars,
          uploadVars, timerVars
  <2>3. WaitsMatch'
    BY <1>5, NoneAssumption DEF ControlInv, TypeOK, RemoveFail, WaitsMatch,
          HandlerTypeOK, UploadTypeOK, HandlerPC, UploadPC, Versions, hostVars,
          watchVars, uploadVars, timerVars
  <2> QED
    BY <1>5, <2>1, <2>2, <2>3, Frame DEF ControlInv, TypeOK, RemoveFail, hostVars,
          localVars, watchVars, uploadVars, timerVars, handlerVars
<1>6. ASSUME NEW h \in Handlers, Unblock(h) PROVE ControlInv'
  <2>1. HandlerTypeOK'
    <3>1. target[h] \in Paths
      BY <1>6, NoneAssumption DEF ControlInv, TypeOK, HandlerTypeOK, WaitsMatch, Unblock
    <3>2. h \in Deleting(target[h])
      BY DEF Deleting
    <3>3. blocked[target[h]] - 1 \in Nat
      <4>1. blocked[target[h]] = Cardinality(Deleting(target[h]))
        BY <3>1 DEF ControlInv, BlocksMatch
      <4>2. Cardinality(Deleting(target[h]) \ {h}) = Cardinality(Deleting(target[h])) - 1
        BY <3>2, DeletingFinite, FS_RemoveElement
      <4>3. Cardinality(Deleting(target[h]) \ {h}) \in Nat
        BY DeletingFinite, FS_RemoveElement, FS_CardinalityType
      <4> QED BY <4>1, <4>2, <4>3
    <3> QED
      BY <1>6, <3>1, <3>3 DEF ControlInv, TypeOK, HandlerTypeOK, HandlerPC, Unblock
  <2>2. WaitsMatch'
    BY <1>6, NoneAssumption DEF ControlInv, TypeOK, Unblock, WaitsMatch, HandlerTypeOK,
          UploadTypeOK, HandlerPC, UploadPC, Versions, hostVars, localVars, watchVars,
          uploadVars, timerVars
  <2>3. BlocksMatch'
    <3> SUFFICES ASSUME NEW q \in Paths
                 PROVE  blocked'[q] = Cardinality(Deleting(q)')
      BY DEF BlocksMatch
    <3>1. target' = [target EXCEPT ![h] = None] /\ target \in [Handlers -> Paths \cup {None}]
      BY <1>6 DEF ControlInv, TypeOK, HandlerTypeOK, Unblock
    <3>2. blocked[q] = Cardinality(Deleting(q)) /\ blocked' = [blocked EXCEPT ![target[h]] = @ - 1] /\ blocked \in [Paths -> Nat]
      BY <1>6 DEF ControlInv, TypeOK, HandlerTypeOK, BlocksMatch, Unblock
    <3>3. CASE q = target[h]
      <4>1. Deleting(q)' = Deleting(q) \ {h} /\ h \in Deleting(q)
        BY <3>1, <3>3, NoneAssumption DEF Deleting
      <4> QED BY <3>2, <3>3, <4>1, DeletingFinite, FS_RemoveElement
    <3>4. CASE q # target[h]
      <4>1. Deleting(q)' = Deleting(q)
        BY <3>1, <3>4, NoneAssumption DEF Deleting
      <4> QED BY <3>2, <3>4, <4>1
    <3> QED BY <3>3, <3>4
  <2> QED
    BY <1>6, <2>1, <2>2, <2>3, Frame DEF ControlInv, TypeOK, Unblock, hostVars,
          localVars, watchVars, uploadVars, timerVars, handlerVars
<1> QED BY <1>1, <1>2, <1>3, <1>4, <1>5, <1>6

\* A crash and the start with its scan keep the invariant.
LEMMA DaemonStep ==
    ASSUME ControlInv,
           \/ Crash
           \/ Start
    PROVE  ControlInv'
<1>1. ASSUME Crash PROVE ControlInv'
  <2>1. LocalTypeOK'
    <3>1. PICK landed \in SUBSET {u \in Uploaders : pc[u] = "put"} :
             remote' = [p \in Paths |->
                 IF \E u \in landed : path[u] = p
                 THEN snap[CHOOSE u \in landed : path[u] = p] ELSE remote[p]]
      BY <1>1 DEF Crash
    <3>2. ASSUME NEW p \in Paths, \E u \in landed : path[u] = p
         PROVE  (CHOOSE u \in landed : path[u] = p) \in Uploaders
      BY <3>2
    <3>3. remote' \in [Paths -> Versions]
      BY <3>1, <3>2 DEF ControlInv, TypeOK, LocalTypeOK, UploadTypeOK
    <3>4. up' \in BOOLEAN /\ crashes' \in 0..MaxCrashes
      <4>1. up' = FALSE /\ crashes < MaxCrashes /\ crashes' = crashes + 1
        BY <1>1 DEF Crash
      <4>2. up' \in BOOLEAN
        BY <4>1
      <4>3. crashes \in 0..MaxCrashes
        BY DEF ControlInv, TypeOK, LocalTypeOK
      <4>4. crashes' \in 0..MaxCrashes
        BY <4>1, <4>3, BoundAssumption
      <4> QED BY <4>2, <4>4
    <3>5. remarked' \in [Paths -> BOOLEAN]
      BY <1>1 DEF Crash
    <3>6. UNCHANGED <<inUse, file, writes, meta, metaVer, gone>>
      BY <1>1 DEF Crash
    <3> QED
      BY <3>3, <3>4, <3>5, <3>6 DEF ControlInv, TypeOK, LocalTypeOK
  <2>2. WatchTypeOK'
    BY <1>1, BoundAssumption DEF ControlInv, TypeOK, Crash, WatchTypeOK
  <2>3. UploadTypeOK'
    BY <1>1, NoneAssumption, BoundAssumption DEF ControlInv, TypeOK, Crash, UploadTypeOK,
          UploadsMatch, UploadPC, Versions, Registered
  <2>4. TimerTypeOK'
    BY <1>1, NoneAssumption, BoundAssumption DEF ControlInv, TypeOK, Crash, TimerTypeOK
  <2>5. HandlerTypeOK'
    BY <1>1, NoneAssumption DEF ControlInv, TypeOK, Crash, HandlerTypeOK, HandlerPC
  <2>6. UploadsMatch'
    BY <1>1, NoneAssumption DEF ControlInv, TypeOK, Crash, UploadsMatch, UploadTypeOK,
          Registered, UploadPC, Versions
  <2>7. WaitsMatch'
    BY <1>1, NoneAssumption DEF ControlInv, TypeOK, Crash, WaitsMatch, HandlerTypeOK,
          UploadTypeOK, HandlerPC, UploadPC, Versions
  <2>8. BlocksMatch'
    <3>1. \A p \in Paths : Deleting(p)' = {}
      BY <1>1, NoneAssumption DEF Crash, Deleting
    <3> QED BY <1>1, <3>1, FS_EmptySet DEF BlocksMatch, Crash
  <2>9. TimersMatch'
    BY <1>1, NoneAssumption DEF ControlInv, TypeOK, Crash, TimersMatch, TimerTypeOK
  <2> QED
    BY <1>1, <2>1, <2>2, <2>3, <2>4, <2>5, <2>6, <2>7, <2>8, <2>9, Frame
      DEF
          ControlInv, TypeOK, Crash, hostVars, localVars, watchVars, uploadVars,
          timerVars, handlerVars
<1>2. ASSUME Start PROVE ControlInv'
  <2>1. LocalTypeOK'
    BY <1>2, BoundAssumption DEF ControlInv, TypeOK, Start, LocalTypeOK, Unconfirmed,
          Markable, Covers, Versions, uploadVars, timerVars, handlerVars
  <2>2. WatchTypeOK'
    BY <1>2, BoundAssumption DEF ControlInv, TypeOK, Start, WatchTypeOK, Unconfirmed,
          Markable, Covers, uploadVars, timerVars, handlerVars
  <2> QED
    BY <1>2, <2>1, <2>2, Frame DEF ControlInv, TypeOK, Start, hostVars, localVars,
          watchVars, uploadVars, timerVars, handlerVars
<1> QED BY <1>1, <1>2

(***************************************************************************)
(* The invariant of the control state, and what follows from it.           *)
(***************************************************************************)
\* In the initial states nothing is registered, blocked or set.
LEMMA ControlInit == Init => ControlInv
<1> SUFFICES ASSUME Init PROVE ControlInv
  OBVIOUS
<1>1. LocalTypeOK
  <2>1. {0, 1} \subseteq Versions
    BY BoundAssumption DEF Versions
  <2>2. /\ file \in [Paths -> Versions] /\ remote \in [Paths -> Versions]
        /\ writes \in [Paths -> Versions] /\ metaVer \in [Paths -> Versions]
    BY <2>1 DEF Init
  <2>3. meta \in [Paths -> {"none", "pending", "synced"}]
    BY DEF Init
  <2>4. up \in BOOLEAN /\ inUse \subseteq Paths /\ remarked \in [Paths -> BOOLEAN] /\ gone \in [Paths -> BOOLEAN]
    BY DEF Init, FreshProcess
  <2>5. crashes \in 0..MaxCrashes
    BY BoundAssumption DEF Init
  <2> QED BY <2>2, <2>3, <2>4, <2>5 DEF LocalTypeOK
<1>2. WatchTypeOK
  BY BoundAssumption DEF Init, FreshProcess, WatchTypeOK
<1>3. UploadTypeOK
  BY BoundAssumption DEF Init, FreshProcess, UploadTypeOK, UploadPC, Versions
<1>4. TimerTypeOK
  BY BoundAssumption DEF Init, FreshProcess, TimerTypeOK
<1>5. HandlerTypeOK
  BY DEF Init, FreshProcess, HandlerTypeOK, HandlerPC
<1>6. UploadsMatch /\ WaitsMatch /\ TimersMatch
  BY NoneAssumption
    DEF Init, FreshProcess, UploadsMatch, WaitsMatch, TimersMatch, Registered, UploadPC
<1>7. BlocksMatch
  <2>1. \A p \in Paths : Deleting(p) = {}
    BY NoneAssumption DEF Init, FreshProcess, Deleting
  <2> QED BY <2>1, FS_EmptySet DEF Init, FreshProcess, BlocksMatch
<1> QED BY <1>1, <1>2, <1>3, <1>4, <1>5, <1>6, <1>7 DEF ControlInv, TypeOK

\* Every step keeps the invariant.
LEMMA ControlNext == ControlInv /\ [Next]_vars => ControlInv'
<1> SUFFICES ASSUME ControlInv, [Next]_vars PROVE ControlInv'
  OBVIOUS
<1>1. CASE Watch \/ \E p \in Paths : PVEWrite(p) \/ PVEOpen(p) \/ PVEClose(p) \/ DownloadPending(p) \/ AddWatch(p)
  BY <1>1, WatcherStep DEF Watch
<1>2. ASSUME NEW u \in Uploaders, Upload(u) PROVE ControlInv'
  BY <1>2, EnterStep, UploadStep, FinishStep DEF Upload
<1>3. ASSUME NEW t \in Timers, TimerFire(t) \/ TimerCallback(t) PROVE ControlInv'
  BY <1>3, FinishStep
<1>4. ASSUME NEW h \in Handlers, Delete(h) \/ \E p \in Paths : DeleteBlock(h, p)
      PROVE  ControlInv'
  BY <1>4, DeleteStep DEF Delete
<1>5. CASE Crash \/ Start
  BY <1>5, DaemonStep
<1>6. CASE UNCHANGED vars
  BY <1>6, Frame DEF ControlInv, TypeOK, vars, hostVars, localVars, watchVars,
     uploadVars, timerVars, handlerVars
<1> QED BY <1>1, <1>2, <1>3, <1>4, <1>5, <1>6 DEF Next

\* The control invariant holds in every reachable state.
THEOREM ControlInvariant == Spec => []ControlInv
<1>1. Init => ControlInv
  BY ControlInit
<1>2. ControlInv /\ [Next]_vars => ControlInv'
  BY ControlNext
<1> QED BY <1>1, <1>2, PTL DEF Spec

\* The variables keep their types: the count of blocks never goes below zero,
\* and the request channel never holds more than its capacity.
THEOREM TypeCorrect == Spec => []TypeOK
<1>1. ControlInv => TypeOK
  BY DEF ControlInv
<1> QED BY <1>1, ControlInvariant, PTL

\* Two uploads of one path never run at once.
THEOREM UploadsExclusive == Spec => []OneUploadPerPath
<1>1. ControlInv => OneUploadPerPath
  BY DEF ControlInv, UploadsMatch, OneUploadPerPath
<1> QED BY <1>1, ControlInvariant, PTL

\* No upload is at work on a path, in any stage, while a delete of the path is
\* past its wait: the promise of blockUploads.
THEOREM HeldPathsQuiet == Spec => []NoUploadWhileHeld
<1>1. ControlInv => NoUploadWhileHeld
  <2> SUFFICES ASSUME ControlInv, NEW h \in Handlers, NEW u \in Uploaders,
                      Holds(h, path[u]), pc[u] \in Registered
               PROVE  FALSE
    BY DEF NoUploadWhileHeld
  <2>1. uploads[path[u]] = u
    BY DEF ControlInv, UploadsMatch
  <2>2. uploads[path[u]] = None
    BY DEF ControlInv, WaitsMatch, Holds
  <2> QED BY <2>1, <2>2, NoneAssumption
<1> QED BY <1>1, ControlInvariant, PTL

=============================================================================
