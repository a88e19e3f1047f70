# proxs3, modelled and proved

proxs3 makes an S3 bucket a Proxmox VE storage. On every node a Go daemon
(`proxs3d`) keeps a cache directory per storage; PVE works on the files in it,
through a Perl plugin that talks to the daemon over a Unix socket. The daemon
downloads objects when PVE needs them, notices what PVE writes and uploads it in
the background, and decides from small metadata files what it may purge, refresh,
evict or upload. The bucket is shared by all nodes, and nothing else is.

What can go wrong is a matter of order: a write whose upload is still running, a
delete that starts meanwhile, a second write, a retry timer, a download that asked
S3 before and looks at the cache after, a crash between two of these. The modules
here model those parts step by step, TLC checks them on small instances, and TLAPS
proves the main results for every instance.

## Inventory

| Component | Source | State | Operations | Modelled in |
|---|---|---|---|---|
| Background uploads | `internal/api/watcher.go` | debounce map, `uploadRequests`, `uploads`, `blocked`, `retries`, `retryTimers` | inotify event, request, tick, `uploadNewFile`, `uploadOnce`, `scheduleRetryLocked`, `blockUploads`, `scanPendingUploads`, `addWatchDirs` | UploadControl |
| Cache marks and files | `internal/cache/cache.go` | file, metadata (ETag, size, CachedAt, inode, pending) | `MarkPending`, `MarkSynced`, `StoreMeta`, `IsStale`, `Invalidate`, `Remove`, `EvictByAge`, `Link`; `Store`, `evictIfNeeded` | UploadControl, CacheSync, Resync (not the last two) |
| Download | `api.go` `handleDownload`, `progress.go` | answer to HEAD, temporary file | HEAD, look, serve, purge, compare, refetch part by part, rename, record | CacheSync, DownloadFile |
| Delete | `api.go` `handleDelete` | block on the path | block, DeleteObject, remove, unblock | UploadControl, CacheSync, Resync |
| Rename, copy | `api.go` `handleRename`, `handleCopy` | blocks on two paths | CopyObject or upload of the local file, local copy or rename, record | RenameCopy |
| Upload request, resync | `api.go` `handleUpload`, `resync.go` | none kept | HEAD, compare, PutObject, Link or MarkSynced | Resync |
| List | `api.go` `handleList`, `mergeLocalFiles` | none kept | bucket listing plus local files | Volumes |
| Tags | `api.go` `handleGetAttr`, `handleSetAttr` | tags on S3 | read-modify-write | no (nothing holds when two overlap) |
| Process | `main.go`, `systemd/` | phase, signal channel, PID file | boot, SIGHUP, SIGTERM, drain, exit, restart | Daemon |
| Reload, clients, health | `api.go`, `main.go` | `clients`, `health`, `usage`, `cfg` | `Reload`, `initClients`, `checkAllHealth`, status | Daemon (not `usage`, one cache directory) |
| Configuration | `config/config.go` | parsed storages | section parser, credentials | Daemon (what is read when, not the syntax) |
| S3 client | `s3client/client.go` | none kept | one SDK call each, chunked download | by its answers, where it is used |
| Perl plugin | `perl/S3Plugin.pm` | cache of the daemon's answers | hooks, activate, alloc, import, clone, rename, free, prune, attributes | Daemon (hooks, activate), Volumes (alloc); its writes are external actions |
| Size eviction | `cache.go` `evictIfNeeded` | the walk's list | scan, sort, remove | no: nothing but tests calls it |
| Web UI, packaging | `js/`, `debian/` | none | forms, installation | no (no run-time logic) |

How they interact. The plugin calls the handlers over HTTP, many at a time. PVE
writes into the cache directory without asking anybody; inotify tells the watcher
loop. The loop, the handlers and the retry timers share `uploadsMu` (who uploads,
who blocks), and all of them share `fc.mu` (one metadata write at a time), but no
lock spans a decision and the file operation or S3 request it leads to. Other
nodes change the bucket at any moment.

What makes each part correct:

* uploads: one upload per path; none while a delete works on the path; no object
  that comes back after its delete; no write forgotten; nothing recorded as
  uploaded that S3 does not have; every write reaches S3 in the end, unless some process
  keeps the file open;
* cache and download: the daemon never destroys content that was never on S3;
  a cache hit is current; a purge removes only what is deleted on S3; metadata
  that says "in sync" is right;
* rename and copy: the destination is what the source was, and is recorded so;
  resync: without force it replaces no newer object, and never hides a write;
* transfer: what stays in the cache and what reaches S3 is one whole version of the
  object, whoever else transfers it, and a download is not uploaded back;
* list and names: a listing misses no volume that was there all the time it was made,
  though it moved between cache and bucket; a new disk takes no name in use;
* process: a change of the configuration that was signalled is served in the end, a
  storage added on another node becomes known, health follows the endpoints, and a stop
  waits for the requests.

The hard behaviours are listed one by one, with the line where each bites and the
properties that cover it, under `hazards` in PROJECT.json.

## Modules

**UploadControl** (`watcher.go`, `handleDelete`). Several paths, upload goroutines,
retry timers and deletes. Each critical section of `uploadsMu` is one action
(`EnterBlocked`/`EnterRunning`/`EnterFresh`, `UploadArm`, `UploadLanded`,
`UploadRerun`/`UploadFinish`, `DeleteBlock`, `Unblock`, `TimerCallback`), each file
or network operation between them is one (`UploadOpen`, `UploadCheck`, the HEADs,
`PutOK`/`PutFail`, `UploadRecord`, `DeleteObject`/`DeleteFail`,
`RemoveLocal`/`RemoveFail`), and each case of the watcher's `select` is one
(`WatcherEvent`, `WatcherRequest`, `TickDrop`, `TickSpawn`). A content is a version
number; metadata covers a file when it was recorded for its version. `remarked` is
the comparison of the mark's time with the `started` of the running upload. A timer
is an identity that is set (`armed`), whose callback may already run (`fired`),
and that the map `retryTimers` may or may not still know: `Stop` and `Reset` do not
undo a callback that has started. `Crash` loses everything in memory; a PutObject in
flight has then reached S3 or never will. SIGTERM is the same: `main` waits for
requests, not for uploads. A PutObject that was canceled takes effect before its
goroutine returns or never. `FileInUse` is `fileInUse`: a path in `inUse`, which any
process may enter and leave at any moment (`PVEOpen`, `PVEClose`; looked at by the ticks
of the debounce map only, so that an open matters only for a path in it), or one that an
upload of the daemon itself has open; such a file stays in the map.

**ObjectAccess**: what `blockUploads` promises, with no goroutine, map or channel
left: uploads and deletes take turns on an object, and only the one whose turn it
is changes it. UploadControl implements it under the refinement mapping `Access`
(who is registered, who got past its wait).

**CacheSync** (`handleDownload`, `cache.go`, and what uploads, deletes, eviction and
other nodes do to the same key). One cache file, its metadata and its object. A
content is a number that is also its ETag; the size, mtime and inode comparisons of
`Covers` and `MarkSynced` are `fresh` and `usame`, the comparison of mtime with
LastModified is `newer`. Every read the code acts on later is a stage of its own:
HEAD, look at the metadata, purge or compare or invalidate, fetch, transfer, rename,
record; evict check, evict remove. What UploadControl separates is coarser here: the
upload is open, HEAD, put, record. Constants switch on what may happen at the same
time (`OtherNodes`, `Evicts`, `LateMarks`, `BusyWrites`, `S3MayFail`), so that each
run says exactly under what circumstances its property holds. Initially the file is
absent, in sync, or a copy without metadata whose object an older version downloaded.
The watcher marks a file only when its event starts an episode, that is when the path
is not in the debounce map (`EpisodeRuns`). `queued` stands for that map, the request
channel and the retry timers together, so a write of a queued path may be marked or not.
`unmarked` remembers a write that was not, and `Unseen` says that it is still the file
and S3 still lacks it; RenameCopy (`Noticed`) and Resync make the same choice.

**RenameCopy** (`handleRename`, `handleCopy`). Two or more keys with their files,
metadata, objects and background uploads. The stages of a request follow the code:
blocks in its order, `Look` (srcCached, `localAuthoritative`), `CopyObject`, the local
copy in two steps (`CopyCreate`, `CopyFill`: `Partial` is what others see in between),
`putFile`, `DeleteObject`, the local rename, `recordOwnWrite`, `Invalidate`. What a
request holds of a file is its `info`: the name at which the described file is, or none
once it was rewritten, which is what `MarkSynced` compares. Uploads are those of
CacheSync, coarser still. The ghosts of a request say what the source was (`want`, which
the upload of the source may still change before CopyObject, `Sends`) and whether its
cached copy was its object or a marked write (`sure`). `FreeNames` says that PVE names destinations that are not in
use (`find_free_diskname`), `BusyWrites` that PVE respects no lock of the volume.

**Resync** (`handleResync`, `handleUpload` with `Link`, `handleDelete`). One key, because
the walk treats each on its own. Times matter here: a content is the time of its first
write, files have an mtime, objects a LastModified, metadata a CachedAt, and `Sizes`
says how many sizes contents have, since resync compares sizes before times. An upload
request opens a file elsewhere or the cache file itself (`own`), for which Link finds the
same inode and writes the metadata only, whatever the file has become. That step and
resync's backfill write metadata without a look at the file (`Unguarded`).

**DownloadFile** (`handleDownload` from the temporary file on, `progress.go`, and the
watcher's `fileInUse`, tick and upload). Files are inodes here: names (`tmp`, `file`) and
descriptors point to them, `os.Create` truncates the one `tmp` names, a rename moves the
name and not the descriptors. A content is a version per part; parts arrive in any order
(the SDK's parallel GETs). `odd` remembers the inodes that two transfers shared, that a
transfer put in place for another one, or that a crash left in place unrecorded. `Disturb`
switches on what the code does not survive: a transfer that fails, or a crash, while
another transfer shares the file (PartialUpload shows what either leaves), an object
replaced during a download, a file replaced between the check that nobody has it open
and the open of its upload.

**Daemon** (`main.go`, `Start`, `Stop`, `Reload`, `initClients`, `checkAllHealth`,
`config.go`, the plugin's hooks and `activate_storage`, the systemd unit). `phase` and
`hpc` are the program counters of `main` and of the signal goroutine, `sig` the signal
channel. A reload reads `storage.cfg` at once and the credentials one by one, and
installs clients and health under two locks; a health check takes the clients at its
start and stores at its end. `Die` is what the kernel does with memory, channel and
goroutines. `announced` marks the time between a SIGHUP and the next change.

**Volumes** (`handleList`, `mergeLocalFiles`, `alloc_image`). Names are numbers, as disk
names are; a listing reads the bucket in key order and the directory in any order, and
everything else that moves volumes is an action in between. `stayed` and `seen` bound
what the answer may say. `whole` are the names with an object all the time since the
listing began: it cannot miss those, so their files may be evicted. The file of any other
name may be evicted, too, right after its first upload, which the listing then misses in
the bucket (read too early) and in the directory (read too late); `stayed` leaves out
exactly these. `quiet` says that nothing has happened which an allocation cannot notice.

**UploadControlProofs** (with the refinement), **UploadStoreProofs, CacheSyncProofs,
RenameCopyProofs, ResyncProofs, DownloadFileProofs, DaemonProofs, VolumesProofs**: the
theorems, one module per component and a second one for the contents of uploads.
**MCUploadControl, MCCacheSync, MCRenameCopy, MCDownloadFile**: symmetry for TLC
(**MCResync** and **MCDaemon** need none; Volumes, whose names are numbers, is run as it is).

Operators whose name ends in a second word after an underscore (`InFlight_Ignored`)
are altered copies of the definition below them. No specification uses them; each is
a plausible mistake in the code, which a property of a run must notice.

## Runs

| Run | Question | Result |
|---|---|---|
| UploadSafety | Do uploads, reruns, retries, deletes, writes and a crash on one path keep `OneUploadPerPath`, `NoUploadWhileHeld`, `NoResurrection`, `NoWriteForgotten`, `RecordedIsStored`? | yes |
| UploadFaults | Do the inductive invariant `StoreInv` and `ImplementsObjectAccess` hold when every operation may fail and watches come late? | yes |
| UploadLiveness | Do deletes end and writes reach S3 (`DeleteEnds`, `EventuallyUploaded`)? | yes, under `Fairness`, the second unless a file stays open for ever |
| CacheHit | One download with uploads, deletes, eviction, failures and a crash: `MarksInv`, `NoLostWrite`, `HitIsCurrent`? | yes, but for rewrites the watcher does not mark |
| RenameSafety | Do renames and copies keep `SourceStaysAway`, `RecordsWhatIsThere`, `DestinationIsSource`, `NoLostWrite` (and `TypeOK`) against uploads, eviction, another node, failures and a crash? | yes |
| ResyncSafety | Do resyncs keep `KeepsNewer`, `NoLostWrite` (and `TypeOK`) against uploads, upload requests, deletes and another node? | yes, if a HEAD fails only with 404, and but for the `Unguarded` records |
| DownloadWhole | Do two downloads of a key keep `ObjectWhole`, `FileWhole`, `CoveredIsTag`, `NotUploadedBack` (and `TypeOK`) against the watcher, its uploads, another node and a crash? | yes, without `Disturb` |
| DaemonReload | Do signals, reloads, health checks and stops keep `NothingMissed`, `ChangeServed`, `AddedIsKnown`, `HealthSettles`, `DrainedAtExit` (and `TypeOK`)? | yes, under `Fairness` |
| VolumeList | Do listings and allocations keep `ListIsBetween`, `AllocIsFree` (and `TypeOK`) while volumes come, go and move? | yes, but for the cases the two name |
| UploadDropped | a trigger or failed upload is not dropped | violated after a failed delete |
| ResyncBlind | an S3 object that is newer is skipped unless forced | violated by a HEAD that fails |
| PartialUpload | the temporary file keeps partial files away from the uploads: `ObjectWhole` | violated by two downloads of which one fails |

Each violated run checks one sentence of a comment (quoted in PROJECT.json under
`findings`) and its counterexample is a schedule of the code as it is.

### Bounds, and why they are enough

* UploadSafety: one path (the bookkeeping is per path, and a full channel of
  capacity one then holds that very path, which `NoWriteForgotten` needs), two
  goroutines (one registered, one that finds it registered), two timers (one in the
  map, one forgotten), two deletes (the count in `blocked` matters from two on),
  three versions (a first write, a rewrite during its upload, a rewrite during the
  rerun), one crash, a retry count that saturates at one (the delay saturates, and
  time is abstract).
* UploadFaults: the same with one delete, two versions, and all four failure
  switches on.
* UploadLiveness: one delete, one timer, two versions, no symmetry; processes open and
  close the file. They do in UploadFaults, not in UploadSafety and UploadDropped: an
  open file only delays a tick, which may come at any moment anyway.
* CacheHit: one download, three contents, one crash. Transfers of one key do not overlap
  in CacheSync: they share a temporary file, which is DownloadFile's subject.
  `HitIsCurrent` is false with two downloads and another node: a backfill that comes after
  an eviction leaves an ETag without a file, and a later request compares it with the file
  that another one has put in place and not recorded yet. `NoLostWrite` and `MarksInv` are
  proved for any number of downloads.
* RenameSafety: two keys and one request at a time, two in a row: PVE locks
  a volume it renames or clones, for requests that keep apart the properties are proved
  whatever their number, and the second request finds
  what the first left, also after a failure or the crash. Three contents: the source, a
  write, the other node's. A third key adds one case, the copy of a copy that a crash left
  behind; it was checked apart, and the last disjunct of `NoLostWrite` is about it.
* ResyncSafety: four times, so two writes (by PVE, the other node or an upload request)
  after the initial states, which are every relation of file, metadata and object; two
  sizes, so that contents of equal and of different size both occur.
* DownloadWhole: two downloads, two parts and two versions of different size, one crash,
  four inodes (temporary file, cache file, an upload's, one a descriptor still holds). A
  third download can put the file of another one in place under the shared name; `odd`
  counts that, and the theorems hold for any number.
  PartialUpload: three parts, so that the shared file can be complete, then partial.
* DaemonReload: one storage, two states of its section and credential each, a reload's
  check besides the loop's, one request. Storages share only the files, the two maps and
  the signal, all written at once; Spawned = {c1} makes a second reload wait for the
  first one's check, and the loop's check overlaps either. No symmetry: it is checked
  for liveness.
* VolumeList: two names (the -e loop of an allocation goes from one that is taken to the
  next), one listing at a time.

Every safety property of the passing runs, and the refinement, is proved without any of
these bounds (see Proofs for the hypotheses); the liveness properties are not.

Deadlock is checked in the runs of UploadControl, CacheSync, DownloadFile, Daemon and
Volumes but UploadLiveness; there and in RenameCopy and Resync the bounds let the system come to rest with nothing to do.

### Fairness

`Fairness` is weak fairness of every goroutine that can run (the Go scheduler), of
every ready case of the watcher's `select`, of timers and their callbacks, of the
handlers, and of the daemon's start (systemd restarts it). A network call ends: the
uploads and their HEAD have a context with a timeout, DeleteObject (api.go:593, the
request's context) the timeouts of the HTTP transport (client.go:90-98). Strong fairness
of `PutOK` and of the HEAD's answers says that S3 does not fail for ever. The tick that
starts an upload (`TickSpawn`) is fair only as long as the file is not open, and nothing
makes a process close it: an ISO attached to a running VM is not uploaded while it is,
which `EventuallyUploaded` says by its premise, that in the end no other process has the
file open. Nothing is assumed of PVE's writes, of deletes being requested, of crashes or of
requests failing. Deletes do not fail in this run: with a
failing DeleteObject the code does forget the write (UploadDropped).

`Daemon!Fairness`: the signal goroutine, the health checks (HeadBucket has a timeout) and
the plugin's hooks are weakly fair; pvestatd activates a configured storage again and
again; reading the configuration is strongly fair, it does not fail for ever. Nothing is
assumed of signals, of `systemctl start`, of endpoints and of requests. `ChangeServed`
and `AddedIsKnown` say nothing of a daemon that does not keep serving. That `storage.cfg` is written
when a hook signals is said by a comment of on_update_hook; for the removal of a storage it
is an assumption about PVE, which calls the hook. A probe depends on whether the endpoint answers,
not on the endpoint or credentials of the client it took, so `HealthSettles` covers stale
results for storages that are new or gone, not for one whose endpoint changed.

## Proofs

TLAPS checks every theorem from the named assumptions on the constants only:
the identities differ (`NoneAssumption`, `AnswerAssumption`), handlers are finitely
many (`FiniteAssumption`, because `blocked` counts them), bounds are numbers and
switches are Booleans. Bounds stay parameters: a theorem holds for every value of them.
A hypothesis of a theorem is a switch of its module, and says under which circumstances
the code keeps its promise; each is needed, by a run or by a counterexample named here.

*UploadControl.* `ControlInv` is inductive: types; `UploadsMatch` (the map `uploads`
names exactly the goroutines past their registration); `WaitsMatch` (a delete waits
for the upload registered under its path, and after the wait none is registered);
`BlocksMatch` (`blocked` is the number of deletes at work, hence no unblock is lost or
doubled; it takes lemmas on cardinality); `TimersMatch`. From it follow
`UploadsExclusive`, `HeldPathsQuiet` and, step by step with the mapping,
`ImplementsAccess`. `OneUploadPerPath` alone is not inductive: that a second goroutine
finds the first depends on the map, that a delete sees no upload depends on
`blocked` being positive whenever a delete holds the path.

*Contents.* `StoreInv` adds `VersionsMatch` (an upload that landed stored what it
opened unless the file has changed since) and `GoneMatch` (no upload in a stage that
can still write has a deleted file open). It is inductive relative to `ControlInv`;
it gives `RecordsTruth` always and `DeletedStaysDeleted` if unlinking succeeds (the
leftover of a delete that cannot unlink may be uploaded again, see below).

*No write forgotten* (UploadStoreProofs). `NoWriteForgotten` says that a write S3 does not
have is on somebody's mind; it is not inductive, because an upload that runs may have opened
an older file, or be about to be dropped. `EngagedInv` adds to `ControlInv`: a path that owes
an upload is in an event, a request, the queue or the debounce map, or has a goroutine or
a timer (`OwedMatch`); a goroutine whose upload will not do for the file as it is runs
again, or somebody else looks at the file (`DoubtMatch`); only a delete cancels
(`CancelMatch`); every directory is watched while the daemon runs, and nothing runs without it
(`ProcessMatch`). `NothingForgotten` assumes `Quiet` (no directory watched late, no
DeleteObject or unlink that fails: in each of these cases the code does forget a write, see
UploadDropped) and that the channel of requests always has room for the path or holds it
(`Roomy`: what does not fit is dropped). `OnePathNotForgotten` needs no room: a full
channel then holds that very path.

*CacheSync.* `MarksInv` is inductive: types, `TagKnown` (no ETag is used of a HEAD
that failed), `SnapshotsMatch` (what uploads and downloads remember of the file and
of S3 is right) and `SyncedWasStored` unless all files have one size
(`SyncedHasBeenStored`).

`LosesNoWrite` proves `NoLostWrite` if nobody writes the file between a look at it
and the act (`Calm`: no `LateMarks`, no `BusyWrites`; with either the code loses writes, see
below), for any number of downloads, whatever other nodes do and whatever fails; a write
that the watcher has not marked (`Unseen`) is excepted, because the code loses it. In
`KeepInv`, a write under a running daemon stays marked until S3 has it (`ClaimMatch`), who
compares times knows of a file newer than the object (`NewerMatch`), and whoever may take
the file away after a look, or finds it in sync, has a file that S3 has had or that lost
against its object (`HoldMatch`, `SyncMatch`).

`HitsAreCurrent` proves `HitIsCurrent`, with the same exception, under `Settled`: `Calm`, sizes that tell contents
apart, other nodes that keep away between HEAD and GET, and one download. `HitInv`
says what file each stage of a download and of an eviction may find (`StageMatch`), that
the answer of a HEAD is what S3 still has or what nobody brings back unnoticed
(`AnswerMatch`, `OpenMatch`), and that the recorded tag is that of the file, or of a content
that is gone (`TagMatch`). Each hypothesis has its counterexample in TLC: with `LateMarks`,
`BusyWrites`, equal sizes, or other nodes "any" a hit may be outdated.

*Rename and copy.* The types and the shape of requests (`ShapeMatch`: which stage
has which blocks, and no upload runs on a path whose block was waited for) hold for any
number of requests; the rest is proved for any number that keep apart (`[]Apart`: no
request writes a name that another one uses, PVE locks a volume and its destination; copies
may share their source), and but for `StaysAway` without writes to their names while they
work (`Undisturbed`). The invariants were checked with two requests on three and four keys
before they were proved. `GoneMatch` gives `SourceStaysAway`: that no upload of the old name runs or
can start depends on its file being gone or about to be moved. `RequestInv` relates each
stage to what the source was and the FileInfo in hand to the file (`SourceMatch`), and
metadata to the file it describes (`MarkMatch`); it gives `DestinationIsSource` and
`RecordsWhatIsThere`. `KeptInv` adds that uploads remember their
file (`StoredMatch`) and that a source is only forgotten when no file is there
(`EmptyMatch`), for `NoLostWrite`. Its first form was false with three keys: a copy of a cached file
older than its object, left by a crash and taken as in sync by the next start, is
recorded under the object's ETag although S3 never had that copy's content.

*Resync.* `ResyncInv` is inductive: types, the times of files, objects and marks
(`TimesMatch`: an mtime tells which content it is of), that what is about to be recorded
has reached S3 (`StoredMatch`), and why a resync uploads (`ReasonMatch`). `KeepsWrites` has no
hypothesis, but its property excepts the two `Unguarded` records, and marked writes are its subject;
`ReplacesNothingNewer` assumes that a HEAD fails only when there is no object, which
is what ResyncBlind violates.

*Downloads.* `FilesInv` is inductive without `Disturb`: which names and descriptors may
point to one inode (`HandsMatch`, `NameMatch`), that what an open file lacks of the object
is a hole some download of it is going to fill (`TransferMatch`), that a closed one is whole
(`FileMatch`), and what metadata and uploads may say of it (`CoverMatch`, `UploadMatch`,
`OddMatch`). It gives `ObjectWhole`, `FileWhole`, `CoveredIsTag` and `NotUploadedBack`
for any number of downloads. The proof found that `odd` missed a case that needs
three of them: a download renames, by the shared name, the file another one is still writing.

*Volumes.* `VolumesInv` is inductive. A name that stayed is whole or has its file, and a
listing past its entry in the bucket has it or will find the file (`ListMatch`). While
nothing misleads an allocation, every object that is not whole has its file, which no
delete is about to remove; its list holds what is whole, so the name it takes is not
whole, and -e would have seen its file (`AllocMatch`).

*Daemon.* `DaemonInv` is inductive: types, which say how the phase of `main` goes with
the stage of the signal goroutine and with the health loop, and `CountersMatch`: that
goroutine is `main` itself while it boots, idle without a process, and "drained" only
when no request is left. From it follow `TypeCorrect` and `ExitsDrained`. The types
alone are not enough for the second: that no request begins after `Shutdown` has
returned depends on both program counters. `AnnouncedMatch` follows a change that was
announced through the channel, the two steps of reading and the installation, and gives
`NothingMissed`, the safety part of `ChangeServed`.

Only model-checked: the liveness properties `DeleteEnds`, `EventuallyUploaded`,
`ChangeServed`, `AddedIsKnown` and `HealthSettles`; liveness under fairness is out of the
prover's reach, as is everything about ENABLED.

## Not modelled, and why

Debounce and back-off lengths, cache ages and clock granularity (time is abstract:
whatever may happen after a delay may happen at any moment; the one assumption is that
a debounce takes longer than the step from a rename to its StoreMeta). File name
filters, logging, HTTP encoding, the syntax of `storage.cfg`, prefixes and formats of the
listing, the usage sums. Object tags (`handleSetAttr`): a read, a change and a write with
no lock and no state in the daemon. Two at once, an upload in between (PutObject replaces
the object's tags) and a read that fails (api.go:850 takes it for "no existing tags") all
lose tags, which leaves no property but the merge itself. `evictIfNeeded`, dead code in
the daemon: README.md:323's eviction by size never happens, because only `FileCache.Store`
calls it and nothing but tests calls `Store`. `prune_backups` and the read-only queries of the plugin. Legacy `.meta` sidecars. The immutable
flag, except that a removal may fail. Partial writes of metadata files: a metadata
file is written in one step, although `os.WriteFile` is not atomic under a crash.

Observed while modelling and not claimed by any property: an object replaced between
HEAD and GET is recorded with the older ETag, which costs a
refetch, or a wrong hit if the older object comes back (hence `HitIsCurrent` with other
nodes "apart"); with two downloads at once a hit may be outdated without that (see Bounds,
CacheHit); a directory watched late is not scanned (watcher.go:142), so its first files wait for
a restart; the temporary file of a transfer that a crash cut off is only truncated by
the next download of its key; `Reload` assigns `s.cfg` before it compares the cache
settings (api.go:118), so the cache never changes its directory while the handlers do;
a synced copy of an object another node deleted is still listed.

Seen in the models, against a comment of the code, without a run of their own:

* watcher.go:61 "durably mark the local file as authoritative before anything can act on
  the old state": a second write during the debounce is not marked when the upload of the
  first, which a download or a retry had started, has been recorded meanwhile. Its
  metadata keeps the old ETag, because `IsStale` compares nothing else; so a download
  serves content that S3 never had, a purge or refresh destroys it (CacheSync, `Unseen`),
  and a rename copies the old object and records the file as in sync with it (RenameCopy,
  `sure`);
* cache.go:267 "nothing to link or copy": /v1/upload of the cache file itself records the
  new metadata for a file that was written during its PutObject; with the same size it is
  never uploaded (Resync, `UploadLink` with `own`);
* watcher.go:374 "One timer per path": `Reset` and `Stop` do not stop a callback that
  already runs, so two retry timers of a path can be set at once (UploadControl, `armed`);
* cache.go:313 "the leftover must not look like a PVE write": one without metadata does
  (UploadControl with `RemoveMayFail`, `NoResurrection`);
* api.go:409 "would destroy data that never reached S3" and cache.go:372 "Never evict a
  file that hasn't been uploaded": a write between the look at the metadata and the
  rename, purge or eviction is destroyed (CacheSync with `BusyWrites`, `NoLostWrite`);
* watcher.go:106 "prevents uploading partial writes": after a crash in `copyLocalFile`
  the beginning of the file is uploaded as the volume (RenameCopy, `Partial`);
* api.go:590 "would resurrect the object on S3": the blocks of a delete do not hold the
  PutObject of a resync or of an upload request (Resync);
* api.go:392 "keeps that race on the safe side": when an upload ends between the HEAD that
  answers 404 and the look at the metadata, the copy just uploaded is purged and the
  request answered 404 (CacheSync, `DownloadPurge`); S3 still has it;
* README.md:321 "S3 is always the source of truth": a copy or rename of a stale cached
  source records the newer object's ETag for the older content, which this node then
  serves as current (RenameCopy, the condition `sure` of `RecordsWhatIsThere`);
* watcher.go "prevents uploading partial writes" and api.go:504 "The watcher ignores it":
  a file two downloads shared is uploaded back, and may replace a newer object
  (DownloadFile, `odd`);
* S3Plugin.pm:600 "previous allocations may not have been uploaded": the loop over -e
  protects those of this node, then takes the next name without a look at the list; an
  allocation of another node that waits for its upload is not seen at all, and a list
  that S3 did not answer is the local files with status 200 (Volumes, `quiet`);
* S3Plugin.pm:783 "S3 backups are preserved": a backup never uploaded is on the list and
  is unlinked with its only copy;
* main.go:72: a SIGTERM that finds a SIGHUP in the channel is dropped; one before
  `s.server` is set ends in a nil dereference; a SIGHUP before `signal.Notify` ends the
  daemon as a clean stop, which systemd does not restart (Daemon, `Queue`, `TakeTerm`,
  `Deliver`); a reload reports every storage as offline until a check has ended.

## Plan

Done: all modules of the list above, and a theorem for every safety property of the
passing runs.

1. Proofs: the action lemmas behind liveness (what each fair step of UploadControl
   brings nearer).
2. A refinement of what RenameCopy, CacheSync and Resync share: an abstract key whose
   file is pending or on S3.
3. prune_backups, and allocation on two nodes.
