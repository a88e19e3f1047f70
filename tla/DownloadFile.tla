---------------------------- MODULE DownloadFile ----------------------------
(***************************************************************************)
(* The files of a download (handleDownload from its decision to transfer,  *)
(* internal/api/api.go; DownloadToFile, internal/s3client/client.go): the  *)
(* temporary file that all downloads of a key share by name, the inodes    *)
(* behind that name and the cache file, and the watcher, which may upload  *)
(* what it finds in the cache.  CacheSync has the decisions, on one        *)
(* transfer at a time.                                                     *)
(*                                                                         *)
(* A content says for each part of a file which version wrote it, 0 is a   *)
(* hole.  The ETag of an object is its content.  Later versions of the      *)
(* object are shorter, so that sizes tell them apart (see CacheSync for    *)
(* what the code assumes of files of one size).                            *)
(***************************************************************************)
EXTENDS Naturals, FiniteSets

CONSTANTS
    Downloads,
    NumParts,      \* parts the SDK transfers one by one, in any order
    Inodes,        \* bound: inodes in use at a time
    NoInode,
    MaxVer,        \* bound: versions
    MaxCrashes,    \* bound: crashes
    Disturb        \* transfers that share a file may fail, the object may change
                   \* during a download, and a file be replaced between the check
                   \* that nobody has it open and the open of its upload

ASSUME InodeAssumption == NoInode \notin Inodes
ASSUME BoundAssumption ==
    MaxVer \in Nat \ {0} /\ NumParts \in Nat /\ NumParts >= MaxVer /\ MaxCrashes \in Nat
ASSUME FlagAssumption == Disturb \in BOOLEAN

VARIABLES
    up, crashes,
    object,      \* the object
    data,        \* [Inodes -> content]
    young,       \* inodes written after the object's LastModified
    tmp, file,   \* what .downloads/<storage>/<key> and the cache file are
    meta,        \* the metadata; fresh: its inode has not been written since
    event,       \* an inotify event waits
    queued,      \* the path is in the debounce map
    upload,      \* uploadOnce: stage, inode, neither file nor mark changed since
    odd,         \* ghost: inodes two downloads shared or one put in place for another, or in
                 \* place unrecorded at a crash
    down         \* [Downloads -> stage, inode opened, object of HEAD and GET, parts left]

filesVars == <<data, young, tmp, file>>
watchVars == <<event, queued>>
vars == <<up, crashes, object, filesVars, meta, watchVars, upload, odd, down>>

Parts    == 1..NumParts
Contents == [Parts -> 0..MaxVer]
Version(v) == [p \in Parts |-> IF p <= NumParts + 1 - v THEN v ELSE 0]
Empty    == [p \in Parts |-> 0]
Whole    == {Version(v) : v \in 1..MaxVer}
NoMeta   == [state |-> "none", tag |-> Empty, size |-> 0, ino |-> NoInode, fresh |-> FALSE]
NoUpload == [at |-> "idle", ino |-> NoInode, same |-> FALSE]
NoDown   == [at |-> "idle", fd |-> NoInode, head |-> Empty, got |-> Empty, todo |-> {}]

TypeOK ==
    /\ up \in BOOLEAN /\ crashes \in 0..MaxCrashes /\ object \in Contents
    /\ odd \subseteq Inodes /\ data \in [Inodes -> Contents] /\ young \subseteq Inodes
    /\ {tmp, file} \subseteq Inodes \cup {NoInode}
    /\ meta \in [state: {"none", "pending", "synced"}, tag: Contents, size: 0..NumParts,
                 ino: Inodes \cup {NoInode}, fresh: BOOLEAN]
    /\ meta.state # "synced" => meta.tag = Empty
    /\ event \in BOOLEAN /\ queued \in BOOLEAN
    /\ upload \in [at: {"idle", "open", "put", "record"}, ino: Inodes \cup {NoInode},
                   same: BOOLEAN]
    /\ down \in [Downloads -> [at: {"idle", "create", "write", "meta"},
                               fd: Inodes \cup {NoInode}, head: Contents, got: Contents,
                               todo: SUBSET Parts]]

\* The object is there and nothing is cached.
Init ==
    /\ up = TRUE /\ crashes = 0 /\ object = Version(1)
    /\ data = [i \in Inodes |-> Empty] /\ young = {}
    /\ tmp = NoInode /\ file = NoInode
    /\ meta = NoMeta /\ event = FALSE /\ queued = FALSE
    /\ upload = NoUpload /\ odd = {} /\ down = [d \in Downloads |-> NoDown]

Size(c) == Cardinality({p \in Parts : \E q \in p..NumParts : c[q] # 0})
Covers  == /\ meta.state = "synced" /\ meta.fresh
           /\ meta.ino = file /\ meta.size = Size(data[file])
Meta(state, tag, size) ==
    [state |-> state, tag |-> tag, size |-> size, ino |-> file, fresh |-> TRUE]

\* Mutant: the ETag stays.
Marked_KeepTag == Meta("pending", meta.tag, Size(data[file]))

\* MarkPending.
Marked == Meta("pending", Empty, Size(data[file]))

Open(i) == \E d \in Downloads : down[d].fd = i

\* The file d writes to is its own, and not in the cache yet.
Apart(d) == /\ down[d].fd \in {NoInode, tmp}
            /\ \A e \in Downloads \ {d} : down[e].fd = NoInode \/ down[e].fd # down[d].fd

(***************************************************************************)
(* The other nodes and the watcher.                                        *)
(***************************************************************************)
MayChange == Disturb \/ \A d \in Downloads : down[d].at = "idle"

OtherPut ==
    /\ MayChange
    /\ \E v \in 2..MaxVer : object' = Version(v) /\ \A w \in v..MaxVer : object # Version(w)
    /\ young' = {}
    /\ UNCHANGED <<up, crashes, odd, data, tmp, file, meta, watchVars, upload, down>>

\* Mark what the metadata does not cover, and queue it.
WatcherEvent ==
    /\ up /\ event /\ event' = FALSE
    /\ IF queued \/ file = NoInode \/ Covers THEN UNCHANGED <<queued, meta, upload>>
       ELSE queued' = TRUE /\ meta' = Marked /\ upload' = [upload EXCEPT !.same = FALSE]
    /\ UNCHANGED <<up, crashes, odd, object, filesVars, down>>

\* Mutant: files the daemon itself holds open do not count.
InUse_ByOthers(i) == FALSE

\* fileInUse: a descriptor follows its inode through the rename.
InUse(i) == Open(i)

\* The path has been stable for longer than a rename is away from its StoreMeta.
UploadTick ==
    /\ up /\ queued /\ upload.at = "idle" /\ \A d \in Downloads : down[d].at # "meta"
    /\ file # NoInode => ~InUse(file)
    /\ queued' = FALSE
    /\ upload' = IF file = NoInode THEN upload ELSE [upload EXCEPT !.at = "open"]
    /\ UNCHANGED <<up, crashes, odd, object, filesVars, meta, event, down>>

\* Mutant: every file that exists is uploaded.
Settled_Never == FALSE

Settled == Covers

\* uploadOnce up to PutObject: metadata that covers the file ends it, a file without
\* metadata is compared with S3.
UploadOpen ==
    /\ upload.at = "open"
    /\ IF file = NoInode \/ Settled THEN upload' = NoUpload /\ UNCHANGED meta
       ELSE IF meta.state = "none" /\ file \notin young
       THEN /\ upload' = NoUpload
            /\ meta' = Meta("synced", IF Size(data[file]) = Size(object) THEN object ELSE Empty,
                            Size(data[file]))
       ELSE /\ upload' = [at |-> "put", ino |-> file, same |-> TRUE]
            /\ meta' = IF meta.state = "none" THEN Marked ELSE meta
    /\ UNCHANGED <<up, crashes, odd, object, filesVars, watchVars, down>>

UploadPut ==
    /\ upload.at = "put"
    /\ \/ /\ data[upload.ino] \in Whole \ {object} => MayChange
          /\ object' = data[upload.ino] /\ young' = {}
          /\ upload' = [upload EXCEPT !.at = "record"] /\ UNCHANGED queued
       \/ /\ queued' = TRUE /\ upload' = NoUpload /\ UNCHANGED <<object, young>>
    /\ UNCHANGED <<up, crashes, odd, data, tmp, file, meta, event, down>>

UploadRecord ==
    /\ upload.at = "record" /\ upload' = NoUpload
    /\ meta' = IF upload.same /\ file = upload.ino
               THEN Meta("synced", data[file], Size(data[file]))
               ELSE IF file = NoInode \/ Covers THEN meta ELSE Marked
    /\ UNCHANGED <<up, crashes, odd, object, filesVars, watchVars, down>>

(***************************************************************************)
(* handleDownload.                                                         *)
(***************************************************************************)
At(d, s) == down[d].at = s
Set(d, r) == down' = [down EXCEPT ![d] = r]

\* HEAD and the look at the cache, in one step: serve what is pending or newer,
\* record what matches, drop what is stale.
Begin(d) ==
    /\ up /\ At(d, "idle")
    /\ IF file = NoInode
       THEN Set(d, [NoDown EXCEPT !.at = "create", !.head = object])
            /\ UNCHANGED <<file, meta, queued>>
       ELSE IF meta.state = "pending" \/ (meta.state = "none" /\ file \in young)
       THEN queued' = TRUE /\ UNCHANGED <<down, file, meta>>
       ELSE IF meta.state = "none" /\ Size(data[file]) = Size(object)
       THEN meta' = Meta("synced", object, Size(object)) /\ UNCHANGED <<down, file, queued>>
       ELSE IF meta.tag = object THEN UNCHANGED <<down, file, meta, queued>>
       ELSE /\ file' = NoInode /\ meta' = NoMeta
            /\ Set(d, [NoDown EXCEPT !.at = "create", !.head = object])
            /\ UNCHANGED queued
    /\ UNCHANGED <<up, crashes, odd, object, data, young, tmp, event, upload>>

Free == Inodes \ ({tmp, file, upload.ino} \cup {down[d].fd : d \in Downloads})

\* Inode i has been written: through which name does not matter.
Written(i) ==
    /\ young' = young \cup {i}
    /\ meta' = [meta EXCEPT !.fresh = @ /\ meta.ino # i]
    /\ upload' = [upload EXCEPT !.same = @ /\ upload.ino # i]
    /\ event' = (event \/ i = file)

\* Mutant: the file is opened without O_TRUNC.
Opened_Append(i) == data

Opened(i) == [data EXCEPT ![i] = Empty]

\* os.Create truncates a file that is already there, with whoever writes to it.
Create(d) ==
    /\ At(d, "create")
    /\ \E i \in IF tmp = NoInode THEN Free ELSE {tmp} :
          /\ tmp' = i /\ data' = Opened(i) /\ Written(i)
          /\ odd' = IF Open(i) THEN odd \cup {i} ELSE odd \ {i}
          /\ Set(d, [down[d] EXCEPT !.at = "write", !.fd = i, !.got = object,
                                   !.todo = {p \in Parts : object[p] # 0}])
    /\ UNCHANGED <<up, crashes, object, file, queued>>

\* One part arrives (progressWriterAt).
WritePart(d, p) ==
    /\ At(d, "write") /\ p \in down[d].todo
    /\ data' = [data EXCEPT ![down[d].fd][p] = down[d].got[p]] /\ Written(down[d].fd)
    /\ Set(d, [down[d] EXCEPT !.todo = @ \ {p}])
    /\ UNCHANGED <<up, crashes, odd, object, tmp, file, queued>>

\* The transfer fails, or PVE hangs up: rmTmp removes whatever has that name.
Fail(d) ==
    /\ At(d, "write") /\ (Disturb \/ Apart(d))
    /\ tmp' = NoInode /\ Set(d, NoDown)
    /\ UNCHANGED <<up, crashes, odd, object, data, young, file, meta, watchVars, upload>>

\* Mutant: the error of DownloadToFile is not looked at.
Complete_Any(d) == TRUE

Complete(d) == down[d].todo = {}

\* The rename over the cache file; another download may have renamed it already.
Rename(d) ==
    /\ At(d, "write") /\ Complete(d) /\ (Disturb \/ upload.at # "open")
    /\ IF tmp = NoInode THEN Set(d, NoDown) /\ UNCHANGED <<odd, tmp, file, event>>
       ELSE /\ file' = tmp /\ tmp' = NoInode /\ event' = TRUE
            /\ odd' = IF down[d].fd = tmp THEN odd ELSE odd \cup {tmp}
            /\ Set(d, [down[d] EXCEPT !.at = "meta", !.fd = NoInode])
    /\ UNCHANGED <<up, crashes, object, data, young, meta, queued, upload>>

StoreMeta(d) ==
    /\ At(d, "meta") /\ Set(d, NoDown)
    /\ meta' = Meta("synced", down[d].head, Size(down[d].got))
    /\ UNCHANGED <<up, crashes, odd, object, filesVars, watchVars, upload>>

(***************************************************************************)
(* Crash and start: the temporary file stays, and nobody looks for it.     *)
(***************************************************************************)
Crash ==
    /\ up /\ crashes < MaxCrashes /\ (Disturb \/ \A d \in Downloads : Apart(d))
    /\ up' = FALSE /\ crashes' = crashes + 1
    /\ event' = FALSE /\ queued' = FALSE
    /\ odd' = IF file = NoInode \/ Covers THEN odd ELSE odd \cup {file}
    /\ upload' = NoUpload /\ down' = [d \in Downloads |-> NoDown]
    /\ UNCHANGED <<object, filesVars, meta>>

Start ==
    /\ ~up /\ up' = TRUE
    /\ queued' = (file # NoInode /\ ~Covers)
    /\ meta' = IF queued' /\ meta.state # "none" THEN Marked ELSE meta
    /\ UNCHANGED <<crashes, odd, object, filesVars, event, upload, down>>

Next ==
    \/ OtherPut \/ WatcherEvent \/ UploadTick \/ UploadOpen \/ UploadPut \/ UploadRecord
    \/ \E d \in Downloads : \/ Begin(d) \/ Create(d) \/ Fail(d) \/ Rename(d) \/ StoreMeta(d)
                            \/ \E p \in Parts : WritePart(d, p)
    \/ Crash \/ Start

Spec == Init /\ [][Next]_vars

(***************************************************************************)
(* Properties.                                                             *)
(***************************************************************************)
\* "so we won't accidentally trigger an upload of the partial file" (api.go:461): the
\* object is always one version, complete.
ObjectWhole == object \in Whole

\* "Atomic rename into the final cache path once the transfer completes": a cache file
\* that no download is writing to is one version, complete.
FileWhole == file # NoInode /\ ~Open(file) => data[file] \in Whole

\* "The watcher ignores it because the metadata stored below postdates the file's last
\* write" (api.go:504): a downloaded file is not uploaded back, whenever its events are
\* handled -- unless two downloads had to do with it or a crash hit before it was recorded.
NotUploadedBack == [][upload.at = "put" /\ object' # object => upload.ino \in odd]_vars

\* A file that nobody is writing to and that counts as in sync is the version its
\* ETag names, whichever of the downloads recorded it.
CoveredIsTag ==
    file # NoInode /\ Covers /\ meta.tag # Empty /\ ~Open(file) => data[file] = meta.tag
=============================================================================
