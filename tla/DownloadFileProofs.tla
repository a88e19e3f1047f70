------------------------ MODULE DownloadFileProofs ------------------------
(***************************************************************************)
(* Downloads that share a temporary file: when the object stays as it is   *)
(* while they run and only a transfer with a file of its own fails, every  *)
(* file that is put in place is one version, complete, with that version's *)
(* ETag, and is not uploaded back -- for every number of downloads, parts, *)
(* versions and crashes.                                                   *)
(***************************************************************************)
EXTENDS DownloadFile, FiniteSetTheorems, TLAPS

MetaType   == {m \in [state: {"none", "pending", "synced"}, tag: Contents, size: 0..NumParts,
                      ino: Inodes \cup {NoInode}, fresh: BOOLEAN] :
                  m.state # "synced" => m.tag = Empty}
UploadType == [at: {"idle", "open", "put", "record"}, ino: Inodes \cup {NoInode}, same: BOOLEAN]
DownType   == [at: {"idle", "create", "write", "meta"}, fd: Inodes \cup {NoInode},
               head: Contents, got: Contents, todo: SUBSET Parts]

\* TypeOK, with the types of the records in one set each.
Typed ==
    /\ up \in BOOLEAN /\ crashes \in 0..MaxCrashes /\ object \in Contents
    /\ odd \subseteq Inodes /\ data \in [Inodes -> Contents] /\ young \subseteq Inodes
    /\ tmp \in Inodes \cup {NoInode} /\ file \in Inodes \cup {NoInode}
    /\ meta \in MetaType /\ event \in BOOLEAN /\ queued \in BOOLEAN
    /\ upload \in UploadType /\ down \in [Downloads -> DownType]

\* Who has a file open: a download that writes, and an upload that sends or has sent.
HandsMatch ==
    /\ \A d \in Downloads : IF At(d, "write") THEN down[d].fd \in Inodes
                            ELSE down[d].fd = NoInode
    /\ IF upload.at \in {"put", "record"} THEN upload.ino \in Inodes ELSE upload.ino = NoInode

Recording == \E d \in Downloads : At(d, "meta")

\* A download works on the object as it is.
SeenMatch ==
    /\ object \in Whole
    /\ \A d \in Downloads :
         /\ ~At(d, "idle") => down[d].head = object
         /\ down[d].at \in {"write", "meta"} => down[d].got = object

\* What an open file lacks of the object is a hole that a download of it is going to fill.
TransferMatch ==
    \A d \in Downloads, p \in Parts :
        LET i == down[d].fd IN
        i # NoInode /\ data[i][p] # object[p] =>
            data[i][p] = 0 /\ \E e \in Downloads : down[e].fd = i /\ p \in down[e].todo

\* The temporary file is not the cache file, nor what metadata or an upload is about; while
\* downloads write, one of them has it open.
NameMatch ==
    tmp # NoInode =>
        /\ tmp # file /\ upload.ino # tmp /\ ~(meta.fresh /\ meta.ino = tmp)
        /\ (\E d \in Downloads : At(d, "write")) => Open(tmp)

\* The cache file, once nobody writes to it.
FileMatch ==
    file # NoInode /\ ~Open(file) =>
        /\ data[file] \in Whole
        /\ Recording => data[file] = object

\* Metadata that covers the file names what is there or what is going to be.
CoverMatch ==
    file # NoInode /\ Covers /\ meta.tag # Empty =>
        meta.tag = IF Open(file) THEN object ELSE data[file]

\* An upload sends a file that nobody writes to.
UploadMatch ==
    /\ upload.at = "open" => ~Recording /\ (file # NoInode => ~Open(file))
    /\ upload.at \in {"put", "record"} => ~Open(upload.ino) /\ data[upload.ino] \in Whole
    /\ upload.at = "put" => upload.ino \in odd

\* A file with which one download alone had to do is open under its temporary name, and
\* is recorded once it is in place.
OddMatch ==
    /\ \A d, e \in Downloads :
          down[d].fd # NoInode /\ down[d].fd \notin odd =>
              down[d].fd = tmp /\ (down[e].fd = down[d].fd => d = e)
    /\ file # NoInode /\ file \notin odd => Covers \/ Recording

FilesInv ==
    /\ Typed /\ HandsMatch /\ SeenMatch /\ TransferMatch /\ NameMatch /\ FileMatch
    /\ CoverMatch /\ UploadMatch /\ OddMatch

USE InodeAssumption, BoundAssumption, FlagAssumption

-----------------------------------------------------------------------------
(* Contents and their sizes. *)

LEMMA TypedOK == (TypeOK <=> Typed) /\ (TypeOK' <=> Typed')
BY DEF TypeOK, Typed, MetaType, UploadType, DownType

\* The size of a content is that of its longest part that is not a hole.
LEMMA SizeType == \A c \in Contents : Size(c) \in 0..NumParts
<1> SUFFICES ASSUME NEW c \in Contents PROVE Size(c) \in 0..NumParts
  OBVIOUS
<1> DEFINE S == {p \in Parts : \E q \in p..NumParts : c[q] # 0}
<1>1. IsFiniteSet(Parts) /\ Cardinality(Parts) = NumParts
  BY FS_Interval DEF Parts
<1>2. S \subseteq Parts
  OBVIOUS
<1>3. IsFiniteSet(S) /\ Cardinality(S) <= NumParts
  BY <1>1, <1>2, FS_Subset
<1>4. Cardinality(S) \in Nat
  BY <1>3, FS_CardinalityType
<1> QED BY <1>3, <1>4 DEF Size

\* A version is complete: its size says which one it is.
LEMMA VersionSize ==
    ASSUME NEW v \in 1..MaxVer
    PROVE  /\ Version(v) \in Contents /\ Version(v) # Empty
           /\ Size(Version(v)) = NumParts + 1 - v
<1>1. 1 \in Parts /\ 1 <= NumParts + 1 - v /\ NumParts + 1 - v \in 1..NumParts
  BY DEF Parts
<1>2. Version(v) \in Contents
  BY DEF Version, Contents, Parts
<1>3. Version(v)[1] = v /\ Empty[1] = 0 /\ v # 0
  BY <1>1 DEF Version, Empty
<1> DEFINE S == {p \in Parts : \E q \in p..NumParts : Version(v)[q] # 0}
<1>4. S = 1..(NumParts + 1 - v)
  <2>1. \A q \in Parts : Version(v)[q] # 0 <=> q <= NumParts + 1 - v
    BY DEF Version, Parts
  <2>2. \A p \in Parts : p..NumParts \subseteq Parts
    BY DEF Parts
  <2>3. ASSUME NEW p \in S PROVE p \in 1..(NumParts + 1 - v)
    BY <2>1, <2>2, <1>1 DEF Parts
  <2>4. ASSUME NEW p \in 1..(NumParts + 1 - v) PROVE p \in S
    <3>1. p \in Parts /\ p \in p..NumParts
      BY <1>1 DEF Parts
    <3> QED BY <2>1, <3>1
  <2> HIDE DEF S
  <2> QED BY <2>3, <2>4
<1>5. Cardinality(S) = NumParts + 1 - v
  <2>1. Cardinality(1..(NumParts + 1 - v)) = NumParts + 1 - v
    <3> DEFINE n == NumParts + 1 - v
    <3>1. n \in Int /\ 1 \in Int /\ ~(1 > n) /\ n - 1 + 1 = n
      BY <1>1
    <3> HIDE DEF n
    <3>2. Cardinality(1..n) = IF 1 > n THEN 0 ELSE n - 1 + 1
      BY <3>1, FS_Interval
    <3>3. Cardinality(1..n) = n
      BY <3>1, <3>2
    <3> QED BY <3>3 DEF n
  <2> HIDE DEF S
  <2> QED BY <2>1, <1>4
<1> QED BY <1>2, <1>3, <1>5 DEF Size

LEMMA WholeTypes ==
    /\ Whole \subseteq Contents /\ Empty \in Contents /\ Empty \notin Whole
    /\ Version(1) \in Whole
    /\ \A v \in 2..MaxVer : Version(v) \in Whole
    /\ \A a, b \in Whole : Size(a) = Size(b) => a = b
<1>1. Empty \in Contents
  BY DEF Empty, Contents
<1>2. \A a, b \in Whole : Size(a) = Size(b) => a = b
  <2> SUFFICES ASSUME NEW v \in 1..MaxVer, NEW w \in 1..MaxVer,
                      Size(Version(v)) = Size(Version(w))
               PROVE  v = w
    BY DEF Whole
  <2>1. Size(Version(v)) = NumParts + 1 - v /\ Size(Version(w)) = NumParts + 1 - w
    BY VersionSize
  <2>2. NumParts + 1 - v = NumParts + 1 - w
    BY <2>1
  <2>3. NumParts \in Int /\ v \in Int /\ w \in Int
    OBVIOUS
  <2> QED BY <2>2, <2>3
<1>3. \A v \in 1..MaxVer : Version(v) \in Contents /\ Version(v) # Empty
  BY VersionSize
<1>4. 2..MaxVer \subseteq 1..MaxVer /\ 1 \in 1..MaxVer
  OBVIOUS
<1> QED BY <1>1, <1>2, <1>3, <1>4 DEF Whole

-----------------------------------------------------------------------------
(* Types. *)

\* Metadata of the file that is there.
LEMMA MetaTypes ==
    ASSUME Typed
    PROVE  /\ NoMeta \in MetaType
           /\ \A t \in Contents, n \in 0..NumParts : Meta("synced", t, n) \in MetaType
           /\ file # NoInode => Marked \in MetaType
<1>1. NoMeta \in MetaType
  BY WholeTypes DEF NoMeta, MetaType
<1>2. \A t \in Contents, n \in 0..NumParts : Meta("synced", t, n) \in MetaType
  BY DEF Meta, MetaType, Typed
<1>3. ASSUME file # NoInode PROVE Marked \in MetaType
  <2>1. Size(data[file]) \in 0..NumParts
    BY <1>3, SizeType DEF Typed
  <2> QED BY <2>1, WholeTypes DEF Marked, Meta, MetaType, Typed
<1> QED BY <1>1, <1>2, <1>3

\* What a write to an inode leaves of the metadata and of the upload.
LEMMA WrittenTypes ==
    ASSUME Typed, NEW i \in Inodes, Written(i)
    PROVE  /\ young' \subseteq Inodes /\ meta' \in MetaType /\ upload' \in UploadType
           /\ event' \in BOOLEAN
           /\ meta'.state = meta.state /\ meta'.tag = meta.tag /\ meta'.size = meta.size
           /\ meta'.ino = meta.ino /\ meta'.fresh = (meta.fresh /\ meta.ino # i)
           /\ upload'.at = upload.at /\ upload'.ino = upload.ino
<1>1. meta \in MetaType /\ upload \in UploadType /\ young \subseteq Inodes
  BY DEF Typed
<1>2. (event \/ i = file) \in BOOLEAN /\ (meta.fresh /\ meta.ino # i) \in BOOLEAN
      /\ (upload.same /\ upload.ino # i) \in BOOLEAN
  OBVIOUS
<1>3. /\ meta' = [meta EXCEPT !.fresh = (meta.fresh /\ meta.ino # i)]
      /\ upload' = [upload EXCEPT !.same = (upload.same /\ upload.ino # i)]
      /\ young' = young \cup {i} /\ event' = (event \/ i = file)
  BY DEF Written
<1> DEFINE b == meta.fresh /\ meta.ino # i
           c == upload.same /\ upload.ino # i
<1>4. b \in BOOLEAN /\ c \in BOOLEAN
  OBVIOUS
<1>5. meta' = [meta EXCEPT !.fresh = b] /\ upload' = [upload EXCEPT !.same = c]
  BY <1>3
<1> HIDE DEF b, c
<1>6. /\ meta' \in MetaType /\ meta'.state = meta.state /\ meta'.tag = meta.tag
      /\ meta'.size = meta.size /\ meta'.ino = meta.ino /\ meta'.fresh = b
  BY <1>1, <1>4, <1>5 DEF MetaType
<1>7. upload' \in UploadType /\ upload'.at = upload.at /\ upload'.ino = upload.ino
  BY <1>1, <1>4, <1>5 DEF UploadType
<1>8. young' \subseteq Inodes /\ event' \in BOOLEAN
  BY <1>1, <1>2, <1>3
<1> QED BY <1>6, <1>7, <1>8 DEF b

LEMMA InitTyped == Init => Typed /\ HandsMatch
<1> SUFFICES ASSUME Init PROVE Typed /\ HandsMatch
  OBVIOUS
<1>1. NoUpload \in UploadType /\ NoUpload.at = "idle" /\ NoUpload.ino = NoInode
  BY DEF NoUpload, UploadType
<1>2. NoDown \in DownType /\ NoDown.at = "idle" /\ NoDown.fd = NoInode
  BY WholeTypes DEF NoDown, DownType
<1>3. NoMeta \in MetaType
  BY WholeTypes DEF NoMeta, MetaType
<1>4. Typed
  <2>1. object \in Contents /\ Empty \in Contents
    BY WholeTypes DEF Init
  <2>2. data \in [Inodes -> Contents]
    BY <2>1 DEF Init
  <2>3. down \in [Downloads -> DownType] /\ upload \in UploadType /\ meta \in MetaType
    BY <1>1, <1>2, <1>3 DEF Init
  <2>4. crashes \in 0..MaxCrashes
    BY DEF Init
  <2> QED BY <2>1, <2>2, <2>3, <2>4 DEF Init, Typed
<1> QED BY <1>1, <1>2, <1>4 DEF Init, HandsMatch, At

\* The steps of the other nodes and of the watcher keep the types.
LEMMA WatchTyped ==
    ASSUME Typed, HandsMatch,
           OtherPut \/ WatcherEvent \/ UploadTick \/ UploadOpen \/ UploadPut \/ UploadRecord
    PROVE  Typed' /\ HandsMatch'
<1>0. /\ \A t \in Contents, n \in 0..NumParts : Meta("synced", t, n) \in MetaType
      /\ file # NoInode => Marked \in MetaType
  BY MetaTypes
<1>1. /\ file # NoInode => file \in Inodes /\ data[file] \in Contents
                           /\ Size(data[file]) \in 0..NumParts
      /\ upload \in UploadType /\ meta \in MetaType
  BY SizeType DEF Typed
<1>2. NoUpload \in UploadType /\ NoUpload.at = "idle" /\ NoUpload.ino = NoInode
  BY DEF NoUpload, UploadType
<1>3. CASE OtherPut
  <2>1. object' \in Contents
    BY <1>3, WholeTypes DEF OtherPut
  <2> QED BY <1>3, <2>1 DEF OtherPut, watchVars, Typed, HandsMatch, At
<1>4. CASE WatcherEvent
  <2>1. [upload EXCEPT !.same = FALSE] \in UploadType
        /\ [upload EXCEPT !.same = FALSE].at = upload.at
        /\ [upload EXCEPT !.same = FALSE].ino = upload.ino
    BY <1>1 DEF UploadType
  <2>2. /\ upload' = upload \/ upload' = [upload EXCEPT !.same = FALSE]
        /\ meta' = meta \/ (file # NoInode /\ meta' = Marked)
        /\ queued' \in BOOLEAN /\ event' \in BOOLEAN
    BY <1>4 DEF WatcherEvent, Typed
  <2> QED BY <1>0, <1>4, <2>1, <2>2 DEF WatcherEvent, filesVars, Typed, HandsMatch, At
<1>5. CASE UploadTick
  <2>1. [upload EXCEPT !.at = "open"] \in UploadType
        /\ [upload EXCEPT !.at = "open"].at = "open"
        /\ [upload EXCEPT !.at = "open"].ino = upload.ino
    BY <1>1 DEF UploadType
  <2>2. upload.ino = NoInode
    BY <1>5 DEF UploadTick, HandsMatch
  <2> QED BY <1>5, <2>1, <2>2 DEF UploadTick, filesVars, Typed, HandsMatch, At
<1>6. CASE UploadOpen
  <2>1. file # NoInode => [at |-> "put", ino |-> file, same |-> TRUE] \in UploadType
    BY <1>1 DEF UploadType
  <2>2. /\ \/ upload' = NoUpload
           \/ file # NoInode /\ upload' = [at |-> "put", ino |-> file, same |-> TRUE]
        /\ \/ meta' = meta
           \/ file # NoInode /\ meta' = Marked
           \/ file # NoInode /\ \E t \in {object, Empty} : meta' = Meta("synced", t, Size(data[file]))
    BY <1>6 DEF UploadOpen
  <2>3. meta' \in MetaType
    BY <1>0, <1>1, <2>2, WholeTypes DEF Typed
  <2>4. upload' \in UploadType /\ IF upload'.at \in {"put", "record"} THEN upload'.ino \in Inodes
                                  ELSE upload'.ino = NoInode
    <3>1. CASE upload' = NoUpload
      BY <1>2, <3>1
    <3>2. CASE file # NoInode /\ upload' = [at |-> "put", ino |-> file, same |-> TRUE]
      <4>1. upload'.ino = file
        BY <3>2
      <4> QED BY <1>1, <2>1, <3>2, <4>1
    <3> QED BY <2>2, <3>1, <3>2
  <2> QED BY <1>6, <2>3, <2>4 DEF UploadOpen, filesVars, watchVars, Typed, HandsMatch, At
<1>7. CASE UploadPut
  <2>1. upload.at = "put" /\ upload.ino \in Inodes /\ data[upload.ino] \in Contents
    BY <1>7 DEF UploadPut, HandsMatch, Typed
  <2>2. [upload EXCEPT !.at = "record"] \in UploadType
        /\ [upload EXCEPT !.at = "record"].ino = upload.ino
        /\ [upload EXCEPT !.at = "record"].at = "record"
    BY <1>1 DEF UploadType
  <2>3. /\ object' \in Contents /\ young' \subseteq Inodes /\ queued' \in BOOLEAN
        /\ upload' = NoUpload \/ upload' = [upload EXCEPT !.at = "record"]
    BY <1>7, <2>1 DEF UploadPut, Typed
  <2> QED BY <1>2, <1>7, <2>1, <2>2, <2>3 DEF UploadPut, Typed, HandsMatch, At
<1>8. CASE UploadRecord
  <2>1. upload.at = "record" /\ upload.ino \in Inodes
    BY <1>8 DEF UploadRecord, HandsMatch
  <2>2. \/ meta' = meta
        \/ file # NoInode /\ meta' = Marked
        \/ file # NoInode /\ meta' = Meta("synced", data[file], Size(data[file]))
    BY <1>8, <2>1 DEF UploadRecord
  <2>3. meta' \in MetaType
    BY <1>0, <1>1, <2>2
  <2> QED BY <1>2, <1>8, <2>3 DEF UploadRecord, filesVars, watchVars, Typed, HandsMatch, At
<1> QED BY <1>3, <1>4, <1>5, <1>6, <1>7, <1>8

\* A download's new state is one of the type, with a file if and only if it writes.
LEMMA SetTyped ==
    ASSUME Typed, HandsMatch, NEW d \in Downloads, NEW r \in DownType, Set(d, r),
           IF r.at = "write" THEN r.fd \in Inodes ELSE r.fd = NoInode
    PROVE  /\ down' \in [Downloads -> DownType] /\ down'[d] = r
           /\ \A e \in Downloads \ {d} : down'[e] = down[e]
           /\ \A e \in Downloads : IF down'[e].at = "write" THEN down'[e].fd \in Inodes
                                   ELSE down'[e].fd = NoInode
BY DEF Set, Typed, HandsMatch, At

\* The states that downloads pass through.
LEMMA DownTypes ==
    ASSUME Typed
    PROVE  /\ NoDown \in DownType /\ NoDown.at = "idle" /\ NoDown.fd = NoInode
           /\ [NoDown EXCEPT !.at = "create", !.head = object] \in DownType
           /\ [NoDown EXCEPT !.at = "create", !.head = object].at = "create"
           /\ [NoDown EXCEPT !.at = "create", !.head = object].fd = NoInode
           /\ [NoDown EXCEPT !.at = "create", !.head = object].head = object
BY WholeTypes DEF NoDown, DownType, Typed

LEMMA DownTyped ==
    ASSUME Typed, HandsMatch, NEW d \in Downloads,
           Begin(d) \/ Create(d) \/ Fail(d) \/ Rename(d) \/ StoreMeta(d)
           \/ \E p \in Parts : WritePart(d, p)
    PROVE  Typed' /\ HandsMatch'
<1>0. /\ NoMeta \in MetaType
      /\ \A t \in Contents, n \in 0..NumParts : Meta("synced", t, n) \in MetaType
  BY MetaTypes
<1>1. /\ down[d] \in DownType /\ object \in Contents /\ Size(object) \in 0..NumParts
      /\ down[d].got \in Contents /\ Size(down[d].got) \in 0..NumParts
      /\ down[d].head \in Contents
      /\ IF At(d, "write") THEN down[d].fd \in Inodes ELSE down[d].fd = NoInode
  BY SizeType DEF Typed, DownType, HandsMatch
<1>2. CASE Begin(d)
  <2>1. /\ meta' = meta \/ meta' = NoMeta \/ meta' = Meta("synced", object, Size(object))
        /\ file' \in {file, NoInode} /\ queued' \in BOOLEAN
        /\ down' = down \/ Set(d, [NoDown EXCEPT !.at = "create", !.head = object])
    BY <1>2 DEF Begin, Typed
  <2>2. meta' \in MetaType
    BY <1>0, <1>1, <2>1 DEF Typed
  <2>3. /\ down' \in [Downloads -> DownType]
        /\ \A e \in Downloads : IF down'[e].at = "write" THEN down'[e].fd \in Inodes
                                ELSE down'[e].fd = NoInode
    <3>1. CASE down' = down
      BY <3>1 DEF Typed, HandsMatch, At
    <3>2. CASE Set(d, [NoDown EXCEPT !.at = "create", !.head = object])
      BY <3>2, DownTypes, SetTyped
    <3> QED BY <2>1, <3>1, <3>2
  <2> QED BY <1>2, <2>1, <2>2, <2>3 DEF Begin, Typed, HandsMatch, At
<1>3. CASE Create(d)
  <2>1. PICK i \in Inodes :
           /\ tmp' = i /\ data' = [data EXCEPT ![i] = Empty] /\ Written(i)
           /\ odd' = IF Open(i) THEN odd \cup {i} ELSE odd \ {i}
           /\ Set(d, [down[d] EXCEPT !.at = "write", !.fd = i, !.got = object,
                                   !.todo = {p \in Parts : object[p] # 0}])
    BY <1>3 DEF Create, Free, Opened, Typed
  <2> DEFINE q == [down[d] EXCEPT !.at = "write", !.fd = i, !.got = object,
                                  !.todo = {p \in Parts : object[p] # 0}]
  <2>2. q \in DownType /\ q.at = "write" /\ q.fd = i
    BY <1>1 DEF DownType
  <2>3. Set(d, q)
    BY <2>1
  <2> HIDE DEF q
  <2>4. /\ down' \in [Downloads -> DownType]
        /\ \A e \in Downloads : IF down'[e].at = "write" THEN down'[e].fd \in Inodes
                                ELSE down'[e].fd = NoInode
    BY <2>2, <2>3, SetTyped
  <2>5. /\ young' \subseteq Inodes /\ meta' \in MetaType /\ upload' \in UploadType
        /\ event' \in BOOLEAN /\ upload'.at = upload.at /\ upload'.ino = upload.ino
    BY <2>1, WrittenTypes
  <2>6. data' \in [Inodes -> Contents] /\ odd' \subseteq Inodes /\ tmp' \in Inodes
    BY <2>1, WholeTypes DEF Typed
  <2> QED BY <1>3, <2>4, <2>5, <2>6 DEF Create, Typed, HandsMatch, At
<1>4. CASE Fail(d)
  <2>1. /\ down' \in [Downloads -> DownType]
        /\ \A e \in Downloads : IF down'[e].at = "write" THEN down'[e].fd \in Inodes
                                ELSE down'[e].fd = NoInode
    BY <1>4, DownTypes, SetTyped DEF Fail
  <2> QED BY <1>4, <2>1 DEF Fail, watchVars, Typed, HandsMatch, At
<1>5. CASE Rename(d)
  <2>1. [down[d] EXCEPT !.at = "meta", !.fd = NoInode] \in DownType
        /\ [down[d] EXCEPT !.at = "meta", !.fd = NoInode].at = "meta"
        /\ [down[d] EXCEPT !.at = "meta", !.fd = NoInode].fd = NoInode
    BY <1>1 DEF DownType
  <2>2. Set(d, NoDown) \/ Set(d, [down[d] EXCEPT !.at = "meta", !.fd = NoInode])
    BY <1>5 DEF Rename
  <2>3. /\ down' \in [Downloads -> DownType]
        /\ \A e \in Downloads : IF down'[e].at = "write" THEN down'[e].fd \in Inodes
                                ELSE down'[e].fd = NoInode
    BY <2>1, <2>2, DownTypes, SetTyped
  <2>4. /\ tmp' \in Inodes \cup {NoInode} /\ file' \in Inodes \cup {NoInode}
        /\ event' \in BOOLEAN /\ odd' \subseteq Inodes
    BY <1>5 DEF Rename, Typed
  <2> QED BY <1>5, <2>3, <2>4 DEF Rename, Typed, HandsMatch, At
<1>6. CASE StoreMeta(d)
  <2>1. /\ down' \in [Downloads -> DownType]
        /\ \A e \in Downloads : IF down'[e].at = "write" THEN down'[e].fd \in Inodes
                                ELSE down'[e].fd = NoInode
    BY <1>6, DownTypes, SetTyped DEF StoreMeta
  <2>2. meta' \in MetaType
    BY <1>0, <1>1, <1>6 DEF StoreMeta
  <2> QED BY <1>6, <2>1, <2>2 DEF StoreMeta, filesVars, watchVars, Typed, HandsMatch, At
<1>7. ASSUME NEW p \in Parts, WritePart(d, p) PROVE Typed' /\ HandsMatch'
  <2>0. At(d, "write") /\ down[d].fd \in Inodes
    BY <1>1, <1>7 DEF WritePart
  <2> DEFINE q == [down[d] EXCEPT !.todo = @ \ {p}]
  <2>1. q \in DownType /\ q.at = "write" /\ q.fd = down[d].fd /\ Set(d, q)
    BY <1>1, <1>7, <2>0 DEF WritePart, DownType, At
  <2> HIDE DEF q
  <2>2. /\ down' \in [Downloads -> DownType]
        /\ \A e \in Downloads : IF down'[e].at = "write" THEN down'[e].fd \in Inodes
                                ELSE down'[e].fd = NoInode
    BY <2>0, <2>1, SetTyped
  <2>3. Written(down[d].fd)
    BY <1>7 DEF WritePart
  <2>4. /\ young' \subseteq Inodes /\ meta' \in MetaType /\ upload' \in UploadType
        /\ event' \in BOOLEAN /\ upload'.at = upload.at /\ upload'.ino = upload.ino
    BY <2>0, <2>3, WrittenTypes
  <2>5. data' \in [Inodes -> Contents]
    <3>1. down[d].got[p] \in 0..MaxVer /\ data[down[d].fd] \in Contents
      BY <1>1, <2>0 DEF Contents, Typed
    <3>2. [data[down[d].fd] EXCEPT ![p] = down[d].got[p]] \in Contents
      BY <3>1 DEF Contents
    <3> QED BY <1>7, <2>0, <3>2 DEF WritePart, Typed
  <2> QED BY <1>7, <2>2, <2>4, <2>5 DEF WritePart, Typed, HandsMatch, At
<1> QED BY <1>2, <1>3, <1>4, <1>5, <1>6, <1>7

\* A crash and a start keep the types.
LEMMA RestartTyped ==
    ASSUME Typed, HandsMatch, Crash \/ Start PROVE Typed' /\ HandsMatch'
<1>1. NoUpload \in UploadType /\ NoUpload.at = "idle" /\ NoUpload.ino = NoInode
  BY DEF NoUpload, UploadType
<1>2. CASE Crash
  <2>1. down' \in [Downloads -> DownType] /\ \A d \in Downloads : down'[d] = NoDown
    BY <1>2, DownTypes DEF Crash
  <2>2. odd' \subseteq Inodes /\ crashes' \in 0..MaxCrashes
    BY <1>2 DEF Crash, Typed
  <2> QED BY <1>1, <1>2, <2>1, <2>2, DownTypes DEF Crash, filesVars, Typed, HandsMatch, At
<1>3. CASE Start
  <2>1. meta' \in MetaType
    BY <1>3, MetaTypes DEF Start, Typed
  <2> QED BY <1>3, <2>1 DEF Start, filesVars, Typed, HandsMatch, At
<1> QED BY <1>2, <1>3

LEMMA TypedNext == Typed /\ HandsMatch /\ [Next]_vars => Typed' /\ HandsMatch'
<1>1. Typed /\ HandsMatch /\ UNCHANGED vars => Typed' /\ HandsMatch'
  BY DEF vars, filesVars, watchVars, Typed, HandsMatch, At
<1> QED BY <1>1, WatchTyped, DownTyped, RestartTyped DEF Next

\* Every variable keeps its type, whatever fails and whatever changes during a download
\* (handleDownload, DownloadToFile, uploadOnce).
THEOREM TypeCorrect == Spec => []TypeOK
<1>1. Init => Typed /\ HandsMatch
  BY InitTyped
<1>2. Typed /\ HandsMatch /\ [Next]_vars => (Typed /\ HandsMatch)'
  BY TypedNext
<1>3. Typed /\ HandsMatch => TypeOK
  BY TypedOK
<1> QED BY <1>1, <1>2, <1>3, PTL DEF Spec

-----------------------------------------------------------------------------
(* What downloads leave. *)

LEMMA InitFiles == Init => FilesInv
<1> SUFFICES ASSUME Init PROVE FilesInv
  OBVIOUS
<1>1. Typed /\ HandsMatch
  BY InitTyped
<1>2. /\ \A d \in Downloads : down[d].at = "idle" /\ down[d].fd = NoInode
      /\ upload.at = "idle" /\ tmp = NoInode /\ file = NoInode
  BY DEF Init, NoDown, NoUpload
<1>3. SeenMatch
  BY <1>2, WholeTypes DEF Init, SeenMatch, At
<1> QED BY <1>1, <1>2, <1>3 DEF FilesInv, TransferMatch, NameMatch, FileMatch, CoverMatch,
        UploadMatch, OddMatch

\* When nobody downloads, no file is open.
LEMMA AllIdle ==
    ASSUME HandsMatch, \A d \in Downloads : down[d].at = "idle"
    PROVE  ~Recording /\ (\A d \in Downloads : down[d].fd = NoInode)
           /\ \A i \in Inodes : ~Open(i)
BY DEF HandsMatch, At, Recording, Open

\* Metadata of the file that is there: what it says, and whether it covers the file.
LEMMA MetaFields ==
    ASSUME Typed, UNCHANGED <<data, file>>
    PROVE  /\ meta' = Marked => ~Covers' /\ meta'.ino = file
           /\ \A t, n : meta' = Meta("synced", t, n) =>
                 /\ meta'.tag = t /\ meta'.ino = file
                 /\ Covers' <=> n = Size(data[file])
           /\ meta' = meta => (Covers' <=> Covers)
<1>1. Size(data[file])' = Size(data[file])
  BY DEF Size
<1> QED BY <1>1 DEF Covers, Marked, Meta

\* The steps of the other nodes and of the watcher.
LEMMA WatchKeeps ==
    ASSUME ~Disturb, FilesInv,
           OtherPut \/ WatcherEvent \/ UploadTick \/ UploadOpen \/ UploadPut \/ UploadRecord
    PROVE  FilesInv'
<1>0. /\ Typed /\ HandsMatch /\ SeenMatch /\ TransferMatch /\ NameMatch /\ FileMatch
      /\ CoverMatch /\ UploadMatch /\ OddMatch /\ Typed' /\ HandsMatch'
  BY WatchTyped DEF FilesInv
<1>1. UNCHANGED <<data, tmp, file, down, odd>>
  BY DEF OtherPut, WatcherEvent, UploadTick, UploadOpen, UploadPut, UploadRecord, filesVars
<1>2. /\ \A i : Open(i)' <=> Open(i)
      /\ Recording' <=> Recording
  BY <1>1 DEF Open, Recording, At
<1>3. \/ object' = object
      \/ object' \in Whole /\ \A d \in Downloads : down[d].at = "idle"
  <2>1. CASE OtherPut
    BY <2>1, WholeTypes DEF OtherPut, MayChange
  <2>2. CASE UploadPut
    BY <1>0, <2>2 DEF UploadPut, UploadMatch, MayChange
  <2>3. CASE ~OtherPut /\ ~UploadPut
    BY <2>3 DEF WatcherEvent, UploadTick, UploadOpen, UploadRecord
  <2> QED BY <2>1, <2>2, <2>3
<1>4. \/ object' = object
      \/ /\ object' \in Whole /\ (\A d \in Downloads : down[d].at = "idle") /\ ~Recording
         /\ (\A d \in Downloads : down[d].fd = NoInode) /\ \A i \in Inodes : ~Open(i)
  BY <1>0, <1>3, AllIdle
<1>5. SeenMatch'
  BY <1>0, <1>1, <1>4 DEF SeenMatch, At
<1>6. TransferMatch'
  BY <1>0, <1>1, <1>4 DEF TransferMatch
<1>7. FileMatch'
  BY <1>0, <1>1, <1>2, <1>4 DEF FileMatch
<1>8. file # NoInode => file \in Inodes
  BY <1>0 DEF Typed
<1>9. \/ meta' = meta
      \/ file # NoInode /\ ~Covers /\ meta' = Marked
      \/ /\ file # NoInode /\ ~Open(file)
         /\ \E t \in {Empty, data[file]} : meta' = Meta("synced", t, Size(data[file]))
  <2>1. CASE WatcherEvent
    BY <2>1 DEF WatcherEvent
  <2>2. CASE UploadOpen
    <3>1. file # NoInode => ~Open(file) /\ data[file] \in Whole
      BY <1>0, <2>2 DEF UploadOpen, UploadMatch, FileMatch
    <3>2. file # NoInode /\ Size(data[file]) = Size(object) => object = data[file]
      BY <1>0, <3>1, WholeTypes DEF SeenMatch
    <3>3. meta.state = "none" => ~Covers
      BY DEF Covers
    <3> QED BY <2>2, <3>1, <3>2, <3>3 DEF UploadOpen
  <2>3. CASE UploadRecord
    <3>1. ~Open(upload.ino) /\ upload.ino # NoInode
      BY <1>0, <2>3 DEF UploadRecord, UploadMatch, HandsMatch
    <3> QED BY <2>3, <3>1 DEF UploadRecord
  <2>4. CASE OtherPut \/ UploadTick \/ UploadPut
    BY <2>4 DEF OtherPut, UploadTick, UploadPut
  <2> QED BY <2>1, <2>2, <2>3, <2>4
<1>10. (meta'.fresh /\ meta'.ino # file) => meta' = meta
  BY <1>9 DEF Marked, Meta
<1>11. /\ Covers => Covers'
       /\ Covers' => \/ meta' = meta
                     \/ ~Open(file) /\ meta'.tag \in {Empty, data[file]}
  BY <1>0, <1>1, <1>9, MetaFields
<1>12. CoverMatch'
  <2> SUFFICES ASSUME file # NoInode, Covers', meta'.tag # Empty
               PROVE  meta'.tag = IF Open(file) THEN object' ELSE data[file]
    BY <1>1, <1>2 DEF CoverMatch
  <2>1. CASE meta' = meta
    <3>1. Covers
      BY <1>0, <1>1, <2>1, MetaFields
    <3> QED BY <1>0, <1>4, <1>8, <2>1, <3>1 DEF CoverMatch
  <2>2. CASE meta' # meta
    BY <1>11, <2>2
  <2> QED BY <2>1, <2>2
<1>13. OddMatch'
  BY <1>0, <1>1, <1>2, <1>11 DEF OddMatch
<1>14. NoUpload.at = "idle" /\ NoUpload.ino = NoInode /\ upload \in UploadType
  BY <1>0 DEF NoUpload, Typed
<1>15. /\ upload'.ino \in {upload.ino, NoInode, file}
       /\ upload'.at = "open" => ~Recording /\ (file # NoInode => ~Open(file))
       /\ upload'.at \in {"put", "record"} => ~Open(upload'.ino) /\ data[upload'.ino] \in Whole
       /\ upload'.at = "put" => upload'.ino \in odd
  <2>1. CASE OtherPut
    BY <1>0, <2>1 DEF OtherPut, UploadMatch
  <2>2. CASE WatcherEvent
    <3>1. upload'.ino = upload.ino /\ upload'.at = upload.at
      BY <1>14, <2>2 DEF WatcherEvent, UploadType
    <3> QED BY <1>0, <3>1 DEF UploadMatch
  <2>3. CASE UploadTick
    <3>1. /\ ~Recording /\ (file # NoInode => ~Open(file)) /\ upload.at = "idle"
          /\ upload' = upload \/ upload' = [upload EXCEPT !.at = "open"]
      BY <2>3 DEF UploadTick, InUse, Recording, At
    <3>2. upload'.ino = upload.ino /\ upload'.at \in {"idle", "open"}
      BY <1>14, <3>1 DEF UploadType
    <3> QED BY <3>1, <3>2
  <2>4. CASE UploadOpen
    <3>1. CASE upload' = NoUpload
      BY <1>14, <3>1
    <3>2. CASE upload' # NoUpload
      <4>1. /\ file # NoInode /\ ~Covers /\ upload.at = "open"
            /\ upload' = [at |-> "put", ino |-> file, same |-> TRUE]
        BY <2>4, <3>2 DEF UploadOpen, Settled
      <4>2. ~Open(file) /\ ~Recording /\ data[file] \in Whole /\ file \in odd
        BY <1>0, <4>1 DEF UploadMatch, FileMatch, OddMatch
      <4> QED BY <4>1, <4>2
    <3> QED BY <3>1, <3>2
  <2>5. CASE UploadPut
    <3>1. upload.at = "put" /\ (upload' = NoUpload \/ upload' = [upload EXCEPT !.at = "record"])
      BY <2>5 DEF UploadPut
    <3>2. upload' = NoUpload \/ (upload'.ino = upload.ino /\ upload'.at = "record")
      BY <1>14, <3>1 DEF UploadType
    <3> QED BY <1>0, <1>14, <3>1, <3>2 DEF UploadMatch
  <2>6. CASE UploadRecord
    BY <1>14, <2>6 DEF UploadRecord
  <2> QED BY <2>1, <2>2, <2>3, <2>4, <2>5, <2>6
<1>16. UploadMatch'
  BY <1>1, <1>2, <1>15 DEF UploadMatch
<1>17. NameMatch'
  <2> SUFFICES ASSUME tmp # NoInode
               PROVE  /\ tmp # file /\ upload'.ino # tmp /\ ~(meta'.fresh /\ meta'.ino = tmp)
                      /\ (\E d \in Downloads : At(d, "write")) => Open(tmp)
    BY <1>1, <1>2 DEF NameMatch, At
  <2> QED BY <1>0, <1>10, <1>15 DEF NameMatch
<1> QED BY <1>0, <1>5, <1>6, <1>7, <1>12, <1>13, <1>16, <1>17 DEF FilesInv

\* The parts of the invariant, and the types after the step of a download.
LEMMA Parted ==
    ASSUME FilesInv
    PROVE  /\ Typed /\ HandsMatch /\ SeenMatch /\ TransferMatch /\ NameMatch /\ FileMatch
           /\ CoverMatch /\ UploadMatch /\ OddMatch
           /\ \A d \in Downloads : /\ down[d] \in DownType
                                   /\ IF At(d, "write") THEN down[d].fd \in Inodes
                                      ELSE down[d].fd = NoInode
           /\ file # NoInode => file \in Inodes
           /\ tmp # NoInode => tmp \in Inodes
           /\ upload.at \in {"put", "record"} => upload.ino \in Inodes
BY DEF FilesInv, Typed, HandsMatch

LEMMA BeginKeeps ==
    ASSUME ~Disturb, FilesInv, NEW d \in Downloads, Begin(d)
    PROVE  FilesInv'
<1>0. /\ Typed /\ HandsMatch /\ SeenMatch /\ TransferMatch /\ NameMatch /\ FileMatch
      /\ CoverMatch /\ UploadMatch /\ OddMatch /\ Typed' /\ HandsMatch'
      /\ down[d].fd = NoInode /\ At(d, "idle")
      /\ file # NoInode => file \in Inodes
  BY Parted, DownTyped DEF Begin, At
<1>1. UNCHANGED <<object, data, tmp, odd, upload, young>>
  BY DEF Begin
<1>2. down' = down \/ Set(d, [NoDown EXCEPT !.at = "create", !.head = object])
  BY DEF Begin
<1>3. /\ \A e \in Downloads \ {d} : down'[e] = down[e]
      /\ down'[d].at \in {"idle", "create"} /\ down'[d].fd = NoInode
      /\ down'[d].at # "idle" => down'[d].head = object
  BY <1>0, <1>2, DownTypes DEF Set, Typed, At
<1>4. /\ \A e \in Downloads : down'[e].fd = down[e].fd
      /\ \A i : Open(i)' <=> Open(i)
      /\ Recording' <=> Recording
      /\ \A e \in Downloads : At(e, "write")' <=> At(e, "write")
  BY <1>0, <1>3 DEF Open, Recording, At
<1>5. SeenMatch'
  BY <1>0, <1>1, <1>3 DEF SeenMatch, At
<1>6. TransferMatch'
  <2> SUFFICES ASSUME NEW c \in Downloads, NEW p \in Parts, down[c].fd # NoInode,
                      data[down[c].fd][p] # object[p]
               PROVE  /\ data[down[c].fd][p] = 0
                      /\ \E e \in Downloads : down'[e].fd = down[c].fd /\ p \in down'[e].todo
    BY <1>1, <1>4 DEF TransferMatch
  <2>1. PICK e \in Downloads : down[e].fd = down[c].fd /\ p \in down[e].todo
    BY <1>0 DEF TransferMatch
  <2>2. e # d
    BY <1>0, <2>1
  <2> QED BY <1>0, <1>3, <2>1, <2>2 DEF TransferMatch
<1>7. \/ file' = file /\ meta' = meta
      \/ /\ file' = file /\ file # NoInode
         /\ Size(data[file]) = Size(object) /\ meta' = Meta("synced", object, Size(data[file]))
      \/ file' = NoInode /\ meta' = NoMeta
  BY DEF Begin
<1>8. FileMatch'
  BY <1>0, <1>1, <1>4, <1>7 DEF FileMatch
<1>9. NameMatch'
  <2> SUFFICES ASSUME tmp # NoInode
               PROVE  /\ tmp # file' /\ upload.ino # tmp /\ ~(meta'.fresh /\ meta'.ino = tmp)
                      /\ (\E e \in Downloads : At(e, "write")) => Open(tmp)
    BY <1>1, <1>4 DEF NameMatch
  <2>1. /\ tmp # file /\ upload.ino # tmp /\ ~(meta.fresh /\ meta.ino = tmp)
        /\ (\E e \in Downloads : At(e, "write")) => Open(tmp)
    BY <1>0 DEF NameMatch
  <2> QED BY <1>7, <2>1 DEF Meta, NoMeta
<1>10. CASE file' = NoInode
  BY <1>0, <1>1, <1>4, <1>5, <1>6, <1>8, <1>9, <1>10 DEF FilesInv, CoverMatch, OddMatch, UploadMatch
<1>11. CASE file' # NoInode
  <2>1. file' = file /\ UNCHANGED <<data, file>>
    BY <1>1, <1>7, <1>11
  <2>2. Covers => Covers'
    BY <1>0, <1>7, <1>11, <2>1, MetaFields
  <2>3. CoverMatch'
    <3>1. CASE meta' = meta
      <4>1. Covers' <=> Covers
        BY <1>0, <2>1, <3>1, MetaFields
      <4> QED BY <1>0, <1>1, <1>4, <2>1, <3>1, <4>1 DEF CoverMatch
    <3>2. CASE meta' = Meta("synced", object, Size(data[file])) /\ Size(data[file]) = Size(object)
      <4>1. ~Open(file) => data[file] = object
        BY <1>0, <1>11, <2>1, <3>2, WholeTypes DEF FileMatch, SeenMatch
      <4>2. meta'.tag = object
        BY <3>2 DEF Meta
      <4> QED BY <1>1, <1>4, <2>1, <4>1, <4>2 DEF CoverMatch
    <3> QED BY <1>7, <1>11, <3>1, <3>2
  <2>4. OddMatch'
    BY <1>0, <1>1, <1>4, <2>1, <2>2 DEF OddMatch
  <2>5. UploadMatch'
    BY <1>0, <1>1, <1>4, <2>1 DEF UploadMatch
  <2> QED BY <1>0, <1>5, <1>6, <1>8, <1>9, <2>3, <2>4, <2>5 DEF FilesInv
<1> QED BY <1>10, <1>11

\* A write to an inode leaves what covers another file, and covers nothing there.
LEMMA WrittenCovers ==
    ASSUME Typed, NEW i \in Inodes, Written(i), file' = file,
           file # i => data'[file] = data[file]
    PROVE  /\ Covers' => Covers /\ file # i
           /\ file # i /\ Covers => Covers'
           /\ meta'.tag = meta.tag
           /\ meta'.fresh /\ meta'.ino = i => FALSE
           /\ meta'.fresh => meta.fresh
           /\ meta'.ino = meta.ino
<1>1. /\ meta'.state = meta.state /\ meta'.tag = meta.tag /\ meta'.size = meta.size
      /\ meta'.ino = meta.ino /\ meta'.fresh = (meta.fresh /\ meta.ino # i)
  BY WrittenTypes
<1>2. file # i => Size(data'[file]) = Size(data[file])
  OBVIOUS
<1> QED BY <1>1, <1>2 DEF Covers

LEMMA CreateKeeps ==
    ASSUME ~Disturb, FilesInv, NEW d \in Downloads, Create(d)
    PROVE  FilesInv'
<1>0. /\ Typed /\ HandsMatch /\ SeenMatch /\ TransferMatch /\ NameMatch /\ FileMatch
      /\ CoverMatch /\ UploadMatch /\ OddMatch /\ Typed' /\ HandsMatch'
      /\ down[d].fd = NoInode /\ At(d, "create") /\ down[d] \in DownType
      /\ file # NoInode => file \in Inodes
      /\ tmp # NoInode => tmp \in Inodes
      /\ upload.at \in {"put", "record"} => upload.ino \in Inodes
  BY Parted, DownTyped DEF Create, At
<1>1. PICK i \in Inodes :
         /\ i = tmp \/ (tmp = NoInode /\ i \in Free)
         /\ tmp' = i /\ data' = [data EXCEPT ![i] = Empty] /\ Written(i)
         /\ odd' = IF Open(i) THEN odd \cup {i} ELSE odd \ {i}
         /\ Set(d, [down[d] EXCEPT !.at = "write", !.fd = i, !.got = object,
                                   !.todo = {p \in Parts : object[p] # 0}])
  BY <1>0 DEF Create, Free, Opened
<1>2. object' = object /\ file' = file
  BY DEF Create
<1>3. /\ \A e \in Downloads \ {d} : down'[e] = down[e]
      /\ down'[d].at = "write" /\ down'[d].fd = i /\ down'[d].got = object
      /\ down'[d].head = down[d].head /\ down'[d].todo = {p \in Parts : object[p] # 0}
  BY <1>0, <1>1 DEF Set, Typed, DownType
<1>4. /\ i # file /\ i # upload.ino /\ i # NoInode
  BY <1>0, <1>1 DEF NameMatch, Free
<1>5. /\ \A j : j # NoInode => (Open(j)' <=> Open(j) \/ j = i)
      /\ Recording' <=> Recording
  BY <1>0, <1>3 DEF Open, Recording, At
<1>6. /\ \A j \in Inodes \ {i} : data'[j] = data[j]
      /\ data'[i] = Empty
  BY <1>0, <1>1 DEF Typed
<1>7. /\ Covers' <=> Covers
      /\ meta'.tag = meta.tag /\ ~(meta'.fresh /\ meta'.ino = i)
  <2>1. file # NoInode => data'[file] = data[file]
    BY <1>0, <1>4, <1>6
  <2>2. file = NoInode => data'[file] = data[file]
    BY <1>0, <1>1 DEF Typed
  <2> QED BY <1>0, <1>1, <1>2, <1>4, <2>1, <2>2, WrittenCovers
<1>8. upload'.at = upload.at /\ upload'.ino = upload.ino
  BY <1>0, <1>1, WrittenTypes
<1>9. SeenMatch'
  BY <1>0, <1>2, <1>3 DEF SeenMatch, At
<1>10. TransferMatch'
  <2> SUFFICES ASSUME NEW c \in Downloads, NEW p \in Parts, down'[c].fd # NoInode,
                      data'[down'[c].fd][p] # object[p]
               PROVE  /\ data'[down'[c].fd][p] = 0
                      /\ \E e \in Downloads : down'[e].fd = down'[c].fd /\ p \in down'[e].todo
    BY <1>2 DEF TransferMatch
  <2>1. CASE down'[c].fd = i
    <3>1. data'[i][p] = 0
      BY <1>6 DEF Empty
    <3> QED BY <1>3, <2>1, <3>1
  <2>2. CASE down'[c].fd # i
    <3>1. c # d /\ down'[c] = down[c] /\ down[c].fd \in Inodes \ {i}
      BY <1>0, <1>3, <2>2 DEF HandsMatch
    <3>2. data'[down[c].fd] = data[down[c].fd]
      BY <1>6, <3>1
    <3>3. /\ data[down[c].fd][p] = 0
          /\ \E e \in Downloads : down[e].fd = down[c].fd /\ p \in down[e].todo
      BY <1>0, <3>1, <3>2 DEF TransferMatch
    <3>4. PICK e \in Downloads : down[e].fd = down[c].fd /\ p \in down[e].todo
      BY <3>3
    <3>5. e # d
      BY <1>0, <3>1, <3>4
    <3> QED BY <1>3, <3>1, <3>2, <3>3, <3>4, <3>5
  <2> QED BY <2>1, <2>2
<1>11. NameMatch'
  BY <1>1, <1>2, <1>4, <1>5, <1>7, <1>8 DEF NameMatch
<1>12. FileMatch'
  BY <1>0, <1>2, <1>4, <1>5, <1>6 DEF FileMatch
<1>13. CoverMatch'
  BY <1>0, <1>2, <1>4, <1>5, <1>6, <1>7 DEF CoverMatch
<1>14. UploadMatch'
  BY <1>0, <1>1, <1>2, <1>4, <1>5, <1>6, <1>8 DEF UploadMatch
<1>15. OddMatch'
  <2>1. ASSUME NEW e \in Downloads, NEW g \in Downloads, down'[e].fd # NoInode,
               down'[e].fd \notin odd'
        PROVE  down'[e].fd = tmp' /\ (down'[g].fd = down'[e].fd => e = g)
    <3>1. CASE down'[e].fd = i
      <4>1. ~Open(i)
        BY <1>1, <2>1, <3>1
      <4> QED BY <1>1, <1>3, <3>1, <4>1 DEF Open
    <3>2. CASE down'[e].fd # i
      <4>1. e # d /\ down[e].fd \notin odd /\ down[e].fd # NoInode
        BY <1>1, <1>3, <2>1, <3>2
      <4>2. down[e].fd = tmp
        BY <1>0, <4>1 DEF OddMatch
      <4> QED BY <1>1, <1>3, <3>2, <4>1, <4>2
    <3> QED BY <3>1, <3>2
  <2>2. file # NoInode /\ file \notin odd' => Covers' \/ Recording'
    BY <1>0, <1>1, <1>4, <1>5, <1>7 DEF OddMatch
  <2> QED BY <1>2, <2>1, <2>2 DEF OddMatch
<1> QED BY <1>0, <1>9, <1>10, <1>11, <1>12, <1>13, <1>14, <1>15 DEF FilesInv

LEMMA WritePartKeeps ==
    ASSUME ~Disturb, FilesInv, NEW d \in Downloads, NEW p \in Parts, WritePart(d, p)
    PROVE  FilesInv'
<1> DEFINE i == down[d].fd
<1>0. /\ Typed /\ HandsMatch /\ SeenMatch /\ TransferMatch /\ NameMatch /\ FileMatch
      /\ CoverMatch /\ UploadMatch /\ OddMatch /\ Typed' /\ HandsMatch'
      /\ At(d, "write") /\ down[d] \in DownType /\ i \in Inodes /\ i # NoInode
      /\ file # NoInode => file \in Inodes
      /\ tmp # NoInode => tmp \in Inodes
      /\ upload.at \in {"put", "record"} => upload.ino \in Inodes
  BY Parted, DownTyped DEF WritePart, At
<1>1. /\ data' = [data EXCEPT ![i][p] = down[d].got[p]] /\ Written(i)
      /\ Set(d, [down[d] EXCEPT !.todo = @ \ {p}])
      /\ object' = object /\ file' = file /\ tmp' = tmp /\ odd' = odd
  BY DEF WritePart
<1>2. /\ \A e \in Downloads \ {d} : down'[e] = down[e]
      /\ down'[d].at = down[d].at /\ down'[d].fd = i /\ down'[d].got = down[d].got
      /\ down'[d].head = down[d].head /\ down'[d].todo = down[d].todo \ {p}
  BY <1>0, <1>1 DEF Set, Typed, DownType
<1>3. down[d].got = object
  BY <1>0 DEF SeenMatch, At
<1> HIDE DEF i
<1>4. /\ \A j \in Inodes \ {i} : data'[j] = data[j]
      /\ data'[i][p] = object[p] /\ \A r \in Parts \ {p} : data'[i][r] = data[i][r]
  <2>1. data[i] \in [Parts -> 0..MaxVer] /\ data \in [Inodes -> Contents]
    BY <1>0 DEF Typed, Contents
  <2> QED BY <1>0, <1>1, <1>3, <2>1
<1>5. /\ \A e \in Downloads : down'[e].fd = down[e].fd /\ down'[e].at = down[e].at
      /\ \A j : Open(j)' <=> Open(j)
      /\ Open(i)
      /\ Recording' <=> Recording
      /\ \A e \in Downloads : At(e, "write")' <=> At(e, "write")
  <2>1. \A e \in Downloads : down'[e].fd = down[e].fd /\ down'[e].at = down[e].at
    BY <1>2 DEF i
  <2> QED BY <2>1 DEF i, Open, Recording, At
<1>6. /\ Covers' => Covers /\ file # i
      /\ file # i /\ file # NoInode /\ Covers => Covers'
      /\ meta'.tag = meta.tag /\ meta'.ino = meta.ino /\ (meta'.fresh => meta.fresh)
  <2>1. file # i => data'[file] = data[file]
    <3>1. CASE file = NoInode
      BY <1>0, <1>1, <3>1 DEF Typed
    <3>2. CASE file # NoInode
      BY <1>0, <1>4, <3>2
    <3> QED BY <3>1, <3>2
  <2> QED BY <1>0, <1>1, <2>1, WrittenCovers
<1>7. upload'.at = upload.at /\ upload'.ino = upload.ino
  BY <1>0, <1>1, WrittenTypes
<1>8. SeenMatch'
  BY <1>0, <1>1, <1>2 DEF SeenMatch, At
<1>9. TransferMatch'
  <2> SUFFICES ASSUME NEW c \in Downloads, NEW r \in Parts, down[c].fd # NoInode,
                      data'[down[c].fd][r] # object[r]
               PROVE  /\ data'[down[c].fd][r] = 0
                      /\ \E e \in Downloads : down'[e].fd = down[c].fd /\ r \in down'[e].todo
    BY <1>1, <1>5 DEF TransferMatch
  <2>0. down[c].fd \in Inodes
    BY <1>0 DEF HandsMatch
  <2>1. data'[down[c].fd][r] = data[down[c].fd][r] /\ ~(down[c].fd = i /\ r = p)
    BY <1>4, <2>0
  <2>2. data[down[c].fd][r] = 0
    BY <1>0, <2>1 DEF TransferMatch
  <2>3. PICK e \in Downloads : down[e].fd = down[c].fd /\ r \in down[e].todo
    BY <1>0, <2>1 DEF TransferMatch
  <2>4. r \in down'[e].todo
    BY <1>2, <2>1, <2>3 DEF i
  <2> QED BY <1>5, <2>1, <2>2, <2>3, <2>4
<1>10. NameMatch'
  BY <1>0, <1>1, <1>5, <1>6, <1>7 DEF NameMatch
<1>11. FileMatch'
  BY <1>0, <1>1, <1>4, <1>5 DEF FileMatch
<1>12. CoverMatch'
  BY <1>0, <1>1, <1>4, <1>5, <1>6 DEF CoverMatch
<1>13. UploadMatch'
  BY <1>0, <1>1, <1>4, <1>5, <1>7 DEF UploadMatch
<1>14. OddMatch'
  <2>1. file # NoInode /\ file \notin odd => Covers' \/ Recording
    <3>1. file # NoInode /\ file \notin odd => file # i
      BY <1>0 DEF OddMatch, NameMatch, i
    <3> QED BY <1>0, <1>6, <3>1 DEF OddMatch
  <2> QED BY <1>0, <1>1, <1>5, <2>1 DEF OddMatch
<1> QED BY <1>0, <1>8, <1>9, <1>10, <1>11, <1>12, <1>13, <1>14 DEF FilesInv

LEMMA FailKeeps ==
    ASSUME ~Disturb, FilesInv, NEW d \in Downloads, Fail(d)
    PROVE  FilesInv'
<1>0. /\ Typed /\ HandsMatch /\ SeenMatch /\ TransferMatch /\ NameMatch /\ FileMatch
      /\ CoverMatch /\ UploadMatch /\ OddMatch /\ Typed' /\ HandsMatch'
      /\ At(d, "write") /\ down[d].fd \in Inodes /\ down[d].fd # NoInode
      /\ file # NoInode => file \in Inodes
      /\ upload.at \in {"put", "record"} => upload.ino \in Inodes
  BY Parted, DownTyped DEF Fail, At
<1>1. /\ down[d].fd = tmp
      /\ \A e \in Downloads \ {d} : down[e].fd # tmp
  BY <1>0 DEF Fail, Apart
<1>2. /\ tmp' = NoInode /\ Set(d, NoDown)
      /\ UNCHANGED <<object, data, file, meta, upload, odd>>
  BY DEF Fail, filesVars
<1>3. /\ \A e \in Downloads \ {d} : down'[e] = down[e]
      /\ down'[d].at = "idle" /\ down'[d].fd = NoInode
  BY <1>0, <1>2, DownTypes DEF Set, Typed
<1>4. /\ \A j : j # NoInode => (Open(j)' <=> Open(j) /\ j # tmp)
      /\ Recording' <=> Recording
  BY <1>0, <1>1, <1>3 DEF Open, Recording, At
<1>5. Covers' <=> Covers
  BY <1>0, <1>2, MetaFields
<1>6. SeenMatch'
  BY <1>0, <1>2, <1>3 DEF SeenMatch, At
<1>7. TransferMatch'
  <2> SUFFICES ASSUME NEW c \in Downloads, NEW r \in Parts, down'[c].fd # NoInode,
                      data[down'[c].fd][r] # object[r]
               PROVE  /\ data[down'[c].fd][r] = 0
                      /\ \E e \in Downloads : down'[e].fd = down'[c].fd /\ r \in down'[e].todo
    BY <1>2 DEF TransferMatch
  <2>1. c # d /\ down'[c] = down[c] /\ down[c].fd # tmp
    BY <1>1, <1>3
  <2>2. data[down[c].fd][r] = 0
    BY <1>0, <2>1 DEF TransferMatch
  <2>3. PICK e \in Downloads : down[e].fd = down[c].fd /\ r \in down[e].todo
    BY <1>0, <2>1 DEF TransferMatch
  <2>4. e # d
    BY <1>1, <2>1, <2>3
  <2> QED BY <1>3, <2>1, <2>2, <2>3, <2>4
<1>8. NameMatch' /\ FileMatch' /\ CoverMatch'
  <2>1. file # tmp
    BY <1>0, <1>1 DEF NameMatch
  <2>2. file # NoInode => (Open(file)' <=> Open(file))
    BY <1>2, <1>4, <2>1 DEF Open
  <2> QED BY <1>0, <1>2, <1>4, <1>5, <2>2 DEF NameMatch, FileMatch, CoverMatch
<1>9. UploadMatch'
  BY <1>0, <1>2, <1>4 DEF UploadMatch
<1>10. OddMatch'
  BY <1>0, <1>1, <1>2, <1>3, <1>4, <1>5 DEF OddMatch
<1> QED BY <1>0, <1>6, <1>7, <1>8, <1>9, <1>10 DEF FilesInv

\* When the last part of a file has arrived and nobody else writes to it, it is the object.
LEMMA Filled ==
    ASSUME FilesInv, NEW d \in Downloads, down[d].fd # NoInode, down[d].todo = {},
           \A e \in Downloads \ {d} : down[e].fd # down[d].fd
    PROVE  data[down[d].fd] = object
<1>1. down[d].fd \in Inodes /\ data[down[d].fd] \in Contents /\ object \in Contents
  BY DEF FilesInv, Typed, HandsMatch
<1>2. \A p \in Parts : data[down[d].fd][p] = object[p]
  BY DEF FilesInv, TransferMatch
<1> QED BY <1>1, <1>2 DEF Contents

LEMMA RenameKeeps ==
    ASSUME ~Disturb, FilesInv, NEW d \in Downloads, Rename(d)
    PROVE  FilesInv'
<1>0. /\ Typed /\ HandsMatch /\ SeenMatch /\ TransferMatch /\ NameMatch /\ FileMatch
      /\ CoverMatch /\ UploadMatch /\ OddMatch /\ Typed' /\ HandsMatch'
      /\ At(d, "write") /\ down[d].fd \in Inodes /\ down[d].fd # NoInode
      /\ file # NoInode => file \in Inodes
      /\ tmp # NoInode => tmp \in Inodes
      /\ upload.at \in {"put", "record"} => upload.ino \in Inodes
      /\ down[d] \in DownType
  BY Parted, DownTyped DEF Rename, At
<1>1. /\ down[d].todo = {} /\ upload.at # "open"
      /\ UNCHANGED <<object, data, meta, upload>>
  BY DEF Rename, Complete
<1> DEFINE i == down[d].fd
<1>2. (\A e \in Downloads \ {d} : down[e].fd # i) => data[i] = object
  BY <1>0, <1>1, Filled
<1>3. /\ \A e \in Downloads \ {d} : down'[e] = down[e]
      /\ down'[d].fd = NoInode /\ down'[d].at = IF tmp = NoInode THEN "idle" ELSE "meta"
      /\ tmp # NoInode => down'[d].head = down[d].head /\ down'[d].got = down[d].got
  <2>1. CASE tmp = NoInode
    BY <1>0, <2>1, DownTypes DEF Rename, Set, Typed
  <2>2. CASE tmp # NoInode
    <3>1. down' = [down EXCEPT ![d] = [down[d] EXCEPT !.at = "meta", !.fd = NoInode]]
      BY <2>2 DEF Rename, Set
    <3>2. down \in [Downloads -> DownType]
      BY <1>0 DEF Typed
    <3>3. down'[d] = [down[d] EXCEPT !.at = "meta", !.fd = NoInode]
          /\ \A e \in Downloads \ {d} : down'[e] = down[e]
      BY <3>1, <3>2
    <3> QED BY <1>0, <2>2, <3>3 DEF DownType
  <2> QED BY <2>1, <2>2
<1>4. /\ \A j : j # NoInode =>
            (Open(j)' <=> \E e \in Downloads \ {d} : down[e].fd = j)
      /\ \A j : Open(j)' /\ j # NoInode => Open(j)
      /\ \A j : Open(j) /\ j # i => Open(j)'
      /\ Open(i)
  BY <1>3 DEF Open
<1> HIDE DEF i
<1>5. i \in Inodes /\ i = down[d].fd
  BY <1>0 DEF i
<1>6. SeenMatch'
  BY <1>0, <1>1, <1>3 DEF SeenMatch, At
<1>7. TransferMatch'
  <2> SUFFICES ASSUME NEW c \in Downloads, NEW r \in Parts, down'[c].fd # NoInode,
                      data[down'[c].fd][r] # object[r]
               PROVE  /\ data[down'[c].fd][r] = 0
                      /\ \E e \in Downloads : down'[e].fd = down'[c].fd /\ r \in down'[e].todo
    BY <1>1 DEF TransferMatch
  <2>1. c # d /\ down'[c] = down[c]
    BY <1>3
  <2>2. data[down[c].fd][r] = 0
    BY <1>0, <2>1 DEF TransferMatch
  <2>3. PICK e \in Downloads : down[e].fd = down[c].fd /\ r \in down[e].todo
    BY <1>0, <2>1 DEF TransferMatch
  <2>4. e # d
    BY <1>1, <2>3
  <2> QED BY <1>3, <2>1, <2>2, <2>3, <2>4
<1>8. UploadMatch'
  <2>1. odd \subseteq odd'
    BY DEF Rename
  <2> QED BY <1>0, <1>1, <1>4, <2>1 DEF UploadMatch
<1>9. CASE tmp = NoInode
  <2>1. file' = file /\ tmp' = NoInode /\ odd' = odd
    BY <1>9 DEF Rename
  <2>2. /\ Recording' <=> Recording
        /\ Covers' <=> Covers
    <3>1. Recording' <=> Recording
      BY <1>0, <1>3, <1>9 DEF Recording, At
    <3>2. Covers' <=> Covers
      BY <1>0, <1>1, <2>1, MetaFields
    <3> QED BY <3>1, <3>2
  <2>3. NameMatch'
    BY <2>1 DEF NameMatch
  <2>4. file # NoInode /\ ~Open(file)' => data[file] = object \/ ~Open(file)
    <3>1. file # NoInode /\ Open(file) /\ ~Open(file)' =>
             file = i /\ \A e \in Downloads \ {d} : down[e].fd # i
      BY <1>4, <2>1 DEF Open
    <3> QED BY <1>2, <3>1
  <2>5. FileMatch'
    BY <1>0, <1>1, <2>1, <2>2, <2>4 DEF FileMatch, SeenMatch
  <2>6. file # NoInode /\ ~Open(file) => ~Open(file)'
    BY <1>4, <2>1
  <2>7. CoverMatch'
    <3> SUFFICES ASSUME file # NoInode, Covers, meta.tag # Empty
                 PROVE  meta.tag = IF Open(file)' THEN object ELSE data[file]
      BY <1>1, <2>1, <2>2 DEF CoverMatch
    <3>1. meta.tag = IF Open(file) THEN object ELSE data[file]
      BY <1>0 DEF CoverMatch
    <3> QED BY <2>4, <2>6, <3>1
  <2>8. OddMatch'
    BY <1>0, <1>3, <2>1, <2>2, <1>9 DEF OddMatch
  <2> QED BY <1>0, <1>6, <1>7, <1>8, <2>3, <2>5, <2>7, <2>8 DEF FilesInv
<1>10. CASE tmp # NoInode
  <2>1. file' = tmp /\ tmp' = NoInode
        /\ odd' = IF i = tmp THEN odd ELSE odd \cup {tmp}
    BY <1>5, <1>10 DEF Rename
  <2>2. Open(tmp) /\ ~(meta.fresh /\ meta.ino = tmp)
    BY <1>0, <1>10 DEF NameMatch
  <2>3. Recording' /\ ~Covers'
    <3>1. Recording'
      BY <1>3, <1>10 DEF Recording, At
    <3>2. ~Covers'
      BY <1>1, <2>1, <2>2 DEF Covers
    <3> QED BY <3>1, <3>2
  <2>4. NameMatch' /\ CoverMatch'
    BY <2>1, <2>3 DEF NameMatch, CoverMatch
  <2>5. FileMatch'
    <3> SUFFICES ASSUME ~Open(file)' PROVE data[tmp] = object
      BY <1>0, <1>1, <2>1 DEF FileMatch, SeenMatch
    <3>1. ~Open(file') <=> ~Open(tmp)
      BY <2>1
    <3>2. \A e \in Downloads \ {d} : down[e].fd # tmp
      BY <1>3, <1>10, <2>1 DEF Open
    <3>3. i = tmp
      BY <1>5, <2>2, <3>2 DEF Open
    <3> QED BY <1>2, <3>2, <3>3
  <2>6. OddMatch'
    <3>1. ASSUME NEW c \in Downloads, down'[c].fd # NoInode, down'[c].fd \notin odd'
          PROVE  FALSE
      <4>1. c # d /\ down'[c] = down[c] /\ down[c].fd \notin odd
        BY <1>3, <2>1, <3>1
      <4>2. down[c].fd = tmp /\ (i = down[c].fd => c = d)
        BY <1>0, <1>5, <3>1, <4>1 DEF OddMatch
      <4>3. i = tmp
        BY <2>1, <3>1, <4>1, <4>2
      <4> QED BY <4>1, <4>2, <4>3
    <3> QED BY <2>3, <3>1 DEF OddMatch
  <2> QED BY <1>0, <1>6, <1>7, <1>8, <2>4, <2>5, <2>6 DEF FilesInv
<1> QED BY <1>9, <1>10

LEMMA StoreMetaKeeps ==
    ASSUME ~Disturb, FilesInv, NEW d \in Downloads, StoreMeta(d)
    PROVE  FilesInv'
<1>0. /\ Typed /\ HandsMatch /\ SeenMatch /\ TransferMatch /\ NameMatch /\ FileMatch
      /\ CoverMatch /\ UploadMatch /\ OddMatch /\ Typed' /\ HandsMatch'
      /\ At(d, "meta") /\ down[d].fd = NoInode
      /\ file # NoInode => file \in Inodes
  BY Parted, DownTyped DEF StoreMeta, At
<1>1. /\ UNCHANGED <<object, data, file, tmp, upload, odd>>
      /\ Set(d, NoDown) /\ meta' = Meta("synced", object, Size(object))
  BY <1>0 DEF StoreMeta, filesVars, SeenMatch, At
<1>2. /\ \A e \in Downloads \ {d} : down'[e] = down[e]
      /\ down'[d].at = "idle" /\ down'[d].fd = NoInode
  BY <1>0, <1>1, DownTypes DEF Set, Typed
<1>3. /\ \A e \in Downloads : down'[e].fd = down[e].fd
      /\ \A j : Open(j)' <=> Open(j)
      /\ \A e \in Downloads : At(e, "write")' <=> At(e, "write")
      /\ Recording /\ upload.at # "open"
  <2>1. \A e \in Downloads : down'[e].fd = down[e].fd
    BY <1>0, <1>2
  <2>2. Recording
    BY <1>0 DEF Recording
  <2>3. \A e \in Downloads : At(e, "write")' <=> At(e, "write")
    BY <1>0, <1>2 DEF At
  <2>4. \A j : Open(j)' <=> Open(j)
    BY <2>1 DEF Open
  <2> QED BY <1>0, <2>1, <2>2, <2>3, <2>4 DEF UploadMatch
<1>4. meta'.tag = object /\ meta'.ino = file /\ (Covers' <=> Size(object) = Size(data[file]))
  BY <1>0, <1>1, MetaFields
<1>5. file # NoInode /\ ~Open(file) => data[file] = object /\ Covers'
  BY <1>0, <1>3, <1>4 DEF FileMatch
<1>6. SeenMatch'
  BY <1>0, <1>1, <1>2 DEF SeenMatch, At
<1>7. TransferMatch'
  <2> SUFFICES ASSUME NEW c \in Downloads, NEW r \in Parts, down[c].fd # NoInode,
                      data[down[c].fd][r] # object[r]
               PROVE  /\ data[down[c].fd][r] = 0
                      /\ \E e \in Downloads : down'[e].fd = down[c].fd /\ r \in down'[e].todo
    BY <1>1, <1>3 DEF TransferMatch
  <2>1. data[down[c].fd][r] = 0
    BY <1>0 DEF TransferMatch
  <2>2. PICK e \in Downloads : down[e].fd = down[c].fd /\ r \in down[e].todo
    BY <1>0 DEF TransferMatch
  <2>3. e # d
    BY <1>0, <2>2
  <2> QED BY <1>2, <2>1, <2>2, <2>3
<1>8. NameMatch'
  BY <1>0, <1>1, <1>3, <1>4 DEF NameMatch
<1>9. FileMatch'
  BY <1>0, <1>1, <1>3, <1>5 DEF FileMatch
<1>10. CoverMatch'
  BY <1>1, <1>3, <1>4, <1>5 DEF CoverMatch
<1>11. UploadMatch'
  BY <1>0, <1>1, <1>3 DEF UploadMatch
<1>12. OddMatch'
  <2>1. file # NoInode /\ file \notin odd => ~Open(file)
    BY <1>0 DEF OddMatch, NameMatch, Open
  <2> QED BY <1>0, <1>1, <1>3, <1>5, <2>1 DEF OddMatch
<1> QED BY <1>0, <1>6, <1>7, <1>8, <1>9, <1>10, <1>11, <1>12 DEF FilesInv

\* A crash leaves no file open, and one that nothing recorded is a ghost of it.
LEMMA RestartKeeps ==
    ASSUME ~Disturb, FilesInv, Crash \/ Start
    PROVE  FilesInv'
<1>0. /\ Typed /\ HandsMatch /\ SeenMatch /\ TransferMatch /\ NameMatch /\ FileMatch
      /\ CoverMatch /\ UploadMatch /\ OddMatch /\ Typed' /\ HandsMatch'
      /\ file # NoInode => file \in Inodes
      /\ upload.at \in {"put", "record"} => upload.ino \in Inodes
  BY Parted, RestartTyped
<1>1. CASE Crash
  <2>1. /\ UNCHANGED <<object, data, file, tmp, meta>>
        /\ down' = [d \in Downloads |-> NoDown] /\ upload' = NoUpload
        /\ odd' = IF file = NoInode \/ Covers THEN odd ELSE odd \cup {file}
    BY <1>1 DEF Crash, filesVars
  <2>2. /\ \A d \in Downloads : down'[d].at = "idle" /\ down'[d].fd = NoInode
        /\ upload'.at = "idle" /\ upload'.ino = NoInode
    BY <2>1, DownTypes, <1>0 DEF NoUpload
  <2>3. ~Recording' /\ \A j : j # NoInode => ~Open(j)'
    BY <2>2 DEF Recording, At, Open
  <2>4. file # NoInode => ~Open(file) /\ ~Open(file)'
    <3>1. \A d \in Downloads : down[d].fd \in {NoInode, tmp}
      BY <1>1 DEF Crash, Apart
    <3>2. file # NoInode => ~Open(file)
      BY <1>0, <3>1 DEF Open, NameMatch
    <3> QED BY <2>1, <2>3, <3>2
  <2>5. Covers' <=> Covers
    BY <1>0, <2>1, MetaFields
  <2>6. SeenMatch' /\ TransferMatch'
    BY <1>0, <2>1, <2>2 DEF SeenMatch, TransferMatch, At
  <2>7. NameMatch'
    BY <1>0, <2>1, <2>2 DEF NameMatch, At
  <2>8. FileMatch' /\ CoverMatch'
    BY <1>0, <2>1, <2>3, <2>4, <2>5 DEF FileMatch, CoverMatch
  <2>9. UploadMatch' /\ OddMatch'
    BY <2>1, <2>2, <2>5 DEF UploadMatch, OddMatch
  <2> QED BY <1>0, <2>6, <2>7, <2>8, <2>9 DEF FilesInv
<1>2. CASE Start
  <2>1. /\ UNCHANGED <<object, data, file, tmp, upload, down, odd>>
        /\ meta' = meta \/ (file # NoInode /\ ~Covers /\ meta' = Marked)
    BY <1>2 DEF Start, filesVars
  <2>2. /\ \A j : Open(j)' <=> Open(j)
        /\ Recording' <=> Recording
        /\ Covers' <=> Covers
        /\ Covers' => meta' = meta
    <3>1. /\ \A j : Open(j)' <=> Open(j)
          /\ Recording' <=> Recording
      BY <2>1 DEF Open, Recording, At
    <3>2. (Covers' <=> Covers) /\ (Covers' => meta' = meta)
      BY <1>0, <2>1, MetaFields
    <3> QED BY <3>1, <3>2
  <2>3. meta'.fresh /\ meta'.ino = tmp /\ tmp # file => meta.fresh /\ meta.ino = tmp
    BY <2>1 DEF Marked, Meta
  <2>4. SeenMatch' /\ TransferMatch'
    BY <1>0, <2>1 DEF SeenMatch, TransferMatch, At
  <2>5. NameMatch'
    BY <1>0, <2>1, <2>2, <2>3 DEF NameMatch, At
  <2>6. FileMatch' /\ CoverMatch'
    BY <1>0, <2>1, <2>2 DEF FileMatch, CoverMatch
  <2>7. UploadMatch' /\ OddMatch'
    BY <1>0, <2>1, <2>2 DEF UploadMatch, OddMatch
  <2> QED BY <1>0, <2>4, <2>5, <2>6, <2>7 DEF FilesInv
<1> QED BY <1>1, <1>2

LEMMA FilesNext == ~Disturb /\ FilesInv /\ [Next]_vars => FilesInv'
<1>1. ASSUME FilesInv, UNCHANGED vars PROVE FilesInv'
  <2>1. UNCHANGED <<up, crashes, object, data, young, tmp, file, meta, event, queued, upload,
                    odd, down>>
    BY <1>1 DEF vars, filesVars, watchVars
  <2>2. Covers' <=> Covers
    BY <2>1 DEF Covers, Size
  <2>3. (\A j : Open(j)' <=> Open(j)) /\ (Recording' <=> Recording)
    BY <2>1 DEF Open, Recording, At
  <2>4. Typed' /\ HandsMatch' /\ SeenMatch' /\ TransferMatch'
    BY <1>1, <2>1 DEF FilesInv, Typed, HandsMatch, SeenMatch, TransferMatch, At
  <2> QED BY <1>1, <2>1, <2>2, <2>3, <2>4
          DEF FilesInv, NameMatch, FileMatch, CoverMatch, UploadMatch, OddMatch, At
<1> QED BY <1>1, WatchKeeps, BeginKeeps, CreateKeeps, WritePartKeeps, FailKeeps, RenameKeeps,
        StoreMetaKeeps, RestartKeeps DEF Next

\* The invariant of the files, for every number of downloads that run at once
\* (handleDownload, DownloadToFile).
LEMMA FilesAlways == ASSUME ~Disturb PROVE Spec => []FilesInv
<1>1. FilesInv /\ [Next]_vars => FilesInv'
  BY FilesNext
<1> QED BY <1>1, InitFiles, PTL DEF Spec

\* However many downloads of a key run, the object is always one version, complete: no
\* partial download is sent back ("so we won't accidentally trigger an upload of the partial
\* file", api.go:461).
THEOREM KeepsObjectWhole == ASSUME ~Disturb PROVE Spec => []ObjectWhole
<1>1. FilesInv => ObjectWhole
  BY DEF FilesInv, SeenMatch, ObjectWhole
<1> QED BY <1>1, FilesAlways, PTL

\* A cache file that no download writes to is one version, complete (the rename of
\* handleDownload, api.go:506), also when another download's file was put in place.
THEOREM PutsWhole == ASSUME ~Disturb PROVE Spec => []FileWhole
<1>1. FilesInv => FileWhole
  BY DEF FilesInv, FileMatch, FileWhole
<1> QED BY <1>1, FilesAlways, PTL

\* A file that counts as in sync is the version its ETag names (StoreMeta, api.go:513),
\* whichever of the downloads recorded it.
THEOREM NamesItsVersion == ASSUME ~Disturb PROVE Spec => []CoveredIsTag
<1>1. FilesInv => CoveredIsTag
  BY DEF FilesInv, CoverMatch, CoveredIsTag
<1> QED BY <1>1, FilesAlways, PTL

\* A file that one download alone had to do with and that was recorded before any crash is
\* not uploaded back, whenever its events are handled (uploadOnce, fileInUse).
THEOREM NotSentBack == ASSUME ~Disturb PROVE Spec => NotUploadedBack
<1>1. FilesInv /\ [Next]_vars => [upload.at = "put" /\ object' # object => upload.ino \in odd]_vars
  BY DEF FilesInv, UploadMatch
<1> QED BY <1>1, FilesAlways, PTL DEF Spec, NotUploadedBack

=============================================================================
