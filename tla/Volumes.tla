------------------------------ MODULE Volumes ------------------------------
(***************************************************************************)
(* The volumes of a storage as Proxmox VE sees them: the list, made of the *)
(* objects and of the local files (handleList, mergeLocalFiles), and the   *)
(* name a new disk gets from it (alloc_image), while files are written,    *)
(* uploaded, downloaded, evicted and deleted and other nodes use the same  *)
(* bucket.  Contents and the order of the uploads are UploadControl's and  *)
(* CacheSync's subject; a file is here only pending or synced.             *)
(***************************************************************************)
EXTENDS Naturals, FiniteSets, FiniteSetsExt

CONSTANT
    LastName       \* bound: disk names of the VM, numbered from 0

ASSUME NameAssumption == LastName \in Nat

VARIABLES
    stored,      \* names under which the bucket holds an object
    cache,       \* [Names -> state of the cached file]
    put,         \* pending files of which PutObject has stored the present content
    deleting,    \* names whose delete has removed the object, not yet the file
    list,        \* the listing: stage, what remains to be read, what is in the answer
    alloc,       \* alloc_image: stage and the name it found
    whole,       \* ghost: names with an object all the time since the listing began
    stayed,      \* ghost: names in use all that time, not evicted unless they are whole
    seen,        \* ghost: names in use at some time since then
    quiet        \* ghost: nothing has happened that misleads alloc_image (see Track)

ghosts == <<whole, stayed, seen, quiet>>
vars == <<stored, cache, put, deleting, list, alloc, ghosts>>

Names  == 0..LastName
Cached == {n \in Names : cache[n] # "none"}
InUse  == stored \cup Cached
NoList == [at |-> "idle", todo |-> {}, found |-> {}, answered |-> FALSE]
NoAlloc == [at |-> "idle", name |-> 0]

TypeOK ==
    /\ stored \subseteq Names
    /\ cache \in [Names -> {"none", "pending", "synced"}]
    /\ put \subseteq {n \in Names : cache[n] = "pending"}
    /\ deleting \subseteq Names /\ quiet \in BOOLEAN
    /\ list \in [at: {"idle", "s3", "local", "done"}, todo: SUBSET Names,
                 found: SUBSET Names, answered: BOOLEAN]
    /\ alloc \in [at: {"idle", "list", "check", "create"}, name: Nat]
    /\ whole \subseteq stored /\ stayed \subseteq seen /\ seen \subseteq Names

Init ==
    /\ stored = {} /\ cache = [n \in Names |-> "none"] /\ put = {} /\ deleting = {}
    /\ list = NoList /\ alloc = NoAlloc
    /\ whole = {} /\ stayed = {} /\ seen = {} /\ quiet = TRUE

-----------------------------------------------------------------------------
(* Files and objects *)

\* What a step that changes objects or files does to the ghosts: gone are the names whose
\* file it removes while the list may miss their object; loud says whether alloc_image,
\* too, may be misled by it.
Track(gone, loud) ==
    /\ whole' = whole \cap stored'
    /\ stayed' = (stayed \ gone) \cap InUse'
    /\ seen' = IF list.at = "idle" THEN {} ELSE seen \cup InUse'
    /\ quiet' = (alloc.at = "idle" \/ (quiet /\ ~loud))

Readers == UNCHANGED <<list, alloc>>

\* PVE writes a file of the cache, an old or a new one, and the watcher marks it.
Write(n) ==
    /\ cache' = [cache EXCEPT ![n] = "pending"] /\ put' = put \ {n}
    /\ UNCHANGED <<stored, deleting>> /\ Readers
    /\ Track({}, alloc.at = "create" /\ n = alloc.name)

\* uploadOnce: PutObject.
UploadPut(n) ==
    /\ cache[n] = "pending" /\ n \notin put \cup deleting
    /\ stored' = stored \cup {n} /\ put' = put \cup {n}
    /\ UNCHANGED <<cache, deleting>> /\ Track({}, FALSE) /\ Readers

\* MarkSynced.
UploadRecord(n) ==
    /\ n \in put
    /\ cache' = [cache EXCEPT ![n] = "synced"] /\ put' = put \ {n}
    /\ UNCHANGED <<stored, deleting>> /\ Track({}, FALSE) /\ Readers

\* handleDownload.
Download(n) ==
    /\ n \in stored \ Cached
    /\ cache' = [cache EXCEPT ![n] = "synced"]
    /\ UNCHANGED <<stored, put, deleting>> /\ Track({}, FALSE) /\ Readers

\* EvictByAge goes by the time of the last write: a file may go right after its upload.
\* The object of a name that is not whole may be younger than the reading of the bucket.
Evict(n) ==
    /\ cache[n] = "synced"
    /\ cache' = [cache EXCEPT ![n] = "none"]
    /\ UNCHANGED <<stored, put, deleting>> /\ Readers
    /\ Track({n} \ whole, n \notin whole)

\* Mutant: the upload goes on.
Aborted_Never(n) == put

\* The puts left when blockUploads has aborted the upload of n.
Aborted(n) == put \ {n}

\* handleDelete: the object first (when that fails nothing changes), then the file.
DeleteObject(n) ==
    /\ n \in InUse \ deleting
    /\ stored' = stored \ {n}
    /\ put' = Aborted(n) /\ deleting' = deleting \cup {n}
    /\ UNCHANGED cache /\ Track({}, FALSE) /\ Readers

DeleteFile(n) ==
    /\ n \in deleting
    /\ cache' = [cache EXCEPT ![n] = "none"]
    /\ put' = Aborted(n) /\ deleting' = deleting \ {n}
    /\ UNCHANGED stored /\ Track({n}, FALSE) /\ Readers

\* Another node uploads or deletes.
OtherPut(n) ==
    /\ stored' = stored \cup {n}
    /\ UNCHANGED <<cache, put, deleting>> /\ Track({}, TRUE) /\ Readers

OtherDelete(n) ==
    /\ n \in stored
    /\ stored' = stored \ {n}
    /\ UNCHANGED <<cache, put, deleting>> /\ Track({}, FALSE) /\ Readers
-----------------------------------------------------------------------------
(* The list *)

filesVars == <<stored, cache, put, deleting>>

\* handleList begins, for alloc_image (then a is "list") or for anyone else ("idle").
ListBegin(a) ==
    /\ list.at = "idle" /\ alloc.at = "idle"
    /\ list' = [NoList EXCEPT !.at = "s3", !.todo = Names, !.answered = TRUE]
    /\ alloc' = [alloc EXCEPT !.at = a]
    /\ whole' = stored /\ stayed' = InUse /\ seen' = InUse
    /\ UNCHANGED <<filesVars, quiet>>

\* Mutant: the files are read before the objects.
Source_Swapped == IF list.at = "s3" THEN Cached ELSE stored

\* What a stage of the list reads.
Source == IF list.at = "s3" THEN stored ELSE Cached

\* Reads the entry of the name n, if there is one; the stage ends with the last name.
Entry(n, next, rest) ==
    /\ n \in list.todo
    /\ list' = [list EXCEPT !.found = @ \cup ({n} \cap Source),
                            !.todo = IF @ = {n} THEN rest ELSE @ \ {n},
                            !.at = IF list.todo = {n} THEN next ELSE @]
    /\ UNCHANGED <<filesVars, alloc, ghosts>>

\* ListObjects, page after page, in the order of the keys.
ListObject == list.at = "s3" /\ Entry(Min(list.todo), "local", Names)

\* The endpoint does not answer in time: the local files alone, with status 200.
ListFails ==
    /\ list.at = "s3"
    /\ list' = [list EXCEPT !.at = "local", !.todo = Names, !.found = {}, !.answered = FALSE]
    /\ UNCHANGED <<filesVars, alloc, ghosts>>

\* mergeLocalFiles, in the order of the directory, which may be any.
ListFile(n) == list.at = "local" /\ Entry(n, "done", {})

\* The answer goes to somebody else than alloc_image.
ListAnswer ==
    /\ list.at = "done" /\ alloc.at = "idle"
    /\ list' = NoList /\ whole' = {} /\ stayed' = {} /\ seen' = {}
    /\ UNCHANGED <<filesVars, alloc, quiet>>
-----------------------------------------------------------------------------
(* alloc_image, under the lock PVE takes for the whole storage *)

\* find_free_diskname: the first name that is not in the list, or none.
AllocName ==
    /\ list.at = "done" /\ alloc.at = "list"
    /\ list' = NoList /\ stayed' = {} /\ seen' = {}
    /\ LET free == Names \ list.found
       IN  IF free = {} THEN /\ alloc' = NoAlloc /\ whole' = {} /\ quiet' = TRUE
           ELSE /\ alloc' = [at |-> "check", name |-> Min(free)]
                /\ UNCHANGED whole /\ quiet' = (quiet /\ list.answered)
    /\ UNCHANGED filesVars

\* Mutant: nobody looks whether the file exists.
Taken_Never(n) == FALSE

\* -e.
Taken(n) == n \in Cached

\* The loop over -e: as long as there is such a file the next name, listed or not.
AllocCheck ==
    /\ alloc.at = "check"
    /\ \/ /\ alloc.name > LastName
          /\ alloc' = NoAlloc /\ whole' = {} /\ quiet' = TRUE
       \/ /\ alloc.name <= LastName /\ Taken(alloc.name)
          /\ alloc' = [alloc EXCEPT !.name = @ + 1] /\ quiet' = FALSE /\ UNCHANGED whole
       \/ /\ alloc.name <= LastName /\ ~Taken(alloc.name)
          /\ alloc' = [alloc EXCEPT !.at = "create"] /\ UNCHANGED <<whole, quiet>>
    /\ UNCHANGED <<filesVars, list, stayed, seen>>

\* qemu-img create.
AllocCreate ==
    /\ alloc.at = "create"
    /\ cache' = [cache EXCEPT ![alloc.name] = "pending"]
    /\ put' = put \ {alloc.name} /\ alloc' = NoAlloc
    /\ whole' = {} /\ quiet' = TRUE
    /\ UNCHANGED <<stored, deleting, list, stayed, seen>>
-----------------------------------------------------------------------------
Next ==
    \/ \E n \in Names :
          \/ Write(n) \/ UploadPut(n) \/ UploadRecord(n) \/ Download(n) \/ Evict(n)
          \/ DeleteObject(n) \/ DeleteFile(n) \/ OtherPut(n) \/ OtherDelete(n)
          \/ ListFile(n)
    \/ \E a \in {"idle", "list"} : ListBegin(a)
    \/ ListObject \/ ListFails \/ ListAnswer \/ AllocName \/ AllocCheck \/ AllocCreate

Spec == Init /\ [][Next]_vars
-----------------------------------------------------------------------------
\* A list that the bucket answered holds every volume that was there all the time it was
\* made, as object or as file, and went from one to the other.  One alone may be missing:
\* whose first object came, and whose file then was evicted, during the list; it is in the
\* bucket too late for the first read, and out of the cache too early for the second.
\* No list holds a volume that never was there while it was made.
ListIsBetween ==
    list.at = "done" => /\ list.answered => stayed \subseteq list.found
                        /\ list.found \subseteq seen

\* A new disk does not get the name of a volume in use, whatever is written, uploaded,
\* downloaded and deleted between the list and its creation, except: the bucket did not
\* answer the list, another node put an object, a file was evicted whose object is
\* younger than the list, a listed name had to be skipped because of its file, or the
\* file appears after the last -e.
AllocIsFree == [][AllocCreate /\ quiet => alloc.name \notin InUse]_vars
=============================================================================
