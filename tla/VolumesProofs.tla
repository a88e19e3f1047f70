--------------------------- MODULE VolumesProofs ---------------------------
(***************************************************************************)
(* The listing and the allocation of names, for every number of names.     *)
(***************************************************************************)
EXTENDS Volumes, FiniteSetTheorems, WellFoundedInduction, TLAPS

\* The list holds n, or will: the object when its entry is still to be read, else the
\* file, unless n is whole (then the object has been read).
Listed(n) ==
    \/ n \in list.found
    \/ list.at = "s3" /\ (n \in list.todo \/ n \notin whole)
    \/ list.at = "local" /\ n \in list.todo \ whole

\* What the list owes to the names in use since it began.
ListMatch ==
    /\ stayed \subseteq whole \cup Cached
    /\ list.at = "idle" => list = NoList /\ stayed = {}
    /\ list.at # "idle" => InUse \cup list.found \subseteq seen
    /\ list.at # "idle" /\ list.answered => \A n \in stayed : Listed(n)

\* alloc_image waits for its list, then has a name.  If nothing misleads it, an object
\* that is not whole has its file, which nobody is about to remove; the list holds what
\* is whole, so the name is not whole, and -e sees the file of any other.
AllocMatch ==
    /\ alloc.at = "list" => list.at # "idle"
    /\ alloc.at \in {"check", "create"} => list.at = "idle"
    /\ alloc.at = "create" => alloc.name \in Names
    /\ quiet /\ alloc.at # "idle" => stored \subseteq whole \cup (Cached \ deleting)
    /\ quiet /\ alloc.at = "list" /\ list.answered =>
          \A n \in whole : n \in list.found \/ (list.at = "s3" /\ n \in list.todo)
    /\ quiet /\ alloc.at \in {"check", "create"} => alloc.name \notin whole
    /\ quiet /\ alloc.at = "create" => alloc.name \notin Cached

VolumesInv == TypeOK /\ ListMatch /\ AllocMatch

-----------------------------------------------------------------------------
LEMMA MinInSet ==
    ASSUME NEW S, S \subseteq Nat, S # {}
    PROVE  Min(S) \in S
<1> DEFINE upTo(x) == {y \in S : y <= x}
           T == {upTo(x) : x \in S}
<1>1. T \subseteq FiniteSubsetsOf(S) /\ T # {}
  <2>1. ASSUME NEW x \in S PROVE upTo(x) \in FiniteSubsetsOf(S)
    <3>1. 0 \in Int /\ x \in Int
      OBVIOUS
    <3>2. IsFiniteSet(0..x)
      BY <3>1, FS_Interval
    <3>3. upTo(x) \in SUBSET S /\ \A y \in upTo(x) : y \in 0..x
      OBVIOUS
    <3>4. IsFiniteSet(upTo(x))
      BY <3>2, <3>3, FS_Subset, upTo(x) \in SUBSET (0..x)
    <3> QED BY <3>3, <3>4 DEF FiniteSubsetsOf
  <2> QED BY <2>1
<1>2. PICK t \in T : \A u \in T : <<u, t>> \notin StrictSubsetOrdering(S)
  <2> HIDE DEF T
  <2> QED BY <1>1, FS_StrictSubsetOrderingWellFounded, WFMin
<1>3. PICK x \in S : t = upTo(x)
  BY <1>2
<1>4. ASSUME NEW y \in S, y < x PROVE FALSE
  <2>0. x \in Nat /\ y \in Nat /\ ~(x <= y) /\ x <= x /\ \A z \in S : z <= y => z <= x
    BY <1>4
  <2>1. upTo(y) \subseteq upTo(x) /\ x \in upTo(x) /\ x \notin upTo(y)
    BY <2>0
  <2>2. <<upTo(y), upTo(x)>> \in StrictSubsetOrdering(S)
    BY <2>1 DEF StrictSubsetOrdering
  <2>3. upTo(y) \in T
    OBVIOUS
  <2>4. <<upTo(y), t>> \notin StrictSubsetOrdering(S)
    <3> HIDE DEF T, upTo
    <3> QED BY <1>2, <2>3
  <2> QED BY <1>3, <2>2, <2>4
<1>5. \A y \in S : x <= y
  BY <1>4
<1> QED BY <1>5 DEF Min

LEMMA NamesNat == Names \subseteq Nat /\ LastName \in Names
BY NameAssumption DEF Names

LEMMA InitInv == Init => VolumesInv
<1> SUFFICES ASSUME Init PROVE VolumesInv
  OBVIOUS
<1> USE DEF Init, NoList, NoAlloc
<1>1. TypeOK
  BY NamesNat DEF TypeOK
<1>2. ListMatch
  BY DEF ListMatch, InUse, Cached
<1>3. AllocMatch
  BY DEF AllocMatch
<1> QED BY <1>1, <1>2, <1>3 DEF VolumesInv

-----------------------------------------------------------------------------
(* The steps on files and objects. *)

FileStep(n) ==
    \/ Write(n) \/ UploadPut(n) \/ UploadRecord(n) \/ Download(n) \/ Evict(n)
    \/ DeleteObject(n) \/ DeleteFile(n) \/ OtherPut(n) \/ OtherDelete(n)

\* Only files in gone, and whole ones, lose their file; what is stored, when it is not
\* noticed, has its file, or had one that was not about to go; the file that alloc_image
\* is about to create does not appear.
Effect(gone, loud) ==
    /\ Cached \ gone \subseteq Cached' \cup whole'
    /\ ~loud => /\ stored' \subseteq stored \cup Cached'
                /\ (Cached \ deleting) \cap stored' \subseteq whole \cup (Cached' \ deleting')
                /\ stored' \ stored \subseteq Cached' \ deleting'
                /\ alloc.at = "create" /\ alloc.name \in Cached' =>
                      alloc.name \in Cached \cup stored

LEMMA FileEffect ==
    ASSUME VolumesInv, NEW n \in Names, FileStep(n)
    PROVE  \E gone \in SUBSET Names, loud \in BOOLEAN :
              Track(gone, loud) /\ Readers /\ Effect(gone, loud)
<1> USE DEF VolumesInv, TypeOK
<1>1. CASE Write(n)
  <2> DEFINE loud == alloc.at = "create" /\ n = alloc.name
  <2>1. Track({}, loud) /\ Readers
    BY <1>1 DEF Write
  <2>2. Effect({}, loud)
    BY <1>1 DEF Write, Cached, Effect
  <2> QED BY <2>1, <2>2
<1>2. CASE UploadPut(n)
  <2>1. Track({}, FALSE) /\ Readers
    BY <1>2 DEF UploadPut
  <2>2. Effect({}, FALSE)
    BY <1>2 DEF UploadPut, Cached, Effect
  <2> QED BY <2>1, <2>2
<1>3. CASE UploadRecord(n)
  <2>1. Track({}, FALSE) /\ Readers
    BY <1>3 DEF UploadRecord
  <2>2. Effect({}, FALSE)
    BY <1>3 DEF UploadRecord, Cached, Effect
  <2> QED BY <2>1, <2>2
<1>4. CASE Download(n)
  <2>1. Track({}, FALSE) /\ Readers
    BY <1>4 DEF Download
  <2>2. Effect({}, FALSE)
    BY <1>4 DEF Download, Cached, Effect
  <2> QED BY <2>1, <2>2
<1>5. CASE Evict(n)
  <2>1. Track({n} \ whole, n \notin whole) /\ Readers
    BY <1>5 DEF Evict
  <2>2. Effect({n} \ whole, n \notin whole)
    BY <1>5, <2>1 DEF Evict, Cached, Effect, Track
  <2>3. {n} \ whole \in SUBSET Names
    OBVIOUS
  <2> QED BY <2>1, <2>2, <2>3
<1>6. CASE DeleteObject(n)
  <2>1. Track({}, FALSE) /\ Readers
    BY <1>6 DEF DeleteObject
  <2>2. Effect({}, FALSE)
    BY <1>6 DEF DeleteObject, Cached, Effect
  <2> QED BY <2>1, <2>2
<1>7. CASE DeleteFile(n)
  <2>1. Track({n}, FALSE) /\ Readers
    BY <1>7 DEF DeleteFile
  <2>2. Effect({n}, FALSE)
    BY <1>7 DEF DeleteFile, Cached, Effect
  <2>3. {n} \in SUBSET Names
    OBVIOUS
  <2> QED BY <2>1, <2>2, <2>3
<1>8. CASE OtherPut(n)
  <2>1. Track({}, TRUE) /\ Readers
    BY <1>8 DEF OtherPut
  <2>2. Effect({}, TRUE)
    BY <1>8 DEF OtherPut, Cached, Effect
  <2> QED BY <2>1, <2>2
<1>9. CASE OtherDelete(n)
  <2>1. Track({}, FALSE) /\ Readers
    BY <1>9 DEF OtherDelete
  <2>2. Effect({}, FALSE)
    BY <1>9 DEF OtherDelete, Cached, Effect
  <2> QED BY <2>1, <2>2
<1> QED BY <1>1, <1>2, <1>3, <1>4, <1>5, <1>6, <1>7, <1>8, <1>9 DEF FileStep

LEMMA FileInv ==
    ASSUME VolumesInv, NEW n \in Names, FileStep(n)
    PROVE  VolumesInv'
<1> PICK gone \in SUBSET Names, loud \in BOOLEAN :
          Track(gone, loud) /\ Readers /\ Effect(gone, loud)
  BY FileEffect
<1> USE DEF VolumesInv, Track, Readers
<1>1. TypeOK'
  <2> USE DEF TypeOK
  <2>1. /\ stored' \subseteq Names
        /\ cache' \in [Names -> {"none", "pending", "synced"}]
        /\ put' \subseteq {m \in Names : cache'[m] = "pending"}
        /\ deleting' \subseteq Names
    <3>1. CASE Write(n)
      BY <3>1 DEF Write
    <3>2. CASE UploadPut(n)
      BY <3>2 DEF UploadPut
    <3>3. CASE UploadRecord(n)
      BY <3>3 DEF UploadRecord
    <3>4. CASE Download(n)
      BY <3>4 DEF Download, Cached
    <3>5. CASE Evict(n)
      BY <3>5 DEF Evict
    <3>6. CASE DeleteObject(n)
      BY <3>6 DEF DeleteObject, Aborted, InUse, Cached
    <3>7. CASE DeleteFile(n)
      BY <3>7 DEF DeleteFile, Aborted
    <3>8. CASE OtherPut(n)
      BY <3>8 DEF OtherPut
    <3>9. CASE OtherDelete(n)
      BY <3>9 DEF OtherDelete
    <3> QED BY <3>1, <3>2, <3>3, <3>4, <3>5, <3>6, <3>7, <3>8, <3>9 DEF FileStep
  <2>2. InUse' \subseteq Names
    BY <2>1 DEF InUse, Cached
  <2>3. stayed \subseteq seen /\ (list.at = "idle" => stayed = {})
    BY DEF ListMatch
  <2>4. /\ whole' \subseteq stored' /\ stayed' \subseteq seen' /\ seen' \subseteq Names
        /\ quiet' \in BOOLEAN
    BY <2>2, <2>3
  <2> QED BY <2>1, <2>4
<1>2. ListMatch'
  <2>1. stayed' \subseteq whole' \cup Cached'
    <3> SUFFICES ASSUME NEW m \in stayed', m \notin Cached' PROVE m \in whole'
      OBVIOUS
    <3>1. m \in stored' /\ m \in stayed /\ m \notin gone
      BY DEF InUse
    <3>2. m \in whole \/ m \in Cached
      BY <3>1 DEF ListMatch
    <3> QED BY <3>1, <3>2 DEF Effect
  <2>2. list.at # "idle" => InUse' \cup list.found \subseteq seen'
    BY DEF ListMatch
  <2>3. list.at # "idle" /\ list.answered => \A m \in stayed' : Listed(m)'
    BY DEF ListMatch, Listed
  <2> QED BY <2>1, <2>2, <2>3 DEF ListMatch
<1>3. AllocMatch'
  <2>1. CASE quiet' /\ alloc.at # "idle"
    <3>1. quiet /\ ~loud
      BY <2>1
    <3>2. stored' \subseteq whole' \cup (Cached' \ deleting')
      <4> SUFFICES ASSUME NEW m \in stored', m \notin Cached' \ deleting' PROVE m \in whole'
        OBVIOUS
      <4>1. m \in stored
        BY <3>1 DEF Effect
      <4>2. m \in whole \/ m \in Cached \ deleting
        BY <2>1, <3>1, <4>1 DEF AllocMatch
      <4> QED BY <3>1, <4>2 DEF Effect
    <3>3. alloc.at = "create" => alloc.name \notin Cached'
      <4>1. alloc.at = "create" => alloc.name \notin Cached \cup stored
        BY <3>1 DEF AllocMatch
      <4> QED BY <3>1, <4>1 DEF Effect
    <3> QED BY <2>1, <3>1, <3>2, <3>3 DEF AllocMatch
  <2>2. CASE ~(quiet' /\ alloc.at # "idle")
    BY <2>2 DEF AllocMatch
  <2> QED BY <2>1, <2>2
<1> QED BY <1>1, <1>2, <1>3

-----------------------------------------------------------------------------
(* The steps of the list. *)

LEMMA EntryInv ==
    ASSUME VolumesInv, NEW n \in Names,
           \/ list.at = "s3" /\ Entry(n, "local", Names)
           \/ list.at = "local" /\ Entry(n, "done", {})
    PROVE  VolumesInv'
<1> USE DEF VolumesInv
<1>1. /\ UNCHANGED <<filesVars, alloc, ghosts>>
      /\ UNCHANGED <<stored, cache, put, deleting, whole, stayed, seen, quiet>>
      /\ InUse' = InUse /\ Cached' = Cached
  BY DEF Entry, filesVars, ghosts, InUse, Cached
<1>2. /\ list' \in [at: {"s3", "local", "done"}, todo: SUBSET Names, found: SUBSET Names,
                    answered: BOOLEAN]
      /\ list'.answered = list.answered
      /\ list'.found = list.found \cup ({n} \cap Source)
      /\ list.at = "s3" => \/ list.todo = {n} /\ list'.at = "local"
                           \/ list'.at = "s3" /\ list'.todo = list.todo \ {n}
  <2> DEFINE found == list.found \cup ({n} \cap Source)
  <2>0. found \in SUBSET Names /\ list.todo \in SUBSET Names /\ list.answered \in BOOLEAN
    BY DEF TypeOK
  <2> HIDE DEF found
  <2>1. CASE list.at = "s3" /\ Entry(n, "local", Names)
    <3>1. CASE list.todo = {n}
      <4>1. list' = [at |-> "local", todo |-> Names, found |-> found, answered |-> list.answered]
        BY <2>1, <3>1 DEF Entry, TypeOK, found
      <4> QED BY <2>0, <3>1, <4>1 DEF found
    <3>2. CASE list.todo # {n}
      <4>1. list' = [at |-> "s3", todo |-> list.todo \ {n}, found |-> found,
                     answered |-> list.answered]
        BY <2>1, <3>2 DEF Entry, TypeOK, found
      <4> QED BY <2>1, <2>0, <4>1 DEF found
    <3> QED BY <3>1, <3>2
  <2>2. CASE list.at = "local" /\ Entry(n, "done", {})
    <3>1. CASE list.todo = {n}
      <4>1. list' = [at |-> "done", todo |-> {}, found |-> found, answered |-> list.answered]
        BY <2>2, <3>1 DEF Entry, TypeOK, found
      <4> QED BY <2>2, <2>0, <3>1, <4>1 DEF found
    <3>2. CASE list.todo # {n}
      <4>1. list' = [at |-> "local", todo |-> list.todo \ {n}, found |-> found,
                     answered |-> list.answered]
        BY <2>2, <3>2 DEF Entry, TypeOK, found
      <4> QED BY <2>2, <2>0, <4>1 DEF found
    <3> QED BY <3>1, <3>2
  <2> QED BY <2>1, <2>2 DEF found
<1>9. Source \subseteq InUse
  BY DEF Source, InUse
<1>3. TypeOK'
  BY <1>1, <1>2 DEF TypeOK
<1>4. list.answered => \A m \in stayed : Listed(m)'
  <2> SUFFICES ASSUME list.answered, NEW m \in stayed PROVE Listed(m)'
    OBVIOUS
  <2>1. Listed(m) /\ m \in whole \cup Cached /\ whole \subseteq stored /\ m \in Names
    BY DEF ListMatch, TypeOK
  <2>2. CASE m \in list'.found
    BY <2>2 DEF Listed
  <2>3. CASE m \notin list'.found
    <3>1. m \notin list.found /\ (m = n => m \notin Source)
      BY <1>2, <2>3
    <3>2. CASE list.at = "s3"
      <4>1. m = n => m \notin whole
        BY <2>1, <3>1, <3>2 DEF Source
      <4> QED BY <1>1, <1>2, <2>1, <3>1, <3>2, <4>1 DEF Listed, Entry
    <3>3. CASE list.at = "local"
      <4>1. m # n /\ m \in list.todo \ whole
        BY <2>1, <3>1, <3>3 DEF Source, Listed
      <4>2. list'.at = "local" /\ list'.todo = list.todo \ {n}
        BY <3>3, <4>1 DEF Entry, TypeOK
      <4> QED BY <1>1, <4>1, <4>2 DEF Listed
    <3> QED BY <3>2, <3>3
  <2> QED BY <2>2, <2>3
<1>5. ListMatch'
  BY <1>1, <1>2, <1>4, <1>9 DEF ListMatch
<1>6. \A m \in whole :
         m \in list.found \/ (list.at = "s3" /\ m \in list.todo)
         => m \in list'.found \/ (list'.at = "s3" /\ m \in list'.todo)
  BY <1>2 DEF Source, TypeOK
<1>7. AllocMatch'
  BY <1>1, <1>2, <1>6 DEF AllocMatch
<1> QED BY <1>3, <1>5, <1>7

LEMMA ListInv ==
    ASSUME VolumesInv,
           \/ ListObject \/ ListFails \/ ListAnswer
           \/ \E a \in {"idle", "list"} : ListBegin(a)
           \/ \E n \in Names : ListFile(n)
    PROVE  VolumesInv'
<1> USE DEF VolumesInv
<1> DEFINE Files == /\ UNCHANGED <<stored, cache, put, deleting>>
                    /\ InUse' = InUse /\ Cached' = Cached
<1>1. CASE ListObject
  <2>1. Min(list.todo) \in Names /\ list.at = "s3" /\ Entry(Min(list.todo), "local", Names)
    BY <1>1 DEF ListObject, Entry, TypeOK
  <2> QED BY <2>1, EntryInv
<1>2. ASSUME NEW n \in Names, ListFile(n) PROVE VolumesInv'
  BY <1>2, EntryInv DEF ListFile
<1>3. CASE ListFails
  <2>1. Files /\ UNCHANGED <<alloc, whole, stayed, seen, quiet>>
    BY <1>3 DEF ListFails, filesVars, ghosts, InUse, Cached
  <2>2. TypeOK'
    BY <1>3, <2>1 DEF ListFails, TypeOK
  <2>3. ListMatch' /\ AllocMatch'
    BY <1>3, <2>1 DEF ListFails, ListMatch, AllocMatch, TypeOK
  <2> QED BY <2>2, <2>3
<1>4. CASE ListAnswer
  <2>1. Files /\ UNCHANGED <<alloc, quiet>>
    BY <1>4 DEF ListAnswer, filesVars, InUse, Cached
  <2>2. TypeOK'
    BY <1>4, <2>1 DEF ListAnswer, TypeOK, NoList
  <2>3. ListMatch' /\ AllocMatch'
    BY <1>4, <2>1 DEF ListAnswer, ListMatch, AllocMatch, TypeOK, NoList
  <2> QED BY <2>2, <2>3
<1>5. ASSUME NEW a \in {"idle", "list"}, ListBegin(a) PROVE VolumesInv'
  <2>1. Files /\ UNCHANGED quiet
    BY <1>5 DEF ListBegin, filesVars, InUse, Cached
  <2>2. /\ list' = [at |-> "s3", todo |-> Names, found |-> {}, answered |-> TRUE]
        /\ alloc' = [at |-> a, name |-> alloc.name]
    BY <1>5 DEF ListBegin, NoList, TypeOK
  <2>3. InUse \subseteq Names /\ stored \subseteq Names /\ InUse = stored \cup Cached
    BY DEF TypeOK, InUse, Cached
  <2>4. /\ list.at = "idle" /\ alloc.at = "idle"
        /\ whole' = stored /\ stayed' = InUse /\ seen' = InUse
    BY <1>5 DEF ListBegin
  <2>5. TypeOK'
    BY <2>1, <2>2, <2>3, <2>4 DEF TypeOK
  <2>6. \A n \in Names : Listed(n)'
    BY <2>2 DEF Listed
  <2>7. ListMatch' /\ AllocMatch'
    BY <2>1, <2>2, <2>3, <2>4, <2>6 DEF ListMatch, AllocMatch
  <2> QED BY <2>5, <2>7
<1> QED BY <1>1, <1>2, <1>3, <1>4, <1>5

-----------------------------------------------------------------------------
(* The steps of alloc_image. *)

LEMMA AllocInv ==
    ASSUME VolumesInv, AllocName \/ AllocCheck \/ AllocCreate
    PROVE  VolumesInv'
<1> USE DEF VolumesInv
<1>1. CASE AllocName
  <2> DEFINE free == Names \ list.found
  <2>1. /\ UNCHANGED <<stored, cache, put, deleting>>
        /\ InUse' = InUse /\ Cached' = Cached
        /\ list' = NoList /\ stayed' = {} /\ seen' = {} /\ list.at = "done" /\ alloc.at = "list"
    BY <1>1 DEF AllocName, filesVars, InUse, Cached
  <2>2. free # {} => Min(free) \in free
    BY NamesNat, MinInSet
  <2>3. \/ alloc' = NoAlloc /\ whole' = {} /\ quiet' = TRUE
        \/ /\ free # {} /\ alloc' = [at |-> "check", name |-> Min(free)]
           /\ whole' = whole /\ quiet' = (quiet /\ list.answered)
    BY <1>1 DEF AllocName
  <2> HIDE DEF free
  <2>4. CASE alloc' = NoAlloc /\ whole' = {} /\ quiet' = TRUE
    BY <2>1, <2>4 DEF TypeOK, ListMatch, AllocMatch, NoAlloc, NoList, InUse
  <2>5. CASE /\ free # {} /\ alloc' = [at |-> "check", name |-> Min(free)]
             /\ whole' = whole /\ quiet' = (quiet /\ list.answered)
    <3>1. alloc'.at = "check" /\ alloc'.name \in Names \ list.found /\ alloc'.name \in Nat
          /\ alloc' \in [at: {"idle", "list", "check", "create"}, name: Nat]
      BY <2>2, <2>5, NamesNat DEF free
    <3>2. TypeOK'
      BY <2>1, <2>5, <3>1 DEF TypeOK, NoList
    <3>3. ListMatch'
      BY <2>1 DEF ListMatch, NoList
    <3>4. AllocMatch'
      BY <2>1, <2>5, <3>1 DEF AllocMatch, NoList
    <3> QED BY <3>2, <3>3, <3>4
  <2> QED BY <2>3, <2>4, <2>5
<1>2. CASE AllocCheck
  <2>1. /\ UNCHANGED <<stored, cache, put, deleting, list, stayed, seen>>
        /\ InUse' = InUse /\ Cached' = Cached
        /\ alloc.at = "check" /\ list.at = "idle" /\ stayed = {}
    BY <1>2 DEF AllocCheck, AllocMatch, ListMatch, filesVars, InUse, Cached
  <2>2. \/ alloc' = NoAlloc /\ whole' = {} /\ quiet' = TRUE
        \/ alloc' = [at |-> "check", name |-> alloc.name + 1] /\ quiet' = FALSE /\ whole' = whole
        \/ /\ alloc.name \in Names \ Cached /\ alloc' = [at |-> "create", name |-> alloc.name]
           /\ quiet' = quiet /\ whole' = whole
    BY <1>2, NameAssumption DEF AllocCheck, Taken, TypeOK, Names
  <2>3. TypeOK'
    <3>1. alloc.name \in Nat /\ alloc.name + 1 \in Nat
      BY DEF TypeOK
    <3>2. alloc' \in [at: {"idle", "list", "check", "create"}, name: Nat]
      BY <2>2, <3>1 DEF NoAlloc
    <3>3. whole' \subseteq stored /\ quiet' \in BOOLEAN
      BY <2>2 DEF TypeOK
    <3> QED BY <2>1, <3>2, <3>3 DEF TypeOK
  <2>4. ListMatch'
    BY <2>1 DEF ListMatch
  <2>5. AllocMatch'
    BY <2>1, <2>2 DEF AllocMatch, NoAlloc
  <2> QED BY <2>3, <2>4, <2>5
<1>3. CASE AllocCreate
  <2>1. /\ UNCHANGED <<stored, deleting, list, stayed, seen>>
        /\ alloc.name \in Names /\ list.at = "idle" /\ stayed = {} /\ alloc' = NoAlloc
        /\ whole' = {} /\ quiet' = TRUE
    BY <1>3 DEF AllocCreate, AllocMatch, ListMatch
  <2>2. TypeOK'
    BY <1>3, <2>1 DEF AllocCreate, TypeOK, NoAlloc
  <2>3. ListMatch' /\ AllocMatch'
    BY <2>1 DEF ListMatch, AllocMatch, NoAlloc, NoList
  <2> QED BY <2>2, <2>3
<1> QED BY <1>1, <1>2, <1>3

-----------------------------------------------------------------------------
LEMMA NextInv == VolumesInv /\ [Next]_vars => VolumesInv'
<1> SUFFICES ASSUME VolumesInv, [Next]_vars PROVE VolumesInv'
  OBVIOUS
<1>1. ASSUME NEW n \in Names, FileStep(n) PROVE VolumesInv'
  BY <1>1, FileInv
<1>2. CASE \/ ListObject \/ ListFails \/ ListAnswer
           \/ \E a \in {"idle", "list"} : ListBegin(a)
           \/ \E n \in Names : ListFile(n)
  BY <1>2, ListInv
<1>3. CASE AllocName \/ AllocCheck \/ AllocCreate
  BY <1>3, AllocInv
<1>4. CASE UNCHANGED vars
  BY <1>4 DEF vars, ghosts, VolumesInv, TypeOK, ListMatch, AllocMatch, Listed, InUse, Cached
<1> QED BY <1>1, <1>2, <1>3, <1>4 DEF Next, FileStep

LEMMA VolumesInvariant == Spec => []VolumesInv
BY InitInv, NextInv, PTL DEF Spec

\* The volumes keep their types (handleList, alloc_image and what changes files and objects
\* meanwhile).
THEOREM TypeCorrect == Spec => []TypeOK
<1>1. VolumesInv => TypeOK
  BY DEF VolumesInv
<1> QED BY <1>1, VolumesInvariant, PTL

\* handleList and mergeLocalFiles: a list the bucket answered misses no volume that was
\* there all the time it was made, but for one first stored and then evicted during it,
\* and no list invents one.
THEOREM ListsWhatStayed == Spec => []ListIsBetween
<1>1. VolumesInv => ListIsBetween
  BY DEF VolumesInv, ListMatch, ListIsBetween, Listed
<1> QED BY <1>1, VolumesInvariant, PTL

\* find_free_diskname and the loop over -e: an allocation that nothing misleads creates no
\* disk under a name in use, though volumes come, go and move between its steps.
THEOREM AllocatesFree == Spec => AllocIsFree
<1>1. VolumesInv /\ [Next]_vars => [AllocCreate /\ quiet => alloc.name \notin InUse]_vars
  BY DEF VolumesInv, AllocMatch, AllocCreate, InUse
<1> QED BY <1>1, VolumesInvariant, PTL DEF Spec, AllocIsFree
=============================================================================
