---------------------------- MODULE ObjectAccess ----------------------------
(***************************************************************************)
(* What blockUploads promises, without goroutines, maps and channels: the  *)
(* daemon changes an S3 object in a turn of an upload or in a turn of the  *)
(* deletes that hold uploads back, the two kinds of turn exclude each      *)
(* other, and a delete leaves the object absent.                           *)
(***************************************************************************)
CONSTANTS Objects, Contents, NoContent

VARIABLES
    store,      \* [Objects -> Contents]
    uploading,  \* objects whose upload is registered
    held        \* objects of which deletes hold uploads back

vars == <<store, uploading, held>>

TypeOK ==
    /\ store \in [Objects -> Contents]
    /\ uploading \subseteq Objects
    /\ held \subseteq Objects

Init ==
    /\ store \in [Objects -> Contents]
    /\ uploading = {} /\ held = {}

BeginUpload(o) ==
    /\ o \notin uploading \cup held
    /\ uploading' = uploading \cup {o}
    /\ UNCHANGED <<store, held>>

\* A PutObject takes effect, possibly one reported as failed.
Put(o) ==
    /\ o \in uploading
    /\ \E c \in Contents : store' = [store EXCEPT ![o] = c]
    /\ UNCHANGED <<uploading, held>>

\* The upload ends; deletes that waited for it hold the object from here.
EndUpload(o) ==
    /\ o \in uploading
    /\ uploading' = uploading \ {o}
    /\ held' \in {held, held \cup {o}}
    /\ UNCHANGED store

BeginHold(o) ==
    /\ o \notin uploading
    /\ held' = held \cup {o}
    /\ UNCHANGED <<store, uploading>>

Delete(o) ==
    /\ o \in held
    /\ store' = [store EXCEPT ![o] = NoContent]
    /\ UNCHANGED <<uploading, held>>

EndHold(o) ==
    /\ held' = held \ {o}
    /\ UNCHANGED <<store, uploading>>

\* The process dies: an upload in progress has stored something or has not.
Die ==
    /\ uploading' = {} /\ held' = {}
    /\ store' \in [Objects -> Contents]
    /\ \A o \in Objects \ uploading : store'[o] = store[o]

Next ==
    \/ \E o \in Objects : \/ BeginUpload(o) \/ Put(o) \/ EndUpload(o)
                          \/ BeginHold(o) \/ Delete(o) \/ EndHold(o)
    \/ Die

Spec == Init /\ [][Next]_vars
=============================================================================
