---------------------------- MODULE DaemonProofs ----------------------------
(***************************************************************************)
(* The daemon process keeps its types and its two program counters in      *)
(* step, it exits with success only when its requests are drained, and it  *)
(* comes to rest with the configuration that was announced.                *)
(***************************************************************************)
EXTENDS Daemon, TLAPS

\* The signal goroutine against main: it is main itself while the process boots, and
\* gone with the process; it says "drained" only when no request is left.
CountersMatch ==
    /\ phase = "boot" => hpc \in {"load", "keys"}
    /\ ~Running => hpc = "idle" /\ sig = "none"
    /\ hpc = "drained" => busy = {}

DaemonInv == TypeOK /\ CountersMatch

USE NoneAssumption, SpawnAssumption

-----------------------------------------------------------------------------
LEMMA ConstantsTyped ==
    /\ NoClient \in Configs /\ Known(NoClient) = {}
    /\ NoCheck \in [at: {"off", "begin", "probe"}, todo: SUBSET Storages, up: SUBSET Storages]
    /\ "loop" \in Checks /\ \A c \in Spawned : c \in Checks /\ c # "loop"
BY DEF NoClient, Configs, Known, NoCheck, Checks

LEMMA InitInv == Init => DaemonInv
<1> SUFFICES ASSUME Init PROVE DaemonInv
  OBVIOUS
<1> USE ConstantsTyped DEF Init
<1>1. TypeOK
  BY DEF TypeOK, NoCheck
<1>2. CountersMatch
  BY DEF CountersMatch, Running
<1> QED BY <1>1, <1>2 DEF DaemonInv

\* Whatever the process was doing, nothing of it is left.
LEMMA DieInv ==
    ASSUME DaemonInv, NEW p \in {"stopped", "failed"}, Die(p),
           UNCHANGED <<filesVars, reachable>>, due' \in BOOLEAN
    PROVE  DaemonInv'
<1> USE ConstantsTyped DEF DaemonInv, Die, filesVars
<1>1. TypeOK'
  <2>1. check' \in [Checks -> [at: {"off", "begin", "probe"}, todo: SUBSET Storages,
                              up: SUBSET Storages]] /\ check'["loop"].at = "off"
    BY DEF NoCheck
  <2>2. todo' \subseteq Known(new)'
    OBVIOUS
  <2> QED BY <2>1, <2>2 DEF TypeOK
<1>2. CountersMatch'
  BY DEF CountersMatch, Running
<1> QED BY <1>1, <1>2

-----------------------------------------------------------------------------
(* The actions, by what they change. *)

LEMMA ClusterInv ==
    ASSUME DaemonInv, NEW s \in Storages,
           \/ AddStorage(s) \/ Outage(s) \/ Activate(s)
           \/ \E here \in BOOLEAN : UpdateStorage(s, here) \/ RemoveStorage(s, here)
    PROVE  DaemonInv'
<1> USE DEF DaemonInv
<1>1. UNCHANGED <<phase, sig, hpc, loadVars, clients, health, check, busy>>
  BY DEF AddStorage, Outage, Activate, UpdateStorage, RemoveStorage, Changed
<1>2. /\ section' \in [Storages -> Editions \cup {None}]
      /\ secret' \in [Storages -> Secrets \cup {None}]
      /\ reachable' \subseteq Storages /\ due' \in BOOLEAN /\ announced' \in BOOLEAN
  <2> USE DEF TypeOK, filesVars
  <2>1. CASE AddStorage(s)
    <3>1. PICK e \in Editions : section' = [section EXCEPT ![s] = e]
      BY <2>1 DEF AddStorage
    <3>2. PICK x \in Secrets \cup {None} : secret' = [secret EXCEPT ![s] = x]
      BY <2>1 DEF AddStorage
    <3>3. section' \in [Storages -> Editions \cup {None}]
      BY <3>1
    <3>4. secret' \in [Storages -> Secrets \cup {None}]
      BY <3>2
    <3> QED BY <2>1, <3>3, <3>4 DEF AddStorage, Changed
  <2>2. CASE Outage(s) \/ Activate(s)
    BY <2>2 DEF Outage, Activate
  <2>3. ASSUME NEW here \in BOOLEAN, UpdateStorage(s, here) PROVE <1>2
    <3>1. CASE UNCHANGED secret /\ \E e \in Editions : section' = [section EXCEPT ![s] = e]
      <4>1. PICK e \in Editions : section' = [section EXCEPT ![s] = e]
        BY <3>1
      <4>2. section' \in [Storages -> Editions \cup {None}]
        BY <4>1
      <4> QED BY <2>3, <3>1, <4>2 DEF UpdateStorage, Changed
    <3>2. CASE UNCHANGED section /\ \E x \in Secrets : secret' = [secret EXCEPT ![s] = x]
      <4>1. PICK x \in Secrets : secret' = [secret EXCEPT ![s] = x]
        BY <3>2
      <4>2. secret' \in [Storages -> Secrets \cup {None}]
        BY <4>1
      <4> QED BY <2>3, <3>2, <4>2 DEF UpdateStorage, Changed
    <3> QED BY <2>3, <3>1, <3>2 DEF UpdateStorage
  <2>4. ASSUME NEW here \in BOOLEAN, RemoveStorage(s, here) PROVE <1>2
    BY <2>4 DEF RemoveStorage, Changed
  <2> QED BY <2>1, <2>2, <2>3, <2>4
<1>3. TypeOK'
  BY <1>1, <1>2 DEF TypeOK, loadVars, Known
<1>4. CountersMatch'
  BY <1>1 DEF CountersMatch, Running
<1> QED BY <1>3, <1>4

LEMMA DeliverInv ==
    ASSUME DaemonInv, NEW g \in {"hup", "term"}, Running, Deliver(g),
           UNCHANGED <<filesVars, reachable>>, due' \in BOOLEAN
    PROVE  DaemonInv'
<1>1. CASE phase = "boot"
  BY <1>1, DieInv DEF Deliver
<1>2. CASE phase # "boot"
  <2>1. /\ UNCHANGED <<phase, hpc, loadVars, clients, health, check, busy>>
        /\ sig' \in {"none", "hup", "term"} /\ announced' \in BOOLEAN
    BY <1>2 DEF Deliver, Queue, DaemonInv, TypeOK
  <2>2. TypeOK'
    BY <2>1 DEF DaemonInv, TypeOK, loadVars, filesVars, Known
  <2>3. CountersMatch'
    BY <2>1 DEF DaemonInv, CountersMatch, Running
  <2> QED BY <2>2, <2>3 DEF DaemonInv
<1> QED BY <1>1, <1>2

LEMMA SignalInv == DaemonInv /\ (SendHup \/ SendTerm) => DaemonInv'
<1> SUFFICES ASSUME DaemonInv, SendHup \/ SendTerm PROVE DaemonInv'
  OBVIOUS
<1>1. CASE SendHup
  <2>1. CASE Running
    BY <1>1, <2>1, DeliverInv DEF SendHup
  <2>2. CASE ~Running
    <3>1. UNCHANGED <<filesVars, reachable, phase, sig, hpc, loadVars, clients, health, check,
                      busy, announced>> /\ due' = FALSE
      BY <1>1, <2>2 DEF SendHup
    <3> QED BY <3>1 DEF DaemonInv, TypeOK, CountersMatch, Running, filesVars, loadVars, Known
  <2> QED BY <2>1, <2>2
<1>2. CASE SendTerm
  <2>1. due' \in BOOLEAN
    BY <1>2 DEF SendTerm, DaemonInv, TypeOK
  <2> QED BY <1>2, <2>1, DeliverInv DEF SendTerm
<1> QED BY <1>1, <1>2

LEMMA LoadInv ==
    ASSUME DaemonInv,
           LoadFails \/ ParseStorageCfg \/ \E s \in Storages : LoadCredential(s)
    PROVE  DaemonInv'
<1> USE DEF DaemonInv
<1>1. CASE LoadFails
  <2>1. CASE phase = "boot"
    <3>1. due' \in BOOLEAN
      BY <1>1 DEF LoadFails, TypeOK
    <3> QED BY <1>1, <2>1, <3>1, DieInv DEF LoadFails
  <2>2. CASE phase # "boot"
    BY <1>1, <2>2 DEF LoadFails, TypeOK, CountersMatch, Running, filesVars, loadVars, Known
  <2> QED BY <2>1, <2>2
<1>2. CASE ParseStorageCfg
  <2>1. new' \in Configs
    BY <1>2 DEF ParseStorageCfg, Configs, TypeOK
  <2>2. TypeOK'
    BY <1>2, <2>1 DEF ParseStorageCfg, TypeOK, filesVars
  <2>3. CountersMatch'
    BY <1>2 DEF ParseStorageCfg, CountersMatch, Running
  <2> QED BY <2>2, <2>3
<1>3. ASSUME NEW s \in Storages, LoadCredential(s) PROVE DaemonInv'
  <2>1. new \in Configs /\ todo \subseteq Known(new) /\ new[s] # None
        /\ new[s] \in [section: Editions, secret: Secrets \cup {None}]
    BY <1>3 DEF LoadCredential, TypeOK, Known, Configs
  <2>2. new' \in Configs /\ Known(new') = Known(new)
    <3>1. CASE UNCHANGED new
      BY <2>1, <3>1
    <3>2. CASE new' = [new EXCEPT ![s].secret = secret[s]]
      <4> DEFINE r == [new[s] EXCEPT !.secret = secret[s]]
      <4>1. secret[s] \in Secrets \cup {None}
        BY DEF TypeOK
      <4>2. r \in [section: Editions, secret: Secrets \cup {None}]
        BY <2>1, <4>1
      <4>3. r # None
        BY <4>2
      <4>4. new' = [new EXCEPT ![s] = r]
        BY <3>2
      <4> HIDE DEF r
      <4>5. new' \in Configs
        BY <2>1, <4>2, <4>4 DEF Configs
      <4>6. \A t \in Storages : new'[t] # None <=> new[t] # None
        BY <2>1, <4>3, <4>4 DEF Configs
      <4> QED BY <4>5, <4>6 DEF Known
    <3> QED BY <1>3, <3>1, <3>2 DEF LoadCredential
  <2>3. TypeOK'
    BY <1>3, <2>1, <2>2 DEF LoadCredential, TypeOK, filesVars
  <2>4. CountersMatch'
    BY <1>3 DEF LoadCredential, CountersMatch, Running
  <2> QED BY <2>3, <2>4
<1> QED BY <1>1, <1>2, <1>3

LEMMA HandlerInv ==
    ASSUME DaemonInv, TakeHup \/ InstallClients \/ InstallHealth \/ TakeTerm \/ Drained
    PROVE  DaemonInv'
<1> USE DEF DaemonInv
<1>1. CASE TakeHup
  BY <1>1 DEF TakeHup, TypeOK, CountersMatch, Running, filesVars, loadVars, Known
<1>2. CASE InstallClients
  <2>1. TypeOK'
    BY <1>2, ConstantsTyped DEF InstallClients, TypeOK, filesVars
  <2>2. CountersMatch'
    BY <1>2 DEF InstallClients, CountersMatch, Running
  <2> QED BY <2>1, <2>2
<1>3. CASE InstallHealth
  <2>1. PICK c \in Spawned : check' = [check EXCEPT ![c].at = "begin"]
    BY <1>3 DEF InstallHealth
  <2>2. check' \in [Checks -> [at: {"off", "begin", "probe"}, todo: SUBSET Storages,
                              up: SUBSET Storages]]
        /\ check'["loop"].at = check["loop"].at
    BY <2>1, ConstantsTyped DEF TypeOK
  <2>3. TypeOK'
    BY <1>3, <2>2 DEF InstallHealth, TypeOK, filesVars, loadVars, Known
  <2>4. CountersMatch'
    BY <1>3 DEF InstallHealth, CountersMatch, Running
  <2> QED BY <2>3, <2>4
<1>4. CASE TakeTerm
  <2>1. CASE phase = "start"
    <3>1. due' \in BOOLEAN
      BY <1>4 DEF TakeTerm, TypeOK
    <3> QED BY <1>4, <2>1, <3>1, DieInv DEF TakeTerm
  <2>2. CASE phase # "start"
    <3>1. phase = "serve"
      BY <1>4, <2>2 DEF TakeTerm, TypeOK, CountersMatch, Running
    <3>2. TypeOK'
      BY <1>4, <2>2, <3>1 DEF TakeTerm, TypeOK, filesVars, loadVars, Known
    <3>3. CountersMatch'
      BY <1>4, <2>2 DEF TakeTerm, CountersMatch, Running
    <3> QED BY <3>2, <3>3
  <2> QED BY <2>1, <2>2
<1>5. CASE Drained
  <2>1. phase = "closing"
    BY <1>5 DEF Drained, TypeOK
  <2> QED BY <1>5, <2>1 DEF Drained, TypeOK, CountersMatch, Running, filesVars, loadVars, Known
<1> QED BY <1>1, <1>2, <1>3, <1>4, <1>5

LEMMA MainInv ==
    ASSUME DaemonInv, Boot \/ NewServer \/ Serve \/ ServeFails \/ Exit \/ Crash
    PROVE  DaemonInv'
<1> USE DEF DaemonInv
<1>0. due \in BOOLEAN
  BY DEF TypeOK
<1>1. CASE Boot
  BY <1>1 DEF Boot, TypeOK, CountersMatch, Running, filesVars, loadVars, Known
<1>2. CASE NewServer
  <2>1. TypeOK'
    BY <1>2, ConstantsTyped DEF NewServer, TypeOK, filesVars
  <2>2. CountersMatch'
    BY <1>2 DEF NewServer, CountersMatch, Running
  <2> QED BY <2>1, <2>2
<1>3. CASE Serve
  <2>1. check' \in [Checks -> [at: {"off", "begin", "probe"}, todo: SUBSET Storages,
                              up: SUBSET Storages]] /\ check'["loop"].at = "begin"
    BY <1>3, ConstantsTyped DEF Serve, TypeOK
  <2>2. TypeOK'
    BY <1>3, <2>1 DEF Serve, TypeOK, filesVars, loadVars, Known
  <2>3. CountersMatch'
    BY <1>3 DEF Serve, CountersMatch, Running
  <2> QED BY <2>2, <2>3
<1>4. CASE ServeFails
  BY <1>0, <1>4, DieInv DEF ServeFails
<1>5. CASE Exit
  BY <1>0, <1>5, DieInv DEF Exit
<1>6. CASE Crash
  BY <1>0, <1>6, DieInv DEF Crash
<1> QED BY <1>1, <1>2, <1>3, <1>4, <1>5, <1>6

LEMMA CheckInv ==
    ASSUME DaemonInv, NEW c \in Checks, Check(c)
    PROVE  DaemonInv'
<1> USE DEF DaemonInv
<1>1. UNCHANGED <<filesVars, reachable, due, phase, sig, hpc, loadVars, clients, busy, announced>>
  BY DEF Check, CheckBegin, CheckStore, Probe
<1>2. health' \subseteq Storages
      /\ check' \in [Checks -> [at: {"off", "begin", "probe"}, todo: SUBSET Storages,
                               up: SUBSET Storages]]
      /\ (check'["loop"].at # "off" <=> check["loop"].at # "off")
  <2>1. CASE CheckBegin(c)
    BY <2>1, ConstantsTyped DEF CheckBegin, Results, Known, TypeOK
  <2>2. CASE CheckStore(c)
    BY <2>2, ConstantsTyped DEF CheckStore, After, NoCheck, TypeOK
  <2>3. ASSUME NEW s \in Storages, Probe(c, s) PROVE <1>2
    BY <2>3, ConstantsTyped DEF Probe, TypeOK
  <2> QED BY <2>1, <2>2, <2>3 DEF Check
<1>3. TypeOK'
  BY <1>1, <1>2 DEF TypeOK, filesVars, loadVars, Known
<1>4. CountersMatch'
  BY <1>1 DEF CountersMatch, Running
<1> QED BY <1>3, <1>4

LEMMA RequestInv ==
    ASSUME DaemonInv, NEW r \in Requests, RequestBegin(r) \/ RequestEnd(r)
    PROVE  DaemonInv'
<1> USE DEF DaemonInv
<1>1. UNCHANGED <<filesVars, reachable, due, phase, sig, hpc, loadVars, clients, health, check,
                  announced>> /\ busy' \subseteq Requests
  BY DEF RequestBegin, RequestEnd, TypeOK
<1>2. TypeOK'
  BY <1>1 DEF TypeOK, filesVars, loadVars, Known
<1>3. CountersMatch'
  BY <1>1 DEF CountersMatch, Running, RequestBegin, RequestEnd, TypeOK
<1> QED BY <1>2, <1>3

-----------------------------------------------------------------------------
LEMMA NextInv == DaemonInv /\ [Next]_vars => DaemonInv'
<1> SUFFICES ASSUME DaemonInv, [Next]_vars PROVE DaemonInv'
  OBVIOUS
<1>1. ASSUME NEW s \in Storages,
             \/ AddStorage(s) \/ Outage(s) \/ Activate(s)
             \/ \E here \in BOOLEAN : UpdateStorage(s, here) \/ RemoveStorage(s, here)
      PROVE DaemonInv'
  BY <1>1, ClusterInv
<1>2. CASE SendHup \/ SendTerm
  BY <1>2, SignalInv
<1>3. CASE LoadFails \/ ParseStorageCfg \/ \E s \in Storages : LoadCredential(s)
  BY <1>3, LoadInv
<1>4. CASE TakeHup \/ InstallClients \/ InstallHealth \/ TakeTerm \/ Drained
  BY <1>4, HandlerInv
<1>5. CASE Boot \/ NewServer \/ Serve \/ ServeFails \/ Exit \/ Crash
  BY <1>5, MainInv
<1>6. ASSUME NEW c \in Checks, Check(c) PROVE DaemonInv'
  BY <1>6, CheckInv
<1>7. ASSUME NEW r \in Requests, RequestBegin(r) \/ RequestEnd(r) PROVE DaemonInv'
  BY <1>7, RequestInv
<1>8. CASE UNCHANGED vars
  BY <1>8 DEF vars, filesVars, loadVars, DaemonInv, TypeOK, CountersMatch, Running, Known
<1> QED BY <1>1, <1>2, <1>3, <1>4, <1>5, <1>6, <1>7, <1>8 DEF Next, Handler

LEMMA DaemonInvariant == Spec => []DaemonInv
BY InitInv, NextInv, PTL DEF Spec

\* The process, its signal goroutine, its clients and its health checks keep their types:
\* main.go, Reload and checkAllHealth, for every number of storages, overlapping checks
\* and requests.
THEOREM TypeCorrect == Spec => []TypeOK
<1>1. DaemonInv => TypeOK
  BY DEF DaemonInv
<1> QED BY <1>1, DaemonInvariant, PTL

\* main.go:102: whatever signals, reloads and requests overlap, the process exits with
\* success only when no request is in progress or Shutdown has given up waiting.
THEOREM ExitsDrained == Spec => DrainedAtExit
<1>1. DaemonInv /\ [Next]_vars =>
        [phase = "closing" /\ phase' = "stopped" => busy = {} \/ hpc = "late"]_vars
  <2> SUFFICES ASSUME DaemonInv, Next, phase = "closing", phase' = "stopped"
               PROVE  busy = {} \/ hpc = "late"
    OBVIOUS
  <2>1. Exit
    BY DEF Next, Handler, Check, AddStorage, Outage, Activate, UpdateStorage, RemoveStorage,
           Changed, SendHup, SendTerm, Deliver, LoadFails, Die, ParseStorageCfg,
           LoadCredential, TakeHup, InstallClients, InstallHealth, TakeTerm, Drained, Boot,
           NewServer, Serve, ServeFails, Crash, CheckBegin, Probe, CheckStore,
           RequestBegin, RequestEnd
  <2>2. hpc \in {"drained", "late"}
    BY <2>1 DEF Exit, Stopped
  <2> QED BY <2>2 DEF DaemonInv, CountersMatch
<1> QED BY <1>1, DaemonInvariant, PTL DEF Spec, DrainedAtExit

-----------------------------------------------------------------------------
(* No announced change is missed. *)

\* What a reload has read is what the files say; credentials in todo are still to come.
ReadSoFar ==
    \A s \in Storages :
        new[s] = IF section[s] = None THEN None
                 ELSE [section |-> section[s],
                       secret |-> IF s \in todo THEN None ELSE secret[s]]

\* A change that was announced is on its way: its signal or another one waits, or the
\* reload that reads it is under way, or its clients are there; or the daemon stops.
OnItsWay ==
    \/ sig # "none" \/ phase = "closing"
    \/ hpc = "load"
    \/ hpc = "keys" /\ ReadSoFar
    \/ hpc \in {"health", "idle"} /\ Current

AnnouncedMatch == announced => phase \in {"start", "serve", "closing"} /\ OnItsWay

\* A process that dies leaves nothing announced.
LEMMA DeadUnannounced == ASSUME NEW p, Die(p) PROVE AnnouncedMatch'
BY DEF Die, AnnouncedMatch

\* What depends on neither the files nor the signal goroutine keeps it.
LEMMA AnnouncedKept ==
    ASSUME AnnouncedMatch, UNCHANGED <<filesVars, sig, hpc, new, todo, clients, announced>>,
           phase' = phase \/ (phase = "start" /\ phase' = "serve")
    PROVE  AnnouncedMatch'
BY DEF AnnouncedMatch, OnItsWay, ReadSoFar, Current, filesVars

\* Signals, and what the signal goroutine does with them.
LEMMA AnnouncedSignal ==
    ASSUME DaemonInv, AnnouncedMatch, SendHup \/ SendTerm \/ TakeHup \/ TakeTerm \/ Drained
    PROVE  AnnouncedMatch'
<1>1. ASSUME NEW g \in {"hup", "term"}, Running, Deliver(g), UNCHANGED filesVars
      PROVE  AnnouncedMatch'
  <2>1. CASE phase = "boot"
    BY <1>1, <2>1, DeadUnannounced DEF Deliver
  <2>2. CASE phase # "boot"
    <3>1. sig' # "none" /\ phase' = phase
      BY <1>1, <2>2 DEF Deliver, Queue
    <3>2. phase \in {"start", "serve", "closing"}
      BY <1>1, <2>2 DEF Running, DaemonInv, TypeOK
    <3> QED BY <3>1, <3>2 DEF AnnouncedMatch, OnItsWay
  <2> QED BY <2>1, <2>2
<1>2. CASE SendHup /\ Running
  BY <1>1, <1>2 DEF SendHup
<1>3. CASE SendHup /\ ~Running
  BY <1>3, AnnouncedKept DEF SendHup, loadVars
<1>4. CASE SendTerm
  BY <1>1, <1>4 DEF SendTerm
<1>5. CASE TakeHup
  BY <1>5 DEF TakeHup, AnnouncedMatch, OnItsWay
<1>6. CASE TakeTerm
  BY <1>6, DeadUnannounced DEF TakeTerm, AnnouncedMatch, OnItsWay
<1>7. CASE Drained
  <2>1. phase' = "closing"
    BY <1>7 DEF Drained, DaemonInv, TypeOK
  <2> QED BY <2>1 DEF AnnouncedMatch, OnItsWay
<1> QED BY <1>2, <1>3, <1>4, <1>5, <1>6, <1>7

\* The reload: what it parses, the credentials it reads, the clients it installs.
LEMMA AnnouncedReload ==
    ASSUME DaemonInv, AnnouncedMatch,
           \/ LoadFails \/ ParseStorageCfg \/ InstallClients \/ InstallHealth
           \/ \E s \in Storages : LoadCredential(s)
    PROVE  AnnouncedMatch'
<1>0. TypeOK
  BY DEF DaemonInv
<1>1. CASE LoadFails
  BY <1>1, DeadUnannounced DEF LoadFails, AnnouncedMatch
<1>2. CASE ParseStorageCfg
  <2>1. ReadSoFar'
    <3>1. \A s \in Storages : [section |-> section[s], secret |-> None] # None \/ section[s] = None
      BY <1>0 DEF TypeOK
    <3>2. /\ new' = [s \in Storages |-> IF section[s] = None THEN None
                                        ELSE [section |-> section[s], secret |-> None]]
          /\ todo' = {s \in Storages : new'[s] # None}
          /\ section' = section /\ secret' = secret
      BY <1>2 DEF ParseStorageCfg, Known, filesVars
    <3>3. \A s \in Storages : section[s] # None => s \in todo'
      BY <3>1, <3>2
    <3> QED BY <3>2, <3>3 DEF ReadSoFar
  <2> QED BY <1>2, <2>1 DEF ParseStorageCfg, AnnouncedMatch, OnItsWay
<1>3. ASSUME NEW s \in Storages, LoadCredential(s) PROVE AnnouncedMatch'
  <2>1. SUFFICES ASSUME announced' PROVE AnnouncedMatch'
    BY DEF AnnouncedMatch
  <2>2. /\ announced /\ hpc = "keys" /\ hpc' = "keys" /\ s \in todo /\ todo' = todo \ {s}
        /\ new' = [new EXCEPT ![s].secret = secret[s]]
        /\ UNCHANGED <<filesVars, phase, sig>>
    BY <1>3, <2>1 DEF LoadCredential
  <2>3. CASE ReadSoFar
    <3>1. new[s] # None /\ new \in [Storages -> [section: Editions, secret: Secrets \cup {None}]
                                                 \cup {None}]
      BY <1>0, <2>2 DEF TypeOK, Known, Configs
    <3>2. section[s] # None /\ new[s] = [section |-> section[s], secret |-> None]
      BY <2>2, <2>3, <3>1 DEF ReadSoFar
    <3>3. new' = [new EXCEPT ![s] = [section |-> section[s], secret |-> secret[s]]]
      <4>1. [new[s] EXCEPT !.secret = secret[s]] = [section |-> section[s], secret |-> secret[s]]
        BY <3>2
      <4>2. new' = [new EXCEPT ![s] = [new[s] EXCEPT !.secret = secret[s]]]
        BY <2>2
      <4> QED BY <4>1, <4>2
    <3>4. ReadSoFar'
      BY <2>2, <2>3, <3>1, <3>2, <3>3 DEF ReadSoFar, filesVars
    <3> QED BY <2>2, <3>4 DEF AnnouncedMatch, OnItsWay
  <2>4. CASE ~ReadSoFar
    BY <2>2, <2>4 DEF AnnouncedMatch, OnItsWay
  <2> QED BY <2>3, <2>4
<1>4. CASE InstallClients
  <2>1. ReadSoFar => Current'
    BY <1>4 DEF InstallClients, ReadSoFar, Current, filesVars
  <2> QED BY <1>4, <2>1 DEF InstallClients, AnnouncedMatch, OnItsWay
<1>5. CASE InstallHealth
  <2>1. Current => Current'
    BY <1>5 DEF InstallHealth, Current, filesVars
  <2> QED BY <1>5, <2>1 DEF InstallHealth, AnnouncedMatch, OnItsWay
<1> QED BY <1>1, <1>2, <1>3, <1>4, <1>5

LEMMA AnnouncedNext == DaemonInv /\ AnnouncedMatch /\ [Next]_vars => AnnouncedMatch'
<1> SUFFICES ASSUME DaemonInv, AnnouncedMatch, [Next]_vars PROVE AnnouncedMatch'
  OBVIOUS
<1>1. ASSUME NEW s \in Storages,
             AddStorage(s) \/ \E here \in BOOLEAN : UpdateStorage(s, here) \/ RemoveStorage(s, here)
      PROVE  AnnouncedMatch'
  BY <1>1 DEF AddStorage, UpdateStorage, RemoveStorage, Changed, AnnouncedMatch
<1>2. ASSUME NEW s \in Storages, Outage(s) \/ Activate(s) PROVE AnnouncedMatch'
  BY <1>2, AnnouncedKept DEF Outage, Activate, loadVars
<1>3. CASE Boot \/ NewServer
  <2>1. ~announced
    BY <1>3 DEF Boot, NewServer, Running, AnnouncedMatch
  <2> QED BY <1>3, <2>1 DEF Boot, NewServer, AnnouncedMatch
<1>4. CASE Serve
  BY <1>4, AnnouncedKept DEF Serve, loadVars
<1>5. CASE ServeFails \/ Exit \/ Crash
  BY <1>5, DeadUnannounced DEF ServeFails, Exit, Crash
<1>6. ASSUME NEW c \in Checks, Check(c) PROVE AnnouncedMatch'
  BY <1>6, AnnouncedKept DEF Check, CheckBegin, CheckStore, Probe, loadVars
<1>7. ASSUME NEW r \in Requests, RequestBegin(r) \/ RequestEnd(r) PROVE AnnouncedMatch'
  BY <1>7, AnnouncedKept DEF RequestBegin, RequestEnd, loadVars
<1>8. CASE UNCHANGED vars
  BY <1>8, AnnouncedKept DEF vars, loadVars
<1> QED BY <1>1, <1>2, <1>3, <1>4, <1>5, <1>6, <1>7, <1>8, AnnouncedSignal, AnnouncedReload
        DEF Next, Handler

\* main.go:77, Reload and _reload_daemon: a SIGHUP that comes while an earlier reload reads
\* the files, or finds another one in the channel, is not missed: for every number of
\* storages and changes, a daemon at rest has the clients that were announced.
THEOREM MissesNothing == Spec => []NothingMissed
<1>1. Init => AnnouncedMatch
  BY DEF Init, AnnouncedMatch
<1>2. AnnouncedMatch => NothingMissed
  BY DEF AnnouncedMatch, OnItsWay, NothingMissed
<1> QED BY <1>1, <1>2, AnnouncedNext, DaemonInvariant, PTL DEF Spec
=============================================================================
