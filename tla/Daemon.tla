------------------------------- MODULE Daemon -------------------------------
(***************************************************************************)
(* The daemon process: start, signals, reload of the configuration, health *)
(* checks and shutdown (cmd/proxs3d/main.go, internal/api/api.go,          *)
(* internal/config/config.go), with the plugin hooks and polls that cause  *)
(* the reloads (perl/S3Plugin.pm) and systemd, which restarts the process. *)
(***************************************************************************)
EXTENDS Naturals, FiniteSets

CONSTANTS
    Storages,
    Editions,      \* what a section of storage.cfg may say
    Secrets,       \* contents of a credential file
    None,
    Spawned,       \* bound: health checks of reloads that overlap
    Requests       \* HTTP requests that overlap

ASSUME NoneAssumption ==
    None \notin Editions \cup Secrets \cup [section: Editions, secret: Secrets \cup {None}]
ASSUME SpawnAssumption == Spawned # {} /\ IsFiniteSet(Spawned) /\ "loop" \notin Spawned

VARIABLES
    section,     \* [Storages -> section of storage.cfg, None without one]
    secret,      \* [Storages -> credential file]
    reachable,   \* storages whose endpoint answers
    due,         \* the plugin is about to send SIGHUP
    phase,       \* "boot" until signal.Notify, "start" until s.server is set, "serve",
                 \* "closing" from Shutdown on, "stopped", "failed"
    sig,         \* sigCh, a channel of capacity 1
    hpc,         \* the signal goroutine (main itself while it boots)
    new,         \* the configuration being loaded
    todo,        \* storages whose credentials it still misses
    clients,     \* Server.clients
    health,      \* Server.health: storages that are online
    check,       \* [health checks -> stage, storages left to probe, storages found online]
    busy,        \* requests being served
    announced    \* ghost: SIGHUP sent since the last change and not failed

filesVars == <<section, secret>>
loadVars  == <<new, todo>>
vars == <<filesVars, reachable, due, phase, sig, hpc, loadVars, clients, health, check,
          busy, announced>>

Checks  == {"loop"} \cup Spawned
Configs == [Storages -> [section: Editions, secret: Secrets \cup {None}] \cup {None}]
Known(c) == {s \in Storages : c[s] # None}
NoClient == [s \in Storages |-> None]
NoCheck  == [at |-> "off", todo |-> {}, up |-> {}]
Running  == phase \notin {"stopped", "failed"}

TypeOK ==
    /\ section \in [Storages -> Editions \cup {None}]
    /\ secret \in [Storages -> Secrets \cup {None}]
    /\ reachable \subseteq Storages /\ health \subseteq Storages /\ busy \subseteq Requests
    /\ due \in BOOLEAN /\ announced \in BOOLEAN
    /\ phase \in {"boot", "start", "serve", "closing", "stopped", "failed"}
    /\ sig \in {"none", "hup", "term"}
    /\ hpc \in {"idle", "load", "keys", "health", "drain", "late", "drained"}
    /\ new \in Configs /\ clients \in Configs /\ todo \subseteq Known(new)
    /\ check \in [Checks -> [at: {"off", "begin", "probe"}, todo: SUBSET Storages,
                             up: SUBSET Storages]]
    /\ phase = "closing" <=> hpc \in {"drain", "late", "drained"}
    /\ phase \in {"serve", "closing"} <=> check["loop"].at # "off"

Init ==
    /\ section \in [Storages -> Editions \cup {None}]
    /\ secret = [s \in Storages |-> None] /\ reachable = Storages
    /\ due = FALSE /\ announced = FALSE
    /\ phase = "stopped" /\ sig = "none" /\ hpc = "idle"
    /\ new = NoClient /\ todo = {} /\ clients = NoClient /\ health = {}
    /\ check = [c \in Checks |-> NoCheck] /\ busy = {}

(***************************************************************************)
(* The cluster: storage.cfg and credentials, changed by an API call on     *)
(* this node, whose hook signals the daemon, or on another one.            *)
(***************************************************************************)
Changed(here) ==
    /\ due' = (due \/ here) /\ announced' = FALSE
    /\ UNCHANGED <<reachable, phase, sig, hpc, loadVars, clients, health, check, busy>>

\* on_add_hook does not signal: activate_storage does.
AddStorage(s) ==
    /\ section[s] = None
    /\ \E e \in Editions : section' = [section EXCEPT ![s] = e]
    /\ \E x \in Secrets \cup {None} : secret' = [secret EXCEPT ![s] = x]
    /\ Changed(FALSE)

\* on_update_hook: "storage.cfg is already written".
UpdateStorage(s, here) ==
    /\ section[s] # None
    /\ \/ \E e \in Editions : section' = [section EXCEPT ![s] = e] /\ UNCHANGED secret
       \/ \E x \in Secrets : secret' = [secret EXCEPT ![s] = x] /\ UNCHANGED section
    /\ Changed(here)

RemoveStorage(s, here) ==
    /\ section[s] # None
    /\ section' = [section EXCEPT ![s] = None] /\ secret' = [secret EXCEPT ![s] = None]
    /\ Changed(here)

\* Endpoints go and come back.
Outage(s) ==
    /\ reachable' = (reachable \ {s}) \cup ({s} \ reachable)
    /\ UNCHANGED <<filesVars, due, phase, sig, hpc, loadVars, clients, health, check, busy,
                   announced>>

\* Mutant: the plugin takes any answer for "the daemon knows the storage".
MustReload_Never(s) == phase = "stopped"

\* /v1/status fails: no daemon, or an unknown storage.
MustReload(s) == phase # "serve" \/ clients[s] = None

\* activate_storage of a configured storage, by pvestatd again and again.
Activate(s) ==
    /\ section[s] # None /\ MustReload(s)
    /\ due' = TRUE
    /\ UNCHANGED <<filesVars, reachable, phase, sig, hpc, loadVars, clients, health, check,
                   busy, announced>>

(***************************************************************************)
(* Signals.                                                                *)
(***************************************************************************)
\* The process is gone, and with it all it knew.
Die(p) ==
    /\ phase' = p /\ sig' = "none" /\ hpc' = "idle"
    /\ new' = NoClient /\ todo' = {} /\ clients' = NoClient /\ health' = {}
    /\ check' = [c \in Checks |-> NoCheck] /\ busy' = {} /\ announced' = FALSE

\* Mutant: the channel has no buffer.
Queue_Unbuffered(g) == sig' = IF sig = "none" /\ hpc = "idle" THEN g ELSE sig

\* signal.Notify does not wait: what finds the channel full is dropped.
Queue(g) == sig' = IF sig = "none" THEN g ELSE sig

\* Before signal.Notify a signal kills the process, which systemd takes for a clean stop.
Deliver(g) ==
    IF phase = "boot" THEN Die("stopped")
    ELSE /\ Queue(g)
         /\ announced' = (announced \/ g = "hup")
         /\ UNCHANGED <<phase, hpc, loadVars, clients, health, check, busy>>

\* _reload_daemon, or systemctl reload.
SendHup ==
    /\ due /\ due' = FALSE
    /\ IF Running THEN Deliver("hup")
       ELSE UNCHANGED <<phase, sig, hpc, loadVars, clients, health, check, busy, announced>>
    /\ UNCHANGED <<filesVars, reachable>>

SendTerm ==
    /\ Running /\ Deliver("term")
    /\ UNCHANGED <<filesVars, reachable, due>>

(***************************************************************************)
(* LoadDaemonConfig: storage.cfg first, then one credential file at a time.*)
(***************************************************************************)
\* Failing to load keeps the current configuration; main gives up.
LoadFails ==
    /\ hpc = "load"
    /\ IF phase = "boot" THEN Die("failed")
       ELSE /\ hpc' = "idle" /\ announced' = FALSE
            /\ UNCHANGED <<phase, sig, loadVars, clients, health, check, busy>>
    /\ UNCHANGED <<filesVars, reachable, due>>

ParseStorageCfg ==
    /\ hpc = "load" /\ hpc' = "keys"
    /\ new' = [s \in Storages |-> IF section[s] = None THEN None
                                  ELSE [section |-> section[s], secret |-> None]]
    /\ todo' = Known(new')
    /\ UNCHANGED <<filesVars, reachable, due, phase, sig, clients, health, check, busy,
                   announced>>

\* A credential file that cannot be read counts as none.
LoadCredential(s) ==
    /\ hpc = "keys" /\ s \in todo
    /\ todo' = todo \ {s}
    /\ \/ new' = [new EXCEPT ![s].secret = secret[s]] /\ UNCHANGED announced
       \/ UNCHANGED new /\ announced' = FALSE
    /\ UNCHANGED <<filesVars, reachable, due, phase, sig, hpc, clients, health, check, busy>>

(***************************************************************************)
(* The signal goroutine.                                                   *)
(***************************************************************************)
TakeHup ==
    /\ Running /\ hpc = "idle" /\ sig = "hup"
    /\ sig' = "none" /\ hpc' = "load"
    /\ UNCHANGED <<filesVars, reachable, due, phase, loadVars, clients, health, check, busy,
                   announced>>

\* initClients: the clients, under clientMu ...
InstallClients ==
    /\ phase # "boot" /\ hpc = "keys" /\ todo = {} /\ hpc' = "health"
    /\ clients' = new /\ new' = NoClient
    /\ UNCHANGED <<filesVars, reachable, due, phase, sig, todo, health, check, busy,
                   announced>>

\* ... then their health, under healthMu, until a check has run: Reload starts one.
InstallHealth ==
    /\ hpc = "health" /\ hpc' = "idle"
    /\ health' = {}
    /\ \E c \in Spawned : /\ check[c].at = "off"
                          /\ check' = [check EXCEPT ![c].at = "begin"]
    /\ UNCHANGED <<filesVars, reachable, due, phase, sig, loadVars, clients, busy, announced>>

\* Stop.  Before Start has set s.server it dereferences nil.
TakeTerm ==
    /\ hpc = "idle" /\ sig = "term"
    /\ IF phase = "start" THEN Die("failed")
       ELSE /\ phase' = "closing" /\ hpc' = "drain" /\ sig' = "none"
            /\ UNCHANGED <<loadVars, clients, health, check, busy, announced>>
    /\ UNCHANGED <<filesVars, reachable, due>>

\* Shutdown returns: no request is left, or 5 s have passed.
Drained ==
    /\ hpc = "drain"
    /\ hpc' = IF busy = {} THEN "drained" ELSE "late"
    /\ UNCHANGED <<filesVars, reachable, due, phase, sig, loadVars, clients, health, check,
                   busy, announced>>

(***************************************************************************)
(* main.                                                                   *)
(***************************************************************************)
\* systemd starts the process again after a failure, an administrator after a stop.
Boot ==
    /\ ~Running
    /\ phase' = "boot" /\ hpc' = "load"
    /\ UNCHANGED <<filesVars, reachable, due, sig, loadVars, clients, health, check, busy,
                   announced>>

\* api.New, then signal.Notify.
NewServer ==
    /\ phase = "boot" /\ hpc = "keys" /\ todo = {}
    /\ phase' = "start" /\ hpc' = "idle"
    /\ clients' = new /\ new' = NoClient
    /\ UNCHANGED <<filesVars, reachable, due, sig, todo, health, check, busy, announced>>

\* Start listens and runs healthLoop.
Serve ==
    /\ phase = "start" /\ phase' = "serve"
    /\ check' = [check EXCEPT !["loop"].at = "begin"]
    /\ UNCHANGED <<filesVars, reachable, due, sig, hpc, loadVars, clients, health, busy,
                   announced>>

\* The socket cannot be set up.
ServeFails ==
    /\ phase = "start" /\ Die("failed")
    /\ UNCHANGED <<filesVars, reachable, due>>

\* Mutant: main returns as soon as Start does.
Stopped_Early == TRUE

Stopped == hpc \in {"drained", "late"}

\* Start has returned ErrServerClosed; main waits for <-stopped.
Exit ==
    /\ phase = "closing" /\ Stopped
    /\ Die("stopped")
    /\ UNCHANGED <<filesVars, reachable, due>>

Crash ==
    /\ Running /\ Die("failed")
    /\ UNCHANGED <<filesVars, reachable, due>>

(***************************************************************************)
(* Health checks and requests.                                             *)
(***************************************************************************)
\* Mutant: a storage keeps its health unless it answers.
Results_Keep == health

Results == {}

CheckBegin(c) ==
    /\ check[c].at = "begin"
    /\ check' = [check EXCEPT ![c] = [at |-> "probe", todo |-> Known(clients), up |-> Results]]
    /\ UNCHANGED <<filesVars, reachable, due, phase, sig, hpc, loadVars, clients, health, busy,
                   announced>>

\* HeadBucket of one storage after the other.
Probe(c, s) ==
    /\ check[c].at = "probe" /\ s \in check[c].todo
    /\ check' = [check EXCEPT ![c].todo = @ \ {s}, ![c].up = @ \cup ({s} \cap reachable)]
    /\ UNCHANGED <<filesVars, reachable, due, phase, sig, hpc, loadVars, clients, health, busy,
                   announced>>

\* Mutant: the loop ends with its first check.
After_Once(c) == "off"

After(c) == IF c = "loop" THEN "begin" ELSE "off"

\* The results replace the health map, whatever has been reloaded since.
CheckStore(c) ==
    /\ check[c].at = "probe" /\ check[c].todo = {}
    /\ health' = check[c].up
    /\ check' = [check EXCEPT ![c] = [NoCheck EXCEPT !.at = After(c)]]
    /\ UNCHANGED <<filesVars, reachable, due, phase, sig, hpc, loadVars, clients, busy,
                   announced>>

\* What /v1/status answers.
Online(s) == clients[s] # None /\ s \in health

RequestBegin(r) ==
    /\ phase = "serve" /\ busy' = busy \cup {r}
    /\ UNCHANGED <<filesVars, reachable, due, phase, sig, hpc, loadVars, clients, health, check,
                   announced>>

RequestEnd(r) ==
    /\ r \in busy /\ busy' = busy \ {r}
    /\ UNCHANGED <<filesVars, reachable, due, phase, sig, hpc, loadVars, clients, health, check,
                   announced>>

Check(c) == CheckBegin(c) \/ CheckStore(c) \/ \E s \in Storages : Probe(c, s)

Handler ==
    \/ TakeHup \/ InstallClients \/ InstallHealth \/ TakeTerm \/ Drained
    \/ \E s \in Storages : LoadCredential(s)

Next ==
    \/ \E s \in Storages : \/ AddStorage(s) \/ Outage(s) \/ Activate(s)
                           \/ \E here \in BOOLEAN : UpdateStorage(s, here) \/ RemoveStorage(s, here)
    \/ SendHup \/ SendTerm
    \/ LoadFails \/ ParseStorageCfg \/ Handler
    \/ Boot \/ NewServer \/ Serve \/ ServeFails \/ Exit \/ Crash
    \/ \E c \in Checks : Check(c)
    \/ \E r \in Requests : RequestBegin(r) \/ RequestEnd(r)

\* Goroutines run, storage.cfg is not unreadable for ever, and pvestatd keeps
\* activating what is configured.
Fairness ==
    /\ SF_vars(ParseStorageCfg) /\ WF_vars(Handler) /\ WF_vars(SendHup)
    /\ \A c \in Checks : WF_vars(Check(c))
    /\ \A s \in Storages : WF_vars(Activate(s))

Spec == Init /\ [][Next]_vars
FairSpec == Spec /\ Fairness

(***************************************************************************)
(* Properties.                                                             *)
(***************************************************************************)
\* The clients are what storage.cfg and the credential files say.
Current ==
    \A s \in Storages :
        clients[s] = IF section[s] = None THEN None
                     ELSE [section |-> section[s], secret |-> secret[s]]

\* A SIGHUP is not lost between the channel and a reload that has read the files already:
\* once the signal goroutine waits and the channel is empty, the daemon has the clients
\* that the last change announced (main.go:77, Reload), unless files could not be read.
NothingMissed ==
    announced /\ hpc = "idle" /\ sig = "none" /\ phase \in {"start", "serve"} => Current

\* A change that is followed by a SIGHUP is served in the end, also when the signal
\* arrives in the middle of the reload for an earlier one or finds another one
\* waiting -- unless files cannot be read, or the daemon is stopped.
ChangeServed ==
    announced ~> (Current \/ ~announced \/ phase \notin {"start", "serve"})

\* README.md:212: a storage that stays configured becomes known for good to a daemon that
\* keeps serving, whichever node it was added on and whatever reload had read storage.cfg
\* before.
AddedIsKnown ==
    \A s \in Storages :
        <>[](section[s] # None /\ phase = "serve") => <>[](clients[s] # None)

\* README.md:398: when an endpoint stays reachable or unreachable, /v1/status says so
\* in the end, whatever checks of earlier clients and endpoints were still running.
Settled(s) == hpc = "idle" /\ sig = "none" /\ phase = "serve" /\ clients[s] # None
HealthSettles ==
    \A s \in Storages :
        /\ <>[](Settled(s) /\ s \in reachable) => <>[]Online(s)
        /\ <>[](Settled(s) /\ s \notin reachable) => <>[]~Online(s)

\* main.go:102: the process exits with success only when no request is in progress,
\* or Shutdown has given up waiting for them.
DrainedAtExit ==
    [][phase = "closing" /\ phase' = "stopped" => busy = {} \/ hpc = "late"]_vars
=============================================================================
