------------------------ MODULE ServiceWorkerDriver ------------------------
(***************************************************************************)
(* The driver of the Angular service worker: packages/service-worker/      *)
(* worker/src/driver.ts with the idle scheduler (idle.ts), the control     *)
(* table (db-cache.ts) and the part of an application version the driver's *)
(* state depends on (app-version.ts, assets.ts).                           *)
(*                                                                         *)
(* The worker keeps the installed versions of the application, the latest  *)
(* one, and the version every tab is pinned to.  It is single threaded,    *)
(* but every handler is an async function: the code between two awaits is  *)
(* one action here, and requests, update checks, the cleanup and the idle  *)
(* executors interleave at the awaits.  The browser may stop the worker at *)
(* any of them; what survives is the control table and the caches.         *)
(*                                                                         *)
(* A version is identified by the hash of its manifest and stands for one  *)
(* prefetched asset whose content differs in every version.                *)
(***************************************************************************)
EXTENDS Naturals, Sequences, FiniteSets, SequencesExt

CONSTANTS
    Versions,    \* the manifest hashes the server may deploy
    Clients,     \* client ids: tabs, each of them opened at most once
    Threads,     \* activations that may run side by side: idle executors, checks by message
    NoVersion,   \* no version
    MaxDeploys,  \* bound: deployments after the first
    MaxCrashes,  \* bound: times the browser stops the worker
    MaxFaults    \* bound: failed network exchanges

ASSUME VersionAssumption == NoVersion \notin Versions /\ IsFiniteSet(Versions)
ASSUME BoundsAssumption == MaxDeploys \in Nat /\ MaxCrashes \in Nat /\ MaxFaults \in Nat

VARIABLES
    deployed,  \* the version the server offers
    page,      \* what the browser knows of a client
    driver,    \* the driver's fields, see TypeOK
    pin,       \* clientVersionMap
    idle,      \* the IdleScheduler: its queue, and whether a timeout is pending
    thread,    \* the activations: where each one is
    request,   \* the request of a client the worker is handling
    disk,      \* the control table
    writes,    \* writes to the control table that are under way, oldest first
    cache,     \* the asset caches: in storage, seen by the worker, and cut off from storage
    sees,      \* history: the version whose document the tab is running
    budget     \* what is left of the bounds

vars == <<deployed, page, driver, pin, idle, thread, request, disk, writes, cache,
          sees, budget>>

Keys == {"manifests", "assignments", "latest"}
Tasks == {"check", "navigationCheck", "cleanup"} \cup Versions  \* a version: its initialization
Pins == [Clients -> Versions \cup {NoVersion}]
Snapshot == [manifests: SUBSET Versions, assignments: Pins, latest: Versions \cup {NoVersion}]

Free == [at |-> "free", executor |-> FALSE, todo |-> <<>>, hash |-> NoVersion, set |-> {}]
NoRequest == [at |-> "none", kind |-> "none", version |-> NoVersion]

TypeOK ==
    /\ deployed \in Versions
    /\ page \in [Clients -> {"new", "loading", "open", "closed"}]
    /\ driver \in [mode: {"down", "reading", "fetching", "resetting", "ready", "safe"},
                   degraded: BOOLEAN,             \* EXISTING_CLIENTS_ONLY
                   versions: SUBSET Versions,
                   latest: Versions \cup {NoVersion},
                   scheduledNavUpdateCheck: BOOLEAN]
    /\ pin \in Pins
    /\ idle \in [queue: Seq(Tasks), timer: BOOLEAN]
    /\ thread \in [Threads -> [at: {"free", "init", "next", "manifest", "install", "sync",
                                    "matchAll", "obsolete", "names", "delete", "prefetch"},
                               executor: BOOLEAN,   \* of idle tasks; otherwise a check by message
                               todo: Seq(Tasks),
                               hash: Versions \cup {NoVersion},
                               set: SUBSET (Versions \cup Clients)]]
    /\ request \in [Clients -> [at: {"none", "init", "get", "sync", "serve"},
                                kind: {"none", "navigate", "resource", "activate"},
                                version: Versions \cup {NoVersion}]]
    /\ disk \in Snapshot
    /\ writes \in Seq([by: Clients \cup Threads \cup {"boot"}, value: Snapshot, left: (SUBSET Keys) \ {{}}])
    /\ cache \in [stored: SUBSET Versions, held: SUBSET Versions, detached: SUBSET Versions]
    /\ sees \in Pins
    /\ budget \in [deploys: 0..MaxDeploys, crashes: 0..MaxCrashes, faults: 0..MaxFaults]

Unpinned == [c \in Clients |-> NoVersion]

Init ==
    /\ deployed \in Versions
    /\ page = [c \in Clients |-> "new"]
    /\ driver = [mode |-> "down", degraded |-> FALSE, versions |-> {}, latest |-> NoVersion,
                 scheduledNavUpdateCheck |-> FALSE]
    /\ pin = Unpinned
    /\ idle = [queue |-> <<>>, timer |-> FALSE]
    /\ thread = [t \in Threads |-> Free]
    /\ request = [c \in Clients |-> NoRequest]
    /\ disk = [manifests |-> {}, assignments |-> Unpinned, latest |-> NoVersion]
    /\ writes = <<>>
    /\ cache = [stored |-> {}, held |-> {}, detached |-> {}]
    /\ sees = Unpinned
    /\ budget = [deploys |-> MaxDeploys, crashes |-> MaxCrashes, faults |-> MaxFaults]

(***************************************************************************)
(* The control table.  sync() takes a snapshot of the three values and     *)
(* writes them side by side: writes to one key finish in the order they    *)
(* were issued, writes to different keys in any order.                     *)
(***************************************************************************)

Save(who, versions, pins, latest) ==
    writes' = Append(writes,
        [by |-> who, left |-> Keys,
         value |-> [manifests |-> versions, assignments |-> pins, latest |-> latest]])

\* Mutation of Saved: waits for the write of the latest version only.
SavedLatest(who) ==
    \A i \in DOMAIN writes : writes[i].by = who => "latest" \notin writes[i].left

Saved(who) == \A i \in DOMAIN writes : writes[i].by # who

\* Mutation of Commit: a snapshot stays in the way after its last write.
CommitKeepsSnapshot(k) ==
    \E i \in DOMAIN writes :
        /\ k \in writes[i].left
        /\ \A j \in 1..(i - 1) : k \notin writes[j].left
        /\ disk' = [disk EXCEPT ![k] = writes[i].value[k]]
        /\ writes' = [writes EXCEPT ![i].left = @ \ {k}]
        /\ UNCHANGED <<deployed, page, driver, pin, idle, thread, request, cache, sees, budget>>

Commit(k) ==
    \E i \in DOMAIN writes :
        /\ k \in writes[i].left
        /\ \A j \in 1..(i - 1) : k \notin writes[j].left
        /\ disk' = [disk EXCEPT ![k] = writes[i].value[k]]
        /\ writes' = IF writes[i].left = {k} THEN RemoveAt(writes, i)
                     ELSE [writes EXCEPT ![i].left = @ \ {k}]
        /\ UNCHANGED <<deployed, page, driver, pin, idle, thread, request, cache, sees, budget>>

(***************************************************************************)
(* The idle scheduler.  trigger() arms a timeout only when something is    *)
(* queued; when the last timeout passes, execute() takes the queue.        *)
(***************************************************************************)

trigger(queue) == [queue |-> queue, timer |-> idle.timer \/ queue # <<>>]

\* A finished request triggers the idle scheduler on its way out.
Finish(c) ==
    /\ request' = [request EXCEPT ![c] = NoRequest]
    /\ idle' = trigger(idle.queue)

Execute(t) ==
    /\ idle.timer
    /\ thread[t].at = "free"
    /\ thread' = [thread EXCEPT ![t] = [Free EXCEPT !.at = "next", !.executor = TRUE,
                                                      !.todo = idle.queue]]
    /\ idle' = [queue |-> <<>>, timer |-> FALSE]
    /\ UNCHANGED <<deployed, page, driver, pin, request, disk, writes, cache, sees, budget>>

\* Mutation of NextTask: the navigation check does not take its flag back.
NextTaskKeepsFlag(t) ==
    /\ thread[t].at = "next"
    /\ \/ /\ thread[t].todo = <<>>
          /\ thread' = [thread EXCEPT ![t] = IF idle.queue = <<>> THEN Free
                                             ELSE [@ EXCEPT !.todo = idle.queue]]
          /\ idle' = [idle EXCEPT !.queue = <<>>]
       \/ /\ thread[t].todo # <<>>
          /\ thread' = [thread EXCEPT
                ![t].at = CASE Head(thread[t].todo) = "cleanup" -> "matchAll"
                            [] Head(thread[t].todo) \in Versions -> "prefetch"
                            [] OTHER -> "manifest",
                ![t].todo = Tail(@),
                ![t].hash = IF Head(thread[t].todo) \in Versions THEN Head(thread[t].todo)
                                                                ELSE NoVersion]
          /\ UNCHANGED idle
    /\ UNCHANGED <<deployed, page, driver, pin, request, disk, writes, cache, sees, budget>>

\* The tasks of a batch run one after the other; when it is empty the executor
\* looks at the queue again before it ends.
NextTask(t) ==
    /\ thread[t].at = "next"
    /\ LET todo == thread[t].todo IN
       \/ /\ todo = <<>>
          /\ idle.queue = <<>>
          /\ thread' = [thread EXCEPT ![t] = Free]
          /\ UNCHANGED <<driver, idle>>
       \/ /\ todo = <<>>
          /\ idle.queue # <<>>
          /\ thread' = [thread EXCEPT ![t].todo = idle.queue]
          /\ idle' = [idle EXCEPT !.queue = <<>>]
          /\ UNCHANGED driver
       \/ /\ todo # <<>>
          /\ thread' = [thread EXCEPT ![t] =
                [at |-> CASE Head(todo) \in Versions -> "prefetch"
                          [] Head(todo) = "cleanup" -> "matchAll"
                          [] OTHER -> "manifest",
                 executor |-> TRUE,
                 todo |-> Tail(todo),
                 hash |-> IF Head(todo) \in Versions THEN Head(todo) ELSE NoVersion,
                 set |-> {}]]
          /\ driver' = [driver EXCEPT !.scheduledNavUpdateCheck =
                            @ /\ Head(todo) # "navigationCheck"]
          /\ UNCHANGED idle
    /\ UNCHANGED <<deployed, page, pin, request, disk, writes, cache, sees, budget>>

\* The task of t is done: an executor goes on with the next one, a check by
\* message ends.
Continue(t) ==
    thread' = [thread EXCEPT ![t] = IF @.executor
                                    THEN [@ EXCEPT !.at = "next", !.hash = NoVersion, !.set = {}]
                                    ELSE Free]

\* A failed network exchange uses up one of the faults.
Fault ==
    /\ budget.faults > 0
    /\ budget' = [budget EXCEPT !.faults = @ - 1]

(***************************************************************************)
(* Initialization.  The first event after the worker was started reads the *)
(* control table; whatever comes meanwhile waits for it.                   *)
(***************************************************************************)

\* The mode after an event that calls ensureInitialized().
ensureInitialized == IF driver.mode = "down" THEN [driver EXCEPT !.mode = "reading"] ELSE driver

\* The 'activate' event posts INITIALIZE to the worker itself.
Activate ==
    /\ driver.mode = "down"
    /\ driver' = ensureInitialized
    /\ UNCHANGED <<deployed, page, pin, idle, thread, request, disk, writes, cache, sees, budget>>

\* The state read from the table (or just written to it) becomes the driver's
\* own; a client with an unknown version gets the latest one.  The asset caches
\* are opened, the background work is queued and the idle scheduler triggered.
Hydrate(firstTasks) ==
    /\ driver' = [driver EXCEPT !.mode = "ready", !.versions = disk.manifests, !.latest = disk.latest]
    /\ pin' = [c \in Clients |->
                  IF disk.assignments[c] \in disk.manifests \cup {NoVersion}
                  THEN disk.assignments[c] ELSE disk.latest]
    /\ \E prefetches \in SetToSeqs(disk.manifests) :
          idle' = [queue |-> firstTasks \o <<"cleanup">> \o prefetches, timer |-> TRUE]
    /\ cache' = [cache EXCEPT !.held = cache.stored, !.detached = {}]

ReadControlTable ==
    /\ driver.mode = "reading"
    /\ \/ /\ disk.latest \in disk.manifests
          /\ Hydrate(<<"check">>)
       \/ /\ disk.latest \notin disk.manifests
          /\ driver' = [driver EXCEPT !.mode = "fetching"]
          /\ UNCHANGED <<pin, idle, cache>>
    /\ UNCHANGED <<deployed, page, thread, request, disk, writes, sees, budget>>

\* Nothing usable in the table: start over from the server's manifest.
FetchFirstManifest ==
    /\ driver.mode = "fetching"
    /\ \/ /\ driver' = [driver EXCEPT !.mode = "resetting"]
          /\ Save("boot", {deployed}, Unpinned, deployed)
          /\ UNCHANGED budget
       \/ /\ Fault
          /\ driver' = [driver EXCEPT !.mode = "safe"]
          /\ UNCHANGED writes
    /\ UNCHANGED <<deployed, page, pin, idle, thread, request, disk, cache, sees>>

StartOver ==
    /\ driver.mode = "resetting"
    /\ Saved("boot")
    /\ Hydrate(<<>>)
    /\ UNCHANGED <<deployed, page, thread, request, disk, writes, sees, budget>>

(***************************************************************************)
(* Update checks, from an idle task or from a message of a tab.            *)
(***************************************************************************)

CheckForUpdates(t) ==
    /\ driver.mode # "safe"
    /\ thread[t].at = "free"
    /\ \E c \in Clients : page[c] = "open"
    /\ thread' = [thread EXCEPT ![t].at = IF driver.mode = "ready" THEN "manifest" ELSE "init"]
    /\ driver' = ensureInitialized
    /\ UNCHANGED <<deployed, page, pin, idle, request, disk, writes, cache, sees, budget>>

\* The message waited for the initialization; if that failed, so does the message.
HandleMessage(t) ==
    /\ thread[t].at = "init"
    /\ \/ driver.mode = "ready" /\ thread' = [thread EXCEPT ![t].at = "manifest"]
       \/ driver.mode = "safe" /\ thread' = [thread EXCEPT ![t] = Free]
    /\ UNCHANGED <<deployed, page, driver, pin, idle, request, disk, writes, cache, sees, budget>>

\* The manifest arrives: an installed version is no update, any other one is
\* installed.  An error marks the driver as degraded, being offline does not.
checkForUpdate(t) ==
    /\ thread[t].at = "manifest"
    /\ \/ /\ deployed \in driver.versions
          /\ Continue(t)
          /\ UNCHANGED <<driver, cache, budget>>
       \/ /\ deployed \notin driver.versions
          /\ thread' = [thread EXCEPT ![t].at = "install", ![t].hash = deployed]
          /\ cache' = [cache EXCEPT !.detached = @ \ {deployed},
                                    !.held = IF deployed \in cache.stored
                                             THEN @ \cup {deployed} ELSE @ \ {deployed}]
          /\ UNCHANGED <<driver, budget>>
       \/ /\ Fault
          /\ Continue(t)
          /\ driver' \in {driver, [driver EXCEPT !.degraded = TRUE]}
          /\ UNCHANGED cache
    /\ UNCHANGED <<deployed, page, pin, idle, request, disk, writes, sees>>

\* The new version is complete once its asset is in its cache: already there or
\* fetched, with the content the manifest promises.  Then it becomes the latest
\* version; otherwise the driver is degraded.
setupUpdate(t) ==
    LET h == thread[t].hash IN
    /\ thread[t].at = "install"
    /\ \/ /\ h \in cache.held \cup {deployed}
          /\ cache' = [cache EXCEPT !.held = @ \cup {h},
                                    !.stored = IF h \in cache.detached THEN @ ELSE @ \cup {h}]
          /\ driver' = [driver EXCEPT !.versions = @ \cup {h}, !.latest = h, !.degraded = FALSE]
          /\ Save(t, driver'.versions, pin, h)
          /\ thread' = [thread EXCEPT ![t].at = "sync"]
          /\ UNCHANGED budget
       \/ /\ h \notin cache.held
          /\ (h # deployed /\ UNCHANGED budget) \/ Fault
          /\ driver' = [driver EXCEPT !.degraded = TRUE]
          /\ Continue(t)
          /\ UNCHANGED <<cache, writes>>
    /\ UNCHANGED <<deployed, page, pin, idle, request, disk, sees>>

UpdateSaved(t) ==
    /\ thread[t].at = "sync" /\ thread[t].hash # NoVersion
    /\ Saved(t)
    /\ Continue(t)
    /\ UNCHANGED <<deployed, page, driver, pin, idle, request, disk, writes, cache, sees, budget>>

\* Initialization of a version the worker was started with.  Only a failure of
\* the latest version degrades the driver.
versionFailed(v) ==
    driver' = [driver EXCEPT !.degraded = @ \/ (v \in driver.versions /\ v = driver.latest)]

initializeFully(t) ==
    LET v == thread[t].hash IN
    /\ thread[t].at = "prefetch"
    /\ Continue(t)
    /\ \/ /\ v \in cache.held \cup {deployed}
          /\ cache' = [cache EXCEPT !.held = @ \cup {v},
                                    !.stored = IF v \in cache.detached THEN @ ELSE @ \cup {v}]
          /\ UNCHANGED <<driver, budget>>
       \/ /\ v \notin cache.held
          /\ (v # deployed /\ UNCHANGED budget) \/ Fault
          /\ versionFailed(v)
          /\ UNCHANGED cache
    /\ UNCHANGED <<deployed, page, pin, idle, request, disk, writes, sees>>

(***************************************************************************)
(* The cleanup of tabs, versions and caches nobody uses any more.          *)
(***************************************************************************)

\* The browser lists the open tabs...
MatchAll(t) ==
    /\ thread[t].at = "matchAll"
    /\ thread' = [thread EXCEPT ![t].at = "obsolete", ![t].set = {c \in Clients : page[c] = "open"}]
    /\ UNCHANGED <<deployed, page, driver, pin, idle, request, disk, writes, cache, sees, budget>>

\* Mutation of dropObsolete: a version without pins is dropped, the latest one too.
dropUnpinned(t) ==
    /\ thread[t].at = "obsolete"
    /\ pin' = [c \in Clients |-> IF c \in thread[t].set THEN pin[c] ELSE NoVersion]
    /\ driver' = [driver EXCEPT !.versions = @ \cap {pin'[c] : c \in Clients}]
    /\ Save(t, driver'.versions, pin', driver.latest)
    /\ thread' = [thread EXCEPT ![t].at = "sync", ![t].set = {}]
    /\ UNCHANGED <<deployed, page, idle, request, disk, cache, sees, budget>>

\* ... and by that list the worker drops pins, and versions that are neither
\* pinned nor the latest.
dropObsolete(t) ==
    LET pins == [c \in Clients |-> IF c \in thread[t].set THEN pin[c] ELSE NoVersion]
        used == {pins[c] : c \in Clients} \cup {driver.latest}
    IN  /\ thread[t].at = "obsolete"
        /\ pin' = pins
        /\ driver' = [driver EXCEPT !.versions = @ \cap used]
        /\ Save(t, driver'.versions, pins, driver.latest)
        /\ thread' = [thread EXCEPT ![t].at = "sync", ![t].set = {}]
        /\ UNCHANGED <<deployed, page, idle, request, disk, cache, sees, budget>>

\* The names of the caches that exist: with content, or opened for an installation.
CacheNames ==
    cache.stored \cup {h \in Versions \ cache.detached :
                          \E t \in Threads : thread[t].at = "install" /\ thread[t].hash = h}

\* After the sync the worker lists all caches, then those of its versions, then
\* deletes the difference.  A deleted cache stays readable for who has it open.
ListCaches(t) ==
    /\ \/ /\ thread[t].at = "sync" /\ thread[t].hash = NoVersion
          /\ Saved(t)
          /\ thread' = [thread EXCEPT ![t].at = "names", ![t].set = CacheNames]
       \/ /\ thread[t].at = "names"
          /\ thread' = [thread EXCEPT ![t].at = "delete", ![t].set = @ \ driver.versions]
    /\ UNCHANGED <<deployed, page, driver, pin, idle, request, disk, writes, cache, sees, budget>>

DeleteCaches(t) ==
    /\ thread[t].at = "delete"
    /\ cache' = [cache EXCEPT !.stored = @ \ thread[t].set, !.detached = @ \cup thread[t].set]
    /\ Continue(t)
    /\ UNCHANGED <<deployed, page, driver, pin, idle, request, disk, writes, sees, budget>>

(***************************************************************************)
(* Requests and messages of a tab.                                         *)
(***************************************************************************)

\* In safe mode the worker leaves every event alone.
StartRequest(c) ==
    /\ driver.mode # "safe"
    /\ request[c].at = "none"
    /\ \E kind \in {"navigate", "resource", "activate"} :
          /\ page[c] = "open" \/ (page[c] = "new" /\ kind = "navigate")
          /\ request' = [request EXCEPT ![c] = [NoRequest EXCEPT !.at = "init", !.kind = kind]]
    /\ page' = [page EXCEPT ![c] = IF @ = "new" THEN "loading" ELSE @]
    /\ driver' = ensureInitialized
    /\ UNCHANGED <<deployed, pin, idle, thread, disk, writes, cache, sees, budget>>

\* The browser receives the response: a document of version v, or of an unknown
\* one, replaces what the tab shows.
Respond(c, v) ==
    /\ page' = [page EXCEPT ![c] = IF @ = "loading" THEN "open" ELSE @]
    /\ sees' = IF request[c].kind = "navigate" /\ page[c] # "closed"
               THEN [sees EXCEPT ![c] = v] ELSE sees

\* Mutation of HandleUninitialized: the rejected initialization is not caught.
HandleNothing(c) ==
    /\ request[c].at = "init" /\ driver.mode = "safe" /\ request[c].kind = "activate"
    /\ request' = [request EXCEPT ![c] = NoRequest]
    /\ UNCHANGED <<deployed, page, driver, pin, idle, thread, disk, writes, cache, sees, budget>>

\* The initialization failed: the request goes to the network, a message is lost.
HandleUninitialized(c) ==
    /\ request[c].at = "init" /\ driver.mode = "safe"
    /\ request' = [request EXCEPT ![c] = NoRequest]
    /\ Respond(c, NoVersion)
    /\ UNCHANGED <<deployed, driver, pin, idle, thread, disk, writes, cache, budget>>

\* Mutation of Scheduled: the check is left out when other tasks are queued.
ScheduledOnEmptyQueue(c) ==
    IF request[c].kind = "navigate" /\ ~driver.scheduledNavUpdateCheck /\ idle.queue = <<>>
    THEN <<"navigationCheck">> ELSE idle.queue

\* A navigation schedules an update check, unless one is scheduled already.
Scheduled(c) ==
    IF request[c].kind = "navigate" /\ ~driver.scheduledNavUpdateCheck
    THEN Append(idle.queue, "navigationCheck") ELSE idle.queue

\* Mutation of PinToLatest: the pin is not saved.
PinInMemory(c) ==
    /\ pin' = [pin EXCEPT ![c] = driver.latest]
    /\ request' = [request EXCEPT ![c].at = "sync"]
    /\ UNCHANGED writes

\* Pin c to the latest version and wait until that is saved.
PinToLatest(c) ==
    /\ pin' = [pin EXCEPT ![c] = driver.latest]
    /\ Save(c, driver.versions, pin', driver.latest)
    /\ request' = [request EXCEPT ![c].at = "sync"]

ServeFrom(c, v) == request' = [request EXCEPT ![c].at = "serve", ![c].version = v]

\* handleFetch() up to the first await of assignVersion().
assignVersion(c) ==
    /\ request[c].at = "init" /\ driver.mode = "ready"
    /\ request[c].kind # "activate"
    /\ driver' = [driver EXCEPT !.scheduledNavUpdateCheck = @ \/ request[c].kind = "navigate"]
    /\ \/ /\ pin[c] # NoVersion
          /\ \/ /\ request[c].kind = "navigate" /\ ~driver.degraded /\ pin[c] # driver.latest
                /\ request' = [request EXCEPT ![c].at = "get"]
             \/ /\ request[c].kind = "resource" \/ driver.degraded \/ pin[c] = driver.latest
                /\ ServeFrom(c, pin[c])
          /\ idle' = [idle EXCEPT !.queue = Scheduled(c)]
          /\ UNCHANGED <<page, pin, writes, sees>>
       \/ /\ pin[c] = NoVersion /\ ~driver.degraded
          /\ PinToLatest(c)
          /\ idle' = [idle EXCEPT !.queue = Scheduled(c)]
          /\ UNCHANGED <<page, sees>>
       \/ /\ pin[c] = NoVersion /\ driver.degraded
          /\ request' = [request EXCEPT ![c] = NoRequest]
          /\ idle' = trigger(Scheduled(c))
          /\ Respond(c, NoVersion)
          /\ UNCHANGED <<pin, writes>>
    /\ UNCHANGED <<deployed, thread, disk, cache, budget>>

\* clients.get() answered a navigation of a pinned client: if the client still
\* exists and is not on the latest version, it is moved there.
GetClient(c) ==
    /\ request[c].at = "get"
    /\ \/ /\ page[c] = "open" /\ pin[c] # driver.latest
          /\ PinToLatest(c)
       \/ /\ page[c] # "open" \/ pin[c] = driver.latest
          /\ ServeFrom(c, driver.latest)
          /\ UNCHANGED <<pin, writes>>
    /\ UNCHANGED <<deployed, page, driver, idle, thread, disk, cache, sees, budget>>

\* ACTIVATE_UPDATE.  The tab has asked for another version than it was loaded with.
updateClient(c) ==
    /\ request[c].at = "init" /\ driver.mode = "ready"
    /\ request[c].kind = "activate"
    /\ \/ /\ pin[c] # driver.latest
          /\ PinToLatest(c)
          /\ sees' = [sees EXCEPT ![c] = NoVersion]
       \/ /\ pin[c] = driver.latest
          /\ request' = [request EXCEPT ![c] = NoRequest]
          /\ UNCHANGED <<pin, writes, sees>>
    /\ UNCHANGED <<deployed, page, driver, idle, thread, disk, cache, budget>>

PinSaved(c) ==
    /\ request[c].at = "sync"
    /\ Saved(c)
    /\ IF request[c].kind = "activate" THEN request' = [request EXCEPT ![c] = NoRequest]
       ELSE ServeFrom(c, driver.latest)
    /\ UNCHANGED <<deployed, page, driver, pin, idle, thread, disk, writes, cache, sees, budget>>

\* The version answers from its cache or, when the asset is missing there, from
\* the network.  Other content than the manifest promises is a critical error.
handleFetch(c) ==
    LET v == request[c].version IN
    /\ request[c].at = "serve"
    /\ Finish(c)
    /\ \/ /\ v \in cache.held \cup {deployed}
          /\ cache' = [cache EXCEPT !.held = @ \cup {v},
                                    !.stored = IF v \in cache.held \cup cache.detached
                                               THEN @ ELSE @ \cup {v}]
          /\ Respond(c, v)
          /\ UNCHANGED <<driver, budget>>
       \/ /\ v \notin cache.held /\ v # deployed
          /\ versionFailed(v)
          /\ Respond(c, NoVersion)
          /\ UNCHANGED <<cache, budget>>
       \/ /\ v \notin cache.held /\ Fault
          /\ Respond(c, NoVersion)
          /\ UNCHANGED <<driver, cache>>
    /\ UNCHANGED <<deployed, pin, thread, disk, writes>>

(***************************************************************************)
(* The environment.                                                        *)
(***************************************************************************)

Deploy ==
    /\ budget.deploys > 0
    /\ budget' = [budget EXCEPT !.deploys = @ - 1]
    /\ deployed' \in Versions \ {deployed}
    /\ UNCHANGED <<page, driver, pin, idle, thread, request, disk, writes, cache, sees>>

Close(c) ==
    /\ page[c] = "open"
    /\ page' = [page EXCEPT ![c] = "closed"]
    /\ sees' = [sees EXCEPT ![c] = NoVersion]
    /\ UNCHANGED <<deployed, driver, pin, idle, thread, request, disk, writes, cache, budget>>

\* The browser stops the worker: everything in memory is gone, and so are the
\* writes that were under way; a navigation it was handling fails.
Crash ==
    /\ driver.mode # "down"
    /\ budget.crashes > 0
    /\ budget' = [budget EXCEPT !.crashes = @ - 1]
    /\ driver' = [mode |-> "down", degraded |-> FALSE, versions |-> {}, latest |-> NoVersion,
                  scheduledNavUpdateCheck |-> FALSE]
    /\ pin' = Unpinned
    /\ idle' = [queue |-> <<>>, timer |-> FALSE]
    /\ thread' = [t \in Threads |-> Free]
    /\ page' = [c \in Clients |-> IF request[c].kind = "navigate" THEN "closed" ELSE page[c]]
    /\ sees' = [c \in Clients |-> IF request[c].kind = "navigate" THEN NoVersion ELSE sees[c]]
    /\ request' = [c \in Clients |-> NoRequest]
    /\ writes' = <<>>
    /\ UNCHANGED <<deployed, disk, cache>>

Initialization == Activate \/ ReadControlTable \/ FetchFirstManifest \/ StartOver
Run(t) ==
    \/ NextTask(t) \/ HandleMessage(t)
    \/ checkForUpdate(t) \/ setupUpdate(t) \/ UpdateSaved(t) \/ initializeFully(t)
    \/ MatchAll(t) \/ dropObsolete(t) \/ ListCaches(t) \/ DeleteCaches(t)
Serve(c) ==
    HandleUninitialized(c) \/ assignVersion(c) \/ GetClient(c) \/ updateClient(c)
    \/ PinSaved(c) \/ handleFetch(c)

Next ==
    \/ Initialization
    \/ \E k \in Keys : Commit(k)
    \/ \E t \in Threads : Execute(t) \/ CheckForUpdates(t) \/ Run(t)
    \/ \E c \in Clients : StartRequest(c) \/ Serve(c) \/ Close(c)
    \/ Deploy
    \/ Crash

Spec == Init /\ [][Next]_vars

\* What was started goes on: writes finish, timeouts pass, awaited calls return.
\* No tab has to send anything.
Fairness ==
    /\ WF_vars(ReadControlTable \/ FetchFirstManifest \/ StartOver)
    /\ \A k \in Keys : WF_vars(Commit(k))
    /\ WF_vars(\E t \in Threads : Execute(t))
    /\ \A t \in Threads : WF_vars(Run(t))
    /\ \A c \in Clients : WF_vars(Serve(c))

FairSpec == Spec /\ Fairness

(***************************************************************************)
(* Properties.                                                             *)
(***************************************************************************)

\* Every pinned version and the latest one are loaded: no interleaving of the
\* cleanup with pins, updates and activations leaves a client with a version
\* the worker has dropped (assignVersion would throw "Invariant violated").
ClientsHaveVersions ==
    driver.mode = "ready" =>
        /\ driver.latest \in driver.versions
        /\ \A c \in Clients : pin[c] \in driver.versions \cup {NoVersion}

\* Whatever the driver keeps in memory is in the control table or in the last
\* write on its way there: no handler changes the state without a sync.  A pin
\* that initialize() replaced because its version was unknown is the exception.
MemoryIsBeingSaved ==
    driver.mode = "ready" =>
        LET saved == IF writes = <<>> THEN disk ELSE Last(writes).value
        IN  /\ saved.manifests = driver.versions
            /\ saved.latest = driver.latest
            /\ \A c \in Clients :
                  \/ saved.assignments[c] = pin[c]
                  \/ saved.assignments[c] \notin saved.manifests \cup {NoVersion}

\* A request or an activation that pinned its tab goes on only when the pin is in
\* the control table: stopping the worker will not move a tab that was answered.
PinsAreSavedBeforeUse ==
    [][\A c \in Clients :
          request[c].at = "sync" /\ request'[c].at # "sync" /\ driver'.mode = "ready"
          /\ pin[c] # NoVersion => disk.assignments[c] = pin[c]]_vars

\* The idle work the driver relies on is coming.  The flag that keeps navigations
\* from scheduling more update checks is only up while such a check is queued:
\* otherwise no navigation would ever check again.  And a queue is never
\* forgotten: a timeout is pending, an executor is running that will look at it
\* again, or a request is under way that will arm the timeout.
IdleWorkIsComing ==
    /\ driver.scheduledNavUpdateCheck =>
         \/ "navigationCheck" \in ToSet(idle.queue)
         \/ \E t \in Threads : "navigationCheck" \in ToSet(thread[t].todo)
    /\ idle.queue # <<>> =>
         \/ idle.timer
         \/ \E t \in Threads : thread[t].executor
         \/ \E c \in Clients : request[c].at \in {"get", "sync", "serve"}

\* Every request is answered, whatever else the worker is doing.
RequestsAreAnswered == \A c \in Clients : request[c].at # "none" ~> request[c].at = "none"

\* A worker that stays up, with tabs that keep navigating, ends up with the
\* deployed version installed.
DeployedGetsInstalled ==
    (/\ <>[](driver.mode = "ready")
     /\ []<>(\E c \in Clients : request[c].kind = "navigate"))
    => <>[](deployed \in driver.versions)

\* devops.md: "a running application continues to run the same version of the
\* application": a tab's resources come from the version of its document.
OneVersionPerPage ==
    \A c \in Clients :
        request[c].at = "serve" /\ request[c].kind = "resource" /\ sees[c] # NoVersion
            => request[c].version = sees[c]
=============================================================================
