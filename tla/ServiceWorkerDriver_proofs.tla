--------------------- MODULE ServiceWorkerDriver_proofs ---------------------
(***************************************************************************)
(* Proofs about ServiceWorkerDriver for any numbers of versions, tabs,     *)
(* activations, deployments, crashes and faults.                           *)
(***************************************************************************)
EXTENDS ServiceWorkerDriver, SequenceTheorems, FiniteSetTheorems, TLAPS

DriverRecord == [mode: {"down", "reading", "fetching", "resetting", "ready", "safe"},
                 degraded: BOOLEAN,
                 versions: SUBSET Versions,
                 latest: Versions \cup {NoVersion},
                 scheduledNavUpdateCheck: BOOLEAN]
CacheRecord == [stored: SUBSET Versions, held: SUBSET Versions, detached: SUBSET Versions]
BudgetRecord == [deploys: 0..MaxDeploys, crashes: 0..MaxCrashes, faults: 0..MaxFaults]
ThreadRecord == [at: {"free", "init", "next", "manifest", "install", "sync",
                      "matchAll", "obsolete", "names", "delete", "prefetch"},
                 executor: BOOLEAN,
                 todo: Seq(Tasks),
                 hash: Versions \cup {NoVersion},
                 set: SUBSET (Versions \cup Clients)]
RequestRecord == [at: {"none", "init", "get", "sync", "serve"},
                  kind: {"none", "navigate", "resource", "activate"},
                  version: Versions \cup {NoVersion}]
WriteRecord == [by: Clients \cup Threads \cup {"boot"}, value: Snapshot,
                left: (SUBSET Keys) \ {{}}]

----------------------------------------------------------------------------
(* Type correctness. *)

\* No request is a request record.
LEMMA NoRequestType == NoRequest \in RequestRecord
BY DEF NoRequest, RequestRecord

\* A free thread is a thread record.
LEMMA FreeType == Free \in ThreadRecord
BY EmptySeq DEF Free, ThreadRecord

\* The constructor of Driver and an empty control table are well typed.
LEMMA InitType == Init => TypeOK
<1> SUFFICES ASSUME Init PROVE TypeOK
  OBVIOUS
<1>1. Unpinned \in Pins
  BY DEF Unpinned, Pins
<1>2. disk \in Snapshot
  BY <1>1 DEF Init, Snapshot
<1>3. thread \in [Threads -> ThreadRecord]
  BY FreeType DEF Init
<1>4. request \in [Clients -> RequestRecord]
  BY NoRequestType DEF Init
<1>5. writes \in Seq(WriteRecord) /\ idle \in [queue: Seq(Tasks), timer: BOOLEAN]
  BY EmptySeq DEF Init
<1>6. /\ budget \in BudgetRecord
      /\ sees \in Pins /\ pin \in Pins
  BY <1>1, BoundsAssumption DEF Init, BudgetRecord
<1>7. /\ deployed \in Versions
      /\ page \in [Clients -> {"new", "loading", "open", "closed"}]
      /\ driver \in [mode: {"down", "reading", "fetching", "resetting", "ready", "safe"},
                     degraded: BOOLEAN, versions: SUBSET Versions,
                     latest: Versions \cup {NoVersion}, scheduledNavUpdateCheck: BOOLEAN]
      /\ cache \in CacheRecord
  BY DEF Init, CacheRecord
<1> QED
  BY <1>2, <1>3, <1>4, <1>5, <1>6, <1>7
  DEF TypeOK, ThreadRecord, RequestRecord, WriteRecord, CacheRecord, BudgetRecord

\* sync() snapshots well typed memory.
LEMMA SaveType ==
    ASSUME TypeOK, NEW who \in Clients \cup Threads \cup {"boot"},
           NEW versions \in SUBSET Versions, NEW pins \in Pins,
           NEW latest \in Versions \cup {NoVersion},
           Save(who, versions, pins, latest)
    PROVE  writes' \in Seq(WriteRecord)
<1> DEFINE value == [manifests |-> versions, assignments |-> pins, latest |-> latest]
<1>1. [by |-> who, left |-> Keys, value |-> value] \in WriteRecord
  <2>1. value \in Snapshot
    BY DEF Snapshot
  <2>2. Keys \in (SUBSET Keys) \ {{}}
    <3>1. Keys # {}
      BY Zenon DEF Keys
    <3> QED
      BY <3>1
  <2> HIDE DEF value
  <2> QED
    BY <2>1, <2>2 DEF WriteRecord
<1>2. writes \in Seq(WriteRecord)
  BY DEF TypeOK, WriteRecord
<1> QED
  BY <1>1, <1>2, AppendProperties DEF Save

\* IdleScheduler.execute and trigger leave a thread record.
LEMMA ContinueType ==
    ASSUME TypeOK, NEW t \in Threads, Continue(t)
    PROVE  thread' \in [Threads -> ThreadRecord]
<1>1. thread \in [Threads -> ThreadRecord]
  BY DEF TypeOK, ThreadRecord
<1>2. [thread[t] EXCEPT !.at = "next", !.hash = NoVersion, !.set = {}] \in ThreadRecord
  BY <1>1 DEF ThreadRecord
<1> QED
  BY <1>1, <1>2, FreeType DEF Continue

\* The driver with one field assigned.
LEMMA DriverType ==
    ASSUME TypeOK
    PROVE  /\ driver \in DriverRecord
           /\ \A mode \in {"down", "reading", "fetching", "resetting", "ready", "safe"} :
                 [driver EXCEPT !.mode = mode] \in DriverRecord
           /\ \A flag \in BOOLEAN :
                 /\ [driver EXCEPT !.degraded = flag] \in DriverRecord
                 /\ [driver EXCEPT !.scheduledNavUpdateCheck = flag] \in DriverRecord
<1>1. driver \in DriverRecord
  BY DEF TypeOK, DriverRecord
<1> QED
  BY <1>1 DEF DriverRecord

\* The network uses up its budget of faults.
LEMMA FaultType ==
    ASSUME TypeOK, Fault
    PROVE  budget' \in BudgetRecord
<1>1. budget \in BudgetRecord
  BY DEF TypeOK, BudgetRecord
<1>2. budget.faults \in 0..MaxFaults /\ budget.faults > 0 /\ MaxFaults \in Nat
  BY <1>1, BoundsAssumption DEF Fault, BudgetRecord
<1>3. budget.faults - 1 \in 0..MaxFaults
  BY <1>2
<1>4. budget' = [budget EXCEPT !.faults = budget.faults - 1]
  BY DEF Fault
<1> QED
  BY <1>1, <1>3, <1>4 DEF BudgetRecord

\* An answer to a tab is well typed.
LEMMA RespondType ==
    ASSUME TypeOK, NEW c \in Clients, NEW v \in Versions \cup {NoVersion}, Respond(c, v)
    PROVE  /\ page' \in [Clients -> {"new", "loading", "open", "closed"}]
           /\ sees' \in Pins
BY DEF TypeOK, Respond, Pins

\* assignVersion pins a tab to the latest version.
LEMMA PinToLatestType ==
    ASSUME TypeOK, NEW c \in Clients, PinToLatest(c)
    PROVE  /\ pin' \in Pins
           /\ writes' \in Seq(WriteRecord)
           /\ request' \in [Clients -> RequestRecord]
<1>1. pin' \in Pins
  BY DEF TypeOK, PinToLatest, Pins
<1>2. writes' \in Seq(WriteRecord)
  BY <1>1, SaveType DEF PinToLatest, TypeOK
<1>3. request' \in [Clients -> RequestRecord]
  <2>1. request \in [Clients -> RequestRecord]
    BY DEF TypeOK, RequestRecord
  <2>2. [request[c] EXCEPT !.at = "sync"] \in RequestRecord
    BY <2>1 DEF RequestRecord
  <2> QED
    BY <2>1, <2>2 DEF PinToLatest
<1> QED
  BY <1>1, <1>2, <1>3

\* handleFetch answers from a version, or from the network.
LEMMA ServeFromType ==
    ASSUME TypeOK, NEW c \in Clients, NEW v \in Versions \cup {NoVersion}, ServeFrom(c, v)
    PROVE  request' \in [Clients -> RequestRecord]
<1>1. request \in [Clients -> RequestRecord]
  BY DEF TypeOK, RequestRecord
<1>2. [request[c] EXCEPT !.at = "serve", !.version = v] \in RequestRecord
  BY <1>1 DEF RequestRecord
<1> QED
  BY <1>1, <1>2 DEF ServeFrom

\* The library operator RemoveAt, element by element.
LEMMA RemoveAtType ==
    ASSUME NEW S, NEW s \in Seq(S), NEW i \in DOMAIN s
    PROVE  /\ RemoveAt(s, i) \in Seq(S)
           /\ Len(RemoveAt(s, i)) = Len(s) - 1
           /\ \A j \in 1..(Len(s) - 1) :
                 RemoveAt(s, i)[j] = IF j < i THEN s[j] ELSE s[j + 1]
<1> DEFINE a == SubSeq(s, 1, i - 1)
           b == SubSeq(s, i + 1, Len(s))
<1>1. i \in 1..Len(s) /\ Len(s) \in Nat
  BY LenProperties
<1>2. /\ a \in Seq(S) /\ Len(a) = i - 1
      /\ \A j \in 1..(i - 1) : a[j] = s[j]
  BY <1>1, SubSeqProperties
<1>3. /\ b \in Seq(S) /\ Len(b) = Len(s) - i
      /\ \A j \in 1..(Len(s) - i) : b[j] = s[i + j]
  BY <1>1, SubSeqProperties
<1>4. /\ a \o b \in Seq(S) /\ Len(a \o b) = Len(s) - 1
      /\ \A j \in 1..(Len(s) - 1) : (a \o b)[j] = IF j < i THEN a[j] ELSE b[j - (i - 1)]
  <2> HIDE DEF a, b
  <2>1. /\ a \o b \in Seq(S) /\ Len(a \o b) = Len(a) + Len(b)
        /\ \A j \in 1..(Len(a) + Len(b)) :
              (a \o b)[j] = IF j <= Len(a) THEN a[j] ELSE b[j - Len(a)]
    BY <1>2, <1>3, ConcatProperties
  <2>2. Len(a) + Len(b) = Len(s) - 1
    BY <1>1, <1>2, <1>3
  <2>3. \A j \in 1..(Len(s) - 1) : j <= Len(a) <=> j < i
    BY <1>1, <1>2
  <2> QED
    BY <1>2, <2>1, <2>2, <2>3
<1>5. ASSUME NEW j \in 1..(Len(s) - 1)
      PROVE  (a \o b)[j] = IF j < i THEN s[j] ELSE s[j + 1]
  <2> HIDE DEF a, b
  <2>1. CASE j < i
    <3>1. j \in 1..(i - 1)
      BY <2>1, <1>1
    <3> QED
      BY <2>1, <3>1, <1>2, <1>4
  <2>2. CASE ~(j < i)
    <3>1. j - (i - 1) \in 1..(Len(s) - i) /\ i + (j - (i - 1)) = j + 1
      BY <2>2, <1>1
    <3>2. b[j - (i - 1)] = s[j + 1]
      BY <3>1, <1>3
    <3> QED
      BY <2>2, <3>2, <1>4
  <2> QED
    BY <2>1, <2>2
<1> QED
  BY <1>4, <1>5 DEF RemoveAt

\* Writing one key of the control table keeps the types.
LEMMA CommitType ==
    ASSUME TypeOK, NEW k \in Keys, Commit(k)
    PROVE  TypeOK'
<1>1. writes \in Seq(WriteRecord) /\ disk \in Snapshot
  BY DEF TypeOK, WriteRecord
<1>2. PICK i \in DOMAIN writes :
        /\ k \in writes[i].left
        /\ disk' = [disk EXCEPT ![k] = writes[i].value[k]]
        /\ writes' = IF writes[i].left = {k} THEN RemoveAt(writes, i)
                     ELSE [writes EXCEPT ![i].left = @ \ {k}]
  BY DEF Commit
<1>3. i \in 1..Len(writes) /\ writes[i] \in WriteRecord
  BY <1>1, LenProperties, ElementOfSeq
<1>4. disk' \in Snapshot
  BY <1>1, <1>2, <1>3 DEF WriteRecord, Snapshot, Keys
<1>5. writes' \in Seq(WriteRecord)
  <2>1. CASE writes[i].left = {k}
    BY <1>1, <1>2, <2>1, RemoveAtType
  <2>2. CASE writes[i].left # {k}
    <3> DEFINE w == [writes[i] EXCEPT !.left = @ \ {k}]
    <3>1. writes[i].left \ {k} # {}
      BY <1>2, <2>2
    <3>2. w \in WriteRecord
      BY <1>3, <3>1 DEF WriteRecord
    <3>3. writes' = [writes EXCEPT ![i] = w]
      BY <1>2, <2>2
    <3> QED
      BY <1>1, <1>3, <3>2, <3>3, ExceptSeq
  <2> QED
    BY <2>1, <2>2
<1>6. UNCHANGED <<deployed, page, driver, pin, idle, thread, request, cache, sees, budget>>
  BY DEF Commit
<1> QED
  BY <1>4, <1>5, <1>6 DEF TypeOK, WriteRecord

\* IdleScheduler.trigger and execute keep the types.
LEMMA IdleType ==
    ASSUME TypeOK, NEW t \in Threads, Execute(t) \/ NextTask(t)
    PROVE  TypeOK'
<1>1. thread \in [Threads -> ThreadRecord]
  BY DEF TypeOK, ThreadRecord
<1>2. idle \in [queue: Seq(Tasks), timer: BOOLEAN]
  BY DEF TypeOK
<1>3. <<>> \in Seq(Tasks)
  BY EmptySeq
<1>4. CASE Execute(t)
  <2>1. [Free EXCEPT !.at = "next", !.executor = TRUE, !.todo = idle.queue] \in ThreadRecord
    BY <1>2, FreeType DEF ThreadRecord
  <2>2. thread' \in [Threads -> ThreadRecord]
    BY <1>1, <1>4, <2>1 DEF Execute
  <2>3. idle' \in [queue: Seq(Tasks), timer: BOOLEAN]
    BY <1>3, <1>4 DEF Execute
  <2> QED
    BY <1>4, <2>2, <2>3 DEF Execute, TypeOK, ThreadRecord
<1>5. CASE NextTask(t)
  <2> DEFINE todo == thread[t].todo
  <2>1. todo \in Seq(Tasks)
    BY <1>1 DEF ThreadRecord
  <2>2. thread' \in [Threads -> ThreadRecord]
    <3>1. CASE todo = <<>> /\ idle.queue = <<>>
      BY <1>1, <1>5, <3>1, FreeType DEF NextTask
    <3>2. CASE todo = <<>> /\ idle.queue # <<>>
      <4>1. [thread[t] EXCEPT !.todo = idle.queue] \in ThreadRecord
        BY <1>1, <1>2 DEF ThreadRecord
      <4> QED
        BY <1>1, <1>5, <3>2, <4>1 DEF NextTask
    <3>3. CASE todo # <<>>
      <4> DEFINE next == [at |-> CASE Head(todo) \in Versions -> "prefetch"
                                   [] Head(todo) = "cleanup" -> "matchAll"
                                   [] OTHER -> "manifest",
                          executor |-> TRUE,
                          todo |-> Tail(todo),
                          hash |-> IF Head(todo) \in Versions THEN Head(todo) ELSE NoVersion,
                          set |-> {}]
      <4>1. Tail(todo) \in Seq(Tasks)
        BY <2>1, <3>3, HeadTailProperties
      <4>2. next \in ThreadRecord
        BY <4>1 DEF ThreadRecord
      <4>3. thread' = [thread EXCEPT ![t] = next]
        BY <1>5, <3>3 DEF NextTask
      <4> QED
        BY <1>1, <4>2, <4>3
    <3> QED
      BY <3>1, <3>2, <3>3
  <2>3. idle' \in [queue: Seq(Tasks), timer: BOOLEAN]
    BY <1>2, <1>3, <1>5 DEF NextTask
  <2>4. driver' = driver \/ \E b \in BOOLEAN : driver' = [driver EXCEPT !.scheduledNavUpdateCheck = b]
    <3>1. driver.scheduledNavUpdateCheck \in BOOLEAN
      BY DEF TypeOK
    <3> QED
      BY <1>5, <3>1 DEF NextTask
  <2>5. driver' \in DriverRecord
    BY <2>4, DriverType
  <2> QED
    BY <1>5, <2>2, <2>3, <2>5 DEF NextTask, TypeOK, ThreadRecord, DriverRecord
<1> QED
  BY <1>4, <1>5

\* initialize() fills memory from what it has read.
LEMMA HydrateType ==
    ASSUME TypeOK, NEW firstTasks \in Seq(Tasks), Hydrate(firstTasks)
    PROVE  /\ driver' \in DriverRecord
           /\ pin' \in Pins
           /\ idle' \in [queue: Seq(Tasks), timer: BOOLEAN]
           /\ cache' \in CacheRecord
<1>1. /\ disk \in Snapshot /\ disk.manifests \subseteq Versions
      /\ disk.latest \in Versions \cup {NoVersion}
  BY DEF TypeOK, Snapshot
<1>2. driver' \in DriverRecord
  BY <1>1 DEF Hydrate, TypeOK, DriverRecord
<1>3. pin' \in Pins
  BY <1>1 DEF Hydrate, Pins, Snapshot
<1>4. cache' \in CacheRecord
  BY DEF Hydrate, TypeOK, CacheRecord
<1>5. PICK prefetches \in SetToSeqs(disk.manifests) :
        idle' = [queue |-> firstTasks \o <<"cleanup">> \o prefetches, timer |-> TRUE]
  BY DEF Hydrate
<1>6. Cardinality(disk.manifests) \in Nat
  BY <1>1, VersionAssumption, FS_Subset, FS_CardinalityType
<1>7. prefetches \in Seq(disk.manifests)
  <2>1. prefetches \in [1..Cardinality(disk.manifests) -> disk.manifests]
    BY <1>5, Zenon DEF SetToSeqs
  <2> QED
    BY <1>6, <2>1
<1>8. prefetches \in Seq(Tasks)
  <2>1. disk.manifests \subseteq Tasks
    BY <1>1 DEF Tasks
  <2> QED
    BY <1>7, <2>1, SeqMonotonic
<1>9. <<"cleanup">> \in Seq(Tasks)
  BY DEF Tasks
<1>10. firstTasks \o <<"cleanup">> \o prefetches \in Seq(Tasks)
  BY <1>8, <1>9, ConcatProperties
<1> QED
  BY <1>2, <1>3, <1>4, <1>5, <1>10

\* initialize() keeps the types, whichever branch it takes.
LEMMA InitializationType ==
    ASSUME TypeOK, Initialization
    PROVE  TypeOK'
<1> USE DEF ThreadRecord, RequestRecord, WriteRecord, DriverRecord, CacheRecord,
        BudgetRecord
<1>1. CASE Activate
  <2>1. driver' \in DriverRecord
    BY <1>1 DEF Activate, ensureInitialized, TypeOK
  <2> QED
    BY <1>1, <2>1 DEF Activate, TypeOK
<1>2. CASE ReadControlTable
  <2>1. CASE disk.latest \in disk.manifests
    <3>1. <<"check">> \in Seq(Tasks)
      BY DEF Tasks
    <3>2. Hydrate(<<"check">>)
      BY <1>2, <2>1 DEF ReadControlTable
    <3> QED
      BY <1>2, <3>1, <3>2, HydrateType DEF ReadControlTable, TypeOK
  <2>2. CASE disk.latest \notin disk.manifests
    <3>1. driver' \in DriverRecord
      <4>1. driver' = [driver EXCEPT !.mode = "fetching"]
        BY <1>2, <2>2 DEF ReadControlTable
      <4> HIDE DEF DriverRecord
      <4> QED
        BY <4>1, DriverType
    <3> QED
      BY <1>2, <2>2, <3>1 DEF ReadControlTable, TypeOK
  <2> QED
    BY <2>1, <2>2
<1>3. CASE FetchFirstManifest
  <2>1. driver' \in DriverRecord
    BY <1>3, ZenonT(40) DEF FetchFirstManifest, TypeOK
  <2>2. /\ writes' \in Seq(WriteRecord)
        /\ budget' \in BudgetRecord
    <3>1. {deployed} \in SUBSET Versions /\ deployed \in Versions \cup {NoVersion}
      BY DEF TypeOK
    <3>2. Unpinned \in Pins
      BY DEF Unpinned, Pins
    <3>3. CASE Save("boot", {deployed}, Unpinned, deployed) /\ UNCHANGED budget
      BY <3>1, <3>2, <3>3, SaveType DEF TypeOK
    <3>4. CASE Fault /\ UNCHANGED writes
      BY <3>4, FaultType DEF TypeOK
    <3> QED
      BY <1>3, <3>3, <3>4 DEF FetchFirstManifest
  <2> QED
    BY <1>3, <2>1, <2>2 DEF FetchFirstManifest, TypeOK
<1>4. CASE StartOver
  <2>1. <<>> \in Seq(Tasks)
    BY EmptySeq
  <2> QED
    BY <1>4, <2>1, HydrateType DEF StartOver, TypeOK
<1> QED
  BY <1>1, <1>2, <1>3, <1>4 DEF Initialization

\* checkForUpdate and the messages that call it keep the types.
LEMMA CheckType ==
    ASSUME TypeOK, NEW t \in Threads,
           CheckForUpdates(t) \/ HandleMessage(t) \/ checkForUpdate(t)
    PROVE  TypeOK'
<1> USE DEF ThreadRecord, RequestRecord, WriteRecord, DriverRecord, CacheRecord,
        BudgetRecord
<1>1. thread \in [Threads -> ThreadRecord]
  BY DEF TypeOK
<1>2. \A a \in {"init", "manifest", "install"} : \A h \in Versions \cup {NoVersion} :
         /\ [thread[t] EXCEPT !.at = a] \in ThreadRecord
         /\ [thread[t] EXCEPT !.at = a, !.hash = h] \in ThreadRecord
  BY <1>1
<1> HIDE DEF ThreadRecord, DriverRecord
<1>3. CASE CheckForUpdates(t)
  <2>1. driver' \in DriverRecord
    BY <1>3 DEF CheckForUpdates, ensureInitialized, TypeOK, DriverRecord
  <2>2. thread' \in [Threads -> ThreadRecord]
    BY <1>1, <1>2, <1>3 DEF CheckForUpdates
  <2> QED
    BY <1>3, <2>1, <2>2 DEF CheckForUpdates, TypeOK, DriverRecord, ThreadRecord
<1>4. CASE HandleMessage(t)
  <2>1. thread' \in [Threads -> ThreadRecord]
    BY <1>1, <1>2, <1>4, FreeType DEF HandleMessage
  <2> QED
    BY <1>4, <2>1 DEF HandleMessage, TypeOK, ThreadRecord
<1>5. CASE checkForUpdate(t)
  <2>1. thread' \in [Threads -> ThreadRecord]
    <3>1. thread' = [thread EXCEPT ![t].at = "install", ![t].hash = deployed] \/ Continue(t)
      BY <1>5 DEF checkForUpdate
    <3>2. deployed \in Versions \cup {NoVersion}
      BY DEF TypeOK
    <3> QED
      BY <1>1, <1>2, <3>1, <3>2, ContinueType
  <2>2. driver' \in DriverRecord
    BY <1>5, DriverType DEF checkForUpdate
  <2>3. cache' \in CacheRecord
    <3>1. cache \in CacheRecord /\ deployed \in Versions
      BY DEF TypeOK, CacheRecord
    <3>2. \/ UNCHANGED cache
          \/ \E held \in {cache.held \cup {deployed}, cache.held \ {deployed}} :
                cache' = [cache EXCEPT !.detached = @ \ {deployed}, !.held = held]
      BY <1>5 DEF checkForUpdate
    <3> QED
      BY <3>1, <3>2 DEF CacheRecord
  <2>4. budget' \in BudgetRecord
    <3>1. Fault \/ UNCHANGED budget
      BY <1>5 DEF checkForUpdate
    <3> QED
      BY <3>1, FaultType DEF TypeOK
  <2> QED
    BY <1>5, <2>1, <2>2, <2>3, <2>4
    DEF checkForUpdate, TypeOK, ThreadRecord, DriverRecord, CacheRecord, BudgetRecord
<1> QED
  BY <1>3, <1>4, <1>5

\* versionFailed() keeps the driver's types.
LEMMA VersionFailedType ==
    ASSUME TypeOK, NEW v, versionFailed(v)
    PROVE  driver' \in DriverRecord
BY DEF TypeOK, versionFailed, DriverRecord

\* setupUpdate and scheduleInitialization keep the types.
LEMMA InstallType ==
    ASSUME TypeOK, NEW t \in Threads,
           setupUpdate(t) \/ UpdateSaved(t) \/ initializeFully(t)
    PROVE  TypeOK'
<1> DEFINE h == thread[t].hash
<1>1. /\ thread \in [Threads -> ThreadRecord] /\ driver \in DriverRecord
      /\ cache \in CacheRecord /\ budget \in BudgetRecord
  BY DEF TypeOK, ThreadRecord, DriverRecord, CacheRecord, BudgetRecord
<1>2. [thread[t] EXCEPT !.at = "sync"] \in ThreadRecord
  BY <1>1 DEF ThreadRecord
<1>3. h \in cache.held \cup {deployed} => h \in Versions
  BY <1>1 DEF TypeOK, CacheRecord
<1>4. Continue(t) => thread' \in [Threads -> ThreadRecord]
  BY ContinueType
<1>5. Fault \/ UNCHANGED budget => budget' \in BudgetRecord
  BY <1>1, FaultType
<1>6. CASE setupUpdate(t)
  <2>1. CASE h \in cache.held \cup {deployed} /\ Save(t, driver'.versions, pin, h)
             /\ driver' = [driver EXCEPT !.versions = @ \cup {h}, !.latest = h, !.degraded = FALSE]
             /\ cache' = [cache EXCEPT !.held = @ \cup {h},
                                       !.stored = IF h \in cache.detached THEN @ ELSE @ \cup {h}]
             /\ thread' = [thread EXCEPT ![t].at = "sync"] /\ UNCHANGED budget
    <3>1. driver' \in DriverRecord
      BY <1>1, <1>3, <2>1 DEF DriverRecord
    <3>2. writes' \in Seq(WriteRecord)
      <4>1. driver'.versions \in SUBSET Versions /\ pin \in Pins
        BY <3>1 DEF DriverRecord, TypeOK
      <4> QED
        BY <1>3, <2>1, <4>1, SaveType
    <3>3. cache' \in CacheRecord
      BY <1>1, <1>3, <2>1 DEF CacheRecord
    <3>4. thread' \in [Threads -> ThreadRecord]
      BY <1>1, <1>2, <2>1
    <3> QED
      BY <1>6, <2>1, <3>1, <3>2, <3>3, <3>4
      DEF setupUpdate, TypeOK, ThreadRecord, DriverRecord, CacheRecord, WriteRecord
  <2>2. CASE /\ driver' = [driver EXCEPT !.degraded = TRUE]
             /\ Fault \/ UNCHANGED budget
             /\ Continue(t) /\ UNCHANGED <<cache, writes>>
    <3>1. driver' \in DriverRecord
      BY <1>1, <2>2 DEF DriverRecord
    <3> QED
      BY <1>4, <1>5, <1>6, <2>2, <3>1
      DEF setupUpdate, TypeOK, ThreadRecord, DriverRecord, BudgetRecord
  <2> QED
    BY <1>6, <2>1, <2>2 DEF setupUpdate
<1>7. CASE UpdateSaved(t)
  BY <1>4, <1>7 DEF UpdateSaved, TypeOK, ThreadRecord
<1>8. CASE initializeFully(t)
  <2>1. driver' \in DriverRecord
    BY <1>1, <1>8, VersionFailedType DEF initializeFully
  <2>2. cache' \in CacheRecord
    <3>1. CASE h \in Versions /\ cache' = [cache EXCEPT !.held = @ \cup {h},
                      !.stored = IF h \in cache.detached THEN @ ELSE @ \cup {h}]
      BY <1>1, <3>1 DEF CacheRecord
    <3> QED
      BY <1>1, <1>3, <1>8, <3>1 DEF initializeFully
  <2>3. thread' \in [Threads -> ThreadRecord] /\ budget' \in BudgetRecord
    BY <1>4, <1>5, <1>8 DEF initializeFully
  <2> QED
    BY <1>8, <2>1, <2>2, <2>3
    DEF initializeFully, TypeOK, ThreadRecord, DriverRecord, CacheRecord, BudgetRecord
<1> QED
  BY <1>6, <1>7, <1>8

\* cleanupCaches keeps the types.
LEMMA CleanupType ==
    ASSUME TypeOK, NEW t \in Threads,
           thread[t].at \in {"names", "delete"} => thread[t].set \subseteq Versions,
           MatchAll(t) \/ dropObsolete(t) \/ ListCaches(t) \/ DeleteCaches(t)
    PROVE  TypeOK'
<1>1. /\ thread \in [Threads -> ThreadRecord] /\ driver \in DriverRecord
      /\ cache \in CacheRecord
  BY DEF TypeOK, ThreadRecord, DriverRecord, CacheRecord
<1>2. \A a \in {"obsolete", "sync", "names", "delete"} : \A s \in SUBSET (Versions \cup Clients) :
         [thread[t] EXCEPT !.at = a, !.set = s] \in ThreadRecord
  BY <1>1 DEF ThreadRecord
<1>3. CASE MatchAll(t)
  <2>1. thread' \in [Threads -> ThreadRecord]
    BY <1>1, <1>2, <1>3 DEF MatchAll
  <2> QED
    BY <1>3, <2>1 DEF MatchAll, TypeOK, ThreadRecord
<1>4. CASE dropObsolete(t)
  <2>1. pin' \in Pins
    BY <1>4 DEF dropObsolete, TypeOK, Pins
  <2>2. driver' \in DriverRecord
    BY <1>1, <1>4 DEF dropObsolete, DriverRecord
  <2>3. Save(t, driver'.versions, pin', driver.latest)
    BY <1>4 DEF dropObsolete
  <2>4. writes' \in Seq(WriteRecord)
    <3>1. driver'.versions \in SUBSET Versions /\ driver.latest \in Versions \cup {NoVersion}
      BY <1>1, <2>2 DEF DriverRecord
    <3> QED
      BY <2>1, <2>3, <3>1, SaveType
  <2>5. thread' \in [Threads -> ThreadRecord]
    BY <1>1, <1>2, <1>4 DEF dropObsolete
  <2> QED
    BY <1>4, <2>1, <2>2, <2>4, <2>5
    DEF dropObsolete, TypeOK, ThreadRecord, DriverRecord, WriteRecord
<1>5. CASE ListCaches(t)
  <2>1. CacheNames \in SUBSET (Versions \cup Clients)
    BY <1>1 DEF CacheNames, CacheRecord
  <2>2. thread[t].set \ driver.versions \in SUBSET (Versions \cup Clients)
    BY <1>1 DEF ThreadRecord
  <2>3. thread' \in [Threads -> ThreadRecord]
    BY <1>1, <1>2, <1>5, <2>1, <2>2 DEF ListCaches
  <2> QED
    BY <1>5, <2>3 DEF ListCaches, TypeOK, ThreadRecord
<1>6. CASE DeleteCaches(t)
  <2>1. /\ cache' = [cache EXCEPT !.stored = @ \ thread[t].set,
                                  !.detached = @ \cup thread[t].set]
       /\ thread[t].set \subseteq Versions
    BY <1>6 DEF DeleteCaches
  <2>2. cache' \in CacheRecord
    BY <1>1, <2>1 DEF CacheRecord
  <2>3. thread' \in [Threads -> ThreadRecord]
    BY <1>6, ContinueType DEF DeleteCaches
  <2> QED
    BY <1>6, <2>2, <2>3 DEF DeleteCaches, TypeOK, ThreadRecord, CacheRecord
<1> QED
  BY <1>3, <1>4, <1>5, <1>6

\* onFetch and assignVersion keep the types.
LEMMA RequestType ==
    ASSUME TypeOK, NEW c \in Clients,
           StartRequest(c) \/ HandleUninitialized(c) \/ assignVersion(c) \/ Close(c)
    PROVE  TypeOK'
<1>1. /\ request \in [Clients -> RequestRecord] /\ driver \in DriverRecord
      /\ idle \in [queue: Seq(Tasks), timer: BOOLEAN] /\ NoVersion \in Versions \cup {NoVersion}
  BY DEF TypeOK, RequestRecord, DriverRecord
<1>2. [request EXCEPT ![c] = NoRequest] \in [Clients -> RequestRecord]
  BY <1>1, NoRequestType
<1>3. CASE StartRequest(c)
  <2>1. request' \in [Clients -> RequestRecord]
    <3>1. \A kind \in {"navigate", "resource", "activate"} :
             [NoRequest EXCEPT !.at = "init", !.kind = kind] \in RequestRecord
      BY DEF NoRequest, RequestRecord
    <3> QED
      BY <1>1, <1>3, <3>1 DEF StartRequest
  <2>2. driver' \in DriverRecord
    BY <1>1, <1>3 DEF StartRequest, ensureInitialized, DriverRecord
  <2>3. page' \in [Clients -> {"new", "loading", "open", "closed"}]
    BY <1>3 DEF StartRequest, TypeOK
  <2> QED
    BY <1>3, <2>1, <2>2, <2>3 DEF StartRequest, TypeOK, RequestRecord, DriverRecord
<1>4. CASE HandleUninitialized(c)
  <2>1. page' \in [Clients -> {"new", "loading", "open", "closed"}] /\ sees' \in Pins
    BY <1>1, <1>4, RespondType DEF HandleUninitialized
  <2>2. request' \in [Clients -> RequestRecord]
    BY <1>2, <1>4 DEF HandleUninitialized
  <2> QED
    BY <1>4, <2>1, <2>2 DEF HandleUninitialized, TypeOK, RequestRecord
<1>5. CASE assignVersion(c)
  <2>1. Scheduled(c) \in Seq(Tasks)
    <3>1. "navigationCheck" \in Tasks
      BY DEF Tasks
    <3> QED
      BY <1>1, <3>1, AppendProperties DEF Scheduled
  <2>2. driver' \in DriverRecord
    BY <1>1, <1>5 DEF assignVersion, DriverRecord
  <2>3. idle' \in [queue: Seq(Tasks), timer: BOOLEAN]
    <3>1. idle' = [idle EXCEPT !.queue = Scheduled(c)] \/ idle' = trigger(Scheduled(c))
      BY <1>5 DEF assignVersion
    <3>2. (idle.timer \/ Scheduled(c) # <<>>) \in BOOLEAN
      BY Zenon
    <3>3. trigger(Scheduled(c)) \in [queue: Seq(Tasks), timer: BOOLEAN]
      BY <2>1, <3>2 DEF trigger
    <3> QED
      BY <1>1, <2>1, <3>1, <3>3
  <2>4. request' \in [Clients -> RequestRecord] /\ pin' \in Pins /\ writes' \in Seq(WriteRecord)
    <3>1. CASE PinToLatest(c)
      BY <3>1, PinToLatestType
    <3>2. CASE /\ UNCHANGED <<pin, writes>>
               /\ \/ request' = [request EXCEPT ![c].at = "get"]
                  \/ ServeFrom(c, pin[c])
                  \/ request' = [request EXCEPT ![c] = NoRequest]
      <4>1. [request[c] EXCEPT !.at = "get"] \in RequestRecord
        BY <1>1 DEF RequestRecord
      <4>2. pin[c] \in Versions \cup {NoVersion}
        BY DEF TypeOK, Pins
      <4>3. request' \in [Clients -> RequestRecord]
        BY <1>1, <1>2, <3>2, <4>1, <4>2, ServeFromType
      <4> QED
        BY <3>2, <4>3 DEF TypeOK, WriteRecord
    <3> QED
      BY <1>5, <3>1, <3>2 DEF assignVersion
  <2>5. page' \in [Clients -> {"new", "loading", "open", "closed"}] /\ sees' \in Pins
    <3>1. Respond(c, NoVersion) \/ UNCHANGED <<page, sees>>
      BY <1>5 DEF assignVersion
    <3> QED
      BY <1>1, <3>1, RespondType DEF TypeOK
  <2> QED
    BY <1>5, <2>2, <2>3, <2>4, <2>5
    DEF assignVersion, TypeOK, RequestRecord, DriverRecord, WriteRecord
<1>6. CASE Close(c)
  <2>1. page' \in [Clients -> {"new", "loading", "open", "closed"}] /\ sees' \in Pins
    BY <1>6 DEF Close, TypeOK, Pins
  <2> QED
    BY <1>6, <2>1 DEF Close, TypeOK
<1> QED
  BY <1>3, <1>4, <1>5, <1>6

\* The rest of handleFetch and updateClient keep the types.
LEMMA ResponseType ==
    ASSUME TypeOK, NEW c \in Clients,
           GetClient(c) \/ updateClient(c) \/ PinSaved(c) \/ handleFetch(c)
    PROVE  TypeOK'
<1>1. /\ request \in [Clients -> RequestRecord] /\ driver \in DriverRecord
      /\ cache \in CacheRecord /\ budget \in BudgetRecord
      /\ idle \in [queue: Seq(Tasks), timer: BOOLEAN] /\ NoVersion \in Versions \cup {NoVersion}
  BY DEF TypeOK, RequestRecord, DriverRecord, CacheRecord, BudgetRecord
<1>2. [request EXCEPT ![c] = NoRequest] \in [Clients -> RequestRecord]
  BY <1>1, NoRequestType
<1>3. ServeFrom(c, driver.latest) => request' \in [Clients -> RequestRecord]
  <2>1. driver.latest \in Versions \cup {NoVersion}
    BY <1>1 DEF DriverRecord
  <2> QED
    BY <2>1, ServeFromType
<1>4. ASSUME \/ PinToLatest(c)
             \/ ServeFrom(c, driver.latest) /\ UNCHANGED <<pin, writes>>
             \/ request' = [request EXCEPT ![c] = NoRequest] /\ UNCHANGED <<pin, writes>>
      PROVE  /\ request' \in [Clients -> RequestRecord]
             /\ pin' \in Pins /\ writes' \in Seq(WriteRecord)
  <2>1. pin \in Pins /\ writes \in Seq(WriteRecord)
    BY DEF TypeOK, WriteRecord
  <2> QED
    BY <1>2, <1>3, <1>4, <2>1, PinToLatestType
<1>5. CASE GetClient(c)
  <2>1. request' \in [Clients -> RequestRecord] /\ pin' \in Pins /\ writes' \in Seq(WriteRecord)
    <3>1. \/ PinToLatest(c)
          \/ ServeFrom(c, driver.latest) /\ UNCHANGED <<pin, writes>>
          \/ request' = [request EXCEPT ![c] = NoRequest] /\ UNCHANGED <<pin, writes>>
      BY <1>5 DEF GetClient
    <3> QED
      BY <1>4, <3>1
  <2> QED
    BY <1>5, <2>1 DEF GetClient, TypeOK, RequestRecord, WriteRecord
<1>6. CASE updateClient(c)
  <2>1. sees' \in Pins
    BY <1>6 DEF updateClient, TypeOK, Pins
  <2>2. request' \in [Clients -> RequestRecord] /\ pin' \in Pins /\ writes' \in Seq(WriteRecord)
    <3>1. \/ PinToLatest(c)
          \/ ServeFrom(c, driver.latest) /\ UNCHANGED <<pin, writes>>
          \/ request' = [request EXCEPT ![c] = NoRequest] /\ UNCHANGED <<pin, writes>>
      BY <1>6 DEF updateClient
    <3> QED
      BY <1>4, <3>1
  <2> QED
    BY <1>6, <2>1, <2>2 DEF updateClient, TypeOK, RequestRecord, WriteRecord
<1>7. CASE PinSaved(c)
  <2>1. request' \in [Clients -> RequestRecord]
    BY <1>2, <1>3, <1>7 DEF PinSaved
  <2> QED
    BY <1>7, <2>1 DEF PinSaved, TypeOK, RequestRecord
<1>8. CASE handleFetch(c)
  <2> DEFINE v == request[c].version
  <2>1. v \in Versions \cup {NoVersion}
    BY <1>1 DEF RequestRecord
  <2>2. request' \in [Clients -> RequestRecord] /\ idle' \in [queue: Seq(Tasks), timer: BOOLEAN]
    BY <1>1, <1>2, <1>8 DEF handleFetch, Finish, trigger
  <2>3. page' \in [Clients -> {"new", "loading", "open", "closed"}] /\ sees' \in Pins
    BY <1>1, <1>8, <2>1, RespondType DEF handleFetch
  <2>4. driver' \in DriverRecord /\ budget' \in BudgetRecord
    BY <1>1, <1>8, VersionFailedType, FaultType DEF handleFetch
  <2>5. cache' \in CacheRecord
    <3>1. v \in cache.held \cup {deployed} => v \in Versions
      BY <1>1 DEF TypeOK, CacheRecord
    <3>2. CASE /\ v \in Versions
               /\ cache' = [cache EXCEPT !.held = @ \cup {v},
                     !.stored = IF v \in cache.held \cup cache.detached THEN @ ELSE @ \cup {v}]
      BY <1>1, <3>2 DEF CacheRecord
    <3> QED
      BY <1>1, <1>8, <3>1, <3>2 DEF handleFetch
  <2> QED
    BY <1>8, <2>2, <2>3, <2>4, <2>5
    DEF handleFetch, TypeOK, RequestRecord, DriverRecord, CacheRecord, BudgetRecord
<1> QED
  BY <1>5, <1>6, <1>7, <1>8

\* A deployment and a stop of the worker keep the types.
LEMMA EnvironmentType ==
    ASSUME TypeOK, Deploy \/ Crash
    PROVE  TypeOK'
<1>1. CASE Deploy
  <2>1. deployed' \in Versions
    BY <1>1 DEF Deploy
  <2>2. budget' \in BudgetRecord
    <3>1. budget \in BudgetRecord
      BY DEF TypeOK, BudgetRecord
    <3>2. budget.deploys > 0 /\ budget' = [budget EXCEPT !.deploys = @ - 1]
      BY <1>1 DEF Deploy
    <3> QED
      BY <3>1, <3>2, BoundsAssumption DEF BudgetRecord
  <2> QED
    BY <1>1, <2>1, <2>2 DEF Deploy, TypeOK, BudgetRecord
<1>2. CASE Crash
  <2>1. driver' \in DriverRecord
    BY <1>2 DEF Crash, DriverRecord
  <2>4. budget' \in BudgetRecord
    <3>1. budget \in BudgetRecord
      BY DEF TypeOK, BudgetRecord
    <3>2. budget.crashes > 0 /\ budget' = [budget EXCEPT !.crashes = @ - 1]
      BY <1>2 DEF Crash
    <3> QED
      BY <3>1, <3>2, BoundsAssumption DEF BudgetRecord
  <2>2. /\ writes' \in Seq(WriteRecord) /\ idle' \in [queue: Seq(Tasks), timer: BOOLEAN]
        /\ thread' \in [Threads -> ThreadRecord] /\ request' \in [Clients -> RequestRecord]
    BY <1>2, FreeType, NoRequestType, EmptySeq DEF Crash
  <2>3. pin' \in Pins /\ sees' \in Pins
        /\ page' \in [Clients -> {"new", "loading", "open", "closed"}]
    BY <1>2 DEF Crash, TypeOK, Pins, Unpinned
  <2> QED
    BY <1>2, <2>1, <2>2, <2>3, <2>4
    DEF Crash, TypeOK, BudgetRecord, DriverRecord, ThreadRecord, RequestRecord, WriteRecord
<1> QED
  BY <1>1, <1>2

----------------------------------------------------------------------------
(* The writes that are under way. *)

\* What the control table will hold once these writes are finished.
Saving == IF writes = <<>> THEN disk ELSE Last(writes).value

\* An older write has no more left to do than a younger one, and what the
\* youngest one has done is what the table holds.
WritesOK ==
    /\ \A i, j \in DOMAIN writes : i < j => writes[i].left \subseteq writes[j].left
    /\ writes # <<>> =>
          \A k \in Keys \ Last(writes).left : disk[k] = Last(writes).value[k]

\* A commit marks one write, or removes the first one.
LEMMA CommitCases ==
    ASSUME TypeOK, WritesOK, NEW k \in Keys, Commit(k)
    PROVE  \E i \in 1..Len(writes) :
              /\ k \in writes[i].left
              /\ \A j \in 1..(i - 1) : k \notin writes[j].left
              /\ disk' = [disk EXCEPT ![k] = writes[i].value[k]]
              /\ \/ /\ writes[i].left # {k}
                    /\ Len(writes') = Len(writes)
                    /\ \A j \in 1..Len(writes) : j # i => writes'[j] = writes[j]
                    /\ writes'[i] = [writes[i] EXCEPT !.left = @ \ {k}]
                 \/ /\ writes[i].left = {k} /\ i = 1
                    /\ Len(writes') = Len(writes) - 1
                    /\ \A j \in 1..(Len(writes) - 1) : writes'[j] = writes[j + 1]
<1>1. writes \in Seq(WriteRecord)
  BY DEF TypeOK, WriteRecord
<1>2. PICK i \in DOMAIN writes :
        /\ k \in writes[i].left
        /\ \A j \in 1..(i - 1) : k \notin writes[j].left
        /\ disk' = [disk EXCEPT ![k] = writes[i].value[k]]
        /\ writes' = IF writes[i].left = {k} THEN RemoveAt(writes, i)
                     ELSE [writes EXCEPT ![i].left = @ \ {k}]
  BY DEF Commit
<1>3. i \in 1..Len(writes) /\ Len(writes) \in Nat /\ DOMAIN writes = 1..Len(writes)
  BY <1>1, LenProperties
<1>4. \A j \in 1..Len(writes) : writes[j] \in WriteRecord
  BY <1>1, ElementOfSeq
<1>5. CASE writes[i].left # {k}
  <2> DEFINE w == [writes[i] EXCEPT !.left = @ \ {k}]
  <2>1. writes[i].left \ {k} # {}
    BY <1>2, <1>5
  <2>2. w \in WriteRecord
    BY <1>3, <1>4, <2>1 DEF WriteRecord
  <2>3. writes' = [writes EXCEPT ![i] = w]
    BY <1>2, <1>5
  <2> HIDE DEF w
  <2>4. /\ Len(writes') = Len(writes)
        /\ \A j \in 1..Len(writes) : writes'[j] = IF j = i THEN w ELSE writes[j]
    BY <1>1, <1>3, <2>2, <2>3, ExceptSeq
  <2> QED
    BY <1>2, <1>3, <1>5, <2>4 DEF w
<1>6. CASE writes[i].left = {k}
  <2>1. i = 1
    <3>1. SUFFICES ASSUME i # 1 PROVE FALSE
      OBVIOUS
    <3>2. 1 \in 1..Len(writes) /\ 1 \in 1..(i - 1) /\ 1 < i
      BY <1>3, <3>1
    <3>3. writes[1].left \subseteq {k} /\ k \notin writes[1].left
      BY <1>2, <1>3, <1>6, <3>2 DEF WritesOK
    <3>4. writes[1].left # {}
      BY <1>4, <3>2 DEF WriteRecord
    <3> QED
      BY <3>3, <3>4
  <2>2. /\ Len(writes') = Len(writes) - 1
        /\ \A j \in 1..(Len(writes) - 1) : writes'[j] = IF j < i THEN writes[j] ELSE writes[j + 1]
    BY <1>1, <1>2, <1>6, RemoveAtType
  <2>3. \A j \in 1..(Len(writes) - 1) : writes'[j] = writes[j + 1]
    BY <1>3, <2>1, <2>2
  <2> QED
    BY <1>2, <1>3, <1>6, <2>1, <2>2, <2>3
<1> QED
  BY <1>5, <1>6

\* Committing changes nothing about what will be saved.
LEMMA CommitSaving ==
    ASSUME TypeOK, WritesOK, NEW k \in Keys, Commit(k)
    PROVE  WritesOK' /\ Saving' = Saving
<1>1. TypeOK'
  BY CommitType
<1>2. /\ writes \in Seq(WriteRecord) /\ Len(writes) \in Nat /\ DOMAIN writes = 1..Len(writes)
      /\ writes' \in Seq(WriteRecord) /\ Len(writes') \in Nat /\ DOMAIN writes' = 1..Len(writes')
  <2>1. writes \in Seq(WriteRecord) /\ writes' \in Seq(WriteRecord)
    BY <1>1 DEF TypeOK, WriteRecord
  <2> QED
    BY <2>1, LenProperties
<1>3. PICK i \in 1..Len(writes) :
              /\ k \in writes[i].left
              /\ \A j \in 1..(i - 1) : k \notin writes[j].left
              /\ disk' = [disk EXCEPT ![k] = writes[i].value[k]]
              /\ \/ /\ writes[i].left # {k}
                    /\ Len(writes') = Len(writes)
                    /\ \A j \in 1..Len(writes) : j # i => writes'[j] = writes[j]
                    /\ writes'[i] = [writes[i] EXCEPT !.left = @ \ {k}]
                 \/ /\ writes[i].left = {k} /\ i = 1
                    /\ Len(writes') = Len(writes) - 1
                    /\ \A j \in 1..(Len(writes) - 1) : writes'[j] = writes[j + 1]
  BY CommitCases
<1>4. /\ \A j \in 1..Len(writes) : writes[j] \in WriteRecord
      /\ disk \in Snapshot /\ DOMAIN disk = Keys
  BY <1>2, ElementOfSeq DEF TypeOK, Snapshot, Keys
<1>5. writes # <<>> /\ Len(writes) >= 1 /\ (writes' = <<>> <=> Len(writes') = 0)
  <2>1. i \in 1..Len(writes)
    BY <1>3
  <2>2. Len(writes) >= 1
    BY <1>2, <2>1
  <2>3. writes # <<>>
    BY <2>2, EmptySeq
  <2>4. writes' = <<>> <=> Len(writes') = 0
    BY <1>2, EmptySeq
  <2> QED
    BY <2>2, <2>3, <2>4
<1>6. CASE writes[i].left # {k}
  <2>1. /\ Len(writes') = Len(writes)
        /\ \A j \in 1..Len(writes) : j # i => writes'[j] = writes[j]
        /\ writes'[i] = [writes[i] EXCEPT !.left = @ \ {k}]
    BY <1>3, <1>6
  <2>2. /\ writes'[i].left = writes[i].left \ {k} /\ writes'[i].value = writes[i].value
    BY <1>3, <1>4, <2>1 DEF WriteRecord
  <2>3. \A a, b \in 1..Len(writes) : a < b => writes'[a].left \subseteq writes'[b].left
    <3>1. SUFFICES ASSUME NEW a \in 1..Len(writes), NEW b \in 1..Len(writes), a < b
                   PROVE  writes'[a].left \subseteq writes'[b].left
      OBVIOUS
    <3>2. writes[a].left \subseteq writes[b].left
      BY <1>2, <3>1 DEF WritesOK
    <3>3. CASE b = i
      <4>1. k \notin writes[a].left
        <5>1. a \in 1..(i - 1)
          BY <1>2, <3>1, <3>3
        <5> QED
          BY <1>3, <5>1
      <4> QED
        BY <2>1, <2>2, <3>1, <3>2, <3>3, <4>1
    <3>4. CASE b # i
      BY <2>1, <2>2, <3>2, <3>4
    <3> QED
      BY <3>3, <3>4
  <2>4. Last(writes') = writes'[Len(writes)] /\ Last(writes) = writes[Len(writes)]
    BY <2>1 DEF Last
  <2>5. Last(writes').value = Last(writes).value
    <3>1. Len(writes) \in 1..Len(writes)
      BY <1>2, <1>5
    <3> QED
      BY <2>1, <2>2, <2>4, <3>1
  <2>6. \A x \in Keys \ Last(writes').left : disk'[x] = Last(writes').value[x]
    <3>1. SUFFICES ASSUME NEW x \in Keys \ Last(writes').left
                   PROVE  disk'[x] = Last(writes').value[x]
      OBVIOUS
    <3>2. CASE i = Len(writes)
      <4>1. x \notin writes[i].left \/ x = k
        BY <2>2, <2>4, <3>1, <3>2
      <4> QED
        BY <1>3, <1>4, <1>5, <2>2, <2>4, <3>1, <3>2, <4>1 DEF WritesOK
    <3>3. CASE i # Len(writes)
      <4>1. i < Len(writes) /\ Len(writes) \in 1..Len(writes)
        <5>1. i \in 1..Len(writes)
          BY <1>3
        <5>2. Len(writes) \in Nat
          BY <1>2
        <5> QED
          BY <3>3, <5>1, <5>2
      <4>2. k \in writes[Len(writes)].left /\ writes'[Len(writes)] = writes[Len(writes)]
        BY <1>2, <1>3, <2>1, <4>1, <3>3 DEF WritesOK
      <4>3. x # k /\ x \notin Last(writes).left
        BY <2>4, <3>1, <4>2
      <4> QED
        BY <1>3, <1>4, <1>5, <2>5, <3>1, <4>3 DEF WritesOK
    <3> QED
      BY <3>2, <3>3
  <2>7. WritesOK'
    BY <1>2, <2>1, <2>3, <2>6 DEF WritesOK
  <2> QED
    BY <1>5, <1>2, <2>1, <2>5, <2>7 DEF Saving
<1>7. CASE writes[i].left = {k}
  <2>1. /\ i = 1 /\ Len(writes') = Len(writes) - 1
        /\ \A j \in 1..(Len(writes) - 1) : writes'[j] = writes[j + 1]
    BY <1>3, <1>7
  <2>2. CASE Len(writes) = 1
    <3>1. writes' = <<>> /\ Last(writes) = writes[1] /\ writes[1].left = {k}
      BY <1>5, <1>7, <2>1, <2>2 DEF Last
    <3>2. \A x \in Keys : disk'[x] = writes[1].value[x]
      BY <1>3, <1>4, <1>5, <2>1, <3>1 DEF WritesOK
    <3>3. disk' \in Snapshot /\ writes[1].value \in Snapshot
      BY <1>1, <1>4, <2>2 DEF TypeOK, WriteRecord
    <3>4. disk' = writes[1].value
      BY <3>2, <3>3 DEF Snapshot, Keys
    <3>5. DOMAIN writes' = {}
      BY <3>1
    <3> QED
      BY <1>5, <3>1, <3>4, <3>5 DEF Saving, WritesOK
  <2>3. CASE Len(writes) > 1
    <3>1. /\ Last(writes') = writes[Len(writes)] /\ Last(writes) = writes[Len(writes)]
          /\ writes' # <<>>
      <4>1. Len(writes') \in 1..(Len(writes) - 1) /\ Len(writes') + 1 = Len(writes)
        BY <1>2, <2>1, <2>3
      <4> QED
        BY <1>5, <2>1, <4>1 DEF Last
    <3>2. k \in Last(writes).left
      BY <1>2, <1>7, <2>1, <2>3, <3>1 DEF WritesOK
    <3>3. \A x \in Keys \ Last(writes').left : disk'[x] = Last(writes').value[x]
      BY <1>3, <1>4, <1>5, <3>1, <3>2 DEF WritesOK
    <3>4. \A a, b \in 1..Len(writes') : a < b => writes'[a].left \subseteq writes'[b].left
      <4>1. SUFFICES ASSUME NEW a \in 1..Len(writes'), NEW b \in 1..Len(writes'), a < b
                     PROVE  writes'[a].left \subseteq writes'[b].left
        OBVIOUS
      <4>2. /\ a + 1 \in 1..Len(writes) /\ b + 1 \in 1..Len(writes) /\ a + 1 < b + 1
            /\ a \in 1..(Len(writes) - 1) /\ b \in 1..(Len(writes) - 1)
        BY <1>2, <2>1, <4>1
      <4>3. writes'[a] = writes[a + 1] /\ writes'[b] = writes[b + 1]
        BY <2>1, <4>2
      <4>4. writes[a + 1].left \subseteq writes[b + 1].left
        BY <1>2, <4>2 DEF WritesOK
      <4> QED
        BY <4>3, <4>4
    <3>5. WritesOK'
      BY <1>2, <3>3, <3>4 DEF WritesOK
    <3> QED
      BY <1>5, <3>1, <3>5 DEF Saving
  <2> QED
    BY <1>2, <1>5, <2>2, <2>3
<1> QED
  BY <1>6, <1>7

\* Saving is what makes memory what will be saved.
LEMMA SaveSaving ==
    ASSUME TypeOK, WritesOK, UNCHANGED disk,
           NEW who \in Clients \cup Threads \cup {"boot"},
           NEW versions \in SUBSET Versions, NEW pins \in Pins,
           NEW latest \in Versions \cup {NoVersion},
           Save(who, versions, pins, latest)
    PROVE  /\ WritesOK'
           /\ Saving' = [manifests |-> versions, assignments |-> pins, latest |-> latest]
           /\ Len(writes') = Len(writes) + 1
           /\ DOMAIN writes' = 1..(Len(writes) + 1)
           /\ DOMAIN writes = 1..Len(writes) /\ Len(writes) \in Nat
           /\ \A i \in 1..Len(writes) : writes'[i] = writes[i]
           /\ writes'[Len(writes) + 1] = [by |-> who, left |-> Keys, value |->
                 [manifests |-> versions, assignments |-> pins, latest |-> latest]]
<1> DEFINE w == [by |-> who, left |-> Keys, value |->
                 [manifests |-> versions, assignments |-> pins, latest |-> latest]]
<1>1. writes \in Seq(WriteRecord) /\ writes' \in Seq(WriteRecord)
  BY SaveType DEF TypeOK, WriteRecord
<1>2. writes' = Append(writes, w)
  BY DEF Save
<1>3. /\ Len(writes) \in Nat /\ DOMAIN writes = 1..Len(writes)
      /\ DOMAIN writes' = 1..Len(writes')
      /\ \A i \in 1..Len(writes) : writes[i].left \subseteq Keys
  <2>1. \A i \in 1..Len(writes) : writes[i] \in WriteRecord
    BY <1>1, ElementOfSeq
  <2> QED
    BY <1>1, <2>1, LenProperties DEF WriteRecord
<1>4. w.left = Keys /\ w.value = [manifests |-> versions, assignments |-> pins, latest |-> latest]
  OBVIOUS
<1> HIDE DEF w
<1>5. /\ Len(writes') = Len(writes) + 1
      /\ \A i \in 1..Len(writes) : writes'[i] = writes[i]
      /\ writes'[Len(writes) + 1] = w
  BY <1>1, <1>2
<1>6. writes' # <<>> /\ Last(writes') = w
  BY <1>3, <1>5, EmptySeq DEF Last
<1>7. WritesOK'
  BY <1>3, <1>4, <1>5, <1>6 DEF WritesOK
<1>8. Saving' = w.value
  BY <1>6 DEF Saving
<1> QED
  BY <1>3, <1>4, <1>5, <1>7, <1>8 DEF w

----------------------------------------------------------------------------
(* The inductive invariant. *)

\* What a handler may do in which mode: before the worker is ready everything
\* waits, and only the first state is being written.
ControlOK ==
    /\ \A t \in Threads : thread[t].at \in {"names", "delete"} => thread[t].set \subseteq Versions
    /\ driver.mode # "ready" =>
          /\ ~idle.timer
          /\ \A t \in Threads : thread[t].at \in {"free", "init"}
          /\ \A c \in Clients : request[c].at \in {"none", "init"}
    /\ driver.mode \notin {"ready", "resetting"} => writes = <<>>
    /\ driver.mode = "resetting" => /\ \A i \in DOMAIN writes : writes[i].by = "boot"
                                    /\ Saving.latest \in Saving.manifests

\* A request that waits for its pin to be saved: a write of its own is under way
\* or done, and whatever was or will be written since has the same pin.
PinsFollowed ==
    \A c \in Clients : request[c].at = "sync" /\ pin[c] # NoVersion =>
        \/ \E i \in DOMAIN writes :
              /\ writes[i].by = c
              /\ \A j \in DOMAIN writes : j >= i => writes[j].value.assignments[c] = pin[c]
              /\ "assignments" \notin writes[i].left => disk.assignments[c] = pin[c]
        \/ /\ disk.assignments[c] = pin[c]
           /\ \A j \in DOMAIN writes : writes[j].value.assignments[c] = pin[c]

IInv ==
    /\ TypeOK
    /\ ControlOK
    /\ WritesOK
    /\ ClientsHaveVersions
    /\ MemoryIsBeingSaved
    /\ PinsFollowed

\* Initially nothing runs and nothing is written.
LEMMA InitInv == Init => IInv
<1> SUFFICES ASSUME Init PROVE IInv
  OBVIOUS
<1>1. TypeOK
  BY InitType
<1>2. ControlOK
  BY DEF Init, ControlOK, Free, NoRequest
<1>3. WritesOK
  BY DEF Init, WritesOK
<1>4. ClientsHaveVersions /\ MemoryIsBeingSaved
  BY DEF Init, ClientsHaveVersions, MemoryIsBeingSaved
<1>5. PinsFollowed
  BY DEF Init, PinsFollowed, NoRequest
<1> QED
  BY <1>1, <1>2, <1>3, <1>4, <1>5 DEF IInv

\* Every step of the worker keeps the types.
LEMMA TypeNext ==
    ASSUME TypeOK, ControlOK, [Next]_vars
    PROVE  TypeOK'
<1>1. ASSUME NEW t \in Threads, Run(t)
      PROVE  TypeOK'
  <2>1. thread[t].at \in {"names", "delete"} => thread[t].set \subseteq Versions
    BY DEF ControlOK
  <2> QED
    BY <1>1, <2>1, IdleType, CheckType, InstallType, CleanupType DEF Run
<1>2. ASSUME NEW c \in Clients, Serve(c)
      PROVE  TypeOK'
  BY <1>2, RequestType, ResponseType DEF Serve
<1>3. ASSUME NEW k \in Keys, Commit(k)
      PROVE  TypeOK'
  BY <1>3, CommitType
<1>4. ASSUME NEW t \in Threads, Execute(t) \/ CheckForUpdates(t)
      PROVE  TypeOK'
  BY <1>4, IdleType, CheckType
<1>5. ASSUME NEW c \in Clients, StartRequest(c) \/ Close(c)
      PROVE  TypeOK'
  BY <1>5, RequestType
<1>6. CASE Initialization
  BY <1>6, InitializationType
<1>7. CASE Deploy \/ Crash
  BY <1>7, EnvironmentType
<1>8. CASE UNCHANGED vars
  BY <1>8 DEF vars, TypeOK
<1> QED
  BY <1>1, <1>2, <1>3, <1>4, <1>5, <1>6, <1>7, <1>8 DEF Next

----------------------------------------------------------------------------
(* A commit, and the steps that save: the only ones that change the control *)
(* table or what is on its way there.                                      *)

\* A write that completes keeps the invariant: what will be saved is as before.
LEMMA CommitInv ==
    ASSUME IInv, NEW k \in Keys, Commit(k)
    PROVE  IInv'
<1> USE DEF IInv
<1>1. TypeOK' /\ WritesOK' /\ Saving' = Saving
  BY CommitType, CommitSaving
<1>2. UNCHANGED <<deployed, page, driver, pin, idle, thread, request, cache, sees, budget>>
  BY DEF Commit
<1>3. /\ Len(writes) \in Nat /\ DOMAIN writes = 1..Len(writes)
      /\ Len(writes') \in Nat /\ DOMAIN writes' = 1..Len(writes')
      /\ writes \in Seq(WriteRecord)
  <2>1. writes \in Seq(WriteRecord) /\ writes' \in Seq(WriteRecord)
    BY <1>1 DEF TypeOK, WriteRecord
  <2> QED
    BY <2>1, LenProperties
<1>4. PICK i \in 1..Len(writes) :
              /\ k \in writes[i].left
              /\ \A j \in 1..(i - 1) : k \notin writes[j].left
              /\ disk' = [disk EXCEPT ![k] = writes[i].value[k]]
              /\ \/ /\ writes[i].left # {k}
                    /\ Len(writes') = Len(writes)
                    /\ \A j \in 1..Len(writes) : j # i => writes'[j] = writes[j]
                    /\ writes'[i] = [writes[i] EXCEPT !.left = @ \ {k}]
                 \/ /\ writes[i].left = {k} /\ i = 1
                    /\ Len(writes') = Len(writes) - 1
                    /\ \A j \in 1..(Len(writes) - 1) : writes'[j] = writes[j + 1]
  BY CommitCases
<1>5. /\ i \in 1..Len(writes)
      /\ \A j \in 1..Len(writes) : writes[j] \in WriteRecord
      /\ disk \in Snapshot
  BY <1>3, <1>4, ElementOfSeq DEF TypeOK
\* Every write that remains is one of the old ones, marked at most.
<1>6. ASSUME NEW j \in DOMAIN writes'
      PROVE  \E m \in DOMAIN writes :
                /\ writes'[j].by = writes[m].by /\ writes'[j].value = writes[m].value
                /\ writes'[j].left \in {writes[m].left, writes[m].left \ {k}}
                /\ m = j \/ m = j + 1
  <2>1. CASE writes[i].left # {k}
    <3>1. j \in DOMAIN writes
      BY <1>3, <1>4, <2>1, <1>6
    <3>2. CASE j = i
      BY <1>4, <1>5, <2>1, <3>1, <3>2 DEF WriteRecord
    <3>3. CASE j # i
      BY <1>3, <1>4, <2>1, <3>1, <3>3
    <3> QED
      BY <3>2, <3>3
  <2>2. CASE writes[i].left = {k}
    <3>1. j \in 1..(Len(writes) - 1) /\ j + 1 \in 1..Len(writes)
      BY <1>3, <1>4, <2>2, <1>6
    <3> QED
      BY <1>3, <1>4, <2>2, <3>1
  <2> QED
    BY <2>1, <2>2
<1>7. ControlOK'
  <2>1. writes # <<>>
    BY <1>3, <1>5
  <2> QED
    BY <1>1, <1>2, <1>6, <2>1 DEF ControlOK
<1>8. ClientsHaveVersions'
  BY <1>2 DEF ClientsHaveVersions
<1>9. MemoryIsBeingSaved'
  BY <1>1, <1>2 DEF MemoryIsBeingSaved, Saving
<1>10. PinsFollowed'
  <2> SUFFICES ASSUME NEW c \in Clients, request[c].at = "sync", pin[c] # NoVersion
               PROVE  \/ \E m \in DOMAIN writes' :
                          /\ writes'[m].by = c
                          /\ \A j \in DOMAIN writes' :
                                j >= m => writes'[j].value.assignments[c] = pin[c]
                          /\ "assignments" \notin writes'[m].left => disk'.assignments[c] = pin[c]
                      \/ /\ disk'.assignments[c] = pin[c]
                         /\ \A j \in DOMAIN writes' : writes'[j].value.assignments[c] = pin[c]
    BY <1>2 DEF PinsFollowed
  <2>1. disk'.assignments = IF k = "assignments" THEN writes[i].value.assignments
                                                  ELSE disk.assignments
    BY <1>4, <1>5 DEF Snapshot, Keys
  <2>2. CASE /\ disk.assignments[c] = pin[c]
             /\ \A j \in DOMAIN writes : writes[j].value.assignments[c] = pin[c]
    <3>1. disk'.assignments[c] = pin[c]
      BY <1>3, <1>5, <2>1, <2>2
    <3>2. \A j \in DOMAIN writes' : writes'[j].value.assignments[c] = pin[c]
      BY <1>6, <2>2
    <3> QED
      BY <3>1, <3>2
  <2>3. ASSUME NEW m \in DOMAIN writes,
               writes[m].by = c,
               \A j \in DOMAIN writes : j >= m => writes[j].value.assignments[c] = pin[c],
               "assignments" \notin writes[m].left => disk.assignments[c] = pin[c]
        PROVE  \/ \E n \in DOMAIN writes' :
                     /\ writes'[n].by = c
                     /\ \A j \in DOMAIN writes' :
                           j >= n => writes'[j].value.assignments[c] = pin[c]
                     /\ "assignments" \notin writes'[n].left => disk'.assignments[c] = pin[c]
               \/ /\ disk'.assignments[c] = pin[c]
                  /\ \A j \in DOMAIN writes' : writes'[j].value.assignments[c] = pin[c]
    <3>1. m \in 1..Len(writes)
      BY <1>3, <2>3
    <3> DEFINE left == IF m = i THEN writes[m].left \ {k} ELSE writes[m].left
    \* The table gets the pin when this write or a younger one is committed; an
    \* older one has nothing left to do that this one has done.
    <3>2. "assignments" \notin left => disk'.assignments[c] = pin[c]
      <4>1. SUFFICES ASSUME "assignments" \notin left
                     PROVE  disk'.assignments[c] = pin[c]
        OBVIOUS
      <4>2. CASE k # "assignments"
        <5>1. "assignments" \notin writes[m].left
          BY <4>1, <4>2
        <5> QED
          BY <2>1, <2>3, <4>2, <5>1
      <4>3. CASE k = "assignments"
        <5>1. CASE i >= m
          BY <1>3, <1>5, <2>1, <2>3, <4>3, <5>1
        <5>2. CASE i < m
          <6>1. writes[i].left \subseteq writes[m].left
            BY <1>3, <1>5, <3>1, <5>2 DEF WritesOK
          <6>2. m # i
            BY <1>5, <3>1, <5>2
          <6> QED
            BY <1>4, <4>1, <4>3, <6>1, <6>2
        <5>3. i >= m \/ i < m
          BY <1>5, <3>1
        <5> QED
          BY <5>1, <5>2, <5>3
      <4> QED
        BY <4>2, <4>3
    <3>3. CASE writes[i].left # {k}
      <4>1. DOMAIN writes' = DOMAIN writes
        BY <1>3, <1>4, <3>3
      <4>2. /\ writes'[m].by = c /\ writes'[m].left = left
            /\ \A j \in DOMAIN writes' : writes'[j].value = writes[j].value
        BY <1>3, <1>4, <1>5, <2>3, <3>1, <3>3, <4>1, ZenonT(40) DEF WriteRecord
      <4> QED
        BY <2>3, <3>2, <4>1, <4>2
    <3>4. CASE writes[i].left = {k} /\ m = 1
      <4>1. disk'.assignments[c] = pin[c]
        BY <1>4, <3>2, <3>4
      <4>2. ASSUME NEW j \in DOMAIN writes'
            PROVE  writes'[j].value.assignments[c] = pin[c]
        <5>1. /\ j \in 1..(Len(writes) - 1) /\ j + 1 \in 1..Len(writes) /\ j + 1 >= 1
          BY <1>3, <1>4, <3>4, <4>2
        <5>2. writes'[j] = writes[j + 1]
          BY <1>4, <3>4, <5>1
        <5> QED
          BY <1>3, <2>3, <3>4, <5>1, <5>2
      <4> QED
        BY <4>1, <4>2
    <3>5. CASE writes[i].left = {k} /\ m # 1
      <4> DEFINE n == m - 1
      <4>1. /\ n \in 1..(Len(writes) - 1) /\ DOMAIN writes' = 1..(Len(writes) - 1)
            /\ n + 1 = m /\ i = 1
        <5>1. i = 1 /\ Len(writes') = Len(writes) - 1
          BY <1>4, <3>5
        <5>2. Len(writes) \in Nat /\ DOMAIN writes' = 1..(Len(writes) - 1)
          BY <1>3, <5>1
        <5> QED
          BY <3>1, <3>5, <5>1, <5>2
      <4>2. writes'[n] = writes[m] /\ left = writes[m].left
        BY <1>4, <3>5, <4>1
      <4>3. ASSUME NEW j \in DOMAIN writes', j >= n
            PROVE  writes'[j].value.assignments[c] = pin[c]
        <5>1. j \in 1..(Len(writes) - 1) /\ j + 1 \in 1..Len(writes) /\ j + 1 >= m
          BY <1>3, <3>1, <4>1, <4>3
        <5>2. writes'[j] = writes[j + 1]
          BY <1>4, <3>5, <5>1
        <5> QED
          BY <1>3, <2>3, <5>1, <5>2
      <4> QED
        BY <2>3, <3>2, <4>1, <4>2, <4>3
    <3> QED
      BY <3>3, <3>4, <3>5
  <2> QED
    BY <2>2, <2>3 DEF PinsFollowed
<1> QED
  BY <1>1, <1>7, <1>8, <1>9, <1>10

\* A handler that saves what it has changed.
LEMMA SaveInv ==
    ASSUME IInv, TypeOK', ControlOK', ClientsHaveVersions', UNCHANGED disk,
           NEW who \in Clients \cup Threads \cup {"boot"},
           Save(who, driver'.versions, pin', driver'.latest),
           \A c \in Clients :
              \/ who = c
              \/ /\ pin'[c] \in {pin[c], NoVersion}
                 /\ request'[c].at = "sync" => request[c].at = "sync"
    PROVE  IInv'
<1> USE DEF IInv
<1>1. /\ driver'.versions \in SUBSET Versions /\ pin' \in Pins
      /\ driver'.latest \in Versions \cup {NoVersion}
  BY DEF TypeOK
<1> DEFINE value == [manifests |-> driver'.versions, assignments |-> pin', latest |-> driver'.latest]
<1>2. /\ WritesOK' /\ Saving' = value
      /\ Len(writes') = Len(writes) + 1
      /\ DOMAIN writes' = 1..(Len(writes) + 1)
      /\ DOMAIN writes = 1..Len(writes) /\ Len(writes) \in Nat
      /\ \A i \in 1..Len(writes) : writes'[i] = writes[i]
      /\ writes'[Len(writes) + 1] = [by |-> who, left |-> Keys, value |-> value]
  BY <1>1, SaveSaving
<1>3. /\ value.assignments = pin' /\ value.manifests = driver'.versions
      /\ value.latest = driver'.latest
  OBVIOUS
<1> HIDE DEF value
<1>4. MemoryIsBeingSaved'
  BY <1>2, <1>3 DEF MemoryIsBeingSaved, Saving
<1>5. PinsFollowed'
  <2> SUFFICES ASSUME NEW c \in Clients, request'[c].at = "sync", pin'[c] # NoVersion
               PROVE  \/ \E i \in DOMAIN writes' :
                          /\ writes'[i].by = c
                          /\ \A j \in DOMAIN writes' :
                                j >= i => writes'[j].value.assignments[c] = pin'[c]
                          /\ "assignments" \notin writes'[i].left => disk'.assignments[c] = pin'[c]
                      \/ /\ disk'.assignments[c] = pin'[c]
                         /\ \A j \in DOMAIN writes' : writes'[j].value.assignments[c] = pin'[c]
    BY DEF PinsFollowed
  <2> DEFINE last == Len(writes) + 1
  <2>1. /\ last \in DOMAIN writes' /\ writes'[last].by = who
        /\ writes'[last].left = Keys /\ writes'[last].value.assignments = pin'
        /\ \A j \in DOMAIN writes' : j = last \/ (j \in DOMAIN writes /\ writes'[j] = writes[j])
        /\ \A j \in DOMAIN writes : j \in DOMAIN writes' /\ writes'[j] = writes[j] /\ j <= last
    BY <1>2, <1>3
  <2>2. CASE who = c
    <3>1. \A j \in DOMAIN writes' : j >= last => j = last
      BY <1>2
    <3>2. "assignments" \in Keys
      BY DEF Keys
    <3> QED
      BY <2>1, <2>2, <3>1, <3>2
  <2>3. CASE who # c
    <3>1. pin'[c] = pin[c] /\ request[c].at = "sync" /\ pin[c] # NoVersion
      BY <2>3
    <3>2. CASE /\ disk.assignments[c] = pin[c]
               /\ \A j \in DOMAIN writes : writes[j].value.assignments[c] = pin[c]
      BY <2>1, <3>1, <3>2
    <3>3. CASE \E i \in DOMAIN writes :
                  /\ writes[i].by = c
                  /\ \A j \in DOMAIN writes : j >= i => writes[j].value.assignments[c] = pin[c]
                  /\ "assignments" \notin writes[i].left => disk.assignments[c] = pin[c]
      BY <2>1, <3>1, <3>3
    <3> QED
      BY <3>1, <3>2, <3>3 DEF PinsFollowed
  <2> QED
    BY <2>2, <2>3
<1> QED
  BY <1>2, <1>4, <1>5

\* A step that changes neither the driver's state nor what is saved of it.
LEMMA QuietInv ==
    ASSUME IInv, TypeOK', ControlOK', UNCHANGED <<disk, writes, pin>>,
           driver'.versions = driver.versions, driver'.latest = driver.latest,
           driver'.mode = driver.mode \/ driver'.mode # "ready",
           \A c \in Clients : request'[c].at = "sync" => request[c].at = "sync"
    PROVE  IInv'
<1>1. WritesOK'
  BY DEF IInv, WritesOK
<1>2. ClientsHaveVersions' /\ MemoryIsBeingSaved'
  BY DEF IInv, ClientsHaveVersions, MemoryIsBeingSaved
<1>3. PinsFollowed'
  BY DEF IInv, PinsFollowed
<1> QED
  BY <1>1, <1>2, <1>3 DEF IInv

----------------------------------------------------------------------------
(* The actions. *)

\* In the ready mode only the sets of the cleanups are to be watched.
LEMMA ReadyControl ==
    ASSUME driver'.mode = "ready",
           \A t \in Threads : thread'[t].at \in {"names", "delete"} =>
                                  thread'[t].set \subseteq Versions
    PROVE  ControlOK'
BY DEF ControlOK

\* The end of initialize() establishes that memory is what the table holds.
LEMMA HydrateInv ==
    ASSUME IInv, TypeOK', NEW firstTasks, Hydrate(firstTasks), writes = <<>>,
           disk.latest \in disk.manifests, driver.mode \in {"reading", "resetting"},
           UNCHANGED <<thread, request, disk, writes>>
    PROVE  IInv'
<1> USE DEF IInv
<1>1. /\ driver'.mode = "ready" /\ driver'.versions = disk.manifests
      /\ driver'.latest = disk.latest
      /\ pin' = [c \in Clients |->
                    IF disk.assignments[c] \in disk.manifests \cup {NoVersion}
                    THEN disk.assignments[c] ELSE disk.latest]
  BY DEF Hydrate, TypeOK
<1>2. ControlOK'
  BY <1>1, ReadyControl DEF ControlOK
<1>3. WritesOK'
  BY DEF WritesOK
<1>4. ClientsHaveVersions' /\ MemoryIsBeingSaved'
  BY <1>1 DEF ClientsHaveVersions, MemoryIsBeingSaved
<1>5. PinsFollowed'
  BY DEF PinsFollowed, ControlOK
<1> QED
  BY <1>2, <1>3, <1>4, <1>5

\* Every step of initialize() keeps the invariant.
LEMMA InitializationInv ==
    ASSUME IInv, Initialization
    PROVE  IInv'
<1> USE DEF IInv
<1>1. TypeOK'
  BY InitializationType
<1>2. CASE Activate
  <2>1. driver' = driver \/ driver' = [driver EXCEPT !.mode = "reading"]
    BY <1>2 DEF Activate, ensureInitialized
  <2>2. /\ driver.mode = "down"
        /\ driver'.mode \in {"down", "reading"} /\ driver'.versions = driver.versions
        /\ driver'.latest = driver.latest
    BY <1>2, <2>1 DEF Activate, TypeOK
  <2>3. ControlOK'
    BY <1>2, <2>2 DEF Activate, ControlOK
  <2> QED
    BY <1>1, <1>2, <2>2, <2>3, QuietInv DEF Activate
<1>3. CASE ReadControlTable
  <2>1. CASE disk.latest \in disk.manifests
    <3>1. driver.mode = "reading" /\ writes = <<>>
      BY <1>3 DEF ReadControlTable, ControlOK
    <3> QED
      BY <1>1, <1>3, <2>1, <3>1, HydrateInv DEF ReadControlTable
  <2>2. CASE disk.latest \notin disk.manifests
    <3>1. /\ driver.mode = "reading" /\ driver'.mode = "fetching"
          /\ driver'.versions = driver.versions /\ driver'.latest = driver.latest
      BY <1>3, <2>2 DEF ReadControlTable, TypeOK
    <3>2. UNCHANGED <<idle, thread, request, disk, writes, pin>>
      BY <1>3, <2>2 DEF ReadControlTable
    <3>3. ControlOK'
      BY <3>1, <3>2 DEF ControlOK
    <3> QED
      BY <1>1, <3>1, <3>2, <3>3, QuietInv
  <2> QED
    BY <2>1, <2>2
<1>4. CASE FetchFirstManifest
  <2>1. UNCHANGED <<idle, thread, request, disk, pin>> /\ driver.mode = "fetching" /\ writes = <<>>
    BY <1>4 DEF FetchFirstManifest, ControlOK
  <2>2. CASE Fault
    <3>1. /\ driver'.mode = "safe" /\ UNCHANGED writes
          /\ driver'.versions = driver.versions /\ driver'.latest = driver.latest
      BY <1>4, <2>2 DEF FetchFirstManifest, TypeOK, Fault
    <3>2. ControlOK'
      BY <2>1, <3>1 DEF ControlOK
    <3> QED
      BY <1>1, <2>1, <3>1, <3>2, QuietInv
  <2>3. CASE driver' = [driver EXCEPT !.mode = "resetting"]
             /\ Save("boot", {deployed}, Unpinned, deployed)
    <3>1. driver'.mode = "resetting"
      BY <2>3 DEF TypeOK
    <3>2. /\ {deployed} \in SUBSET Versions /\ Unpinned \in Pins
          /\ deployed \in Versions \cup {NoVersion}
      BY DEF TypeOK, Unpinned, Pins
    <3>3. /\ WritesOK'
          /\ Saving' = [manifests |-> {deployed}, assignments |-> Unpinned, latest |-> deployed]
          /\ Len(writes') = Len(writes) + 1
          /\ DOMAIN writes' = 1..(Len(writes) + 1)
          /\ writes'[Len(writes) + 1].by = "boot"
      <4>1. "boot" \in Clients \cup Threads \cup {"boot"}
        OBVIOUS
      <4>2. /\ WritesOK'
            /\ Saving' = [manifests |-> {deployed}, assignments |-> Unpinned, latest |-> deployed]
            /\ Len(writes') = Len(writes) + 1
            /\ DOMAIN writes' = 1..(Len(writes) + 1)
            /\ writes'[Len(writes) + 1] = [by |-> "boot", left |-> Keys, value |->
                  [manifests |-> {deployed}, assignments |-> Unpinned, latest |-> deployed]]
        BY <2>1, <2>3, <3>2, <4>1, SaveSaving, ZenonT(40)
      <4> QED
        BY <4>2
    <3>4. Len(writes) = 0
      BY <2>1
    <3>5. Saving'.latest \in Saving'.manifests /\ \A i \in DOMAIN writes' : writes'[i].by = "boot"
      BY <3>3, <3>4
    <3>6. ControlOK'
      BY <2>1, <3>1, <3>5 DEF ControlOK
    <3>7. ClientsHaveVersions' /\ MemoryIsBeingSaved'
      BY <3>1 DEF ClientsHaveVersions, MemoryIsBeingSaved
    <3>8. PinsFollowed'
      BY <2>1 DEF PinsFollowed, ControlOK
    <3> QED
      BY <1>1, <3>3, <3>6, <3>7, <3>8
  <2> QED
    BY <1>4, <2>2, <2>3 DEF FetchFirstManifest
<1>5. CASE StartOver
  <2>1. driver.mode = "resetting" /\ Saved("boot")
    BY <1>5 DEF StartOver
  <2>2. writes = <<>>
    <3>1. DOMAIN writes = {}
      BY <2>1 DEF ControlOK, Saved
    <3>2. writes \in Seq(WriteRecord)
      BY DEF TypeOK, WriteRecord
    <3>3. DOMAIN writes = 1..Len(writes) /\ Len(writes) \in Nat
      BY <3>2, LenProperties
    <3>4. Len(writes) = 0
      <4>1. SUFFICES ASSUME Len(writes) # 0 PROVE FALSE
        OBVIOUS
      <4>2. 1 \in 1..Len(writes)
        BY <3>3, <4>1
      <4> QED
        BY <3>1, <3>3, <4>2
    <3> QED
      BY <3>2, <3>4, EmptySeq
  <2>3. disk.latest \in disk.manifests
    BY <2>1, <2>2 DEF ControlOK, Saving
  <2> QED
    BY <1>1, <1>5, <2>1, <2>2, <2>3, HydrateInv DEF StartOver
<1> QED
  BY <1>2, <1>3, <1>4, <1>5 DEF Initialization

\* A handler of a thread that has work runs in the ready mode.
LEMMA ThreadReady ==
    ASSUME ControlOK, NEW t \in Threads, thread[t].at \notin {"free", "init"}
    PROVE  driver.mode = "ready"
BY DEF ControlOK

\* The next statement of a background task keeps the control state.
LEMMA ContinueControl ==
    ASSUME TypeOK, ControlOK, NEW t \in Threads, Continue(t), driver'.mode = "ready"
    PROVE  ControlOK'
<1>1. thread \in [Threads -> ThreadRecord]
  BY DEF TypeOK, ThreadRecord
<1>2. thread'[t].set = {}
  BY <1>1 DEF Continue, Free, ThreadRecord
<1>3. \A u \in Threads : u # t => thread'[u] = thread[u]
  BY <1>1 DEF Continue
<1> QED
  BY <1>2, <1>3, ReadyControl DEF ControlOK

\* Idle tasks, update checks, installations and cleanups keep the invariant.
LEMMA ThreadInv ==
    ASSUME IInv, NEW t \in Threads, Execute(t) \/ CheckForUpdates(t) \/ Run(t)
    PROVE  IInv'
<1> USE DEF IInv
<1>1. TypeOK'
  BY TypeNext DEF Next
<1>2. thread \in [Threads -> ThreadRecord] /\ driver \in DriverRecord
  BY DEF TypeOK, ThreadRecord, DriverRecord
<1>3. \A u \in Threads : thread[u].at \in {"names", "delete"} => thread[u].set \subseteq Versions
  BY DEF ControlOK
<1>4. CASE Execute(t)
  <2>1. driver.mode = "ready" /\ UNCHANGED <<driver, disk, writes, pin, request>>
    BY <1>4 DEF Execute, ControlOK
  <2>2. /\ thread'[t].at = "next"
        /\ \A u \in Threads : u # t => thread'[u] = thread[u]
    BY <1>2, <1>4 DEF Execute, Free
  <2>3. ControlOK'
    BY <1>3, <2>1, <2>2, ReadyControl
  <2> QED
    BY <1>1, <2>1, <2>3, QuietInv
<1>5. CASE NextTask(t)
  <2>1. driver.mode = "ready"
    BY <1>5, ThreadReady DEF NextTask
  <2>2. /\ driver'.mode = "ready" /\ driver'.versions = driver.versions
        /\ driver'.latest = driver.latest
    BY <1>2, <1>5, <2>1 DEF NextTask, DriverRecord
  <2>3. /\ thread'[t].at \in {"names", "delete"} => thread'[t].set = {}
        /\ \A u \in Threads : u # t => thread'[u] = thread[u]
    BY <1>2, <1>5 DEF NextTask, Free, ThreadRecord
  <2>4. ControlOK'
    BY <1>3, <2>2, <2>3, ReadyControl
  <2>5. UNCHANGED <<disk, writes, pin, request>>
    BY <1>5 DEF NextTask
  <2> QED
    BY <1>1, <2>1, <2>2, <2>4, <2>5, QuietInv
<1>6. CASE CheckForUpdates(t)
  <2>1. /\ \/ driver' = driver
           \/ driver' = [driver EXCEPT !.mode = "reading"] /\ driver.mode = "down"
        /\ UNCHANGED <<idle, disk, writes, pin, request>>
    BY <1>6 DEF CheckForUpdates, ensureInitialized
  <2>2. /\ driver'.mode = driver.mode \/ (driver.mode = "down" /\ driver'.mode = "reading")
        /\ driver'.versions = driver.versions /\ driver'.latest = driver.latest
    BY <1>2, <2>1 DEF DriverRecord
  <2>3. /\ thread'[t].at = IF driver.mode = "ready" THEN "manifest" ELSE "init"
        /\ \A u \in Threads : u # t => thread'[u] = thread[u]
    BY <1>2, <1>6 DEF CheckForUpdates, ThreadRecord
  <2>4. ControlOK'
    BY <2>1, <2>2, <2>3 DEF ControlOK, Saving
  <2> QED
    BY <1>1, <2>1, <2>2, <2>4, QuietInv
<1>7. CASE HandleMessage(t)
  <2>1. UNCHANGED <<driver, idle, disk, writes, pin, request>>
    BY <1>7 DEF HandleMessage
  <2>2. /\ \/ driver.mode = "ready" /\ thread'[t].at = "manifest"
           \/ driver.mode = "safe" /\ thread'[t].at = "free"
        /\ \A u \in Threads : u # t => thread'[u] = thread[u]
    BY <1>2, <1>7 DEF HandleMessage, Free, ThreadRecord
  <2>3. ControlOK'
    BY <2>1, <2>2 DEF ControlOK, Saving
  <2> QED
    BY <1>1, <2>1, <2>3, QuietInv
<1>8. CASE checkForUpdate(t)
  <2>1. driver.mode = "ready"
    BY <1>8, ThreadReady DEF checkForUpdate
  <2>2. /\ driver'.mode = "ready" /\ driver'.versions = driver.versions
        /\ driver'.latest = driver.latest
    <3>1. driver' \in {driver, [driver EXCEPT !.degraded = TRUE]}
      BY <1>8 DEF checkForUpdate
    <3> QED
      BY <1>2, <2>1, <3>1 DEF DriverRecord
  <2>3. ControlOK'
    <3>1. CASE Continue(t)
      BY <2>2, <3>1, ContinueControl
    <3>2. CASE thread' = [thread EXCEPT ![t].at = "install", ![t].hash = deployed]
      <4>1. /\ thread'[t].at = "install"
            /\ \A u \in Threads : u # t => thread'[u] = thread[u]
        BY <1>2, <3>2 DEF ThreadRecord
      <4> QED
        BY <1>3, <2>2, <4>1, ReadyControl
    <3> QED
      BY <1>8, <3>1, <3>2 DEF checkForUpdate
  <2>4. UNCHANGED <<disk, writes, pin, request>>
    BY <1>8 DEF checkForUpdate
  <2> QED
    BY <1>1, <2>1, <2>2, <2>3, <2>4, QuietInv
<1>9. CASE setupUpdate(t)
  <2> DEFINE h == thread[t].hash
  <2>1. driver.mode = "ready" /\ UNCHANGED <<disk, pin, request>>
    BY <1>9, ThreadReady DEF setupUpdate
  <2>2. CASE /\ h \in cache.held \cup {deployed}
             /\ driver' = [driver EXCEPT !.versions = @ \cup {h}, !.latest = h, !.degraded = FALSE]
             /\ Save(t, driver'.versions, pin, h)
             /\ thread' = [thread EXCEPT ![t].at = "sync"]
    <3>1. /\ driver'.mode = "ready" /\ driver'.versions = driver.versions \cup {h}
          /\ driver'.latest = h
      BY <1>2, <2>1, <2>2 DEF DriverRecord
    <3>2. /\ thread'[t].at = "sync"
          /\ \A u \in Threads : u # t => thread'[u] = thread[u]
      BY <1>2, <2>2 DEF ThreadRecord
    <3>3. ControlOK'
      BY <1>3, <3>1, <3>2, ReadyControl
    <3>4. ClientsHaveVersions'
      BY <2>1, <3>1 DEF ClientsHaveVersions
    <3>5. t \in Clients \cup Threads \cup {"boot"} /\ Save(t, driver'.versions, pin', driver'.latest)
      BY <2>1, <2>2, <3>1 DEF Save
    <3> QED
      BY <1>1, <2>1, <3>3, <3>4, <3>5, SaveInv
  <2>3. CASE driver' = [driver EXCEPT !.degraded = TRUE] /\ Continue(t) /\ UNCHANGED writes
    <3>1. /\ driver'.mode = "ready" /\ driver'.versions = driver.versions
          /\ driver'.latest = driver.latest
      BY <1>2, <2>1, <2>3 DEF DriverRecord
    <3>2. ControlOK'
      BY <2>3, <3>1, ContinueControl
    <3> QED
      BY <1>1, <2>1, <2>3, <3>1, <3>2, QuietInv
  <2> QED
    BY <1>9, <2>2, <2>3 DEF setupUpdate
<1>10. CASE UpdateSaved(t)
  <2>1. driver.mode = "ready" /\ UNCHANGED <<driver, disk, writes, pin, request>> /\ Continue(t)
    BY <1>10, ThreadReady DEF UpdateSaved
  <2>2. ControlOK'
    BY <2>1, ContinueControl
  <2> QED
    BY <1>1, <2>1, <2>2, QuietInv
<1>11. CASE initializeFully(t)
  <2>1. driver.mode = "ready" /\ UNCHANGED <<disk, writes, pin, request>> /\ Continue(t)
    BY <1>11, ThreadReady DEF initializeFully
  <2>2. /\ driver'.mode = "ready" /\ driver'.versions = driver.versions
        /\ driver'.latest = driver.latest
    BY <1>2, <1>11, <2>1 DEF initializeFully, versionFailed, DriverRecord
  <2>3. ControlOK'
    BY <2>1, <2>2, ContinueControl
  <2> QED
    BY <1>1, <2>1, <2>2, <2>3, QuietInv
<1>12. CASE MatchAll(t)
  <2>1. driver.mode = "ready" /\ UNCHANGED <<driver, disk, writes, pin, request>>
    BY <1>12, ThreadReady DEF MatchAll
  <2>2. /\ thread'[t].at = "obsolete"
        /\ \A u \in Threads : u # t => thread'[u] = thread[u]
    BY <1>2, <1>12 DEF MatchAll, ThreadRecord
  <2>3. ControlOK'
    BY <1>3, <2>1, <2>2, ReadyControl
  <2> QED
    BY <1>1, <2>1, <2>3, QuietInv
<1>13. CASE dropObsolete(t)
  <2> DEFINE pins == [c \in Clients |-> IF c \in thread[t].set THEN pin[c] ELSE NoVersion]
             used == {pins[c] : c \in Clients} \cup {driver.latest}
  <2>1. /\ driver.mode = "ready" /\ UNCHANGED <<disk, request>>
        /\ pin' = pins /\ driver' = [driver EXCEPT !.versions = @ \cap used]
        /\ Save(t, driver'.versions, pins, driver.latest)
        /\ thread' = [thread EXCEPT ![t].at = "sync", ![t].set = {}]
    BY <1>13, ThreadReady DEF dropObsolete
  <2>2. /\ driver'.mode = "ready" /\ driver'.versions = driver.versions \cap used
        /\ driver'.latest = driver.latest
    BY <1>2, <2>1 DEF DriverRecord
  <2>3. /\ thread'[t].at = "sync"
        /\ \A u \in Threads : u # t => thread'[u] = thread[u]
    BY <1>2, <2>1 DEF ThreadRecord
  <2>4. ControlOK'
    BY <1>3, <2>2, <2>3, ReadyControl
  <2>5. ClientsHaveVersions'
    BY <2>1, <2>2 DEF ClientsHaveVersions
  <2>6. t \in Clients \cup Threads \cup {"boot"} /\ Save(t, driver'.versions, pin', driver'.latest)
    BY <2>1, <2>2
  <2>7. \A c \in Clients : pin'[c] \in {pin[c], NoVersion}
    BY <2>1
  <2> QED
    BY <1>1, <2>1, <2>4, <2>5, <2>6, <2>7, SaveInv
<1>14. CASE ListCaches(t)
  <2>1. driver.mode = "ready" /\ UNCHANGED <<driver, disk, writes, pin, request>>
    BY <1>14, ThreadReady DEF ListCaches
  <2>2. /\ thread'[t].set \subseteq Versions
        /\ \A u \in Threads : u # t => thread'[u] = thread[u]
    <3>1. CacheNames \subseteq Versions
      BY DEF CacheNames, TypeOK
    <3> QED
      BY <1>2, <1>3, <1>14, <3>1 DEF ListCaches, ThreadRecord
  <2>3. ControlOK'
    BY <1>3, <2>1, <2>2, ReadyControl
  <2> QED
    BY <1>1, <2>1, <2>3, QuietInv
<1>15. CASE DeleteCaches(t)
  <2>1. driver.mode = "ready" /\ UNCHANGED <<driver, disk, writes, pin, request>> /\ Continue(t)
    BY <1>15, ThreadReady DEF DeleteCaches
  <2>2. ControlOK'
    BY <2>1, ContinueControl
  <2> QED
    BY <1>1, <2>1, <2>2, QuietInv
<1> QED
  BY <1>4, <1>5, <1>6, <1>7, <1>8, <1>9, <1>10, <1>11, <1>12, <1>13, <1>14, <1>15 DEF Run

\* A step that leaves the threads alone and the mode as it is, with no request
\* going on before the driver is ready.
LEMMA RequestControl ==
    ASSUME ControlOK, UNCHANGED <<thread, disk, writes>>, driver'.mode = driver.mode,
           driver.mode # "ready" =>
               idle' = idle /\ \A c \in Clients : request'[c].at \in {"none", "init"}
    PROVE  ControlOK'
BY DEF ControlOK, Saving

\* Pinning a tab keeps the invariant: the pin is saved in the same step.
LEMMA PinInv ==
    ASSUME IInv, TypeOK', NEW c \in Clients, driver.mode = "ready", PinToLatest(c),
           UNCHANGED <<thread, disk>>,
           driver'.mode = driver.mode, driver'.versions = driver.versions,
           driver'.latest = driver.latest
    PROVE  IInv'
<1> USE DEF IInv
<1>1. /\ pin' = [pin EXCEPT ![c] = driver.latest]
      /\ Save(c, driver.versions, pin', driver.latest)
      /\ request' = [request EXCEPT ![c].at = "sync"]
  BY DEF PinToLatest
<1>2. ControlOK'
  BY ReadyControl DEF ControlOK
<1>3. ClientsHaveVersions'
  BY <1>1 DEF ClientsHaveVersions, TypeOK, Pins
<1>4. \A d \in Clients : d # c => pin'[d] = pin[d] /\ request'[d] = request[d]
  BY <1>1 DEF TypeOK, Pins
<1>5. Save(c, driver'.versions, pin', driver'.latest) /\ c \in Clients \cup Threads \cup {"boot"}
  BY <1>1
<1> QED
  BY <1>2, <1>3, <1>4, <1>5, SaveInv

\* Requests of tabs keep the invariant.
LEMMA ClientInv ==
    ASSUME IInv, NEW c \in Clients, StartRequest(c) \/ Serve(c) \/ Close(c)
    PROVE  IInv'
<1> USE DEF IInv
<1>1. TypeOK'
  BY TypeNext DEF Next
<1>2. request \in [Clients -> RequestRecord] /\ driver \in DriverRecord
  BY DEF TypeOK, RequestRecord, DriverRecord
<1>3. \A d \in Clients : driver.mode # "ready" => request[d].at \in {"none", "init"}
  BY DEF ControlOK
<1>4. request' = [request EXCEPT ![c] = NoRequest] =>
         /\ request'[c].at = "none"
         /\ \A d \in Clients : d # c => request'[d] = request[d]
  BY <1>2 DEF NoRequest
<1>5. \A v : ServeFrom(c, v) =>
         /\ request'[c].at = "serve"
         /\ \A d \in Clients : d # c => request'[d] = request[d]
  BY <1>2 DEF ServeFrom, RequestRecord
<1>6. CASE StartRequest(c)
  <2>1. /\ \/ driver' = driver
           \/ driver' = [driver EXCEPT !.mode = "reading"] /\ driver.mode = "down"
        /\ UNCHANGED <<idle, thread, disk, writes, pin>>
    BY <1>6 DEF StartRequest, ensureInitialized
  <2>2. /\ driver'.mode = driver.mode \/ (driver.mode = "down" /\ driver'.mode = "reading")
        /\ driver'.versions = driver.versions /\ driver'.latest = driver.latest
    BY <1>2, <2>1 DEF DriverRecord
  <2>3. /\ request'[c].at = "init"
        /\ \A d \in Clients : d # c => request'[d] = request[d]
    BY <1>2, <1>6 DEF StartRequest, NoRequest
  <2>4. ControlOK'
    BY <1>3, <2>1, <2>2, <2>3 DEF ControlOK, Saving
  <2>5. driver'.mode = driver.mode \/ driver'.mode # "ready"
    BY <2>2
  <2> QED
    BY <1>1, <2>1, <2>2, <2>3, <2>4, <2>5, QuietInv
<1>7. CASE HandleUninitialized(c)
  <2>1. /\ UNCHANGED <<driver, idle, thread, disk, writes, pin>>
        /\ request' = [request EXCEPT ![c] = NoRequest]
    BY <1>7 DEF HandleUninitialized
  <2>2. ControlOK'
    BY <1>3, <1>4, <2>1, RequestControl
  <2> QED
    BY <1>1, <1>4, <2>1, <2>2, QuietInv
<1>8. CASE assignVersion(c)
  <2>1. driver.mode = "ready" /\ UNCHANGED <<thread, disk>>
    BY <1>8 DEF assignVersion
  <2>2. /\ driver'.mode = driver.mode /\ driver'.versions = driver.versions
        /\ driver'.latest = driver.latest
    BY <1>2, <1>8 DEF assignVersion, DriverRecord
  <2>3. CASE PinToLatest(c)
    BY <1>1, <2>1, <2>2, <2>3, PinInv
  <2>4. CASE /\ UNCHANGED <<pin, writes>>
             /\ \/ request' = [request EXCEPT ![c].at = "get"]
                \/ ServeFrom(c, pin[c])
                \/ request' = [request EXCEPT ![c] = NoRequest]
    <3>1. /\ request'[c].at # "sync"
          /\ \A d \in Clients : d # c => request'[d] = request[d]
      BY <1>2, <1>4, <1>5, <2>4 DEF RequestRecord
    <3>2. ControlOK'
      BY <2>1, <2>2, <2>4, RequestControl
    <3> QED
      BY <1>1, <2>1, <2>2, <2>4, <3>1, <3>2, QuietInv
  <2> QED
    BY <1>8, <2>3, <2>4 DEF assignVersion
<1>9. CASE GetClient(c)
  <2>1. driver.mode = "ready" /\ UNCHANGED <<driver, thread, disk>>
    BY <1>3, <1>9 DEF GetClient
  <2>2. CASE PinToLatest(c)
    BY <1>1, <2>1, <2>2, PinInv
  <2>3. CASE ServeFrom(c, driver.latest) /\ UNCHANGED <<pin, writes>>
    <3>1. ControlOK'
      BY <2>1, <2>3, RequestControl
    <3> QED
      BY <1>1, <1>5, <2>1, <2>3, <3>1, QuietInv
  <2> QED
    BY <1>9, <2>2, <2>3 DEF GetClient
<1>10. CASE updateClient(c)
  <2>1. driver.mode = "ready" /\ UNCHANGED <<driver, thread, disk>>
    BY <1>10 DEF updateClient
  <2>2. CASE PinToLatest(c)
    BY <1>1, <2>1, <2>2, PinInv
  <2>3. CASE request' = [request EXCEPT ![c] = NoRequest] /\ UNCHANGED <<pin, writes>>
    <3>1. ControlOK'
      BY <2>1, <2>3, RequestControl
    <3> QED
      BY <1>1, <1>4, <2>1, <2>3, <3>1, QuietInv
  <2> QED
    BY <1>10, <2>2, <2>3 DEF updateClient
<1>11. CASE PinSaved(c)
  <2>1. /\ driver.mode = "ready" /\ UNCHANGED <<driver, idle, thread, disk, writes, pin>>
        /\ request' = [request EXCEPT ![c] = NoRequest] \/ ServeFrom(c, driver.latest)
    BY <1>3, <1>11 DEF PinSaved
  <2>2. ControlOK'
    BY <2>1, RequestControl
  <2> QED
    BY <1>1, <1>4, <1>5, <2>1, <2>2, QuietInv
<1>12. CASE handleFetch(c)
  <2>1. /\ driver.mode = "ready" /\ UNCHANGED <<thread, disk, writes, pin>>
        /\ request' = [request EXCEPT ![c] = NoRequest]
    BY <1>3, <1>12 DEF handleFetch, Finish
  <2>2. /\ driver'.mode = driver.mode /\ driver'.versions = driver.versions
        /\ driver'.latest = driver.latest
    BY <1>2, <1>12 DEF handleFetch, versionFailed, DriverRecord
  <2>3. ControlOK'
    BY <2>1, <2>2, RequestControl
  <2> QED
    BY <1>1, <1>4, <2>1, <2>2, <2>3, QuietInv
<1>13. CASE Close(c)
  <2>1. UNCHANGED <<driver, idle, thread, disk, writes, pin, request>>
    BY <1>13 DEF Close
  <2>2. ControlOK'
    BY <1>3, <2>1, RequestControl
  <2> QED
    BY <1>1, <2>1, <2>2, QuietInv
<1> QED
  BY <1>6, <1>7, <1>8, <1>9, <1>10, <1>11, <1>12, <1>13 DEF Serve

\* Deployments and stops of the worker keep the invariant: a stop forgets memory
\* and the writes that were not made.
LEMMA EnvironmentInv ==
    ASSUME IInv, Deploy \/ Crash
    PROVE  IInv'
<1> USE DEF IInv
<1>1. TypeOK'
  BY TypeNext DEF Next
<1>2. CASE Deploy
  <2>1. UNCHANGED <<driver, idle, thread, disk, writes, pin, request>>
    BY <1>2 DEF Deploy
  <2>2. ControlOK'
    BY <2>1 DEF ControlOK, Saving
  <2> QED
    BY <1>1, <2>1, <2>2, QuietInv
<1>3. CASE Crash
  <2>1. /\ driver'.mode = "down" /\ ~idle'.timer /\ writes' = <<>>
        /\ thread' = [t \in Threads |-> Free] /\ request' = [c \in Clients |-> NoRequest]
    BY <1>3 DEF Crash
  <2>2. ControlOK'
    BY <2>1 DEF ControlOK, Free, NoRequest
  <2>3. WritesOK'
    BY <2>1 DEF WritesOK
  <2>4. ClientsHaveVersions' /\ MemoryIsBeingSaved'
    BY <2>1 DEF ClientsHaveVersions, MemoryIsBeingSaved
  <2>5. PinsFollowed'
    BY <2>1 DEF PinsFollowed, NoRequest
  <2> QED
    BY <1>1, <2>2, <2>3, <2>4, <2>5
<1> QED
  BY <1>2, <1>3

\* The invariant is inductive.
LEMMA NextInv == IInv /\ [Next]_vars => IInv'
<1> SUFFICES ASSUME IInv, [Next]_vars PROVE IInv'
  OBVIOUS
<1>1. CASE UNCHANGED vars
  BY <1>1 DEF vars, IInv, TypeOK, ControlOK, WritesOK, ClientsHaveVersions,
              MemoryIsBeingSaved, PinsFollowed, Saving
<1> QED
  BY <1>1, InitializationInv, CommitInv, ThreadInv, ClientInv, EnvironmentInv DEF Next

----------------------------------------------------------------------------
(* The idle work. *)

\* What keeps idle work coming.  A flag is only up in the ready mode; a thread
\* with tasks is an executor, and an executor is neither free nor waiting for the
\* initialization; of the requests only those that end in Finish count: not a
\* message to activate the update.
IdleOK ==
    /\ driver.mode # "ready" => ~driver.scheduledNavUpdateCheck
    /\ \A t \in Threads :
          /\ ~thread[t].executor => thread[t].todo = <<>>
          /\ thread[t].at \in {"free", "init"} => ~thread[t].executor
          /\ thread[t].at = "next" => thread[t].executor
    /\ driver.scheduledNavUpdateCheck =>
         \/ "navigationCheck" \in ToSet(idle.queue)
         \/ \E t \in Threads : "navigationCheck" \in ToSet(thread[t].todo)
    /\ idle.queue # <<>> =>
         \/ idle.timer
         \/ \E t \in Threads : thread[t].executor
         \/ \E c \in Clients : /\ request[c].at \in {"get", "sync", "serve"}
                               /\ request[c].kind # "activate"

\* No task is in the empty queue.
LEMMA EmptyQueue == ToSet(<<>>) = {}
BY DEF ToSet

\* IdleScheduler.schedule() keeps what is queued, and queues the new task.
LEMMA AppendQueue ==
    ASSUME NEW S, NEW s \in Seq(S), NEW x \in S
    PROVE  /\ ToSet(s) \subseteq ToSet(Append(s, x))
           /\ x \in ToSet(Append(s, x))
<1>1. /\ Append(s, x) \in Seq(S)
      /\ Len(Append(s, x)) = Len(s) + 1
      /\ \A i \in 1..Len(s) : Append(s, x)[i] = s[i]
      /\ Append(s, x)[Len(s) + 1] = x
  BY AppendProperties
<1>2. /\ DOMAIN s = 1..Len(s) /\ Len(s) \in Nat
      /\ DOMAIN Append(s, x) = 1..(Len(s) + 1)
  BY <1>1, LenProperties
<1> QED
  BY <1>1, <1>2 DEF ToSet

\* An executor that takes the first task keeps the others.
LEMMA TailQueue ==
    ASSUME NEW S, NEW s \in Seq(S), s # <<>>, NEW x \in ToSet(s), x # Head(s)
    PROVE  x \in ToSet(Tail(s))
<1>1. /\ DOMAIN s = 1..Len(s) /\ Len(s) \in Nat
  BY LenProperties
<1>2. PICK i \in 1..Len(s) : x = s[i]
  BY <1>1 DEF ToSet
<1>3. /\ Tail(s) \in Seq(S) /\ Head(s) = s[1]
      /\ Len(Tail(s)) = Len(s) - 1
      /\ \A j \in 1..Len(Tail(s)) : Tail(s)[j] = s[j + 1]
  BY HeadTailProperties
<1>4. i - 1 \in 1..Len(Tail(s)) /\ Tail(s)[i - 1] = x
  BY <1>1, <1>2, <1>3
<1>5. DOMAIN Tail(s) = 1..Len(Tail(s))
  BY <1>3, LenProperties
<1> QED
  BY <1>4, <1>5 DEF ToSet

\* A step of a thread that leaves the queue alone, and the tasks of the thread.
LEMMA ThreadKeepsIdle ==
    ASSUME IdleOK, NEW t \in Threads,
           \A u \in Threads : u # t => thread'[u] = thread[u],
           thread'[t].executor = thread[t].executor,
           thread'[t].todo = thread[t].todo,
           thread'[t].at \in {"free", "init"} => ~thread[t].executor,
           thread'[t].at = "next" => thread[t].executor,
           UNCHANGED <<idle, request>>,
           driver'.scheduledNavUpdateCheck = driver.scheduledNavUpdateCheck,
           driver'.mode = driver.mode \/ driver.mode # "ready"
    PROVE  IdleOK'
<1>1. \A u \in Threads : /\ thread'[u].executor = thread[u].executor
                         /\ thread'[u].todo = thread[u].todo
  OBVIOUS
<1>2. \A u \in Threads : /\ thread'[u].at \in {"free", "init"} => ~thread'[u].executor
                         /\ thread'[u].at = "next" => thread'[u].executor
  BY <1>1 DEF IdleOK
<1>3. driver'.mode # "ready" => ~driver'.scheduledNavUpdateCheck
  BY DEF IdleOK
<1> QED
  BY <1>1, <1>2, <1>3 DEF IdleOK

\* The next statement of a task, or its end, leaves the thread's tasks alone.
LEMMA ContinueKeeps ==
    ASSUME TypeOK, IdleOK, NEW t \in Threads, Continue(t)
    PROVE  /\ \A u \in Threads : u # t => thread'[u] = thread[u]
           /\ thread'[t].executor = thread[t].executor
           /\ thread'[t].todo = thread[t].todo
           /\ thread'[t].at \in {"free", "init"} => ~thread[t].executor
           /\ thread'[t].at = "next" => thread[t].executor
<1>1. thread \in [Threads -> ThreadRecord]
  BY DEF TypeOK, ThreadRecord
<1>2. \A u \in Threads : u # t => thread'[u] = thread[u]
  BY <1>1 DEF Continue
<1>3. CASE thread[t].executor
  <2>1. thread'[t] = [thread[t] EXCEPT !.at = "next", !.hash = NoVersion, !.set = {}]
    BY <1>1, <1>3 DEF Continue
  <2>2. /\ thread'[t].executor = thread[t].executor /\ thread'[t].todo = thread[t].todo
        /\ thread'[t].at = "next"
    BY <1>1, <2>1 DEF ThreadRecord
  <2> QED
    BY <1>2, <1>3, <2>2
<1>4. CASE ~thread[t].executor
  <2>1. thread'[t] = Free
    BY <1>1, <1>4 DEF Continue
  <2>2. /\ thread'[t].executor = FALSE /\ thread'[t].todo = <<>> /\ thread'[t].at = "free"
    BY <2>1 DEF Free
  <2>3. thread[t].executor = FALSE /\ thread[t].todo = <<>>
    <3>1. thread[t].executor \in BOOLEAN
      BY <1>1 DEF ThreadRecord
    <3> QED
      BY <1>4, <3>1 DEF IdleOK
  <2> QED
    BY <1>2, <1>4, <2>2, <2>3
<1> QED
  BY <1>3, <1>4

\* Update checks, installations and cleanups keep the idle work coming.
LEMMA ThreadIdle ==
    ASSUME TypeOK, ControlOK, IdleOK, NEW t \in Threads,
           \/ CheckForUpdates(t) \/ HandleMessage(t) \/ checkForUpdate(t) \/ setupUpdate(t)
           \/ UpdateSaved(t) \/ initializeFully(t) \/ MatchAll(t) \/ dropObsolete(t)
           \/ ListCaches(t) \/ DeleteCaches(t)
    PROVE  IdleOK'
<1>1. thread \in [Threads -> ThreadRecord] /\ driver \in DriverRecord
  BY DEF TypeOK, ThreadRecord, DriverRecord
<1>2. UNCHANGED <<idle, request>>
  BY DEF CheckForUpdates, HandleMessage, checkForUpdate, setupUpdate, UpdateSaved,
         initializeFully, MatchAll, dropObsolete, ListCaches, DeleteCaches
<1>3. /\ driver'.scheduledNavUpdateCheck = driver.scheduledNavUpdateCheck
      /\ driver'.mode = driver.mode \/ driver.mode # "ready"
  BY <1>1 DEF CheckForUpdates, HandleMessage, checkForUpdate, setupUpdate, UpdateSaved,
         initializeFully, MatchAll, dropObsolete, ListCaches, DeleteCaches, DriverRecord,
         ensureInitialized, versionFailed
<1>4. CASE Continue(t)
  <2>1. /\ \A u \in Threads : u # t => thread'[u] = thread[u]
        /\ thread'[t].executor = thread[t].executor
        /\ thread'[t].todo = thread[t].todo
        /\ thread'[t].at \in {"free", "init"} => ~thread[t].executor
        /\ thread'[t].at = "next" => thread[t].executor
    BY <1>4, ContinueKeeps
  <2> QED
    BY <1>2, <1>3, <2>1, ThreadKeepsIdle
<1>5. CASE ~Continue(t)
  <2>1. CASE HandleMessage(t)
    <3>1. thread[t].at = "init" /\ ~thread[t].executor /\ thread[t].todo = <<>>
      BY <2>1 DEF HandleMessage, IdleOK
    <3>2. /\ \A u \in Threads : u # t => thread'[u] = thread[u]
          /\ thread'[t].executor = FALSE
          /\ thread'[t].todo = <<>>
          /\ thread'[t].at # "next"
      BY <1>1, <2>1, <3>1 DEF HandleMessage, Free, ThreadRecord
    <3>3. thread'[t].executor = thread[t].executor
      BY <1>1, <3>1, <3>2 DEF ThreadRecord
    <3> QED
      BY <1>2, <1>3, <3>1, <3>2, <3>3, ThreadKeepsIdle
  <2>2. CASE CheckForUpdates(t)
    <3>1. thread[t].at = "free" /\ ~thread[t].executor
      BY <2>2 DEF CheckForUpdates, IdleOK
    <3>2. /\ \A u \in Threads : u # t => thread'[u] = thread[u]
          /\ thread'[t].executor = thread[t].executor
          /\ thread'[t].todo = thread[t].todo
          /\ thread'[t].at # "next"
      BY <1>1, <2>2 DEF CheckForUpdates, ThreadRecord
    <3> QED
      BY <1>2, <1>3, <3>1, <3>2, ThreadKeepsIdle
  <2>3. CASE ~HandleMessage(t) /\ ~CheckForUpdates(t)
    <3>1. /\ \A u \in Threads : u # t => thread'[u] = thread[u]
          /\ thread'[t].executor = thread[t].executor
          /\ thread'[t].todo = thread[t].todo
          /\ thread'[t].at \notin {"free", "init", "next"}
      BY <1>1, <1>5, <2>3 DEF checkForUpdate, setupUpdate, UpdateSaved,
         initializeFully, MatchAll, dropObsolete, ListCaches, DeleteCaches, ThreadRecord
    <3> QED
      BY <1>2, <1>3, <3>1, ThreadKeepsIdle
  <2> QED
    BY <2>1, <2>2, <2>3
<1> QED
  BY <1>4, <1>5

\* execute() moves the queue to a thread, and an executor looks at the queue again
\* before it ends; a check that starts takes its flag back.
LEMMA ExecutorIdle ==
    ASSUME TypeOK, ControlOK, IdleOK, NEW t \in Threads, Execute(t) \/ NextTask(t)
    PROVE  IdleOK'
<1>1. /\ thread \in [Threads -> ThreadRecord] /\ driver \in DriverRecord
      /\ idle \in [queue: Seq(Tasks), timer: BOOLEAN]
      /\ thread[t].todo \in Seq(Tasks)
  BY DEF TypeOK, ThreadRecord, DriverRecord
<1>2. CASE Execute(t)
  <2>1. /\ \A u \in Threads : u # t => thread'[u] = thread[u]
        /\ thread'[t].at = "next" /\ thread'[t].executor /\ thread'[t].todo = idle.queue
        /\ idle'.queue = <<>>
        /\ thread[t].at = "free" /\ UNCHANGED driver
    BY <1>1, <1>2 DEF Execute, Free
  <2>2. thread[t].todo = <<>>
    BY <2>1 DEF IdleOK
  <2>3. driver.scheduledNavUpdateCheck =>
           \E u \in Threads : "navigationCheck" \in ToSet(thread'[u].todo)
    BY <2>1, <2>2, EmptyQueue DEF IdleOK
  <2>4. \A u \in Threads : /\ ~thread'[u].executor => thread'[u].todo = <<>>
                           /\ thread'[u].at \in {"free", "init"} => ~thread'[u].executor
                           /\ thread'[u].at = "next" => thread'[u].executor
    BY <2>1 DEF IdleOK
  <2> QED
    BY <2>1, <2>3, <2>4 DEF IdleOK
<1>3. CASE NextTask(t)
  <2>1. /\ driver.mode = "ready" /\ thread[t].at = "next"
        /\ \A u \in Threads : u # t => thread'[u] = thread[u]
    BY <1>1, <1>3 DEF NextTask, ControlOK
  <2>2. CASE thread[t].todo = <<>> /\ idle.queue = <<>>
    <3>1. /\ thread'[t] = Free /\ UNCHANGED <<driver, idle>>
      BY <1>1, <1>3, <2>2 DEF NextTask
    <3>2. /\ thread'[t].at = "free" /\ ~thread'[t].executor /\ thread'[t].todo = <<>>
      BY <3>1 DEF Free
    <3>3. \A u \in Threads : thread'[u].todo = thread[u].todo
      BY <2>1, <2>2, <3>2
    <3> QED
      BY <2>1, <2>2, <3>1, <3>2, <3>3 DEF IdleOK
  <2>3. CASE thread[t].todo = <<>> /\ idle.queue # <<>>
    <3>1. /\ thread'[t] = [thread[t] EXCEPT !.todo = idle.queue]
          /\ idle'.queue = <<>> /\ UNCHANGED driver
      BY <1>1, <1>3, <2>3 DEF NextTask
    <3>2. /\ thread'[t].at = "next" /\ thread'[t].executor = thread[t].executor
          /\ thread'[t].todo = idle.queue
      BY <1>1, <2>1, <3>1 DEF ThreadRecord
    <3>3. driver.scheduledNavUpdateCheck =>
             \E u \in Threads : "navigationCheck" \in ToSet(thread'[u].todo)
      BY <2>1, <2>3, <3>2, EmptyQueue DEF IdleOK
    <3>4. thread[t].executor
      BY <2>1 DEF IdleOK
    <3> QED
      BY <2>1, <3>1, <3>2, <3>3, <3>4, ZenonT(40) DEF IdleOK
  <2>4. CASE thread[t].todo # <<>>
    <3>1. /\ thread'[t].at \in {"prefetch", "matchAll", "manifest"}
          /\ thread'[t].executor = TRUE /\ thread'[t].todo = Tail(thread[t].todo)
          /\ driver' = [driver EXCEPT !.scheduledNavUpdateCheck =
                           @ /\ Head(thread[t].todo) # "navigationCheck"]
          /\ UNCHANGED idle
      <4> DEFINE first == Head(thread[t].todo)
                 Taken == [at |-> CASE first \in Versions -> "prefetch"
                                    [] first = "cleanup" -> "matchAll"
                                    [] OTHER -> "manifest",
                           executor |-> TRUE,
                           todo |-> Tail(thread[t].todo),
                           hash |-> IF first \in Versions THEN first ELSE NoVersion,
                           set |-> {}]
      <4>1. /\ thread' = [thread EXCEPT ![t] = Taken]
            /\ driver' = [driver EXCEPT !.scheduledNavUpdateCheck =
                             @ /\ first # "navigationCheck"]
            /\ UNCHANGED idle
        BY <1>3, <2>4 DEF NextTask
      <4>2. thread'[t] = Taken
        BY <1>1, <4>1
      <4>3. /\ Taken.at \in {"prefetch", "matchAll", "manifest"}
            /\ Taken.executor = TRUE
            /\ Taken.todo = Tail(thread[t].todo)
        OBVIOUS
      <4> HIDE DEF Taken
      <4> QED
        BY <4>1, <4>2, <4>3
    <3>2. /\ driver'.mode = "ready"
          /\ driver'.scheduledNavUpdateCheck =>
                driver.scheduledNavUpdateCheck /\ Head(thread[t].todo) # "navigationCheck"
      BY <1>1, <2>1, <3>1 DEF DriverRecord
    <3>3. ASSUME driver'.scheduledNavUpdateCheck
          PROVE  \/ "navigationCheck" \in ToSet(idle.queue)
                 \/ \E u \in Threads : "navigationCheck" \in ToSet(thread'[u].todo)
      <4>1. "navigationCheck" \in ToSet(thread[t].todo)
               => "navigationCheck" \in ToSet(thread'[t].todo)
        BY <1>1, <2>4, <3>1, <3>2, <3>3, TailQueue
      <4> QED
        BY <2>1, <3>2, <3>3, <4>1 DEF IdleOK
    <3>4. \A u \in Threads : /\ ~thread'[u].executor => thread'[u].todo = <<>>
                             /\ thread'[u].at \in {"free", "init"} => ~thread'[u].executor
                             /\ thread'[u].at = "next" => thread'[u].executor
      BY <2>1, <3>1 DEF IdleOK
    <3> QED
      BY <3>1, <3>2, <3>3, <3>4 DEF IdleOK
  <2> QED
    BY <2>2, <2>3, <2>4
<1> QED
  BY <1>2, <1>3

\* initialize() finds no flag up and arms the timeout; a worker that is stopped
\* forgets its flag and its queue together.
LEMMA WorkerIdle ==
    ASSUME TypeOK, ControlOK, IdleOK, Initialization \/ Deploy \/ Crash \/ \E k \in Keys : Commit(k)
    PROVE  IdleOK'
<1>1. driver \in DriverRecord
  BY DEF TypeOK, DriverRecord
<1>2. CASE Crash
  BY <1>2, EmptyQueue DEF Crash, IdleOK, Free
<1>3. CASE Deploy \/ \E k \in Keys : Commit(k)
  <2>1. UNCHANGED <<driver, idle, thread, request>>
    BY <1>3 DEF Deploy, Commit
  <2> QED
    BY <2>1 DEF IdleOK
<1>4. CASE Initialization
  <2>1. UNCHANGED <<thread, request>> /\ driver.mode # "ready"
    BY <1>4 DEF Initialization, Activate, ReadControlTable, FetchFirstManifest, StartOver
  <2>2. driver'.scheduledNavUpdateCheck = driver.scheduledNavUpdateCheck
    BY <1>1, <1>4 DEF Initialization, Activate, ReadControlTable, FetchFirstManifest,
       StartOver, Hydrate, ensureInitialized, DriverRecord
  <2>3. ~driver'.scheduledNavUpdateCheck
    BY <2>1, <2>2 DEF IdleOK
  <2>4. UNCHANGED idle \/ idle'.timer
    BY <1>4 DEF Initialization, Activate, ReadControlTable, FetchFirstManifest,
       StartOver, Hydrate
  <2> QED
    BY <2>1, <2>3, <2>4 DEF IdleOK
<1> QED
  BY <1>2, <1>3, <1>4

\* A request that is no activation message.
Fetching(c) == request[c].at \in {"get", "sync", "serve"} /\ request[c].kind # "activate"

\* The requests of tabs: whoever queues a check goes on to Finish.
LEMMA ClientIdle ==
    ASSUME TypeOK, ControlOK, IdleOK, NEW c \in Clients, StartRequest(c) \/ Serve(c) \/ Close(c)
    PROVE  IdleOK'
<1>1. /\ driver \in DriverRecord /\ request \in [Clients -> RequestRecord]
      /\ idle \in [queue: Seq(Tasks), timer: BOOLEAN]
  BY DEF TypeOK, RequestRecord, DriverRecord
<1>2. UNCHANGED thread /\ \A d \in Clients : d # c => request'[d] = request[d]
  BY <1>1 DEF StartRequest, Serve, Close, HandleUninitialized, assignVersion,
     GetClient, updateClient, PinSaved, handleFetch, PinToLatest, ServeFrom, Finish
<1> DEFINE Coming == \/ idle'.timer
                     \/ \E t \in Threads : thread[t].executor
                     \/ \E d \in Clients : Fetching(d)'
           Checked == driver'.scheduledNavUpdateCheck =>
                        \/ "navigationCheck" \in ToSet(idle'.queue)
                        \/ \E t \in Threads : "navigationCheck" \in ToSet(thread[t].todo)
           Down == driver'.mode # "ready" => ~driver'.scheduledNavUpdateCheck
<1>3. SUFFICES (idle'.queue # <<>> => Coming) /\ Checked /\ Down
  BY <1>2 DEF IdleOK, Fetching
<1>4. CASE assignVersion(c)
  <2>1. /\ driver.mode = "ready" /\ request[c].at = "init" /\ request[c].kind # "activate"
        /\ driver' = [driver EXCEPT !.scheduledNavUpdateCheck =
                                       @ \/ request[c].kind = "navigate"]
        /\ idle'.queue = Scheduled(c)
    BY <1>1, <1>4 DEF assignVersion, trigger
  <2>2. Down
    BY <1>1, <2>1 DEF DriverRecord
  <2>3. Checked
    <3>1. /\ ToSet(idle.queue) \subseteq ToSet(Append(idle.queue, "navigationCheck"))
          /\ "navigationCheck" \in ToSet(Append(idle.queue, "navigationCheck"))
      BY <1>1, AppendQueue DEF Tasks
    <3>2. CASE request[c].kind = "navigate" /\ ~driver.scheduledNavUpdateCheck
      BY <2>1, <3>1, <3>2 DEF Scheduled
    <3>3. CASE ~(request[c].kind = "navigate" /\ ~driver.scheduledNavUpdateCheck)
      <4>1. idle'.queue = idle.queue
            /\ (driver'.scheduledNavUpdateCheck => driver.scheduledNavUpdateCheck)
        BY <1>1, <2>1, <3>3 DEF Scheduled, DriverRecord
      <4> QED
        BY <4>1 DEF IdleOK
    <3> QED
      BY <3>2, <3>3
  <2>4. idle'.queue # <<>> => Coming
    <3>1. CASE pin[c] = NoVersion /\ driver.degraded
      <4>1. idle' = trigger(Scheduled(c))
        BY <1>4, <3>1 DEF assignVersion
      <4> QED
        BY <4>1 DEF trigger
    <3>2. CASE ~(pin[c] = NoVersion /\ driver.degraded)
      <4>1. /\ request'[c].at \in {"get", "sync", "serve"}
            /\ request'[c].kind = request[c].kind
        BY <1>1, <1>4, <3>2 DEF assignVersion, PinToLatest, ServeFrom, RequestRecord
      <4> QED
        BY <2>1, <4>1 DEF Fetching
    <3> QED
      BY <3>1, <3>2
  <2> QED
    BY <2>2, <2>3, <2>4
<1>5. CASE handleFetch(c)
  <2>1. /\ idle' = trigger(idle.queue)
        /\ driver'.mode = driver.mode
        /\ driver'.scheduledNavUpdateCheck = driver.scheduledNavUpdateCheck
    BY <1>1, <1>5 DEF handleFetch, Finish, versionFailed, DriverRecord
  <2> QED
    BY <1>2, <2>1 DEF trigger, IdleOK
<1>6. CASE ~assignVersion(c) /\ ~handleFetch(c)
  <2>1. /\ UNCHANGED idle
        /\ driver'.mode = driver.mode \/ driver.mode # "ready"
        /\ driver'.scheduledNavUpdateCheck = driver.scheduledNavUpdateCheck
    BY <1>1, <1>6 DEF StartRequest, Serve, Close, HandleUninitialized,
       GetClient, updateClient, PinSaved, ensureInitialized, DriverRecord
  <2>2. Fetching(c) => Fetching(c)'
    BY <1>1, <1>6 DEF StartRequest, Serve, Close, HandleUninitialized,
       GetClient, updateClient, PinSaved, PinToLatest, ServeFrom, Fetching, RequestRecord
  <2>3. \A d \in Clients : Fetching(d) => Fetching(d)'
    BY <1>2, <2>2 DEF Fetching
  <2> QED
    BY <1>2, <2>1, <2>3 DEF IdleOK, Fetching
<1> QED
  BY <1>4, <1>5, <1>6

\* Every step keeps the idle work coming.
LEMMA IdleNext ==
    ASSUME TypeOK, ControlOK, IdleOK, [Next]_vars
    PROVE  IdleOK'
<1>1. CASE UNCHANGED vars
  BY <1>1 DEF vars, IdleOK
<1>2. CASE \E t \in Threads : Execute(t) \/ CheckForUpdates(t) \/ Run(t)
  BY <1>2, ThreadIdle, ExecutorIdle DEF Run
<1>3. CASE \E c \in Clients : StartRequest(c) \/ Serve(c) \/ Close(c)
  BY <1>3, ClientIdle
<1> QED
  BY <1>1, <1>2, <1>3, WorkerIdle DEF Next

----------------------------------------------------------------------------
(* Theorems. *)

\* The invariant holds in every reachable state: the lemma of all that follows.
THEOREM Inductive == Spec => []IInv
<1>1. IInv /\ [Next]_vars => IInv'
  BY NextInv
<1> QED
  BY InitInv, <1>1, PTL DEF Spec

\* The driver's fields, the control table, the writes and the idle queue always
\* have their types, however handlers interleave and wherever the worker is stopped.
THEOREM TypeCorrect == Spec => []TypeOK
<1>1. IInv => TypeOK
  BY DEF IInv
<1> QED
  BY <1>1, Inductive, PTL

\* No interleaving of updates, cleanups and requests leaves a tab pinned to a
\* version that is not loaded, or the worker without its latest version.
THEOREM ClientsNeverOrphaned == Spec => []ClientsHaveVersions
<1>1. IInv => ClientsHaveVersions
  BY DEF IInv
<1> QED
  BY <1>1, Inductive, PTL

\* Every change of versions, pins and latest is in the control table or in the
\* last write on its way there.
THEOREM MemoryIsAlwaysBeingSaved == Spec => []MemoryIsBeingSaved
<1>1. IInv => MemoryIsBeingSaved
  BY DEF IInv
<1> QED
  BY <1>1, Inductive, PTL

\* assignVersion() and updateClient() go on only when the pin they made is in
\* the control table, whatever was written meanwhile.
THEOREM PinsAreDurable == Spec => PinsAreSavedBeforeUse
<1> DEFINE A == \A c \in Clients :
                   request[c].at = "sync" /\ request'[c].at # "sync" /\ driver'.mode = "ready"
                   /\ pin[c] # NoVersion => disk.assignments[c] = pin[c]
<1>1. IInv /\ [Next]_vars => [A]_vars
  <2> SUFFICES ASSUME IInv, Next, NEW c \in Clients, request[c].at = "sync",
                      request'[c].at # "sync", driver'.mode = "ready", pin[c] # NoVersion
               PROVE  disk.assignments[c] = pin[c]
    OBVIOUS
  <2>1. driver.mode = "ready" /\ request \in [Clients -> RequestRecord]
    BY DEF IInv, ControlOK, TypeOK, RequestRecord
  <2>2. CASE Crash
    BY <2>2 DEF Crash
  <2>3. CASE PinSaved(c)
    BY <2>3 DEF PinSaved, Saved, IInv, PinsFollowed
  <2>4. CASE \E d \in Clients : (StartRequest(d) \/ Serve(d) \/ Close(d)) /\ ~PinSaved(c)
    <3>1. PICK d \in Clients : (StartRequest(d) \/ Serve(d) \/ Close(d)) /\ ~PinSaved(c)
      BY <2>4
    <3>2. request'[c] = request[c] \/ d = c
      BY <2>1, <3>1 DEF StartRequest, Serve, Close, HandleUninitialized, assignVersion,
          GetClient, updateClient, PinSaved, handleFetch, PinToLatest, ServeFrom, Finish
    <3>3. d = c => request'[c] = request[c]
      BY <3>1 DEF StartRequest, Serve, Close, HandleUninitialized, assignVersion,
          GetClient, updateClient, handleFetch
    <3> QED
      BY <3>2, <3>3
  <2>5. CASE Initialization
    BY <2>5 DEF Initialization, Activate, ReadControlTable, FetchFirstManifest, StartOver
  <2>6. CASE \/ \E k \in Keys : Commit(k)
             \/ \E t \in Threads : Execute(t) \/ CheckForUpdates(t) \/ Run(t)
             \/ Deploy
    BY <2>6 DEF Commit, Execute, CheckForUpdates, Run, NextTask, HandleMessage, checkForUpdate,
        setupUpdate, UpdateSaved, initializeFully, MatchAll, dropObsolete, ListCaches,
        DeleteCaches, Deploy
  <2> QED
    BY <2>2, <2>3, <2>4, <2>5, <2>6 DEF Next
<1> QED
  BY <1>1, Inductive, PTL DEF Spec, PinsAreSavedBeforeUse

\* The flag of the navigation check never outlives the check, and a queue always
\* has a timeout, an executor or a request that will take it up.
THEOREM IdleWorkIsNeverForgotten == Spec => []IdleWorkIsComing
<1>1. Init => IdleOK
  BY DEF Init, IdleOK, Free
<1>2. IInv /\ IdleOK /\ [Next]_vars => IdleOK'
  BY IdleNext DEF IInv
<1>3. IdleOK => IdleWorkIsComing
  BY DEF IdleOK, IdleWorkIsComing
<1> QED
  BY <1>1, <1>2, <1>3, Inductive, PTL DEF Spec
=============================================================================
