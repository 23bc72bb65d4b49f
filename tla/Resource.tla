------------------------------ MODULE Resource ------------------------------
(***************************************************************************)
(* resource(): a signal that is filled by an asynchronous loader.          *)
(*                                                                         *)
(*   BaseWritableResource   set, setValueState, setErrorState              *)
(*   WritableResourceImpl   reload, destroy, loadEffect, abortInProgressLoad*)
(*                                                                         *)
(* The request is a computed, loadEffect the body of an effect that reads  *)
(* it; between a change of the request and the effect lies a tick, between *)
(* a load and its answer any time, and answers come in any order.  Loaders *)
(* run inside the effect and may call the resource.                        *)
(***************************************************************************)
EXTENDS Integers

CONSTANTS
    Requests,    \* the requests there may be something to load for
    Undefined,   \* the request "nothing to load"
    Throws,      \* the outcome of a request function that throws
    None,        \* the value undefined, and "no load"
    Local,       \* a value given by set()
    MaxLoads     \* bound on the loads

ASSUME ConstantsAssumption ==
    /\ MaxLoads \in Nat
    /\ {Undefined, Throws} \cap Requests = {} /\ Undefined # Throws
    /\ {None, Local, Throws} \cap (1..MaxLoads) = {}
    /\ None # Local /\ Throws \notin {None, Local}

VARIABLES
    inView,       \* is the effect a view effect, or a root effect?
    wanted,       \* what the request function would return now
    stale,        \* is the computed that holds the request dirty?
    request,      \* its cached request ...
    reloaded,     \* ... and whether the reload counter next to it left 0
    dirty,        \* is the effect dirty and scheduled?
    hasRun,       \* EffectNode.hasRun
    connected,    \* is it a consumer of the request?
    readsReload,  \* is it a consumer of the cached request's counter?
    destroyed,    \* destroy() was called, and before the effect's first run?
    status,       \* BaseWritableResource.status
    value,        \* value: undefined, a local one, or the result of a load
    loads,        \* the loads started so far, the last one is this one
    inLoader,     \* is the loader function on the stack?
    inFlight,     \* loads that were not answered yet
    aborted,      \* loads whose abort signal is set
    current,      \* the load of pendingController and resolvePendingTask
    tasks,        \* loads whose pending task is held
    seen,         \* history: the request loadEffect met last
    asked         \* history: did reload() return true since?

graphVars == <<wanted, stale, request, reloaded>>
effectVars == <<dirty, hasRun, connected, readsReload, destroyed>>
loadVars == <<loads, inLoader, inFlight>>
vars == <<inView, graphVars, effectVars, status, value, loadVars, aborted,
          current, tasks, seen, asked>>

Loads == 1..MaxLoads
Outcomes == Requests \cup {Undefined, Throws}
IsLoading == status \in {"Loading", "Reloading"}

TypeOK ==
    /\ inView \in BOOLEAN
    /\ wanted \in Outcomes /\ request \in Outcomes
    /\ stale \in BOOLEAN /\ reloaded \in BOOLEAN
    /\ dirty \in BOOLEAN /\ hasRun \in BOOLEAN
    /\ connected \in BOOLEAN /\ readsReload \in BOOLEAN
    /\ destroyed \in {"no", "early", "yes"}
    /\ status \in {"Idle", "Error", "Loading", "Reloading", "Resolved", "Local"}
    /\ value \in Loads \cup {None, Local}
    /\ loads \in 0..MaxLoads
    /\ inLoader \in BOOLEAN
    /\ inFlight \in SUBSET Loads /\ aborted \in SUBSET Loads
    /\ current \in Loads \cup {None}
    /\ tasks \in SUBSET Loads
    /\ seen \in Outcomes
    /\ asked \in BOOLEAN

Init ==
    /\ inView \in BOOLEAN
    /\ wanted \in Outcomes
    /\ stale = TRUE /\ request = Undefined /\ reloaded = FALSE
    /\ dirty = TRUE /\ hasRun = FALSE
    /\ connected = FALSE /\ readsReload = FALSE
    /\ destroyed = "no"
    /\ status = "Idle" /\ value = None
    /\ loads = 0 /\ inLoader = FALSE /\ inFlight = {}
    /\ aborted = {} /\ current = None /\ tasks = {}
    /\ seen = Undefined /\ asked = FALSE

----------------------------------------------------------------------------
(* abortInProgressLoad, and the states a resource is put in.               *)

\* Mutation of Released: the application stays unstable until the answer.
ReleasedLate == tasks

\* The tasks and the aborted loads after abortInProgressLoad().
Released == tasks \ {current}
Cancelled == aborted \cup (IF current = None THEN {} ELSE {current})

abortInProgressLoad ==
    /\ aborted' = Cancelled
    /\ tasks' = Released
    /\ current' = None

\* set() with a value that is not equal to the present one.
SetLocal(v) ==
    /\ abortInProgressLoad
    /\ status' = "Local"
    /\ value' = v

\* Mutation of setErrorState: the error becomes the value.
setErrorStateAsValue(load) ==
    /\ status' = "Error"
    /\ value' = Throws
    /\ tasks' = tasks \ {load}
    /\ UNCHANGED <<aborted, current>>

\* A failed load.  Taking back a value that is there goes through set(), which
\* cancels what is in progress.
setErrorState(load) ==
    /\ status' = "Error"
    /\ value' = None
    /\ tasks' = tasks \ {load, IF value = None THEN load ELSE current}
    /\ IF value = None
         THEN UNCHANGED <<aborted, current>>
         ELSE aborted' = Cancelled /\ current' = None

\* Mutation of Settle: the abort signal is not looked at after the await.
SettleAnyway(load, ok) ==
    \/ /\ ok
       /\ status' = "Resolved" /\ value' = load
       /\ tasks' = tasks \ {load}
       /\ UNCHANGED <<aborted, current>>
    \/ ~ok /\ setErrorState(load)

\* loadEffect after its await: an aborted load only gives back its task, which
\* is gone already.
Settle(load, ok) ==
    \/ /\ load \in aborted
       /\ tasks' = tasks \ {load}
       /\ UNCHANGED <<status, value, aborted, current>>
    \/ /\ load \notin aborted /\ ok
       /\ status' = "Resolved" /\ value' = load
       /\ tasks' = tasks \ {load}
       /\ UNCHANGED <<aborted, current>>
    \/ /\ load \notin aborted /\ ~ok
       /\ setErrorState(load)

----------------------------------------------------------------------------
(* What the application does, also from within the loader.                 *)

\* Mutation of ChangeRequest: a change while the effect runs is overwritten by
\* its end.
ChangeRequestLost(r) ==
    /\ wanted' = r
    /\ stale' = TRUE
    /\ dirty' = (dirty \/ (connected /\ ~inLoader))
    /\ UNCHANGED <<inView, request, reloaded, hasRun, connected, readsReload, destroyed,
                   status, value, loadVars, aborted, current, tasks, seen, asked>>

\* A signal the request function reads is written.  The computed makes a new
\* request object whatever the function returns.
ChangeRequest(r) ==
    /\ wanted' = r
    /\ stale' = TRUE
    /\ dirty' = (dirty \/ connected)
    /\ UNCHANGED <<inView, request, reloaded, hasRun, connected, readsReload, destroyed,
                   status, value, loadVars, aborted, current, tasks, seen, asked>>

\* set() and update(); an equal value changes nothing.
Set(v) ==
    /\ value # v \/ v = Local
    /\ SetLocal(v)
    /\ UNCHANGED <<inView, graphVars, effectVars, loadVars, seen, asked>>

\* The computed is evaluated if need be: a new request comes with a new counter.
Evaluated == IF stale THEN wanted ELSE request

\* Mutation of Reload: the counter is written where nobody reads it.
ReloadUnread ==
    /\ status \notin {"Idle", "Loading", "Reloading"}
    /\ stale' = FALSE /\ request' = Evaluated
    /\ Evaluated # Throws
    /\ reloaded' = TRUE /\ asked' = TRUE
    /\ readsReload' = (readsReload /\ ~stale)
    /\ UNCHANGED <<inView, wanted, dirty, hasRun, connected, destroyed, status, value,
                   loadVars, aborted, current, tasks, seen>>

\* reload() where it does not return false: the request is read, which may
\* throw, and its counter incremented.
Reload ==
    /\ status \notin {"Idle", "Loading", "Reloading"}
    /\ stale' = FALSE /\ request' = Evaluated
    /\ readsReload' = (readsReload /\ ~stale)
    /\ \/ /\ Evaluated = Throws
          /\ reloaded' = (reloaded /\ ~stale)
          /\ UNCHANGED <<dirty, asked>>
       \/ /\ Evaluated # Throws
          /\ reloaded' = TRUE /\ asked' = TRUE
          /\ dirty' = (dirty \/ (readsReload /\ ~stale))
    /\ UNCHANGED <<inView, wanted, hasRun, connected, destroyed, status, value,
                   loadVars, aborted, current, tasks, seen>>

\* Mutation of Destroy: the effect is left alone.
DestroyKeepsEffect ==
    /\ destroyed' = IF hasRun THEN "yes" ELSE "early"
    /\ abortInProgressLoad
    /\ status' = "Idle" /\ value' = None
    /\ UNCHANGED <<inView, graphVars, dirty, hasRun, connected, readsReload, loadVars, seen, asked>>

\* destroy(), by the application and again by the injector.  A view forgets its
\* effect, the scheduler keeps a root effect that is queued.
Destroy ==
    /\ destroyed' = IF hasRun THEN "yes" ELSE "early"
    /\ connected' = FALSE /\ readsReload' = FALSE
    /\ dirty' = (dirty /\ ~inView)
    /\ abortInProgressLoad
    /\ status' = "Idle" /\ value' = None
    /\ UNCHANGED <<inView, graphVars, hasRun, loadVars, seen, asked>>

User ==
    \/ \E r \in Outcomes : ChangeRequest(r)
    \/ \E v \in {None, Local} : Set(v)
    \/ Reload
    \/ Destroy

----------------------------------------------------------------------------
(* The effect, the loader and its answers.                                 *)

\* Without producers there is nothing to poll: a destroyed effect that has run
\* before does not run.
SkipEffect ==
    /\ dirty /\ ~inLoader
    /\ hasRun /\ ~connected
    /\ dirty' = FALSE
    /\ UNCHANGED <<inView, graphVars, hasRun, connected, readsReload, destroyed, status,
                   value, loadVars, aborted, current, tasks, seen, asked>>

\* The part of loadEffect that is common to its outcomes: what was going on is
\* cancelled by each of them, then the request is read.
RunEffect ==
    /\ dirty /\ ~inLoader
    /\ ~hasRun \/ connected
    /\ dirty' = FALSE /\ hasRun' = TRUE /\ connected' = TRUE
    /\ stale' = FALSE /\ request' = Evaluated
    /\ reloaded' = (reloaded /\ ~stale)
    /\ seen' = Evaluated /\ asked' = FALSE
    /\ UNCHANGED <<inView, wanted, destroyed>>

\* The request function throws: loadEffect is async, its promise is dropped.
RequestThrows ==
    /\ RunEffect
    /\ Evaluated = Throws
    /\ abortInProgressLoad
    /\ readsReload' = FALSE
    /\ UNCHANGED <<status, value, loadVars>>

\* Mutation of NothingToLoad: the state is not reset.
NothingToLoadKeepsStatus ==
    /\ RunEffect
    /\ Evaluated = Undefined
    /\ abortInProgressLoad
    /\ readsReload' = FALSE
    /\ UNCHANGED <<status, value, loadVars>>

\* Nothing to load; the counter is not read.
NothingToLoad ==
    /\ RunEffect
    /\ Evaluated = Undefined
    /\ abortInProgressLoad
    /\ readsReload' = FALSE
    /\ status' = "Idle" /\ value' = None
    /\ UNCHANGED loadVars

\* A new load with a task and an abort signal of its own, up to the call of the
\* loader.  The value persists only while reloading.
StartLoad ==
    /\ RunEffect
    /\ Evaluated \in Requests
    /\ readsReload' = TRUE
    /\ \/ reloaded' /\ status' = "Reloading" /\ UNCHANGED value
       \/ ~reloaded' /\ status' = "Loading" /\ value' = None
    /\ loads < MaxLoads
    /\ loads' = loads + 1
    /\ inLoader' = TRUE
    /\ current' = loads'
    /\ tasks' = Released \cup {loads'}
    /\ aborted' = Cancelled
    /\ UNCHANGED inFlight

\* The loader returns its promise.
LoaderReturns ==
    /\ inLoader
    /\ inLoader' = FALSE
    /\ inFlight' = inFlight \cup {loads}
    /\ UNCHANGED <<inView, graphVars, effectVars, status, value, loads, aborted, current,
                   tasks, seen, asked>>

\* It throws instead, within the effect.
LoaderThrows ==
    /\ inLoader
    /\ inLoader' = FALSE
    /\ Settle(loads, FALSE)
    /\ UNCHANGED <<inView, graphVars, effectVars, loads, inFlight, seen, asked>>

\* A promise settles.
Answer(load, ok) ==
    /\ ~inLoader
    /\ load \in inFlight
    /\ inFlight' = inFlight \ {load}
    /\ Settle(load, ok)
    /\ UNCHANGED <<inView, graphVars, effectVars, loads, inLoader, seen, asked>>

----------------------------------------------------------------------------
(* The specification.  Effects are flushed, loaders return, and the load in *)
(* progress is answered; an aborted one may hang for ever.                  *)

Effect == SkipEffect \/ RequestThrows \/ NothingToLoad \/ StartLoad
Loader == LoaderReturns \/ LoaderThrows
CurrentAnswer == \E ok \in BOOLEAN : Answer(loads, ok)

Next ==
    \/ User \/ Effect \/ Loader
    \/ \E load \in Loads, ok \in BOOLEAN : Answer(load, ok)

Spec == Init /\ [][Next]_vars

FairSpec == Spec /\ WF_vars(Effect) /\ WF_vars(Loader) /\ WF_vars(CurrentAnswer)

----------------------------------------------------------------------------
(* Properties.                                                             *)

\* The application is kept unstable by exactly the load in progress: a task is
\* held only while the resource is loading and only by the last load, although
\* a cancelled loader may never answer, answer late, or be cancelled from within
\* itself.  A request function that throws leaves the status as it was, so that
\* the resource may go on to say it is loading; nothing else does.
TaskWhileLoading ==
    /\ tasks # {} => IsLoading /\ tasks = {current} /\ current = loads
    /\ IsLoading => tasks # {} \/ seen = Throws

\* As documented for the members of ResourceStatus: without a valid request,
\* after an error and while loading for a new request there is no value.
NoValueUnlessShown ==
    status \in {"Idle", "Error", "Loading"} => value = None

\* A result or an error is taken only from the last load, and only while the
\* resource is still loading: the answer of a load that was superseded, or that
\* a local value or destroy() overtook, changes nothing.
NoLateAnswer ==
    [][status' \in {"Resolved", "Error"} /\ <<status, value>>' # <<status, value>>
         => IsLoading /\ value' \in {None, loads}]_vars

\* A resolved resource shows the value of the present request, or the effect
\* that will load for it is scheduled; changes that come while the loader is on
\* the stack, or between an evaluation by reload() and the effect, count too.
ResolvedIsCurrent ==
    destroyed = "no" /\ status = "Resolved" /\ ~dirty => seen = wanted

\* A reload() that returned true is going to happen, except that a request which
\* has nothing to load, or throws, does not read the counter.
ReloadsHappen ==
    asked /\ destroyed = "no" => dirty \/ seen \in {Undefined, Throws}

\* Once destroyed a resource loads nothing, whatever changes afterwards.  The
\* exception is a root effect that was destroyed before its first run: it is
\* still queued, runs, and loads again and again.
DestroyedLoadsNothing ==
    destroyed = "yes" \/ (destroyed = "early" /\ inView) => tasks = {} /\ ~IsLoading

\* When the application leaves the resource alone, loading comes to an end.
LoadingEnds ==
    <>[][~User]_vars => <>[](~IsLoading \/ seen = Throws)
============================================================================
