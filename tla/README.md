# Formal models of Angular's runtime

This directory holds TLA+ specifications of the parts of the Angular framework
(`src/packages`) whose correctness depends on the order of events:

* the zoneless change detection scheduler with the stability of the application,
* the reactive graph of signals, and `resource()`, which loads into a signal,
* the driver of the service worker, with restarts at every await,
* the router's navigations, with the browser's session history.

Every definition is translated from the TypeScript source; the `map` of `PROJECT.json`
names the lines each one stands for. TLC checks the properties on small instances,
TLAPS proves the central ones for every instance.

- [Inventory of the system](#inventory-of-the-system)
- [The modules](#the-modules)
- [What the runs show](#what-the-runs-show)
- [Bounds](#bounds)
- [Fairness](#fairness)
- [Proofs](#proofs)
- [Where the code and its comments disagree](#where-the-code-and-its-comments-disagree)
- [Abstractions, and what is not modelled](#abstractions-and-what-is-not-modelled)
- [Plan](#plan)

## Inventory of the system

The repository is the Angular monorepo. Most of it (the compiler, the CLI
integration, the language service, the documentation site) is batch or tooling code.
What decides whether an application behaves is a small set of runtime components
that interact through callbacks, the event loop and shared mutable state.

| component | state | operations | interacts with |
|---|---|---|---|
| **zoneless scheduler** `core/src/change_detection/scheduling/zoneless_scheduling_impl.ts`, `util/callback_scheduler.ts` | `pendingRenderTaskId`, `cancelScheduledCallback`, `useMicrotaskScheduler`, `runningTick` | `notify(source)`, `shouldScheduleTick`, `tick`, `cleanup`, `ngOnDestroy` | sets the flags of ApplicationRef, holds pending tasks, queues a race of `requestAnimationFrame` and `setTimeout`, or a microtask |
| **ApplicationRef** `core/src/application/application_ref.ts` | `dirtyFlags`, `deferredDirtyFlags`, `allViews`, `_runningTick`, `destroyed` | `tick`, `synchronize`, `synchronizeOnce`, `attachView`, `detachView`, `destroy` | flushes effects, refreshes views, executes render hooks, emits `afterTick` to the scheduler |
| **pending tasks** `core/src/pending_tasks.ts` | the set of task ids, the BehaviorSubject `hasPendingTasks` | `add`, `remove`, `run` | `isStable` and `whenStable()`; server rendering and hydration wait for them |
| **root effects** `core/src/render3/reactivity/{effect,root_effect_scheduler}.ts` | the scheduler's queue, per effect `dirty`, `hasRun` | create, schedule, flush, run, destroy | consumer of the reactive graph, notifies the scheduler |
| **render hooks** `core/src/render3/after_render/manager.ts` | `sequences`, `deferredRegistrations`, `executing`, per sequence `erroredOrDestroyed`, `once` | register, unregister, execute | runs at the end of a pass, notifies the scheduler |
| **view refresh** `core/src/render3/instructions/{change_detection,mark_view_dirty}.ts` | per view `Dirty`, `RefreshView`, the template's reactive consumer | mark, refresh, retry while dirty | sets flags through `notify` |
| **reactive graph** `core/primitives/signals/src/{graph,computed,signal}.ts` | versions, epochs, producer and live consumer arrays with mutual indices | read, write, recompute, poll, link, unlink, destroy | effects and templates are its consumers |
| **NgZone scheduling** `core/src/zone/ng_zone.ts`, `ng_zone_scheduling.ts` | nesting, `hasPendingMicrotasks`, `isStable` | enter, leave, `checkStable`, `onMicrotaskEmpty` | ticks the application |
| **service worker driver** `service-worker/worker/src/{driver,db-cache}.ts` | `state`, versions by hash, `clientVersionMap`, `latestHash`, `scheduledNavUpdateCheck`, the control table | fetch, message, initialize, check for update, set up an update, a version fails, clean up, `sync` | the browser's Cache storage, clients, the idle scheduler |
| **idle scheduler** `service-worker/worker/src/idle.ts` | the queue, the pending timeout | `trigger`, `schedule`, `execute` | runs update checks, initializations and cleanups of the driver |
| **asset and data groups** `service-worker/worker/src/{app-version,assets,data}.ts` | caches by hash, metadata, an LRU list | initialize fully, handle a fetch, clean up | network, the driver |
| **router** `router/src/{router,navigation_transition}.ts` | current transition and navigation, last successful one, the switchMap's inner subscription | navigate, redirect, cancel, activate, fail | guards, resolvers and lazy loaders (promises), event subscribers |
| **router state manager** `router/src/statemanager/state_manager.ts` | the current and raw URL trees, router state, memento, page id | `setBrowserUrl`, `restoreHistory`, reset | the browser's session history, popstate events |
| **resource** `core/src/resource/resource.ts` | status, value, the request with its reload counter, the abort controller, the pending task | set, reload, destroy, load | a computed and an effect of the graph, the loader's promises |
| **deferred blocks, forms** | block state, validator subscription | trigger, load, render; set value, validate | promises and timers |

### What makes them hard

JavaScript runs to completion, so there are no data races. The interleavings that
hurt are these:

* *Re-entrance.* A tick runs user code (effects, templates, hooks) that calls back
  into `notify`, `attachView`, `effect()`, `afterRender`, `destroy`. `add()` and
  `remove()` of pending tasks emit synchronously, so that a subscriber is back in the
  scheduler before the outer call has stored its task id.
* *Early exits.* Effects, templates and the error handler may throw at any point of a
  pass, after some flags were cleared and some work was taken from its queue.
* *The event loop.* After a scheduled tick the next ones are scheduled as microtasks
  until a microtask resets that mode; callbacks can be cancelled; a manual `tick()`
  may come between a notification and its tick.
* *Flags that stand for work.* A notification is dropped when a tick is scheduled or
  running, and a dirty consumer is not notified again. Both are right only if whoever
  is relied upon will look at the flag again.
* *Long sequences of link and unlink* in the graph, with swap-removal and indices kept
  in two arrays that must stay inverse to each other.
* *Awaits.* The handlers of the service worker and of a resource go on after an await
  with what they read before it, while others of the same object have run. Answers come
  late, in any order, or never.
* *Restarts.* The browser stops an idle service worker without notice; the three values
  of its control table are written side by side.

### What makes them correct

* scheduler and ApplicationRef: no notification is lost; a task is held exactly while
  it means something; ticks end; hooks see refreshed views.
* pending tasks: every id has an owner that removes it; stability is reported only when
  there is nothing left to synchronize, and eventually it is.
* effects: the queue holds exactly the dirty effects; each runs on current values.
* reactive graph: links are symmetric; a value that is trusted without polling is
  current; equal versions mean equal values.
* resource: a late answer changes nothing; the application is unstable exactly while a
  load is in progress; what is resolved belongs to the present request.
* service worker: a tab keeps its version, across restarts; memory is what the control
  table will say; requests are answered; the deployed version gets installed.
* router: one navigation runs at a time; it starts from what is shown; promises settle;
  an idle router, its outlets and the URL bar agree.

`PROJECT.json` lists the hazards line by line with the properties that cover them.

## The modules

### `ZonelessScheduler`

The composition of scheduler, ApplicationRef, root effect scheduler, render hooks,
pending tasks and root views of an application with `provideZonelessChangeDetection`.

* `Notify`, `ShouldScheduleTick`, `Cleanup`, `FireCallback`, `ResetMicrotaskScheduler`
  and `EndTick` are `ChangeDetectionSchedulerImpl`. `callback` is the one scheduled and
  uncancelled callback, with the kind of scheduler it was given to. The race of
  `setTimeout` and `requestAnimationFrame` fires once, so it is one callback.
* A tick is a sequence of steps, because user code runs inside it. `phase` is the
  program counter of `synchronize`:
  `loop` (head of the while) → `effects` (the flush) → `checkViews` → `views` (the
  refresh of each root view with its retries) → `afterViews` → `hooks` → `loop`.
  `current` is the effect, view or hook whose code is on the stack.
* `User` is everything an application can call. It is enabled when no tick runs and
  inside every callback (`UserCodeRuns`), which is what run-to-completion permits.
* The exceptions are actions of their own: `EffectThrows`, `ViewThrows`, `ViewGivesUp`
  (INFINITE_CHANGE_DETECTION), `HookReturns(TRUE)`, and the error branches of `EndTick`
  (the error handler may rethrow) and `FinishTick` (dev mode).
* `failed` is a history variable. It is true from a tick that threw, or that gave up
  with flags still set, until a tick ends with nothing left in the effect queue.
  Properties that such ticks really break are stated up to it.
* Task ids are named by their owner: `"render"` for `pendingRenderTaskId`, `"tick"` for
  the local task of `tick()`. A second owner of the same kind would be visible as a
  violation of `NoLeakedTask`; the numbering itself is modelled in `StabilityEmissions`.

### `StabilityEmissions`

The same scheduler seen from `hasPendingTasks`: here the rest of ApplicationRef is one
flag, and each action is one synchronous run of JavaScript in which the emissions of
`add()` and `remove()` call back into `notify()`. The state is one record `app`, and the
statements of a method are operators composed in their order, so that "read
`pendingRenderTaskId`, emit, assign it" has the intermediate states the code has.
`R` is the set of emitted values that some subscriber reacts to in that run; the
constant `ReactOn` bounds it. `{FALSE}` is the case the comment in `cleanup()` prepares
for (react when the application becomes stable), `BOOLEAN` is what
`{{ appRef.isStable | async }}` does.

### `ReactiveGraph`

`graph.ts` with writable signals, computed signals and effects. The graph is a record
`g` of functions; the functions of `graph.ts` are operators from graphs to graphs. `prods`,
`seen`, `indexOf`, `live`, `liveIdx` are the code's parallel arrays, index for index
(counted from 1). `got` is a history variable, the values that were read. Effect bodies are
arbitrary: any sequence of reads and writes, and the destruction of any effect, including
the running one. Computed bodies are given by the constant operator `Body`, which says,
given the values a computation has read so far, what it reads next or what it returns; it
reads at most `Longest` times. `MCReactiveGraph` takes one with a conditional dependency
and one that closes a diamond and sometimes throws.

`graph.ts` recurses from a node to its producers in three places, and each is a recursive
function over a bound on the node's rank: `AddLive` (`producerAddLiveConsumer`),
`RemoveLive` (`producerRemoveLiveConsumerAtIndex`) and `Update`
(`producerUpdateValueVersion` with the poll and the computation it calls). `Rank` is how
deep a computed is nested; `RankAssumption` and `BodyAssumption` say that a computed reads
only what has a lower rank, that is, that no computation is cyclic. The loops over the
arrays of a consumer are `Iterate` over the steps of the loop, in the code's order.
Notification only sets flags, in an order that nothing can observe, so `Notified` is the
set of consumers that `producerNotifyConsumers` reaches; effects among them are queued.

### `SchedulingContract`

What an application relies on in the scheduler, in six booleans: demanded work has a
tick scheduled or running, ticks do not overlap, a tick that does not fail leaves no
work, and outside a tick the application becomes stable only when no work is left.
`ZonelessScheduler` instantiates it with the refinement mapping `Promise`: `work` is any
dirty flag, queued effect or view that requires refresh, `scheduled` the callback,
`busy` the emitted value of `hasPendingTasks`. `MeetsContract` is model-checked and
proved.

### `Resource`

`resource()` over an abstract graph: the request is a computed (`stale`, `request`,
`reloaded`), the loader's effect is dirty or not. `StartLoad` goes up to the call of the
loader and `LoaderReturns`, `LoaderThrows` come after it, so that every call an
application can make is also made from within the loader (`inLoader`). `inView` chooses
between an effect of a view, which is forgotten when destroyed, and a root effect, which
stays in the queue. `tasks` and `aborted` are sets of loads, since a load keeps its own
`resolvePendingTask` and `abortSignal` in local variables while `current` stands for the
two fields of the object. A value is the number of the load it came from, so that
properties can tell answers apart. An equal value passed to `set` changes nothing; `Set`
also covers an equality function that calls two local values different.

### `ServiceWorkerDriver`

Each handler of `driver.ts` is cut at its awaits; the code between two awaits is one
action. `request[c]` is the request of a tab with the await it is at, `thread[t]` an
activation: an executor of the idle queue or a `CHECK_FOR_UPDATES` message. Two threads
give two activations of the same code side by side.

* `writes` are the calls of `sync()` under way. A write has captured a snapshot of memory
  and puts its three values one by one (`Commit`); Cache storage performs the writes of
  one key in the order they were issued. `disk` is what a restart finds.
* `cache` separates what is in storage from what the worker can still read: the handle
  of a cache that was deleted by `cleanupCaches` while a version was being installed
  stays readable until the worker stops (`detached`).
* `Crash` is enabled in every state; it loses memory and the writes under way.
* `page` and `sees` are the browser: when a tab exists, appears in `matchAll()`, and
  which version's document it runs. `Deploy` and `Fault` are the server and the network.
* An idle timeout fires after any delay; `idle.timer` says only that one is pending.

### `RouterNavigation`

The observable pipeline of `setupNavigations` as a state machine. `transition[n].stage`
is how far navigation `n` has come; `inner` is what the switchMap is subscribed to. A
navigation proceeds by what it awaits (`Arrive`: recognition, guards, resolvers,
redirects, errors) and by calls. Since every event is emitted synchronously and
subscribers may navigate from within it, `stack` holds the interrupted calls: `Switch`,
for example, unsubscribes from the old navigation, which emits `NavigationCancel`, whose
subscriber may be back in `scheduleNavigation` before the switchMap has subscribed to
the new one. `ReactsTo` bounds the emissions from within which subscribers navigate.

`setBrowserUrl`, `restoreHistory` and the memento are `HistoryStateManager`, against a
`history` of entries with the page ids the router wrote into them, `traversals` that the
browser has not performed yet and `popstates` whose timeout has not passed.
`Configurations` ranges over both values of `canceledNavigationResolution` and of
`urlUpdateStrategy`.

### `..._proofs`

`ZonelessScheduler_proofs` (with the refinement of `SchedulingContract`),
`StabilityEmissions_proofs`, `ReactiveGraph_proofs`, `ReactiveValues_proofs`,
`ServiceWorkerDriver_proofs`, `RouterNavigation_proofs`, `RouterAgreement_proofs` and
`Resource_proofs` hold the inductive invariants and theorems. See [Proofs](#proofs).

### `MC...` modules

Symmetry sets and constant definitions for TLC, nothing else. `Resource` needs none.

## What the runs show

| run | checks | what it shows | distinct states |
|---|---|---|---|
| `zoneless_effects` | `TypeOK`, `NoLeakedTask`, `NoLostWork`, `QueueHoldsDirtyEffects`, `FlagsLeadToWork`, `MeetsContract`, `HooksSeeSettledViews` | a view, two effects and a user task: nothing queued without a scheduled tick, no task id left behind, flags lead every pass to the effects and views that wait, the hooks' turn comes only on settled views, every step is one of the contract | 1.7 M |
| `zoneless_hooks` | `PublicRemovalIsAsync`, `StableMeansSynchronized`, `EventuallySettles` | a view, a task and two hooks in dev mode, one registered from within the other: removing a public task never stabilizes synchronously; stability outside a tick means nothing left to do; once user code is quiet, ticks end and nothing remains scheduled | 714 k |
| `stability` | `TypeOK`, `TasksHaveOwners`, `NotifiedWorkIsScheduled`, `BecomesStable` | subscribers that notify from the stable emission orphan no id and get their tick, and the application still becomes stable | 1.3 k |
| `reactive` | `TypeOK`, `LinksMatch`, `CleanIsCurrent`, `EffectsAreCurrentOrQueued`, `VersionMeansValue` | two effects over a diamond: the index arrays stay inverse through every link and unlink, no value is trusted that is not current, and an effect that has not seen a change is queued | 790 k |
| `resource` | `TypeOK`, `TaskWhileLoading`, `ResolvedIsCurrent`, `ReloadsHappen`, `DestroyedLoadsNothing`, `NoLateAnswer`, `LoadingEnds` | four loads with changes, reloads, local values and destruction anywhere, also inside the loader, and answers in any order or not at all | 97 k |
| `worker_restarts` | `TypeOK`, `ClientsHaveVersions`, `MemoryIsBeingSaved`, `IdleWorkIsComing`, `PinsAreSavedBeforeUse` | a tab, a deployment, two activations side by side and a stop of the worker at any await: no tab is left with a version that was dropped, nothing that is in memory is left unsaved, background work is not forgotten | 2.2 M |
| `worker_faults` | `RequestsAreAnswered`, `DeployedGetsInstalled` | two deployments and a failing exchange: every request is answered, and a worker that stays up ends up with the deployed version | 371 k |
| `router_navigation` | `TypeOK`, `OneNavigationRuns`, `IdleAgrees`, `PromisesSettle`, `TaskWhileNavigating`, `ActivatesFromShown`, `BecomesIdle` | three navigations, from code, from within router events and from the browser's buttons, under every combination of the two options | 404 k |
| `stability_never_stable`, `reactive_hole`, `worker_page_version`, `router_switch` | one statement of a comment or a guide each | TLC finds the counterexample described [below](#where-the-code-and-its-comments-disagree) | |

Every property of a passing run has a mutant in `PROJECT.json`: a plausible mistake in
one definition (they stand next to the original, as "Mutation of ...") under which TLC
finds the property violated.

`CHECK_DEADLOCK FALSE` appears in every configuration because an application that
nobody touches any more is allowed to stop, and so is one whose bounds are used up; that
it does not stop too early is what the liveness properties say.

## Bounds

* `Views`, `Effects`, `Hooks`, `UserTasks`: `zoneless_effects` has two effects ("one
  throws and the other stays queued"), a view and a task; `zoneless_hooks` two hooks,
  because one that is registered from within another is deferred, a view and a task. No
  run has two views, nor effects and hooks together: that "one is visited while the other
  is marked" and every such mixture goes well is settled by the proofs, which hold for any
  number of each.
* `MaxReruns` (10 in the code) is 2, `MaxRetries` (100) is 1: both limits are
  reached, which is the case that matters. The code compares for equality only.
* `MaxIds = 8` task ids are recycled when nothing refers to them any more; the code
  never reuses one. `Room` keeps three ids free, as many as one action can take, so that
  recycling never meets a reference that is alive.
* `MaxUserTasks`, `MaxEpoch` (signal writes) and `MaxReads` (reads of an effect's body)
  bound the environment. Two writes are enough for a value to change and change back
  under a consumer that is and one that is not live; two reads make an effect swap its
  dependencies in place, shrink and grow its arrays. `reactive_hole` has one effect and
  three writes.
* `Resource`: two requests and `MaxLoads = 4`, so that two superseded loads can answer
  around a current one and a reload follows. Once the loads are used up an effect that
  wants to load stays dirty, which no liveness property mistakes for progress:
  `LoadingEnds` only speaks of loads that were started.
* `ServiceWorkerDriver`: two versions, which is what a mix-up takes; one tab, since tabs
  meet only in the set of used versions. `worker_restarts` has two threads, one
  deployment (`MaxDeploys`) and one stop (`MaxCrashes`), `worker_faults` one thread, two
  deployments (the server may go back to the first version) and one failure
  (`MaxFaults`). The invariants that are proved hold without these bounds.
* `RouterNavigation`: `MaxNavigations = 3` (one that runs, one that supersedes it, one
  requested in between) and `MaxTraversals = 1` popstate under way. `ReactsTo` contains
  every emission but `"redirecting"` and `"handling"`, for the reasons below. With four
  navigations, the default options and no reaction to `"superseded"` (finding 4) TLC
  also passes all properties (689 k states).

## Fairness

`FairSpec` of `ZonelessScheduler` is `WF_vars(System)`: the browser runs callbacks and
microtasks that are queued, and user callbacks return. It does not ask user code to do
anything. `EventuallySettles` has the premise `<>[][System]_vars`, user code leaves the
application alone from some point on. Without it no application settles: an effect that
writes a signal it reads notifies for ever, and only the rerun limit ends each tick.
`System` contains both outcomes of every callback, normal return and exception, so
fairness excludes no failure. `StabilityEmissions` is the same: weak fairness of the
event loop and of returning ticks; `BecomesStable` assumes that in the end nobody
notifies, no subscriber reacts, and users have removed their own tasks.

`Resource`: the effect is flushed when it is dirty (what `ZonelessScheduler` shows), the
loader function returns or throws, and the load in progress is answered in one way or the
other. An aborted load need not be answered. `LoadingEnds` assumes that the application
leaves the resource alone in the end.

`ServiceWorkerDriver`: reads and writes of Cache storage finish, timeouts pass, awaited
calls return, with any result. No tab has to send a request, and no crash, deployment or
fault has to happen or not to happen; `DeployedGetsInstalled` has the premises that the
worker stays up from some point on and that tabs keep navigating, because update checks
are scheduled by navigations.

`RouterNavigation`: calls on the stack return, what a navigation awaits arrives in one of
its outcomes, timeouts pass, and the browser performs a requested traversal. Nobody has
to navigate. A guard that never answers is excluded: with it the router does not become
idle, and is not meant to.

## Proofs

The theorems hold for any sets and limits, from the named assumptions about the
constants alone.

| module | theorem | statement |
|---|---|---|
| `ZonelessScheduler_proofs` | `Inductive` | `Spec => []IInv` |
| | `TypeCorrect` | `Spec => []TypeOK` (so neither loop counter exceeds its limit) |
| | `TasksNeverLeak` | `Spec => []NoLeakedTask` |
| | `FlagsCoverWork` | `Spec => []FlagsLeadToWork`, that is `FlagsCoverViews` and `FlagsCoverEffects` |
| | `WorkIsNeverLost` | `Spec => []NoLostWork` |
| | `HooksStartSettled` | `Spec => HooksSeeSettledViews`, an action property |
| | `QueueHoldsWhatIsDirty` | `Spec => []QueueHoldsDirtyEffects` |
| | `PublicRemovalAwaitsTick` | `Spec => PublicRemovalIsAsync`, an action property |
| | `ContractIsMet` | `Spec => MeetsContract`, the refinement |
| | `StabilityIsHonest` | `Spec => StableMeansSynchronized`, an action property |
| `StabilityEmissions_proofs` | `TypeCorrect`, `NoNotificationIsLost` | `TypeOK`, `NotifiedWorkIsScheduled`, whatever subscribers react to |
| | `NestedEmissionsKeepOwners` | `TRUE \notin ReactOn => (Spec => []TasksHaveOwners)` |
| `ReactiveGraph_proofs` | `TypeCorrect`, `LinksPointAtEachOther`, `VersionsStandForValues` | `TypeOK`, `LinksMatch`, `VersionMeansValue` |
| `ReactiveValues_proofs` | `ReadsAreGlitchFree`, `NoChangeIsLost` | `CleanIsCurrent`, `EffectsAreCurrentOrQueued` |
| | `ValidInvariant` | `Spec => []VInv`, the invariant behind the two |
| `Resource_proofs` | `TypeCorrect`, `TasksFollowLoading`, `ValuesAreShown`, `ResolvedValuesAreCurrent`, `ReloadsAreLoaded`, `DestroyIsFinal` | `TypeOK`, `TaskWhileLoading`, `NoValueUnlessShown`, `ResolvedIsCurrent`, `ReloadsHappen`, `DestroyedLoadsNothing` |
| | `LateAnswersAreIgnored` | `Spec => NoLateAnswer`, an action property |
| `ServiceWorkerDriver_proofs` | `TypeCorrect`, `ClientsNeverOrphaned`, `MemoryIsAlwaysBeingSaved`, `IdleWorkIsNeverForgotten` | `TypeOK`, `ClientsHaveVersions`, `MemoryIsBeingSaved`, `IdleWorkIsComing` |
| | `PinsAreDurable` | `Spec => PinsAreSavedBeforeUse`, an action property |
| `RouterNavigation_proofs` | `TypeCorrect` | `Spec => []TypeOK` |
| | `OneAtATime`, `ActivatesFromWhatIsShown` | `OneNavigationRuns` and the action property `ActivatesFromShown`, if `NoReentry` |
| | `EveryPromiseSettles` | `PromisesSettle`, if `NoNesting` |
| `RouterAgreement_proofs` | `TaskIsNeverLeft` | `TaskWhileNavigating`, if `NoReentryOnError` |
| | `BarAndOutletsAgree` | `IdleAgrees`, if `NoReentry` |

### The scheduler

From `ConstantsAssumption` (`None` is none of the objects; the scheduler's task names are
no user tasks; the limits are naturals, `MaxReruns` positive). `NoLostWork` speaks of the
idle application only and is not inductive: what a tick leaves behind depends on what it
did. The inductive invariant

    IInv == TypeOK /\ PhaseOK /\ NoLeakedTask /\ FlagsCoverEffects
            /\ FlagsCoverViews /\ PassOK /\ NoLostWork

adds that while a tick runs, flags stand for the work that is there (`FlagsCoverEffects`,
`FlagsCoverViews`: a marked view that this pass will not visit any more has its flag
set), what holds once a pass has gone through its effects or its views (`PassOK`), and
what the control state implies (`PhaseOK`). The heart of the proof is the end of a tick.
`cleanup()` cancels the scheduled callback; the tick ends without `failed` only if no
dirty flag is left, and then the two covering invariants say that no effect and no view
is waiting. `NoLeakedTask` supplies that `callback` and `pendingRender` agree, which is
what `shouldScheduleTick` relies on when it drops a notification. Each conjunct has a
lemma with one case per action (`TypeNext`, `PhaseNext`, `TasksNext`, `EffectsNext`,
`ViewsNext`, `PassNext`, `WorkNext`); actions that leave the scheduler's state alone are
grouped in `InnerStep`. `HooksSeeSettledViews` follows from `PassOK` and
`FlagsCoverViews` at the one step that enters the hooks.

`QueueHoldsDirtyEffects` counts (the queue is as long as the set of dirty effects is
large), which no step can be shown to preserve directly: `QueueOK` says instead that no
effect is queued twice, and that only effects that were created are dirty or connected.
The lemma `DistinctLength` (a sequence without repetitions is as long as its set of
elements) joins the two. `PublicRemovalIsAsync` needs no invariant of its own. When the
removed task is the last one, `NoLeakedTask` says that neither a callback nor a scheduled
tick is there, so that `shouldScheduleTick` returns true and `notify` adds a task before
the other is removed. The one state it cannot exclude is a manual tick, in which
`notify` returns early; the property excepts it, see
[below](#where-the-code-and-its-comments-disagree).

### The refinement

`ContractIsMet` shows that the initial states map to `Start` and that a step of
`ZonelessScheduler` from a state with `IInv` is a step of `ContractNext` or leaves the
mapped state alone. What the contract says of work at the end of a tick and at a
stabilization is exactly `FlagsCoverWork`, `NoLostWork` and the meaning of `failed`; the
lemma `ScheduledIsBusy` (a scheduled tick has its task) is the link between the callback
and `hasPendingTasks`. The steps of an idle application (`IdleUserSteps`), those inside
a tick (`TickingUserSteps`, `LoopSteps`) and its end (`EndSteps`) are lemmas of their own.
`StabilityIsHonest` then follows from the contract alone: of its actions only `CallOff`,
`End` and `ChangeStability` can make an application stable outside of a tick.

### Emissions within emissions

An action of `StabilityEmissions` is a composition of operators on the record `app`, so
the invariant is a predicate `Sound(s)` of a state, each operator has a lemma about a
state in the middle of a run, and the lemma of an action puts them together:

    Sound(s) == Typed(s) /\ Ticking(s) /\ (~s.destroyed => Owned(s)) /\ HasTells(s)
                /\ RenderScheduled(s) /\ NotifiedRenders(s) /\ TickKept(s, NoId)

`Owned` says that no two owners share a pending id, which is why no subscriber can remove
a task that another still needs; `HasTells` that `hasPendingTasks` has the value that the
set has; `RenderScheduled` and `NotifiedRenders` give `NotifiedWorkIsScheduled`; `TickKept`
that the end of a scheduled tick is no emission. All of this holds even when finding 1
strikes. What then fails is `NoLeak`, every pending task has an owner, and
`NestedEmissionsKeepOwners` shows that it needs a reaction to `true`: without one,
`notify()` finds after `add()` the same `pendingRenderTaskId` it tested before.
`EmissionsAssumption` and the guard `Room` supply the free ids.

### The reactive graph

From `NodesAssumption` (the kinds of nodes are disjoint, signals start with a value),
`RankAssumption` and `BodyAssumption`. For any number of nodes, any computations that are
not cyclic, any effect bodies; `MaxEpoch` and `MaxReads` play no role.

    IInv == Proper(g) /\ Sets /\ Holes

`Proper` is what every call into `graph.ts` keeps, also a nested one. Its parts are

* `Shaped`: the arrays are parallel, and a computed holds only producers of a lower rank;
* `Matched`: an entry among a producer's live consumers and the entry of the consumer point
  at each other;
* `Settled(h, {})`: exactly the live consumers are linked to what they read;
* `Versioned`: no recorded version exceeds the producer's, and with an equal one comes an
  equal value;
* `Valued`: a signal has a value, and so has a computed that is not dirty.

`LinksMatch` is `Matched` with `Settled(g, {})`. These are broken in the middle of an
operation: in `producerAddLiveConsumer` a computed that is about to become live links
itself to its producers one by one before its own entry is pushed, and
`producerRemoveLiveConsumerAtIndex` is its mirror image. `Settled(h, X)` leaves out the
consumers `X` that are in transition. A lemma says of each of the two, by induction on the
rank, that one link of `X` is added (`AddsOne`) or cut (`CutsOne`) and no other, and that
everybody outside of `X` is settled again. A removal swaps the last live consumer into
the free position: `UnlinkEffect` shows that it learns its new index whoever it is, also
one that is itself in transition, because the loops read `producerIndexOfThis` afresh in
each round, in the code and in the model (`acc.indexOf[n][j]`).

`Tame(h, h2, D, Y)` says what bringing a node up to date may touch: the computeds `D`, which
are not deeper than it, and the lists of the consumers `Y`; no version decreases, and a
value that changes gets a new one. `UpdateUpdates` is by induction on the rank, with the
rounds of a poll (`PollRounds`) and those of a computation (`ComputeRounds`) inside. A
consumer that polls is deeper than what it polls; hence it finds its own lists as it left
them, which the code takes for granted when it indexes `producerNode` across the recursive
call.

`Holes` is needed because of finding 2. A hole is only in the list of an effect that was
destroyed inside its own body; it is in front, so that polling throws before
`producerAccessed` or `consumerAfterComputation` could follow it.

Recursion is reasoned about without induction over operators: `Induction` proves that a set
that contains 0 and is closed under successor contains `Nat`, and `IterateRounds`,
`AddLiveRound`, `RemoveLiveRound`, `UpdateRound` and `WorthRound` that the recursive
functions are what they are written as.

### The values in the graph

`CleanIsCurrent` and `EffectsAreCurrentOrQueued` compare the graph with what a node is
worth on the present signals, a pure recursion over `Body` that no step of the code
performs. Neither is inductive: they say nothing of a computed that is clean, not live and
from an earlier epoch, which the next poll may find unchanged, nor of why a value is what
it is. The invariant is

    VInv  == IInv /\ Valid
    Valid == Traced(g, Computeds) /\ \E K : Trusts(g, K) /\ EffectsFresh(g, ..., K)

* `Traced`: every value has a history. The body of the computed, run on the values `got`
  that are recorded along its list, reads exactly the producers of the list in their
  order, and ends there with this value, or with an error because the last one was
  errored.
* `Trusts(h, K)`: the members of `K` are clean, the entries of their lists are signals or
  members, each read at the version that the producer has now (`FreshUpto`), and every
  computed that `producerUpdateValueVersion` would return without polling (`KnownClean`)
  is a member.
* `EffectsFresh`: an effect that neither waits in the queue nor is destroyed is clean, and
  what it has recorded (while its body runs, up to `nextProducerIndex`) is fresh in the
  same sense.

`K` is quantified because the proof of each step can then name the next set from the
present one, instead of computing it from the graph. A write to `s` leaves in `K` what is
live and not notified (`StillTrusted`). Such a consumer cannot have a notified producer or
`s` in its list: by `LinksMatch` it would be among that producer's live consumers and the
notification would have gone on to it (`NotifiedGoesOn`, `FreshAfterWrite`). Bringing a
node up to date only enlarges `K`: `Advance(h, K, h2, K2, D)` says that the versions of
members stay and that the node's part `D` of the graph stays traced, and `UpdateImproves`
shows it by induction on the rank, through the rounds of a poll (`PollImproves`) and of a
computation (`ContinueTraced`, `ContinueGood`, `ComputeGood`), equal results and errors
included. A poll that finds no new version makes the node trusted without running it
(`MarkCleanTrusted`).

Both theorems then follow at one state. In a trusted computed every entry's recorded
value is the producer's present one (`VersionsStandForValues`), which by induction on the
rank is what it is worth; and the trace says that the body, run on these values, gives the
value that is there (`TryStep`, `TraceOutcome`, `TrustedIsCurrent`). TLC checked `Valid`,
with `K` chosen among all subsets, on every state of `reactive` before it was proved.

### The resource

    IInv == TypeOK /\ LoadsOK /\ TaskWhileLoading /\ NoValueUnlessShown /\ EffectOK
            /\ ReloadsHappen /\ DestroyedOK /\ DestroyedLoadsNothing

`LoadsOK`: a load that was neither answered nor aborted is the last one, it is the one
`abortInProgressLoad()` would abort, and the resource is loading for it.
That is what makes `NoLateAnswer` and `TaskWhileLoading` hold when an old promise
settles. `EffectOK`: an effect that is not dirty and whose resource is not destroyed has
met the present request, and the computed caches it; `reload()` keeps it because an
evaluation never cleans the effect. `DestroyedOK`: one that is
destroyed does not run any more, because it has run and lost its producers.
`ReloadsHappen` is a conjunct of `IInv`, so that `ReloadsAreLoaded` follows at once.

### The service worker

    IInv == TypeOK /\ ControlOK /\ WritesOK /\ ClientsHaveVersions
            /\ MemoryIsBeingSaved /\ PinsFollowed

`MemoryIsBeingSaved` compares memory with the last write, so one must know that only the
oldest write completes first (`WritesOK`: an older write has no more left to do than a
younger one) and that a commit does not change what the table is going to hold (`Saving`).
Writes exist in the
`resetting` and `ready` modes only (`ControlOK`), hence `Hydrate` starts from a disk that
nobody is writing. `ClientsHaveVersions` is kept by the cleanup because the used versions
are computed from `clientVersionMap` in the same step that drops the others, and by
`initialize` because it moves pins to unknown versions. `PinsFollowed` says that a
request that waits for its pin has a write of its own under way or done, and that every
write since contains the same pin: together with the order of writes this gives
`PinsAreSavedBeforeUse`. From `VersionAssumption` and `BoundsAssumption`.

`IdleWorkIsComing` is proved with `IdleOK` on top of `IInv`: the flag
`scheduledNavUpdateCheck` is up in the ready mode only, only an executor holds tasks, and
the requests that are counted upon are those whose last statement triggers the idle
scheduler (a message to activate the update is none of them).

### The router

The invariant grows in layers, each with the hypotheses it needs and no more.

* `IInv == Typed /\ CallsFit /\ PagesCounted`, without hypotheses. `CallsFit`: the place
  of every call on the stack fits the stage of its navigation, which has one call there
  besides its cancellations. `PagesCounted` bounds the page ids by the number of
  navigations that have come to write one; `TypeOK` needs that.
* `IInvOne` adds `Own` (the navigation the switchMap is subscribed to is the current one)
  and `CallOrder` (which calls may wait for which). `OneNavigationRuns` follows.
* `IInvPlaced` adds that the current navigation is subscribed to but for the time in which
  the switchMap changes over (`Current`), that one which awaits nothing is the innermost
  call or has just requested the next navigation (`OnTop`), and that a requested one is
  about to begin (`Requesting`).
* `IInvShown` adds `Outlets` and `ShownOK`: unless a component's constructor has thrown,
  the router state is what the outlets show, and every navigation that has yet to be
  activated was computed from it. `ActivatesFromShown` follows at the step that activates.
* `IInvPromises` adds to `IInvOne` that every promise is settled or still owed
  (`PromisesKept`) by a running navigation or by a call that will settle it. A redirect
  hands the promise on, hence the invariant speaks of all navigations that share it.
* `IInvBusy` adds to `IInvPlaced` that the router holds a pending task exactly while a
  navigation is in flight or a call is yet to start, redirect or report one (`Waits`). A
  redirect that comes after its navigation was superseded does not count, it finds no
  task of its own; an error handler's navigation has not been superseded (`Handling`).
* `IInvUrl` adds to `IInvPlaced` the outlets as above and `UrlOK`: with `'replace'`, the
  URL bar of a router that is not busy shows the router's URL or a popstate event is to
  come. With eager updates it shows the target of the current navigation from when that
  is known (`Bound`). `Unbound` is what makes nested navigations harmless here: one that
  is requested from within a redirect or an error handler does not get as far as having
  a target before that call returns, hence restoring the URL on an error, which is done
  for the navigation that is current by then, undoes nothing of it.

Each theorem excludes the reactions that break its property, and no other:

| Hypothesis | Nobody navigates from within | Needed for |
|---|---|---|
| `NoReentry` | `"superseded"` | `OneNavigationRuns`, `ActivatesFromShown`, `IdleAgrees` |
| `NoReentryOnError` | `"superseded"`, `"handling"` | `TaskWhileNavigating` |
| `NoNesting` | `"superseded"`, `"redirecting"`, `"handling"` | `PromisesSettle` |

With `"superseded"`, the cancellation of a superseded navigation, two navigations can run
at once (finding 4); TLC then also finds counterexamples to `IdleAgrees` and
`TaskWhileNavigating` with four navigations, to `ActivatesFromShown` and `PromisesSettle`
with five.
`router_navigation`, with three, keeps this reaction because other states are only reached
through it. With `"redirecting"` and `"handling"` promises and tasks do get lost (see the
observations [below](#where-the-code-and-its-comments-disagree)). Reactions to all other
events, such as the start, the end, a refusal by a guard or an error, are covered by every
theorem, at any depth, for any number of navigations and traversals. From
`RouterAssumption`.

### Only model-checked

The liveness properties, which are beyond the prover: `EventuallySettles`, `BecomesStable`,
`LoadingEnds`, `RequestsAreAnswered`, `DeployedGetsInstalled` and `BecomesIdle`. Every
invariant and every action property of the passing runs is a theorem. Of the router's
safety, TLC checks in addition what the hypotheses of its theorems exclude:
`router_navigation` has reactions to `"superseded"`. In the other direction,
`NoValueUnlessShown` is proved as a conjunct of `IInv` of `Resource` and needs no run.

## Where the code and its comments disagree

Each is a run with `"expect": "violation"`; `PROJECT.json` quotes the lines.

1. *Re-entrance in `add()`* (`stability_never_stable`). `notify()` tests
   `pendingRenderTaskId`, calls `add()`, which emits, and only then stores the id. A
   subscriber to `isStable` that marks a view for check schedules a tick of its own
   first: two ticks are scheduled, one cannot be cancelled any more, and the task id of
   the inner one is overwritten and never removed. The application never becomes stable
   again.
2. *Destroy inside the body* (`reactive_hole`). An effect that destroys itself and then
   reads a signal is linked into the graph again: `consumerDestroy` empties the arrays but
   the node remains the active consumer. If it had read something before,
   `nextProducerIndex` is not reset and the new read is stored past the end of the emptied
   array; polling meets the hole and throws a TypeError.
3. *A page of two versions* (`worker_page_version`). `assignVersion` pins a new tab to
   `latestHash`, awaits `sync()`, and looks `latestHash` up again. An update installed
   during that await serves the document; the tab stays pinned to the version before it,
   which serves its resources. The guide promises that a running application continues to
   run the same version.
4. *A navigation that cannot be cancelled* (`router_switch`). Navigation 2 supersedes 1; a
   subscriber of `NavigationCancel` requests 3. `switchMap` subscribes to 3 from within,
   then to 2, which is outdated and completes, so that the switchMap has forgotten 3.
   Navigation 4 does not cancel it and both run.

Some observations have no run, because the model contains them as they are or because
they are exceptions that a property names:

* *A destroyed effect still runs.* `EffectRef.destroy()` is documented to remove the
  effect from upcoming executions (`effect.ts:58`), but a root node stays in the
  scheduler's queue. Destroyed before its first flush it has not run and has no producers
  to poll, so `run()` calls its body. A root resource destroyed that early loads, and
  loads again when its request changes (`DestroyedLoadsNothing` excepts it).
* *A throwing effect strands the others.* `synchronizeOnce` clears `RootEffects`, then
  flushes; when a body throws, the effects behind it remain queued and dirty, and no flag
  stands for them. Later ticks leave them waiting until some other effect sets the flag.
  `failed` in `ZonelessScheduler` marks these states.
* *A stability that is not asynchronous.* Removing a task through `PendingTasks` forces a
  scheduled tick, "ensuring that stability is async"
  (`zoneless_scheduling_impl.ts:178`). Not within a tick: `shouldScheduleTick` returns
  false while one runs, and a manual `tick()` holds no task. A render hook that an earlier
  tick deferred, executed by a manual tick, can remove the last task, and `isStable` emits
  `true` from within that call. The proof attempt of `PublicRemovalIsAsync` led here; the
  property excepts a manual tick for which no notification is waiting.
* *Reload for another request.* `reload()` after a change of the request and before the
  effect increments the counter of the new request: the effect enters `Reloading` and
  keeps the value of the old one, where `api.ts:41` says "for the same request".
* *Reload of nothing.* `set()` on a resource whose request is undefined, then `reload()`:
  it returns true, and nothing is loaded (`ReloadsHappen` excepts it).
* *A request function that throws* while a load is in progress: the load is aborted, the
  status remains `Loading`, `reload()` returns false (`TaskWhileLoading` excepts it).
* *Redirects and error handlers that meet a navigation.* With `"redirecting"` in
  `ReactsTo` TLC finds a promise that is never settled: `RedirectRequest` hands on that of
  the transition which is current by then. With `"handling"` it finds another such promise,
  and a running navigation without a pending task: the `NavigationError` emitted after
  `navigationErrorHandler` has navigated releases the task of the new navigation. The URL
  bar and the outlets survive both (`BarAndOutletsAgree`).

## Abstractions, and what is not modelled

* Root views are flat. `HasChildViewsToRefresh` traversal, view effects and embedded
  views come later in the plan. A template that reads any signal is a view in `reactive`.
* The four phases of a render sequence (earlyRead, write, mixedReadWrite, read) are one
  step of user code; errors are caught per callback in the code and per hook here.
* Whether polling an effect finds a change is a choice (`changed`) made when a signal is
  written. `ReactiveGraph` has the mechanism in full. In `ZonelessScheduler` a destroyed
  effect that is queued may read signals again, as in finding 2.
* Two kinds of calls are left out: cyclic computations (detected and thrown by
  `computed.ts`) and a second `EffectRef.destroy()`.
* Zoneless only: `ViewTreeGlobal`, the zone-based branches of the scheduler, and
  `disableScheduling` are not modelled.
* `StabilityEmissions` models one level of re-entrance per emission, which is all there
  is: a BehaviorSubject that has emitted `true` does not emit it again from inside, and
  the reaction to `false` re-enters `add()`, whose emission of `true` is modelled too.
* `Resource`: abort listeners that call the resource synchronously, the `error` signal
  and `previous.status` are left out; `rxResource` only wraps a subscription as a loader.
* Service worker: `EXISTING_CLIENTS_ONLY` is left only by installing an update, so that new
  tabs stay unserved when the server goes back to a version that is loaded already;
  `DeployedGetsInstalled` therefore speaks of the installed versions and not of the mode.
  A version is one hashed, prefetched asset. Push and click handlers,
  requests without a client id, an invalid configuration version, `applicationMaxAge`,
  writes to the control table that fail, the localhost policy, unhashed and lazy groups,
  data groups and navigation URL filters are not modelled.
* Router: recognition, the order of guards and the outlets are outcomes. `dispose`,
  `skipLocationChange`, a custom `UrlHandlingStrategy`, `onSameUrlNavigation: 'reload'`,
  view transitions and the resource-abort subject are not modelled. `IdleAgrees` is
  stated for `canceledNavigationResolution: 'replace'`; `'computed'` promises an attempt
  only, and its distances are wrong when an entry was not written by the router.
* Not modelled: the compiler and CLI (batch programs whose correctness is about data, not
  order), language service, devtools, localize and the documentation site (tooling),
  dependency injection other than the order of destruction, the HTTP client (a wrapper of
  browser I/O), and animations (timing belongs to the browser).

These make up almost all of the repository's half a million lines, together with a
bundled package manager, bundled CI actions and generated tables; the share of lines that
the `map` covers is small for that reason. The runtime files that the modules are about
are covered to a large part.

## Plan

1. **`DataCacheLru`**: `data.ts`, the LRU list and its synchronization under concurrent
   requests of one group; strategies freshness and performance with timeouts.
2. **`ViewTree`**: child views under the root views, `markAncestorsForTraversal`,
   transplanted views and view effects; property: every view that requires refresh can be
   reached through flagged ancestors.
3. **`NgZoneStability`**: `NgZone.checkStable` with nested `run`, the zone-based branches
   of `notify`, `ZoneStablePendingTask`.
4. **`DeferBlock`** and **asynchronous validators**: timers against loads, a status that a
   cancelled validator would have set.
