------------------------- MODULE ZonelessScheduler -------------------------
(***************************************************************************)
(* Change detection of a zoneless Angular application: how a notification  *)
(* becomes a scheduled tick, what a tick does, and how the application's   *)
(* pending tasks (its stability) follow.                                   *)
(*                                                                         *)
(*   ChangeDetectionSchedulerImpl  notify, tick, cleanup, ngOnDestroy      *)
(*   ApplicationRef                tick, synchronize, synchronizeOnce      *)
(*   ZoneAwareEffectScheduler      schedule, flush (root effects)          *)
(*   AfterRenderImpl               execute, register, unregister           *)
(*   PendingTasks(Internal)        add, remove                             *)
(*                                                                         *)
(* JavaScript is single threaded, so the interleavings are those of the    *)
(* event loop (microtasks before macrotasks) and of the re-entrant user    *)
(* callbacks a tick runs: effect bodies, templates and lifecycle hooks,    *)
(* render hooks.  While such a callback runs (current # None), or when no  *)
(* tick runs, user code may take any step of User.                         *)
(***************************************************************************)
EXTENDS Integers, Sequences, FiniteSets

CONSTANTS
    Views,            \* root views that may be attached to the ApplicationRef
    Effects,          \* root effects
    Hooks,            \* afterRender / afterNextRender sequences
    UserTasks,        \* tasks added through PendingTasks or PendingTasksInternal
    None,             \* "no callback is running"
    MaxReruns,        \* MAXIMUM_REFRESH_RERUNS of application_ref.ts (10)
    MaxRetries,       \* MAXIMUM_REFRESH_RERUNS of change_detection.ts (100)
    DevMode           \* ngDevMode: is the rerun limit reported as an error?

ASSUME ConstantsAssumption ==
    /\ None \notin Effects \cup Views \cup Hooks
    /\ {"render", "tick"} \cap UserTasks = {}
    /\ MaxReruns \in Nat \ {0}
    /\ MaxRetries \in Nat
    /\ DevMode \in BOOLEAN

VARIABLES
    dirtyFlags,           \* ApplicationRef.dirtyFlags
    deferredDirtyFlags,   \* ApplicationRef.deferredDirtyFlags
    destroyed,            \* ApplicationRef.destroyed
    pendingRender,        \* pendingRenderTaskId !== null
    callback,             \* the scheduled, uncancelled callback of the scheduler
    useMicrotaskScheduler,\* set with, and until, the microtask that resets it
    pendingTasks,         \* PendingTasksInternal.pendingTasks, ids by owner
    hasPendingTasks,      \* PendingTasksInternal.hasPendingTasks.value
    queue,                \* the effect scheduler's queue (a Set in FIFO order)
    created,              \* effects whose node exists
    dirty,                \* effects whose node is dirty
    hasRun,               \* effects whose body ran at least once
    connected,            \* effects with live producers
    changed,              \* effects that consumerPollProducersForChange finds changed
    shutDown,             \* effects whose EffectRef was destroyed
    attached,             \* ApplicationRef.allViews
    viewFlags,            \* per view: Dirty, RefreshView, dirty template consumer
    reactive,             \* views whose template consumer reads signals
    sequences,            \* AfterRenderImpl.sequences
    deferredRegistrations,\* AfterRenderImpl.deferredRegistrations
    erroredOrDestroyed,   \* hooks whose sequence has that flag
    once,                 \* hooks whose sequence is removed after it ran
    ticker,               \* who runs _tick: nobody, the scheduler, a manual call
    phase,                \* where synchronize is
    runs,                 \* its loop counter
    retries,              \* loop counter of detectChangesInViewWhileDirty
    todo,                 \* views or hooks the phase has still to visit
    current,              \* the effect, view or hook whose user code runs
    failed                \* history: an unresolved tick failed (see EndTick)

schedulerVars == <<pendingRender, callback, useMicrotaskScheduler>>
taskVars == <<pendingTasks, hasPendingTasks>>
effectVars == <<queue, created, dirty, hasRun, connected, changed, shutDown>>
viewVars == <<attached, viewFlags, reactive>>
hookVars == <<sequences, deferredRegistrations, erroredOrDestroyed, once>>
tickVars == <<ticker, phase, runs, retries, todo, current, failed>>
vars == <<dirtyFlags, deferredDirtyFlags, destroyed, schedulerVars, taskVars,
          effectVars, viewVars, hookVars, tickVars>>

----------------------------------------------------------------------------
(* Flags and sources of notifications. *)

\* ViewTreeGlobal is only ever set when zoneless is off.
ViewTreeAny == {"ViewTreeTraversal", "ViewTreeCheck"}
Flags == ViewTreeAny \cup {"AfterRender", "RootEffects"}

\* The dirty flags that notify(source) sets, the deferred ones apart.
FlagOf(source) ==
    CASE source = "MarkAncestorsForTraversal" -> {"ViewTreeTraversal"}
      [] source = "MarkForCheck" -> {"ViewTreeCheck"}
      [] source = "RootEffect" -> {"RootEffects"}
      [] source = "PendingTaskRemoved" -> {}
      [] OTHER -> {"AfterRender"}

RequiresRefresh(f, v) == f[v] \cap {"RefreshView", "ConsumerDirty"} # {}

SomeViewRequiresRefresh == \E v \in attached : RequiresRefresh(viewFlags, v)

\* Neither a tick nor one of its callbacks is on the stack.
Idle == phase = "idle"

\* User code may act between the event loop's tasks and inside callbacks.
UserCodeRuns == Idle \/ current # None

SchedulerTypeOK ==
    /\ dirtyFlags \in SUBSET Flags
    /\ deferredDirtyFlags \in SUBSET {"AfterRender"}
    /\ destroyed \in BOOLEAN
    /\ pendingRender \in BOOLEAN
    /\ callback \in {"none", "raf", "microtask"}
    /\ useMicrotaskScheduler \in BOOLEAN
    /\ pendingTasks \in SUBSET (UserTasks \cup {"render", "tick"})
    /\ hasPendingTasks \in BOOLEAN

EffectTypeOK ==
    /\ queue \in Seq(Effects)
    /\ created \in SUBSET Effects
    /\ dirty \in SUBSET Effects
    /\ hasRun \in SUBSET Effects
    /\ connected \in SUBSET Effects
    /\ changed \in SUBSET Effects
    /\ shutDown \in SUBSET Effects

ViewTypeOK ==
    /\ attached \in SUBSET Views
    /\ viewFlags \in [Views -> SUBSET {"Dirty", "RefreshView", "ConsumerDirty"}]
    /\ reactive \in SUBSET Views

HookTypeOK ==
    /\ sequences \in SUBSET Hooks
    /\ deferredRegistrations \in SUBSET Hooks
    /\ erroredOrDestroyed \in SUBSET Hooks
    /\ once \in SUBSET Hooks

TickTypeOK ==
    /\ ticker \in {"none", "scheduler", "manual"}
    /\ phase \in {"idle", "loop", "effects", "checkViews", "views", "afterViews", "hooks"}
    /\ runs \in 0..MaxReruns
    /\ retries \in 0..MaxRetries
    /\ todo \in SUBSET (Views \cup Hooks)
    /\ current \in Effects \cup Views \cup Hooks \cup {None}
    /\ failed \in BOOLEAN

TypeOK == SchedulerTypeOK /\ EffectTypeOK /\ ViewTypeOK /\ HookTypeOK /\ TickTypeOK

Init ==
    /\ dirtyFlags = {} /\ deferredDirtyFlags = {}
    /\ destroyed = FALSE
    /\ pendingRender = FALSE /\ callback = "none" /\ useMicrotaskScheduler = FALSE
    /\ pendingTasks = {} /\ hasPendingTasks = FALSE
    /\ queue = <<>>
    /\ created = {} /\ dirty = {} /\ hasRun = {}
    /\ connected = {} /\ changed = {} /\ shutDown = {}
    /\ attached = {} /\ viewFlags = [v \in Views |-> {}] /\ reactive = {}
    /\ sequences = {} /\ deferredRegistrations = {}
    /\ erroredOrDestroyed = {} /\ once = {}
    /\ ticker = "none" /\ phase = "idle"
    /\ runs = 0 /\ retries = 0
    /\ todo = {} /\ current = None
    /\ failed = FALSE

----------------------------------------------------------------------------
(* PendingTasksInternal, ChangeDetectionSchedulerImpl.notify and cleanup.  *)
(* A task id is the name of its owner: "render" for pendingRenderTaskId,   *)
(* "tick" for the task that tick() itself holds.                           *)

AddTask(id) ==
    /\ pendingTasks' = pendingTasks \cup {id}
    /\ hasPendingTasks' = TRUE

RemoveTasks(ids) ==
    /\ pendingTasks' = pendingTasks \ ids
    /\ hasPendingTasks' = (hasPendingTasks /\ pendingTasks \ ids # {})

\* Mutation of ShouldScheduleTick: the reset microtask is taken for a tick.
SkipsWhileMicrotaskScheduler ==
    ~destroyed /\ ~pendingRender /\ ticker = "none" /\ ~useMicrotaskScheduler

\* Mutation of ShouldScheduleTick: a running tick does not count.
SchedulesDuringTick == ~destroyed /\ ~pendingRender

ShouldScheduleTick == ~destroyed /\ ~pendingRender /\ ticker = "none"

\* Mutation of Notify: a tick is scheduled without holding a task for it.
NotifyWithoutTask(sources) ==
    /\ dirtyFlags' = dirtyFlags \cup UNION {FlagOf(s) : s \in sources}
    /\ \/ /\ ShouldScheduleTick
          /\ pendingRender' = TRUE
          /\ callback' = IF useMicrotaskScheduler THEN "microtask" ELSE "raf"
       \/ /\ ~ShouldScheduleTick
          /\ UNCHANGED <<pendingRender, callback>>
    /\ UNCHANGED <<taskVars, deferredDirtyFlags, useMicrotaskScheduler, destroyed>>

\* One or several notify(source) calls in a row.
Notify(sources) ==
    /\ dirtyFlags' = dirtyFlags \cup UNION {FlagOf(s) : s \in sources}
    /\ \/ /\ ShouldScheduleTick
          /\ pendingRender' = TRUE
          /\ callback' = IF useMicrotaskScheduler THEN "microtask" ELSE "raf"
          /\ AddTask("render")
       \/ /\ ~ShouldScheduleTick
          /\ UNCHANGED <<pendingRender, callback, taskVars>>
    /\ UNCHANGED <<deferredDirtyFlags, useMicrotaskScheduler, destroyed>>

\* cleanup(): cancel the scheduled callback and remove its task.  "dropped"
\* are the tasks its caller removes in the same breath.
Cleanup(dropped) ==
    /\ callback' = "none"
    /\ pendingRender' = FALSE
    /\ RemoveTasks(dropped \cup (IF pendingRender THEN {"render"} ELSE {}))

----------------------------------------------------------------------------
(* User code: what applications and libraries call.                        *)

\* ChangeDetectorRef.markForCheck, listeners, setInput: markViewDirty on a
\* root view.  While a template or lifecycle hook runs (isRefreshingViews) only
\* the Dirty bit is set; a view effect clears isRefreshingViews around its body.
MarkForCheck(v) ==
    /\ UserCodeRuns
    /\ Notify({"MarkForCheck"})
    /\ \E bits \in IF phase = "views" THEN {{"Dirty"}, {"Dirty", "RefreshView"}}
                                      ELSE {{"Dirty", "RefreshView"}} :
         viewFlags' = [viewFlags EXCEPT ![v] = @ \cup bits]
    /\ UNCHANGED <<effectVars, attached, reactive, hookVars, tickVars>>

\* A signal the template of v reads changes: its consumer, if still clean, is
\* marked dirty.
SetTemplateSignal(v) ==
    /\ UserCodeRuns
    /\ v \in reactive
    /\ "ConsumerDirty" \notin viewFlags[v]
    /\ Notify({"MarkAncestorsForTraversal"})
    /\ viewFlags' = [viewFlags EXCEPT ![v] = @ \cup {"ConsumerDirty"}]
    /\ UNCHANGED <<effectVars, attached, reactive, hookVars, tickVars>>

\* A signal the effect e depends on is written.  "real" tells whether polling e
\* will find a changed value: a computed in between may come out equal, or the
\* running effect may still read the new value.
SetEffectSignal(e, real) ==
    /\ UserCodeRuns
    /\ e \in connected
    /\ changed' = IF real THEN changed \cup {e} ELSE changed
    /\ \/ /\ e \notin dirty
          /\ dirty' = dirty \cup {e}
          /\ queue' = Append(queue, e)
          /\ Notify({"RootEffect"})
       \/ /\ e \in dirty
          /\ UNCHANGED <<dirty, queue, dirtyFlags, deferredDirtyFlags, destroyed,
                         schedulerVars, taskVars>>
    /\ UNCHANGED <<created, hasRun, connected, shutDown, viewVars, hookVars, tickVars>>

\* effect(): a root effect starts dirty and scheduled.
CreateEffect(e) ==
    /\ UserCodeRuns /\ ~destroyed
    /\ e \notin created
    /\ created' = created \cup {e}
    /\ dirty' = dirty \cup {e}
    /\ queue' = Append(queue, e)
    /\ Notify({"RootEffect"})
    /\ UNCHANGED <<hasRun, connected, changed, shutDown, viewVars, hookVars, tickVars>>

\* EffectRef.destroy(): the node loses its producers and keeps its queue entry.
DestroyEffect(e) ==
    /\ UserCodeRuns
    /\ e \in created \ shutDown
    /\ shutDown' = shutDown \cup {e}
    /\ connected' = connected \ {e}
    /\ changed' = changed \ {e}
    /\ UNCHANGED <<dirtyFlags, deferredDirtyFlags, destroyed, schedulerVars, taskVars,
                   queue, created, dirty, hasRun, viewVars, hookVars, tickVars>>

\* afterRender (isOnce = FALSE) and afterNextRender (isOnce = TRUE).
RegisterHook(h, isOnce) ==
    /\ UserCodeRuns /\ ~destroyed
    /\ h \notin sequences \cup deferredRegistrations
    /\ once' = IF isOnce THEN once \cup {h} ELSE once \ {h}
    /\ erroredOrDestroyed' = erroredOrDestroyed \ {h}
    /\ \/ /\ phase # "hooks"
          /\ sequences' = sequences \cup {h}
          /\ Notify({"RenderHook"})
          /\ UNCHANGED deferredRegistrations
       \/ /\ phase = "hooks"
          /\ deferredRegistrations' = deferredRegistrations \cup {h}
          /\ UNCHANGED <<sequences, dirtyFlags, deferredDirtyFlags, destroyed,
                         schedulerVars, taskVars>>
    /\ UNCHANGED <<effectVars, viewVars, tickVars>>

\* AfterRenderRef.destroy(): a sequence being executed is only marked.
UnregisterHook(h) ==
    /\ UserCodeRuns
    /\ h \in sequences \cup deferredRegistrations
    /\ \/ /\ phase = "hooks" /\ h \in sequences
          /\ erroredOrDestroyed' = erroredOrDestroyed \cup {h}
          /\ once' = once \cup {h}
          /\ UNCHANGED <<sequences, deferredRegistrations>>
       \/ /\ ~(phase = "hooks" /\ h \in sequences)
          /\ sequences' = sequences \ {h}
          /\ deferredRegistrations' = deferredRegistrations \ {h}
          /\ UNCHANGED <<erroredOrDestroyed, once>>
    /\ UNCHANGED <<dirtyFlags, deferredDirtyFlags, destroyed, schedulerVars, taskVars,
                   effectVars, viewVars, tickVars>>

\* PendingTasks.add and PendingTasksInternal.add.
AddPendingTask(t) ==
    /\ UserCodeRuns
    /\ t \notin pendingTasks
    /\ AddTask(t)
    /\ UNCHANGED <<dirtyFlags, deferredDirtyFlags, destroyed, schedulerVars,
                   effectVars, viewVars, hookVars, tickVars>>

\* Mutation of RemovePendingTask: the scheduler is not notified.
RemovePendingTaskSilently(t) ==
    /\ UserCodeRuns
    /\ t \in pendingTasks
    /\ RemoveTasks({t})
    /\ UNCHANGED <<dirtyFlags, deferredDirtyFlags, destroyed, schedulerVars,
                   effectVars, viewVars, hookVars, tickVars>>

\* The function PendingTasks.add returns: notify first, then remove.
RemovePendingTask(t) ==
    /\ UserCodeRuns
    /\ t \in pendingTasks
    /\ \/ /\ ShouldScheduleTick
          /\ pendingRender' = TRUE
          /\ callback' = IF useMicrotaskScheduler THEN "microtask" ELSE "raf"
          /\ pendingTasks' = (pendingTasks \cup {"render"}) \ {t}
          /\ UNCHANGED hasPendingTasks
       \/ /\ ~ShouldScheduleTick
          /\ RemoveTasks({t})
          /\ UNCHANGED <<pendingRender, callback>>
    /\ UNCHANGED <<dirtyFlags, deferredDirtyFlags, destroyed, useMicrotaskScheduler,
                   effectVars, viewVars, hookVars, tickVars>>

\* PendingTasksInternal.remove, as HttpClient and the router call it.
RemoveInternalTask(t) ==
    /\ UserCodeRuns
    /\ t \in pendingTasks
    /\ RemoveTasks({t})
    /\ UNCHANGED <<dirtyFlags, deferredDirtyFlags, destroyed, schedulerVars,
                   effectVars, viewVars, hookVars, tickVars>>

\* ApplicationRef.attachView: a view that is already Dirty, or requires refresh,
\* is made reachable for the next tick.
AttachView(v, isDirty) ==
    /\ UserCodeRuns /\ ~destroyed
    /\ v \notin attached
    /\ attached' = attached \cup {v}
    /\ LET flags == viewFlags[v] \cup (IF isDirty THEN {"Dirty"} ELSE {})
           marked == flags \cup (IF "Dirty" \in flags THEN {"RefreshView"} ELSE {})
       IN  /\ viewFlags' = [viewFlags EXCEPT ![v] = marked]
           /\ Notify({"ViewAttached"} \cup
                     (IF marked # {} THEN {"MarkAncestorsForTraversal"} ELSE {}))
    /\ UNCHANGED <<effectVars, reactive, hookVars, tickVars>>

\* ApplicationRef.detachView.
DetachView(v) ==
    /\ UserCodeRuns
    /\ v \in attached
    /\ attached' = attached \ {v}
    /\ Notify({"ViewDetachedFromDOM"})
    /\ UNCHANGED <<effectVars, viewFlags, reactive, hookVars, tickVars>>

\* ApplicationRef.destroy(): the injector destroys its services in the order
\* PendingTasksInternal, ApplicationRef (which detaches its views), scheduler,
\* and then what registered with its DestroyRef: effects and render hooks.
DestroyApp ==
    /\ UserCodeRuns /\ ~destroyed
    /\ destroyed' = TRUE
    /\ dirtyFlags' = IF attached = {} THEN dirtyFlags ELSE dirtyFlags \cup {"AfterRender"}
    /\ attached' = {} /\ reactive' = {}
    /\ pendingTasks' = {} /\ hasPendingTasks' = FALSE
    /\ pendingRender' = FALSE /\ callback' = "none"
    /\ shutDown' = shutDown \cup created
    /\ connected' = {} /\ changed' = {}
    /\ deferredRegistrations' = {}
    /\ IF phase = "hooks"
         THEN /\ erroredOrDestroyed' = erroredOrDestroyed \cup sequences
              /\ once' = once \cup sequences
              /\ UNCHANGED sequences
         ELSE /\ sequences' = {}
              /\ UNCHANGED <<erroredOrDestroyed, once>>
    /\ UNCHANGED <<deferredDirtyFlags, useMicrotaskScheduler, queue, created, dirty,
                   hasRun, viewFlags, tickVars>>

User ==
    \/ \E v \in Views : \/ MarkForCheck(v)
                        \/ SetTemplateSignal(v)
                        \/ \E isDirty \in BOOLEAN : AttachView(v, isDirty)
                        \/ DetachView(v)
    \/ \E e \in Effects : \/ \E real \in BOOLEAN : SetEffectSignal(e, real)
                          \/ CreateEffect(e)
                          \/ DestroyEffect(e)
    \/ \E h \in Hooks : \/ \E isOnce \in BOOLEAN : RegisterHook(h, isOnce)
                        \/ UnregisterHook(h)
    \/ \E t \in UserTasks : \/ AddPendingTask(t)
                            \/ RemovePendingTask(t)
                            \/ RemoveInternalTask(t)
    \/ DestroyApp

----------------------------------------------------------------------------
(* The event loop.  The microtask that ends useMicrotaskScheduler is always *)
(* ahead of a tick scheduled as a microtask: such a tick is only queued     *)
(* while that reset is queued.  A raf/timeout callback waits for both.      *)

\* _tick() and the entry of synchronize(): deferred dirtiness becomes active.
BeginTick(who) ==
    /\ ticker' = who
    /\ phase' = "loop"
    /\ runs' = 0
    /\ dirtyFlags' = dirtyFlags \cup deferredDirtyFlags
    /\ deferredDirtyFlags' = {}
    /\ UNCHANGED <<retries, todo, current, failed>>

\* The scheduled callback runs ChangeDetectionSchedulerImpl.tick().
FireCallback ==
    /\ Idle
    /\ callback # "none"
    /\ ~useMicrotaskScheduler
    /\ \/ /\ dirtyFlags = {}
          /\ Cleanup({})
          /\ UNCHANGED <<dirtyFlags, deferredDirtyFlags, tickVars>>
       \/ /\ dirtyFlags # {}
          /\ callback' = "none"
          /\ AddTask("tick")
          /\ BeginTick("scheduler")
          /\ UNCHANGED pendingRender
    /\ UNCHANGED <<destroyed, useMicrotaskScheduler, effectVars, viewVars, hookVars>>

\* ApplicationRef.tick() called by application code.  Inside a callback of a
\* tick the call throws (RECURSIVE_APPLICATION_REF_TICK) into that callback.
ManualTick ==
    /\ Idle
    /\ BeginTick("manual")
    /\ UNCHANGED <<destroyed, schedulerVars, taskVars, effectVars, viewVars, hookVars>>

\* Mutation of ResetMicrotaskScheduler: the task is removed, the mode stays.
ResetRemovesTaskOnly ==
    /\ Idle
    /\ useMicrotaskScheduler
    /\ RemoveTasks({"tick"})
    /\ UNCHANGED <<dirtyFlags, deferredDirtyFlags, destroyed, schedulerVars,
                   effectVars, viewVars, hookVars, tickVars>>

\* The microtask queued at the end of a scheduled tick.
ResetMicrotaskScheduler ==
    /\ Idle
    /\ useMicrotaskScheduler
    /\ useMicrotaskScheduler' = FALSE
    /\ RemoveTasks({"tick"})
    /\ UNCHANGED <<dirtyFlags, deferredDirtyFlags, destroyed, pendingRender, callback,
                   effectVars, viewVars, hookVars, tickVars>>

----------------------------------------------------------------------------
(* The end of a tick, normal or by an exception.                           *)

\* Mutation of EndTick: the catch clause of tick() forgets its own task.
EndTickLeaksTask(error) ==
    /\ phase' = "idle"
    /\ ticker' = "none"
    /\ todo' = {}
    /\ current' = None
    /\ runs' = 0 /\ retries' = 0
    /\ failed' = (error \/ dirtyFlags' # {} \/ (failed /\ queue # <<>>))
    /\ Cleanup({})
    /\ useMicrotaskScheduler' = (useMicrotaskScheduler \/ (ticker = "scheduler" /\ ~error))

\* The finally of _tick, the afterTick subscriber, and the rest of tick().
\* The error handler that _tick calls may rethrow: then tick() removes its own
\* task and queues no reset.  After destroy nothing is subscribed to afterTick.
\* "failed" remembers that a tick threw or gave up, until one ends with no
\* effect left in the queue.
EndTick(error) ==
    /\ phase' = "idle"
    /\ ticker' = "none"
    /\ todo' = {}
    /\ current' = None
    /\ runs' = 0 /\ retries' = 0
    /\ failed' = \/ error
                 \/ dirtyFlags' # {}
                 \/ failed /\ queue # <<>>
    /\ \/ /\ ticker = "scheduler"
          /\ \/ /\ Cleanup({})
                /\ useMicrotaskScheduler' = TRUE
             \/ /\ error
                /\ Cleanup({"tick"})
                /\ UNCHANGED useMicrotaskScheduler
       \/ /\ ticker = "manual" /\ ~destroyed
          /\ Cleanup({})
          /\ UNCHANGED useMicrotaskScheduler
       \/ /\ ticker = "manual" /\ destroyed
          /\ UNCHANGED <<schedulerVars, taskVars>>

\* synchronize() leaves its loop; in dev mode reaching the limit is an error,
\* and so is a binding that checkNoChanges finds changed.
FinishTick ==
    /\ phase = "loop"
    /\ dirtyFlags = {} \/ runs = MaxReruns
    /\ UNCHANGED dirtyFlags
    /\ \/ DevMode /\ EndTick(TRUE)
       \/ ~(DevMode /\ runs = MaxReruns) /\ EndTick(FALSE)
    /\ UNCHANGED <<deferredDirtyFlags, destroyed, effectVars, viewVars, hookVars>>

\* The producers the effect e did not read again before it returned or threw are
\* dropped by consumerAfterComputation.
DropUnread(e, reads) ==
    \/ reads /\ UNCHANGED <<connected, changed>>
    \/ /\ ~reads
       /\ connected' = connected \ {e}
       /\ changed' = changed \ {e}

\* An effect body throws: the flush is abandoned with its queue, _tick catches.
EffectThrows(reads) ==
    /\ phase = "effects" /\ current # None
    /\ DropUnread(current, reads)
    /\ UNCHANGED dirtyFlags
    /\ EndTick(TRUE)
    /\ UNCHANGED <<deferredDirtyFlags, destroyed, queue, created, dirty, hasRun, shutDown,
                   viewVars, hookVars>>

\* A view's code throws: refreshView marks its ancestors again, _tick catches.
ViewThrows ==
    /\ phase = "views" /\ current # None
    /\ dirtyFlags' = dirtyFlags \cup {"ViewTreeTraversal"}
    /\ EndTick(TRUE)
    /\ UNCHANGED <<deferredDirtyFlags, destroyed, effectVars, viewVars, hookVars>>

----------------------------------------------------------------------------
(* synchronize() and synchronizeOnce(), step by step.                      *)

\* One more iteration: activate deferred dirtiness, then flush root effects if
\* their flag is set (it is cleared before the flush).
SynchronizeOnce ==
    /\ phase = "loop"
    /\ dirtyFlags # {} /\ runs < MaxReruns
    /\ runs' = runs + 1
    /\ deferredDirtyFlags' = {}
    /\ LET active == dirtyFlags \cup deferredDirtyFlags
       IN  /\ dirtyFlags' = active \ {"RootEffects"}
           /\ phase' = IF "RootEffects" \in active THEN "effects" ELSE "checkViews"
    /\ UNCHANGED <<destroyed, schedulerVars, taskVars, effectVars, viewVars, hookVars,
                   ticker, retries, todo, current, failed>>

\* Mutation of RunEffect: an effect that is skipped after polling stays dirty.
RunEffectSkipsDirty ==
    /\ phase = "effects" /\ current = None
    /\ queue # <<>>
    /\ LET e == Head(queue)
       IN  /\ queue' = Tail(queue)
           /\ \/ /\ e \in hasRun /\ e \notin changed
                 /\ UNCHANGED <<dirty, hasRun, changed, current>>
              \/ /\ e \notin hasRun \/ e \in changed
                 /\ dirty' = dirty \ {e}
                 /\ hasRun' = hasRun \cup {e}
                 /\ changed' = changed \ {e}
                 /\ current' = e
    /\ UNCHANGED <<dirtyFlags, deferredDirtyFlags, destroyed, schedulerVars, taskVars,
                   created, connected, shutDown, viewVars, hookVars,
                   ticker, phase, runs, retries, todo, failed>>

\* flushQueue: dequeue an effect and run it.  It is clean from here on; the body
\* is skipped when it ran before and no producer really changed.
RunEffect ==
    /\ phase = "effects" /\ current = None
    /\ queue # <<>>
    /\ LET e == Head(queue)
       IN  /\ queue' = Tail(queue)
           /\ dirty' = dirty \ {e}
           /\ \/ /\ e \in hasRun /\ e \notin changed
                 /\ UNCHANGED <<hasRun, changed, current>>
              \/ /\ e \notin hasRun \/ e \in changed
                 /\ hasRun' = hasRun \cup {e}
                 /\ changed' = changed \ {e}
                 /\ current' = e
    /\ UNCHANGED <<dirtyFlags, deferredDirtyFlags, destroyed, schedulerVars, taskVars,
                   created, connected, shutDown, viewVars, hookVars,
                   ticker, phase, runs, retries, todo, failed>>

\* The running effect reads a signal: it becomes a live consumer of it.
EffectReads ==
    /\ phase = "effects" /\ current # None
    /\ current \notin connected
    /\ connected' = connected \cup {current}
    /\ UNCHANGED <<dirtyFlags, deferredDirtyFlags, destroyed, schedulerVars, taskVars,
                   queue, created, dirty, hasRun, changed, shutDown,
                   viewVars, hookVars, tickVars>>

\* The body returns; the producers it did not read again are dropped.
EffectReturns(reads) ==
    /\ phase = "effects" /\ current # None
    /\ current' = None
    /\ DropUnread(current, reads)
    /\ UNCHANGED <<dirtyFlags, deferredDirtyFlags, destroyed, schedulerVars, taskVars,
                   queue, created, dirty, hasRun, shutDown, viewVars, hookVars,
                   ticker, phase, runs, retries, todo, failed>>

\* queuedEffectCount = 0: flush() returns.
FlushDone ==
    /\ phase = "effects" /\ current = None
    /\ queue = <<>>
    /\ phase' = "checkViews"
    /\ UNCHANGED <<dirtyFlags, deferredDirtyFlags, destroyed, schedulerVars, taskVars,
                   effectVars, viewVars, hookVars,
                   ticker, runs, retries, todo, current, failed>>

\* Views are checked only if a view flag is set.  The array that allViews
\* returns is a copy: later attach and detach do not change what is visited.
CheckViews ==
    /\ phase = "checkViews"
    /\ \/ /\ dirtyFlags \cap ViewTreeAny # {}
          /\ dirtyFlags' = (dirtyFlags \ ViewTreeAny) \cup {"AfterRender"}
          /\ todo' = attached
          /\ phase' = "views"
       \/ /\ dirtyFlags \cap ViewTreeAny = {}
          /\ phase' = "afterViews"
          /\ UNCHANGED <<dirtyFlags, todo>>
    /\ UNCHANGED <<deferredDirtyFlags, destroyed, schedulerVars, taskVars, effectVars,
                   viewVars, hookVars, ticker, runs, retries, current, failed>>

\* detectChangesInView in targeted mode, on flags f: the marks are cleared before
\* the view's code runs.  A view with nothing but a dirty consumer is refreshed
\* only if polling finds a change ("polled"); a destroyed view runs no code.
DetectChangesInView(f, v, polled) ==
    LET refresh == /\ "RefreshView" \in f[v] \/ ("ConsumerDirty" \in f[v] /\ polled)
                   /\ ~destroyed
    IN  /\ viewFlags' = [f EXCEPT ![v] = @ \ {"RefreshView", "ConsumerDirty"}]
        /\ current' = IF refresh THEN v ELSE None
        /\ reactive' = IF refresh THEN reactive \cup {v} ELSE reactive

\* detectChangesInViewIfRequired, first iteration.
VisitView(v, polled) ==
    /\ phase = "views" /\ current = None
    /\ v \in todo
    /\ todo' = todo \ {v}
    /\ retries' = 0
    /\ \/ /\ RequiresRefresh(viewFlags, v)
          /\ DetectChangesInView(viewFlags, v, polled)
       \/ /\ ~RequiresRefresh(viewFlags, v)
          /\ UNCHANGED <<viewFlags, reactive, current>>
    /\ UNCHANGED <<dirtyFlags, deferredDirtyFlags, destroyed, schedulerVars, taskVars,
                   effectVars, attached, hookVars, ticker, phase, runs, failed>>

\* The view's flags when refreshView returns.
Refreshed(v) == [viewFlags EXCEPT ![v] = @ \ {"Dirty"}]

\* refreshView returns, and the view's own code left no mark on it.
ViewReturns ==
    /\ phase = "views" /\ current # None
    /\ ~RequiresRefresh(viewFlags, current)
    /\ viewFlags' = Refreshed(current)
    /\ current' = None
    /\ UNCHANGED <<dirtyFlags, deferredDirtyFlags, destroyed, schedulerVars, taskVars,
                   effectVars, attached, reactive, hookVars,
                   ticker, phase, runs, retries, todo, failed>>

\* Mutation of ViewRetries: the limit is checked one refresh too late.
ViewRetriesOffByOne(polled) ==
    /\ phase = "views" /\ current # None
    /\ RequiresRefresh(viewFlags, current)
    /\ retries <= MaxRetries
    /\ retries' = retries + 1
    /\ DetectChangesInView(Refreshed(current), current, polled)
    /\ UNCHANGED <<dirtyFlags, deferredDirtyFlags, destroyed, schedulerVars, taskVars,
                   effectVars, attached, hookVars, ticker, phase, runs, todo, failed>>

\* It did: detectChangesInViewWhileDirty refreshes the view again.
ViewRetries(polled) ==
    /\ phase = "views" /\ current # None
    /\ RequiresRefresh(viewFlags, current)
    /\ retries < MaxRetries
    /\ retries' = retries + 1
    /\ DetectChangesInView(Refreshed(current), current, polled)
    /\ UNCHANGED <<dirtyFlags, deferredDirtyFlags, destroyed, schedulerVars, taskVars,
                   effectVars, attached, hookVars, ticker, phase, runs, todo, failed>>

\* It did once too often: INFINITE_CHANGE_DETECTION is thrown out of the tick.
ViewGivesUp ==
    /\ phase = "views" /\ current # None
    /\ RequiresRefresh(viewFlags, current)
    /\ retries = MaxRetries
    /\ viewFlags' = Refreshed(current)
    /\ UNCHANGED dirtyFlags
    /\ EndTick(TRUE)
    /\ UNCHANGED <<deferredDirtyFlags, destroyed, effectVars, attached, reactive, hookVars>>

\* Mutation of Synced: a clean tree resets every flag, not only the view flags.
SyncedResetsAll(flags) ==
    IF SomeViewRequiresRefresh THEN flags \cup {"ViewTreeTraversal"} ELSE {}

\* syncDirtyFlagsWithViews.
Synced(flags) ==
    IF SomeViewRequiresRefresh THEN flags \cup {"ViewTreeTraversal"} ELSE flags \ ViewTreeAny

\* Mutation of ViewsDone: render hooks follow without looking at the flags.
ViewsDoneNoLoop ==
    /\ phase = "views" /\ current = None
    /\ todo = {}
    /\ dirtyFlags' = Synced(dirtyFlags \ {"ViewTreeCheck"})
    /\ phase' = "afterViews"
    /\ UNCHANGED <<deferredDirtyFlags, destroyed, schedulerVars, taskVars, effectVars,
                   viewVars, hookVars, ticker, runs, retries, todo, current, failed>>

\* After the last view: markForCheck during the check does not count, views that
\* require refresh do, and they or new effects loop back before render hooks.
ViewsDone ==
    /\ phase = "views" /\ current = None
    /\ todo = {}
    /\ LET flags == Synced(dirtyFlags \ {"ViewTreeCheck"})
       IN  /\ dirtyFlags' = flags
           /\ phase' = IF flags \cap (ViewTreeAny \cup {"RootEffects"}) # {}
                         THEN "loop" ELSE "afterViews"
    /\ UNCHANGED <<deferredDirtyFlags, destroyed, schedulerVars, taskVars, effectVars,
                   viewVars, hookVars, ticker, runs, retries, todo, current, failed>>

\* AfterRenderImpl.execute() starts, or there is nothing to execute.
AfterViews ==
    /\ phase = "afterViews"
    /\ \/ /\ "AfterRender" \in dirtyFlags
          /\ dirtyFlags' = dirtyFlags \ {"AfterRender"}
          /\ todo' = sequences
          /\ phase' = "hooks"
       \/ /\ "AfterRender" \notin dirtyFlags
          /\ dirtyFlags' = Synced(dirtyFlags)
          /\ phase' = "loop"
          /\ UNCHANGED todo
    /\ UNCHANGED <<deferredDirtyFlags, destroyed, schedulerVars, taskVars, effectVars,
                   viewVars, hookVars, ticker, runs, retries, current, failed>>

\* The four phases of a sequence are one step of user code here.
RunHook(h) ==
    /\ phase = "hooks" /\ current = None
    /\ h \in todo
    /\ todo' = todo \ {h}
    /\ current' = IF h \in erroredOrDestroyed THEN None ELSE h
    /\ UNCHANGED <<dirtyFlags, deferredDirtyFlags, destroyed, schedulerVars, taskVars,
                   effectVars, viewVars, hookVars, ticker, phase, runs, retries, failed>>

\* The hook returns, or throws: that error is caught and only marks the sequence.
HookReturns(throws) ==
    /\ phase = "hooks" /\ current # None
    /\ current' = None
    /\ erroredOrDestroyed' = IF throws THEN erroredOrDestroyed \cup {current}
                                       ELSE erroredOrDestroyed
    /\ UNCHANGED <<dirtyFlags, deferredDirtyFlags, destroyed, schedulerVars, taskVars,
                   effectVars, viewVars, sequences, deferredRegistrations, once,
                   ticker, phase, runs, retries, todo, failed>>

\* The end of execute(): afterRun, one-shot sequences go, registrations made
\* meanwhile come in (notify(DeferredRenderHook)), and flags follow the views.
HooksDone ==
    /\ phase = "hooks" /\ current = None
    /\ todo = {}
    /\ erroredOrDestroyed' = {}
    /\ sequences' = (sequences \ once) \cup deferredRegistrations
    /\ deferredDirtyFlags' = deferredDirtyFlags \cup
                             (IF deferredRegistrations = {} THEN {} ELSE {"AfterRender"})
    /\ deferredRegistrations' = {}
    /\ dirtyFlags' = Synced(dirtyFlags)
    /\ phase' = "loop"
    /\ UNCHANGED <<once, destroyed, schedulerVars, taskVars, effectVars, viewVars,
                   ticker, runs, retries, todo, current, failed>>

----------------------------------------------------------------------------
(* The specification.  User code is free; the event loop and the callbacks  *)
(* themselves go on: the browser runs what is queued, callbacks return.     *)

System ==
    \/ FireCallback
    \/ ResetMicrotaskScheduler
    \/ SynchronizeOnce
    \/ RunEffect
    \/ \E reads \in BOOLEAN : EffectReturns(reads) \/ EffectThrows(reads)
    \/ FlushDone
    \/ CheckViews
    \/ \E v \in Views, polled \in BOOLEAN : VisitView(v, polled)
    \/ ViewReturns
    \/ \E polled \in BOOLEAN : ViewRetries(polled)
    \/ ViewGivesUp
    \/ ViewThrows
    \/ ViewsDone
    \/ AfterViews
    \/ \E h \in Hooks : RunHook(h)
    \/ \E throws \in BOOLEAN : HookReturns(throws)
    \/ HooksDone
    \/ FinishTick

Next == User \/ ManualTick \/ EffectReads \/ System

Spec == Init /\ [][Next]_vars

FairSpec == Spec /\ WF_vars(System)

----------------------------------------------------------------------------
(* Properties.                                                             *)

\* The ids of the scheduler's own tasks are in pendingTasks exactly while they
\* mean something: "render" while a callback is scheduled or being run, "tick"
\* from the start of a scheduled tick to its reset microtask.  An id that stayed
\* behind would keep the application unstable for ever (no SSR response, no
\* whenStable); one removed early would report stability too soon.  Nothing is
\* scheduled once the application is destroyed.
NoLeakedTask ==
    /\ pendingRender <=> "render" \in pendingTasks
    /\ ~destroyed => /\ pendingRender <=> callback # "none" \/ ticker = "scheduler"
                     /\ "tick" \in pendingTasks <=> useMicrotaskScheduler \/ ticker = "scheduler"
    /\ destroyed => ~pendingRender /\ callback = "none" /\ "tick" \notin pendingTasks
    /\ hasPendingTasks <=> pendingTasks # {}

\* The dirty flags lead every tick to every root view that requires refresh: a
\* view marked by anyone, at any point of a tick, detached and attached again,
\* is visited by the pass under way or its flag is still set (synchronizeOnce
\* clears the flags before it visits the views).
FlagsCoverViews ==
    (\E v \in Views : /\ v \in attached \/ (phase = "views" /\ v = current)
                     /\ ~(phase = "views" /\ v \in todo)
                     /\ RequiresRefresh(viewFlags, v))
    => dirtyFlags \cap ViewTreeAny # {}

\* A queued effect is about to be flushed, unless a failed tick left it behind.
FlagsCoverEffects ==
    queue # <<>> => failed \/ phase = "effects" \/ "RootEffects" \in dirtyFlags

\* No notification is overtaken by a tick: whatever synchronizeOnce still has to
\* look at has a flag that makes it look.
FlagsLeadToWork == FlagsCoverViews /\ FlagsCoverEffects

\* No work is lost: whenever the application is idle and the last tick did not
\* fail, dirty flags, queued effects and views requiring refresh imply that a
\* tick is scheduled.  notify() relies on a running tick to pick up what it only
\* flags, and on cleanup() to cancel callbacks only when nothing is left.
NoLostWork ==
    Idle /\ ~destroyed /\ ~failed =>
        (dirtyFlags # {} \/ queue # <<>> \/ SomeViewRequiresRefresh => callback # "none")

\* The scheduler's queue holds exactly the dirty effects, once each, and an
\* effect whose producers changed is dirty: the early return of
\* producerNotifyConsumers for a dirty consumer never loses a notification.
QueueHoldsDirtyEffects ==
    /\ {queue[i] : i \in DOMAIN queue} = dirty
    /\ Len(queue) = Cardinality(dirty)
    /\ changed \subseteq dirty \cap connected

\* The application becomes stable (isStable emits true) outside of a tick only
\* when there is nothing left to synchronize, failures apart.
StableMeansSynchronized ==
    [][hasPendingTasks /\ ~hasPendingTasks' /\ phase' = "idle" /\ ~destroyed' /\ ~failed'
       => /\ dirtyFlags' = {} /\ queue' = <<>>
          /\ ~\E v \in attached' : RequiresRefresh(viewFlags', v)]_vars

\* Render hooks start only when no attached view requires refresh and, failures
\* apart, no effect is queued: they read a DOM that reflects the state.
HooksSeeSettledViews ==
    [][phase # "hooks" /\ phase' = "hooks"
       => ~SomeViewRequiresRefresh /\ (failed \/ queue = <<>>)]_vars

\* If user code leaves the application alone from some point on, ticks end, the
\* microtask scheduler is reset and nothing remains scheduled; with NoLeakedTask
\* only tasks of the user can then keep the application unstable.
EventuallySettles ==
    <>[][System]_vars => <>[](Idle /\ callback = "none" /\ ~useMicrotaskScheduler)

\* Removing a task through PendingTasks never makes the application stable by
\* itself: a tick is awaited first ("ensuring that stability is async"), also
\* when the task is removed by a callback of a tick, even of one that the scheduler
\* knows nothing of, as long as a notification had asked for it.  A manual tick
\* that nothing was notified for can still have work: render hooks an earlier tick
\* deferred, or what a failed tick left behind.
PublicRemovalIsAsync ==
    [][\A t \in UserTasks :
          RemovePendingTask(t) /\ ~destroyed /\ (ticker = "manual" => pendingRender)
          => ~(hasPendingTasks /\ ~hasPendingTasks')]_vars

\* What there is to synchronize, by the three records the scheduler has of it.
WorkLeft == dirtyFlags # {} \/ queue # <<>> \/ SomeViewRequiresRefresh

\* The scheduler as its users see it: what there is to synchronize, whether a
\* tick is scheduled or running, whether the application is unstable.
Promise == INSTANCE SchedulingContract WITH
    work <- WorkLeft,
    scheduled <- callback # "none",
    ticking <- ~Idle,
    busy <- hasPendingTasks

\* The flags, the queue, the loops and the pending task ids implement the
\* contract: every step of the scheduler, of a tick and of user code is a step
\* that SchedulingContract allows.
MeetsContract == Promise!Contract
============================================================================
