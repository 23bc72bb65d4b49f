------------------------- MODULE StabilityEmissions -------------------------
(***************************************************************************)
(* The stability of a zoneless application at the granularity of its       *)
(* emissions.  PendingTasksInternal.hasPendingTasks is a BehaviorSubject:  *)
(* add() and remove() emit synchronously, and a subscriber of              *)
(* ApplicationRef.isStable that marks a view for check is back in notify() *)
(* of the scheduler while the outer add() or remove() is still running.    *)
(*                                                                         *)
(* Every action is one synchronous run of JavaScript.  What happens inside *)
(* it is the composition of operators on the record "app", in the order of *)
(* the statements; R is the set of emitted values of hasPendingTasks that  *)
(* some subscriber reacts to during that run.                              *)
(***************************************************************************)
EXTENDS Integers, FiniteSets

CONSTANTS
    MaxIds,         \* task ids are 1..MaxIds
    MaxUserTasks,   \* tasks the application holds at a time
    ReactOn         \* the values of hasPendingTasks subscribers may react to

ASSUME EmissionsAssumption ==
    /\ MaxIds \in Nat \ {0}
    /\ MaxUserTasks \in Nat
    /\ ReactOn \subseteq BOOLEAN

NoId == 0
Ids == 1..MaxIds

VARIABLE app

\* The types, and that tick() holds its task exactly while it runs.
TypeOK ==
    /\ app \in [has: BOOLEAN,              \* hasPendingTasks.value
                tasks: SUBSET Ids,         \* PendingTasksInternal.pendingTasks
                render: Ids \cup {NoId},   \* pendingRenderTaskId
                callbacks: SUBSET Ids,     \* scheduled and not cancelled, by task id
                cancel: Ids \cup {NoId},   \* the callback cancelScheduledCallback cancels
                dirty: {"no", "left", "notified"},  \* dirtyFlags; "left" by a failed tick
                running: {"no", "manual", "scheduler"},  \* runningTick, _runningTick
                tickTask: Ids \cup {NoId}, \* the local "task" of tick()
                reset: Ids \cup {NoId},    \* the "task" its microtask will remove
                userTasks: SUBSET Ids,     \* ids that applications hold
                destroyed: BOOLEAN]        \* ApplicationRef.destroyed
    /\ app.running = "scheduler" <=> app.tickTask # NoId

Init ==
    app = [has |-> FALSE, tasks |-> {}, render |-> NoId, callbacks |-> {}, cancel |-> NoId,
           dirty |-> "no", running |-> "no", tickTask |-> NoId, reset |-> NoId,
           userTasks |-> {}, destroyed |-> FALSE]

----------------------------------------------------------------------------
(* PendingTasksInternal and ChangeDetectionSchedulerImpl on a state s.     *)

InUse(s) == s.tasks \cup s.callbacks \cup s.userTasks
            \cup {s.render, s.cancel, s.tickTask, s.reset}

\* taskId++ : ids that nothing refers to any more are taken again.
Fresh(s) == CHOOSE i \in Ids : i \notin InUse(s)

\* Room for the ids one action may take: its own and those of reactions.
Room(s) == Cardinality(Ids \ InUse(s)) >= 3

\* Mutation of ShouldScheduleTick: a tick that is already scheduled is ignored.
ShouldScheduleAgain(s) == ~s.destroyed /\ s.running = "no"

ShouldScheduleTick(s) == ~s.destroyed /\ s.render = NoId /\ s.running = "no"

\* The id returned by add() becomes pendingRenderTaskId, and the callback that
\* is scheduled next replaces the one cancelScheduledCallback could cancel.
Schedule(s, id) == [s EXCEPT !.render = id, !.callbacks = @ \cup {id}, !.cancel = id]

TaskAdded(s, id) == [s EXCEPT !.tasks = @ \cup {id}]

Flagged(s) == [s EXCEPT !.dirty = "notified"]

\* notify() called while hasPendingTasks is true: add() emits nothing.
NotifyWhilePending(s) ==
    LET f == Flagged(s)
    IN  IF ShouldScheduleTick(f) THEN Schedule(TaskAdded(f, Fresh(f)), Fresh(f)) ELSE f

\* hasPendingTasks.next(true) at the start of add(), with its subscribers.
EmitPending(s, R) ==
    IF s.has THEN s
    ELSE LET emitting == [s EXCEPT !.has = TRUE]
         IN  IF TRUE \in R THEN NotifyWhilePending(emitting) ELSE emitting

\* The rest of notify(), its flags set: whether to schedule was decided before
\* add() emits, pendingRenderTaskId is assigned after.
ScheduleIfNeeded(s, R) ==
    IF ShouldScheduleTick(s)
    THEN LET e == EmitPending(s, R) IN Schedule(TaskAdded(e, Fresh(e)), Fresh(e))
    ELSE s

NotifyScheduler(s, R) == ScheduleIfNeeded(Flagged(s), R)

\* remove(id): the last task makes hasPendingTasks emit false.
Remove(s, id, R) ==
    LET t == [s EXCEPT !.tasks = @ \ {id}]
    IN  IF t.tasks = {} /\ t.has
        THEN LET emitting == [t EXCEPT !.has = FALSE]
             IN  IF FALSE \in R THEN NotifyScheduler(emitting, R) ELSE emitting
        ELSE t

\* Mutation of Cleanup: the task is removed before its id is forgotten.
CleanupForgetsLate(s, R) ==
    LET c == [s EXCEPT !.running = "no", !.callbacks = @ \ {s.cancel}, !.cancel = NoId]
    IN  [(IF s.render = NoId THEN c ELSE Remove(c, s.render, R)) EXCEPT !.render = NoId]

\* cleanup(): pendingRenderTaskId is cleared before its task is removed.
Cleanup(s, R) ==
    LET c == [s EXCEPT !.running = "no", !.callbacks = @ \ {s.cancel}, !.cancel = NoId,
                       !.render = NoId]
    IN  IF s.render = NoId THEN c ELSE Remove(c, s.render, R)

----------------------------------------------------------------------------
(* User code, between the tasks of the event loop or inside a tick.        *)

\* markForCheck, signal writes, ...: anything that sets a dirty flag.
Notify(R) ==
    /\ Room(app)
    /\ app' = NotifyScheduler(app, R)

\* PendingTasks.add and PendingTasksInternal.add.
AddPendingTask(R) ==
    /\ Room(app)
    /\ Cardinality(app.userTasks) < MaxUserTasks
    /\ LET e == EmitPending(app, R)
       IN  app' = [TaskAdded(e, Fresh(e)) EXCEPT !.userTasks = @ \cup {Fresh(e)}]

\* The function that PendingTasks.add returned.
RemovePendingTask(t, R) ==
    /\ Room(app)
    /\ t \in app.userTasks
    /\ LET held == [app EXCEPT !.userTasks = @ \ {t}]
       IN  app' = IF t \in app.tasks THEN Remove(ScheduleIfNeeded(held, R), t, R) ELSE held

\* PendingTasksInternal.remove.
RemoveInternalTask(t, R) ==
    /\ Room(app)
    /\ t \in app.userTasks
    /\ app' = Remove([app EXCEPT !.userTasks = @ \ {t}], t, R)

\* ApplicationRef.destroy(): PendingTasksInternal clears its tasks and emits,
\* ApplicationRef is marked destroyed, the scheduler cleans up.  A tick that calls
\* destroy() is still on the stack.
Destroy(R) ==
    /\ Room(app)
    /\ ~app.destroyed
    /\ LET cleared == [app EXCEPT !.tasks = {}, !.has = FALSE]
           emitted == IF app.has /\ FALSE \in R THEN NotifyScheduler(cleared, R) ELSE cleared
       IN  app' = [Cleanup([emitted EXCEPT !.destroyed = TRUE], {})
                   EXCEPT !.running = app.running]

----------------------------------------------------------------------------
(* The event loop and the ticks.                                           *)

\* A scheduled callback runs ChangeDetectionSchedulerImpl.tick().  The reset of
\* useMicrotaskScheduler is a microtask queued before any such callback.
FireCallback(c, R) ==
    /\ Room(app)
    /\ app.running = "no" /\ app.reset = NoId
    /\ c \in app.callbacks
    /\ LET fired == [app EXCEPT !.callbacks = @ \ {c}]
       IN  \/ app.destroyed /\ app' = fired
           \/ ~app.destroyed /\ app.dirty = "no" /\ app' = Cleanup(fired, R)
           \/ /\ ~app.destroyed /\ app.dirty # "no"
              /\ LET e == EmitPending(fired, R)
                 IN  app' = [TaskAdded(e, Fresh(e)) EXCEPT !.tickTask = Fresh(e),
                                                           !.running = "scheduler"]

\* ApplicationRef.tick() called by the application.
ManualTick ==
    /\ app.running = "no"
    /\ app' = [app EXCEPT !.running = "manual"]

\* The tick resolved the dirtiness, or failed and may have left some.
Synchronized(failed) ==
    {[app EXCEPT !.dirty = d] : d \in IF failed THEN {"no", "left"} ELSE {"no"}}

\* A manual tick ends: the subscription to afterTick cleans up.
EndManualTick(failed, R) ==
    /\ Room(app)
    /\ app.running = "manual"
    /\ \E s \in Synchronized(failed) :
         app' = IF s.destroyed THEN [s EXCEPT !.running = "no"] ELSE Cleanup(s, R)

\* A scheduled tick ends: cleanup(), and a microtask removes the task of tick().
EndTick(failed, R) ==
    /\ Room(app)
    /\ app.running = "scheduler"
    /\ \E s \in Synchronized(failed) :
         app' = Cleanup([s EXCEPT !.tickTask = NoId, !.reset = s.tickTask], R)

\* Mutation of TickThrows: the catch clause is missing.
TickThrowsUncaught(R) ==
    /\ Room(app)
    /\ app.running = "scheduler"
    /\ \E s \in Synchronized(TRUE) : app' = Cleanup(s, R)

\* The error handler rethrows: the catch clause removes the task, then cleanup().
TickThrows(R) ==
    /\ Room(app)
    /\ app.running = "scheduler"
    /\ \E s \in Synchronized(TRUE) :
         app' = Cleanup(Remove([s EXCEPT !.tickTask = NoId], s.tickTask, R), R)

\* Mutation of ResetMicrotaskScheduler: the task of tick() is not removed.
ResetKeepsTask(R) ==
    /\ Room(app)
    /\ app.reset # NoId /\ app.running = "no"
    /\ app' = [app EXCEPT !.reset = NoId]

\* The microtask queued by tick().
ResetMicrotaskScheduler(R) ==
    /\ Room(app)
    /\ app.reset # NoId /\ app.running = "no"
    /\ app' = Remove([app EXCEPT !.reset = NoId], app.reset, R)

User(R) ==
    \/ Notify(R)
    \/ AddPendingTask(R)
    \/ \E t \in app.userTasks : RemovePendingTask(t, R) \/ RemoveInternalTask(t, R)
    \/ Destroy(R)
    \/ ManualTick

System(R) ==
    \/ \E c \in app.callbacks : FireCallback(c, R)
    \/ \E failed \in BOOLEAN : EndTick(failed, R) \/ EndManualTick(failed, R)
    \/ TickThrows(R)
    \/ ResetMicrotaskScheduler(R)

Next == \E R \in SUBSET ReactOn : User(R) \/ System(R)

Spec == Init /\ [][Next]_app

\* The browser runs what is queued, and ticks return.
FairSpec == Spec /\ WF_app(\E R \in SUBSET ReactOn : System(R))

----------------------------------------------------------------------------
(* Properties.                                                             *)

\* Between two runs of JavaScript every pending task has an owner that will
\* remove it, and hasPendingTasks tells whether there are any: no nesting of
\* emissions loses an id.
TasksHaveOwners ==
    /\ ~app.destroyed =>
         app.tasks = ({app.render, app.tickTask, app.reset} \ {NoId}) \cup app.userTasks
    /\ app.has <=> app.tasks # {}

\* A subscriber that notifies from within any emission gets its change detection:
\* cleanup() clears the task id before it removes the task for this purpose.
NotifiedWorkIsScheduled ==
    app.running = "no" /\ ~app.destroyed /\ app.dirty = "notified" => app.callbacks # {}

\* If from some point on nobody calls in or reacts, and no task of the user is
\* left, the application becomes and stays stable, and whenStable() resolves.
BecomesStable ==
    (<>[][System({})]_app /\ <>[](app.userTasks = {})) => <>[](~app.has)
============================================================================
