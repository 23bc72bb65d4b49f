---------------------- MODULE ZonelessScheduler_proofs ----------------------
(***************************************************************************)
(* Proofs about ZonelessScheduler for any numbers of views, effects, hooks *)
(* and tasks and for any limits.                                           *)
(***************************************************************************)
EXTENDS ZonelessScheduler, SequenceTheorems, FiniteSetTheorems, TLAPS

\* What the control state of a tick implies; PhaseOK is what the other
\* invariants need to know about it.
PhaseOK ==
    /\ Idle <=> ticker = "none"
    /\ phase \notin {"effects", "views", "hooks"} => current = None
    /\ phase = "effects" => current \in Effects \cup {None}
    /\ phase = "views" => /\ current \in Views \cup {None} /\ todo \subseteq Views
                          /\ current \notin todo
    /\ phase = "hooks" => current \in Hooks \cup {None} /\ todo \subseteq Hooks
    /\ ticker = "scheduler" => ~useMicrotaskScheduler

\* Once the effects of a pass were flushed, and once its views were checked.
PassOK ==
    /\ phase \in {"checkViews", "afterViews"} => failed \/ queue = <<>>
    /\ phase = "afterViews" => dirtyFlags \cap ViewTreeAny = {}

IInv ==
    /\ TypeOK
    /\ PhaseOK
    /\ NoLeakedTask
    /\ FlagsCoverEffects
    /\ FlagsCoverViews
    /\ PassOK
    /\ NoLostWork

----------------------------------------------------------------------------
(* Type correctness. *)

\* notify() keeps the scheduler's types.
LEMMA NotifyType ==
    ASSUME TypeOK, NEW S, Notify(S)
    PROVE  /\ dirtyFlags' \in SUBSET Flags
           /\ deferredDirtyFlags' \in SUBSET {"AfterRender"}
           /\ destroyed' \in BOOLEAN
           /\ pendingRender' \in BOOLEAN
           /\ callback' \in {"none", "raf", "microtask"}
           /\ useMicrotaskScheduler' \in BOOLEAN
           /\ pendingTasks' \in SUBSET (UserTasks \cup {"render", "tick"})
           /\ hasPendingTasks' \in BOOLEAN
<1>1. \A s : FlagOf(s) \subseteq Flags
  BY DEF FlagOf, Flags, ViewTreeAny
<1>2. dirtyFlags' \in SUBSET Flags
  BY <1>1 DEF TypeOK, SchedulerTypeOK, Notify
<1>3. /\ pendingTasks' \in SUBSET (UserTasks \cup {"render", "tick"})
      /\ hasPendingTasks' \in BOOLEAN
      /\ pendingRender' \in BOOLEAN
      /\ callback' \in {"none", "raf", "microtask"}
  BY DEF TypeOK, SchedulerTypeOK, Notify, AddTask, taskVars
<1> QED
  BY <1>2, <1>3 DEF TypeOK, SchedulerTypeOK, Notify

\* PendingTasksInternal.add and remove keep the types.
LEMMA TaskType ==
    ASSUME TypeOK
    PROVE  /\ \A ids : RemoveTasks(ids) =>
                /\ pendingTasks' \in SUBSET (UserTasks \cup {"render", "tick"})
                /\ hasPendingTasks' \in BOOLEAN
           /\ \A id \in UserTasks \cup {"render", "tick"} : AddTask(id) =>
                /\ pendingTasks' \in SUBSET (UserTasks \cup {"render", "tick"})
                /\ hasPendingTasks' \in BOOLEAN
BY DEF TypeOK, SchedulerTypeOK, RemoveTasks, AddTask

\* cleanup() keeps the types, and nothing stays scheduled.
LEMMA CleanupType ==
    ASSUME TypeOK, NEW dropped, Cleanup(dropped)
    PROVE  /\ callback' = "none"
           /\ pendingRender' = FALSE
           /\ pendingTasks' \in SUBSET (UserTasks \cup {"render", "tick"})
           /\ hasPendingTasks' \in BOOLEAN
BY DEF TypeOK, SchedulerTypeOK, Cleanup, RemoveTasks

\* The finally of _tick and the rest of tick() keep the types.
LEMMA EndTickType ==
    ASSUME ConstantsAssumption, TypeOK, NEW error \in BOOLEAN, EndTick(error)
    PROVE  /\ phase' = "idle" /\ ticker' = "none"
           /\ todo' = {} /\ current' = None
           /\ runs' \in 0..MaxReruns /\ retries' \in 0..MaxRetries
           /\ failed' \in BOOLEAN
           /\ callback' \in {"none", "raf", "microtask"}
           /\ pendingRender' \in BOOLEAN
           /\ useMicrotaskScheduler' \in BOOLEAN
           /\ pendingTasks' \in SUBSET (UserTasks \cup {"render", "tick"})
           /\ hasPendingTasks' \in BOOLEAN
<1>1. /\ phase' = "idle" /\ ticker' = "none"
      /\ todo' = {} /\ current' = None
      /\ runs' \in 0..MaxReruns /\ retries' \in 0..MaxRetries
      /\ failed' \in BOOLEAN
  BY DEF ConstantsAssumption, EndTick
<1>2. \/ Cleanup({}) \/ Cleanup({"tick"})
      \/ UNCHANGED <<schedulerVars, taskVars>>
  BY DEF EndTick
<1>3. useMicrotaskScheduler' \in BOOLEAN
  BY DEF EndTick, TypeOK, SchedulerTypeOK, schedulerVars
<1>4. /\ callback' \in {"none", "raf", "microtask"}
      /\ pendingRender' \in BOOLEAN
      /\ pendingTasks' \in SUBSET (UserTasks \cup {"render", "tick"})
      /\ hasPendingTasks' \in BOOLEAN
  BY <1>2, CleanupType DEF TypeOK, SchedulerTypeOK, schedulerVars, taskVars
<1> QED
  BY <1>1, <1>3, <1>4

\* Every step keeps the types.
LEMMA TypeNext ==
    ASSUME ConstantsAssumption, TypeOK, PhaseOK, [Next]_vars
    PROVE  TypeOK'
<1> USE DEF TypeOK, SchedulerTypeOK, EffectTypeOK, ViewTypeOK, HookTypeOK, TickTypeOK,
        schedulerVars, taskVars, effectVars, viewVars, hookVars, tickVars
<1>1. ASSUME NEW v \in Views, MarkForCheck(v)
      PROVE  TypeOK'
  BY <1>1, NotifyType DEF MarkForCheck
<1>2. ASSUME NEW v \in Views, SetTemplateSignal(v)
      PROVE  TypeOK'
  BY <1>2, NotifyType DEF SetTemplateSignal
<1>3. ASSUME NEW v \in Views, NEW isDirty \in BOOLEAN, AttachView(v, isDirty)
      PROVE  TypeOK'
  BY <1>3, NotifyType DEF AttachView
<1>4. ASSUME NEW v \in Views, DetachView(v)
      PROVE  TypeOK'
  BY <1>4, NotifyType DEF DetachView
<1>5. ASSUME NEW e \in Effects, NEW real \in BOOLEAN, SetEffectSignal(e, real)
      PROVE  TypeOK'
  <2>1. SchedulerTypeOK'
    BY <1>5, NotifyType DEF SetEffectSignal
  <2>2. EffectTypeOK' /\ ViewTypeOK'
    BY <1>5, NotifyType DEF SetEffectSignal
  <2>3. HookTypeOK' /\ TickTypeOK'
    BY <1>5, NotifyType DEF SetEffectSignal
  <2> QED
    BY <2>1, <2>2, <2>3
<1>6. ASSUME NEW e \in Effects, CreateEffect(e)
      PROVE  TypeOK'
  BY <1>6, NotifyType DEF CreateEffect
<1>7. ASSUME NEW e \in Effects, DestroyEffect(e)
      PROVE  TypeOK'
  BY <1>7 DEF DestroyEffect
<1>8. ASSUME NEW h \in Hooks, NEW isOnce \in BOOLEAN, RegisterHook(h, isOnce)
      PROVE  TypeOK'
  <2>1. SchedulerTypeOK'
    BY <1>8, NotifyType DEF RegisterHook
  <2>2. EffectTypeOK' /\ ViewTypeOK'
    BY <1>8, NotifyType DEF RegisterHook
  <2>3. HookTypeOK' /\ TickTypeOK'
    BY <1>8, NotifyType DEF RegisterHook
  <2> QED
    BY <2>1, <2>2, <2>3
<1>9. ASSUME NEW h \in Hooks, UnregisterHook(h)
      PROVE  TypeOK'
  BY <1>9 DEF UnregisterHook
<1>10. ASSUME NEW t \in UserTasks, AddPendingTask(t)
      PROVE  TypeOK'
  BY <1>10, TaskType DEF AddPendingTask
<1>11. ASSUME NEW t \in UserTasks, RemovePendingTask(t)
      PROVE  TypeOK'
  <2>1. SchedulerTypeOK'
    BY <1>11, TaskType DEF RemovePendingTask
  <2>2. EffectTypeOK' /\ ViewTypeOK'
    BY <1>11, TaskType DEF RemovePendingTask
  <2>3. HookTypeOK' /\ TickTypeOK'
    BY <1>11, TaskType DEF RemovePendingTask
  <2> QED
    BY <2>1, <2>2, <2>3
<1>12. ASSUME NEW t \in UserTasks, RemoveInternalTask(t)
      PROVE  TypeOK'
  BY <1>12, TaskType DEF RemoveInternalTask
<1>13. CASE DestroyApp
  BY <1>13 DEF DestroyApp, Flags
<1>14. CASE ManualTick
  <2>1. SchedulerTypeOK'
    BY <1>14 DEF ManualTick, BeginTick, Flags, ConstantsAssumption
  <2>2. EffectTypeOK' /\ ViewTypeOK'
    BY <1>14 DEF ManualTick, BeginTick, Flags, ConstantsAssumption
  <2>3. HookTypeOK' /\ TickTypeOK'
    BY <1>14 DEF ManualTick, BeginTick, Flags, ConstantsAssumption
  <2> QED
    BY <2>1, <2>2, <2>3
<1>15. CASE EffectReads
  BY <1>15 DEF EffectReads, PhaseOK
<1>16. CASE FireCallback
  <2>1. SchedulerTypeOK'
    BY <1>16, CleanupType, TaskType DEF FireCallback, BeginTick, Flags
  <2>2. EffectTypeOK' /\ ViewTypeOK'
    BY <1>16, CleanupType, TaskType DEF FireCallback, BeginTick, Flags
  <2>3. HookTypeOK' /\ TickTypeOK'
    BY <1>16, CleanupType, TaskType DEF FireCallback, BeginTick, Flags
  <2> QED
    BY <2>1, <2>2, <2>3
<1>17. CASE ResetMicrotaskScheduler
  <2>1. SchedulerTypeOK'
    BY <1>17, TaskType DEF ResetMicrotaskScheduler
  <2>2. EffectTypeOK' /\ ViewTypeOK'
    BY <1>17, TaskType DEF ResetMicrotaskScheduler
  <2>3. HookTypeOK' /\ TickTypeOK'
    BY <1>17, TaskType DEF ResetMicrotaskScheduler
  <2> QED
    BY <2>1, <2>2, <2>3
<1>18. CASE SynchronizeOnce
  <2>1. SchedulerTypeOK'
    BY <1>18 DEF SynchronizeOnce, Flags, ConstantsAssumption
  <2>2. EffectTypeOK' /\ ViewTypeOK'
    BY <1>18 DEF SynchronizeOnce, Flags, ConstantsAssumption
  <2>3. HookTypeOK' /\ TickTypeOK'
    BY <1>18 DEF SynchronizeOnce, Flags, ConstantsAssumption
  <2> QED
    BY <2>1, <2>2, <2>3
<1>19. CASE RunEffect
  BY <1>19 DEF RunEffect
<1>20. ASSUME NEW reads \in BOOLEAN, EffectReturns(reads)
      PROVE  TypeOK'
  BY <1>20 DEF EffectReturns, DropUnread, PhaseOK
<1>21. ASSUME NEW reads \in BOOLEAN, EffectThrows(reads)
      PROVE  TypeOK'
  BY <1>21, EndTickType DEF EffectThrows, DropUnread
<1>22. CASE FlushDone
  BY <1>22 DEF FlushDone
<1>23. CASE CheckViews
  BY <1>23 DEF CheckViews, Flags
<1>24. ASSUME NEW v \in Views, NEW polled \in BOOLEAN, VisitView(v, polled)
      PROVE  TypeOK'
  BY <1>24 DEF VisitView, DetectChangesInView, ConstantsAssumption
<1>25. CASE ViewReturns
  BY <1>25 DEF ViewReturns, Refreshed
<1>26. ASSUME NEW polled \in BOOLEAN, ViewRetries(polled)
      PROVE  TypeOK'
  <2>1. SchedulerTypeOK'
    BY <1>26 DEF ViewRetries, PhaseOK, DetectChangesInView, Refreshed, ConstantsAssumption
  <2>2. EffectTypeOK' /\ ViewTypeOK'
    BY <1>26 DEF ViewRetries, PhaseOK, DetectChangesInView, Refreshed, ConstantsAssumption
  <2>3. HookTypeOK' /\ TickTypeOK'
    BY <1>26 DEF ViewRetries, PhaseOK, DetectChangesInView, Refreshed, ConstantsAssumption
  <2> QED
    BY <2>1, <2>2, <2>3
<1>27. CASE ViewGivesUp
  BY <1>27, EndTickType DEF ViewGivesUp, Refreshed
<1>28. CASE ViewThrows
  BY <1>28, EndTickType DEF ViewThrows, Flags, ViewTreeAny
<1>29. CASE ViewsDone
  BY <1>29 DEF ViewsDone, Synced, Flags, ViewTreeAny
<1>30. CASE AfterViews
  <2>1. SchedulerTypeOK'
    BY <1>30 DEF AfterViews, Synced, Flags, ViewTreeAny
  <2>2. EffectTypeOK' /\ ViewTypeOK'
    BY <1>30 DEF AfterViews, Synced, Flags, ViewTreeAny
  <2>3. HookTypeOK' /\ TickTypeOK'
    BY <1>30 DEF AfterViews, Synced, Flags, ViewTreeAny
  <2> QED
    BY <2>1, <2>2, <2>3
<1>31. ASSUME NEW h \in Hooks, RunHook(h)
      PROVE  TypeOK'
  BY <1>31 DEF RunHook
<1>32. ASSUME NEW throws \in BOOLEAN, HookReturns(throws)
      PROVE  TypeOK'
  BY <1>32 DEF HookReturns, PhaseOK
<1>33. CASE HooksDone
  BY <1>33 DEF HooksDone, Synced, Flags, ViewTreeAny
<1>34. CASE FinishTick
  BY <1>34, EndTickType DEF FinishTick
<1>35. CASE UNCHANGED vars
  BY <1>35 DEF vars
<1>36. CASE User
  BY <1>1, <1>2, <1>3, <1>4, <1>5, <1>6, <1>7, <1>8, <1>9, <1>10, <1>11, <1>12,
     <1>13, <1>36 DEF User
<1>37. CASE System
  BY <1>16, <1>17, <1>18, <1>19, <1>20, <1>21, <1>22, <1>23, <1>24, <1>25, <1>26,
     <1>27, <1>28, <1>29, <1>30, <1>31, <1>32, <1>33, <1>34, <1>37 DEF System
<1> QED
  BY <1>14, <1>15, <1>35, <1>36, <1>37 DEF Next

----------------------------------------------------------------------------
(* The control state of a tick. *)

\* Every step keeps the control state of synchronize() consistent.
LEMMA PhaseNext ==
    ASSUME ConstantsAssumption, TypeOK, PhaseOK, [Next]_vars
    PROVE  PhaseOK'
<1> USE DEF PhaseOK, Idle
<1> USE DEF schedulerVars, tickVars
<1>1. CASE User
  <2>1. UNCHANGED <<useMicrotaskScheduler, tickVars>>
    BY <1>1 DEF User, MarkForCheck, SetTemplateSignal, AttachView, DetachView,
       SetEffectSignal, CreateEffect, DestroyEffect, RegisterHook, UnregisterHook,
       AddPendingTask, RemovePendingTask, RemoveInternalTask, DestroyApp, Notify
  <2> QED
    BY <2>1
<1>2. CASE ManualTick \/ FireCallback
  BY <1>2 DEF ManualTick, FireCallback, BeginTick
<1>3. CASE ResetMicrotaskScheduler \/ EffectReads
  BY <1>3 DEF ResetMicrotaskScheduler, EffectReads
<1>4. CASE SynchronizeOnce \/ FlushDone
  BY <1>4 DEF SynchronizeOnce, FlushDone
<1>5. CASE RunEffect
  <2>1. Head(queue) \in Effects
    BY <1>5 DEF RunEffect, TypeOK, EffectTypeOK
  <2> QED
    BY <1>5, <2>1 DEF RunEffect
<1>6. ASSUME NEW reads \in BOOLEAN, EffectReturns(reads)
      PROVE  PhaseOK'
  BY <1>6 DEF EffectReturns
<1>7. ASSUME NEW error \in BOOLEAN, EndTick(error)
      PROVE  PhaseOK'
  BY <1>7 DEF EndTick
<1>8. CASE FinishTick \/ ViewThrows \/ ViewGivesUp \/ \E reads \in BOOLEAN : EffectThrows(reads)
  BY <1>7, <1>8 DEF FinishTick, ViewThrows, ViewGivesUp, EffectThrows
<1>9. CASE CheckViews
  BY <1>9 DEF CheckViews, TypeOK, ViewTypeOK
<1>10. ASSUME NEW v \in Views, NEW polled \in BOOLEAN, VisitView(v, polled)
       PROVE  PhaseOK'
  BY <1>10 DEF VisitView, DetectChangesInView
<1>11. CASE ViewReturns
  BY <1>11 DEF ViewReturns
<1>12. ASSUME NEW polled \in BOOLEAN, ViewRetries(polled)
       PROVE  PhaseOK'
  BY <1>12 DEF ViewRetries, DetectChangesInView
<1>13. CASE ViewsDone
  BY <1>13 DEF ViewsDone
<1>14. CASE AfterViews
  BY <1>14 DEF AfterViews, TypeOK, HookTypeOK
<1>15. ASSUME NEW h \in Hooks, RunHook(h)
       PROVE  PhaseOK'
  BY <1>15 DEF RunHook
<1>16. ASSUME NEW throws \in BOOLEAN, HookReturns(throws)
       PROVE  PhaseOK'
  BY <1>16 DEF HookReturns
<1>17. CASE HooksDone
  BY <1>17 DEF HooksDone
<1>18. CASE UNCHANGED vars
  BY <1>18 DEF vars
<1> QED
  BY <1>1, <1>2, <1>3, <1>4, <1>5, <1>6, <1>8, <1>9, <1>10, <1>11, <1>12, <1>13, <1>14,
     <1>15, <1>16, <1>17, <1>18 DEF Next, System

----------------------------------------------------------------------------
(* Steps of a tick that neither schedule nor end anything. *)

InnerStep ==
    \/ EffectReads \/ SynchronizeOnce \/ RunEffect \/ FlushDone \/ CheckViews
    \/ ViewReturns \/ ViewsDone \/ AfterViews \/ HooksDone
    \/ \E v \in Views, polled \in BOOLEAN : VisitView(v, polled)
    \/ \E h \in Hooks : RunHook(h)
    \/ \E b \in BOOLEAN : HookReturns(b) \/ EffectReturns(b) \/ ViewRetries(b)

\* The steps, those inside a tick grouped.
LEMMA NextCases ==
    ASSUME [Next]_vars
    PROVE  \/ User \/ ManualTick \/ FireCallback \/ ResetMicrotaskScheduler
           \/ InnerStep
           \/ FinishTick \/ ViewThrows \/ ViewGivesUp
           \/ \E reads \in BOOLEAN : EffectThrows(reads)
           \/ UNCHANGED vars
<1>1. CASE \E reads \in BOOLEAN : EffectReturns(reads) \/ EffectThrows(reads)
  BY <1>1 DEF InnerStep
<1>2. CASE \E v \in Views, polled \in BOOLEAN : VisitView(v, polled)
  BY <1>2 DEF InnerStep
<1>3. CASE \E polled \in BOOLEAN : ViewRetries(polled)
  BY <1>3 DEF InnerStep
<1>4. CASE \E h \in Hooks : RunHook(h)
  BY <1>4 DEF InnerStep
<1>5. CASE \E throws \in BOOLEAN : HookReturns(throws)
  BY <1>5 DEF InnerStep
<1>6. CASE \/ EffectReads \/ SynchronizeOnce \/ RunEffect \/ FlushDone \/ CheckViews
           \/ ViewReturns \/ ViewsDone \/ AfterViews \/ HooksDone
  BY <1>6 DEF InnerStep
<1> QED
  BY <1>1, <1>2, <1>3, <1>4, <1>5, <1>6 DEF Next, System

\* Inside a tick the scheduler and the pending tasks are left alone.
LEMMA InnerStepScheduler ==
    ASSUME InnerStep
    PROVE  UNCHANGED <<schedulerVars, taskVars, ticker, destroyed, failed>>
BY DEF InnerStep, EffectReads, SynchronizeOnce, RunEffect, FlushDone, CheckViews, ViewReturns,
   ViewsDone, AfterViews, HooksDone, VisitView, ViewRetries, RunHook, HookReturns,
   EffectReturns, tickVars

\* The user steps that notify the scheduler, and those that leave it alone.
LEMMA UserNotifies ==
    ASSUME User
    PROVE  /\ UNCHANGED tickVars
           /\ \/ DestroyApp
              \/ \E t \in UserTasks : \/ AddPendingTask(t)
                                      \/ RemovePendingTask(t)
                                      \/ RemoveInternalTask(t)
              \/ \E S : Notify(S)
              \/ UNCHANGED <<dirtyFlags, deferredDirtyFlags, destroyed, schedulerVars, taskVars>>
BY DEF User, MarkForCheck, SetTemplateSignal, AttachView, DetachView,
   SetEffectSignal, CreateEffect, DestroyEffect, RegisterHook, UnregisterHook,
   AddPendingTask, RemovePendingTask, RemoveInternalTask, DestroyApp

----------------------------------------------------------------------------
(* The tasks of the scheduler. *)

\* notify() adds a task exactly when it schedules.
LEMMA NotifyTasks ==
    ASSUME NoLeakedTask, NEW S, Notify(S), UNCHANGED ticker
    PROVE  NoLeakedTask'
BY DEF NoLeakedTask, Notify, ShouldScheduleTick, AddTask, taskVars

\* A tick releases its tasks whichever way it ends.
LEMMA EndTickTasks ==
    ASSUME PhaseOK, NoLeakedTask, phase # "idle", UNCHANGED destroyed,
           NEW error \in BOOLEAN, EndTick(error)
    PROVE  NoLeakedTask'
<1> USE DEF NoLeakedTask, PhaseOK, Idle, EndTick
<1>1. CASE ticker = "scheduler" /\ Cleanup({}) /\ useMicrotaskScheduler' = TRUE
  BY <1>1 DEF Cleanup, RemoveTasks
<1>2. CASE ticker = "scheduler" /\ Cleanup({"tick"}) /\ UNCHANGED useMicrotaskScheduler
  BY <1>2 DEF Cleanup, RemoveTasks
<1>3. CASE ticker = "manual" /\ ~destroyed /\ Cleanup({}) /\ UNCHANGED useMicrotaskScheduler
  BY <1>3 DEF Cleanup, RemoveTasks
<1>4. CASE ticker = "manual" /\ destroyed /\ UNCHANGED <<schedulerVars, taskVars>>
  BY <1>4 DEF schedulerVars, taskVars
<1> QED
  BY <1>1, <1>2, <1>3, <1>4

\* Every step keeps the scheduler's task ids and what they stand for together.
LEMMA TasksNext ==
    ASSUME ConstantsAssumption, TypeOK, PhaseOK, NoLeakedTask, [Next]_vars
    PROVE  NoLeakedTask'
<1> USE DEF NoLeakedTask
<1>1. CASE User
  <2> USE <1>1, UserNotifies DEF tickVars
  <2>1. CASE DestroyApp
    BY <2>1 DEF DestroyApp
  <2>2. ASSUME NEW t \in UserTasks, AddPendingTask(t)
        PROVE  NoLeakedTask'
    BY <2>2 DEF AddPendingTask, AddTask, schedulerVars, ConstantsAssumption
  <2>3. ASSUME NEW t \in UserTasks, RemovePendingTask(t)
        PROVE  NoLeakedTask'
    <3>1. t \notin {"render", "tick"}
      BY DEF ConstantsAssumption
    <3>2. CASE ShouldScheduleTick
      BY <2>3, <3>1, <3>2 DEF RemovePendingTask, ShouldScheduleTick, tickVars
    <3>3. CASE ~ShouldScheduleTick
      <4>1. /\ UNCHANGED <<pendingRender, callback, useMicrotaskScheduler, destroyed, ticker>>
            /\ pendingTasks' = pendingTasks \ {t}
            /\ hasPendingTasks' = (hasPendingTasks /\ pendingTasks \ {t} # {})
        BY <2>3, <3>3 DEF RemovePendingTask, RemoveTasks, tickVars
      <4> QED
        BY <3>1, <4>1
    <3> QED
      BY <3>2, <3>3
  <2>4. ASSUME NEW t \in UserTasks, RemoveInternalTask(t)
        PROVE  NoLeakedTask'
    BY <2>4 DEF RemoveInternalTask, RemoveTasks, schedulerVars, ConstantsAssumption
  <2>5. ASSUME NEW S, Notify(S)
        PROVE  NoLeakedTask'
    BY <2>5, NotifyTasks
  <2>6. CASE UNCHANGED <<dirtyFlags, deferredDirtyFlags, destroyed, schedulerVars, taskVars>>
    BY <2>6 DEF schedulerVars, taskVars
  <2> QED
    BY <2>1, <2>2, <2>3, <2>4, <2>5, <2>6
<1>2. CASE ManualTick
  BY <1>2 DEF ManualTick, BeginTick, PhaseOK, schedulerVars, taskVars
<1>3. CASE FireCallback
  <2>1. CASE dirtyFlags = {}
    BY <1>3, <2>1 DEF FireCallback, PhaseOK, Cleanup, RemoveTasks, tickVars
  <2>2. CASE dirtyFlags # {}
    BY <1>3, <2>2 DEF FireCallback, BeginTick, PhaseOK, AddTask
  <2> QED
    BY <2>1, <2>2
<1>4. CASE ResetMicrotaskScheduler
  BY <1>4 DEF ResetMicrotaskScheduler, RemoveTasks, PhaseOK, tickVars
<1>5. CASE InnerStep
  BY <1>5, InnerStepScheduler DEF schedulerVars, taskVars
<1>6. CASE FinishTick
  BY <1>6, EndTickTasks DEF FinishTick
<1>7. CASE ViewThrows \/ ViewGivesUp
  BY <1>7, EndTickTasks DEF ViewThrows, ViewGivesUp
<1>8. CASE \E reads \in BOOLEAN : EffectThrows(reads)
  BY <1>8, EndTickTasks DEF EffectThrows
<1>9. CASE UNCHANGED vars
  BY <1>9 DEF vars, schedulerVars, taskVars, tickVars
<1> QED
  BY <1>1, <1>2, <1>3, <1>4, <1>5, <1>6, <1>7, <1>8, <1>9, NextCases

----------------------------------------------------------------------------
(* Effects are flushed. *)

\* Every step keeps the queue of effects covered.
LEMMA EffectsNext ==
    ASSUME TypeOK, PhaseOK, FlagsCoverEffects, [Next]_vars
    PROVE  FlagsCoverEffects'
<1> USE DEF FlagsCoverEffects
<1>1. CASE User
  <2>1. UNCHANGED <<failed, phase>>
    BY <1>1, UserNotifies DEF tickVars
  <2>2. CASE UNCHANGED queue
    <3>1. dirtyFlags \subseteq dirtyFlags'
      BY <1>1, UserNotifies DEF DestroyApp, AddPendingTask, RemovePendingTask,
         RemoveInternalTask, Notify
    <3> QED
      BY <2>1, <2>2, <3>1
  <2>3. CASE Notify({"RootEffect"})
    <3>1. "RootEffects" \in dirtyFlags'
      BY <2>3 DEF Notify, FlagOf
    <3> QED
      BY <2>1, <3>1
  <2> QED
    BY <1>1, <2>2, <2>3 DEF User, MarkForCheck, SetTemplateSignal, AttachView, DetachView,
       SetEffectSignal, CreateEffect, DestroyEffect, RegisterHook, UnregisterHook,
       AddPendingTask, RemovePendingTask, RemoveInternalTask, DestroyApp, effectVars
<1>2. CASE ManualTick \/ FireCallback \/ ResetMicrotaskScheduler
  BY <1>2 DEF ManualTick, FireCallback, ResetMicrotaskScheduler, BeginTick, PhaseOK, Idle,
     effectVars, tickVars
<1>3. ASSUME NEW error \in BOOLEAN, EndTick(error), UNCHANGED queue,
             (phase = "loop" /\ UNCHANGED dirtyFlags) \/ error = TRUE
      PROVE  FlagsCoverEffects'
  BY <1>3 DEF EndTick
<1>4. CASE FinishTick
  BY <1>3, <1>4 DEF FinishTick, effectVars
<1>5. CASE ViewThrows \/ ViewGivesUp \/ \E reads \in BOOLEAN : EffectThrows(reads)
  BY <1>3, <1>5 DEF ViewThrows, ViewGivesUp, EffectThrows, effectVars
<1>6. CASE SynchronizeOnce
  BY <1>6 DEF SynchronizeOnce, effectVars
<1>7. CASE RunEffect \/ EffectReads \/ FlushDone \/ \E reads \in BOOLEAN : EffectReturns(reads)
  BY <1>7 DEF RunEffect, EffectReads, FlushDone, EffectReturns, effectVars, tickVars
<1>8. CASE CheckViews \/ ViewsDone \/ AfterViews \/ HooksDone
  BY <1>8 DEF CheckViews, ViewsDone, AfterViews, HooksDone, Synced, ViewTreeAny, effectVars
<1>9. CASE \/ \E v \in Views, polled \in BOOLEAN : VisitView(v, polled)
           \/ \E h \in Hooks : RunHook(h)
           \/ \E throws \in BOOLEAN : HookReturns(throws)
           \/ ViewReturns
  BY <1>9 DEF VisitView, RunHook, HookReturns, ViewReturns, effectVars
<1>10. CASE \E polled \in BOOLEAN : ViewRetries(polled)
  BY <1>10 DEF ViewRetries, effectVars
<1>11. CASE UNCHANGED vars
  BY <1>11 DEF vars, effectVars, tickVars
<1> QED
  BY <1>1, <1>2, <1>4, <1>5, <1>6, <1>7, <1>8, <1>9, <1>10, <1>11 DEF Next, System

----------------------------------------------------------------------------
(* Views are refreshed. *)

\* The marker for "no callback" is no view.
LEMMA NoneIsNoView ==
    ASSUME ConstantsAssumption
    PROVE  None \notin Views
BY DEF ConstantsAssumption

\* A step that keeps the views' flags and adds no attached view can only break
\* FlagsCoverViews by clearing dirty flags or by leaving the views phase.
LEMMA ViewsUntouched ==
    ASSUME FlagsCoverViews,
           viewFlags' = viewFlags, attached' \subseteq attached,
           UNCHANGED <<phase, current, todo>> \/ (phase # "views" /\ phase' # "views"),
           dirtyFlags \cap ViewTreeAny \subseteq dirtyFlags'
    PROVE  FlagsCoverViews'
BY DEF FlagsCoverViews, RequiresRefresh

\* A view flag covers every view.
LEMMA FlaggedViews ==
    ASSUME "ViewTreeTraversal" \in dirtyFlags' \/ "ViewTreeCheck" \in dirtyFlags'
    PROVE  FlagsCoverViews'
BY DEF FlagsCoverViews, ViewTreeAny

\* syncDirtyFlagsWithViews makes the flags cover the views.
LEMMA SyncedViews ==
    ASSUME NEW flags, dirtyFlags' = Synced(flags), UNCHANGED <<viewFlags, attached>>,
           phase' # "views"
    PROVE  FlagsCoverViews'
BY DEF FlagsCoverViews, Synced, SomeViewRequiresRefresh, RequiresRefresh, ViewTreeAny

\* notify() only adds flags.
LEMMA NotifyFlags ==
    ASSUME NEW S, Notify(S)
    PROVE  /\ dirtyFlags \subseteq dirtyFlags'
           /\ "MarkForCheck" \in S => "ViewTreeCheck" \in dirtyFlags'
           /\ "MarkAncestorsForTraversal" \in S => "ViewTreeTraversal" \in dirtyFlags'
BY DEF Notify, FlagOf

\* Every step keeps the views that require refresh covered.
LEMMA ViewsNext ==
    ASSUME ConstantsAssumption, TypeOK, PhaseOK, FlagsCoverViews, [Next]_vars
    PROVE  FlagsCoverViews'
<1> USE NoneIsNoView
<1>1. CASE User
  <2>1. UNCHANGED <<phase, current, todo>>
    BY <1>1, UserNotifies DEF tickVars
  <2>2. CASE \E v \in Views : MarkForCheck(v) \/ SetTemplateSignal(v)
    <3>1. \/ Notify({"MarkForCheck"})
          \/ Notify({"MarkAncestorsForTraversal"})
      BY <2>2 DEF MarkForCheck, SetTemplateSignal
    <3> QED
      BY <3>1, NotifyFlags, FlaggedViews
  <2>3. ASSUME NEW v \in Views, NEW isDirty \in BOOLEAN, AttachView(v, isDirty)
        PROVE  FlagsCoverViews'
    <3> DEFINE flags == viewFlags[v] \cup (IF isDirty THEN {"Dirty"} ELSE {})
               marked == flags \cup (IF "Dirty" \in flags THEN {"RefreshView"} ELSE {})
    <3>1. CASE marked # {}
      <4>1. Notify({"ViewAttached"} \cup {"MarkAncestorsForTraversal"})
        BY <2>3, <3>1 DEF AttachView
      <4> QED
        BY <4>1, NotifyFlags, FlaggedViews
    <3>2. CASE marked = {}
      <4>1. /\ viewFlags' = [viewFlags EXCEPT ![v] = {}]
            /\ attached' = attached \cup {v}
            /\ Notify({"ViewAttached"} \cup {})
        BY <2>3, <3>2 DEF AttachView
      <4>2. dirtyFlags \subseteq dirtyFlags'
        BY <4>1, NotifyFlags
      <4> QED
        BY <2>1, <4>1, <4>2 DEF FlagsCoverViews, RequiresRefresh, TypeOK, ViewTypeOK
    <3> QED
      BY <3>1, <3>2
  <2>4. CASE /\ UNCHANGED viewFlags /\ attached' \subseteq attached
             /\ dirtyFlags \subseteq dirtyFlags'
    BY <2>1, <2>4, ViewsUntouched
  <2>5. \/ \E v \in Views : MarkForCheck(v) \/ SetTemplateSignal(v)
        \/ \E v \in Views, isDirty \in BOOLEAN : AttachView(v, isDirty)
        \/ UNCHANGED viewFlags /\ attached' \subseteq attached
    BY <1>1 DEF User, DetachView, SetEffectSignal, CreateEffect, DestroyEffect, RegisterHook,
       UnregisterHook, AddPendingTask, RemovePendingTask, RemoveInternalTask, DestroyApp,
       viewVars
  <2>6. dirtyFlags \subseteq dirtyFlags'
    BY <1>1, UserNotifies, NotifyFlags DEF DestroyApp, AddPendingTask, RemovePendingTask,
       RemoveInternalTask
  <2> QED
    BY <2>2, <2>3, <2>4, <2>5, <2>6
<1>2. CASE ManualTick \/ FireCallback \/ ResetMicrotaskScheduler
  <2>1. /\ UNCHANGED <<viewFlags, attached>>
        /\ phase # "views" /\ phase' # "views"
        /\ dirtyFlags \subseteq dirtyFlags'
    BY <1>2 DEF ManualTick, FireCallback, ResetMicrotaskScheduler, BeginTick, Idle, viewVars,
       tickVars
  <2> QED
    BY <2>1, ViewsUntouched
<1>3. CASE FinishTick \/ \E reads \in BOOLEAN : EffectThrows(reads)
  <2>1. /\ UNCHANGED <<viewFlags, attached, dirtyFlags>>
        /\ phase # "views" /\ phase' # "views"
    BY <1>3 DEF FinishTick, EffectThrows, EndTick, viewVars
  <2> QED
    BY <2>1, ViewsUntouched
<1>4. CASE ViewThrows
  BY <1>4, FlaggedViews DEF ViewThrows
<1>5. CASE ViewGivesUp
  <2>1. /\ phase = "views" /\ current \in Views /\ current \notin todo
        /\ RequiresRefresh(viewFlags, current)
        /\ UNCHANGED dirtyFlags
    BY <1>5 DEF ViewGivesUp, PhaseOK
  <2>2. dirtyFlags \cap ViewTreeAny # {}
    BY <2>1 DEF FlagsCoverViews
  <2> QED
    BY <2>1, <2>2 DEF FlagsCoverViews
<1>6. CASE \/ EffectReads \/ RunEffect \/ FlushDone \/ SynchronizeOnce
           \/ \E reads \in BOOLEAN : EffectReturns(reads)
           \/ \E h \in Hooks : RunHook(h)
           \/ \E throws \in BOOLEAN : HookReturns(throws)
  <2>1. /\ UNCHANGED <<viewFlags, attached>>
        /\ phase # "views" /\ phase' # "views"
        /\ dirtyFlags \cap ViewTreeAny \subseteq dirtyFlags'
    BY <1>6 DEF EffectReads, RunEffect, FlushDone, SynchronizeOnce, EffectReturns, RunHook,
       HookReturns, viewVars, tickVars, ViewTreeAny
  <2> QED
    BY <2>1, ViewsUntouched
<1>7. CASE CheckViews
  BY <1>7 DEF CheckViews, FlagsCoverViews, RequiresRefresh, PhaseOK, viewVars
<1>8. ASSUME NEW v \in Views, NEW polled \in BOOLEAN, VisitView(v, polled)
      PROVE  FlagsCoverViews'
  <2>1. /\ phase = "views" /\ current = None /\ UNCHANGED <<dirtyFlags, attached, phase>>
        /\ todo' = todo \ {v} /\ current' \in {None, v}
        /\ \A w \in Views \ {v} : viewFlags'[w] = viewFlags[w]
        /\ ~RequiresRefresh(viewFlags', v)
    BY <1>8 DEF VisitView, DetectChangesInView, RequiresRefresh, TypeOK, ViewTypeOK
  <2> QED
    BY <2>1 DEF FlagsCoverViews, RequiresRefresh
<1>9. CASE ViewReturns
  <2>1. /\ phase = "views" /\ current \in Views /\ UNCHANGED <<dirtyFlags, attached, phase, todo>>
        /\ current' = None
        /\ \A w \in Views : RequiresRefresh(viewFlags', w) => RequiresRefresh(viewFlags, w)
    BY <1>9 DEF ViewReturns, Refreshed, RequiresRefresh, PhaseOK, TypeOK, ViewTypeOK
  <2> QED
    BY <2>1 DEF FlagsCoverViews
<1>10. ASSUME NEW polled \in BOOLEAN, ViewRetries(polled)
       PROVE  FlagsCoverViews'
  <2>1. /\ phase = "views" /\ current \in Views /\ UNCHANGED <<dirtyFlags, attached, phase, todo>>
        /\ current' \in {None, current}
        /\ \A w \in Views : RequiresRefresh(viewFlags', w) => RequiresRefresh(viewFlags, w)
    BY <1>10 DEF ViewRetries, DetectChangesInView, Refreshed, RequiresRefresh, PhaseOK, TypeOK,
       ViewTypeOK
  <2> QED
    BY <2>1 DEF FlagsCoverViews
<1>11. CASE ViewsDone
  BY <1>11, SyncedViews DEF ViewsDone, viewVars
<1>12. CASE AfterViews
  <2>1. CASE "AfterRender" \in dirtyFlags
    BY <1>12, <2>1, ViewsUntouched DEF AfterViews, viewVars, ViewTreeAny
  <2>2. CASE "AfterRender" \notin dirtyFlags
    BY <1>12, <2>2, SyncedViews DEF AfterViews, viewVars
  <2> QED
    BY <2>1, <2>2
<1>13. CASE HooksDone
  BY <1>13, SyncedViews DEF HooksDone, viewVars
<1>14. CASE UNCHANGED vars
  BY <1>14, ViewsUntouched DEF vars, viewVars, tickVars
<1> QED
  BY <1>1, <1>2, <1>3, <1>4, <1>5, <1>6, <1>7, <1>8, <1>9, <1>10, <1>11, <1>12, <1>13, <1>14,
     NextCases DEF InnerStep
----------------------------------------------------------------------------
(* One pass of synchronize: effects, then views, then render hooks. *)

\* Every step keeps what a pass has achieved so far.
LEMMA PassNext ==
    ASSUME ConstantsAssumption, TypeOK, PhaseOK, FlagsCoverEffects, PassOK, [Next]_vars
    PROVE  PassOK'
<1> USE DEF PassOK
<1>1. CASE User
  <2>1. UNCHANGED tickVars
    BY <1>1, UserNotifies
  <2>2. phase \notin {"checkViews", "afterViews"}
    BY <1>1 DEF User, UserCodeRuns, Idle, PhaseOK, MarkForCheck, SetTemplateSignal, AttachView,
       DetachView, SetEffectSignal, CreateEffect, DestroyEffect, RegisterHook, UnregisterHook,
       AddPendingTask, RemovePendingTask, RemoveInternalTask, DestroyApp
  <2> QED
    BY <2>1, <2>2 DEF tickVars
<1>2. CASE ManualTick \/ FireCallback \/ ResetMicrotaskScheduler
  BY <1>2 DEF ManualTick, FireCallback, ResetMicrotaskScheduler, BeginTick, Idle, tickVars
<1>3. CASE FinishTick \/ ViewThrows \/ ViewGivesUp \/ \E reads \in BOOLEAN : EffectThrows(reads)
  BY <1>3 DEF FinishTick, ViewThrows, ViewGivesUp, EffectThrows, EndTick
<1>4. CASE SynchronizeOnce
  BY <1>4 DEF SynchronizeOnce, FlagsCoverEffects, effectVars
<1>5. CASE FlushDone
  BY <1>5 DEF FlushDone, effectVars
<1>6. CASE CheckViews
  BY <1>6 DEF CheckViews, effectVars
<1>7. CASE ViewsDone
  BY <1>7 DEF ViewsDone, FlagsCoverEffects, Synced, ViewTreeAny, effectVars
<1>8. CASE \/ EffectReads \/ RunEffect \/ AfterViews \/ HooksDone
           \/ \E reads \in BOOLEAN : EffectReturns(reads)
  BY <1>8 DEF EffectReads, RunEffect, AfterViews, HooksDone, EffectReturns, tickVars
<1>9. CASE \/ \E v \in Views, polled \in BOOLEAN : VisitView(v, polled)
           \/ \E h \in Hooks : RunHook(h)
           \/ \E b \in BOOLEAN : HookReturns(b) \/ ViewRetries(b)
           \/ ViewReturns
  BY <1>9 DEF VisitView, RunHook, HookReturns, ViewRetries, ViewReturns
<1>10. CASE UNCHANGED vars
  BY <1>10 DEF vars, effectVars, tickVars
<1> QED
  BY <1>1, <1>2, <1>3, <1>4, <1>5, <1>6, <1>7, <1>8, <1>9, <1>10, NextCases DEF InnerStep

----------------------------------------------------------------------------
(* No work is lost. *)

\* Steps inside a tick do not end it.
LEMMA InnerStepPhase ==
    ASSUME InnerStep
    PROVE  phase' # "idle"
BY DEF InnerStep, EffectReads, SynchronizeOnce, RunEffect, FlushDone, CheckViews, ViewReturns,
   ViewsDone, AfterViews, HooksDone, VisitView, ViewRetries, RunHook, HookReturns,
   EffectReturns, tickVars

\* At rest the dirty flags stand for the queue and for the views.
LEMMA FlagsTellWork ==
    ASSUME TypeOK', FlagsCoverEffects', FlagsCoverViews',
           phase' = "idle" /\ ~destroyed' /\ ~failed' /\ dirtyFlags' # {} => callback' # "none"
    PROVE  NoLostWork'
BY DEF TypeOK, ViewTypeOK, FlagsCoverEffects, FlagsCoverViews, NoLostWork, Idle,
   SomeViewRequiresRefresh, RequiresRefresh, ViewTreeAny

\* Every step keeps work at rest scheduled.
LEMMA WorkNext ==
    ASSUME PhaseOK, NoLeakedTask, NoLostWork, [Next]_vars,
           TypeOK', FlagsCoverEffects', FlagsCoverViews'
    PROVE  NoLostWork'
<1> SUFFICES ASSUME phase' = "idle", ~destroyed', ~failed', dirtyFlags' # {}
             PROVE  callback' # "none"
  BY FlagsTellWork
<1>1. CASE User
  <2>1. UNCHANGED tickVars
    BY <1>1, UserNotifies
  <2>2. ASSUME NEW S, Notify(S)
        PROVE  callback' # "none"
    BY <2>1, <2>2 DEF Notify, ShouldScheduleTick, NoLeakedTask, PhaseOK, Idle, tickVars
  <2>3. CASE DestroyApp
    BY <2>3 DEF DestroyApp
  <2>4. CASE \E t \in UserTasks : \/ AddPendingTask(t) \/ RemovePendingTask(t)
                                  \/ RemoveInternalTask(t)
    <3>1. UNCHANGED <<dirtyFlags, destroyed>> /\ (callback' = callback \/ callback' # "none")
      BY <2>4 DEF AddPendingTask, RemovePendingTask, RemoveInternalTask, schedulerVars
    <3> QED
      BY <2>1, <3>1 DEF NoLostWork, Idle, tickVars
  <2>5. CASE UNCHANGED <<dirtyFlags, deferredDirtyFlags, destroyed, schedulerVars, taskVars>>
    BY <2>1, <2>5 DEF NoLostWork, Idle, tickVars, schedulerVars
  <2> QED
    BY <1>1, <2>2, <2>3, <2>4, <2>5, UserNotifies
<1>2. CASE ManualTick \/ FireCallback
  BY <1>2 DEF ManualTick, FireCallback, BeginTick
<1>3. CASE ResetMicrotaskScheduler
  BY <1>3 DEF ResetMicrotaskScheduler, NoLostWork, Idle, tickVars
<1>4. CASE InnerStep
  BY <1>4, InnerStepPhase
<1>5. CASE FinishTick \/ ViewThrows \/ ViewGivesUp \/ \E reads \in BOOLEAN : EffectThrows(reads)
  BY <1>5 DEF FinishTick, ViewThrows, ViewGivesUp, EffectThrows, EndTick
<1>6. CASE UNCHANGED vars
  BY <1>6 DEF vars, NoLostWork, Idle, tickVars, schedulerVars
<1> QED
  BY <1>1, <1>2, <1>3, <1>4, <1>5, <1>6, NextCases

----------------------------------------------------------------------------
(* The queue of the effect scheduler. *)

Elements(s) == {s[i] : i \in DOMAIN s}
Distinct(s) == \A i, j \in DOMAIN s : s[i] = s[j] => i = j

\* The queue holds the dirty effects, once each; effects that are dirty, running
\* or connected exist, so that creating one queues it for the first time.
QueueOK ==
    /\ Elements(queue) = dirty
    /\ Distinct(queue)
    /\ changed \subseteq dirty \cap connected
    /\ dirty \cup connected \subseteq created
    /\ phase = "effects" => current \in created \cup {None}

\* Enqueuing an effect that is not in the queue.
LEMMA Enqueued ==
    ASSUME NEW S, NEW s \in Seq(S), NEW e \in S, e \notin Elements(s), Distinct(s)
    PROVE  /\ Elements(Append(s, e)) = Elements(s) \cup {e}
           /\ Distinct(Append(s, e))
<1>1. /\ Append(s, e) \in Seq(S) /\ Len(Append(s, e)) = Len(s) + 1
      /\ \A i \in 1..Len(s) : Append(s, e)[i] = s[i]
      /\ Append(s, e)[Len(s) + 1] = e
  BY AppendProperties
<1>2. /\ DOMAIN s = 1..Len(s) /\ Len(s) \in Nat
      /\ DOMAIN Append(s, e) = 1..(Len(s) + 1)
  BY <1>1, LenProperties
<1>3. Elements(Append(s, e)) = Elements(s) \cup {e}
  BY <1>1, <1>2 DEF Elements
<1>4. ASSUME NEW i \in 1..(Len(s) + 1), NEW j \in 1..(Len(s) + 1),
             Append(s, e)[i] = Append(s, e)[j]
      PROVE  i = j
  <2>1. \A k \in 1..Len(s) : s[k] # e
    BY <1>2 DEF Elements
  <2>2. CASE i \in 1..Len(s) /\ j \in 1..Len(s)
    BY <1>1, <1>2, <1>4, <2>2 DEF Distinct
  <2>3. CASE ~(i \in 1..Len(s) /\ j \in 1..Len(s))
    <3>1. i = Len(s) + 1 \/ j = Len(s) + 1
      BY <1>2, <2>3
    <3>2. (i \in 1..Len(s) => Append(s, e)[i] # e) /\ (j \in 1..Len(s) => Append(s, e)[j] # e)
      BY <1>1, <2>1
    <3>3. (i \in 1..Len(s) \/ i = Len(s) + 1) /\ (j \in 1..Len(s) \/ j = Len(s) + 1)
      BY <1>2
    <3> QED
      BY <1>1, <1>4, <3>1, <3>2, <3>3
  <2> QED
    BY <2>2, <2>3
<1> QED
  BY <1>2, <1>3, <1>4 DEF Distinct

\* Dequeuing the first effect leaves the others.
LEMMA Dequeued ==
    ASSUME NEW S, NEW s \in Seq(S), s # <<>>, Distinct(s)
    PROVE  /\ Head(s) \in Elements(s)
           /\ Elements(Tail(s)) = Elements(s) \ {Head(s)}
           /\ Distinct(Tail(s))
<1>1. /\ Tail(s) \in Seq(S) /\ Head(s) = s[1]
      /\ Len(Tail(s)) = Len(s) - 1
      /\ \A i \in 1..Len(Tail(s)) : Tail(s)[i] = s[i + 1]
  BY HeadTailProperties
<1>2. /\ DOMAIN s = 1..Len(s) /\ Len(s) \in Nat /\ Len(s) # 0
      /\ DOMAIN Tail(s) = 1..(Len(s) - 1)
  BY <1>1, LenProperties, EmptySeq
<1>3. Head(s) \in Elements(s)
  BY <1>1, <1>2 DEF Elements
<1>4. ASSUME NEW x \in Elements(Tail(s))
      PROVE  x \in Elements(s) \ {Head(s)}
  <2>1. PICK i \in 1..(Len(s) - 1) : x = Tail(s)[i]
    BY <1>2 DEF Elements
  <2>2. x = s[i + 1] /\ i + 1 \in 1..Len(s) /\ i + 1 # 1 /\ 1 \in 1..Len(s)
    BY <1>1, <1>2, <2>1
  <2>3. x # s[1]
    BY <1>2, <2>2 DEF Distinct
  <2> QED
    BY <1>1, <1>2, <2>2, <2>3 DEF Elements
<1>5. ASSUME NEW x \in Elements(s), x # Head(s)
      PROVE  x \in Elements(Tail(s))
  <2>1. PICK i \in 1..Len(s) : x = s[i]
    BY <1>2 DEF Elements
  <2>2. i - 1 \in 1..(Len(s) - 1) /\ Tail(s)[i - 1] = x
    BY <1>1, <1>2, <1>5, <2>1
  <2> QED
    BY <1>2, <2>2 DEF Elements
<1>6. Distinct(Tail(s))
  <2> SUFFICES ASSUME NEW i \in 1..(Len(s) - 1), NEW j \in 1..(Len(s) - 1),
                      Tail(s)[i] = Tail(s)[j]
               PROVE  i = j
    BY <1>2 DEF Distinct
  <2>1. s[i + 1] = s[j + 1] /\ i + 1 \in 1..Len(s) /\ j + 1 \in 1..Len(s)
    BY <1>1, <1>2
  <2>2. i + 1 = j + 1
    BY <1>2, <2>1 DEF Distinct
  <2> QED
    BY <2>2
<1> QED
  BY <1>3, <1>4, <1>5, <1>6

\* A sequence without repetitions is as long as its set of elements is large.
LEMMA DistinctLength ==
    ASSUME NEW S, NEW s \in Seq(S), Distinct(s)
    PROVE  Len(s) = Cardinality(Elements(s))
<1>1. DOMAIN s = 1..Len(s) /\ Len(s) \in Nat /\ s \in [1..Len(s) -> S]
  BY LenProperties
<1>2. s \in [1..Len(s) -> Elements(s)]
  BY <1>1 DEF Elements
<1>3. s \in Bijection(1..Len(s), Elements(s))
  <2>1. \A i, j \in 1..Len(s) : s[i] = s[j] => i = j
    BY <1>1 DEF Distinct
  <2>2. \A x \in Elements(s) : \E i \in 1..Len(s) : s[i] = x
    BY <1>1 DEF Elements
  <2> QED
    BY <1>1, <1>2, <2>1, <2>2 DEF Bijection, Injection, Surjection, IsInjective
<1>4. ExistsBijection(1..Len(s), Elements(s))
  BY <1>3 DEF ExistsBijection
<1>5. IsFiniteSet(1..Len(s)) /\ Cardinality(1..Len(s)) = Len(s)
  BY <1>1, FS_Interval, SMTT(30)
<1> QED
  BY <1>4, <1>5, FS_Bijection

\* Creating, writing to, running and destroying effects keep the queue in order.
LEMMA QueueNext ==
    ASSUME ConstantsAssumption, TypeOK, PhaseOK, QueueOK, [Next]_vars
    PROVE  QueueOK'
<1>1. queue \in Seq(Effects)
  BY DEF TypeOK, EffectTypeOK
<1>2. CASE UNCHANGED effectVars /\ (phase' = "effects" => current' \in {current, None} /\ phase = "effects")
  BY <1>2 DEF QueueOK, effectVars
<1>3. CASE SynchronizeOnce
  BY <1>3 DEF SynchronizeOnce, QueueOK, effectVars, PhaseOK
<1>4. ASSUME NEW e \in Effects, e \notin dirty, e \in created',
             queue' = Append(queue, e), dirty' = dirty \cup {e},
             changed' \subseteq changed \cup {e}, connected' = connected,
             e \in changed' => e \in connected,
             created \subseteq created', UNCHANGED tickVars
      PROVE  QueueOK'
  <2>1. Elements(queue') = dirty' /\ Distinct(queue')
    BY <1>1, <1>4, Enqueued DEF QueueOK
  <2>2. changed' \subseteq dirty' \cap connected' /\ dirty' \cup connected' \subseteq created'
    BY <1>4 DEF QueueOK
  <2> QED
    BY <1>4, <2>1, <2>2 DEF QueueOK, tickVars
<1>5. ASSUME UNCHANGED <<queue, dirty>>, changed' \subseteq dirty \cap connected',
             connected' \subseteq created, UNCHANGED created,
             phase' = "effects" => current' \in {current, None} /\ phase = "effects"
      PROVE  QueueOK'
  BY <1>5 DEF QueueOK
<1>6. CASE User
  <2>1. UNCHANGED tickVars
    BY <1>6, UserNotifies
  <2>2. ASSUME NEW e \in Effects, NEW real \in BOOLEAN, SetEffectSignal(e, real)
        PROVE  QueueOK'
    <3>1. e \in connected /\ e \in created /\ changed' \subseteq changed \cup {e}
          /\ UNCHANGED <<created, connected>>
      BY <2>2 DEF SetEffectSignal, QueueOK
    <3>2. CASE e \in dirty
      <4>1. UNCHANGED <<queue, dirty>>
        BY <2>2, <3>2 DEF SetEffectSignal
      <4>2. changed' \subseteq dirty \cap connected' /\ connected' \subseteq created
        BY <3>1, <3>2 DEF QueueOK
      <4> QED
        BY <1>5, <2>1, <3>1, <4>1, <4>2 DEF tickVars
    <3>3. CASE e \notin dirty
      <4>1. queue' = Append(queue, e) /\ dirty' = dirty \cup {e}
        BY <2>2, <3>3 DEF SetEffectSignal
      <4> QED
        BY <1>4, <2>1, <3>1, <3>3, <4>1
    <3> QED
      BY <3>2, <3>3
  <2>3. ASSUME NEW e \in Effects, CreateEffect(e)
        PROVE  QueueOK'
    <3>1. e \notin dirty /\ e \notin changed
      BY <2>3 DEF CreateEffect, QueueOK
    <3> QED
      BY <1>4, <2>1, <2>3, <3>1 DEF CreateEffect
  <2>4. CASE DestroyApp \/ \E e \in Effects : DestroyEffect(e)
    <3>1. /\ UNCHANGED <<queue, dirty, created>>
          /\ changed' \subseteq changed \cap connected' /\ connected' \subseteq connected
      BY <2>4 DEF DestroyApp, DestroyEffect, QueueOK
    <3>2. changed' \subseteq dirty \cap connected' /\ connected' \subseteq created
      BY <3>1 DEF QueueOK
    <3> QED
      BY <1>5, <2>1, <3>1, <3>2 DEF tickVars
  <2>5. CASE UNCHANGED effectVars
    BY <1>2, <2>1, <2>5 DEF tickVars
  <2> QED
    BY <1>6, <2>2, <2>3, <2>4, <2>5 DEF User, MarkForCheck, SetTemplateSignal, AttachView,
       DetachView, RegisterHook, UnregisterHook, AddPendingTask, RemovePendingTask,
       RemoveInternalTask
<1>7. CASE RunEffect
  <2> DEFINE e == Head(queue)
  <2>1. /\ queue # <<>> /\ queue' = Tail(queue) /\ dirty' = dirty \ {e}
        /\ changed' = changed \ {e} \/ (e \notin changed /\ changed' = changed)
        /\ current' \in {None, e} /\ UNCHANGED <<created, connected, phase>>
    BY <1>7 DEF RunEffect
  <2>2. e \in Elements(queue) /\ Elements(queue') = Elements(queue) \ {e} /\ Distinct(queue')
    BY <1>1, <2>1, Dequeued DEF QueueOK
  <2>3. current' \in created' \cup {None}
    BY <2>1, <2>2 DEF QueueOK
  <2> QED
    BY <2>1, <2>2, <2>3 DEF QueueOK
<1>8. CASE EffectReads
  BY <1>5, <1>8 DEF EffectReads, QueueOK, tickVars
<1>9. CASE \E reads \in BOOLEAN : EffectReturns(reads) \/ EffectThrows(reads)
  <2>1. /\ UNCHANGED <<queue, dirty, created>>
        /\ changed' \subseteq changed \cap connected' /\ connected' \subseteq connected
        /\ phase' = "effects" => current' = None /\ phase = "effects"
    BY <1>9 DEF EffectReturns, EffectThrows, EndTick, DropUnread, QueueOK
  <2>2. changed' \subseteq dirty \cap connected' /\ connected' \subseteq created
    BY <2>1 DEF QueueOK
  <2> QED
    BY <1>5, <2>1, <2>2
<1>10. CASE \/ ManualTick \/ FireCallback \/ ResetMicrotaskScheduler
            \/ FinishTick \/ ViewThrows \/ ViewGivesUp
  <2>1. UNCHANGED effectVars
    BY <1>10 DEF ManualTick, FireCallback, ResetMicrotaskScheduler, FinishTick, ViewThrows,
       ViewGivesUp
  <2>2. phase' # "effects" \/ UNCHANGED <<phase, current>>
    BY <1>10 DEF ManualTick, FireCallback, ResetMicrotaskScheduler, FinishTick, ViewThrows,
       ViewGivesUp, BeginTick, EndTick, tickVars
  <2> QED
    BY <1>2, <2>1, <2>2
<1>11. CASE \/ FlushDone \/ CheckViews \/ ViewReturns \/ ViewsDone \/ AfterViews \/ HooksDone
            \/ \E v \in Views, polled \in BOOLEAN : VisitView(v, polled)
            \/ \E h \in Hooks : RunHook(h)
            \/ \E b \in BOOLEAN : HookReturns(b) \/ ViewRetries(b)
  <2>1. UNCHANGED effectVars /\ phase' # "effects"
    BY <1>11 DEF FlushDone, CheckViews, ViewReturns, ViewsDone, AfterViews, HooksDone,
       VisitView, RunHook, HookReturns, ViewRetries
  <2> QED
    BY <1>2, <2>1
<1>12. CASE UNCHANGED vars
  BY <1>2, <1>12 DEF vars, tickVars
<1> QED
  BY <1>3, <1>6, <1>7, <1>8, <1>9, <1>10, <1>11, <1>12, NextCases DEF InnerStep

----------------------------------------------------------------------------
(* The theorems. *)

\* The invariant holds when the application is created.
LEMMA InitIInv ==
    ASSUME ConstantsAssumption, Init
    PROVE  IInv
<1>1. TypeOK
  <2>1. SchedulerTypeOK /\ HookTypeOK
    BY DEF Init, SchedulerTypeOK, HookTypeOK
  <2>2. EffectTypeOK
    BY DEF Init, EffectTypeOK
  <2>3. ViewTypeOK
    BY DEF Init, ViewTypeOK
  <2>4. TickTypeOK
    <3>1. runs = 0 /\ retries = 0 /\ todo = {} /\ current = None /\ failed = FALSE
      BY DEF Init
    <3>2. ticker = "none" /\ phase = "idle"
      BY DEF Init
    <3>3. 0 \in 0..MaxReruns /\ 0 \in 0..MaxRetries
      BY DEF ConstantsAssumption
    <3> QED
      BY <3>1, <3>2, <3>3 DEF TickTypeOK
  <2> QED
    BY <2>1, <2>2, <2>3, <2>4 DEF TypeOK
<1>2. PhaseOK /\ PassOK /\ FlagsCoverEffects
  BY DEF Init, PhaseOK, PassOK, FlagsCoverEffects, Idle
<1>3. FlagsCoverViews /\ NoLostWork
  BY DEF Init, FlagsCoverViews, NoLostWork, SomeViewRequiresRefresh, RequiresRefresh
<1>4. NoLeakedTask
  BY DEF Init, NoLeakedTask
<1> QED
  BY <1>1, <1>2, <1>3, <1>4 DEF IInv

\* The invariant is inductive.
LEMMA IInvNext ==
    ASSUME ConstantsAssumption, IInv, [Next]_vars
    PROVE  IInv'
<1>1. TypeOK' /\ PhaseOK'
  BY TypeNext, PhaseNext DEF IInv
<1>2. NoLeakedTask' /\ FlagsCoverEffects' /\ FlagsCoverViews' /\ PassOK'
  BY TasksNext, EffectsNext, ViewsNext, PassNext DEF IInv
<1>3. NoLostWork'
  BY <1>1, <1>2, WorkNext DEF IInv
<1> QED
  BY <1>1, <1>2, <1>3 DEF IInv

\* The inductive invariant holds in every reachable state of the scheduler, of
\* ApplicationRef.synchronize and of everything notify() is called from.
THEOREM Inductive == Spec => []IInv
BY InitIInv, IInvNext, ConstantsAssumption, PTL DEF Spec

\* The variables keep their types; in particular neither rerun counter of
\* synchronize and detectChangesInViewWhileDirty exceeds its limit.
THEOREM TypeCorrect == Spec => []TypeOK
<1>1. IInv => TypeOK
  BY DEF IInv
<1> QED
  BY <1>1, Inductive, PTL

\* The ids of pendingRenderTaskId and of the task tick() holds are never leaked
\* and never removed early, whatever re-enters notify() and however a tick ends.
THEOREM TasksNeverLeak == Spec => []NoLeakedTask
<1>1. IInv => NoLeakedTask
  BY DEF IInv
<1> QED
  BY <1>1, Inductive, PTL

\* dirtyFlags always leads the next pass of synchronizeOnce to the queued effects
\* and to the views that require refresh.
THEOREM FlagsCoverWork == Spec => []FlagsLeadToWork
<1>1. IInv => FlagsLeadToWork
  BY DEF IInv, FlagsLeadToWork
<1> QED
  BY <1>1, Inductive, PTL

\* When no tick runs, dirtiness left by anything but a failed tick has a tick
\* scheduled: notify() may rely on the running tick for all it only flags.
THEOREM WorkIsNeverLost == Spec => []NoLostWork
<1>1. IInv => NoLostWork
  BY DEF IInv
<1> QED
  BY <1>1, Inductive, PTL

\* AfterRenderImpl.execute starts only when no attached view requires refresh
\* and no effect is queued, failed ticks apart.
THEOREM HooksStartSettled == Spec => HooksSeeSettledViews
<1> DEFINE Step == phase # "hooks" /\ phase' = "hooks"
                     => ~SomeViewRequiresRefresh /\ (failed \/ queue = <<>>)
<1>1. ASSUME IInv, [Next]_vars
      PROVE  Step
  <2> SUFFICES ASSUME phase # "hooks", phase' = "hooks"
               PROVE  ~SomeViewRequiresRefresh /\ (failed \/ queue = <<>>)
    OBVIOUS
  <2>1. AfterViews
    BY <1>1, NextCases DEF InnerStep, User, ManualTick, FireCallback, ResetMicrotaskScheduler,
       FinishTick, ViewThrows, ViewGivesUp, EffectThrows, EndTick, BeginTick, vars, tickVars,
       MarkForCheck, SetTemplateSignal, AttachView, DetachView, SetEffectSignal, CreateEffect,
       DestroyEffect, RegisterHook, UnregisterHook, AddPendingTask, RemovePendingTask,
       RemoveInternalTask, DestroyApp, EffectReads, SynchronizeOnce, RunEffect, FlushDone,
       CheckViews, ViewReturns, ViewsDone, HooksDone, VisitView, ViewRetries, RunHook,
       HookReturns, EffectReturns
  <2>2. phase = "afterViews"
    BY <2>1 DEF AfterViews
  <2>3. dirtyFlags \cap ViewTreeAny = {} /\ (failed \/ queue = <<>>)
    BY <1>1, <2>2 DEF IInv, PassOK
  <2>4. ~SomeViewRequiresRefresh
    BY <1>1, <2>2, <2>3 DEF IInv, TypeOK, ViewTypeOK, FlagsCoverViews, SomeViewRequiresRefresh
  <2> QED
    BY <2>3, <2>4
<1>2. ASSUME IInv, [Next]_vars
      PROVE  [Step]_vars
  BY <1>1, <1>2
<1> QED
  BY <1>2, Inductive, PTL DEF Spec, HooksSeeSettledViews

\* flush() finds every dirty effect in its queue, once, and no notification is
\* lost to the early return for a consumer that is dirty already.
THEOREM QueueHoldsWhatIsDirty == Spec => []QueueHoldsDirtyEffects
<1>1. Init => QueueOK
  <2> SUFFICES ASSUME Init PROVE QueueOK
    OBVIOUS
  <2>1. Elements(queue) = {} /\ Distinct(queue)
    BY DEF Init, Elements, Distinct
  <2> QED
    BY <2>1 DEF Init, QueueOK
<1>2. IInv /\ QueueOK /\ [Next]_vars => QueueOK'
  BY QueueNext, ConstantsAssumption DEF IInv
<1>3. IInv /\ QueueOK => QueueHoldsDirtyEffects
  <2> SUFFICES ASSUME IInv, QueueOK PROVE QueueHoldsDirtyEffects
    OBVIOUS
  <2>1. queue \in Seq(Effects)
    BY DEF IInv, TypeOK, EffectTypeOK
  <2>2. Len(queue) = Cardinality(Elements(queue))
    BY <2>1, DistinctLength DEF QueueOK
  <2> QED
    BY <2>2 DEF QueueOK, QueueHoldsDirtyEffects, Elements
<1> QED
  BY <1>1, <1>2, <1>3, Inductive, PTL DEF Spec

\* A task removed through PendingTasks leaves the task of a tick behind: the one
\* notify() adds, or the one of the tick that is scheduled or running already.
THEOREM PublicRemovalAwaitsTick == Spec => PublicRemovalIsAsync
<1> DEFINE Step == \A t \in UserTasks :
                      RemovePendingTask(t) /\ ~destroyed /\ (ticker = "manual" => pendingRender)
                      => ~(hasPendingTasks /\ ~hasPendingTasks')
<1>1. ASSUME IInv
      PROVE  Step
  <2> SUFFICES ASSUME NEW t \in UserTasks, RemovePendingTask(t), ~destroyed,
                      ticker = "manual" => pendingRender, hasPendingTasks
               PROVE  hasPendingTasks'
    OBVIOUS
  <2>1. CASE ShouldScheduleTick
    BY <2>1 DEF RemovePendingTask
  <2>2. CASE ~ShouldScheduleTick
    <3>1. pendingRender
      BY <1>1, <2>2 DEF ShouldScheduleTick, IInv, NoLeakedTask, TypeOK, TickTypeOK
    <3>2. "render" \in pendingTasks \ {t}
      BY <1>1, <3>1, ConstantsAssumption DEF IInv, NoLeakedTask, ConstantsAssumption
    <3> QED
      BY <2>2, <3>2 DEF RemovePendingTask, RemoveTasks
  <2> QED
    BY <2>1, <2>2
<1>2. ASSUME IInv, [Next]_vars
      PROVE  [Step]_vars
  BY <1>1, <1>2
<1> QED
  BY <1>2, Inductive, PTL DEF Spec, PublicRemovalIsAsync

-----------------------------------------------------------------------------
(***************************************************************************)
(* ZonelessScheduler implements SchedulingContract: each step of the       *)
(* scheduler, of a tick and of user code maps to a step of the contract or *)
(* leaves its variables alone.  The steps rely on the inductive invariant. *)
(***************************************************************************)

\* The contract's variables are booleans.
LEMMA ContractTypes ==
    /\ TypeOK => WorkLeft \in BOOLEAN /\ hasPendingTasks \in BOOLEAN /\ failed \in BOOLEAN
    /\ TypeOK' => WorkLeft' \in BOOLEAN /\ hasPendingTasks' \in BOOLEAN /\ failed' \in BOOLEAN
BY DEF TypeOK, SchedulerTypeOK, TickTypeOK, WorkLeft

\* shouldScheduleTick and the task that notify() adds: a scheduled tick keeps the
\* application unstable, and without failures work at rest has one scheduled.
LEMMA ScheduledIsBusy ==
    ASSUME IInv
    PROVE  /\ callback # "none" => hasPendingTasks /\ ~destroyed
           /\ Idle /\ WorkLeft => callback # "none" \/ failed \/ destroyed
<1>1. callback # "none" => hasPendingTasks /\ ~destroyed
  BY DEF IInv, NoLeakedTask
<1>2. Idle /\ WorkLeft => callback # "none" \/ failed \/ destroyed
  BY DEF IInv, NoLostWork, WorkLeft
<1> QED
  BY <1>1, <1>2

\* What is scheduled and whether a tick runs, unchanged.
SameTick == /\ callback' # "none" <=> callback # "none"
            /\ UNCHANGED <<phase, failed, destroyed>>

\* Statements of user code within a tick.
LEMMA TickingSteps ==
    ASSUME ~Idle, SameTick, TypeOK'
    PROVE  Promise!Work
BY ContractTypes DEF SameTick, Promise!Work, Idle, TypeOK, SchedulerTypeOK, TickTypeOK, WorkLeft

\* What user code does to the scheduler: it destroys the application, handles its
\* tasks, notifies of new work, or leaves scheduler and work alone.
LEMMA UserWork ==
    ASSUME User
    PROVE  \/ DestroyApp
           \/ \E t \in UserTasks : \/ AddPendingTask(t)
                                   \/ RemovePendingTask(t)
                                   \/ RemoveInternalTask(t)
           \/ (\E S : Notify(S)) /\ dirtyFlags' # {}
           \/ UNCHANGED <<dirtyFlags, destroyed, schedulerVars, taskVars,
                          queue, attached, viewFlags>>
<1>1. ASSUME NEW v \in Views,
             \/ MarkForCheck(v) \/ SetTemplateSignal(v) \/ DetachView(v)
             \/ \E isDirty \in BOOLEAN : AttachView(v, isDirty)
      PROVE  (\E S : Notify(S)) /\ dirtyFlags' # {}
  <2> DEFINE NotifiesOf(s) == \E S : s \in S /\ Notify(S)
  <2>1. \/ NotifiesOf("MarkForCheck") \/ NotifiesOf("MarkAncestorsForTraversal")
        \/ NotifiesOf("ViewDetachedFromDOM") \/ NotifiesOf("ViewAttached")
    <3>1. CASE MarkForCheck(v) \/ SetTemplateSignal(v) \/ DetachView(v)
      BY <3>1 DEF MarkForCheck, SetTemplateSignal, DetachView
    <3>2. ASSUME NEW isDirty \in BOOLEAN, AttachView(v, isDirty)
          PROVE  NotifiesOf("ViewAttached")
      <4>1. PICK T : Notify({"ViewAttached"} \cup T)
        BY <3>2 DEF AttachView
      <4> QED
        BY <4>1
    <3> QED
      BY <1>1, <3>1, <3>2
  <2> QED
    BY <2>1 DEF Notify, FlagOf
<1>2. ASSUME NEW e \in Effects, CreateEffect(e) \/ \E real \in BOOLEAN : SetEffectSignal(e, real)
      PROVE  \/ (\E S : Notify(S)) /\ dirtyFlags' # {}
             \/ UNCHANGED <<dirtyFlags, destroyed, schedulerVars, taskVars,
                            queue, attached, viewFlags>>
  <2>1. CASE Notify({"RootEffect"})
    BY <2>1 DEF Notify, FlagOf
  <2>2. CASE ~Notify({"RootEffect"})
    BY <1>2, <2>2 DEF CreateEffect, SetEffectSignal, viewVars
  <2> QED
    BY <2>1, <2>2
<1>3. ASSUME NEW e \in Effects, DestroyEffect(e)
      PROVE  UNCHANGED <<dirtyFlags, destroyed, schedulerVars, taskVars,
                         queue, attached, viewFlags>>
  BY <1>3 DEF DestroyEffect, viewVars
<1>4. ASSUME NEW h \in Hooks, UnregisterHook(h) \/ \E isOnce \in BOOLEAN : RegisterHook(h, isOnce)
      PROVE  \/ (\E S : Notify(S)) /\ dirtyFlags' # {}
             \/ UNCHANGED <<dirtyFlags, destroyed, schedulerVars, taskVars,
                            queue, attached, viewFlags>>
  <2>1. CASE Notify({"RenderHook"})
    BY <2>1 DEF Notify, FlagOf
  <2>2. CASE ~Notify({"RenderHook"})
    BY <1>4, <2>2 DEF UnregisterHook, RegisterHook, viewVars, effectVars
  <2> QED
    BY <2>1, <2>2
<1> QED
  BY <1>1, <1>2, <1>3, <1>4 DEF User

\* User code at rest: a notification is a demand until the application is
\* destroyed, tasks only move its stability.
LEMMA IdleUserSteps ==
    ASSUME ConstantsAssumption, IInv, IInv', User, Idle
    PROVE  [Promise!ContractNext]_Promise!contractVars
<1> USE DEF Promise!ContractNext, Promise!contractVars
<1>1. /\ UNCHANGED <<ticker, phase, failed>> /\ Idle' /\ ticker = "none"
      /\ UNCHANGED Idle
  BY UserNotifies DEF tickVars, Idle, IInv, PhaseOK
<1>2. /\ WorkLeft \in BOOLEAN /\ hasPendingTasks \in BOOLEAN
      /\ WorkLeft' \in BOOLEAN /\ hasPendingTasks' \in BOOLEAN
      /\ destroyed \in BOOLEAN /\ destroyed' \in BOOLEAN
  BY ContractTypes DEF IInv, TypeOK, SchedulerTypeOK, WorkLeft
<1>3. CASE DestroyApp
  <2>1. Promise!Destroy
    BY <1>1, <1>2, <1>3 DEF DestroyApp, Promise!Destroy
  <2> QED
    BY <2>1
<1>4. ASSUME NEW S, Notify(S), dirtyFlags' # {}
      PROVE  Promise!Demand \/ Promise!Demolished
  <2>1. WorkLeft' = TRUE /\ UNCHANGED destroyed
    BY <1>4 DEF WorkLeft, Notify
  <2>2. CASE destroyed
    <3>1. UNCHANGED <<pendingRender, callback, hasPendingTasks>>
      BY <1>4, <2>2 DEF Notify, ShouldScheduleTick, taskVars
    <3> QED
      BY <1>1, <1>2, <2>1, <2>2, <3>1 DEF Promise!Demolished
  <2>3. CASE ~destroyed
    <3>1. callback' # "none"
      BY <1>1, <1>4, <2>3 DEF Notify, ShouldScheduleTick, IInv, NoLeakedTask
    <3>2. hasPendingTasks' = TRUE
      BY <1>2, <3>1 DEF IInv, NoLeakedTask
    <3> QED
      BY <1>1, <1>2, <2>1, <2>3, <3>1, <3>2 DEF Promise!Demand
  <2> QED
    BY <2>2, <2>3
<1>5. ASSUME UNCHANGED <<dirtyFlags, destroyed, schedulerVars, taskVars,
                         queue, attached, viewFlags>>
      PROVE  UNCHANGED Promise!contractVars
  <2>1. WorkLeft' = WorkLeft
    BY <1>5 DEF WorkLeft, SomeViewRequiresRefresh, RequiresRefresh
  <2> QED
    BY <1>1, <1>5, <2>1 DEF schedulerVars, taskVars
<1>6. ASSUME NEW t \in UserTasks,
             AddPendingTask(t) \/ RemovePendingTask(t) \/ RemoveInternalTask(t)
      PROVE  Promise!ChangeStability \/ Promise!Demand
  <2>1. WorkLeft' = WorkLeft /\ UNCHANGED destroyed
    <3>1. UNCHANGED <<dirtyFlags, queue, attached, viewFlags, destroyed>>
      BY <1>6 DEF AddPendingTask, RemovePendingTask, RemoveInternalTask, effectVars, viewVars
    <3> QED
      BY <3>1 DEF WorkLeft, SomeViewRequiresRefresh, RequiresRefresh
  <2>2. UNCHANGED callback \/ (ShouldScheduleTick /\ callback' # "none")
    BY <1>6 DEF AddPendingTask, RemovePendingTask, RemoveInternalTask, schedulerVars
  <2>3. CASE UNCHANGED callback
    <3>1. ~hasPendingTasks' /\ WorkLeft => failed \/ destroyed
      <4>1. ~hasPendingTasks' => callback = "none"
        BY <2>3 DEF IInv, NoLeakedTask
      <4> QED
        BY <4>1, ScheduledIsBusy
    <3> QED
      BY <1>1, <1>2, <2>1, <2>3, <3>1 DEF Promise!ChangeStability
  <2>4. CASE ShouldScheduleTick /\ callback' # "none"
    <3>1. ~destroyed /\ hasPendingTasks' = TRUE
      BY <1>2, <2>4 DEF ShouldScheduleTick, IInv, NoLeakedTask
    <3> QED
      BY <1>1, <1>2, <2>1, <2>4, <3>1 DEF Promise!Demand
  <2> QED
    BY <2>2, <2>3, <2>4
<1> QED
  BY <1>3, <1>4, <1>5, <1>6, UserWork

\* User code inside a callback of a tick.
LEMMA TickingUserSteps ==
    ASSUME IInv, IInv', User, ~Idle
    PROVE  Promise!Work \/ Promise!Destroy
<1>1. ticker # "none" /\ UNCHANGED tickVars
  BY UserNotifies DEF IInv, PhaseOK
<1>2. CASE DestroyApp
  <2>1. WorkLeft' \in BOOLEAN
    BY ContractTypes DEF IInv
  <2> QED
    BY <1>1, <1>2, <2>1 DEF DestroyApp, Promise!Destroy, tickVars, Idle
<1>3. CASE ~DestroyApp
  <2>1. UNCHANGED <<callback, destroyed>>
    BY <1>1, <1>3, UserWork DEF Notify, ShouldScheduleTick, AddPendingTask, RemovePendingTask,
       RemoveInternalTask, schedulerVars
  <2> QED
    BY <1>1, <2>1, TickingSteps DEF SameTick, IInv, tickVars
<1> QED
  BY <1>2, <1>3

\* The end of a tick, however it comes: cleanup() takes the scheduled tick with
\* it, and only a failed tick leaves work.
LEMMA EndSteps ==
    ASSUME IInv, IInv', ~Idle, NEW error \in BOOLEAN, EndTick(error), UNCHANGED destroyed
    PROVE  Promise!End
<1>1. Idle' /\ phase' = "idle"
  BY DEF EndTick, Idle
<1>2. callback' = "none"
  <2>1. ticker = "manual" /\ destroyed => callback = "none"
    BY DEF IInv, NoLeakedTask
  <2> QED
    BY <2>1 DEF EndTick, Cleanup, schedulerVars
<1>3. WorkLeft' => failed' \/ destroyed
  BY <1>1, <1>2 DEF IInv, NoLostWork, WorkLeft
<1>4. WorkLeft' \in BOOLEAN /\ hasPendingTasks' \in BOOLEAN /\ failed' \in BOOLEAN
  BY ContractTypes DEF IInv
<1> QED
  BY <1>1, <1>2, <1>3, <1>4 DEF Promise!End

\* Callbacks of the event loop, and a call of tick().
LEMMA LoopSteps ==
    ASSUME IInv, IInv', FireCallback \/ ManualTick \/ ResetMicrotaskScheduler
    PROVE  Promise!ContractNext
<1> USE DEF Promise!ContractNext
<1>1. /\ Idle /\ WorkLeft \in BOOLEAN /\ WorkLeft' \in BOOLEAN
      /\ hasPendingTasks \in BOOLEAN /\ hasPendingTasks' \in BOOLEAN
  BY ContractTypes DEF IInv, FireCallback, ManualTick, ResetMicrotaskScheduler
<1>2. UNCHANGED <<queue, attached, viewFlags, destroyed>>
  BY DEF FireCallback, ManualTick, ResetMicrotaskScheduler, effectVars, viewVars
<1>3. ASSUME UNCHANGED dirtyFlags
      PROVE  WorkLeft' = WorkLeft
  BY <1>2, <1>3 DEF WorkLeft, SomeViewRequiresRefresh, RequiresRefresh
<1>4. ASSUME NEW who, BeginTick(who)
      PROVE  WorkLeft' \in {WorkLeft, TRUE} /\ ~Idle' /\ UNCHANGED failed
  <2>1. ~Idle' /\ UNCHANGED failed
    BY <1>4 DEF BeginTick, Idle
  <2>2. WorkLeft => WorkLeft'
    BY <1>2, <1>4 DEF BeginTick, WorkLeft, SomeViewRequiresRefresh, RequiresRefresh
  <2> QED
    BY <1>1, <2>1, <2>2
<1>5. CASE FireCallback /\ dirtyFlags = {}
  <2>1. /\ Idle' /\ callback # "none" /\ callback' = "none"
        /\ UNCHANGED <<dirtyFlags, failed>>
    BY <1>5 DEF FireCallback, Cleanup, tickVars, Idle
  <2>2. ~WorkLeft \/ failed
    BY <1>1, <1>5 DEF IInv, TypeOK, ViewTypeOK, FlagsCoverEffects, FlagsCoverViews, WorkLeft,
       SomeViewRequiresRefresh, Idle
  <2> QED
    BY <1>1, <1>2, <1>3, <2>1, <2>2 DEF Promise!CallOff
<1>6. CASE FireCallback /\ dirtyFlags # {}
  <2>1. /\ callback # "none" /\ callback' = "none" /\ hasPendingTasks' = TRUE
        /\ BeginTick("scheduler")
    BY <1>6 DEF FireCallback, AddTask
  <2> QED
    BY <1>1, <1>2, <1>4, <2>1 DEF Promise!StartScheduled
<1>7. CASE ManualTick
  BY <1>1, <1>2, <1>4, <1>7 DEF ManualTick, Promise!StartManual, schedulerVars, taskVars
<1>8. CASE ResetMicrotaskScheduler
  <2>1. UNCHANGED <<dirtyFlags, callback, phase, failed>>
    BY <1>8 DEF ResetMicrotaskScheduler, tickVars
  <2>2. ~hasPendingTasks' /\ WorkLeft => failed \/ destroyed
    <3>1. ~hasPendingTasks' => callback = "none"
      BY <2>1 DEF IInv, NoLeakedTask
    <3> QED
      BY <1>1, <3>1, ScheduledIsBusy
  <2> QED
    BY <1>1, <1>2, <1>3, <2>1, <2>2 DEF Promise!ChangeStability, Idle
<1> QED
  BY <1>5, <1>6, <1>7, <1>8

\* Every step of the scheduler is one of the contract.
LEMMA ContractSteps ==
    ASSUME ConstantsAssumption, IInv, IInv', [Next]_vars
    PROVE  [Promise!ContractNext]_Promise!contractVars
<1>1. CASE User
  BY <1>1, IdleUserSteps, TickingUserSteps DEF Promise!ContractNext
<1>2. CASE FireCallback \/ ManualTick \/ ResetMicrotaskScheduler
  BY <1>2, LoopSteps
<1>3. CASE InnerStep
  <2>1. ~Idle
    BY <1>3 DEF InnerStep, EffectReads, SynchronizeOnce, RunEffect, FlushDone, CheckViews,
       ViewReturns, ViewsDone, AfterViews, HooksDone, VisitView, ViewRetries, RunHook,
       HookReturns, EffectReturns, Idle
  <2>2. /\ ~Idle' /\ UNCHANGED <<callback, failed, destroyed>>
        /\ WorkLeft' \in BOOLEAN /\ hasPendingTasks' \in BOOLEAN
    BY <1>3, InnerStepScheduler, InnerStepPhase, ContractTypes DEF IInv, schedulerVars, Idle
  <2> QED
    BY <2>1, <2>2 DEF Promise!Work, Promise!ContractNext
<1>4. CASE FinishTick \/ ViewThrows \/ ViewGivesUp \/ \E reads \in BOOLEAN : EffectThrows(reads)
  <2>1. ~Idle /\ UNCHANGED destroyed /\ \E error \in BOOLEAN : EndTick(error)
    BY <1>4 DEF FinishTick, ViewThrows, ViewGivesUp, EffectThrows, Idle
  <2> QED
    BY <2>1, EndSteps DEF Promise!ContractNext
<1>5. CASE UNCHANGED vars
  <2>1. UNCHANGED WorkLeft
    BY <1>5 DEF vars, effectVars, viewVars, WorkLeft, SomeViewRequiresRefresh, RequiresRefresh
  <2> QED
    BY <1>5, <2>1 DEF vars, schedulerVars, taskVars, tickVars, Promise!contractVars, Idle
<1> QED
  BY <1>1, <1>2, <1>3, <1>4, <1>5, NextCases

\* The scheduler keeps its contract: demanded work gets a tick, ticks that do not
\* fail leave none, and the application is stable only when there is none.
THEOREM ContractIsMet == Spec => MeetsContract
<1>1. Init => Promise!Start
  BY DEF Init, Promise!Start, WorkLeft, SomeViewRequiresRefresh, RequiresRefresh, Idle
<1>2. IInv /\ IInv' /\ [Next]_vars => [Promise!ContractNext]_Promise!contractVars
  BY ContractSteps, ConstantsAssumption
<1> QED
  BY <1>1, <1>2, Inductive, PTL DEF Spec, MeetsContract, Promise!Contract

\* The contract says when the application may become stable: outside of a tick
\* only with nothing left to synchronize, failures apart.  isStable may be
\* trusted by whoever waits for it.
THEOREM StabilityIsHonest == Spec => StableMeansSynchronized
<1> DEFINE Step == hasPendingTasks /\ ~hasPendingTasks' /\ phase' = "idle" /\ ~destroyed' /\ ~failed'
                     => /\ dirtyFlags' = {} /\ queue' = <<>>
                        /\ ~\E v \in attached' : RequiresRefresh(viewFlags', v)
<1>1. ASSUME IInv, IInv', [Next]_vars
      PROVE  Step
  <2> SUFFICES ASSUME hasPendingTasks, ~hasPendingTasks', phase' = "idle", ~destroyed', ~failed'
               PROVE  ~WorkLeft'
    BY DEF WorkLeft, SomeViewRequiresRefresh
  <2>1. Idle'
    BY DEF Idle
  <2>2. [Promise!ContractNext]_Promise!contractVars
    BY <1>1, ContractSteps, ConstantsAssumption
  <2>3. ~UNCHANGED Promise!contractVars
    BY DEF Promise!contractVars
  <2>4. CASE Promise!CallOff
    BY <2>4 DEF Promise!CallOff
  <2>5. CASE Promise!End
    BY <2>1, <2>5 DEF Promise!End
  <2>6. CASE Promise!ChangeStability
    BY <2>6 DEF Promise!ChangeStability
  <2>7. CASE Promise!Demand \/ Promise!StartScheduled \/ Promise!StartManual \/ Promise!Work
             \/ Promise!Destroy \/ Promise!Demolished
    BY <2>1, <2>7 DEF Promise!Demand, Promise!StartScheduled, Promise!StartManual, Promise!Work,
       Promise!Destroy, Promise!Demolished
  <2> QED
    BY <2>2, <2>3, <2>4, <2>5, <2>6, <2>7 DEF Promise!ContractNext
<1>2. ASSUME IInv, IInv', [Next]_vars
      PROVE  [Step]_vars
  BY <1>1, <1>2
<1> QED
  BY <1>2, Inductive, PTL DEF Spec, StableMeansSynchronized
=============================================================================
