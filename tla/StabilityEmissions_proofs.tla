--------------------- MODULE StabilityEmissions_proofs ---------------------
(***************************************************************************)
(* Proofs about StabilityEmissions for any number of ids and tasks.        *)
(*                                                                         *)
(* A run of JavaScript is a composition of operators on the state, so the  *)
(* invariant is a predicate of a state s, each operator has a lemma about  *)
(* what it does to a state that need not be one between two runs, and the  *)
(* actions put these lemmas together.                                      *)
(***************************************************************************)
EXTENDS StabilityEmissions, FiniteSetTheorems, TLAPS

States ==
    [has: BOOLEAN, tasks: SUBSET Ids, render: Ids \cup {NoId}, callbacks: SUBSET Ids,
     cancel: Ids \cup {NoId}, dirty: {"no", "left", "notified"},
     running: {"no", "manual", "scheduler"}, tickTask: Ids \cup {NoId},
     reset: Ids \cup {NoId}, userTasks: SUBSET Ids, destroyed: BOOLEAN]

\* The callback that can be cancelled is the one whose task is pendingRenderTaskId.
Typed(s) == s \in States /\ s.cancel = s.render

\* The tasks that are not for a scheduled callback.
Others(s) == s.userTasks \cup {s.tickTask, s.reset}

\* Tasks of different owners differ and are pending, and so is the task of every
\* callback, even of one that cancelScheduledCallback does not cancel any more.
Owned(s) ==
    /\ s.callbacks \subseteq s.tasks \ Others(s)
    /\ s.render # NoId => s.render \in s.tasks \ Others(s)
    /\ Others(s) \ {NoId} \subseteq s.tasks
    /\ s.tickTask # NoId => s.tickTask \notin s.userTasks \cup {s.reset}
    /\ s.reset \notin s.userTasks

\* tick() holds a task exactly while the scheduler runs it, and the one of the tick
\* before is removed by then.
Ticking(s) ==
    /\ s.running = "scheduler" <=> s.tickTask # NoId
    /\ s.tickTask # NoId => s.reset = NoId

\* hasPendingTasks has the value that the set of tasks gives it.
HasTells(s) == s.has <=> s.tasks # {}

\* Between two runs the callback of pendingRenderTaskId is still to come.
RenderScheduled(s) ==
    s.running = "no" /\ ~s.destroyed /\ s.render # NoId => s.render \in s.callbacks

\* A notified application has a pendingRenderTaskId.
NotifiedRenders(s) ==
    s.running = "no" /\ ~s.destroyed /\ s.dirty = "notified" => s.render # NoId

\* While a scheduled tick runs, the task of its callback is pending: tick() can
\* remove its own task without making the application stable.
TickKept(s, gone) ==
    s.running = "scheduler" /\ ~s.destroyed => s.tasks \ (Others(s) \cup {gone}) # {}

\* Every pending task has an owner.
NoLeak(s) == s.tasks \subseteq {s.render} \cup Others(s)

Sound(s) ==
    /\ Typed(s)
    /\ Ticking(s)
    /\ ~s.destroyed => Owned(s)
    /\ HasTells(s)
    /\ RenderScheduled(s)
    /\ NotifiedRenders(s)
    /\ TickKept(s, NoId)

IInv == Sound(app)

\* The invariant when no subscriber reacts to the value true.
IInvOwners == ~app.destroyed => NoLeak(app)

\* What an action shows whose subscribers react to the values in R.
Preserves(R) ==
    /\ IInv'
    /\ TRUE \notin R /\ IInvOwners => IInvOwners'

----------------------------------------------------------------------------
(* Ids. *)

Free(s) == Ids \ InUse(s)

\* A reaction and the operation that emits take an id each.
TwoFree(s) == \E i, j \in Free(s) : i # j

LEMMA FreshIsFree ==
    ASSUME NEW s, Free(s) # {}
    PROVE  Fresh(s) \in Free(s)
BY DEF Fresh, Free

LEMMA RoomIsTwo ==
    ASSUME NEW s, Room(s)
    PROVE  TwoFree(s)
<1>1. IsFiniteSet(Free(s)) /\ Cardinality(Free(s)) \in Nat /\ Cardinality(Free(s)) >= 3
  <2>1. IsFiniteSet(Ids)
    BY FS_Interval, EmissionsAssumption DEF Ids
  <2>2. IsFiniteSet(Free(s))
    BY <2>1, FS_Subset DEF Free
  <2>. QED  BY <2>2, FS_CardinalityType DEF Room, Free
<1>2. Free(s) # {}
  BY <1>1, FS_EmptySet
<1>3. PICK i \in Free(s) : TRUE
  BY <1>2
<1>4. Free(s) \ {i} # {}
  <2>1. IsFiniteSet(Free(s) \ {i}) /\ Cardinality(Free(s) \ {i}) = Cardinality(Free(s)) - 1
    BY <1>1, <1>3, FS_RemoveElement
  <2>. QED  BY <1>1, <2>1, FS_EmptySet
<1>. QED  BY <1>3, <1>4 DEF TwoFree

\* An operation that takes at most one id leaves one of two.
LEMMA OneLeft ==
    ASSUME NEW s, NEW r, NEW i, TwoFree(s), InUse(r) \subseteq InUse(s) \cup {i}
    PROVE  Free(r) # {}
BY DEF TwoFree, Free

LEMMA TwoLeft ==
    ASSUME NEW s, NEW r, TwoFree(s), InUse(r) \subseteq InUse(s)
    PROVE  TwoFree(r)
BY DEF TwoFree, Free

----------------------------------------------------------------------------
(* The operators. *)

\* What the operators that add tasks leave alone.
Frame(s, r) ==
    /\ r.running = s.running
    /\ r.tickTask = s.tickTask
    /\ r.reset = s.reset
    /\ r.userTasks = s.userTasks
    /\ r.destroyed = s.destroyed

\* They add tasks, give no callback to a task that had none, and schedule.
Grows(s, r) ==
    /\ Frame(s, r)
    /\ s.tasks \subseteq r.tasks
    /\ \A t \in s.tasks : t \notin s.callbacks \cup {s.render} =>
                            t \notin r.callbacks \cup {r.render}
    /\ Owned(s) => Owned(r)
    /\ RenderScheduled(s) => RenderScheduled(r)

LEMMA GrowsAgain ==
    ASSUME NEW s, NEW r, NEW q, Grows(s, r), Grows(r, q)
    PROVE  Grows(s, q)
BY DEF Grows, Frame

LEMMA ScheduleWith ==
    ASSUME NEW s, Typed(s), NEW id \in Free(s),
           NEW r, r = Schedule(TaskAdded(s, id), id)
    PROVE  /\ Typed(r)
           /\ Grows(s, r)
           /\ r.tasks = s.tasks \cup {id} /\ r.render = id
           /\ r.has = s.has /\ r.dirty = s.dirty
           /\ InUse(r) \subseteq InUse(s) \cup {id}
           /\ NoLeak(s) /\ s.render = NoId => NoLeak(r)
<1>1. r = [has |-> s.has, tasks |-> s.tasks \cup {id}, render |-> id,
           callbacks |-> s.callbacks \cup {id}, cancel |-> id, dirty |-> s.dirty,
           running |-> s.running, tickTask |-> s.tickTask, reset |-> s.reset,
           userTasks |-> s.userTasks, destroyed |-> s.destroyed]
  BY DEF Schedule, TaskAdded, Typed, States
<1>2. id \in Ids /\ id \notin InUse(s)
  BY DEF Free
<1>. HIDE DEF Free
<1>3. Typed(r)
  BY <1>1, <1>2 DEF Typed, States
<1>4. Owned(s) => Owned(r)
  BY <1>1, <1>2 DEF Owned, Others, InUse
<1>5. Grows(s, r)
  BY <1>1, <1>2, <1>4 DEF Grows, Frame, InUse, RenderScheduled
<1>6. NoLeak(s) /\ s.render = NoId => NoLeak(r)
  BY <1>1, <1>2 DEF NoLeak, Others, NoId, Ids, Typed, States
<1>. QED  BY <1>1, <1>3, <1>5, <1>6 DEF InUse

LEMMA FlaggedOnly ==
    ASSUME NEW s, Typed(s)
    PROVE  /\ Typed(Flagged(s))
           /\ Grows(s, Flagged(s))
           /\ Flagged(s).has = s.has /\ Flagged(s).tasks = s.tasks
           /\ Flagged(s).render = s.render /\ Flagged(s).dirty = "notified"
           /\ InUse(Flagged(s)) = InUse(s)
           /\ NoLeak(Flagged(s)) <=> NoLeak(s)
<1>1. Flagged(s) =
          [has |-> s.has, tasks |-> s.tasks, render |-> s.render,
           callbacks |-> s.callbacks, cancel |-> s.cancel, dirty |-> "notified",
           running |-> s.running, tickTask |-> s.tickTask, reset |-> s.reset,
           userTasks |-> s.userTasks, destroyed |-> s.destroyed]
  BY DEF Flagged, Typed, States
<1>. QED  BY <1>1 DEF Typed, States, Grows, Frame, Owned, Others, RenderScheduled,
                      InUse, NoLeak

\* hasPendingTasks.next(true), whatever its subscribers do.
LEMMA EmitEffect ==
    ASSUME NEW s, Typed(s), TwoFree(s), NEW R, NEW e, e = EmitPending(s, R)
    PROVE  /\ Typed(e)
           /\ Grows(s, e)
           /\ e.has = TRUE
           /\ Free(e) # {}
           /\ NotifiedRenders(s) => NotifiedRenders(e)
           /\ TRUE \notin R => e.render = s.render /\ e.tasks = s.tasks
           /\ TRUE \notin R /\ NoLeak(s) => NoLeak(e)
<1>. DEFINE on == [s EXCEPT !.has = TRUE]
            f == Flagged(on)
<1>1. /\ on \in States /\ on.has = TRUE
      /\ on.tasks = s.tasks /\ on.render = s.render /\ on.callbacks = s.callbacks
      /\ on.cancel = s.cancel /\ on.dirty = s.dirty /\ on.running = s.running
      /\ on.tickTask = s.tickTask /\ on.reset = s.reset
      /\ on.userTasks = s.userTasks /\ on.destroyed = s.destroyed
  BY DEF Typed, States
<1>. HIDE DEF on
<1>2. /\ Typed(on) /\ Grows(s, on) /\ on.has = TRUE /\ InUse(on) = InUse(s)
      /\ NotifiedRenders(s) => NotifiedRenders(on)
      /\ on.render = s.render /\ on.tasks = s.tasks /\ (NoLeak(s) => NoLeak(on))
  BY <1>1 DEF Typed, Grows, Frame, Owned, Others, RenderScheduled, InUse,
              NotifiedRenders, NoLeak
<1>3. CASE s.has
  <2>1. e = s
    BY <1>3 DEF EmitPending
  <2>2. s.has = TRUE
    BY <1>3 DEF Typed, States
  <2>. QED  BY <2>1, <2>2, OneLeft DEF Grows, Frame
<1>4. CASE ~s.has /\ TRUE \notin R
  <2>1. e = on
    BY <1>4 DEF EmitPending, on
  <2>. QED  BY <2>1, <1>2, <1>4, OneLeft
<1>5. CASE ~s.has /\ TRUE \in R
  <2>1. e = NotifyWhilePending(on)
    BY <1>5 DEF EmitPending, on
  <2>2. /\ Typed(f) /\ Grows(s, f) /\ f.has = TRUE /\ InUse(f) = InUse(s)
    BY <1>2, FlaggedOnly, GrowsAgain
  <2>. HIDE DEF f
  <2>3. CASE ~ShouldScheduleTick(f)
    <3>1. e = f
      BY <2>1, <2>3 DEF NotifyWhilePending, f
    <3>2. NotifiedRenders(e)
      BY <2>3, <3>1 DEF ShouldScheduleTick, NotifiedRenders
    <3>. QED  BY <1>5, <2>2, <3>1, <3>2, OneLeft
  <2>4. CASE ShouldScheduleTick(f)
    <3>1. e = Schedule(TaskAdded(f, Fresh(f)), Fresh(f))
      BY <2>1, <2>4 DEF NotifyWhilePending, f
    <3>2. Fresh(f) \in Free(f)
      BY <2>2, OneLeft, FreshIsFree
    <3>3. /\ Typed(e) /\ Grows(f, e) /\ e.has = TRUE /\ e.render = Fresh(f)
          /\ InUse(e) \subseteq InUse(f) \cup {Fresh(f)}
      BY <2>2, <3>1, <3>2, ScheduleWith
    <3>4. NotifiedRenders(e)
      BY <3>2, <3>3 DEF NotifiedRenders, Free, Ids, NoId
    <3>. QED  BY <1>5, <2>2, <3>3, <3>4, OneLeft, GrowsAgain
  <2>. QED  BY <2>3, <2>4
<1>. QED  BY <1>3, <1>4, <1>5

\* What scheduling leads to when hasPendingTasks tells of the tasks before.
LEMMA ScheduleEffect ==
    ASSUME NEW s, Typed(s), TwoFree(s), HasTells(s), NEW R, NEW r, r = ScheduleIfNeeded(s, R)
    PROVE  /\ Typed(r)
           /\ Grows(s, r)
           /\ HasTells(r)
           /\ NotifiedRenders(r)
           /\ r.running = "no" /\ ~r.destroyed => r.render # NoId
           /\ s.running # "no" \/ s.destroyed => r = s
           /\ TRUE \notin R => /\ r.tasks \subseteq s.tasks \cup {r.render}
                               /\ s.render \in {NoId, r.render}
                               /\ NoLeak(s) => NoLeak(r)
<1>1. CASE ~ShouldScheduleTick(s)
  <2>1. r = s
    BY <1>1 DEF ScheduleIfNeeded
  <2>2. r.running = "no" /\ ~r.destroyed => r.render # NoId
    BY <1>1, <2>1 DEF ShouldScheduleTick
  <2>. QED  BY <2>1, <2>2 DEF NotifiedRenders, Grows, Frame
<1>2. CASE ShouldScheduleTick(s)
  <2>. DEFINE e == EmitPending(s, R)
  <2>1. r = Schedule(TaskAdded(e, Fresh(e)), Fresh(e))
    BY <1>2 DEF ScheduleIfNeeded
  <2>. e = EmitPending(s, R)
    OBVIOUS
  <2>. HIDE DEF e
  <2>2. /\ Typed(e) /\ Grows(s, e) /\ e.has = TRUE /\ Free(e) # {}
        /\ TRUE \notin R => e.render = s.render /\ e.tasks = s.tasks
        /\ TRUE \notin R /\ NoLeak(s) => NoLeak(e)
    BY EmitEffect
  <2>3. Fresh(e) \in Free(e)
    BY <2>2, FreshIsFree
  <2>4. /\ Typed(r) /\ Grows(e, r) /\ r.has = TRUE /\ r.render = Fresh(e)
        /\ r.tasks = e.tasks \cup {Fresh(e)}
        /\ NoLeak(e) /\ e.render = NoId => NoLeak(r)
    BY <2>1, <2>2, <2>3, ScheduleWith
  <2>5. r.render # NoId /\ r.tasks # {}
    BY <2>3, <2>4 DEF Free, Ids, NoId
  <2>6. s.running = "no" /\ ~s.destroyed /\ s.render = NoId
    BY <1>2 DEF ShouldScheduleTick
  <2>. QED  BY <2>2, <2>4, <2>5, <2>6, GrowsAgain DEF HasTells, NotifiedRenders
<1>. QED  BY <1>1, <1>2

LEMMA NotifyEffect ==
    ASSUME NEW s, Typed(s), TwoFree(s), HasTells(s), NEW R, NEW r, r = NotifyScheduler(s, R)
    PROVE  /\ Typed(r)
           /\ Grows(s, r)
           /\ HasTells(r)
           /\ NotifiedRenders(r)
           /\ s.running # "no" \/ s.destroyed => InUse(r) = InUse(s)
           /\ TRUE \notin R /\ NoLeak(s) => NoLeak(r)
<1>. DEFINE f == Flagged(s)
<1>1. /\ Typed(f) /\ Grows(s, f) /\ HasTells(f) /\ TwoFree(f) /\ InUse(f) = InUse(s)
      /\ NoLeak(f) <=> NoLeak(s)
  BY FlaggedOnly, TwoLeft DEF HasTells
<1>2. r = ScheduleIfNeeded(f, R)
  BY DEF NotifyScheduler
<1>. HIDE DEF f
<1>3. f.running = s.running /\ f.destroyed = s.destroyed
  BY <1>1 DEF Grows, Frame
<1>4. /\ Typed(r) /\ Grows(f, r) /\ HasTells(r) /\ NotifiedRenders(r)
      /\ f.running # "no" \/ f.destroyed => r = f
      /\ TRUE \notin R /\ NoLeak(f) => NoLeak(r)
  BY <1>1, <1>2, ScheduleEffect
<1>5. s.running # "no" \/ s.destroyed => InUse(r) = InUse(s)
  BY <1>1, <1>3, <1>4
<1>. QED  BY <1>1, <1>4, <1>5, GrowsAgain

\* What remove(id) does to s, which may make the application stable and start to
\* work again.
Removes(s, id, R, r) ==
    /\ Typed(r)
    /\ Frame(s, r)
    /\ HasTells(r)
    /\ s.tasks \ {id} \subseteq r.tasks
    /\ Owned(s) /\ id \notin s.callbacks \cup {s.render} \cup Others(s) => Owned(r)
    /\ RenderScheduled(s) => RenderScheduled(r)
    /\ NotifiedRenders(s) => NotifiedRenders(r)
    /\ s.tasks \ {id} # {} => r.dirty = s.dirty
    /\ s.running # "no" => InUse(r) \subseteq InUse(s)
    /\ TRUE \notin R /\ s.tasks \ {id} \subseteq {s.render} \cup Others(s) => NoLeak(r)

LEMMA RemoveEffect ==
    ASSUME NEW s, Typed(s), HasTells(s), NEW id, NEW R,
           FALSE \in R => TwoFree(s) \/ s.tasks \ {id} # {}
    PROVE  Removes(s, id, R, Remove(s, id, R))
<1>. SUFFICES ASSUME NEW r, r = Remove(s, id, R)
              PROVE  Removes(s, id, R, r)
  OBVIOUS
<1>. DEFINE t == [s EXCEPT !.tasks = @ \ {id}]
            off == [t EXCEPT !.has = FALSE]
<1>1. /\ t \in States /\ t.has = s.has
      /\ t.tasks = s.tasks \ {id} /\ t.render = s.render /\ t.callbacks = s.callbacks
      /\ t.cancel = s.cancel /\ t.dirty = s.dirty /\ t.running = s.running
      /\ t.tickTask = s.tickTask /\ t.reset = s.reset
      /\ t.userTasks = s.userTasks /\ t.destroyed = s.destroyed
  BY DEF Typed, States
<1>2. /\ Typed(t) /\ Frame(s, t) /\ (TwoFree(s) => TwoFree(t)) /\ InUse(t) \subseteq InUse(s)
      /\ RenderScheduled(s) => RenderScheduled(t)
      /\ NotifiedRenders(s) => NotifiedRenders(t)
  <2>1. InUse(t) \subseteq InUse(s)
    BY <1>1 DEF InUse
  <2>. QED  BY <1>1, <2>1, TwoLeft DEF Typed, Frame, RenderScheduled, NotifiedRenders
<1>3. Owned(s) /\ id \notin s.callbacks \cup {s.render} \cup Others(s) => Owned(t)
  BY <1>1 DEF Owned, Others
<1>4. s.tasks \ {id} \subseteq {s.render} \cup Others(s) => NoLeak(t)
  BY <1>1 DEF NoLeak, Others
<1>5. CASE t.tasks # {} \/ ~t.has
  <2>1. r = t
    BY <1>5 DEF Remove
  <2>2. HasTells(t)
    BY <1>1, <1>5 DEF HasTells
  <2>. QED  BY <1>1, <1>2, <1>3, <1>4, <2>1, <2>2 DEF Removes
<1>6. CASE t.tasks = {} /\ t.has
  <2>1. /\ off \in States /\ off.has = FALSE
        /\ off.tasks = t.tasks /\ off.render = t.render /\ off.callbacks = t.callbacks
        /\ off.cancel = t.cancel /\ off.dirty = t.dirty /\ off.running = t.running
        /\ off.tickTask = t.tickTask /\ off.reset = t.reset
        /\ off.userTasks = t.userTasks /\ off.destroyed = t.destroyed
    <3>. HIDE DEF t
    <3>. QED  BY <1>1 DEF States
  <2>2. r = IF FALSE \in R THEN NotifyScheduler(off, R) ELSE off
    BY <1>6 DEF Remove
  <2>. HIDE DEF t, off
  <2>3. /\ Typed(off) /\ Frame(t, off) /\ HasTells(off)
        /\ RenderScheduled(t) => RenderScheduled(off)
        /\ NotifiedRenders(t) => NotifiedRenders(off)
        /\ Owned(t) => Owned(off)
        /\ NoLeak(t) => NoLeak(off)
    BY <1>2, <1>6, <2>1 DEF Typed, Frame, HasTells, RenderScheduled, NotifiedRenders,
                            Owned, Others, NoLeak
  <2>4. InUse(off) \subseteq InUse(t) /\ (FALSE \in R => TwoFree(off))
    <3>1. FALSE \in R => TwoFree(t)
      BY <1>1, <1>2, <1>6
    <3>2. InUse(off) \subseteq InUse(t)
      BY <2>1 DEF InUse
    <3>. QED  BY <3>1, <3>2, TwoLeft
  <2>5. /\ Typed(r) /\ Frame(off, r) /\ HasTells(r)
        /\ RenderScheduled(off) => RenderScheduled(r)
        /\ NotifiedRenders(off) => NotifiedRenders(r)
        /\ Owned(off) => Owned(r)
        /\ off.running # "no" => InUse(r) \subseteq InUse(off)
        /\ TRUE \notin R /\ NoLeak(off) => NoLeak(r)
    <3>1. CASE FALSE \notin R
      <4>1. r = off
        BY <2>2, <3>1
      <4>. QED  BY <2>3, <4>1 DEF Frame
    <3>2. CASE FALSE \in R
      <4>1. r = NotifyScheduler(off, R)
        BY <2>2, <3>2
      <4>. QED  BY <2>3, <2>4, <3>2, <4>1, NotifyEffect DEF Grows
    <3>. QED  BY <3>1, <3>2
  <2>6. Frame(s, r)
    BY <1>2, <2>3, <2>5 DEF Frame
  <2>7. s.running # "no" => InUse(r) \subseteq InUse(s)
    BY <1>2, <2>3, <2>4, <2>5 DEF Frame
  <2>. QED  BY <1>1, <1>2, <1>3, <1>4, <1>6, <2>3, <2>5, <2>6, <2>7
            DEF Removes
<1>. QED  BY <1>5, <1>6

\* What cleanup() does to s, after a tick or when there was nothing to do.
CleansUp(s, R, r) ==
    /\ Typed(r)
    /\ HasTells(r)
    /\ r.running = "no" /\ r.tickTask = s.tickTask /\ r.reset = s.reset
    /\ r.destroyed = s.destroyed
    /\ ~s.destroyed => Owned(r)
    /\ RenderScheduled(r)
    /\ s.dirty # "notified" => NotifiedRenders(r)
    /\ TRUE \notin R /\ NoLeak(s) => NoLeak(r)

LEMMA CleanupEffect ==
    ASSUME NEW s, Typed(s), HasTells(s), NEW R, FALSE \in R => TwoFree(s),
           ~s.destroyed => Owned(s)
    PROVE  CleansUp(s, R, Cleanup(s, R))
<1>. SUFFICES ASSUME NEW r, r = Cleanup(s, R)
              PROVE  CleansUp(s, R, r)
  OBVIOUS
<1>. DEFINE c == [s EXCEPT !.running = "no", !.callbacks = @ \ {s.cancel}, !.cancel = NoId,
                           !.render = NoId]
<1>1. /\ c \in States /\ c.has = s.has
      /\ c.tasks = s.tasks /\ c.render = NoId /\ c.callbacks = s.callbacks \ {s.render}
      /\ c.cancel = NoId /\ c.dirty = s.dirty /\ c.running = "no"
      /\ c.tickTask = s.tickTask /\ c.reset = s.reset
      /\ c.userTasks = s.userTasks /\ c.destroyed = s.destroyed
  BY DEF Typed, States
<1>2. r = IF s.render = NoId THEN c ELSE Remove(c, s.render, R)
  BY DEF Cleanup
<1>. HIDE DEF c
<1>3. /\ Typed(c) /\ HasTells(c) /\ RenderScheduled(c)
      /\ s.dirty # "notified" => NotifiedRenders(c)
      /\ ~s.destroyed => Owned(c)
  BY <1>1 DEF Typed, HasTells, RenderScheduled, NotifiedRenders, Owned, Others
<1>4. CASE s.render = NoId
  <2>1. NoLeak(s) => NoLeak(c)
    BY <1>1, <1>4 DEF NoLeak, Others
  <2>. QED  BY <1>1, <1>2, <1>3, <1>4, <2>1 DEF CleansUp
<1>5. CASE s.render # NoId
  <2>1. r = Remove(c, s.render, R)
    BY <1>2, <1>5
  <2>2. FALSE \in R => TwoFree(c)
    <3>1. InUse(c) \subseteq InUse(s) \cup {NoId}
      BY <1>1 DEF InUse
    <3>. QED  BY <3>1 DEF TwoFree, Free, Ids, NoId
  <2>3. ~s.destroyed => s.render \notin c.callbacks \cup {c.render} \cup Others(c)
    BY <1>1, <1>5 DEF Owned, Others
  <2>4. NoLeak(s) => c.tasks \ {s.render} \subseteq {c.render} \cup Others(c)
    BY <1>1 DEF NoLeak, Others
  <2>5. Removes(c, s.render, R, r)
    BY <1>3, <2>1, <2>2, RemoveEffect
  <2>. QED  BY <1>1, <1>3, <2>3, <2>4, <2>5 DEF Removes, CleansUp, Frame
<1>. QED  BY <1>4, <1>5

----------------------------------------------------------------------------
(* User code. *)

LEMMA NotifyStep ==
    ASSUME IInv, NEW R, Notify(R)
    PROVE  Preserves(R)
<1>1. Typed(app) /\ HasTells(app) /\ TwoFree(app) /\ app' = NotifyScheduler(app, R)
  BY RoomIsTwo DEF IInv, Sound, Notify
<1>2. /\ Typed(app') /\ Grows(app, app') /\ HasTells(app') /\ NotifiedRenders(app')
      /\ TRUE \notin R /\ NoLeak(app) => NoLeak(app')
  BY <1>1, NotifyEffect
<1>. QED  BY <1>2 DEF Preserves, IInv, IInvOwners, Sound, Ticking, Grows, Frame, TickKept, Others

LEMMA AddPendingTaskStep ==
    ASSUME IInv, NEW R, AddPendingTask(R)
    PROVE  Preserves(R)
<1>. DEFINE e == EmitPending(app, R)
            id == Fresh(e)
<1>2. app' = [TaskAdded(e, id) EXCEPT !.userTasks = @ \cup {id}]
  BY DEF AddPendingTask
<1>. e = EmitPending(app, R)
  OBVIOUS
<1>. HIDE DEF e
<1>0. Typed(app) /\ TwoFree(app)
  BY RoomIsTwo DEF IInv, Sound, AddPendingTask
<1>1. /\ Typed(e) /\ Grows(app, e) /\ e.has = TRUE /\ Free(e) # {}
      /\ NotifiedRenders(app) => NotifiedRenders(e)
      /\ TRUE \notin R /\ NoLeak(app) => NoLeak(e)
  BY <1>0, EmitEffect
<1>3. id \in Ids /\ id \notin InUse(e)
  BY <1>1, FreshIsFree DEF Free
<1>. HIDE DEF id
<1>4. /\ app' \in States /\ app'.has = e.has
      /\ app'.tasks = e.tasks \cup {id} /\ app'.render = e.render
      /\ app'.callbacks = e.callbacks
      /\ app'.cancel = e.cancel /\ app'.dirty = e.dirty /\ app'.running = e.running
      /\ app'.tickTask = e.tickTask /\ app'.reset = e.reset
      /\ app'.userTasks = e.userTasks \cup {id} /\ app'.destroyed = e.destroyed
  BY <1>1, <1>2, <1>3 DEF TaskAdded, Typed, States
<1>5. Owned(e) => Owned(app')
  BY <1>3, <1>4 DEF Owned, Others, InUse
<1>6. NoLeak(e) => NoLeak(app')
  BY <1>4 DEF NoLeak, Others
<1>7. HasTells(app')
  BY <1>1, <1>4 DEF HasTells
<1>8. TickKept(app', NoId)
  <2>1. TickKept(e, NoId)
    BY <1>1 DEF IInv, Sound, TickKept, Grows, Frame, Others
  <2>2. id \notin e.tasks
    BY <1>3 DEF InUse
  <2>. QED  BY <1>4, <2>1, <2>2 DEF TickKept, Others
<1>9. RenderScheduled(app') /\ NotifiedRenders(app')
  BY <1>1, <1>4 DEF RenderScheduled, NotifiedRenders, Grows, IInv, Sound
<1>. QED  BY <1>1, <1>4, <1>5, <1>6, <1>7, <1>8, <1>9
          DEF Preserves, IInv, IInvOwners, Sound, Ticking, Typed, Grows, Frame

\* An id that the application gives back.
Held(t) == [app EXCEPT !.userTasks = @ \ {t}]

LEMMA HeldEffect ==
    ASSUME IInv, Room(app), NEW t \in app.userTasks, NEW h, h = Held(t)
    PROVE  /\ Typed(h) /\ TwoFree(h) /\ HasTells(h)
           /\ h.tasks = app.tasks
           /\ Ticking(h) /\ h.destroyed = app.destroyed
           /\ ~app.destroyed => Owned(h) /\ t \notin h.callbacks \cup {h.render} \cup Others(h)
           /\ RenderScheduled(h) /\ NotifiedRenders(h) /\ TickKept(h, t)
           /\ NoLeak(app) => h.tasks \ {t} \subseteq {h.render} \cup Others(h)
<1>1. /\ h \in States /\ h.has = app.has
      /\ h.tasks = app.tasks /\ h.render = app.render /\ h.callbacks = app.callbacks
      /\ h.cancel = app.cancel /\ h.dirty = app.dirty /\ h.running = app.running
      /\ h.tickTask = app.tickTask /\ h.reset = app.reset
      /\ h.userTasks = app.userTasks \ {t} /\ h.destroyed = app.destroyed
  BY DEF Held, IInv, Sound, Typed, States
<1>2. InUse(h) \subseteq InUse(app)
  BY <1>1 DEF InUse
<1>3. TwoFree(h)
  BY <1>2, RoomIsTwo, TwoLeft
<1>4. TickKept(h, t)
  <2>1. Others(h) \cup {t} \subseteq Others(app)
    BY <1>1 DEF Others
  <2>. QED  BY <1>1, <2>1 DEF TickKept, IInv, Sound
<1>. QED  BY <1>1, <1>3, <1>4
          DEF IInv, Sound, Ticking, Typed, HasTells, Owned, Others, RenderScheduled,
              NotifiedRenders, NoLeak, Ids, NoId, States

\* remove() of a task that the application has given back.
LEMMA RemoveHeld ==
    ASSUME IInv, NEW R, NEW t, NEW h, app' = Remove(h, t, R),
           Typed(h), HasTells(h), TwoFree(h) \/ h.tasks \ {t} # {},
           Ticking(h), h.destroyed = app.destroyed,
           ~h.destroyed => Owned(h) /\ t \notin h.callbacks \cup {h.render} \cup Others(h),
           RenderScheduled(h), NotifiedRenders(h), TickKept(h, t),
           TRUE \notin R /\ IInvOwners /\ ~h.destroyed
               => h.tasks \ {t} \subseteq {h.render} \cup Others(h)
    PROVE  Preserves(R)
<1>1. Removes(h, t, R, app')
  BY RemoveEffect
<1>2. TickKept(app', NoId)
  <2>1. Others(app') = Others(h)
    BY <1>1 DEF Removes, Frame, Others
  <2>2. NoId \notin h.tasks
    BY DEF Typed, States, Ids, NoId
  <2>. QED  BY <1>1, <2>1, <2>2 DEF Removes, TickKept, Frame
<1>. QED  BY <1>1, <1>2 DEF Removes, Preserves, IInv, IInvOwners, Sound, Ticking, Frame

LEMMA RemoveInternalTaskStep ==
    ASSUME IInv, NEW R, NEW t \in app.userTasks, RemoveInternalTask(t, R)
    PROVE  Preserves(R)
<1>. DEFINE h == Held(t)
<1>1. Room(app) /\ app' = Remove(h, t, R)
  BY DEF RemoveInternalTask, Held
<1>2. /\ Typed(h) /\ TwoFree(h) /\ HasTells(h)
      /\ Ticking(h) /\ h.destroyed = app.destroyed
      /\ ~app.destroyed => Owned(h) /\ t \notin h.callbacks \cup {h.render} \cup Others(h)
      /\ RenderScheduled(h) /\ NotifiedRenders(h) /\ TickKept(h, t)
      /\ NoLeak(app) => h.tasks \ {t} \subseteq {h.render} \cup Others(h)
  BY <1>1, HeldEffect
<1>. HIDE DEF h
<1>. QED  BY <1>1, <1>2, RemoveHeld DEF IInvOwners

LEMMA RemovePendingTaskStep ==
    ASSUME IInv, NEW R, NEW t \in app.userTasks, RemovePendingTask(t, R)
    PROVE  Preserves(R)
<1>. DEFINE h == Held(t)
            q == ScheduleIfNeeded(h, R)
<1>1. Room(app) /\ app' = IF t \in app.tasks THEN Remove(q, t, R) ELSE h
  BY DEF RemovePendingTask, Held
<1>2. /\ Typed(h) /\ TwoFree(h) /\ HasTells(h) /\ h.tasks = app.tasks
      /\ Ticking(h) /\ h.destroyed = app.destroyed
      /\ ~app.destroyed => Owned(h) /\ t \notin h.callbacks \cup {h.render} \cup Others(h)
      /\ RenderScheduled(h) /\ NotifiedRenders(h) /\ TickKept(h, t)
      /\ NoLeak(app) => h.tasks \ {t} \subseteq {h.render} \cup Others(h)
  BY <1>1, HeldEffect
<1>. HIDE DEF h
<1>3. CASE t \notin app.tasks
  <2>1. app.destroyed
    BY <1>3 DEF IInv, Sound, Owned, Others, Typed, States, Ids, NoId
  <2>2. app' = h
    BY <1>1, <1>3
  <2>. QED  BY <1>2, <2>1, <2>2 DEF Preserves, IInv, IInvOwners, Sound, TickKept
<1>4. CASE t \in app.tasks
  <2>1. app' = Remove(q, t, R)
    BY <1>1, <1>4
  <2>. q = ScheduleIfNeeded(h, R)
    OBVIOUS
  <2>. HIDE DEF q
  <2>2. /\ Typed(q) /\ Grows(h, q) /\ HasTells(q) /\ NotifiedRenders(q)
        /\ q.running = "no" /\ ~q.destroyed => q.render # NoId
        /\ h.running # "no" \/ h.destroyed => q = h
        /\ TRUE \notin R => /\ q.tasks \subseteq h.tasks \cup {q.render}
                            /\ h.render \in {NoId, q.render}
    BY <1>2, ScheduleEffect, ZenonT(40)
  <2>3. /\ Ticking(q)
        /\ q.destroyed = app.destroyed /\ Others(q) = Others(h) /\ RenderScheduled(q)
    BY <1>2, <2>2 DEF Grows, Frame, Others, Ticking
  <2>4. ~q.destroyed => Owned(q) /\ t \notin q.callbacks \cup {q.render} \cup Others(q)
    BY <1>2, <1>4, <2>2, <2>3 DEF Grows
  <2>5. TwoFree(q) \/ q.tasks \ {t} # {}
    <3>1. CASE q.running # "no" \/ q.destroyed
      BY <1>2, <2>2, <3>1 DEF Grows, Frame
    <3>2. CASE q.running = "no" /\ ~q.destroyed
      BY <2>2, <2>4, <3>2 DEF Owned
    <3>. QED  BY <3>1, <3>2
  <2>6. TickKept(q, t)
    BY <1>2, <2>2, <2>3 DEF TickKept, Grows, Frame
  <2>7. TRUE \notin R /\ IInvOwners /\ ~q.destroyed
            => q.tasks \ {t} \subseteq {q.render} \cup Others(q)
    <3>1. NoId \notin h.tasks
      BY <1>2 DEF Typed, States, Ids, NoId
    <3>. QED  BY <1>2, <2>2, <2>3, <3>1 DEF IInvOwners
  <2>. QED  BY <2>1, <2>2, <2>3, <2>4, <2>5, <2>6, <2>7, RemoveHeld
<1>. QED  BY <1>3, <1>4

LEMMA DestroyStep ==
    ASSUME IInv, NEW R, Destroy(R)
    PROVE  Preserves(R)
<1>. DEFINE cleared == [app EXCEPT !.tasks = {}, !.has = FALSE]
            emitted == IF app.has /\ FALSE \in R THEN NotifyScheduler(cleared, R) ELSE cleared
            dead == [emitted EXCEPT !.destroyed = TRUE]
            clean == Cleanup(dead, {})
<1>1. Room(app) /\ app' = [clean EXCEPT !.running = app.running]
  BY DEF Destroy
<1>2. /\ cleared \in States /\ cleared.has = FALSE
      /\ cleared.tasks = {} /\ cleared.render = app.render
      /\ cleared.callbacks = app.callbacks
      /\ cleared.cancel = app.cancel /\ cleared.tickTask = app.tickTask
      /\ cleared.reset = app.reset /\ cleared.userTasks = app.userTasks
  BY DEF IInv, Sound, Typed, States
<1>. HIDE DEF cleared
<1>3. Typed(cleared) /\ HasTells(cleared) /\ TwoFree(cleared)
  <2>1. InUse(cleared) \subseteq InUse(app)
    BY <1>2 DEF InUse
  <2>. QED  BY <1>1, <1>2, <2>1, RoomIsTwo, TwoLeft DEF IInv, Sound, Typed, HasTells
<1>4. /\ Typed(emitted) /\ HasTells(emitted)
      /\ emitted.tickTask = app.tickTask /\ emitted.reset = app.reset
  BY <1>2, <1>3, NotifyEffect, ZenonT(40) DEF Grows, Frame
<1>. HIDE DEF emitted
<1>5. /\ dead \in States /\ dead.destroyed = TRUE
      /\ dead.has = emitted.has /\ dead.tasks = emitted.tasks
      /\ dead.cancel = emitted.cancel /\ dead.render = emitted.render
      /\ dead.tickTask = emitted.tickTask /\ dead.reset = emitted.reset
  BY <1>4 DEF Typed, States
<1>. HIDE DEF dead
<1>6. Typed(dead) /\ HasTells(dead)
  BY <1>4, <1>5 DEF Typed, HasTells
<1>7. CleansUp(dead, {}, clean)
  BY <1>5, <1>6, CleanupEffect
<1>. HIDE DEF clean
<1>8. /\ app' \in States /\ app'.has = clean.has /\ app'.tasks = clean.tasks
      /\ app'.cancel = clean.cancel /\ app'.render = clean.render
      /\ app'.tickTask = clean.tickTask /\ app'.reset = clean.reset
      /\ app'.destroyed = clean.destroyed
      /\ app'.running = app.running
  BY <1>1, <1>7 DEF CleansUp, Typed, States, IInv, Sound
<1>9. app'.destroyed /\ app'.tickTask = app.tickTask /\ app'.reset = app.reset
  BY <1>4, <1>5, <1>7, <1>8 DEF CleansUp
<1>. QED  BY <1>7, <1>8, <1>9
          DEF CleansUp, Preserves, IInv, IInvOwners, Sound, Ticking, Typed, HasTells,
              RenderScheduled, NotifiedRenders, TickKept

----------------------------------------------------------------------------
(* Ticks. *)

LEMMA ManualTickStep ==
    ASSUME IInv, NEW R, ManualTick
    PROVE  Preserves(R)
<1>1. /\ app' \in States /\ app'.has = app.has
      /\ app'.tasks = app.tasks /\ app'.render = app.render /\ app'.callbacks = app.callbacks
      /\ app'.cancel = app.cancel /\ app'.dirty = app.dirty /\ app'.running = "manual"
      /\ app'.tickTask = app.tickTask /\ app'.reset = app.reset
      /\ app'.userTasks = app.userTasks /\ app'.destroyed = app.destroyed
  BY DEF ManualTick, IInv, Sound, Typed, States
<1>2. app.running = "no"
  BY DEF ManualTick
<1>. QED  BY <1>1, <1>2
          DEF Preserves, IInv, IInvOwners, Sound, Typed, Ticking, Owned, Others, HasTells,
              RenderScheduled, NotifiedRenders, TickKept, NoLeak

\* An action that ends with cleanup().
LEMMA CleanupStep ==
    ASSUME IInv, NEW R, NEW s, app' = Cleanup(s, R),
           Typed(s), HasTells(s), TwoFree(s), s.tickTask = NoId, s.destroyed = app.destroyed,
           ~s.destroyed => Owned(s) /\ s.dirty # "notified",
           TRUE \notin R /\ IInvOwners /\ ~s.destroyed => NoLeak(s)
    PROVE  Preserves(R)
<1>1. CleansUp(s, R, app')
  BY CleanupEffect
<1>2. NotifiedRenders(app') /\ TickKept(app', NoId) /\ Ticking(app')
  BY <1>1 DEF CleansUp, NotifiedRenders, TickKept, Ticking
<1>. QED  BY <1>1, <1>2 DEF CleansUp, Preserves, IInv, IInvOwners, Sound

\* The dirtiness that a tick leaves.
LEMMA SynchronizedEffect ==
    ASSUME IInv, NEW failed \in BOOLEAN, NEW s \in Synchronized(failed)
    PROVE  /\ s \in States /\ s.has = app.has
           /\ s.tasks = app.tasks /\ s.render = app.render /\ s.callbacks = app.callbacks
           /\ s.cancel = app.cancel /\ s.dirty # "notified" /\ s.running = app.running
           /\ s.tickTask = app.tickTask /\ s.reset = app.reset
           /\ s.userTasks = app.userTasks /\ s.destroyed = app.destroyed
<1>1. PICK d \in {"no", "left"} : s = [app EXCEPT !.dirty = d]
  BY DEF Synchronized
<1>. QED  BY <1>1 DEF IInv, Sound, Typed, States

LEMMA EndManualTickStep ==
    ASSUME IInv, NEW R, NEW failed \in BOOLEAN, EndManualTick(failed, R)
    PROVE  Preserves(R)
<1>1. PICK s \in Synchronized(failed) :
        app' = IF s.destroyed THEN [s EXCEPT !.running = "no"] ELSE Cleanup(s, R)
  BY DEF EndManualTick
<1>2. /\ s \in States /\ s.has = app.has
      /\ s.tasks = app.tasks /\ s.render = app.render /\ s.callbacks = app.callbacks
      /\ s.cancel = app.cancel /\ s.dirty # "notified" /\ s.running = app.running
      /\ s.tickTask = app.tickTask /\ s.reset = app.reset
      /\ s.userTasks = app.userTasks /\ s.destroyed = app.destroyed
  BY SynchronizedEffect
<1>3. Room(app) /\ app.running = "manual" /\ app.tickTask = NoId
  BY DEF EndManualTick, IInv, Sound, Ticking
<1>4. CASE s.destroyed
  <2>1. /\ app' \in States /\ app'.has = s.has /\ app'.tasks = s.tasks
        /\ app'.render = s.render /\ app'.cancel = s.cancel /\ app'.running = "no"
        /\ app'.tickTask = s.tickTask /\ app'.reset = s.reset /\ app'.destroyed
    BY <1>1, <1>2, <1>4 DEF States
  <2>. QED  BY <1>2, <1>3, <2>1
            DEF Preserves, IInv, IInvOwners, Sound, Typed, Ticking, HasTells,
                RenderScheduled, NotifiedRenders, TickKept
<1>5. CASE ~s.destroyed
  <2>1. app' = Cleanup(s, R)
    BY <1>1, <1>5
  <2>2. TwoFree(s)
    <3>1. InUse(s) \subseteq InUse(app)
      BY <1>2 DEF InUse
    <3>. QED  BY <1>3, <3>1, RoomIsTwo, TwoLeft
  <2>3. /\ Typed(s) /\ HasTells(s) /\ s.tickTask = NoId
        /\ ~s.destroyed => Owned(s) /\ s.dirty # "notified"
        /\ IInvOwners /\ ~s.destroyed => NoLeak(s)
    BY <1>2, <1>3 DEF IInv, IInvOwners, Sound, Typed, HasTells, Owned, Others, NoLeak
  <2>. QED  BY <1>2, <2>1, <2>2, <2>3, CleanupStep
<1>. QED  BY <1>4, <1>5

LEMMA EndTickStep ==
    ASSUME IInv, NEW R, NEW failed \in BOOLEAN, EndTick(failed, R)
    PROVE  Preserves(R)
<1>1. PICK s \in Synchronized(failed) :
        app' = Cleanup([s EXCEPT !.tickTask = NoId, !.reset = s.tickTask], R)
  BY DEF EndTick
<1>2. /\ s \in States /\ s.has = app.has
      /\ s.tasks = app.tasks /\ s.render = app.render /\ s.callbacks = app.callbacks
      /\ s.cancel = app.cancel /\ s.dirty # "notified" /\ s.running = app.running
      /\ s.tickTask = app.tickTask /\ s.reset = app.reset
      /\ s.userTasks = app.userTasks /\ s.destroyed = app.destroyed
  BY SynchronizedEffect
<1>3. Room(app) /\ app.running = "scheduler" /\ app.tickTask # NoId /\ app.reset = NoId
  BY DEF EndTick, IInv, Sound, Ticking
<1>. DEFINE q == [s EXCEPT !.tickTask = NoId, !.reset = s.tickTask]
<1>4. app' = Cleanup(q, R)
  BY <1>1
<1>5. /\ q \in States /\ q.has = app.has
      /\ q.tasks = app.tasks /\ q.render = app.render /\ q.callbacks = app.callbacks
      /\ q.cancel = app.cancel /\ q.dirty # "notified" /\ q.running = app.running
      /\ q.tickTask = NoId /\ q.reset = app.tickTask
      /\ q.userTasks = app.userTasks /\ q.destroyed = app.destroyed
  BY <1>2 DEF States
<1>. HIDE DEF q
<1>6. TwoFree(q)
  <2>1. InUse(q) \subseteq InUse(app) \cup {NoId}
    BY <1>5 DEF InUse
  <2>. QED  BY <1>3, <2>1, RoomIsTwo DEF TwoFree, Free, Ids, NoId
<1>7. /\ Typed(q) /\ HasTells(q)
      /\ ~q.destroyed => Owned(q)
      /\ IInvOwners /\ ~q.destroyed => NoLeak(q)
  BY <1>3, <1>5 DEF IInv, IInvOwners, Sound, Typed, HasTells, Owned, Others, NoLeak,
                    States, Ids, NoId
<1>. QED  BY <1>4, <1>5, <1>6, <1>7, CleanupStep

LEMMA TickThrowsStep ==
    ASSUME IInv, NEW R, TickThrows(R)
    PROVE  Preserves(R)
<1>1. PICK s \in Synchronized(TRUE) :
        app' = Cleanup(Remove([s EXCEPT !.tickTask = NoId], s.tickTask, R), R)
  BY DEF TickThrows
<1>2. /\ s \in States /\ s.has = app.has
      /\ s.tasks = app.tasks /\ s.render = app.render /\ s.callbacks = app.callbacks
      /\ s.cancel = app.cancel /\ s.dirty # "notified" /\ s.running = app.running
      /\ s.tickTask = app.tickTask /\ s.reset = app.reset
      /\ s.userTasks = app.userTasks /\ s.destroyed = app.destroyed
  BY SynchronizedEffect
<1>3. Room(app) /\ app.running = "scheduler" /\ app.tickTask # NoId /\ app.reset = NoId
  BY DEF TickThrows, IInv, Sound, Ticking
<1>. DEFINE id == app.tickTask
            q == [s EXCEPT !.tickTask = NoId]
            z == Remove(q, id, R)
<1>4. app' = Cleanup(z, R)
  BY <1>1, <1>2
<1>5. /\ q \in States /\ q.has = app.has
      /\ q.tasks = app.tasks /\ q.render = app.render /\ q.callbacks = app.callbacks
      /\ q.cancel = app.cancel /\ q.dirty # "notified" /\ q.running = app.running
      /\ q.tickTask = NoId /\ q.reset = app.reset
      /\ q.userTasks = app.userTasks /\ q.destroyed = app.destroyed
  BY <1>2 DEF States
<1>. z = Remove(q, id, R)
  OBVIOUS
<1>. HIDE DEF q, z
<1>6. TwoFree(q)
  <2>1. InUse(q) \subseteq InUse(app) \cup {NoId}
    BY <1>5 DEF InUse
  <2>. QED  BY <1>3, <2>1, RoomIsTwo DEF TwoFree, Free, Ids, NoId
<1>7. /\ Typed(q) /\ HasTells(q)
      /\ ~q.destroyed => Owned(q) /\ id \notin q.callbacks \cup {q.render} \cup Others(q)
      /\ IInvOwners /\ ~q.destroyed => q.tasks \ {id} \subseteq {q.render} \cup Others(q)
  BY <1>3, <1>5 DEF IInv, IInvOwners, Sound, Typed, HasTells, Owned, Others, NoLeak
\* The task of the callback is still there: the application is not stable yet.
<1>8. ~q.destroyed => q.tasks \ {id} # {}
  BY <1>3, <1>5 DEF IInv, Sound, TickKept, Others
<1>9. Removes(q, id, R, z)
  BY <1>6, <1>7, RemoveEffect
<1>10. TwoFree(z)
  BY <1>3, <1>5, <1>6, <1>9, TwoLeft DEF Removes
<1>11. z.tickTask = NoId /\ z.destroyed = app.destroyed
  BY <1>5, <1>9 DEF Removes, Frame
<1>. QED  BY <1>4, <1>5, <1>7, <1>8, <1>9, <1>10, <1>11, CleanupStep DEF Removes

LEMMA FireCallbackStep ==
    ASSUME IInv, NEW R, NEW c \in app.callbacks, FireCallback(c, R)
    PROVE  Preserves(R)
<1>. DEFINE fired == [app EXCEPT !.callbacks = @ \ {c}]
            e == EmitPending(fired, R)
            id == Fresh(e)
<1>1. /\ Room(app) /\ app.running = "no" /\ app.reset = NoId /\ app.tickTask = NoId
  BY DEF FireCallback, IInv, Sound, Ticking
<1>2. \/ app.destroyed /\ app' = fired
      \/ ~app.destroyed /\ app.dirty = "no" /\ app' = Cleanup(fired, R)
      \/ /\ ~app.destroyed /\ app.dirty # "no"
         /\ app' = [TaskAdded(e, id) EXCEPT !.tickTask = id, !.running = "scheduler"]
  BY DEF FireCallback
<1>. e = EmitPending(fired, R) /\ id = Fresh(e)
  OBVIOUS
<1>3. /\ fired \in States /\ fired.has = app.has
      /\ fired.tasks = app.tasks /\ fired.render = app.render
      /\ fired.callbacks = app.callbacks \ {c}
      /\ fired.cancel = app.cancel /\ fired.dirty = app.dirty /\ fired.running = "no"
      /\ fired.tickTask = NoId /\ fired.reset = NoId
      /\ fired.userTasks = app.userTasks /\ fired.destroyed = app.destroyed
  BY <1>1 DEF IInv, Sound, Typed, States
<1>. HIDE DEF fired, e, id
<1>4. /\ Typed(fired) /\ HasTells(fired)
      /\ ~fired.destroyed => Owned(fired)
      /\ IInvOwners /\ ~fired.destroyed => NoLeak(fired)
  BY <1>1, <1>3 DEF IInv, IInvOwners, Sound, Typed, HasTells, Owned, Others, NoLeak
<1>5. TwoFree(fired)
  <2>1. InUse(fired) \subseteq InUse(app)
    BY <1>1, <1>3 DEF InUse
  <2>. QED  BY <1>1, <2>1, RoomIsTwo, TwoLeft
<1>6. CASE app.destroyed /\ app' = fired
  BY <1>3, <1>4, <1>6 DEF Preserves, IInv, IInvOwners, Sound, Ticking, RenderScheduled,
                          NotifiedRenders, TickKept
<1>7. CASE ~app.destroyed /\ app.dirty = "no" /\ app' = Cleanup(fired, R)
  BY <1>3, <1>4, <1>5, <1>7, CleanupStep
<1>8. CASE /\ ~app.destroyed /\ app.dirty # "no"
           /\ app' = [TaskAdded(e, id) EXCEPT !.tickTask = id, !.running = "scheduler"]
  <2>1. /\ Typed(e) /\ Grows(fired, e) /\ e.has = TRUE /\ Free(e) # {}
        /\ TRUE \notin R /\ NoLeak(fired) => NoLeak(e)
    BY <1>4, <1>5, EmitEffect
  <2>2. id \in Ids /\ id \notin InUse(e)
    BY <2>1, FreshIsFree DEF Free
  <2>3. /\ app' \in States /\ app'.has = TRUE
        /\ app'.tasks = e.tasks \cup {id} /\ app'.render = e.render
        /\ app'.callbacks = e.callbacks
        /\ app'.cancel = e.cancel /\ app'.running = "scheduler"
        /\ app'.tickTask = id /\ app'.reset = e.reset
        /\ app'.userTasks = e.userTasks /\ app'.destroyed = e.destroyed
    BY <1>8, <2>1, <2>2, ZenonT(40) DEF TaskAdded, Typed, States
  <2>4. /\ e.running = "no" /\ e.tickTask = NoId /\ e.reset = NoId
        /\ e.userTasks = app.userTasks /\ ~e.destroyed
        /\ app.tasks \subseteq e.tasks /\ Owned(e)
    BY <1>3, <1>4, <1>8, <2>1 DEF Grows, Frame
  <2>5. Typed(app') /\ Ticking(app') /\ HasTells(app')
    BY <2>1, <2>2, <2>3, <2>4 DEF Typed, Ticking, HasTells, Ids, NoId
  <2>6. Owned(app')
    BY <2>2, <2>3, <2>4 DEF Owned, Others, InUse, Ids, NoId
  <2>7. RenderScheduled(app') /\ NotifiedRenders(app')
    BY <2>3 DEF RenderScheduled, NotifiedRenders
  <2>8. c \in app.tasks \ (app.userTasks \cup {NoId})
    BY <1>8 DEF IInv, Sound, Owned, Others, Typed, States, Ids, NoId
  <2>9. TickKept(app', NoId)
    <3>1. c # id
      BY <2>2, <2>4, <2>8 DEF InUse
    <3>. QED  BY <2>3, <2>4, <2>8, <3>1 DEF TickKept, Others
  <2>10. NoLeak(e) => NoLeak(app')
    BY <2>3, <2>4 DEF NoLeak, Others
  <2>. QED  BY <1>3, <1>4, <1>8, <2>1, <2>5, <2>6, <2>7, <2>9, <2>10
            DEF Preserves, IInv, IInvOwners, Sound
<1>. QED  BY <1>2, <1>6, <1>7, <1>8

LEMMA ResetStep ==
    ASSUME IInv, NEW R, ResetMicrotaskScheduler(R)
    PROVE  Preserves(R)
<1>. DEFINE t == app.reset
            h == [app EXCEPT !.reset = NoId]
<1>1. /\ Room(app) /\ app.running = "no" /\ t # NoId /\ app' = Remove(h, t, R)
  BY DEF ResetMicrotaskScheduler
<1>2. /\ h \in States /\ h.has = app.has
      /\ h.tasks = app.tasks /\ h.render = app.render /\ h.callbacks = app.callbacks
      /\ h.cancel = app.cancel /\ h.dirty = app.dirty /\ h.running = app.running
      /\ h.tickTask = app.tickTask /\ h.reset = NoId
      /\ h.userTasks = app.userTasks /\ h.destroyed = app.destroyed
  BY DEF IInv, Sound, Typed, States
<1>. HIDE DEF h
<1>3. TwoFree(h)
  <2>1. InUse(h) \subseteq InUse(app) \cup {NoId}
    BY <1>2 DEF InUse
  <2>. QED  BY <1>1, <2>1, RoomIsTwo DEF TwoFree, Free, Ids, NoId
<1>4. /\ Typed(h) /\ HasTells(h) /\ Ticking(h) /\ RenderScheduled(h) /\ NotifiedRenders(h)
      /\ TickKept(h, t)
  BY <1>1, <1>2 DEF IInv, Sound, Typed, HasTells, Ticking, RenderScheduled,
                    NotifiedRenders, TickKept
<1>5. ~h.destroyed => Owned(h) /\ t \notin h.callbacks \cup {h.render} \cup Others(h)
  <2>. SUFFICES ASSUME ~h.destroyed
                PROVE  Owned(h) /\ t \notin h.callbacks \cup {h.render} \cup Others(h)
    OBVIOUS
  <2>1. Owned(app)
    BY <1>2 DEF IInv, Sound
  <2>2. Owned(h)
    BY <1>2, <2>1 DEF IInv, Sound, Typed, States, Owned, Others, Ids, NoId
  <2>3. t \notin app.callbacks \cup {app.render} \cup app.userTasks
    BY <1>1, <2>1 DEF Owned, Others
  <2>4. t # h.tickTask
    BY <1>1, <1>2, <2>1 DEF Owned
  <2>. QED  BY <1>1, <1>2, <2>2, <2>3, <2>4 DEF Others
<1>6. IInvOwners /\ ~h.destroyed => h.tasks \ {t} \subseteq {h.render} \cup Others(h)
  BY <1>1, <1>2 DEF IInvOwners, Others, NoLeak
<1>. HIDE DEF t
<1>. QED  BY <1>1, <1>2, <1>3, <1>4, <1>5, <1>6, RemoveHeld

----------------------------------------------------------------------------
(* The theorems. *)

LEMMA InvInit == Init => IInv /\ IInvOwners
<1>. SUFFICES ASSUME Init PROVE IInv /\ IInvOwners
  OBVIOUS
<1>. QED  BY DEF Init, IInv, IInvOwners, Sound, Typed, States, Owned, Others, Ticking,
              HasTells, RenderScheduled, NotifiedRenders, TickKept, NoLeak, NoId

LEMMA StepPreserves ==
    ASSUME IInv, NEW R, User(R) \/ System(R)
    PROVE  Preserves(R)
<1>1. ASSUME Notify(R) PROVE Preserves(R)
  BY <1>1, NotifyStep
<1>2. ASSUME AddPendingTask(R) PROVE Preserves(R)
  BY <1>2, AddPendingTaskStep
<1>3. ASSUME NEW t \in app.userTasks, RemovePendingTask(t, R) PROVE Preserves(R)
  BY <1>3, RemovePendingTaskStep
<1>4. ASSUME NEW t \in app.userTasks, RemoveInternalTask(t, R) PROVE Preserves(R)
  BY <1>4, RemoveInternalTaskStep
<1>5. ASSUME Destroy(R) PROVE Preserves(R)
  BY <1>5, DestroyStep
<1>6. ASSUME ManualTick PROVE Preserves(R)
  BY <1>6, ManualTickStep
<1>7. ASSUME NEW c \in app.callbacks, FireCallback(c, R) PROVE Preserves(R)
  BY <1>7, FireCallbackStep
<1>8. ASSUME NEW failed \in BOOLEAN, EndTick(failed, R) PROVE Preserves(R)
  BY <1>8, EndTickStep
<1>9. ASSUME NEW failed \in BOOLEAN, EndManualTick(failed, R) PROVE Preserves(R)
  BY <1>9, EndManualTickStep
<1>10. ASSUME TickThrows(R) PROVE Preserves(R)
  BY <1>10, TickThrowsStep
<1>11. ASSUME ResetMicrotaskScheduler(R) PROVE Preserves(R)
  BY <1>11, ResetStep
<1>. QED  BY <1>1, <1>2, <1>3, <1>4, <1>5, <1>6, <1>7, <1>8, <1>9, <1>10, <1>11
          DEF User, System

LEMMA InvNext == IInv /\ [Next]_app => IInv'
<1>. SUFFICES ASSUME IInv, [Next]_app PROVE IInv'
  OBVIOUS
<1>1. CASE app' = app
  BY <1>1 DEF IInv, Sound, Typed, Ticking, Owned, Others, HasTells, RenderScheduled,
              NotifiedRenders, TickKept
<1>2. CASE Next
  BY <1>2, StepPreserves DEF Next, Preserves
<1>. QED  BY <1>1, <1>2

LEMMA OwnersNext == TRUE \notin ReactOn /\ IInv /\ IInvOwners /\ [Next]_app => IInvOwners'
<1>. SUFFICES ASSUME TRUE \notin ReactOn, IInv, IInvOwners, [Next]_app PROVE IInvOwners'
  OBVIOUS
<1>1. CASE app' = app
  BY <1>1 DEF IInvOwners, NoLeak, Others
<1>2. CASE Next
  <2>1. PICK R \in SUBSET ReactOn : User(R) \/ System(R)
    BY <1>2 DEF Next
  <2>2. TRUE \notin R
    OBVIOUS
  <2>. QED  BY <2>1, <2>2, StepPreserves DEF Preserves
<1>. QED  BY <1>1, <1>2

LEMMA Invariance == Spec => []IInv
<1>. QED  BY InvInit, InvNext, PTL DEF Spec

\* The types, and that tick() holds its task exactly while it runs, whatever
\* subscribers of hasPendingTasks react to.
THEOREM TypeCorrect == Spec => []TypeOK
<1>1. IInv => TypeOK
  BY DEF IInv, Sound, Typed, States, Ticking, TypeOK
<1>. QED  BY <1>1, Invariance, PTL

\* Whatever subscribers react to, an application that was notified has a callback
\* to come once the JavaScript that notified it has returned, also when the
\* notification came out of the emission of a remove() or a cleanup().
THEOREM NoNotificationIsLost == Spec => []NotifiedWorkIsScheduled
<1>1. IInv => NotifiedWorkIsScheduled
  BY DEF IInv, Sound, RenderScheduled, NotifiedRenders, NotifiedWorkIsScheduled
<1>. QED  BY <1>1, Invariance, PTL

\* When no subscriber reacts to the value true, nested emissions lose no id: every
\* pending task has an owner that will remove it, and hasPendingTasks tells
\* whether there are any.
THEOREM NestedEmissionsKeepOwners == TRUE \notin ReactOn => (Spec => []TasksHaveOwners)
<1>1. IInv /\ IInvOwners => TasksHaveOwners
  BY DEF IInv, IInvOwners, Sound, Typed, States, Owned, Others, HasTells, NoLeak,
         TasksHaveOwners, Ids, NoId
<1>2. TRUE \notin ReactOn => (Spec => []IInvOwners)
  <2>. SUFFICES ASSUME TRUE \notin ReactOn PROVE Spec => []IInvOwners
    OBVIOUS
  <2>1. IInv /\ IInvOwners /\ [Next]_app => IInvOwners'
    BY OwnersNext
  <2>. QED  BY InvInit, <2>1, Invariance, PTL DEF Spec
<1>. QED  BY <1>1, <1>2, Invariance, PTL

=============================================================================
