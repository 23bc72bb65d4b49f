--------------------------- MODULE Resource_proofs ---------------------------
(***************************************************************************)
(* Proofs about Resource for any requests and any number of loads.         *)
(***************************************************************************)
EXTENDS Resource, TLAPS

\* A load that was neither answered nor aborted is the last one, it is the one
\* abortInProgressLoad() would abort, and the resource is loading for it.
LoadsOK ==
    /\ inFlight \subseteq 1..loads /\ aborted \subseteq 1..loads
    /\ current # None => current = loads /\ loads \in Loads /\ loads \notin aborted
    /\ inLoader => loads \in Loads /\ loads \notin inFlight
    /\ \A load \in inFlight \cup (IF inLoader THEN {loads} ELSE {}) :
         load \notin aborted => load = current /\ tasks = {load} /\ IsLoading

\* An effect that is not scheduled has seen all there is, and listens.
EffectOK ==
    /\ ~stale => request = wanted
    /\ ~connected => ~readsReload
    /\ destroyed = "no" => (hasRun <=> connected)
    /\ destroyed = "no" /\ ~dirty => /\ connected /\ ~stale
                                     /\ request = seen /\ seen = wanted
                                     /\ request \in Requests => readsReload

\* One that is destroyed does not run any more.
DestroyedOK ==
    /\ destroyed = "yes" => hasRun /\ ~connected
    /\ destroyed = "early" /\ inView => ~dirty /\ ~connected

IInv ==
    /\ TypeOK
    /\ LoadsOK
    /\ TaskWhileLoading
    /\ NoValueUnlessShown
    /\ EffectOK
    /\ ReloadsHappen
    /\ DestroyedOK
    /\ DestroyedLoadsNothing

----------------------------------------------------------------------------
(* The steps, those of the effect by their outcome. *)

\* The steps of a resource.
LEMMA NextCases ==
    ASSUME [Next]_vars
    PROVE  \/ \E r \in Outcomes : ChangeRequest(r)
           \/ \E v \in {None, Local} : Set(v)
           \/ Reload \/ Destroy
           \/ SkipEffect \/ RequestThrows \/ NothingToLoad \/ StartLoad
           \/ LoaderReturns \/ LoaderThrows
           \/ \E load \in Loads, ok \in BOOLEAN : Answer(load, ok)
           \/ UNCHANGED vars
BY DEF Next, User, Effect, Loader

\* The value of the request's computed.
LEMMA EvaluatedType ==
    ASSUME TypeOK
    PROVE  Evaluated \in Outcomes
BY DEF TypeOK, Evaluated

\* abortInProgressLoad() leaves no load in progress and no task.
LEMMA AbortOK ==
    ASSUME TypeOK, LoadsOK, TaskWhileLoading
    PROVE  /\ Released = {}
           /\ Cancelled \subseteq 1..loads
           /\ Cancelled \in SUBSET Loads
           /\ inFlight \subseteq Cancelled
           /\ inLoader => loads \in Cancelled
<1>1. Released = {}
  BY DEF TaskWhileLoading, Released
<1>2. current # None => current \in 1..loads
  BY DEF LoadsOK, TypeOK, Loads
<1>3. Cancelled \subseteq 1..loads /\ Cancelled \in SUBSET Loads
  BY <1>2 DEF LoadsOK, TypeOK, Loads, Cancelled
<1>4. \A load \in inFlight : load \in Cancelled
  <2>1. \A load \in inFlight : load \notin aborted => load = current /\ load # None
    BY ConstantsAssumption DEF LoadsOK, TypeOK, Loads, ConstantsAssumption
  <2> QED
    BY <2>1 DEF Cancelled
<1>5. inLoader => loads \in Cancelled
  <2>1. inLoader /\ loads \notin aborted => loads = current
    BY DEF LoadsOK
  <2>2. inLoader => loads # None
    BY ConstantsAssumption DEF LoadsOK, Loads, ConstantsAssumption
  <2> QED
    BY <2>1, <2>2 DEF Cancelled
<1> QED
  BY <1>1, <1>3, <1>4, <1>5

\* What an answer may find: it is ignored, or its load is the one in progress.
LEMMA SettleCases ==
    ASSUME TypeOK, LoadsOK, TaskWhileLoading, NEW load \in Loads, NEW ok \in BOOLEAN,
           load \in inFlight \cup (IF inLoader THEN {loads} ELSE {}), Settle(load, ok)
    PROVE  \/ load \in aborted /\ UNCHANGED <<status, value, aborted, current, tasks>>
           \/ /\ load \notin aborted /\ load = loads /\ current = load /\ IsLoading
              /\ tasks' = {}
              /\ \/ status' = "Resolved" /\ value' = load
                 \/ status' = "Error" /\ value' = None
              /\ \/ UNCHANGED <<aborted, current>>
                 \/ aborted' = Cancelled /\ current' = None
<1>1. CASE load \in aborted
  <2>1. load \notin tasks
    BY <1>1, ConstantsAssumption DEF LoadsOK, TaskWhileLoading, TypeOK, ConstantsAssumption, Loads
  <2> QED
    BY <1>1, <2>1 DEF Settle
<1>2. CASE load \notin aborted
  <2>1. load = current /\ tasks = {load} /\ IsLoading /\ load # None
    BY <1>2, ConstantsAssumption DEF LoadsOK, ConstantsAssumption, Loads
  <2>2. current = loads
    BY <2>1 DEF LoadsOK
  <2> QED
    BY <1>2, <2>1, <2>2 DEF Settle, setErrorState
<1> QED
  BY <1>1, <1>2

\* The numbers of the loads.
LEMMA NewLoad ==
    ASSUME TypeOK, loads < MaxLoads
    PROVE  /\ loads + 1 \in Loads /\ loads + 1 \notin 1..loads
           /\ loads + 1 # None /\ 1..loads \subseteq 1..(loads + 1)
           /\ 1..loads \subseteq Loads
<1>1. loads \in Nat /\ MaxLoads \in Nat /\ loads + 1 \in Loads
  BY ConstantsAssumption DEF TypeOK, Loads, ConstantsAssumption
<1> QED
  BY <1>1, ConstantsAssumption DEF Loads, ConstantsAssumption

----------------------------------------------------------------------------
(* Type correctness. *)

\* Every step keeps the types.
LEMMA TypeNext ==
    ASSUME TypeOK, LoadsOK, TaskWhileLoading, [Next]_vars
    PROVE  TypeOK'
<1> USE DEF TypeOK, graphVars, effectVars, loadVars
<1>1. Evaluated \in Outcomes /\ Released \in SUBSET Loads /\ Cancelled \in SUBSET Loads
  BY EvaluatedType, AbortOK
<1>2. ASSUME NEW r \in Outcomes, ChangeRequest(r)
      PROVE  TypeOK'
  BY <1>2 DEF ChangeRequest
<1>3. ASSUME NEW v \in {None, Local}, Set(v)
      PROVE  TypeOK'
  BY <1>1, <1>3 DEF Set, SetLocal, abortInProgressLoad
<1>4. CASE Reload
  <2>1. UNCHANGED <<inView, wanted, hasRun, connected, destroyed, status, value, loads, inLoader,
                    inFlight, aborted, current, tasks, seen>>
    BY <1>4 DEF Reload
  <2>2. request' \in Outcomes /\ stale' \in BOOLEAN /\ readsReload' \in BOOLEAN
    BY <1>1, <1>4 DEF Reload
  <2>3. reloaded' \in BOOLEAN /\ dirty' \in BOOLEAN /\ asked' \in BOOLEAN
    <3>1. CASE Evaluated = Throws
      BY <1>4, <3>1 DEF Reload
    <3>2. CASE Evaluated # Throws
      BY <1>4, <3>2 DEF Reload
    <3> QED
      BY <3>1, <3>2
  <2> QED
    BY <2>1, <2>2, <2>3
<1>5. CASE Destroy
  BY <1>1, <1>5 DEF Destroy, abortInProgressLoad
<1>6. CASE SkipEffect
  <2>1. UNCHANGED <<inView, wanted, request, destroyed, status, value, loads, inFlight,
                    aborted, current, tasks, seen>>
    BY <1>6 DEF SkipEffect
  <2>2. UNCHANGED <<stale, reloaded, hasRun, connected, readsReload, inLoader, asked>>
    BY <1>6 DEF SkipEffect
  <2>3. /\ stale' \in BOOLEAN /\ reloaded' \in BOOLEAN /\ hasRun' \in BOOLEAN
        /\ connected' \in BOOLEAN /\ readsReload' \in BOOLEAN /\ inLoader' \in BOOLEAN
        /\ asked' \in BOOLEAN
    BY <2>2
  <2>4. dirty' \in BOOLEAN
    BY <1>6 DEF SkipEffect
  <2> QED
    BY <2>1, <2>3, <2>4
<1>7. CASE RequestThrows
  BY <1>1, <1>7 DEF RequestThrows, RunEffect, abortInProgressLoad
<1>8. CASE NothingToLoad
  BY <1>1, <1>8 DEF NothingToLoad, RunEffect, abortInProgressLoad
<1>9. CASE StartLoad
  <2>1. loads' \in Loads /\ loads' \in 0..MaxLoads
    BY <1>9, NewLoad DEF StartLoad, Loads
  <2> QED
    BY <1>1, <1>9, <2>1 DEF StartLoad, RunEffect
<1>10. CASE LoaderReturns
  <2>1. inFlight' \in SUBSET Loads /\ inLoader' \in BOOLEAN
    BY <1>10 DEF LoaderReturns, LoadsOK
  <2>2. UNCHANGED <<inView, graphVars, effectVars, status, value, loads, aborted, current,
                    tasks, seen, asked>>
    BY <1>10 DEF LoaderReturns
  <2> QED
    BY <2>1, <2>2
<1>11. ASSUME NEW load \in Loads, NEW ok \in BOOLEAN,
              load \in inFlight \cup (IF inLoader THEN {loads} ELSE {}), Settle(load, ok)
       PROVE  /\ status' \in {"Idle", "Error", "Loading", "Reloading", "Resolved", "Local"}
              /\ value' \in Loads \cup {None, Local}
              /\ aborted' \in SUBSET Loads /\ current' \in Loads \cup {None}
              /\ tasks' \in SUBSET Loads
  BY <1>1, <1>11, SettleCases
<1>12. CASE LoaderThrows
  <2>1. loads \in Loads /\ inLoader /\ Settle(loads, FALSE)
    BY <1>12 DEF LoaderThrows, LoadsOK
  <2> QED
    BY <1>11, <1>12, <2>1 DEF LoaderThrows
<1>13. ASSUME NEW load \in Loads, NEW ok \in BOOLEAN, Answer(load, ok)
       PROVE  TypeOK'
  BY <1>11, <1>13 DEF Answer
<1>14. CASE UNCHANGED vars
  BY <1>14 DEF vars
<1> QED
  BY <1>2, <1>3, <1>4, <1>5, <1>6, <1>7, <1>8, <1>9, <1>10, <1>12, <1>13, <1>14, NextCases

----------------------------------------------------------------------------
(* Loads, their tasks and what they leave behind. *)

\* What a step does that aborts the load in progress and starts none.
LEMMA Aborting ==
    ASSUME TypeOK, LoadsOK, TaskWhileLoading, abortInProgressLoad, UNCHANGED loadVars,
           IsLoading' => seen' = Throws
    PROVE  LoadsOK' /\ TaskWhileLoading'
BY AbortOK DEF abortInProgressLoad, LoadsOK, TaskWhileLoading, loadVars

\* What an answered load leaves: nothing is in progress.
LEMMA Settling ==
    ASSUME TypeOK, LoadsOK, TaskWhileLoading, NEW load \in Loads, NEW ok \in BOOLEAN,
           load \in inFlight \cup (IF inLoader THEN {loads} ELSE {}), Settle(load, ok),
           inFlight' = inFlight \ {load}, ~inLoader', UNCHANGED <<loads, seen>>
    PROVE  LoadsOK' /\ TaskWhileLoading'
<1>1. CASE load \in aborted
  <2>1. UNCHANGED <<status, value, aborted, current, tasks>>
    BY <1>1, SettleCases
  <2> QED
    BY <1>1, <2>1 DEF LoadsOK, TaskWhileLoading, IsLoading
<1>2. CASE load \notin aborted
  <2>1. /\ load = loads /\ current = load /\ tasks' = {} /\ ~IsLoading'
        /\ \/ UNCHANGED <<aborted, current>>
           \/ aborted' = Cancelled /\ current' = None
    BY <1>2, SettleCases DEF IsLoading
  <2>2. TaskWhileLoading'
    BY <2>1 DEF TaskWhileLoading
  <2>3. \A other \in inFlight' : other \in aborted
    BY <2>1 DEF LoadsOK
  <2>4. LoadsOK'
    <3>1. CASE UNCHANGED <<aborted, current>>
      BY <2>1, <2>3, <3>1 DEF LoadsOK
    <3>2. CASE aborted' = Cancelled /\ current' = None
      BY <2>1, <2>3, <3>2, AbortOK DEF LoadsOK
    <3> QED
      BY <2>1, <3>1, <3>2
  <2> QED
    BY <2>2, <2>4
<1> QED
  BY <1>1, <1>2

\* Every step keeps loads, tasks and status together.
LEMMA LoadsNext ==
    ASSUME TypeOK, LoadsOK, TaskWhileLoading, [Next]_vars
    PROVE  LoadsOK' /\ TaskWhileLoading'
<1>1. ASSUME UNCHANGED <<status, aborted, current, tasks, loadVars, seen>>
      PROVE  LoadsOK' /\ TaskWhileLoading'
  BY <1>1 DEF LoadsOK, TaskWhileLoading, IsLoading, loadVars
<1>2. ASSUME NEW r \in Outcomes, ChangeRequest(r)
      PROVE  LoadsOK' /\ TaskWhileLoading'
  BY <1>1, <1>2 DEF ChangeRequest
<1>3. ASSUME NEW v \in {None, Local}, Set(v)
      PROVE  LoadsOK' /\ TaskWhileLoading'
  BY <1>3, Aborting DEF Set, SetLocal, IsLoading
<1>4. CASE Reload \/ SkipEffect \/ UNCHANGED vars
  BY <1>1, <1>4 DEF Reload, SkipEffect, vars
<1>5. CASE Destroy
  BY <1>5, Aborting DEF Destroy, IsLoading
<1>6. CASE RequestThrows
  BY <1>6, Aborting DEF RequestThrows, RunEffect
<1>7. CASE NothingToLoad
  BY <1>7, Aborting DEF NothingToLoad, IsLoading
<1>8. CASE StartLoad
  <2>1. /\ loads' = loads + 1 /\ current' = loads' /\ tasks' = {loads'}
        /\ aborted' = Cancelled /\ inLoader' /\ inFlight' = inFlight
        /\ ~inLoader /\ loads < MaxLoads
    BY <1>8, AbortOK DEF StartLoad, RunEffect
  <2>2. IsLoading'
    BY <1>8 DEF StartLoad, IsLoading
  <2>3. loads' \in Loads /\ loads' \notin inFlight' /\ loads' \notin aborted'
    BY <2>1, AbortOK, NewLoad DEF LoadsOK
  <2>4. inFlight' \subseteq 1..loads' /\ aborted' \subseteq 1..loads'
    BY <2>1, AbortOK, NewLoad DEF LoadsOK
  <2>5. \A load \in inFlight' : load \in aborted'
    BY <2>1, AbortOK
  <2> QED
    BY <2>1, <2>2, <2>3, <2>4, <2>5 DEF LoadsOK, TaskWhileLoading
<1>9. CASE LoaderReturns
  <2>1. /\ loads \in Loads /\ inFlight' = inFlight \cup {loads} /\ inLoader /\ ~inLoader'
        /\ UNCHANGED <<status, loads, aborted, current, tasks, seen>>
    BY <1>9 DEF LoaderReturns, LoadsOK
  <2>2. loads \in 1..loads
    BY <2>1 DEF TypeOK, Loads
  <2>3. TaskWhileLoading'
    BY <2>1 DEF TaskWhileLoading, IsLoading
  <2>4. LoadsOK'
    BY <2>1, <2>2 DEF LoadsOK, IsLoading
  <2> QED
    BY <2>3, <2>4
<1>10. CASE LoaderThrows
  <2>1. loads \in Loads /\ inLoader /\ loads \notin inFlight
    BY <1>10 DEF LoaderThrows, LoadsOK
  <2> QED
    BY <1>10, <2>1, Settling DEF LoaderThrows
<1>11. ASSUME NEW load \in Loads, NEW ok \in BOOLEAN, Answer(load, ok)
       PROVE  LoadsOK' /\ TaskWhileLoading'
  BY <1>11, Settling DEF Answer
<1> QED
  BY <1>2, <1>3, <1>4, <1>5, <1>6, <1>7, <1>8, <1>9, <1>10, <1>11, NextCases

\* Every step that shows a value shows it in a status that may have one.
LEMMA ValueNext ==
    ASSUME TypeOK, LoadsOK, TaskWhileLoading, NoValueUnlessShown, [Next]_vars
    PROVE  NoValueUnlessShown'
<1> USE DEF NoValueUnlessShown
<1>1. CASE \/ \E r \in Outcomes : ChangeRequest(r)
           \/ Reload \/ SkipEffect \/ RequestThrows \/ LoaderReturns \/ UNCHANGED vars
  BY <1>1 DEF ChangeRequest, Reload, SkipEffect, RequestThrows, LoaderReturns, vars
<1>2. CASE \E v \in {None, Local} : Set(v)
  BY <1>2 DEF Set, SetLocal
<1>3. CASE Destroy \/ NothingToLoad \/ StartLoad
  BY <1>3 DEF Destroy, NothingToLoad, StartLoad
<1>4. CASE LoaderThrows
  BY <1>4, SettleCases DEF LoaderThrows, LoadsOK
<1>5. ASSUME NEW load \in Loads, NEW ok \in BOOLEAN, Answer(load, ok)
      PROVE  NoValueUnlessShown'
  BY <1>5, SettleCases DEF Answer
<1> QED
  BY <1>1, <1>2, <1>3, <1>4, <1>5, NextCases

----------------------------------------------------------------------------
(* The effect. *)

\* Every step keeps the effect informed until it is destroyed, and asleep after.
LEMMA EffectNext ==
    ASSUME TypeOK, EffectOK, ReloadsHappen, DestroyedOK, [Next]_vars
    PROVE  EffectOK' /\ ReloadsHappen' /\ DestroyedOK'
<1> USE DEF TypeOK, EffectOK, ReloadsHappen, DestroyedOK, graphVars, effectVars
<1>1. ASSUME NEW r \in Outcomes, ChangeRequest(r)
      PROVE  EffectOK' /\ ReloadsHappen' /\ DestroyedOK'
  BY <1>1 DEF ChangeRequest
<1>2. CASE Reload
  <2>1. UNCHANGED <<inView, wanted, hasRun, connected, destroyed, seen>>
    BY <1>2 DEF Reload
  <2>2. CASE destroyed = "no" /\ ~dirty
    <3>1. ~stale /\ Evaluated = request /\ request = seen
      BY <2>2 DEF Evaluated
    <3>2. ~stale' /\ request' = request
      BY <1>2, <3>1 DEF Reload
    <3>3. readsReload' <=> readsReload
      BY <1>2, <3>1 DEF Reload
    <3>4. dirty' \/ request \in {Undefined, Throws}
      <4>1. CASE Evaluated = Throws
        BY <3>1, <4>1
      <4>2. CASE Evaluated # Throws
        BY <1>2, <2>2, <3>1, <4>2 DEF Reload, Outcomes
      <4> QED
        BY <4>1, <4>2
    <3> QED
      BY <2>1, <2>2, <3>1, <3>2, <3>3, <3>4
  <2>3. CASE ~(destroyed = "no" /\ ~dirty)
    <3>1. dirty => dirty'
      BY <1>2 DEF Reload
    <3>2. destroyed = "early" /\ inView => ~dirty'
      <4>1. destroyed = "early" /\ inView => ~dirty /\ ~readsReload
        OBVIOUS
      <4> QED
        BY <1>2, <4>1 DEF Reload
    <3>3. (~stale' => request' = wanted') /\ (~connected' => ~readsReload')
      BY <1>2, <2>1 DEF Reload, Evaluated
    <3> QED
      BY <2>1, <2>3, <3>1, <3>2, <3>3
  <2> QED
    BY <2>2, <2>3
<1>3. CASE Destroy
  BY <1>3 DEF Destroy
<1>4. CASE SkipEffect
  BY <1>4 DEF SkipEffect
<1>5. CASE RequestThrows \/ NothingToLoad \/ StartLoad
  <2>1. /\ RunEffect
        /\ Evaluated \in Requests => readsReload'
    BY <1>5, ConstantsAssumption DEF RequestThrows, NothingToLoad, StartLoad, ConstantsAssumption
  <2>2. /\ ~dirty' /\ hasRun' /\ connected' /\ ~stale' /\ ~asked'
        /\ request' = Evaluated /\ seen' = Evaluated
        /\ UNCHANGED <<inView, wanted, destroyed>>
    BY <2>1 DEF RunEffect
  <2>3. destroyed # "yes" /\ ~(destroyed = "early" /\ inView)
    BY <2>1 DEF RunEffect
  <2>4. Evaluated = wanted
    BY DEF Evaluated
  <2>5. EffectOK'
    BY <2>1, <2>2, <2>4
  <2>6. ReloadsHappen' /\ DestroyedOK'
    BY <2>2, <2>3
  <2> QED
    BY <2>5, <2>6
<1>6. CASE UNCHANGED <<graphVars, effectVars, inView, seen, asked>>
  BY <1>6
<1>7. CASE \/ \E v \in {None, Local} : Set(v)
           \/ LoaderReturns \/ LoaderThrows
           \/ \E load \in Loads, ok \in BOOLEAN : Answer(load, ok)
           \/ UNCHANGED vars
  BY <1>6, <1>7 DEF Set, LoaderReturns, LoaderThrows, Answer, vars
<1> QED
  BY <1>1, <1>2, <1>3, <1>4, <1>5, <1>7, NextCases

\* Every step of a destroyed resource leaves it without a load.
LEMMA DestroyedNext ==
    ASSUME TypeOK, LoadsOK, TaskWhileLoading, DestroyedOK, DestroyedLoadsNothing, [Next]_vars
    PROVE  DestroyedLoadsNothing'
<1> USE DEF DestroyedLoadsNothing, IsLoading
<1>1. CASE \/ \E r \in Outcomes : ChangeRequest(r)
           \/ Reload \/ SkipEffect \/ LoaderReturns \/ UNCHANGED vars
  BY <1>1 DEF ChangeRequest, Reload, SkipEffect, LoaderReturns, vars, effectVars
<1>2. CASE Destroy \/ \E v \in {None, Local} : Set(v)
  BY <1>2, AbortOK DEF Destroy, Set, SetLocal, abortInProgressLoad
<1>3. CASE RequestThrows \/ NothingToLoad \/ StartLoad
  <2>1. RunEffect
    BY <1>3 DEF RequestThrows, NothingToLoad, StartLoad
  <2> QED
    BY <2>1 DEF RunEffect, DestroyedOK, TypeOK
<1>4. CASE LoaderThrows
  <2>1. loads \in Loads /\ inLoader /\ Settle(loads, FALSE) /\ UNCHANGED <<destroyed, inView>>
    BY <1>4 DEF LoaderThrows, LoadsOK, effectVars
  <2> QED
    BY <2>1, SettleCases
<1>5. ASSUME NEW load \in Loads, NEW ok \in BOOLEAN, Answer(load, ok)
      PROVE  DestroyedLoadsNothing'
  BY <1>5, SettleCases DEF Answer, effectVars
<1> QED
  BY <1>1, <1>2, <1>3, <1>4, <1>5, NextCases

----------------------------------------------------------------------------
(* The theorems. *)

\* A new resource satisfies the invariant.
LEMMA InitInv == Init => IInv
<1> SUFFICES ASSUME Init PROVE IInv
  OBVIOUS
<1>1. TypeOK
  <2>1. 0 \in 0..MaxLoads
    BY ConstantsAssumption DEF ConstantsAssumption
  <2> QED
    BY <2>1 DEF Init, TypeOK, Outcomes
<1>2. LoadsOK /\ TaskWhileLoading /\ NoValueUnlessShown
  BY DEF Init, LoadsOK, TaskWhileLoading, NoValueUnlessShown, IsLoading
<1>3. EffectOK /\ ReloadsHappen /\ DestroyedOK /\ DestroyedLoadsNothing
  BY DEF Init, EffectOK, ReloadsHappen, DestroyedOK, DestroyedLoadsNothing
<1> QED
  BY <1>1, <1>2, <1>3 DEF IInv

\* The invariant is inductive.
LEMMA NextInv == IInv /\ [Next]_vars => IInv'
BY TypeNext, LoadsNext, ValueNext, EffectNext, DestroyedNext DEF IInv

\* The invariant holds in every reachable state of a resource.
THEOREM Inductive == Spec => []IInv
BY InitInv, NextInv, PTL DEF Spec

\* The state of BaseWritableResource and of its loads stays well typed.
THEOREM TypeCorrect == Spec => []TypeOK
<1>1. IInv => TypeOK
  BY DEF IInv
<1> QED
  BY <1>1, Inductive, PTL

\* loadEffect and abortInProgressLoad hold a pending task exactly while the
\* resource is loading, and never one of a superseded load.
THEOREM TasksFollowLoading == Spec => []TaskWhileLoading
<1>1. IInv => TaskWhileLoading
  BY DEF IInv
<1> QED
  BY <1>1, Inductive, PTL

\* What ResourceStatus documents of the value: there is none without a request,
\* after an error, and while a new request is loading.
THEOREM ValuesAreShown == Spec => []NoValueUnlessShown
<1>1. IInv => NoValueUnlessShown
  BY DEF IInv
<1> QED
  BY <1>1, Inductive, PTL

\* The effect misses no change of the request: what a resolved resource shows was
\* loaded for the present one, or loadEffect is scheduled.
THEOREM ResolvedValuesAreCurrent == Spec => []ResolvedIsCurrent
<1>1. IInv => ResolvedIsCurrent
  BY DEF IInv, EffectOK, ResolvedIsCurrent
<1> QED
  BY <1>1, Inductive, PTL

\* destroy() is final, up to root effects destroyed before their first run.
THEOREM DestroyIsFinal == Spec => []DestroyedLoadsNothing
<1>1. IInv => DestroyedLoadsNothing
  BY DEF IInv
<1> QED
  BY <1>1, Inductive, PTL

\* Answers of loads that were superseded, aborted or overtaken change nothing.
THEOREM LateAnswersAreIgnored == Spec => NoLateAnswer
<1> DEFINE Step == status' \in {"Resolved", "Error"} /\ <<status, value>>' # <<status, value>>
                     => IsLoading /\ value' \in {None, loads}
<1>1. ASSUME IInv, [Next]_vars
      PROVE  Step
  <2>1. ASSUME NEW load \in Loads, NEW ok \in BOOLEAN, Settle(load, ok),
               load \in inFlight \cup (IF inLoader THEN {loads} ELSE {})
        PROVE  Step
    BY <1>1, <2>1, SettleCases DEF IInv
  <2>2. CASE LoaderThrows
    BY <1>1, <2>1, <2>2 DEF LoaderThrows, IInv, LoadsOK
  <2>3. CASE \E load \in Loads, ok \in BOOLEAN : Answer(load, ok)
    BY <2>1, <2>3 DEF Answer
  <2>4. CASE ~LoaderThrows /\ ~\E load \in Loads, ok \in BOOLEAN : Answer(load, ok)
    BY <1>1, <2>4, NextCases DEF ChangeRequest, Set, SetLocal, Reload, Destroy, SkipEffect,
       RequestThrows, NothingToLoad, StartLoad, LoaderReturns, vars
  <2> QED
    BY <2>2, <2>3, <2>4
<1> QED
  BY <1>1, Inductive, PTL DEF Spec, NoLateAnswer

\* A reload() that returned true keeps loadEffect scheduled until the effect has
\* read it; only a request that has nothing to load, or throws, lets it go.
THEOREM ReloadsAreLoaded == Spec => []ReloadsHappen
<1>1. IInv => ReloadsHappen
  BY DEF IInv
<1> QED
  BY <1>1, Inductive, PTL
=============================================================================
