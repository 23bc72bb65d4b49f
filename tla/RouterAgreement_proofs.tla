------------------------ MODULE RouterAgreement_proofs ------------------------
(***************************************************************************)
(* Proofs about what an idle router leaves behind: no pending task, and a  *)
(* URL bar, a router state and outlets that agree.  They rest on where the *)
(* calls of the navigations are, which RouterNavigation_proofs establishes.*)
(***************************************************************************)
EXTENDS RouterNavigation_proofs

----------------------------------------------------------------------------
(* What keeps the application unstable. *)

\* From the request to the end or the failure of a navigation, but for its start.
InFlight == {"requested", "recognize", "guards", "load", "activating"}

\* A call that has yet to start its navigation, or to redirect or report the error of one
\* that was not superseded meanwhile.
Engaged(i) ==
    \/ stack[i].at = "started" /\ transition[stack[i].id].stage = "starting"
    \/ stack[i].at \in {"redirecting", "handling"} /\ transition[stack[i].id].stage = "failing"

Busy ==
    \/ \E m \in Ids : transition[m].stage \in InFlight
    \/ \E i \in 1..Len(stack) : Engaged(i)

Waits == waiting # {} <=> Busy

\* Subscribers navigate neither from within the cancellation of a superseded navigation nor
\* from an error handler.
NoReentryOnError == ReactsTo \cap {"superseded", "handling"} = {}

\* A navigation whose error is being handled has not been superseded.
Handling ==
    stack # <<>> /\ stack[Len(stack)].at = "handling" =>
        transition[stack[Len(stack)].id].stage = "failing"

IInvBusy == IInvPlaced /\ Handling /\ Waits

\* The innermost call, of n, is not engaged and ends, and so may n.
LEMMA BusySame ==
    ASSUME IInvOne, stack # <<>>, ~Engaged(Len(stack)),
           \/ Returns
           \/ \E q : q \notin {"started", "redirecting", "handling"} /\ GoesTo(q),
           \/ UNCHANGED transition
           \/ \E n \in Ids :
                /\ stack[Len(stack)].id = n /\ stack[Len(stack)].at # "superseded"
                /\ transition[n].stage \notin InFlight /\ Staged(n, "done")
    PROVE  Busy' <=> Busy
<1>. USE DEF IInvOne, IInv
<1>1. Len(stack) \in Nat /\ Len(stack) >= 1
  BY Depth
<1>2. \A m \in Ids : transition'[m].stage \in InFlight <=> transition[m].stage \in InFlight
  BY DEF Staged, InFlight
<1>3. \A i \in 1..Len(stack) : i # Len(stack) =>
        /\ i \in 1..Len(stack') /\ stack'[i].at = stack[i].at /\ stack'[i].id = stack[i].id
  BY <1>1 DEF Returns, GoesTo
<1>4. \A i \in 1..Len(stack) : i # Len(stack) => (Engaged(i)' <=> Engaged(i))
  <2>. SUFFICES ASSUME NEW i \in 1..Len(stack), i # Len(stack)
                PROVE  Engaged(i)' <=> Engaged(i)
    OBVIOUS
  <2>1. CASE UNCHANGED transition
    BY <1>3, <2>1 DEF Engaged
  <2>2. ASSUME NEW n \in Ids, stack[Len(stack)].id = n, stack[Len(stack)].at # "superseded",
               Staged(n, "done")
        PROVE  Engaged(i)' <=> Engaged(i)
    <3>1. stack[i].id = n => stack[i].at = "superseded"
      BY <1>1, <2>2 DEF CallsFit
    <3>2. stack[i].id \in Ids
      BY CallsAreUsed
    <3>3. stack[i].id # n => transition'[stack[i].id].stage = transition[stack[i].id].stage
      BY <2>2, <3>2 DEF Staged
    <3>. QED  BY <1>3, <3>1, <3>3 DEF Engaged
  <2>. QED  BY <2>1, <2>2
<1>5. \A i \in 1..Len(stack') : i \in 1..Len(stack) /\ (i = Len(stack) => ~Engaged(i)')
  BY <1>1 DEF Returns, GoesTo, Engaged
<1>. QED  BY <1>1, <1>2, <1>3, <1>4, <1>5 DEF Busy

\* No other navigation is in flight or starting while this call is the innermost one.
LEMMA Alone ==
    ASSUME IInvPlaced, NoReentry, NEW n \in Ids, transition[n].stage \in Subscribed,
           stack = <<>> \/ stack[Len(stack)].at \notin {"switch", "begin", "superseded"}
    PROVE  \A m \in Ids : m # n => transition[m].stage \notin InFlight \cup Subscribed
<1>. USE DEF IInvPlaced, IInvOne, IInv
<1>1. \A m \in Ids : transition[m].stage \in Subscribed => m = n
  BY DEF Own
<1>2. \A i \in 1..Len(stack) : stack[i].at \notin {"switch", "begin"}
  <2>1. CASE stack = <<>>
    BY <2>1
  <2>2. CASE stack # <<>>
    BY <2>2, BelowTop, Depth
  <2>. QED  BY <2>1, <2>2
<1>3. \A m \in Ids : transition[m].stage # "requested"
  BY <1>2 DEF Placed, Requesting
<1>4. InFlight \subseteq Subscribed \cup {"requested"}
  BY DEF InFlight, Subscribed, Running, Pending
<1>. QED  BY <1>1, <1>3, <1>4

\* The navigation the switchMap is subscribed to is the only one.
LEMMA OnlyOne ==
    ASSUME IInvPlaced, NEW n \in Ids, transition[n].stage \in Subscribed
    PROVE  /\ \A m \in Ids : m # n => transition[m].stage \notin {"guards", "load", "activating"}
           /\ RouterListens
           /\ navigationId # 0
<1>. USE DEF IInvPlaced, IInvOne, IInv
<1>1. currentTransition = n /\ currentNavigation.id = n
  BY DEF Own
<1>2. currentNavigation # NoNavigation /\ n # 0
  BY <1>1, Constants DEF NoNavigation
<1>3. n <= navigationId
  <2>1. transition[n].stage # "unused"
    BY DEF Subscribed, Running, Pending
  <2>2. ~(n > navigationId)
    BY <2>1 DEF CallsFit
  <2>. QED  BY <2>2, Constants DEF Ids, Typed
<1>4. navigationId # 0
  BY <1>3, Constants DEF Ids, Typed
<1>. QED  BY <1>1, <1>2, <1>4 DEF RouterListens, Own, Subscribed, Running, Pending

\* Nothing is in flight after a step that ends the flight of n.
LEMMA NotBusyAfter ==
    ASSUME IInvPlaced, NEW n \in Ids,
           \A m \in Ids : m # n => transition[m].stage \notin InFlight \cup Subscribed,
           NEW stage, stage \notin InFlight, Staged(n, stage) \/ (UNCHANGED transition /\ stage = transition[n].stage),
           NEW q, q \notin {"started", "redirecting", "handling"},
           \/ stack = <<>> /\ Calls(q, n)
           \/ stack # <<>> /\ GoesTo(q) /\ stack[Len(stack)].id = n /\ stack[Len(stack)].at # "superseded"
    PROVE  ~Busy'
<1>. USE DEF IInvPlaced, IInvOne, IInv
<1>1. \A m \in Ids : transition'[m].stage \notin InFlight
                     /\ (transition'[m].stage \in {"starting", "failing"} => m = n)
  BY DEF Staged, Subscribed
<1>2. CASE stack = <<>> /\ Calls(q, n)
  <2>1. \A i \in 1..Len(stack') : stack'[i].at = q
    <3>1. Len(stack) = 0 /\ Len(stack') = 1
      BY <1>2 DEF Calls
    <3>. QED  BY <1>2, <3>1 DEF Calls
  <2>. QED  BY <1>1, <2>1 DEF Busy, Engaged
<1>3. CASE stack # <<>> /\ GoesTo(q) /\ stack[Len(stack)].id = n /\ stack[Len(stack)].at # "superseded"
  <2>1. \A i \in 1..Len(stack') : ~Engaged(i)'
    <3>. SUFFICES ASSUME NEW i \in 1..Len(stack') PROVE ~Engaged(i)'
      OBVIOUS
    <3>1. i \in 1..Len(stack) /\ stack'[i].id = stack[i].id /\ stack[i].id \in Ids
          /\ stack'[i].at = IF i = Len(stack) THEN q ELSE stack[i].at
      BY <1>3, CallsAreUsed DEF GoesTo
    <3>2. i # Len(stack) /\ stack[i].id = n => stack[i].at = "superseded"
      BY <1>3, <3>1, Depth DEF CallsFit
    <3>. QED  BY <1>1, <3>1, <3>2 DEF Engaged
  <2>. QED  BY <1>1, <2>1 DEF Busy
<1>. QED  BY <1>2, <1>3

LEMMA RequestBusy ==
    ASSUME NEW n, NEW u, NEW p, Requested(n, u, p)
    PROVE  Waits' /\ Busy'
<1>1. n \in waiting' /\ n \in Ids /\ transition'[n].stage \in InFlight
  BY DEF Requested, InFlight
<1>. QED  BY <1>1 DEF Waits, Busy

LEMMA SwitchBusy ==
    ASSUME IInvOne, NEW n \in Ids, Switch(n)
    PROVE  Busy /\ Busy' /\ (Waits => Waits')
<1>. USE DEF IInvOne, IInv
<1>1. transition[n].stage = "requested" /\ UNCHANGED waiting
  BY TopStage DEF Switch, Fits
<1>2. transition'[n].stage = "requested"
  BY <1>1, SwitchCases DEF Staged, Running, Pending
<1>. QED  BY <1>1, <1>2 DEF Waits, Busy, InFlight

\* A navigation that starts is in flight, and one that is skipped ends the task.
LEMMA BeginBusy ==
    ASSUME IInvPlaced, NEW n \in Ids, Begin(n)
    PROVE  (Waits => Waits') /\ (Busy' \/ IsSameUrl(n))
<1>. USE DEF IInvPlaced, IInvOne, IInv
<1>1. /\ At("begin", n) /\ Staged(n, "starting")
      /\ \/ IsSameUrl(n) /\ waiting' = {} /\ GoesTo("skipped")
         \/ GoesTo("started") /\ UNCHANGED waiting
  BY BeginCases, BeginsLast, Constants
<1>2. /\ stack # <<>> /\ stack[Len(stack)].at = "begin" /\ stack[Len(stack)].id = n
      /\ transition[n].stage = "requested" /\ Len(stack) \in 1..Len(stack)
  BY <1>1, TopCall, TopStage, Depth DEF Fits
<1>3. CASE IsSameUrl(n) /\ waiting' = {} /\ GoesTo("skipped")
  <2>1. ASSUME NEW m \in Ids, m # n
        PROVE  transition[m].stage \notin InFlight \cup Subscribed
    <3>1. n = navigationId /\ transition[m].stage \notin Subscribed
      BY <1>1, BeginsLast
    <3>2. transition[m].stage # "requested"
      BY <2>1, <3>1 DEF Placed, Requesting, CallOrder
    <3>. QED  BY <3>1, <3>2 DEF InFlight, Subscribed, Running, Pending
  <2>2. ~Busy'
    BY <1>1, <1>2, <1>3, <2>1, NotBusyAfter DEF InFlight
  <2>. QED  BY <1>3, <2>2 DEF Waits
<1>4. CASE GoesTo("started") /\ UNCHANGED waiting
  <2>1. Engaged(Len(stack))' /\ Len(stack) \in 1..Len(stack')
    <3>1. Len(stack') = Len(stack) /\ stack'[Len(stack)].at = "started" /\ stack'[Len(stack)].id = n
      BY <1>2, <1>4 DEF GoesTo
    <3>. QED  BY <1>1, <1>2, <3>1 DEF Engaged, Staged
  <2>2. Busy' /\ Busy
    BY <1>2, <2>1 DEF Busy, InFlight
  <2>. QED  BY <1>4, <2>2 DEF Waits
<1>. QED  BY <1>1, <1>3, <1>4

LEMMA LeaveBusy ==
    ASSUME IInvOne, NEW p, NEW n \in Ids, At(p, n), Leave(n),
           p \in {"started", "skipped", "outdated", "rejected", "errored", "ended", "failed"},
           p = "started" => transition[n].stage = "cut"
    PROVE  Busy' <=> Busy
<1>. USE DEF IInvOne, IInv
<1>1. /\ stack # <<>> /\ stack[Len(stack)].at = p /\ stack[Len(stack)].id = n
      /\ Fits(p, transition[n].stage)
  BY TopCall, TopStage
<1>2. ~Engaged(Len(stack))
  BY <1>1 DEF Engaged
<1>3. transition[n].stage \notin InFlight
  BY <1>1 DEF Fits, InFlight
<1>4. /\ Returns \/ GoesTo("superseded")
      /\ UNCHANGED transition \/ Staged(n, "done")
  BY LeaveCases
<1>. QED  BY <1>1, <1>2, <1>3, <1>4, BusySame

LEMMA StartedBusy ==
    ASSUME IInvOne, NEW n \in Ids, Started(n)
    PROVE  (Waits => Waits') /\ (transition[n].stage = "cut" \/ Busy')
<1>. USE DEF IInvOne, IInv
<1>1. At("started", n) /\ UNCHANGED waiting
  BY DEF Started
<1>2. CASE transition[n].stage = "cut" /\ Leave(n)
  BY <1>1, <1>2, LeaveBusy DEF Waits
<1>3. CASE transition[n].stage = "starting" /\ Staged(n, "recognize")
  <2>1. Engaged(Len(stack)) /\ Len(stack) \in 1..Len(stack)
    BY <1>1, <1>3, TopCall, Depth DEF Engaged
  <2>2. transition'[n].stage = "recognize"
    BY <1>3 DEF Staged
  <2>. QED  BY <1>1, <2>1, <2>2 DEF Waits, Busy, InFlight
<1>. QED  BY <1>2, <1>3, StartedCases

\* A redirect that comes too late finds no current navigation, and is not engaged.
LEMMA RedirectBusy ==
    ASSUME IInvPlaced, NEW n \in Ids, RedirectRequest(n)
    PROVE  /\ Waits => Waits'
           /\ RouterListens \/ (UNCHANGED <<navigationId, transition>> /\ (Busy' <=> Busy))
<1>. USE DEF IInvPlaced, IInvOne, IInv
<1>1. At("redirecting", n)
  BY RedirectCases
<1>2. CASE RouterListens
  BY <1>2, RedirectCases, RequestBusy
<1>3. CASE ~RouterListens /\ GoesTo("failed") /\ UNCHANGED <<navigationId, transition, waiting>>
  <2>1. transition[n].stage # "failing"
    BY <1>3, OnlyOne DEF Subscribed
  <2>2. stack # <<>> /\ ~Engaged(Len(stack))
    BY <1>1, <2>1, TopCall DEF Engaged
  <2>3. Busy' <=> Busy
    BY <1>3, <2>2, BusySame
  <2>. QED  BY <1>3, <2>3 DEF Waits
<1>. QED  BY <1>2, <1>3, RedirectCases

\* Handling an error redirects, or reports it; of a superseded navigation nothing was awaited.
LEMMA HandledBusy ==
    ASSUME IInvPlaced, NoReentry, NEW n \in Ids, Handled(n)
    PROVE  /\ Waits /\ transition[n].stage = "failing" => Waits'
           /\ GoesTo("redirecting") \/ transition[n].stage # "failing" => (Busy' <=> Busy)
<1>. USE DEF IInvPlaced, IInvOne, IInv
<1>1. /\ At("handling", n) /\ UNCHANGED transition
      /\ \/ GoesTo("redirecting") /\ UNCHANGED waiting
         \/ GoesTo("errored") /\ waiting' = {}
  BY HandledCases
<1>2. /\ stack # <<>> /\ stack[Len(stack)].at = "handling" /\ stack[Len(stack)].id = n
      /\ Len(stack) \in 1..Len(stack)
  BY <1>1, TopCall, Depth
<1>3. ASSUME GoesTo("redirecting")
      PROVE  Busy' <=> Busy
  <2>1. Len(stack') = Len(stack) /\ \A i \in 1..Len(stack) : Engaged(i)' <=> Engaged(i)
    BY <1>1, <1>2, <1>3 DEF Engaged, GoesTo
  <2>. QED  BY <1>1, <2>1 DEF Busy
<1>4. ASSUME GoesTo("errored"), transition[n].stage # "failing"
      PROVE  Busy' <=> Busy
  <2>1. ~Engaged(Len(stack))
    BY <1>2, <1>4 DEF Engaged
  <2>. QED  BY <1>1, <1>2, <1>4, <2>1, BusySame
<1>5. ASSUME GoesTo("errored"), transition[n].stage = "failing"
      PROVE  ~Busy'
  <2>1. \A m \in Ids : m # n => transition[m].stage \notin InFlight \cup Subscribed
    BY <1>2, <1>5, Alone DEF Subscribed
  <2>2. "failing" \notin InFlight
    BY DEF InFlight
  <2>. QED  BY <1>1, <1>2, <1>5, <2>1, <2>2, NotBusyAfter
<1>. QED  BY <1>1, <1>3, <1>4, <1>5 DEF Waits

LEMMA ActivatedBusy ==
    ASSUME IInvPlaced, NoReentry, NEW n \in Ids, Activated(n) \/ ActivationThrows(n)
    PROVE  /\ Waits => Waits'
           /\ transition[n].stage = "activating" \/ (Busy' <=> Busy)
<1>. USE DEF IInvPlaced, IInvOne, IInv
<1>1. At("activating", n)
  BY ActivatedCases
<1>2. /\ stack # <<>> /\ stack[Len(stack)].at = "activating" /\ stack[Len(stack)].id = n
      /\ Len(stack) \in 1..Len(stack)
  BY <1>1, TopCall, Depth
<1>3. CASE transition[n].stage = "activating" /\ Staged(n, "ending") /\ GoesTo("ended") /\ waiting' = {}
  <2>1. \A m \in Ids : m # n => transition[m].stage \notin InFlight \cup Subscribed
    BY <1>2, <1>3, Alone DEF Subscribed, Running
  <2>2. ~Busy'
    BY <1>2, <1>3, <2>1, NotBusyAfter DEF InFlight
  <2>. QED  BY <1>3, <2>2 DEF Waits
<1>4. CASE /\ transition[n].stage = "activating" /\ Staged(n, "failing") /\ GoesTo("handling")
           /\ UNCHANGED waiting
  <2>1. Engaged(Len(stack))' /\ Len(stack') = Len(stack)
    BY <1>2, <1>4 DEF Engaged, GoesTo, Staged
  <2>. QED  BY <1>2, <1>4, <2>1 DEF Waits, Busy, InFlight
<1>5. CASE Returns /\ UNCHANGED <<transition, waiting>>
  BY <1>2, <1>5, BusySame DEF Engaged, Waits
<1>. QED  BY <1>3, <1>4, <1>5, ActivatedCases

\* What arrives takes a navigation further, or ends its flight.
LEMMA ArriveBusy ==
    ASSUME IInvPlaced, NoReentry, NEW n \in Ids, Arrive(n)
    PROVE  (Waits => Waits') /\ (Reject(n) \/ Busy')
<1>. USE DEF IInvPlaced, IInvOne, IInv
<1>1. stack = <<>> /\ transition[n].stage \in Pending
  BY DEF Arrive, Recognized, GuardsPassed, Reject, Redirect, Throw, Activate, Awaits, Pending
<1>2. Busy
  BY <1>1 DEF Busy, InFlight, Pending
<1>3. ASSUME Staged(n, "guards") \/ Staged(n, "load") \/ Staged(n, "activating")
      PROVE  Busy'
  BY <1>3 DEF Busy, InFlight, Staged
<1>4. ASSUME Staged(n, "failing"), Calls("redirecting", n) \/ Calls("handling", n)
      PROVE  Busy'
  <2>1. Len(stack') = 1
    BY <1>1, <1>4 DEF Calls
  <2>2. Engaged(1)'
    BY <1>4, <2>1 DEF Calls, Engaged, Staged
  <2>. QED  BY <2>1, <2>2 DEF Busy
<1>5. CASE Recognized(n)
  BY <1>2, <1>3, <1>5, RecognizedCases DEF Waits
<1>6. CASE GuardsPassed(n)
  <2>1. Staged(n, "load")
    BY <1>6, StageEffect DEF GuardsPassed, Stages, Running, Pending
  <2>. QED  BY <1>2, <1>3, <1>6, <2>1 DEF Waits, GuardsPassed
<1>7. CASE Reject(n)
  <2>1. /\ \E stage \in {"failing", "rejected"} : Staged(n, stage)
        /\ Calls("rejected", n) /\ waiting' = {}
    <3>1. stack' = <<Frame("rejected", n)>> /\ waiting' = {}
      BY <1>7 DEF Reject
    <3>2. \E stage \in {"failing", "rejected"} : Staged(n, stage)
      BY <1>7, InterruptedCases
    <3>. QED  BY <1>1, <3>1, <3>2, FrameType, FirstCall DEF PlainPoints, Points, Emissions, Frames
  <2>2. \A m \in Ids : m # n => transition[m].stage \notin InFlight \cup Subscribed
    BY <1>1, Alone DEF Subscribed, Running
  <2>3. ~Busy'
    BY <1>1, <2>1, <2>2, NotBusyAfter DEF InFlight
  <2>. QED  BY <1>7, <2>1, <2>3 DEF Waits
<1>8. CASE Redirect(n) \/ Throw(n)
  <2>1. /\ UNCHANGED waiting /\ Staged(n, "failing")
        /\ Calls("redirecting", n) \/ Calls("handling", n)
    <3>1. UNCHANGED waiting
      BY <1>8 DEF Redirect, Throw
    <3>2. stack'[Len(stack')].at # "rejected"
      <4>1. CASE Redirect(n)
        BY <4>1 DEF Redirect, Frame
      <4>2. CASE Throw(n)
        BY <1>1, <4>2 DEF Throw, Throws, Frame
      <4>. QED  BY <1>8, <4>1, <4>2
    <3>. QED  BY <1>8, <3>1, <3>2, InterruptedCases DEF Calls
  <2>. QED  BY <1>2, <1>4, <2>1 DEF Waits
<1>9. CASE Activate(n)
  BY <1>2, <1>3, <1>4, <1>9, ActivateCases DEF Waits
<1>. QED  BY <1>5, <1>6, <1>7, <1>8, <1>9 DEF Arrive

LEMMA CallBusy ==
    ASSUME IInvBusy, NoReentry, NEW n \in Ids, Call(n)
    PROVE  Waits'
<1>. USE DEF IInvBusy, IInvPlaced, IInvOne, IInv
<1>1. CASE Switch(n)
  BY <1>1, SwitchBusy
<1>2. CASE Finish(n)
  <2>1. PICK p \in {"skipped", "outdated", "rejected", "errored", "ended"} : At(p, n)
    BY <1>2 DEF Finish
  <2>2. Leave(n) /\ UNCHANGED waiting
    BY <1>2 DEF Finish
  <2>. QED  BY <2>1, <2>2, LeaveBusy DEF Waits
<1>3. CASE Failed(n)
  BY <1>3, LeaveBusy DEF Failed, Waits
<1>4. CASE Superseded(n)
  <2>1. At("superseded", n) /\ stack' = Return /\ UNCHANGED <<transition, waiting>>
    BY <1>4 DEF Superseded
  <2>2. stack # <<>> /\ Returns /\ ~Engaged(Len(stack))
    BY <2>1, TopCall, ReturnEffect DEF Engaged
  <2>. QED  BY <2>1, <2>2, BusySame DEF Waits
<1>5. CASE Handled(n)
  <2>1. transition[n].stage = "failing"
    BY <1>5, TopCall DEF Handled, Handling
  <2>. QED  BY <1>5, <2>1, HandledBusy
<1>. QED  BY <1>1, <1>2, <1>3, <1>4, <1>5, BeginBusy, StartedBusy, RedirectBusy, ActivatedBusy DEF Call

\* The top is no handler, or its navigation fails.
LEMMA HandlingKept ==
    ASSUME IInvOne, NoReentryOnError, stack # <<>>,
           \/ Returns
           \/ \E p : p # "handling" /\ GoesTo(p)
           \/ \E p, q, n : q # "handling" /\ GoesAndCalls(p, q, n)
    PROVE  Handling'
<1>1. Len(stack) \in Nat /\ Len(stack) >= 1
  BY Depth DEF IInvOne, IInv
<1>2. CASE Returns
  <2>. SUFFICES ASSUME stack' # <<>>
                PROVE  stack'[Len(stack')].at # "handling"
    BY DEF Handling
  <2>1. Len(stack') = Len(stack) - 1 /\ Len(stack') \in Nat /\ Len(stack') # 0
    BY <1>1, <1>2, EmptySeq DEF Returns
  <2>2. /\ Len(stack') \in 1..Len(stack) /\ Len(stack') < Len(stack)
        /\ stack'[Len(stack')].at = stack[Len(stack')].at
    BY <1>1, <1>2, <2>1 DEF Returns
  <2>3. "handling" \notin ReactsTo \cup {"failed", "begin"}
    BY DEF NoReentryOnError
  <2>. QED  BY <2>2, <2>3 DEF IInvOne, CallOrder
<1>3. ASSUME NEW p, p # "handling", GoesTo(p)
      PROVE  Handling'
  BY <1>1, <1>3 DEF GoesTo, Handling
<1>4. ASSUME NEW p, NEW q, NEW n, q # "handling", GoesAndCalls(p, q, n)
      PROVE  Handling'
  BY <1>4 DEF GoesAndCalls, Handling
<1>. QED  BY <1>2, <1>3, <1>4

\* A call that goes on returns or calls another.  It is about to redirect after it has
\* handled an error, and handles one of its own; no navigation gets its target from it.
LEMMA CallMoves ==
    ASSUME Typed, CallsFit, NEW n \in Ids, Call(n)
    PROVE  /\ stack # <<>>
           /\ \/ Returns
              \/ \E q : q \notin {"redirecting", "handling"} /\ GoesTo(q)
              \/ \E p, q, m : {p, q} \cap {"redirecting", "handling"} = {} /\ GoesAndCalls(p, q, m)
              \/ stack[Len(stack)].at = "handling" /\ GoesTo("redirecting") /\ UNCHANGED transition
              \/ /\ stack[Len(stack)].id = n /\ transition[n].stage = "activating"
                 /\ Staged(n, "failing") /\ GoesTo("handling")
           /\ \A m \in Ids : transition'[m].stage \in {"guards", "load", "activating"} =>
                                 transition'[m].stage = transition[m].stage
<1>1. ASSUME NEW p, At(p, n), Leave(n)
      PROVE  /\ stack # <<>> /\ (Returns \/ GoesTo("superseded"))
             /\ UNCHANGED transition \/ Staged(n, "done")
  BY <1>1, LeaveCases, TopCall
<1>2. CASE Switch(n)
  <2>1. stack # <<>> /\ (GoesTo("begin") \/ GoesAndCalls("begin", "superseded", inner))
    BY <1>2, SwitchCases DEF Switch, At
  <2>2. UNCHANGED transition \/ \E m, q : q \in {"cut", "done"} /\ Staged(m, q)
    BY <1>2, SwitchCases
  <2>. QED  BY <2>1, <2>2 DEF Staged
<1>3. CASE Begin(n)
  <2>1. /\ stack # <<>> /\ Staged(n, "starting")
        /\ \E q \in {"outdated", "skipped", "started"} : GoesTo(q)
    BY <1>3, BeginCases DEF Begin, At
  <2>. QED  BY <2>1 DEF Staged
<1>4. CASE Started(n)
  <2>1. At("started", n) /\ stack # <<>>
    BY <1>4 DEF Started, At
  <2>2. CASE Leave(n)
    BY <1>1, <2>1, <2>2 DEF Staged
  <2>3. CASE Staged(n, "recognize") /\ Returns
    BY <2>1, <2>3 DEF Staged
  <2>. QED  BY <1>4, <2>2, <2>3, StartedCases
<1>5. CASE Finish(n) \/ Failed(n)
  <2>1. \E p : At(p, n) /\ Leave(n)
    BY <1>5 DEF Finish, Failed
  <2>. QED  BY <1>1, <2>1 DEF Staged
<1>6. CASE Superseded(n)
  <2>1. stack # <<>> /\ Returns /\ UNCHANGED transition
    BY <1>6, ReturnEffect DEF Superseded, At
  <2>. QED  BY <2>1
<1>7. CASE RedirectRequest(n)
  <2>1. stack # <<>> /\ (GoesTo("failed") \/ GoesAndCalls("failed", "switch", navigationId + 1))
    BY <1>7, RedirectCases DEF RedirectRequest, At
  <2>2. UNCHANGED transition \/ \E m, u, p : Requested(m, u, p)
    BY <1>7, RedirectCases
  <2>. QED  BY <2>1, <2>2 DEF Requested
<1>8. CASE Handled(n)
  <2>1. /\ At("handling", n) /\ UNCHANGED transition
        /\ GoesTo("redirecting") \/ GoesTo("errored")
    BY <1>8, HandledCases
  <2>2. stack # <<>> /\ stack[Len(stack)].at = "handling"
    BY <2>1, TopCall
  <2>. QED  BY <2>1, <2>2
<1>9. CASE Activated(n) \/ ActivationThrows(n)
  <2>1. stack # <<>> /\ stack[Len(stack)].id = n
    BY <1>9, ActivatedCases, TopCall
  <2>2. \/ Staged(n, "ending") /\ GoesTo("ended")
        \/ transition[n].stage = "activating" /\ Staged(n, "failing") /\ GoesTo("handling")
        \/ UNCHANGED transition /\ Returns
    BY <1>9, ActivatedCases
  <2>. QED  BY <2>1, <2>2 DEF Staged
<1>. QED  BY <1>2, <1>3, <1>4, <1>5, <1>6, <1>7, <1>8, <1>9 DEF Call

\* What arrives finds no call, and may make one.
LEMMA ArriveMoves ==
    ASSUME Typed, CallsFit, NEW n \in Ids, Arrive(n)
    PROVE  /\ stack = <<>> /\ transition[n].stage \in Pending
           /\ \/ UNCHANGED stack
              \/ Calls("rejected", n)
              \/ Calls("activating", n)
              \/ Staged(n, "failing") /\ (Calls("redirecting", n) \/ Calls("handling", n))
<1>1. CASE Recognized(n) \/ GuardsPassed(n)
  BY <1>1 DEF Recognized, GuardsPassed, Awaits, Pending
<1>2. CASE Reject(n) \/ Redirect(n) \/ Throw(n)
  BY <1>2, InterruptedCases
<1>3. CASE Activate(n)
  BY <1>3, ActivateCases DEF Pending
<1>. QED  BY <1>1, <1>2, <1>3 DEF Arrive

LEMMA HandlingNext == IInvOne /\ Handling /\ NoReentryOnError /\ [Next]_vars => Handling'
<1>. SUFFICES ASSUME IInvOne, Handling, NoReentryOnError, [Next]_vars PROVE Handling'
  OBVIOUS
<1>. USE DEF IInvOne, IInv
<1>1. CASE UNCHANGED vars
  BY <1>1 DEF vars, Handling
<1>2. CASE Navigate \/ SyncWithBrowser
  <2>1. Calls("switch", navigationId + 1)
    BY <1>2, NavigateCalls, SyncCalls
  <2>. QED  BY <2>1 DEF Calls, Handling
<1>3. CASE BackOrForward \/ HistoryGo
  BY <1>3 DEF BackOrForward, HistoryGo, Handling
<1>4. ASSUME NEW n \in Ids, Call(n)
      PROVE  Handling'
  <2>1. ASSUME stack # <<>>, stack[Len(stack)].id = n, Staged(n, "failing"), GoesTo("handling")
        PROVE  Handling'
    <3>1. Len(stack') = Len(stack) /\ stack'[Len(stack')].id = n
      BY <2>1, Depth DEF GoesTo
    <3>. QED  BY <2>1, <3>1 DEF Handling, Staged
  <2>. QED  BY <1>4, <2>1, CallMoves, HandlingKept
<1>5. ASSUME NEW n \in Ids, Arrive(n)
      PROVE  Handling'
  <2>1. CASE UNCHANGED stack
    <3>1. stack = <<>>
      BY <1>5, ArriveMoves
    <3>. QED  BY <2>1, <3>1 DEF Handling
  <2>2. CASE \/ Calls("rejected", n) \/ Calls("activating", n)
             \/ Staged(n, "failing") /\ (Calls("redirecting", n) \/ Calls("handling", n))
    BY <2>2 DEF Calls, Handling, Staged
  <2>. QED  BY <1>5, <2>1, <2>2, ArriveMoves
<1>. QED  BY <1>1, <1>2, <1>3, <1>4, <1>5 DEF Next

LEMMA BusyInit == Init => Waits
BY Constants DEF Init, Waits, Busy, NoTransition, InFlight

LEMMA BusyNext == NoReentry /\ IInvBusy /\ [Next]_vars => Waits'
<1>. SUFFICES ASSUME NoReentry, IInvBusy, [Next]_vars PROVE Waits'
  OBVIOUS
<1>. USE DEF IInvBusy, IInvPlaced, IInvOne, IInv
<1>1. CASE UNCHANGED vars
  BY <1>1 DEF vars, Waits, Busy, Engaged
<1>2. CASE Navigate \/ SyncWithBrowser
  BY <1>2, NavigateCalls, SyncCalls, RequestBusy
<1>3. CASE BackOrForward \/ HistoryGo
  BY <1>3 DEF BackOrForward, HistoryGo, Waits, Busy, Engaged
<1>. QED  BY <1>1, <1>2, <1>3, CallBusy, ArriveBusy DEF Next

LEMMA BusyInvariant == NoReentryOnError => (Spec => []IInvBusy)
<1>. SUFFICES ASSUME NoReentryOnError PROVE Spec => []IInvBusy
  OBVIOUS
<1>1. NoReentry
  BY DEF NoReentryOnError, NoReentry
<1>2. Init => IInvBusy
  <2>1. Init => Handling
    BY DEF Init, Handling
  <2>. QED  BY <2>1, InvInit, OneInit, PlacedInit, BusyInit DEF IInvBusy, IInvPlaced, IInvOne
<1>3. IInvBusy /\ [Next]_vars => IInvBusy'
  BY <1>1, InvNext, OneNext, PlacedNext, HandlingNext, BusyNext DEF IInvBusy, IInvPlaced, IInvOne
<1>. QED  BY <1>2, <1>3, PTL DEF Spec

\* Between two tasks of the event loop only a running navigation is in flight.
LEMMA RunningIsBusy ==
    ASSUME IInvPlaced, stack = <<>>
    PROVE  Busy <=> \E n \in Ids : IsRunning(n)
<1>1. Len(stack) = 0
  OBVIOUS
<1>2. \A n \in Ids : transition[n].stage \notin {"requested", "rejected"}
  BY <1>1 DEF IInvPlaced, Placed, Requesting, OnTop, Subscribed, Running, Pending
<1>. QED  BY <1>1, <1>2 DEF Busy, InFlight, IsRunning, Running, Pending

\* "Indicate that the navigation is happening": between two tasks of the event loop
\* some navigation's pending task is there exactly while a navigation runs.  The
\* application is not stable before its navigation is done, and none that is
\* superseded, redirects or fails leaves its task behind.
THEOREM TaskIsNeverLeft == NoReentryOnError => (Spec => []TaskWhileNavigating)
<1>1. IInvBusy => TaskWhileNavigating
  BY RunningIsBusy DEF IInvBusy, Waits, TaskWhileNavigating
<1>. QED  BY <1>1, BusyInvariant, PTL

----------------------------------------------------------------------------
(* What the URL bar, the router and the outlets show. *)

\* The router's URL is in the URL bar, or a popstate event will tell the router.
Agrees == Entry.url = state.url \/ popstates # <<>>

\* With eager updates the URL bar shows the target from when it is known, until the
\* user or another navigation takes it away.  A navigation activates what is there.
Bound(n) ==
    /\ transition[n].stage \in {"guards", "load"} /\ options.urlUpdateStrategy = "eager" =>
         \/ Entry.url = currentNavigation.final
         \/ popstates # <<>>
         \/ \E m \in Ids : transition[m].stage = "requested"
    /\ transition[n].stage = "activating" => Agrees

UrlOK ==
    options.canceledNavigationResolution = "replace" =>
        /\ traversals = <<>>
        /\ navigationId = 0 => shown = 0
        /\ navigationId = 0 \/ Agrees \/ Busy
        /\ \A n \in Ids : Bound(n)

\* While a call is about to redirect or handles an error, no navigation has its target
\* yet: one that subscribers request from within it does not get that far.
Unbound ==
    \A i \in 1..Len(stack) : stack[i].at \in {"redirecting", "handling"} =>
        \A m \in Ids : transition[m].stage \notin {"guards", "load", "activating"}

IInvUrl == IInvPlaced /\ Unbound /\ Outlets /\ ShownOK /\ UrlOK

\* A navigation is requested: what was awaited is of no account any more.
LEMMA RequestUrl ==
    ASSUME IInvUrl, NEW n, NEW u, NEW p, Requested(n, u, p),
           UNCHANGED <<options, state, history, traversals, shown>>,
           UNCHANGED popstates \/ stack = <<>>
    PROVE  UrlOK'
<1>1. Busy' /\ n \in Ids /\ transition'[n].stage = "requested" /\ navigationId' # 0
  BY RequestBusy, Constants DEF Requested, IInvUrl, IInvPlaced, IInvOne, IInv, Typed
<1>2. ASSUME UrlOK, NEW m \in Ids, transition'[m].stage = "activating", traversals = <<>>,
             Bound(m)
      PROVE  Agrees'
  <2>1. transition[m].stage = "activating"
    BY <1>2 DEF Requested
  <2>2. stack # <<>>
    <3>1. stack = <<>> => Len(stack) = 0
      OBVIOUS
    <3>. QED  BY <2>1, <3>1 DEF IInvUrl, IInvPlaced, Placed, OnTop, Subscribed, Running, Pending
  <2>. QED  BY <1>2, <2>1, <2>2 DEF Bound, Agrees, Entry
<1>. QED  BY <1>1, <1>2 DEF UrlOK, Bound, IInvUrl

\* The bar, the router and what is awaited stay as they are.
LEMMA UrlKept ==
    ASSUME IInvUrl, UNCHANGED <<options, navigationId, state, history, traversals, popstates>>,
           shown' = shown \/ navigationId # 0,
           Busy => Busy',
           \A n \in Ids : transition'[n].stage \in {"guards", "load"} =>
               transition[n].stage \in {"guards", "load"} /\ UNCHANGED currentNavigation,
           \A n \in Ids : transition'[n].stage = "activating" => transition[n].stage = "activating",
           \A n \in Ids : transition[n].stage = "requested" => transition'[n].stage = "requested"
    PROVE  UrlOK'
BY DEF IInvUrl, UrlOK, Bound, Agrees, Entry

\* No navigation is bound to a URL after the step.
LEMMA UrlFree ==
    ASSUME IInvUrl, UNCHANGED <<options, navigationId>>, navigationId # 0,
           options.canceledNavigationResolution = "replace" => traversals' = traversals,
           options.canceledNavigationResolution = "replace" => Agrees' \/ Busy',
           \A n \in Ids : transition'[n].stage \notin {"guards", "load", "activating"}
    PROVE  UrlOK'
BY DEF IInvUrl, UrlOK, Bound

LEMMA SwitchUrl ==
    ASSUME IInvUrl, NEW n \in Ids, Switch(n)
    PROVE  UrlOK'
<1>. USE DEF IInvUrl, IInvPlaced, IInvOne, IInv
<1>1. Busy /\ Busy' /\ UNCHANGED <<options, navigationId, state, history, traversals, popstates, shown>>
  BY SwitchBusy DEF Switch
<1>2. /\ \A m \in Ids : transition'[m].stage \in {"guards", "load", "activating"} =>
             transition'[m].stage = transition[m].stage
      /\ \A m \in Ids : transition[m].stage = "requested" => transition'[m].stage = "requested"
  BY SwitchCases DEF Staged, Running, Pending
<1>3. \A m \in Ids : transition'[m].stage \in {"guards", "load"} => UNCHANGED currentNavigation
  <2>1. CASE UNCHANGED currentNavigation
    BY <2>1
  <2>2. CASE inner \in Ids /\ transition[inner].stage \in {"failing", "ending"}
    BY <1>2, <2>2 DEF Own, Subscribed, Running, Pending
  <2>. QED  BY <2>1, <2>2, SwitchCases
<1>. QED  BY <1>1, <1>2, <1>3, UrlKept

LEMMA BeginUrl ==
    ASSUME IInvUrl, NoReentry, NEW n \in Ids, Begin(n)
    PROVE  UrlOK'
<1>. USE DEF IInvUrl, IInvPlaced, IInvOne, IInv
<1>1. /\ At("begin", n) /\ Staged(n, "starting") /\ n = navigationId /\ n # 0
      /\ UNCHANGED <<options, navigationId, state, history, traversals, popstates, shown>>
  BY BeginCases, BeginsLast, Constants DEF Begin
<1>2. \A m \in Ids : transition'[m].stage \notin {"guards", "load", "activating"}
  BY <1>1, BeginsLast DEF Staged, Subscribed, Running, Pending
<1>3. Busy' \/ Agrees'
  BY <1>1, BeginBusy DEF IsSameUrl, Agrees, Entry
<1>. QED  BY <1>1, <1>2, <1>3, UrlFree

LEMMA LeaveUrl ==
    ASSUME IInvUrl, NEW p, NEW n \in Ids, At(p, n), Leave(n),
           p \in {"started", "skipped", "outdated", "rejected", "errored", "ended", "failed"},
           p = "started" => transition[n].stage = "cut",
           UNCHANGED <<options, navigationId, state, history, traversals, popstates, shown>>
    PROVE  UrlOK'
<1>. USE DEF IInvUrl, IInvPlaced, IInvOne, IInv
<1>1. Busy' <=> Busy
  BY LeaveBusy
<1>2. Fits(p, transition[n].stage)
  BY TopStage
<1>3. UNCHANGED transition \/ Staged(n, "done")
  BY LeaveCases
<1>4. \A m \in Ids :
        /\ transition'[m].stage \in {"guards", "load", "activating"} =>
             transition'[m].stage = transition[m].stage
        /\ transition[m].stage = "requested" => transition'[m].stage = "requested"
  BY <1>2, <1>3 DEF Staged, Fits
<1>5. \A m \in Ids : transition'[m].stage \in {"guards", "load"} => UNCHANGED currentNavigation
  <2>1. CASE UNCHANGED currentNavigation
    BY <2>1
  <2>2. CASE transition[n].stage \notin {"done", "cut"}
    BY <1>2, <1>4, <2>2 DEF Fits, Own, Subscribed, Running, Pending
  <2>. QED  BY <2>1, <2>2, LeaveCases
<1>. QED  BY <1>1, <1>4, <1>5, UrlKept

LEMMA StartedUrl ==
    ASSUME IInvUrl, NoReentry, NEW n \in Ids, Started(n)
    PROVE  UrlOK'
<1>. USE DEF IInvUrl, IInvPlaced, IInvOne, IInv
<1>1. /\ At("started", n)
      /\ UNCHANGED <<options, navigationId, state, history, traversals, popstates, shown>>
  BY DEF Started
<1>2. CASE transition[n].stage = "cut" /\ Leave(n)
  BY <1>1, <1>2, LeaveUrl
<1>3. CASE transition[n].stage = "starting" /\ Staged(n, "recognize")
  <2>1. Busy'
    BY <1>3, StartedBusy
  <2>2. \A m \in Ids : transition'[m].stage \notin {"guards", "load", "activating"}
    BY <1>3 DEF Staged, Own, Subscribed, Running, Pending
  <2>3. navigationId # 0
    BY <1>1, TopStage, Constants DEF Typed, Ids
  <2>. QED  BY <1>1, <2>1, <2>2, <2>3, UrlFree
<1>. QED  BY <1>2, <1>3, StartedCases

LEMMA SupersededUrl ==
    ASSUME IInvUrl, NEW n \in Ids, Superseded(n)
    PROVE  UrlOK'
<1>. USE DEF IInvUrl, IInvPlaced, IInvOne, IInv
<1>1. /\ At("superseded", n) /\ stack' = Return /\ Clear(n)
      /\ UNCHANGED <<options, navigationId, transition, state, history, traversals, popstates, shown>>
  BY DEF Superseded
<1>2. stack # <<>> /\ Returns /\ ~Engaged(Len(stack)) /\ transition[n].stage = "done"
  BY <1>1, TopCall, TopStage, ReturnEffect DEF Engaged, Fits
<1>3. Busy' <=> Busy
  BY <1>1, <1>2, BusySame
<1>4. \A m \in Ids : transition[m].stage \in {"guards", "load"} => UNCHANGED currentNavigation
  BY <1>1, <1>2 DEF Clear, Own, Subscribed, Running, Pending
<1>. QED  BY <1>1, <1>3, <1>4, UrlKept

LEMMA RedirectRequestUrl ==
    ASSUME IInvUrl, NEW n \in Ids, RedirectRequest(n)
    PROVE  UrlOK'
<1>. USE DEF IInvUrl, IInvPlaced, IInvOne, IInv
<1>1. UNCHANGED <<options, state, history, traversals, shown, popstates, currentNavigation>>
  BY DEF RedirectRequest
<1>2. CASE RouterListens
  BY <1>1, <1>2, RedirectCases, RequestUrl
<1>3. CASE ~RouterListens
  <2>1. UNCHANGED <<navigationId, transition>> /\ (Busy' <=> Busy)
    BY <1>3, RedirectBusy
  <2>. QED  BY <1>1, <2>1, UrlKept
<1>. QED  BY <1>2, <1>3

\* An error restores what the current navigation found, if there is one.
LEMMA HandledUrl ==
    ASSUME IInvUrl, NoReentry, NEW n \in Ids, Handled(n)
    PROVE  UrlOK'
<1>. USE DEF IInvUrl, IInvPlaced, IInvOne, IInv
<1>1. /\ At("handling", n)
      /\ UNCHANGED <<options, navigationId, transition, currentNavigation, popstates, shown>>
      /\ \/ GoesTo("redirecting") /\ UNCHANGED <<state, history, traversals>>
         \/ GoesTo("errored") /\ RestoreHistory(TRUE)
  BY HandledCases
<1>2. /\ \A m \in Ids : transition'[m].stage \notin {"guards", "load", "activating"}
      /\ navigationId # 0
  <2>1. Len(stack) \in 1..Len(stack) /\ stack[Len(stack)].at = "handling"
    BY <1>1, TopCall, Depth
  <2>2. navigationId # 0
    BY <1>1, TopStage, Constants DEF Typed, Ids
  <2>. QED  BY <1>1, <2>1, <2>2 DEF Unbound
<1>3. CASE GoesTo("redirecting") /\ UNCHANGED <<state, history, traversals>>
  <2>1. Busy' <=> Busy
    BY <1>3, HandledBusy
  <2>. QED  BY <1>1, <1>3, <2>1, UrlKept
<1>4. CASE RestoreHistory(TRUE) /\ RouterListens
  <2>1. options.canceledNavigationResolution = "replace" => traversals' = traversals /\ Agrees'
    BY <1>4, RestoreEffect DEF Agrees, Entry, UrlOf
  <2>. QED  BY <1>1, <1>2, <2>1, UrlFree
<1>5. CASE RestoreHistory(TRUE) /\ ~RouterListens
  <2>1. UNCHANGED <<state, history, traversals>>
    BY <1>5 DEF RestoreHistory
  <2>2. transition[n].stage # "failing"
    BY <1>5, OnlyOne DEF Subscribed
  <2>3. Busy' <=> Busy
    BY <2>2, HandledBusy
  <2>. QED  BY <1>1, <2>1, <2>3, UrlKept
<1>. QED  BY <1>1, <1>3, <1>4, <1>5

LEMMA ActivatedUrl ==
    ASSUME IInvUrl, NoReentry, NEW n \in Ids, Activated(n) \/ ActivationThrows(n)
    PROVE  UrlOK'
<1>. USE DEF IInvUrl, IInvPlaced, IInvOne, IInv
<1>1. /\ At("activating", n)
      /\ UNCHANGED <<options, navigationId, currentNavigation, state, history, traversals, popstates>>
  BY ActivatedCases
<1>2. /\ stack # <<>> /\ stack[Len(stack)].id = n /\ stack[Len(stack)].at = "activating"
      /\ Len(stack) \in 1..Len(stack) /\ navigationId # 0
  BY <1>1, TopCall, TopStage, Depth, Constants DEF Typed, Ids
<1>3. CASE transition[n].stage = "activating" /\ \E stage \in {"ending", "failing"} : Staged(n, stage)
  <2>1. \A m \in Ids : transition'[m].stage \notin {"guards", "load", "activating"}
    BY <1>3, OnlyOne DEF Staged, Subscribed, Running
  <2>2. options.canceledNavigationResolution = "replace" => Agrees'
    BY <1>1, <1>3 DEF UrlOK, Bound, Agrees, Entry
  <2>. QED  BY <1>1, <1>2, <2>1, <2>2, UrlFree
<1>4. CASE transition[n].stage = "done" /\ UNCHANGED transition
  <2>1. Busy' <=> Busy
    BY <1>4, ActivatedBusy
  <2>. QED  BY <1>1, <1>2, <1>4, <2>1, UrlKept
<1>. QED  BY <1>3, <1>4, ActivatedCases

LEMMA RecognizedUrl ==
    ASSUME IInvUrl, NoReentry, NEW n \in Ids, Recognized(n)
    PROVE  UrlOK'
<1>. USE DEF IInvUrl, IInvPlaced, IInvOne, IInv
<1>1. /\ stack = <<>> /\ transition[n].stage = "recognize" /\ Staged(n, "guards")
      /\ transition[n].url \in Urls
      /\ currentNavigation' = [currentNavigation EXCEPT !.final = transition[n].url]
      /\ UNCHANGED <<options, navigationId, state, currentPageId, traversals, popstates, shown>>
  BY RecognizedCases
<1>2. Busy' /\ navigationId # 0
  <2>1. Busy' \/ Reject(n)
    BY ArriveBusy DEF Arrive
  <2>2. transition'[n].stage = "guards"
    BY <1>1 DEF Staged
  <2>. QED  BY <1>1, <2>2, OnlyOne DEF Busy, InFlight, Subscribed, Running, Pending
<1>3. \A m \in Ids : m # n => transition'[m].stage \notin {"guards", "load", "activating"}
  BY <1>1, OnlyOne DEF Staged, Subscribed, Running, Pending
<1>4. currentTransition # 0 /\ currentNavigation.id = n /\ n # 0
  BY <1>1, Constants DEF Own, Subscribed, Running, Pending
<1>5. currentNavigation'.final = transition[n].url /\ currentNavigation'.id = n
  BY <1>1, <1>4 DEF Typed
<1>6. options.urlUpdateStrategy = "eager" => \E r : history' = setBrowserUrl(transition[n].url, r)
  BY <1>1, <1>4, <1>5 DEF Recognized
<1>7. options.urlUpdateStrategy = "eager" => UrlOf(history') = transition[n].url
  <2>1. Cardinality(Moved) \in Nat
    BY MovedCount, Constants
  <2>. QED  BY <1>1, <1>6, <2>1, SetBrowserUrlOK DEF PagesCounted
<1>8. Bound(n)'
  <2>1. transition'[n].stage = "guards"
    BY <1>1 DEF Staged
  <2>. QED  BY <1>1, <1>5, <1>7, <2>1 DEF Bound, Entry, UrlOf
<1>. QED  BY <1>1, <1>2, <1>3, <1>8 DEF UrlOK, Bound

LEMMA GuardsPassedUrl ==
    ASSUME IInvUrl, NoReentry, NEW n \in Ids, GuardsPassed(n)
    PROVE  UrlOK'
<1>. USE DEF IInvUrl, IInvPlaced, IInvOne, IInv
<1>1. /\ stack = <<>> /\ transition[n].stage = "guards" /\ Staged(n, "load")
      /\ UNCHANGED <<options, navigationId, currentNavigation, state, history, traversals, popstates, shown>>
  BY StageEffect DEF GuardsPassed, Awaits, Stages, Running, Pending
<1>2. Busy'
  <2>1. transition'[n].stage = "load"
    BY <1>1 DEF Staged
  <2>. QED  BY <2>1 DEF Busy, InFlight
<1>. QED  BY <1>1, <1>2, UrlKept DEF Staged

LEMMA InterruptedUrl ==
    ASSUME IInvUrl, NoReentry, NEW n \in Ids, Reject(n) \/ Redirect(n) \/ Throw(n)
    PROVE  UrlOK'
<1>. USE DEF IInvUrl, IInvPlaced, IInvOne, IInv
<1>1. /\ stack = <<>> /\ transition[n].stage \in Pending
      /\ UNCHANGED <<options, navigationId, popstates, shown>>
      /\ \E stage \in {"failing", "rejected"} : Staged(n, stage)
      /\ RestoreHistory(FALSE) \/ UNCHANGED traversals
  BY InterruptedCases
<1>2. RouterListens /\ navigationId # 0
      /\ \A m \in Ids : transition'[m].stage \notin {"guards", "load", "activating"}
  BY <1>1, OnlyOne DEF Staged, Subscribed, Running
<1>3. CASE RestoreHistory(FALSE)
  <2>1. options.canceledNavigationResolution = "replace" => traversals' = traversals /\ Agrees'
    BY <1>2, <1>3, RestoreEffect DEF Agrees, Entry, UrlOf
  <2>. QED  BY <1>1, <1>2, <2>1, UrlFree
<1>4. CASE ~Reject(n)
  <2>1. Busy' /\ UNCHANGED traversals
    BY <1>4, ArriveBusy DEF Arrive, Redirect, Throw
  <2>. QED  BY <1>1, <1>2, <2>1, UrlFree
<1>5. Reject(n) => RestoreHistory(FALSE)
  BY DEF Reject
<1>. QED  BY <1>3, <1>4, <1>5

LEMMA ActivateUrl ==
    ASSUME IInvUrl, NoReentry, NEW n \in Ids, Activate(n)
    PROVE  UrlOK'
<1>. USE DEF IInvUrl, IInvPlaced, IInvOne, IInv
<1>1. /\ stack = <<>> /\ transition[n].stage = "load"
      /\ UNCHANGED <<options, navigationId, traversals, popstates, shown, currentPageId>>
  BY ActivateCases
<1>2. navigationId # 0 /\ \A m \in Ids : m # n => transition[m].stage \notin {"guards", "load", "activating"}
  BY <1>1, OnlyOne DEF Subscribed, Running, Pending
<1>3. Busy'
  <2>1. ~Reject(n) \/ Busy'
    <3>1. Reject(n) => stack'[Len(stack')].at = "rejected"
      BY DEF Reject, Frame
    <3>2. (Calls("handling", n) \/ Calls("activating", n)) => stack'[Len(stack')].at # "rejected"
      BY DEF Calls
    <3>. QED  BY <3>1, <3>2, ActivateCases
  <2>. QED  BY <2>1, ArriveBusy DEF Arrive
<1>4. CASE Staged(n, "failing")
  <2>1. \A m \in Ids : transition'[m].stage \notin {"guards", "load", "activating"}
    BY <1>2, <1>4 DEF Staged
  <2>. QED  BY <1>1, <1>2, <1>3, <2>1, UrlFree
<1>5. CASE /\ currentNavigation.final \in Urls /\ Staged(n, "activating")
           /\ state' = [url |-> currentNavigation.final, router |-> n]
           /\ \/ options.urlUpdateStrategy # "deferred" /\ history' = history
              \/ \E r : history' = setBrowserUrl(currentNavigation.final, r)
  <2>1. /\ transition'[n].stage = "activating"
        /\ \A m \in Ids : m # n => transition'[m].stage \notin {"guards", "load", "activating"}
    BY <1>2, <1>5 DEF Staged
  <2>2. state'.url = currentNavigation.final
    BY <1>5
  <2>3. options.canceledNavigationResolution = "replace" => Agrees'
    <3>1. CASE options.urlUpdateStrategy # "deferred" /\ history' = history
      <4>1. options.urlUpdateStrategy = "eager"
        BY <3>1 DEF Typed, Options
      <4>2. \A m \in Ids : transition[m].stage # "requested"
        <5>1. Len(stack) = 0
          BY <1>1
        <5>. QED  BY <5>1 DEF Placed, Requesting
      <4>. QED  BY <1>1, <2>2, <3>1, <4>1, <4>2 DEF UrlOK, Bound, Agrees, Entry
    <3>2. ASSUME NEW r, history' = setBrowserUrl(currentNavigation.final, r)
          PROVE  Agrees'
      <4>1. Cardinality(Moved) \in Nat
        BY MovedCount, Constants
      <4>2. UrlOf(history') = currentNavigation.final
        BY <1>5, <3>2, <4>1, SetBrowserUrlOK DEF PagesCounted
      <4>. QED  BY <2>2, <4>2 DEF Agrees, Entry, UrlOf
    <3>. QED  BY <1>5, <3>1, <3>2
  <2>. QED  BY <1>1, <1>2, <1>3, <2>1, <2>3 DEF UrlOK, Bound
<1>. QED  BY <1>4, <1>5, ActivateCases

LEMMA BrowserUrl ==
    ASSUME IInvUrl, BackOrForward \/ HistoryGo
    PROVE  UrlOK'
<1>. USE DEF IInvUrl, IInvPlaced, IInvOne, IInv
<1>1. /\ UNCHANGED <<options, navigationId, transition, currentNavigation, state, shown, stack>>
      /\ UNCHANGED <<history, popstates>> \/ popstates' # <<>>
      /\ traversals = <<>> => traversals' = <<>> /\ navigationId # 0
  BY BrowserCases
<1>2. Busy' <=> Busy
  BY <1>1 DEF Busy, Engaged
<1>. QED  BY <1>1, <1>2 DEF UrlOK, Bound, Agrees, Entry

LEMMA UrlInit == Init => UrlOK
BY DEF Init, UrlOK, Bound, NoTransition

LEMMA UrlNext == NoReentry /\ IInvUrl /\ [Next]_vars => UrlOK'
<1>. SUFFICES ASSUME NoReentry, IInvUrl, [Next]_vars PROVE UrlOK'
  OBVIOUS
<1>. USE DEF IInvUrl, IInvPlaced, IInvOne, IInv
<1>1. CASE UNCHANGED vars
  <2>1. UNCHANGED <<options, navigationId, transition, currentNavigation, state, history, traversals,
                    popstates, shown, stack>>
    BY <1>1 DEF vars
  <2>2. Busy' <=> Busy
    BY <2>1 DEF Busy, Engaged
  <2>. QED  BY <2>1, <2>2 DEF UrlOK, Bound, Agrees, Entry
<1>2. CASE Navigate \/ SyncWithBrowser
  <2>1. \E u \in Urls : Requested(navigationId + 1, u, 0)
    BY <1>2, NavigateCalls, SyncCalls
  <2>2. UNCHANGED <<options, state, history, traversals, shown>> /\ (UNCHANGED popstates \/ stack = <<>>)
    BY <1>2 DEF Navigate, SyncWithBrowser
  <2>. QED  BY <2>1, <2>2, RequestUrl
<1>3. ASSUME NEW n \in Ids, Call(n)
      PROVE  UrlOK'
  <2>1. CASE Finish(n)
    <3>1. PICK p \in {"skipped", "outdated", "rejected", "errored", "ended"} : At(p, n)
      BY <2>1 DEF Finish
    <3>2. Leave(n) /\ UNCHANGED <<options, navigationId, state, history, traversals, popstates, shown>>
      BY <2>1 DEF Finish
    <3>. QED  BY <3>1, <3>2, LeaveUrl
  <2>2. CASE Failed(n)
    BY <2>2, LeaveUrl DEF Failed
  <2>. QED  BY <1>3, <2>1, <2>2, SwitchUrl, BeginUrl, StartedUrl, SupersededUrl, RedirectRequestUrl,
            HandledUrl, ActivatedUrl DEF Call
<1>4. ASSUME NEW n \in Ids, Arrive(n)
      PROVE  UrlOK'
  BY <1>4, RecognizedUrl, GuardsPassedUrl, InterruptedUrl, ActivateUrl DEF Arrive
<1>. QED  BY <1>1, <1>2, <1>3, <1>4, BrowserUrl DEF Next

\* Handlers are where they were, and nobody has got a target.
LEMMA UnboundKept ==
    ASSUME Unbound,
           \A i \in 1..Len(stack') : stack'[i].at \in {"redirecting", "handling"} =>
               \E j \in 1..Len(stack) : stack[j].at \in {"redirecting", "handling"},
           \A m \in Ids : transition'[m].stage \in {"guards", "load", "activating"} =>
               transition'[m].stage = transition[m].stage
    PROVE  Unbound'
BY DEF Unbound

\* The navigation that redirects or fails was the only one under way.
LEMMA UnboundAfter ==
    ASSUME IInvPlaced, NEW n \in Ids, transition[n].stage \in Subscribed, Staged(n, "failing")
    PROVE  Unbound'
<1>1. \A m \in Ids : transition'[m].stage \notin {"guards", "load", "activating"}
  BY OnlyOne DEF Staged
<1>. QED  BY <1>1 DEF Unbound

LEMMA UnboundNext == IInvPlaced /\ Unbound /\ [Next]_vars => Unbound'
<1>. SUFFICES ASSUME IInvPlaced, Unbound, [Next]_vars PROVE Unbound'
  OBVIOUS
<1>. USE DEF IInvPlaced, IInvOne, IInv
<1>1. CASE UNCHANGED vars
  BY <1>1 DEF vars, Unbound
<1>2. CASE Navigate \/ SyncWithBrowser
  <2>1. Calls("switch", navigationId + 1) /\ \E u \in Urls : Requested(navigationId + 1, u, 0)
    BY <1>2, NavigateCalls, SyncCalls
  <2>2. \A m \in Ids : transition'[m].stage \in {"guards", "load", "activating"} =>
            transition'[m].stage = transition[m].stage
    BY <2>1 DEF Requested
  <2>3. \A i \in 1..Len(stack') :
            (i \in 1..Len(stack) /\ stack'[i].at = stack[i].at) \/ stack'[i].at = "switch"
    <3>1. Len(stack) \in Nat /\ Len(stack') = Len(stack) + 1
      BY <2>1, Depth DEF Calls
    <3>. QED  BY <2>1, <3>1 DEF Calls
  <2>. QED  BY <2>2, <2>3, UnboundKept
<1>3. CASE BackOrForward \/ HistoryGo
  BY <1>3 DEF BackOrForward, HistoryGo, Unbound
<1>4. ASSUME NEW n \in Ids, Call(n)
      PROVE  Unbound'
  <2>1. /\ Len(stack) \in Nat /\ Len(stack) >= 1
        /\ \A m \in Ids : transition'[m].stage \in {"guards", "load", "activating"} =>
               transition'[m].stage = transition[m].stage
    BY <1>4, CallMoves, Depth
  <2>2. CASE Returns
    <3>1. \A i \in 1..Len(stack') : i \in 1..Len(stack) /\ stack'[i].at = stack[i].at
      BY <2>1, <2>2 DEF Returns
    <3>. QED  BY <2>1, <3>1, UnboundKept
  <2>3. ASSUME NEW q, q \notin {"redirecting", "handling"}, GoesTo(q)
        PROVE  Unbound'
    <3>1. \A i \in 1..Len(stack') :
              i \in 1..Len(stack) /\ (stack'[i].at = stack[i].at \/ stack'[i].at = q)
      BY <2>3 DEF GoesTo
    <3>. QED  BY <2>1, <2>3, <3>1, UnboundKept
  <2>4. ASSUME NEW p, NEW q, NEW m, {p, q} \cap {"redirecting", "handling"} = {},
               GoesAndCalls(p, q, m)
        PROVE  Unbound'
    <3>1. \A i \in 1..Len(stack') :
              (i \in 1..Len(stack) /\ stack'[i].at = stack[i].at) \/ stack'[i].at \in {p, q}
      BY <2>1, <2>4 DEF GoesAndCalls
    <3>. QED  BY <2>1, <2>4, <3>1, UnboundKept
  <2>5. CASE stack[Len(stack)].at = "handling" /\ GoesTo("redirecting")
    <3>1. Len(stack) \in 1..Len(stack) /\ stack[Len(stack)].at \in {"redirecting", "handling"}
      BY <2>1, <2>5
    <3>. QED  BY <2>1, <3>1, UnboundKept
  <2>6. CASE transition[n].stage = "activating" /\ Staged(n, "failing")
    BY <2>6, UnboundAfter DEF Subscribed, Running
  <2>. QED  BY <1>4, <2>2, <2>3, <2>4, <2>5, <2>6, CallMoves
<1>5. ASSUME NEW n \in Ids, Arrive(n)
      PROVE  Unbound'
  <2>1. stack = <<>> /\ Len(stack) = 0 /\ transition[n].stage \in Pending
    BY <1>5, ArriveMoves
  <2>2. CASE UNCHANGED stack
    BY <2>1, <2>2 DEF Unbound
  <2>3. CASE Calls("rejected", n) \/ Calls("activating", n)
    <3>1. \A i \in 1..Len(stack') : stack'[i].at \in {"rejected", "activating"}
      BY <2>1, <2>3 DEF Calls
    <3>. QED  BY <3>1 DEF Unbound
  <2>4. CASE Staged(n, "failing")
    BY <2>1, <2>4, UnboundAfter DEF Subscribed, Running
  <2>. QED  BY <1>5, <2>2, <2>3, <2>4, ArriveMoves
<1>. QED  BY <1>1, <1>2, <1>3, <1>4, <1>5 DEF Next

LEMMA UrlInvariant == NoReentry => (Spec => []IInvUrl)
<1>. SUFFICES ASSUME NoReentry PROVE Spec => []IInvUrl
  OBVIOUS
<1>1. Init => IInvUrl
  <2>1. Init => Unbound
    BY DEF Init, Unbound
  <2>. QED  BY <2>1, InvInit, OneInit, PlacedInit, UrlInit, ShownInit
            DEF IInvUrl, IInvPlaced, IInvOne
<1>2. IInvUrl /\ [Next]_vars => IInvUrl'
  BY InvNext, OneNext, PlacedNext, UnboundNext, UrlNext, ShownNext
  DEF IInvUrl, IInvShown, IInvPlaced, IInvOne
<1>. QED  BY <1>1, <1>2, PTL DEF Spec

\* Under canceledNavigationResolution 'replace' a navigation that fails puts back the
\* URL of what is shown: when no navigation runs and no history event is to come, the
\* URL bar has the router's URL, and the outlets show the router's state unless
\* activating it threw.
THEOREM BarAndOutletsAgree == NoReentry => (Spec => []IdleAgrees)
<1>1. IInvUrl => IdleAgrees
  <2>. SUFFICES ASSUME IInvUrl, options.canceledNavigationResolution = "replace",
                       Idle, popstates = <<>>, shown # 0
                PROVE  Entry.url = state.url /\ shown \in {-1, state.router}
    BY DEF IdleAgrees
  <2>1. stack = <<>> /\ ~Busy
    BY RunningIsBusy DEF Idle, IInvUrl
  <2>2. Entry.url = state.url
    BY <2>1 DEF IInvUrl, UrlOK, Agrees
  <2>3. shown \in {-1, state.router}
    BY <2>1 DEF IInvUrl, ShownOK, Broken, Displayed, Activating
  <2>. QED  BY <2>2, <2>3
<1>. QED  BY <1>1, UrlInvariant, PTL

=============================================================================
