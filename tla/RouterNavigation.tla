--------------------------- MODULE RouterNavigation ---------------------------
(***************************************************************************)
(* Navigations of the Angular router: packages/router/src/router.ts,       *)
(* navigation_transition.ts, statemanager/state_manager.ts and             *)
(* utils/navigations.ts.                                                   *)
(*                                                                         *)
(* A navigation is an asynchronous pipeline (recognize, guards, resolvers  *)
(* and loaders, activation) inside a switchMap, which unsubscribes from    *)
(* the running navigation when a newer one is requested.  Every event is   *)
(* emitted synchronously, and a subscriber may request a navigation from   *)
(* within it.  The variable stack holds the calls such an emission has     *)
(* interrupted; a step of the event loop starts when it is empty.          *)
(*                                                                         *)
(* The default UrlHandlingStrategy and onSameUrlNavigation 'ignore' are    *)
(* assumed, and no skipLocationChange.                                     *)
(***************************************************************************)
EXTENDS Integers, Sequences, FiniteSets, SequencesExt

CONSTANTS
    Urls,            \* the URLs the application has routes for
    Root,            \* the URL of an empty UrlTree
    None,            \* nothing
    Configurations,  \* the options an application may be configured with, see Options
    ReactsTo,        \* the emissions from within which subscribers navigate
    MaxNavigations,  \* bound: navigations requested
    MaxTraversals    \* bound: popstate events under way

Options == [canceledNavigationResolution: {"replace", "computed"},
            urlUpdateStrategy: {"deferred", "eager"}]

Emissions == {"started", "skipped", "outdated", "superseded", "rejected", "redirecting",
              "handling", "errored", "activating", "ended"}

ASSUME RouterAssumption ==
    /\ Root \in Urls
    /\ None \notin Urls
    /\ Configurations \subseteq Options
    /\ ReactsTo \subseteq Emissions
    /\ MaxNavigations \in Nat \ {0}

VARIABLES
    options,            \* ROUTER_CONFIGURATION
    navigationId,       \* the id of the last navigation requested
    transition,         \* the transitions by id, see TypeOK
    inner,              \* the id of the navigation the switchMap is subscribed to, or 0
    currentTransition,  \* its id, or 0 for null
    currentNavigation,  \* the Navigation object given to the state manager, or NoNavigation
    state,              \* the state manager's URL and router state, by the id that created it
    stateMemento,       \* what NavigationStart found in state
    navigated,
    currentPageId,
    history,            \* the browser's session history: its entries and the position in it
    traversals,         \* historyGo() calls the browser has not performed yet
    popstates,          \* popstate events whose timeout has not passed, by URL
    waiting,            \* navigations whose pending task waits for the next navigation to finish
    settled,            \* the promises that have been resolved or rejected
    shown,              \* history: the router state the outlets display; -1 after an error
    stack               \* the calls that are not finished, innermost last

vars == <<options, navigationId, transition, inner, currentTransition, currentNavigation, state,
          stateMemento, navigated, currentPageId, history, traversals, popstates, waiting,
          settled, shown, stack>>

Ids == 1..MaxNavigations
Pages == 0..MaxNavigations

NoTransition == [stage |-> "unused", url |-> Root, popstate |-> FALSE, replaceUrl |-> FALSE,
                 promise |-> 0, base |-> 0]
NoNavigation == [id |-> 0, final |-> None, target |-> 0]

\* A navigation is waiting for something in these stages...
Pending == {"recognize", "guards", "load"}
\* ... and has neither completed nor failed in these, once it is subscribed.
Running == Pending \cup {"activating", "rejected"}

TypeOK ==
    /\ options \in Configurations
    /\ navigationId \in 0..MaxNavigations
    /\ transition \in [Ids -> [stage: Running \cup {"unused", "requested", "starting", "cut",
                                                    "failing", "ending", "done"},
                               url: Urls, popstate: BOOLEAN, replaceUrl: BOOLEAN,
                               promise: {0} \cup Ids,  \* the id that created the promise
                               base: {0} \cup Ids]]    \* currentRouterState
    /\ inner \in {0} \cup Ids
    /\ currentTransition \in {0} \cup Ids
    /\ currentNavigation \in [id: {0} \cup Ids, final: Urls \cup {None}, target: {0} \cup Ids]
    /\ state \in [url: Urls, router: {0} \cup Ids]
    /\ stateMemento \in [url: Urls, router: {0} \cup Ids]
    /\ navigated \in BOOLEAN
    /\ currentPageId \in Pages
    /\ history.entries \in Seq([url: Urls, page: Pages \cup {None}])
    /\ history.position \in 1..Len(history.entries)
    /\ traversals \in Seq(Int)
    /\ popstates \in Seq(Urls)
    /\ waiting \subseteq Ids
    /\ settled \subseteq Ids
    /\ shown \in {-1, 0} \cup Ids
    /\ stack \in Seq([at: Emissions \cup {"switch", "begin", "failed"}, id: Ids,
                      url: Urls \cup {None}])

Init ==
    /\ options \in Configurations
    /\ navigationId = 0
    /\ transition = [n \in Ids |-> NoTransition]
    /\ inner = 0
    /\ currentTransition = 0
    /\ currentNavigation = NoNavigation
    /\ state = [url |-> Root, router |-> 0]
    /\ stateMemento = [url |-> Root, router |-> 0]
    /\ navigated = FALSE
    /\ currentPageId = 0
    /\ \E u \in Urls : history = [entries |-> <<[url |-> u, page |-> None]>>, position |-> 1]
    /\ traversals = <<>>
    /\ popstates = <<>>
    /\ waiting = {}
    /\ settled = {}
    /\ shown = 0
    /\ stack = <<>>

(***************************************************************************)
(* The stack of calls.                                                     *)
(***************************************************************************)

Frame(at, n) == [at |-> at, id |-> n, url |-> None]

\* The innermost call is at this point, for navigation n.
At(point, n) == stack # <<>> /\ Last(stack).at = point /\ Last(stack).id = n

\* The innermost call goes on.
Goto(point) == [stack EXCEPT ![Len(stack)].at = point]

Return == Front(stack)

SetStage(n, stage) == transition' = [transition EXCEPT ![n].stage = stage]

(***************************************************************************)
(* The state manager and the browser's history.                            *)
(***************************************************************************)

\* The router handles an event only while a navigation is current.
RouterListens == currentTransition # 0 /\ currentNavigation # NoNavigation

Entry == history.entries[history.position]

browserPageId ==
    IF options.canceledNavigationResolution = "computed" /\ Entry.page # None THEN Entry.page
    ELSE currentPageId

\* What is stored with a history entry.
HistoryEntry(u, page) ==
    [url |-> u, page |-> IF options.canceledNavigationResolution = "computed" THEN page ELSE None]

Replaced(u, page) == [history EXCEPT !.entries[history.position] = HistoryEntry(u, page)]

\* Mutation of setBrowserUrl: off by one when it cuts off the forward entries.
setBrowserUrlTooFar(u, replaceUrl) ==
    IF Entry.url = u \/ replaceUrl THEN Replaced(u, browserPageId)
    ELSE [entries |-> Append(SubSeq(history.entries, 1, history.position - 1),
                             HistoryEntry(u, browserPageId + 1)),
          position |-> history.position + 1]

setBrowserUrl(u, replaceUrl) ==
    IF Entry.url = u \/ replaceUrl THEN Replaced(u, browserPageId)
    ELSE [entries |-> Append(SubSeq(history.entries, 1, history.position),
                             HistoryEntry(u, browserPageId + 1)),
          position |-> history.position + 1]

\* Back to where the browser was.  'computed' travels there, unless the
\* navigation never moved the browser; 'replace' rewrites the entry it is on.
restoreHistory(restoringFromCaughtError) ==
    LET delta == currentPageId - browserPageId
        activated == currentNavigation.target # 0 /\ state.router = currentNavigation.target
    IN  CASE options.canceledNavigationResolution = "replace" ->
                 /\ state' = IF restoringFromCaughtError THEN stateMemento ELSE state
                 /\ history' = Replaced(state'.url, currentPageId)
                 /\ UNCHANGED traversals
          [] options.canceledNavigationResolution = "computed" /\ delta # 0 ->
                 /\ traversals' = Append(traversals, delta)
                 /\ UNCHANGED <<state, history>>
          [] options.canceledNavigationResolution = "computed" /\ delta = 0 /\ activated ->
                 /\ state' = stateMemento
                 /\ history' = Replaced(state'.url, currentPageId)
                 /\ UNCHANGED traversals
          [] OTHER -> UNCHANGED <<state, history, traversals>>

RestoreHistory(restoringFromCaughtError) ==
    IF RouterListens THEN restoreHistory(restoringFromCaughtError)
    ELSE UNCHANGED <<state, history, traversals>>

(***************************************************************************)
(* Requests.                                                               *)
(***************************************************************************)

\* Mutation of scheduleNavigation: the transition starts from an older router state.
scheduleFromMemento(u, popstate, replaceUrl, p, calls) ==
    LET n == navigationId + 1 IN
    /\ n \in Ids
    /\ navigationId' = n
    /\ transition' = [transition EXCEPT ![n] =
            [stage |-> "requested", url |-> u, popstate |-> popstate, replaceUrl |-> replaceUrl,
             promise |-> IF p = 0 THEN n ELSE p, base |-> stateMemento.router]]
    /\ waiting' = waiting \cup {n}
    /\ stack' = Append(calls, Frame("switch", n))

\* scheduleNavigation(): p is the navigation whose promise is passed on, 0 for
\* a promise of its own; calls is the stack the call is made on.
scheduleNavigation(u, popstate, replaceUrl, p, calls) ==
    LET n == navigationId + 1 IN
    /\ n \in Ids
    /\ navigationId' = n
    /\ transition' = [transition EXCEPT ![n] =
            [stage |-> "requested", url |-> u, popstate |-> popstate, replaceUrl |-> replaceUrl,
             promise |-> IF p = 0 THEN n ELSE p, base |-> state.router]]
    /\ waiting' = waiting \cup {n}
    /\ stack' = Append(calls, Frame("switch", n))

\* Bound: a redirect under way keeps an id for its navigation.
Room ==
    navigationId + Cardinality({i \in DOMAIN stack : stack[i].at = "redirecting"})
        < MaxNavigations

\* initialNavigation() and navigateByUrl() from the event loop, and navigateByUrl()
\* from within an emission.
Navigate ==
    /\ Room
    /\ \/ /\ stack = <<>> /\ navigationId = 0
          /\ scheduleNavigation(Entry.url, FALSE, TRUE, 0, stack)
       \/ /\ stack # <<>> => Last(stack).at \in ReactsTo
          /\ \E u \in Urls : scheduleNavigation(u, FALSE, FALSE, 0, stack)
    /\ UNCHANGED <<options, inner, currentTransition, currentNavigation, state, stateMemento, navigated,
                   currentPageId, history, traversals, popstates, settled, shown>>

\* The timeout of a popstate event passes.
SyncWithBrowser ==
    /\ stack = <<>> /\ popstates # <<>>
    /\ Room
    /\ scheduleNavigation(Head(popstates), TRUE, TRUE, 0, stack)
    /\ popstates' = Tail(popstates)
    /\ UNCHANGED <<options, inner, currentTransition, currentNavigation, state, stateMemento, navigated,
                   currentPageId, history, traversals, settled, shown>>

(***************************************************************************)
(* How a navigation ends.                                                  *)
(***************************************************************************)

\* resolve() or reject(): only the first one counts.
Settle(n) == settled' = settled \cup {transition[n].promise}

\* finalize(): the current navigation is cleared if it is still this one.
Clear(n) ==
    /\ currentTransition' = IF currentTransition = n THEN 0 ELSE currentTransition
    /\ currentNavigation' = IF currentTransition = n THEN NoNavigation ELSE currentNavigation

\* The pipeline of n returns from its last emission.  It completes, unless that
\* emission led to its being unsubscribed; the switchMap then forgets its inner
\* subscription, whichever that is.  A navigation unsubscribed while it was being
\* subscribed runs its finalize() only now.
Leave(n) ==
    CASE transition[n].stage = "done" ->
             /\ stack' = Return
             /\ UNCHANGED <<transition, inner, currentTransition, currentNavigation>>
      [] transition[n].stage = "cut" ->
             /\ SetStage(n, "done")
             /\ stack' = Goto("superseded")
             /\ UNCHANGED <<inner, currentTransition, currentNavigation>>
      [] OTHER ->
             /\ SetStage(n, "done")
             /\ inner' = 0
             /\ Clear(n)
             /\ stack' = Return

\* Mutation of Finish: a skipped navigation does not return EMPTY.
FinishUnlessSkipped(n) ==
    /\ \E at \in {"outdated", "rejected", "errored", "ended"} : At(at, n)
    /\ Settle(n)
    /\ Leave(n)
    /\ UNCHANGED <<options, navigationId, state, stateMemento, navigated, currentPageId, history,
                   traversals, popstates, waiting, shown>>

\* An emission of one of these events was the last but one thing to do: the
\* promise is settled after it.
Finish(n) ==
    /\ \E at \in {"skipped", "outdated", "rejected", "errored", "ended"} : At(at, n)
    /\ Settle(n)
    /\ Leave(n)
    /\ UNCHANGED <<options, navigationId, state, stateMemento, navigated, currentPageId, history,
                   traversals, popstates, waiting, shown>>

\* Mutation of Superseded: the promise is left alone.
SupersededSilently(n) ==
    /\ At("superseded", n)
    /\ Clear(n)
    /\ stack' = Return
    /\ UNCHANGED <<options, navigationId, transition, inner, state, stateMemento, navigated,
                   currentPageId, history, traversals, popstates, waiting, settled, shown>>

\* After NavigationCancel in finalize().
Superseded(n) ==
    /\ At("superseded", n)
    /\ Settle(n)
    /\ Clear(n)
    /\ stack' = Return
    /\ UNCHANGED <<options, navigationId, transition, inner, state, stateMemento, navigated, currentPageId,
                   history, traversals, popstates, waiting, shown>>

(***************************************************************************)
(* The start of a navigation: the switchMap unsubscribes from the previous *)
(* one, then subscribes to the new one.                                    *)
(***************************************************************************)

\* Mutation of Switch: mergeMap instead of switchMap.
SwitchMerges(n) ==
    /\ At("switch", n)
    /\ stack' = Goto("begin")
    /\ UNCHANGED <<options, navigationId, transition, inner, currentTransition, currentNavigation,
                   state, stateMemento, navigated, currentPageId, history, traversals, popstates,
                   waiting, settled, shown>>

Switch(n) ==
    LET stage == IF inner = 0 THEN "done" ELSE transition[inner].stage IN
    /\ At("switch", n)
    /\ \/ /\ stage \in {"done", "cut"}
          /\ stack' = Goto("begin")
          /\ UNCHANGED <<transition, currentTransition, currentNavigation>>
       \/ /\ stage = "starting"
          /\ SetStage(inner, "cut")
          /\ stack' = Goto("begin")
          /\ UNCHANGED <<currentTransition, currentNavigation>>
       \/ /\ stage \in Running
          /\ SetStage(inner, "done")
          /\ stack' = Append(Goto("begin"), Frame("superseded", inner))
          /\ UNCHANGED <<currentTransition, currentNavigation>>
       \/ /\ stage \in {"failing", "ending"}
          /\ SetStage(inner, "done")
          /\ Clear(inner)
          /\ stack' = Goto("begin")
    /\ UNCHANGED <<options, navigationId, inner, state, stateMemento, navigated, currentPageId, history,
                   traversals, popstates, waiting, settled, shown>>

\* The target is what the router and the browser show already.
IsSameUrl(n) == navigated /\ transition[n].url = state.url /\ transition[n].url = Entry.url

\* Mutation of Begin: an ignored navigation emits no event.
BeginSilently(n) ==
    /\ At("begin", n)
    /\ inner' = n
    /\ SetStage(n, "starting")
    /\ \/ /\ navigationId > n
          /\ stack' = Goto("outdated")
          /\ UNCHANGED <<currentTransition, currentNavigation, stateMemento>>
       \/ /\ navigationId = n
          /\ currentTransition' = n
          /\ currentNavigation' = [NoNavigation EXCEPT !.id = n]
          /\ stateMemento' = state
          /\ stack' = Goto(IF IsSameUrl(n) THEN "skipped" ELSE "started")
    /\ UNCHANGED <<options, navigationId, state, navigated, currentPageId, history, traversals,
                   popstates, waiting, settled, shown>>

\* A newer navigation may have been requested from within the cancellation of
\* the previous one; otherwise NavigationSkipped or NavigationStart is emitted.
Begin(n) ==
    /\ At("begin", n)
    /\ inner' = n
    /\ SetStage(n, "starting")
    /\ \/ /\ navigationId > n
          /\ stack' = Goto("outdated")
          /\ UNCHANGED <<currentTransition, currentNavigation, stateMemento, waiting>>
       \/ /\ navigationId = n
          /\ currentTransition' = n
          /\ currentNavigation' = [NoNavigation EXCEPT !.id = n]
          /\ \/ /\ IsSameUrl(n)
                /\ waiting' = {}
                /\ stack' = Goto("skipped")
                /\ UNCHANGED stateMemento
             \/ /\ ~IsSameUrl(n)
                /\ stateMemento' = state
                /\ stack' = Goto("started")
                /\ UNCHANGED waiting
    /\ UNCHANGED <<options, navigationId, state, navigated, currentPageId, history, traversals, popstates,
                   settled, shown>>

Started(n) ==
    /\ At("started", n)
    /\ IF transition[n].stage = "cut" THEN Leave(n)
       ELSE /\ SetStage(n, "recognize")
            /\ stack' = Return
            /\ UNCHANGED <<inner, currentTransition, currentNavigation>>
    /\ UNCHANGED <<options, navigationId, state, stateMemento, navigated, currentPageId, history,
                   traversals, popstates, waiting, settled, shown>>

(***************************************************************************)
(* The asynchronous part.  What is emitted between its stages needs no     *)
(* frame: a navigation requested there finds this one subscribed, as one   *)
(* requested from the event loop does.                                     *)
(***************************************************************************)

Awaits(n, stage) == stack = <<>> /\ transition[n].stage = stage

\* The routes are recognized (RoutesRecognized); the guards start.
Recognized(n) ==
    LET navigation == [currentNavigation EXCEPT !.final = transition[n].url] IN
    /\ Awaits(n, "recognize")
    /\ SetStage(n, "guards")
    /\ currentNavigation' = navigation
    /\ currentTransition' = n
    /\ history' = IF options.urlUpdateStrategy = "eager" /\ currentTransition # 0 /\ navigation.id # 0
                  THEN setBrowserUrl(navigation.final, transition[navigation.id].replaceUrl)
                  ELSE history
    /\ UNCHANGED <<options, navigationId, inner, state, stateMemento, navigated, currentPageId, traversals,
                   popstates, waiting, settled, shown, stack>>

\* Every guard returned true; resolvers and component loaders start.
GuardsPassed(n) ==
    /\ Awaits(n, "guards")
    /\ SetStage(n, "load")
    /\ UNCHANGED <<options, navigationId, inner, currentTransition, currentNavigation, state, stateMemento,
                   navigated, currentPageId, history, traversals, popstates, waiting, settled,
                   shown, stack>>

\* Mutation of Reject: the state manager does not restore the URL.
RejectInPlace(n) ==
    /\ \E stage \in Pending : Awaits(n, stage)
    /\ SetStage(n, IF transition[n].stage = "recognize" THEN "failing" ELSE "rejected")
    /\ navigated' = (navigated \/ RouterListens)
    /\ waiting' = {}
    /\ stack' = <<Frame("rejected", n)>>
    /\ UNCHANGED <<options, navigationId, inner, currentTransition, currentNavigation, state,
                   stateMemento, currentPageId, history, traversals, popstates, settled, shown>>

\* A guard returned false, or a resolver no data: NavigationCancel, after the
\* state manager has restored the URL.  A canLoad guard does it by an error.
Reject(n) ==
    /\ \E stage \in Pending : Awaits(n, stage)
    /\ SetStage(n, IF transition[n].stage = "recognize" THEN "failing" ELSE "rejected")
    /\ RestoreHistory(FALSE)
    /\ navigated' = (navigated \/ RouterListens)
    /\ waiting' = {}
    /\ stack' = <<Frame("rejected", n)>>
    /\ UNCHANGED <<options, navigationId, inner, currentTransition, currentNavigation, stateMemento,
                   currentPageId, popstates, settled, shown>>

\* A guard or resolver redirects: NavigationCancel.
Redirect(n) ==
    /\ \E stage \in Pending : Awaits(n, stage)
    /\ Room
    /\ SetStage(n, "failing")
    /\ \E u \in Urls : stack' = <<[Frame("redirecting", n) EXCEPT !.url = u]>>
    /\ UNCHANGED <<options, navigationId, inner, currentTransition, currentNavigation, state, stateMemento,
                   navigated, currentPageId, history, traversals, popstates, waiting, settled,
                   shown>>

\* RedirectRequest: the router asks for the new navigation on behalf of the
\* navigation that is current by now.
RedirectRequest(n) ==
    /\ At("redirecting", n)
    /\ IF RouterListens
       THEN LET t == transition[currentTransition] IN
            scheduleNavigation(Last(stack).url, FALSE,
                t.replaceUrl \/ options.urlUpdateStrategy = "eager" \/ t.popstate,
                t.promise, Goto("failed"))
       ELSE /\ stack' = Goto("failed")
            /\ UNCHANGED <<options, navigationId, transition, waiting>>
    /\ UNCHANGED <<options, inner, currentTransition, currentNavigation, state, stateMemento, navigated,
                   currentPageId, history, traversals, popstates, settled, shown>>

\* After a redirect nothing is left to settle: the promise was handed on.
Failed(n) ==
    /\ At("failed", n)
    /\ Leave(n)
    /\ UNCHANGED <<options, navigationId, state, stateMemento, navigated, currentPageId, history,
                   traversals, popstates, waiting, settled, shown>>

\* An error in the pipeline; the application's error handler runs first.
Throws(n) == SetStage(n, "failing") /\ stack' = Append(stack, Frame("handling", n))

Throw(n) ==
    /\ \E stage \in Pending : Awaits(n, stage)
    /\ Throws(n)
    /\ UNCHANGED <<options, navigationId, inner, currentTransition, currentNavigation, state, stateMemento,
                   navigated, currentPageId, history, traversals, popstates, waiting, settled,
                   shown>>

\* The handler redirects, or NavigationError is emitted.
Handled(n) ==
    /\ At("handling", n)
    /\ \/ /\ Room
          /\ \E u \in Urls :
                stack' = Append(Return, [Frame("redirecting", n) EXCEPT !.url = u])
          /\ UNCHANGED <<state, history, traversals, waiting>>
       \/ /\ RestoreHistory(TRUE)
          /\ waiting' = {}
          /\ stack' = Goto("errored")
    /\ UNCHANGED <<options, navigationId, transition, inner, currentTransition, currentNavigation,
                   stateMemento, navigated, currentPageId, popstates, settled, shown>>

\* Everything is loaded.  BeforeActivateRoutes moves the state manager and, if
\* deferred, the browser to the target; then components are created.
Activate(n) ==
    /\ Awaits(n, "load")
    /\ IF currentNavigation.id = 0 \/ currentNavigation.final = None
       THEN /\ Throws(n)
            /\ UNCHANGED <<currentTransition, currentNavigation, state, history>>
       ELSE /\ SetStage(n, "activating")
            /\ currentTransition' = n
            /\ currentNavigation' = [currentNavigation EXCEPT !.target = n]
            /\ state' = [url |-> currentNavigation.final, router |-> n]
            /\ history' = IF options.urlUpdateStrategy = "deferred"
                          THEN setBrowserUrl(currentNavigation.final,
                                             transition[currentNavigation.id].replaceUrl)
                          ELSE history
            /\ stack' = <<Frame("activating", n)>>
    /\ UNCHANGED <<options, navigationId, inner, stateMemento, navigated, currentPageId, traversals,
                   popstates, waiting, settled, shown>>

\* The outlets show the target: NavigationEnd, unless a component has requested
\* another navigation meanwhile.
Activated(n) ==
    /\ At("activating", n)
    /\ shown' = n
    /\ IF transition[n].stage = "activating"
       THEN /\ SetStage(n, "ending")
            /\ currentPageId' = browserPageId
            /\ navigated' = TRUE
            /\ waiting' = {}
            /\ stack' = Goto("ended")
       ELSE /\ stack' = Return
            /\ UNCHANGED <<transition, currentPageId, navigated, waiting>>
    /\ UNCHANGED <<options, navigationId, inner, currentTransition, currentNavigation, state, stateMemento,
                   history, traversals, popstates, settled>>

\* The constructor of a component throws.
ActivationThrows(n) ==
    /\ At("activating", n)
    /\ shown' = -1
    /\ IF transition[n].stage = "activating"
       THEN SetStage(n, "failing") /\ stack' = Goto("handling")
       ELSE stack' = Return /\ UNCHANGED transition
    /\ UNCHANGED <<options, navigationId, inner, currentTransition, currentNavigation, state, stateMemento,
                   navigated, currentPageId, history, traversals, popstates, waiting, settled>>

(***************************************************************************)
(* The browser.                                                            *)
(***************************************************************************)

\* The session history moves by delta, if it can: a popstate event.
Travel(delta) ==
    LET p == history.position + delta IN
    IF p \in DOMAIN history.entries
    THEN /\ history' = [history EXCEPT !.position = p]
         /\ popstates' = Append(popstates, history.entries[p].url)
    ELSE UNCHANGED <<history, popstates>>

\* The back and forward buttons, once the router listens to the location.
BackOrForward ==
    /\ stack = <<>> /\ navigationId # 0
    /\ Len(popstates) < MaxTraversals
    /\ \E delta \in {-1, 1} : Travel(delta)
    /\ UNCHANGED <<options, navigationId, transition, inner, currentTransition, currentNavigation, state,
                   stateMemento, navigated, currentPageId, traversals, waiting, settled, shown,
                   stack>>

HistoryGo ==
    /\ stack = <<>> /\ traversals # <<>>
    /\ Travel(Head(traversals))
    /\ traversals' = Tail(traversals)
    /\ UNCHANGED <<options, navigationId, transition, inner, currentTransition, currentNavigation, state,
                   stateMemento, navigated, currentPageId, waiting, settled, shown, stack>>

\* The calls on the stack go on.
Call(n) ==
    \/ Switch(n) \/ Begin(n) \/ Started(n) \/ Finish(n) \/ Superseded(n)
    \/ RedirectRequest(n) \/ Failed(n) \/ Handled(n)
    \/ Activated(n) \/ ActivationThrows(n)
\* What a navigation awaits arrives.
Arrive(n) ==
    Recognized(n) \/ GuardsPassed(n) \/ Reject(n) \/ Redirect(n) \/ Throw(n) \/ Activate(n)

Next ==
    \/ Navigate \/ SyncWithBrowser \/ BackOrForward \/ HistoryGo
    \/ \E n \in Ids : Call(n) \/ Arrive(n)

Spec == Init /\ [][Next]_vars

\* Calls return, what is awaited arrives, timeouts pass.
Fairness ==
    /\ WF_vars(\E n \in Ids : Call(n))
    /\ WF_vars(\E n \in Ids : Arrive(n))
    /\ WF_vars(SyncWithBrowser)
    /\ WF_vars(HistoryGo)

FairSpec == Spec /\ Fairness

(***************************************************************************)
(* Properties.                                                             *)
(***************************************************************************)

IsRunning(n) == transition[n].stage \in Running

Idle == stack = <<>> /\ \A n \in Ids : ~IsRunning(n)

\* "Using switchMap so we cancel executing navigations when a new one comes in":
\* between two tasks of the event loop a running navigation is the current one,
\* so that no two are running.
OneNavigationRuns ==
    stack = <<>> => \A n \in Ids : IsRunning(n) =>
        currentTransition = n /\ currentNavigation.id = n

\* A navigation takes down the components of the router state it was requested
\* in: that state is the one the outlets show.
ActivatesFromShown ==
    [][\A n \in Ids : transition'[n].stage = "activating" /\ transition[n].stage # "activating"
          /\ shown # -1 => transition[n].base = shown]_vars

\* Under 'replace', with no navigation running and no history event to come, the
\* URL bar, the router and the outlets agree, once something was shown.
IdleAgrees ==
    /\ options.canceledNavigationResolution = "replace"
    /\ Idle /\ popstates = <<>>
    /\ shown # 0
    => /\ Entry.url = state.url
       /\ shown \in {-1, state.router}

\* navigateByUrl() "to 'false' when navigation fails, or is rejected on error":
\* when nothing runs any more no promise is left pending.
PromisesSettle == Idle => \A n \in 1..navigationId : transition[n].promise \in settled

\* A running navigation keeps the application unstable, and an idle router does not.
TaskWhileNavigating ==
    stack = <<>> => (waiting # {} <=> \E n \in Ids : IsRunning(n))

\* Whatever guards, redirects, errors and the browser do, the router becomes idle
\* again: its promises are settled then, and its pending tasks gone.
BecomesIdle == []<>Idle
=============================================================================
