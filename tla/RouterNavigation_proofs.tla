----------------------- MODULE RouterNavigation_proofs -----------------------
(***************************************************************************)
(* Proofs about RouterNavigation for any URLs, any number of navigations   *)
(* and any traversals of the history.                                      *)
(***************************************************************************)
EXTENDS RouterNavigation, SequenceTheorems, FiniteSetTheorems, TLAPS

Points == Emissions \cup {"switch", "begin", "failed"}

\* The points a call may go to, or be made at, by Goto and Frame.
PlainPoints == Points \ {"redirecting"}

\* A redirecting call has the URL to go to.
Frames ==
    {f \in [at: Points, id: Ids, url: Urls \cup {None}] : f.at = "redirecting" => f.url \in Urls}

Stages ==
    Running \cup {"unused", "requested", "starting", "cut", "failing", "ending", "done"}

Transitions ==
    [stage: Stages, url: Urls, popstate: BOOLEAN, replaceUrl: BOOLEAN,
     promise: {0} \cup Ids, base: {0} \cup Ids]

\* TypeOK without the page ids.
Typed ==
    /\ options \in Options
    /\ navigationId \in 0..MaxNavigations
    /\ transition \in [Ids -> Transitions]
    /\ inner \in {0} \cup Ids
    /\ currentTransition \in {0} \cup Ids
    /\ currentNavigation \in [id: {0} \cup Ids, final: Urls \cup {None}, target: {0} \cup Ids]
    /\ state \in [url: Urls, router: {0} \cup Ids]
    /\ stateMemento \in [url: Urls, router: {0} \cup Ids]
    /\ navigated \in BOOLEAN
    /\ traversals \in Seq(Int)
    /\ popstates \in Seq(Urls)
    /\ waiting \subseteq Ids
    /\ settled \subseteq Ids
    /\ shown \in {-1, 0} \cup Ids
    /\ stack \in Seq(Frames)

\* The stages a navigation may be in while one of its calls is at this point.
Fits(at, stage) ==
    /\ at \in {"switch", "begin"} => stage = "requested"
    /\ at \in {"started", "skipped", "outdated"} => stage \in {"starting", "cut"}
    /\ at = "superseded" => stage = "done"
    /\ at = "rejected" => stage \in {"rejected", "failing", "done"}
    /\ at \in {"redirecting", "failed", "handling", "errored"} => stage \in {"failing", "done"}
    /\ at = "activating" => stage \in {"activating", "done"}
    /\ at = "ended" => stage \in {"ending", "done"}

\* Every call on the stack fits its navigation's stage; a navigation has one call
\* there, and perhaps its cancellations.
CallsFit ==
    /\ \A i \in 1..Len(stack) : Fits(stack[i].at, transition[stack[i].id].stage)
    /\ \A i, j \in 1..Len(stack) : i # j /\ stack[i].id = stack[j].id =>
         stack[i].at = "superseded" \/ stack[j].at = "superseded"
    /\ \A n \in Ids : n > navigationId <=> transition[n].stage = "unused"
    /\ \A n \in Ids : n <= navigationId => transition[n].promise \in Ids

\* The stages before the navigation gives the browser its URL.
Early ==
    {"unused", "requested", "starting", "cut", "recognize"}
        \cup (IF options.urlUpdateStrategy = "eager" THEN {} ELSE {"guards", "load"})

Moved == {n \in Ids : transition[n].stage \notin Early}

HistoryOK(h, last) ==
    /\ h \in [entries: Seq([url: Urls, page: (0..last) \cup {None}]), position: Nat]
    /\ h.position \in 1..Len(h.entries)

\* A navigation adds one page at most.
PagesCounted ==
    /\ currentPageId \in 0..Cardinality(Moved)
    /\ HistoryOK(history, Cardinality(Moved))

IInv == Typed /\ CallsFit /\ PagesCounted

----------------------------------------------------------------------------
(* The stack and the stages. *)

GoesTo(p) ==
    /\ stack' \in Seq(Frames) /\ Len(stack') = Len(stack)
    /\ \A i \in 1..Len(stack) :
         /\ stack'[i].id = stack[i].id
         /\ stack'[i].at = IF i = Len(stack) THEN p ELSE stack[i].at

Returns ==
    /\ stack' \in Seq(Frames) /\ Len(stack') = Len(stack) - 1
    /\ \A i \in 1..(Len(stack) - 1) :
         stack'[i].id = stack[i].id /\ stack'[i].at = stack[i].at

Calls(p, n) ==
    /\ stack' \in Seq(Frames) /\ Len(stack') = Len(stack) + 1
    /\ \A i \in 1..Len(stack) :
         stack'[i].id = stack[i].id /\ stack'[i].at = stack[i].at
    /\ stack'[Len(stack')].at = p /\ stack'[Len(stack')].id = n

\* The call at the top goes to point p and calls q for n.
GoesAndCalls(p, q, n) ==
    /\ stack' \in Seq(Frames) /\ Len(stack') = Len(stack) + 1
    /\ \A i \in 1..Len(stack) :
         /\ stack'[i].id = stack[i].id
         /\ stack'[i].at = IF i = Len(stack) THEN p ELSE stack[i].at
    /\ stack'[Len(stack')].at = q /\ stack'[Len(stack')].id = n

\* Only the stage of n changes.
Staged(n, stage) ==
    /\ transition' \in [Ids -> Transitions]
    /\ \A m \in Ids :
         /\ transition'[m].stage = IF m = n THEN stage ELSE transition[m].stage
         /\ transition'[m].url = transition[m].url
         /\ transition'[m].promise = transition[m].promise
         /\ transition'[m].base = transition[m].base

LEMMA Constants ==
    /\ MaxNavigations \in Nat /\ 0 \notin Ids /\ Ids \subseteq Nat
    /\ Root \in Urls /\ None \notin Urls /\ ReactsTo \subseteq Emissions
BY RouterAssumption DEF Ids

LEMMA TopCall ==
    ASSUME Typed, NEW p, NEW n, At(p, n)
    PROVE  /\ stack # <<>> /\ Len(stack) \in Nat /\ Len(stack) >= 1
           /\ stack[Len(stack)].at = p /\ stack[Len(stack)].id = n
           /\ \A i \in 1..Len(stack) : stack[i] \in Frames
BY EmptySeq, ElementOfSeq DEF Typed, At, Last

LEMMA GotoCalls ==
    ASSUME Typed, stack # <<>>, NEW p \in PlainPoints
    PROVE  /\ Goto(p) \in Seq(Frames) /\ Len(Goto(p)) = Len(stack)
           /\ \A i \in 1..Len(stack) :
                /\ Goto(p)[i].id = stack[i].id
                /\ Goto(p)[i].at = IF i = Len(stack) THEN p ELSE stack[i].at
<1>1. stack \in Seq(Frames) /\ Len(stack) \in Nat /\ Len(stack) >= 1
  BY EmptySeq DEF Typed
<1>. DEFINE k == Len(stack)
            f == [stack[k] EXCEPT !.at = p]
<1>2. stack[k] \in Frames
  BY <1>1, ElementOfSeq
<1>3. f \in Frames /\ f.at = p /\ f.id = stack[k].id
  BY <1>2 DEF Frames, PlainPoints
<1>4. Goto(p) = [stack EXCEPT ![k] = f]
  BY DEF Goto
<1>. HIDE DEF f
<1>5. /\ Goto(p) \in Seq(Frames) /\ Len(Goto(p)) = k
      /\ \A i \in 1..k : Goto(p)[i] = IF i = k THEN f ELSE stack[i]
  BY <1>1, <1>3, <1>4, ExceptSeq
<1>. QED  BY <1>3, <1>5

LEMMA GotoEffect ==
    ASSUME Typed, stack # <<>>, NEW p \in PlainPoints, stack' = Goto(p)
    PROVE  GoesTo(p)
BY GotoCalls DEF GoesTo

LEMMA ReturnCalls ==
    ASSUME Typed, stack # <<>>
    PROVE  /\ Return \in Seq(Frames) /\ Len(Return) = Len(stack) - 1 /\ Len(stack) - 1 \in Nat
           /\ \A i \in 1..(Len(stack) - 1) :
                Return[i].id = stack[i].id /\ Return[i].at = stack[i].at
<1>1. stack \in Seq(Frames) /\ Len(stack) \in Nat /\ Len(stack) >= 1
  BY EmptySeq DEF Typed
<1>2. \A i \in 1..(Len(stack) - 1) : stack[i] \in Frames
  BY <1>1, ElementOfSeq
<1>. DEFINE k == Len(stack) - 1
<1>3. /\ SubSeq(stack, 1, k) \in Seq(Frames)
      /\ Len(SubSeq(stack, 1, k)) = IF 1 <= k THEN k - 1 + 1 ELSE 0
      /\ \A i \in 1..(k - 1 + 1) : SubSeq(stack, 1, k)[i] = stack[1 + i - 1]
  <2>1. k \in Int
    BY <1>1
  <2>. QED  BY <1>2, <2>1, SubSeqProperties
<1>4. Return = SubSeq(stack, 1, k)
  BY DEF Return, Front
<1>5. k \in Nat /\ Return \in Seq(Frames) /\ Len(Return) = k
  <2>1. k \in Nat
    BY <1>1
  <2>. HIDE DEF k
  <2>2. Return \in Seq(Frames)
    BY <1>3, <1>4
  <2>3. Len(Return) = IF 1 <= k THEN k - 1 + 1 ELSE 0
    BY <1>3, <1>4
  <2>. QED  BY <2>1, <2>2, <2>3
<1>6. \A i \in 1..k : Return[i] = stack[i]
  <2>. SUFFICES ASSUME NEW i \in 1..k PROVE Return[i] = stack[i]
    OBVIOUS
  <2>1. i \in 1..(k - 1 + 1) /\ 1 + i - 1 = i
    BY <1>5
  <2>. QED  BY <1>3, <1>4, <2>1
<1>. QED  BY <1>5, <1>6

LEMMA ReturnEffect ==
    ASSUME Typed, stack # <<>>, stack' = Return
    PROVE  Returns
BY ReturnCalls DEF Returns

LEMMA FrameType ==
    ASSUME NEW p \in PlainPoints, NEW n \in Ids
    PROVE  Frame(p, n) \in Frames /\ Frame(p, n).at = p /\ Frame(p, n).id = n
BY DEF Frame, Frames, PlainPoints

LEMMA CallEffect ==
    ASSUME Typed, NEW p \in Points, NEW n \in Ids, NEW f \in Frames, f.at = p, f.id = n,
           stack' = Append(stack, f)
    PROVE  Calls(p, n)
BY AppendProperties DEF Typed, Calls

LEMMA GoAndCallEffect ==
    ASSUME Typed, stack # <<>>, NEW p \in PlainPoints, NEW q \in PlainPoints, NEW n \in Ids,
           stack' = Append(Goto(p), Frame(q, n))
    PROVE  GoesAndCalls(p, q, n)
<1>1. Len(stack) \in Nat
  BY LenProperties DEF Typed
<1>. QED  BY <1>1, GotoCalls, FrameType, AppendProperties DEF GoesAndCalls

LEMMA FirstCall ==
    ASSUME Typed, stack = <<>>, NEW p \in Points, NEW n \in Ids, NEW f \in Frames,
           f.at = p, f.id = n, stack' = <<f>>
    PROVE  Calls(p, n) /\ Len(stack') = 1 /\ Len(stack) = 0
<1>1. Len(stack) = 0 /\ Len(stack') = 1 /\ stack'[1] = f /\ stack' \in Seq(Frames)
  OBVIOUS
<1>. QED  BY <1>1 DEF Calls

LEMMA StageEffect ==
    ASSUME Typed, NEW n \in Ids, NEW stage \in Stages, SetStage(n, stage)
    PROVE  Staged(n, stage)
BY DEF Typed, SetStage, Staged, Transitions

----------------------------------------------------------------------------
(* The history and its pages. *)

Entries(last) == [url: Urls, page: (0..last) \cup {None}]

\* The URL of the entry a history is on.
UrlOf(h) == h.entries[h.position].url

LEMMA HistoryGrows ==
    ASSUME NEW h, NEW c \in Nat, NEW d \in Nat, c <= d, HistoryOK(h, c)
    PROVE  HistoryOK(h, d)
<1>1. Entries(c) \subseteq Entries(d)
  BY DEF Entries
<1>2. h.entries \in Seq(Entries(c)) /\ h.position \in Nat
  BY DEF HistoryOK, Entries
<1>3. h.entries \in Seq(Entries(d))
  BY <1>1, <1>2, SeqMonotonic
<1>. QED  BY <1>2, <1>3 DEF HistoryOK, Entries

LEMMA EntryType ==
    ASSUME NEW c \in Nat, HistoryOK(history, c)
    PROVE  Entry \in Entries(c) /\ Entry.url \in Urls
<1>1. history.entries \in Seq(Entries(c)) /\ history.position \in 1..Len(history.entries)
  BY DEF HistoryOK, Entries
<1>2. history.entries[history.position] \in Entries(c)
  BY <1>1, ElementOfSeq
<1>. QED  BY <1>2 DEF Entry, Entries

LEMMA BrowserPage ==
    ASSUME NEW c \in Nat, HistoryOK(history, c), currentPageId \in 0..c
    PROVE  browserPageId \in 0..c
BY EntryType DEF browserPageId, Entries

LEMMA ReplacedOK ==
    ASSUME NEW c \in Nat, HistoryOK(history, c), NEW u \in Urls, NEW page \in 0..c
    PROVE  HistoryOK(Replaced(u, page), c) /\ UrlOf(Replaced(u, page)) = u
<1>. DEFINE e == HistoryEntry(u, page)
            k == history.position
            es == [history.entries EXCEPT ![k] = e]
<1>1. history.entries \in Seq(Entries(c)) /\ k \in 1..Len(history.entries) /\ k \in Nat
  BY DEF HistoryOK, Entries
<1>2. e \in Entries(c) /\ e.url = u
  BY DEF HistoryEntry, Entries
<1>. HIDE DEF e
<1>3. es \in Seq(Entries(c)) /\ Len(es) = Len(history.entries) /\ es[k] = e
  BY <1>1, <1>2, ExceptSeq
<1>4. Replaced(u, page).entries = es /\ Replaced(u, page).position = k
      /\ Replaced(u, page) = [entries |-> es, position |-> k]
  BY SMTT(30) DEF Replaced, HistoryOK, e
<1>. HIDE DEF es, k
<1>. QED  BY <1>1, <1>2, <1>3, <1>4 DEF HistoryOK, Entries, UrlOf

LEMMA SetBrowserUrlOK ==
    ASSUME NEW c \in Nat, HistoryOK(history, c), currentPageId \in 0..c,
           NEW u \in Urls, NEW replaceUrl
    PROVE  HistoryOK(setBrowserUrl(u, replaceUrl), c + 1) /\ UrlOf(setBrowserUrl(u, replaceUrl)) = u
<1>1. browserPageId \in 0..c
  BY BrowserPage
<1>2. CASE Entry.url = u \/ replaceUrl
  <2>1. setBrowserUrl(u, replaceUrl) = Replaced(u, browserPageId)
    BY <1>2 DEF setBrowserUrl
  <2>. QED  BY <1>1, <2>1, ReplacedOK, HistoryGrows
<1>3. CASE ~(Entry.url = u \/ replaceUrl)
  <2>. DEFINE e == HistoryEntry(u, browserPageId + 1)
              k == history.position
              before == SubSeq(history.entries, 1, k)
              h == [entries |-> Append(before, e), position |-> k + 1]
  <2>1. setBrowserUrl(u, replaceUrl) = h
    BY <1>3 DEF setBrowserUrl
  <2>2. e \in Entries(c + 1) /\ e.url = u
    BY <1>1 DEF HistoryEntry, Entries
  <2>3. history.entries \in Seq(Entries(c)) /\ k \in 1..Len(history.entries) /\ k \in Nat
    BY DEF HistoryOK, Entries
  <2>4. history.entries \in Seq(Entries(c + 1))
    <3>1. Entries(c) \subseteq Entries(c + 1)
      BY DEF Entries
    <3>. QED  BY <2>3, <3>1, SeqMonotonic
  <2>5. \A i \in 1..k : history.entries[i] \in Entries(c + 1)
    BY <2>3, <2>4, ElementOfSeq
  <2>6. before \in Seq(Entries(c + 1)) /\ Len(before) = k
    BY <2>3, <2>5, SubSeqProperties
  <2>. HIDE DEF e, before, k
  <2>7. /\ Append(before, e) \in Seq(Entries(c + 1)) /\ Len(Append(before, e)) = k + 1
        /\ Append(before, e)[k + 1] = e
    BY <2>2, <2>6, AppendProperties
  <2>8. h.entries = Append(before, e) /\ h.position = k + 1
    OBVIOUS
  <2>9. k + 1 \in 1..(k + 1) /\ k + 1 \in Nat /\ k \in Nat
    BY <2>3 DEF k
  <2>10. h \in [entries: Seq(Entries(c + 1)), position: Nat]
    BY <2>7, <2>9
  <2>. HIDE DEF h
  <2>11. HistoryOK(h, c + 1)
    BY <2>7, <2>8, <2>9, <2>10 DEF HistoryOK, Entries
  <2>12. UrlOf(h) = u
    BY <2>2, <2>7, <2>8 DEF UrlOf
  <2>. QED  BY <2>1, <2>11, <2>12
<1>. QED  BY <1>2, <1>3

LEMMA MovedCount ==
    /\ Cardinality(Moved) \in 0..MaxNavigations
    /\ Cardinality(Moved') \in 0..MaxNavigations
    /\ Moved \subseteq Moved' => Cardinality(Moved) <= Cardinality(Moved')
    /\ \A n \in Moved' : Moved \subseteq Moved' \ {n} => Cardinality(Moved) + 1 <= Cardinality(Moved')
<1>1. IsFiniteSet(Ids) /\ Cardinality(Ids) = MaxNavigations
  BY FS_Interval, RouterAssumption DEF Ids
<1>2. /\ IsFiniteSet(Moved) /\ Cardinality(Moved) \in Nat /\ Cardinality(Moved) <= MaxNavigations
  <2>1. Moved \in SUBSET Ids
    BY DEF Moved
  <2>. QED  BY <1>1, <2>1, FS_Subset, FS_CardinalityType
<1>3. /\ IsFiniteSet(Moved') /\ Cardinality(Moved') \in Nat /\ Cardinality(Moved') <= MaxNavigations
  <2>1. Moved' \in SUBSET Ids
    BY DEF Moved
  <2>. QED  BY <1>1, <2>1, FS_Subset, FS_CardinalityType
<1>4. Moved \subseteq Moved' => Cardinality(Moved) <= Cardinality(Moved')
  BY <1>3, FS_Subset
<1>5. \A n \in Moved' : Moved \subseteq Moved' \ {n} => Cardinality(Moved) + 1 <= Cardinality(Moved')
  <2>. SUFFICES ASSUME NEW n \in Moved', Moved \subseteq Moved' \ {n}
                PROVE  Cardinality(Moved) + 1 <= Cardinality(Moved')
    OBVIOUS
  <2>1. IsFiniteSet(Moved' \ {n}) /\ Cardinality(Moved' \ {n}) = Cardinality(Moved') - 1
    BY <1>3, FS_RemoveElement
  <2>2. Cardinality(Moved) <= Cardinality(Moved' \ {n})
    BY <2>1, FS_Subset
  <2>. QED  BY <1>2, <1>3, <2>1, <2>2
<1>. QED  BY <1>2, <1>3, <1>4, <1>5, RouterAssumption

\* The history and the page id are as they were, or as others that are counted.
LEMMA PagesKept ==
    ASSUME PagesCounted, Moved \subseteq Moved',
           currentPageId' \in 0..Cardinality(Moved), HistoryOK(history', Cardinality(Moved))
    PROVE  PagesCounted'
<1>1. /\ Cardinality(Moved) \in Nat /\ Cardinality(Moved') \in Nat
      /\ Cardinality(Moved) <= Cardinality(Moved')
  BY MovedCount, RouterAssumption
<1>. QED  BY <1>1, HistoryGrows DEF PagesCounted

\* A navigation that had not moved the browser does.
LEMMA OnePageMore ==
    ASSUME PagesCounted, NEW n \in Moved', n \notin Moved, Moved \subseteq Moved',
           NEW u \in Urls, \E r : history' = setBrowserUrl(u, r), UNCHANGED currentPageId
    PROVE  PagesCounted' /\ UrlOf(history') = u
<1>1. PICK r : history' = setBrowserUrl(u, r)
  OBVIOUS
<1>. DEFINE c == Cardinality(Moved)
            d == Cardinality(Moved')
<1>2. c \in Nat /\ d \in Nat /\ c + 1 <= d
  <2>1. Moved \subseteq Moved' \ {n}
    OBVIOUS
  <2>2. c \in 0..MaxNavigations /\ d \in 0..MaxNavigations
    BY MovedCount
  <2>3. c + 1 <= d
    BY <2>1, MovedCount
  <2>. QED  BY <2>2, <2>3, Constants
<1>3. HistoryOK(history, c) /\ currentPageId \in 0..c
  BY DEF PagesCounted
<1>. HIDE DEF c, d
<1>4. HistoryOK(history', c + 1) /\ UrlOf(history') = u
  BY <1>1, <1>2, <1>3, SetBrowserUrlOK
<1>5. HistoryOK(history', d) /\ currentPageId' \in 0..d
  BY <1>2, <1>3, <1>4, HistoryGrows
<1>. QED  BY <1>4, <1>5 DEF PagesCounted, d

LEMMA RestoreEffect ==
    ASSUME Typed, PagesCounted, NEW caught \in BOOLEAN, RestoreHistory(caught)
    PROVE  /\ state' \in {state, stateMemento}
           /\ traversals' \in Seq(Int)
           /\ HistoryOK(history', Cardinality(Moved))
           /\ options.canceledNavigationResolution = "replace" =>
                /\ traversals' = traversals
                /\ RouterListens => UrlOf(history') = state'.url
           /\ ~caught /\ currentNavigation.target = 0 => state' = state
<1>. DEFINE c == Cardinality(Moved)
            delta == currentPageId - browserPageId
            activated == currentNavigation.target # 0 /\ state.router = currentNavigation.target
<1>1. c \in Nat /\ currentPageId \in 0..c /\ HistoryOK(history, c)
  BY MovedCount DEF PagesCounted
<1>. HIDE DEF c
<1>2. delta \in Int
  BY <1>1, BrowserPage
<1>3. options.canceledNavigationResolution \in {"replace", "computed"}
  BY DEF Typed, Options
<1>4. state.url \in Urls /\ stateMemento.url \in Urls
  BY DEF Typed
<1>5. CASE ~RouterListens
  <2>1. UNCHANGED <<state, history, traversals>>
    BY <1>5 DEF RestoreHistory
  <2>. QED  BY <1>1, <1>5, <2>1 DEF Typed, c
<1>6. CASE RouterListens
  <2>1. restoreHistory(caught)
    BY <1>6 DEF RestoreHistory
  <2>2. \/ /\ options.canceledNavigationResolution = "replace"
           /\ state' = IF caught THEN stateMemento ELSE state
           /\ history' = Replaced(state'.url, currentPageId)
           /\ UNCHANGED traversals
        \/ /\ options.canceledNavigationResolution = "computed"
           /\ traversals' = Append(traversals, delta)
           /\ UNCHANGED <<state, history>>
        \/ /\ options.canceledNavigationResolution = "computed" /\ activated
           /\ state' = stateMemento
           /\ history' = Replaced(state'.url, currentPageId)
           /\ UNCHANGED traversals
        \/ /\ options.canceledNavigationResolution = "computed"
           /\ UNCHANGED <<state, history, traversals>>
    BY <1>3, <2>1 DEF restoreHistory
  <2>. HIDE DEF delta
  <2>3. Append(traversals, delta) \in Seq(Int)
    BY <1>2, AppendProperties DEF Typed
  <2>4. \A u \in Urls : /\ HistoryOK(Replaced(u, currentPageId), c)
                        /\ UrlOf(Replaced(u, currentPageId)) = u
    BY <1>1, ReplacedOK
  <2>5. traversals \in Seq(Int)
    BY DEF Typed
  <2>. QED  BY <1>1, <1>4, <2>2, <2>3, <2>4, <2>5 DEF c
<1>. QED  BY <1>5, <1>6

----------------------------------------------------------------------------
(* The calls and the pages: for any reactions of the subscribers. *)

LEMMA CallsAreUsed ==
    ASSUME Typed, CallsFit
    PROVE  \A i \in 1..Len(stack) :
             /\ stack[i].id \in Ids /\ stack[i].at \in Points
             /\ stack[i].id <= navigationId
<1>. SUFFICES ASSUME NEW i \in 1..Len(stack)
              PROVE  /\ stack[i].id \in Ids /\ stack[i].at \in Points
                     /\ stack[i].id <= navigationId
  OBVIOUS
<1>1. stack[i].id \in Ids /\ stack[i].at \in Points
  <2>1. stack[i] \in Frames
    BY ElementOfSeq DEF Typed
  <2>. QED  BY <2>1 DEF Frames
<1>2. transition[stack[i].id].stage # "unused"
  <2>1. Fits(stack[i].at, transition[stack[i].id].stage)
    BY DEF CallsFit
  <2>. QED  BY <1>1, <2>1 DEF Fits, Points, Emissions
<1>3. navigationId \in Nat /\ stack[i].id \in Nat
  <2>1. navigationId \in 0..MaxNavigations
    BY DEF Typed
  <2>2. navigationId \in Nat
    BY <2>1, Constants
  <2>3. stack[i].id \in Nat
    BY <1>1, Constants
  <2>. QED  BY <2>2, <2>3
<1>. QED  BY <1>1, <1>2, <1>3 DEF CallsFit

\* A navigation is requested.
Requested(n, u, p) ==
    /\ n = navigationId + 1 /\ n \in Ids /\ navigationId' = n
    /\ transition' \in [Ids -> Transitions]
    /\ transition'[n].stage = "requested"
    /\ transition'[n].url = u
    /\ transition'[n].promise = IF p = 0 THEN n ELSE p
    /\ transition'[n].base = state.router
    /\ \A m \in Ids \ {n} : transition'[m] = transition[m]
    /\ waiting' = waiting \cup {n} /\ waiting' \subseteq Ids

LEMMA RequestedBy ==
    ASSUME Typed, NEW u \in Urls, NEW popstate \in BOOLEAN, NEW replaceUrl \in BOOLEAN,
           NEW p \in {0} \cup Ids, NEW calls, scheduleNavigation(u, popstate, replaceUrl, p, calls)
    PROVE  /\ Requested(navigationId + 1, u, p)
           /\ stack' = Append(calls, Frame("switch", navigationId + 1))
<1>. DEFINE n == navigationId + 1
            t == [stage |-> "requested", url |-> u, popstate |-> popstate,
                  replaceUrl |-> replaceUrl, promise |-> IF p = 0 THEN n ELSE p,
                  base |-> state.router]
<1>1. n \in Ids /\ navigationId' = n /\ transition' = [transition EXCEPT ![n] = t]
      /\ waiting' = waiting \cup {n} /\ stack' = Append(calls, Frame("switch", n))
  BY DEF scheduleNavigation
<1>2. t \in Transitions
  BY <1>1 DEF Transitions, Stages, Typed
<1>3. /\ t.stage = "requested" /\ t.url = u /\ t.base = state.router
      /\ t.promise = IF p = 0 THEN n ELSE p
  OBVIOUS
<1>. HIDE DEF t
<1>. QED  BY <1>1, <1>2, <1>3 DEF Requested, Typed

LEMMA RequestMoves ==
    ASSUME Typed, CallsFit, NEW n, NEW u, NEW p, Requested(n, u, p), UNCHANGED options
    PROVE  Moved \subseteq Moved'
<1>1. \A m \in Ids : m # n => transition'[m].stage = transition[m].stage
  BY DEF Requested
<1>2. transition[n].stage = "unused" /\ Early' = Early
  BY Constants DEF Requested, CallsFit, Typed, Early
<1>3. "unused" \in Early
  BY DEF Early
<1>. QED  BY <1>1, <1>2, <1>3 DEF Moved

LEMMA RequestFits ==
    ASSUME Typed, CallsFit, NEW n, NEW u, NEW p \in {0} \cup Ids, Requested(n, u, p),
           \/ Calls("switch", n)
           \/ /\ stack # <<>> /\ stack[Len(stack)].at = "redirecting"
              /\ GoesAndCalls("failed", "switch", n)
    PROVE  CallsFit'
<1>1. /\ navigationId \in Nat /\ Len(stack) \in Nat /\ n \in Nat
      /\ \A i \in 1..Len(stack) : stack[i].id # n /\ stack[i].id \in Ids
  BY CallsAreUsed, LenProperties, Constants DEF Typed, Requested
<1>2. Len(stack') = Len(stack) + 1 /\ stack'[Len(stack')].at = "switch" /\ stack'[Len(stack')].id = n
  BY DEF Calls, GoesAndCalls
<1>3. \A i \in 1..Len(stack) :
        /\ stack'[i].id = stack[i].id
        /\ \/ stack'[i].at = stack[i].at
           \/ stack[i].at = "redirecting" /\ stack'[i].at = "failed"
  BY DEF Calls, GoesAndCalls
<1>4. \A i \in 1..Len(stack) : transition'[stack[i].id] = transition[stack[i].id]
  BY <1>1 DEF Requested
<1>5. \A i \in 1..Len(stack') : Fits(stack'[i].at, transition'[stack'[i].id].stage)
  <2>. SUFFICES ASSUME NEW i \in 1..Len(stack')
                PROVE  Fits(stack'[i].at, transition'[stack'[i].id].stage)
    OBVIOUS
  <2>1. CASE i = Len(stack')
    BY <1>2, <2>1 DEF Fits, Requested
  <2>2. CASE i # Len(stack')
    <3>1. i \in 1..Len(stack)
      BY <1>1, <1>2, <2>2
    <3>2. Fits(stack[i].at, transition'[stack'[i].id].stage)
      BY <1>3, <1>4, <3>1 DEF CallsFit
    <3>. QED  BY <1>3, <3>1, <3>2 DEF Fits
  <2>. QED  BY <2>1, <2>2
<1>6. \A i, j \in 1..Len(stack') : i # j /\ stack'[i].id = stack'[j].id =>
        stack'[i].at = "superseded" \/ stack'[j].at = "superseded"
  BY <1>1, <1>2, <1>3 DEF CallsFit
<1>7. \A m \in Ids : m > navigationId' <=> transition'[m].stage = "unused"
  BY <1>1, Constants DEF CallsFit, Requested
<1>8. \A m \in Ids : m <= navigationId' => transition'[m].promise \in Ids
  BY <1>1, Constants DEF CallsFit, Requested
<1>. QED  BY <1>5, <1>6, <1>7, <1>8 DEF CallsFit

LEMMA RequestStep ==
    ASSUME IInv, NEW n, NEW u, NEW p \in {0} \cup Ids, Requested(n, u, p),
           \/ Calls("switch", n)
           \/ /\ stack # <<>> /\ stack[Len(stack)].at = "redirecting"
              /\ GoesAndCalls("failed", "switch", n),
           popstates' \in Seq(Urls),
           UNCHANGED <<options, inner, currentTransition, currentNavigation, state, stateMemento,
                       navigated, currentPageId, history, traversals, settled, shown>>
    PROVE  IInv'
<1>1. CallsFit'
  BY RequestFits DEF IInv
<1>2. Typed'
  BY DEF IInv, Typed, Requested, Calls, GoesAndCalls, Ids
<1>3. PagesCounted'
  BY RequestMoves, PagesKept DEF IInv, PagesCounted
<1>. QED  BY <1>1, <1>2, <1>3 DEF IInv

LEMMA NavigateCalls ==
    ASSUME Typed, PagesCounted, Navigate
    PROVE  /\ \E u \in Urls : Requested(navigationId + 1, u, 0)
           /\ Calls("switch", navigationId + 1)
           /\ stack = <<>> \/ stack[Len(stack)].at \in ReactsTo
           /\ UNCHANGED <<options, inner, currentTransition, currentNavigation, state,
                          stateMemento, navigated, currentPageId, history, traversals,
                          popstates, settled, shown>>
<1>1. Entry.url \in Urls
  BY EntryType, MovedCount DEF PagesCounted
<1>2. PICK u \in Urls, replaceUrl \in BOOLEAN : scheduleNavigation(u, FALSE, replaceUrl, 0, stack)
  BY <1>1 DEF Navigate
<1>3. Requested(navigationId + 1, u, 0) /\ stack' = Append(stack, Frame("switch", navigationId + 1))
  BY <1>2, RequestedBy
<1>4. Calls("switch", navigationId + 1)
  <2>. DEFINE f == Frame("switch", navigationId + 1)
  <2>1. navigationId + 1 \in Ids /\ "switch" \in Points /\ "switch" \in PlainPoints
    BY <1>3 DEF Requested, Points, PlainPoints
  <2>2. f \in Frames /\ f.at = "switch" /\ f.id = navigationId + 1
    BY <2>1, FrameType
  <2>3. stack' = Append(stack, f)
    BY <1>3
  <2>. HIDE DEF f
  <2>. QED  BY <2>1, <2>2, <2>3, CallEffect
<1>. QED  BY <1>3, <1>4 DEF Navigate, Last

LEMMA SyncCalls ==
    ASSUME Typed, SyncWithBrowser
    PROVE  /\ \E u \in Urls : Requested(navigationId + 1, u, 0)
           /\ Calls("switch", navigationId + 1)
           /\ stack = <<>> /\ popstates' \in Seq(Urls)
           /\ UNCHANGED <<options, inner, currentTransition, currentNavigation, state,
                          stateMemento, navigated, currentPageId, history, traversals,
                          settled, shown>>
<1>. DEFINE u == Head(popstates)
<1>1. u \in Urls /\ popstates' \in Seq(Urls)
  BY HeadTailProperties DEF Typed, SyncWithBrowser
<1>2. scheduleNavigation(u, TRUE, TRUE, 0, stack)
  BY DEF SyncWithBrowser
<1>. HIDE DEF u
<1>3. Requested(navigationId + 1, u, 0) /\ stack' = Append(stack, Frame("switch", navigationId + 1))
  BY <1>1, <1>2, RequestedBy
<1>4. Calls("switch", navigationId + 1)
  <2>. DEFINE f == Frame("switch", navigationId + 1)
  <2>1. navigationId + 1 \in Ids /\ "switch" \in Points /\ "switch" \in PlainPoints
    BY <1>3 DEF Requested, Points, PlainPoints
  <2>2. f \in Frames /\ f.at = "switch" /\ f.id = navigationId + 1
    BY <2>1, FrameType
  <2>3. stack' = Append(stack, f)
    BY <1>3
  <2>. HIDE DEF f
  <2>. QED  BY <2>1, <2>2, <2>3, CallEffect
<1>. QED  BY <1>1, <1>3, <1>4 DEF SyncWithBrowser

LEMMA NavigateStep == IInv /\ Navigate => IInv'
BY NavigateCalls, RequestStep DEF IInv, Typed

LEMMA SyncStep == IInv /\ SyncWithBrowser => IInv'
BY SyncCalls, RequestStep DEF IInv, Typed

\* The call at the top goes on or returns, and its navigation, unless it is done,
\* with it.
LEMMA TopFits ==
    ASSUME Typed, CallsFit, NEW p, NEW n, At(p, n), p # "superseded",
           NEW q, NEW stage, UNCHANGED navigationId,
           \/ Returns
           \/ GoesTo(q) /\ Fits(q, stage),
           \/ Staged(n, stage) /\ transition[n].stage # "done" /\ stage # "unused"
           \/ UNCHANGED transition /\ stage = transition[n].stage
    PROVE  CallsFit'
<1>1. /\ stack # <<>> /\ Len(stack) \in Nat /\ Len(stack) >= 1
      /\ stack[Len(stack)].at = p /\ stack[Len(stack)].id = n /\ n \in Ids
      /\ \A i \in 1..Len(stack) : stack[i].id \in Ids
  BY TopCall, CallsAreUsed
<1>2. /\ \A m \in Ids \ {n} : transition'[m].stage = transition[m].stage
      /\ \A m \in Ids : transition'[m].promise = transition[m].promise
      /\ transition'[n].stage = stage
  BY <1>1 DEF Staged
<1>3. \A i \in 1..(Len(stack) - 1) : transition'[stack[i].id].stage = transition[stack[i].id].stage
  <2>. SUFFICES ASSUME NEW i \in 1..(Len(stack) - 1), stack[i].id = n
                PROVE  transition'[n].stage = transition[n].stage
    BY <1>1, <1>2
  <2>1. i \in 1..Len(stack) /\ Len(stack) \in 1..Len(stack) /\ i # Len(stack)
    BY <1>1
  <2>2. stack[i].at = "superseded"
    BY <1>1, <2>1 DEF CallsFit
  <2>3. transition[n].stage = "done"
    BY <2>1, <2>2 DEF CallsFit, Fits
  <2>. QED  BY <1>2, <2>3
<1>4. /\ Len(stack') \in {Len(stack) - 1, Len(stack)}
      /\ \A i \in 1..Len(stack') : stack'[i].id = stack[i].id
      /\ \A i \in 1..Len(stack') : i < Len(stack) => stack'[i].at = stack[i].at
      /\ Len(stack') = Len(stack) => stack'[Len(stack)].at = q /\ Fits(q, stage)
  BY <1>1 DEF Returns, GoesTo
<1>. HIDE DEF Returns, GoesTo
<1>5. \A i \in 1..Len(stack') : Fits(stack'[i].at, transition'[stack'[i].id].stage)
  <2>. SUFFICES ASSUME NEW i \in 1..Len(stack')
                PROVE  Fits(stack'[i].at, transition'[stack'[i].id].stage)
    OBVIOUS
  <2>1. CASE i = Len(stack)
    BY <1>1, <1>2, <1>4, <2>1
  <2>2. CASE i # Len(stack)
    <3>1. i \in 1..(Len(stack) - 1) /\ i \in 1..Len(stack) /\ i < Len(stack)
      BY <1>1, <1>4, <2>2
    <3>2. Fits(stack[i].at, transition[stack[i].id].stage)
      BY <3>1 DEF CallsFit
    <3>. QED  BY <1>3, <1>4, <3>1, <3>2
  <2>. QED  BY <2>1, <2>2
<1>6. \A i, j \in 1..Len(stack') : i # j /\ stack'[i].id = stack'[j].id =>
        stack'[i].at = "superseded" \/ stack'[j].at = "superseded"
  BY <1>1, <1>4 DEF CallsFit
<1>7. \A m \in Ids : m > navigationId' <=> transition'[m].stage = "unused"
  <2>1. transition[n].stage # "unused"
    <3>1. n <= navigationId /\ navigationId \in 0..MaxNavigations
      BY <1>1, CallsAreUsed DEF Typed
    <3>2. n \in Nat /\ navigationId \in Nat
      BY <1>1, <3>1, Constants
    <3>. QED  BY <1>1, <3>1, <3>2 DEF CallsFit
  <2>. QED  BY <1>2, <2>1 DEF CallsFit
<1>8. \A m \in Ids : m <= navigationId' => transition'[m].promise \in Ids
  BY <1>2 DEF CallsFit
<1>. QED  BY <1>5, <1>6, <1>7, <1>8 DEF CallsFit

\* The first call of a step of the event loop, or none.
LEMMA FirstFits ==
    ASSUME Typed, CallsFit, stack = <<>>, NEW n \in Ids, transition[n].stage # "unused",
           NEW p, NEW stage, stage # "unused", Staged(n, stage), UNCHANGED navigationId,
           UNCHANGED stack \/ (Calls(p, n) /\ Fits(p, stage))
    PROVE  CallsFit'
<1>1. Len(stack) = 0
  OBVIOUS
<1>2. \A i \in 1..Len(stack') : i = Len(stack') /\ stack'[i].at = p /\ stack'[i].id = n /\ Fits(p, stage)
  BY <1>1 DEF Calls
<1>3. transition'[n].stage = stage
  BY DEF Staged
<1>. QED  BY <1>2, <1>3 DEF CallsFit, Staged

LEMMA StageMoves ==
    ASSUME Typed, NEW n, NEW stage, Staged(n, stage), UNCHANGED options,
           stage \notin Early \/ transition[n].stage \in Early
    PROVE  Moved \subseteq Moved'
<1>1. Early' = Early
  BY DEF Early
<1>. QED  BY <1>1 DEF Staged, Moved

LEMMA SameMoves ==
    ASSUME UNCHANGED <<options, transition>>
    PROVE  Moved' = Moved
BY DEF Moved, Early

LEMMA ClearEffect ==
    ASSUME Typed, NEW n, Clear(n)
    PROVE  /\ currentTransition' \in {0} \cup Ids
           /\ currentNavigation' \in [id: {0} \cup Ids, final: Urls \cup {None}, target: {0} \cup Ids]
BY DEF Typed, Clear, NoNavigation

LEMMA LeaveCases ==
    ASSUME Typed, NEW p, NEW n, At(p, n), Leave(n)
    PROVE  \/ /\ transition[n].stage = "done"
              /\ Returns
              /\ UNCHANGED <<transition, inner, currentTransition, currentNavigation>>
           \/ /\ transition[n].stage = "cut"
              /\ Staged(n, "done")
              /\ GoesTo("superseded")
              /\ UNCHANGED <<inner, currentTransition, currentNavigation>>
           \/ /\ transition[n].stage \notin {"done", "cut"}
              /\ Staged(n, "done")
              /\ inner' = 0 /\ Clear(n)
              /\ Returns
<1>1. stack # <<>> /\ n \in Ids
  <2>1. stack[Len(stack)] \in Frames /\ stack[Len(stack)].id = n
    BY TopCall
  <2>. QED  BY <2>1, TopCall DEF Frames
<1>2. CASE transition[n].stage = "done"
  <2>1. stack' = Return /\ UNCHANGED <<transition, inner, currentTransition, currentNavigation>>
    BY <1>2 DEF Leave
  <2>. QED  BY <1>1, <1>2, <2>1, ReturnEffect
<1>3. CASE transition[n].stage = "cut"
  <2>1. /\ SetStage(n, "done") /\ stack' = Goto("superseded")
        /\ UNCHANGED <<inner, currentTransition, currentNavigation>>
    BY <1>3 DEF Leave
  <2>. QED  BY <1>1, <1>3, <2>1, GotoEffect, StageEffect DEF Stages, PlainPoints, Points, Emissions
<1>4. CASE transition[n].stage \notin {"done", "cut"}
  <2>1. SetStage(n, "done") /\ inner' = 0 /\ Clear(n) /\ stack' = Return
    BY <1>4 DEF Leave
  <2>. QED  BY <1>1, <1>4, <2>1, ReturnEffect, StageEffect DEF Stages
<1>. QED  BY <1>2, <1>3, <1>4

\* Leaving a pipeline, for the actions that do.
LEMMA LeaveKeeps ==
    ASSUME IInv, NEW p, NEW n, At(p, n), p \in {"started", "skipped", "outdated", "rejected",
                                                "errored", "ended", "failed"}, Leave(n),
           settled' \subseteq Ids,
           UNCHANGED <<options, navigationId, state, stateMemento, navigated, currentPageId,
                       history, traversals, popstates, waiting, shown>>
    PROVE  IInv'
<1>1. Typed'
  BY LeaveCases, ClearEffect DEF IInv, Typed, Returns, GoesTo, Staged
<1>2. CallsFit'
  <2>1. Fits("superseded", "done")
    BY DEF Fits
  <2>. QED  BY <2>1, LeaveCases, TopFits DEF IInv
<1>3. Moved \subseteq Moved'
  <2>1. "done" \notin Early
    BY DEF Early
  <2>. QED  BY <2>1, LeaveCases, StageMoves, SameMoves DEF IInv
<1>4. PagesCounted'
  BY <1>3, PagesKept DEF IInv, PagesCounted
<1>. QED  BY <1>1, <1>2, <1>4 DEF IInv

LEMMA SettleType ==
    ASSUME Typed, CallsFit, NEW p, NEW n, At(p, n), Settle(n)
    PROVE  settled' \subseteq Ids
<1>1. n \in Ids /\ n <= navigationId
  BY TopCall, CallsAreUsed
<1>2. transition[n].promise \in Ids
  BY <1>1 DEF CallsFit
<1>. QED  BY <1>2 DEF Settle, Typed

LEMMA FinishStep ==
    ASSUME IInv, NEW n \in Ids, Finish(n)
    PROVE  IInv'
<1>1. PICK p \in {"skipped", "outdated", "rejected", "errored", "ended"} : At(p, n)
  BY DEF Finish
<1>2. settled' \subseteq Ids
  BY <1>1, SettleType DEF IInv, Finish
<1>. QED  BY <1>1, <1>2, LeaveKeeps DEF Finish

LEMMA FailedStep ==
    ASSUME IInv, NEW n \in Ids, Failed(n)
    PROVE  IInv'
<1>1. settled' \subseteq Ids
  BY DEF IInv, Typed, Failed
<1>. QED  BY <1>1, LeaveKeeps DEF Failed

LEMMA TopStage ==
    ASSUME Typed, CallsFit, NEW p, NEW n, At(p, n)
    PROVE  /\ stack # <<>> /\ n \in Ids /\ n <= navigationId /\ p \in Points
           /\ Fits(p, transition[n].stage)
<1>1. Len(stack) \in 1..Len(stack) /\ stack # <<>> /\ stack[Len(stack)].at = p /\ stack[Len(stack)].id = n
  BY TopCall
<1>. QED  BY <1>1, CallsAreUsed DEF CallsFit

LEMMA SwitchCases ==
    ASSUME Typed, CallsFit, NEW n \in Ids, Switch(n)
    PROVE  \/ /\ inner = 0 \/ transition[inner].stage \in {"done", "cut"}
              /\ GoesTo("begin")
              /\ UNCHANGED <<transition, currentTransition, currentNavigation>>
           \/ /\ inner \in Ids /\ transition[inner].stage = "starting"
              /\ Staged(inner, "cut")
              /\ GoesTo("begin")
              /\ UNCHANGED <<currentTransition, currentNavigation>>
           \/ /\ inner \in Ids /\ transition[inner].stage \in Running
              /\ Staged(inner, "done")
              /\ GoesAndCalls("begin", "superseded", inner)
              /\ UNCHANGED <<currentTransition, currentNavigation>>
           \/ /\ inner \in Ids /\ transition[inner].stage \in {"failing", "ending"}
              /\ Staged(inner, "done")
              /\ Clear(inner)
              /\ GoesTo("begin")
<1>. DEFINE stage == IF inner = 0 THEN "done" ELSE transition[inner].stage
<1>1. stack # <<>> /\ At("switch", n)
  BY DEF Switch, At
<1>2. {"begin", "superseded"} \subseteq PlainPoints /\ {"cut", "done"} \subseteq Stages
  BY DEF PlainPoints, Points, Emissions, Stages
<1>3. inner \in {0} \cup Ids
  BY DEF Typed
<1>4. \/ /\ stage \in {"done", "cut"}
         /\ stack' = Goto("begin")
         /\ UNCHANGED <<transition, currentTransition, currentNavigation>>
      \/ /\ stage = "starting"
         /\ SetStage(inner, "cut")
         /\ stack' = Goto("begin")
         /\ UNCHANGED <<currentTransition, currentNavigation>>
      \/ /\ stage \in Running
         /\ SetStage(inner, "done")
         /\ stack' = Append(Goto("begin"), Frame("superseded", inner))
         /\ UNCHANGED <<currentTransition, currentNavigation>>
      \/ /\ stage \in {"failing", "ending"}
         /\ SetStage(inner, "done")
         /\ Clear(inner)
         /\ stack' = Goto("begin")
  BY DEF Switch
<1>5. stack' = Goto("begin") => GoesTo("begin")
  BY <1>1, <1>2, GotoEffect
<1>6. stage \notin {"done", "cut"} => inner \in Ids /\ stage = transition[inner].stage
  BY <1>3
<1>7. CASE stage \in {"done", "cut"}
  BY <1>4, <1>5, <1>7 DEF Running, Pending
<1>8. CASE stage = "starting"
  BY <1>2, <1>4, <1>5, <1>6, <1>8, StageEffect DEF Running, Pending
<1>9. CASE stage \in Running
  <2>1. stage \notin {"done", "cut", "starting", "failing", "ending"}
    BY <1>9 DEF Running, Pending
  <2>2. /\ SetStage(inner, "done") /\ stack' = Append(Goto("begin"), Frame("superseded", inner))
        /\ UNCHANGED <<currentTransition, currentNavigation>>
    BY <1>4, <2>1
  <2>3. inner \in Ids /\ transition[inner].stage \in Running
    BY <1>6, <1>9, <2>1
  <2>. QED  BY <1>1, <1>2, <2>2, <2>3, StageEffect, GoAndCallEffect
<1>10. CASE stage \in {"failing", "ending"}
  BY <1>2, <1>4, <1>5, <1>6, <1>10, StageEffect DEF Running, Pending
<1>. QED  BY <1>4, <1>7, <1>8, <1>9, <1>10

LEMMA SwitchFits ==
    ASSUME Typed, CallsFit, NEW n, At("switch", n), NEW m \in Ids,
           NEW stage, Staged(m, stage), UNCHANGED navigationId,
           \/ transition[m].stage = "starting" /\ stage = "cut"
           \/ transition[m].stage \in Running \cup {"failing", "ending"} /\ stage = "done",
           GoesTo("begin") \/ (GoesAndCalls("begin", "superseded", m) /\ stage = "done")
    PROVE  CallsFit'
<1>1. /\ stack # <<>> /\ Len(stack) \in Nat /\ Len(stack) >= 1
      /\ stack[Len(stack)].at = "switch" /\ stack[Len(stack)].id = n /\ n \in Ids
      /\ \A i \in 1..Len(stack) : stack[i].id \in Ids
      /\ transition[n].stage = "requested" /\ n # m
  <2>1. transition[n].stage = "requested"
    BY TopStage DEF Fits
  <2>2. n # m
    BY <2>1 DEF Running, Pending
  <2>. QED  BY <2>1, <2>2, TopCall, CallsAreUsed, TopStage
<1>2. /\ \A k \in Ids \ {m} : transition'[k].stage = transition[k].stage
      /\ \A k \in Ids : transition'[k].promise = transition[k].promise
      /\ transition'[m].stage = stage
  BY DEF Staged
<1>3. \A at : Fits(at, transition[m].stage) => Fits(at, stage)
  BY DEF Fits, Running, Pending
<1>4. /\ \A i \in 1..Len(stack) :
           /\ stack'[i].id = stack[i].id
           /\ stack'[i].at = IF i = Len(stack) THEN "begin" ELSE stack[i].at
      /\ \/ Len(stack') = Len(stack)
         \/ /\ Len(stack') = Len(stack) + 1 /\ stage = "done"
            /\ stack'[Len(stack')].at = "superseded" /\ stack'[Len(stack')].id = m
  BY DEF GoesTo, GoesAndCalls
<1>. HIDE DEF GoesTo, GoesAndCalls, Staged
<1>5. \A i \in 1..Len(stack') : Fits(stack'[i].at, transition'[stack'[i].id].stage)
  <2>. SUFFICES ASSUME NEW i \in 1..Len(stack')
                PROVE  Fits(stack'[i].at, transition'[stack'[i].id].stage)
    OBVIOUS
  <2>1. CASE i = Len(stack)
    <3>1. stack'[i].at = "begin" /\ stack'[i].id = n /\ transition'[n].stage = "requested"
      BY <1>1, <1>2, <1>4, <2>1
    <3>. QED  BY <3>1 DEF Fits
  <2>2. CASE i < Len(stack)
    <3>1. stack'[i].at = stack[i].at /\ stack'[i].id = stack[i].id /\ i \in 1..Len(stack)
      BY <1>1, <1>4, <2>2
    <3>2. Fits(stack[i].at, transition[stack[i].id].stage)
      BY <3>1 DEF CallsFit
    <3>. QED  BY <1>1, <1>2, <1>3, <3>1, <3>2
  <2>3. CASE i > Len(stack)
    <3>1. stack'[i].at = "superseded" /\ stack'[i].id = m /\ transition'[m].stage = "done"
      BY <1>1, <1>2, <1>4, <2>3
    <3>. QED  BY <3>1 DEF Fits
  <2>. QED  BY <1>1, <2>1, <2>2, <2>3
<1>6. \A i, j \in 1..Len(stack') : i # j /\ stack'[i].id = stack'[j].id =>
        stack'[i].at = "superseded" \/ stack'[j].at = "superseded"
  BY <1>1, <1>4 DEF CallsFit
<1>7. \A k \in Ids : k > navigationId' <=> transition'[k].stage = "unused"
  <2>1. transition[m].stage # "unused" /\ stage # "unused"
    BY DEF Running, Pending
  <2>. QED  BY <1>2, <2>1 DEF CallsFit
<1>8. \A k \in Ids : k <= navigationId' => transition'[k].promise \in Ids
  BY <1>2 DEF CallsFit
<1>. QED  BY <1>5, <1>6, <1>7, <1>8 DEF CallsFit

LEMMA SwitchStep ==
    ASSUME IInv, NEW n \in Ids, Switch(n)
    PROVE  IInv'
<1>1. At("switch", n)
      /\ UNCHANGED <<options, navigationId, inner, state, stateMemento, navigated,
                     currentPageId, history, traversals, popstates, waiting, settled, shown>>
  BY DEF Switch
<1>2. Typed'
  BY <1>1, SwitchCases, ClearEffect DEF IInv, Typed, GoesTo, GoesAndCalls, Staged
<1>3. CallsFit'
  <2>1. CASE UNCHANGED transition /\ GoesTo("begin")
    <3>1. Fits("begin", "requested") /\ transition[n].stage = "requested"
      BY <1>1, TopStage DEF IInv, Fits
    <3>. QED  BY <1>1, <2>1, <3>1, TopFits DEF IInv
  <2>. QED  BY <1>1, <2>1, SwitchCases, SwitchFits DEF IInv
<1>4. Moved \subseteq Moved'
  <2>1. "done" \notin Early /\ "starting" \in Early /\ "cut" \in Early
    BY DEF Early
  <2>. QED  BY <1>1, <2>1, SwitchCases, StageMoves, SameMoves DEF IInv
<1>5. PagesCounted'
  BY <1>1, <1>4, PagesKept DEF IInv, PagesCounted
<1>. QED  BY <1>2, <1>3, <1>5 DEF IInv

LEMMA BeginCases ==
    ASSUME Typed, CallsFit, NEW n \in Ids, Begin(n)
    PROVE  /\ At("begin", n) /\ Staged(n, "starting") /\ inner' = n
           /\ \/ /\ navigationId > n /\ GoesTo("outdated")
                 /\ UNCHANGED <<currentTransition, currentNavigation, stateMemento, waiting>>
              \/ /\ navigationId = n
                 /\ currentTransition' = n /\ currentNavigation' = [NoNavigation EXCEPT !.id = n]
                 /\ IsSameUrl(n) /\ waiting' = {} /\ GoesTo("skipped") /\ UNCHANGED stateMemento
              \/ /\ navigationId = n
                 /\ currentTransition' = n /\ currentNavigation' = [NoNavigation EXCEPT !.id = n]
                 /\ ~IsSameUrl(n) /\ stateMemento' = state /\ GoesTo("started") /\ UNCHANGED waiting
<1>1. stack # <<>> /\ {"outdated", "skipped", "started"} \subseteq PlainPoints /\ "starting" \in Stages
  BY DEF Begin, At, PlainPoints, Points, Emissions, Stages
<1>2. Staged(n, "starting")
  BY <1>1, StageEffect DEF Begin
<1>3. \A q \in PlainPoints : stack' = Goto(q) => GoesTo(q)
  BY <1>1, GotoEffect
<1>. QED  BY <1>1, <1>2, <1>3 DEF Begin

LEMMA BeginStep ==
    ASSUME IInv, NEW n \in Ids, Begin(n)
    PROVE  IInv'
<1>1. /\ At("begin", n) /\ transition[n].stage = "requested" /\ inner' = n /\ Staged(n, "starting")
      /\ UNCHANGED <<options, navigationId, state, navigated, currentPageId, history, traversals,
                     popstates, settled, shown>>
  BY BeginCases, TopStage DEF IInv, Begin, Fits
<1>2. \E q : GoesTo(q) /\ q \in {"outdated", "skipped", "started"}
  BY BeginCases DEF IInv
<1>3. currentNavigation' \in [id: {0} \cup Ids, final: Urls \cup {None}, target: {0} \cup Ids]
  BY BeginCases DEF IInv, Typed, NoNavigation
<1>4. Typed'
  <2>1. waiting' \subseteq Ids /\ stateMemento' \in {state, stateMemento} /\ currentTransition' \in {0} \cup Ids
    BY BeginCases DEF IInv, Typed
  <2>. QED  BY <1>1, <1>2, <1>3, <2>1 DEF IInv, Typed, GoesTo, Staged
<1>5. CallsFit'
  <2>1. \A q \in {"outdated", "skipped", "started"} : Fits(q, "starting")
    BY DEF Fits
  <2>. QED  BY <1>1, <1>2, <2>1, TopFits DEF IInv
<1>6. Moved \subseteq Moved'
  BY <1>1, StageMoves DEF IInv, Early
<1>7. PagesCounted'
  BY <1>1, <1>6, PagesKept DEF IInv, PagesCounted
<1>. QED  BY <1>4, <1>5, <1>7 DEF IInv

LEMMA StartedCases ==
    ASSUME Typed, CallsFit, NEW n \in Ids, Started(n)
    PROVE  \/ transition[n].stage = "cut" /\ Leave(n)
           \/ /\ transition[n].stage = "starting" /\ Staged(n, "recognize") /\ Returns
              /\ UNCHANGED <<inner, currentTransition, currentNavigation>>
<1>1. /\ stack # <<>> /\ At("started", n) /\ "recognize" \in Stages
      /\ transition[n].stage \in {"starting", "cut"}
  BY TopStage DEF Started, Stages, Running, Pending, Fits
<1>. QED  BY <1>1, StageEffect, ReturnEffect DEF Started

LEMMA StartedStep ==
    ASSUME IInv, NEW n \in Ids, Started(n)
    PROVE  IInv'
<1>1. /\ At("started", n)
      /\ UNCHANGED <<options, navigationId, state, stateMemento, navigated, currentPageId, history,
                     traversals, popstates, waiting, settled, shown>>
  BY DEF Started
<1>2. CASE Leave(n)
  BY <1>1, <1>2, LeaveKeeps DEF IInv, Typed
<1>3. CASE /\ transition[n].stage = "starting" /\ Staged(n, "recognize") /\ Returns
           /\ UNCHANGED <<inner, currentTransition, currentNavigation>>
  <2>1. Typed'
    BY <1>1, <1>3 DEF IInv, Typed, Returns, Staged
  <2>2. CallsFit'
    BY <1>1, <1>3, TopFits DEF IInv
  <2>3. Moved \subseteq Moved'
    BY <1>1, <1>3, StageMoves DEF IInv, Early
  <2>4. PagesCounted'
    BY <1>1, <2>3, PagesKept DEF IInv, PagesCounted
  <2>. QED  BY <2>1, <2>2, <2>4 DEF IInv
<1>. QED  BY <1>2, <1>3, StartedCases DEF IInv

\* A call returns, for the actions that do it without going on with its navigation.
LEMMA ReturnFits ==
    ASSUME Typed, CallsFit, stack # <<>>, Returns, UNCHANGED <<navigationId, transition>>
    PROVE  CallsFit'
<1>1. Len(stack) \in Nat /\ Len(stack) >= 1 /\ Len(stack') = Len(stack) - 1
  BY EmptySeq, LenProperties DEF Typed, Returns
<1>2. \A i \in 1..Len(stack') :
        i \in 1..Len(stack) /\ stack'[i].id = stack[i].id /\ stack'[i].at = stack[i].at
  BY <1>1 DEF Returns
<1>. QED  BY <1>2 DEF CallsFit

LEMMA SupersededStep ==
    ASSUME IInv, NEW n \in Ids, Superseded(n)
    PROVE  IInv'
<1>1. /\ At("superseded", n) /\ Settle(n) /\ Clear(n) /\ stack # <<>> /\ stack' = Return
      /\ UNCHANGED <<options, navigationId, transition, inner, state, stateMemento, navigated,
                     currentPageId, history, traversals, popstates, waiting, shown>>
  BY DEF Superseded, At
<1>2. Returns /\ settled' \subseteq Ids
  BY <1>1, ReturnEffect, SettleType DEF IInv
<1>3. Typed'
  BY <1>1, <1>2, ClearEffect DEF IInv, Typed, Returns
<1>4. CallsFit'
  BY <1>1, <1>2, ReturnFits DEF IInv
<1>5. PagesCounted'
  BY <1>1, SameMoves, PagesKept DEF IInv, PagesCounted
<1>. QED  BY <1>3, <1>4, <1>5 DEF IInv

LEMMA RedirectCases ==
    ASSUME Typed, CallsFit, NEW n \in Ids, RedirectRequest(n)
    PROVE  /\ At("redirecting", n)
           /\ \/ /\ RouterListens /\ currentTransition \in Ids
                 /\ \E u \in Urls :
                      Requested(navigationId + 1, u, transition[currentTransition].promise)
                 /\ GoesAndCalls("failed", "switch", navigationId + 1)
              \/ /\ ~RouterListens /\ GoesTo("failed")
                 /\ UNCHANGED <<navigationId, transition, waiting>>
<1>1. At("redirecting", n) /\ stack # <<>> /\ {"failed", "switch"} \subseteq PlainPoints
  BY DEF RedirectRequest, At, PlainPoints, Points
<1>2. CASE ~RouterListens
  BY <1>1, <1>2, GotoEffect DEF RedirectRequest
<1>3. CASE RouterListens
  <2>. DEFINE t == transition[currentTransition]
              u == Last(stack).url
              replaceUrl == t.replaceUrl \/ options.urlUpdateStrategy = "eager" \/ t.popstate
  <2>1. scheduleNavigation(u, FALSE, replaceUrl, t.promise, Goto("failed"))
    BY <1>3 DEF RedirectRequest
  <2>2. currentTransition \in Ids /\ t.promise \in {0} \cup Ids
    BY <1>3 DEF Typed, RouterListens, Transitions
  <2>3. u \in Urls
    BY <1>1, TopCall DEF Frames, Last
  <2>4. replaceUrl \in BOOLEAN
    BY <2>2 DEF Typed, Transitions
  <2>. HIDE DEF u, replaceUrl
  <2>5. /\ Requested(navigationId + 1, u, t.promise)
        /\ stack' = Append(Goto("failed"), Frame("switch", navigationId + 1))
    BY <2>1, <2>2, <2>3, <2>4, RequestedBy
  <2>6. GoesAndCalls("failed", "switch", navigationId + 1)
    BY <1>1, <2>5, GoAndCallEffect DEF Requested
  <2>. QED  BY <1>1, <1>3, <2>2, <2>3, <2>5, <2>6
<1>. QED  BY <1>1, <1>2, <1>3

\* A call goes on at another point of the same stage.
LEMMA GoesFits ==
    ASSUME Typed, CallsFit, NEW p, NEW n, At(p, n), p # "superseded", NEW q,
           Fits(q, transition[n].stage), GoesTo(q), UNCHANGED <<navigationId, transition>>
    PROVE  CallsFit'
BY TopFits

LEMMA RedirectRequestStep ==
    ASSUME IInv, NEW n \in Ids, RedirectRequest(n)
    PROVE  IInv'
<1>1. /\ At("redirecting", n) /\ stack # <<>> /\ stack[Len(stack)].at = "redirecting"
      /\ UNCHANGED <<options, inner, currentTransition, currentNavigation, state, stateMemento,
                     navigated, currentPageId, history, traversals, popstates, settled, shown>>
  BY TopCall DEF IInv, RedirectRequest
<1>2. CASE RouterListens
  <2>. DEFINE p == transition[currentTransition].promise
  <2>1. PICK u \in Urls : Requested(navigationId + 1, u, p)
    BY <1>2, RedirectCases DEF IInv
  <2>2. GoesAndCalls("failed", "switch", navigationId + 1) /\ currentTransition \in Ids
    BY <1>2, RedirectCases DEF IInv
  <2>3. p \in {0} \cup Ids /\ popstates' \in Seq(Urls)
    BY <1>1, <2>2 DEF IInv, Typed, Transitions
  <2>. HIDE DEF p
  <2>. QED  BY <1>1, <2>1, <2>2, <2>3, RequestStep
<1>3. CASE ~RouterListens
  <2>1. GoesTo("failed") /\ UNCHANGED <<navigationId, transition, waiting>>
    BY <1>3, RedirectCases DEF IInv
  <2>2. Typed'
    BY <1>1, <2>1 DEF IInv, Typed, GoesTo
  <2>3. CallsFit'
    <3>1. Fits("failed", transition[n].stage)
      BY <1>1, TopStage DEF IInv, Fits
    <3>. QED  BY <1>1, <2>1, <3>1, GoesFits DEF IInv
  <2>4. PagesCounted'
    BY <1>1, <2>1, SameMoves, PagesKept DEF IInv, PagesCounted
  <2>. QED  BY <2>2, <2>3, <2>4 DEF IInv
<1>. QED  BY <1>2, <1>3

LEMMA HandledCases ==
    ASSUME Typed, CallsFit, NEW n \in Ids, Handled(n)
    PROVE  /\ At("handling", n)
           /\ UNCHANGED <<options, navigationId, transition, inner, currentTransition,
                          currentNavigation, stateMemento, navigated, currentPageId, popstates,
                          settled, shown>>
           /\ \/ GoesTo("redirecting") /\ UNCHANGED <<state, history, traversals, waiting>>
              \/ GoesTo("errored") /\ RestoreHistory(TRUE) /\ waiting' = {}
<1>1. /\ At("handling", n) /\ stack # <<>> /\ Len(stack) \in Nat /\ Len(stack) >= 1
      /\ stack[Len(stack)].id = n
  BY TopCall DEF Handled
<1>2. /\ "errored" \in PlainPoints
      /\ UNCHANGED <<options, navigationId, transition, inner, currentTransition,
                     currentNavigation, stateMemento, navigated, currentPageId, popstates,
                     settled, shown>>
  BY DEF Handled, PlainPoints, Points, Emissions
<1>3. CASE RestoreHistory(TRUE) /\ waiting' = {} /\ stack' = Goto("errored")
  BY <1>1, <1>2, <1>3, GotoEffect
<1>4. CASE /\ \E u \in Urls : stack' = Append(Return, [Frame("redirecting", n) EXCEPT !.url = u])
           /\ UNCHANGED <<state, history, traversals, waiting>>
  <2>1. PICK u \in Urls : stack' = Append(Return, [Frame("redirecting", n) EXCEPT !.url = u])
    BY <1>4
  <2>. DEFINE f == [Frame("redirecting", n) EXCEPT !.url = u]
              k == Len(stack) - 1
  <2>2. f \in Frames /\ f.at = "redirecting" /\ f.id = n
    BY DEF Frame, Frames, Points, Emissions
  <2>3. /\ Return \in Seq(Frames) /\ Len(Return) = k /\ k \in Nat
        /\ \A i \in 1..k : Return[i].id = stack[i].id /\ Return[i].at = stack[i].at
    BY <1>1, ReturnCalls
  <2>4. stack' = Append(Return, f)
    BY <2>1
  <2>. HIDE DEF f
  <2>5. /\ stack' \in Seq(Frames) /\ Len(stack') = k + 1
        /\ stack'[k + 1] = f /\ \A i \in 1..k : stack'[i] = Return[i]
    BY <2>2, <2>3, <2>4, AppendProperties
  <2>6. k + 1 = Len(stack) /\ \A i \in 1..Len(stack) : i = Len(stack) \/ i \in 1..k
    BY <1>1
  <2>. HIDE DEF k
  <2>7. GoesTo("redirecting")
    <3>1. \A i \in 1..Len(stack) :
            /\ stack'[i].id = stack[i].id
            /\ stack'[i].at = IF i = Len(stack) THEN "redirecting" ELSE stack[i].at
      <4>. SUFFICES ASSUME NEW i \in 1..Len(stack)
                    PROVE  /\ stack'[i].id = stack[i].id
                           /\ stack'[i].at = IF i = Len(stack) THEN "redirecting" ELSE stack[i].at
        OBVIOUS
      <4>1. CASE i = Len(stack)
        BY <1>1, <2>2, <2>5, <2>6, <4>1
      <4>2. CASE i # Len(stack)
        BY <2>3, <2>5, <2>6, <4>2
      <4>. QED  BY <4>1, <4>2
    <3>. QED  BY <2>5, <2>6, <3>1 DEF GoesTo
  <2>. QED  BY <1>1, <1>2, <1>4, <2>7
<1>. QED  BY <1>3, <1>4 DEF Handled

LEMMA HandledStep ==
    ASSUME IInv, NEW n \in Ids, Handled(n)
    PROVE  IInv'
<1>1. /\ At("handling", n)
      /\ UNCHANGED <<options, navigationId, transition, inner, currentTransition,
                     currentNavigation, stateMemento, navigated, currentPageId, popstates,
                     settled, shown>>
  BY HandledCases DEF IInv
<1>2. PICK q \in {"redirecting", "errored"} : GoesTo(q)
  BY HandledCases DEF IInv
<1>3. /\ state' \in {state, stateMemento} /\ traversals' \in Seq(Int) /\ waiting' \subseteq Ids
      /\ HistoryOK(history', Cardinality(Moved))
  BY HandledCases, RestoreEffect DEF IInv, Typed, PagesCounted
<1>4. Typed'
  BY <1>1, <1>2, <1>3 DEF IInv, Typed, GoesTo
<1>5. CallsFit'
  <2>1. Fits(q, transition[n].stage)
    BY <1>1, TopStage DEF IInv, Fits
  <2>. QED  BY <1>1, <1>2, <2>1, GoesFits DEF IInv
<1>6. PagesCounted'
  BY <1>1, <1>3, SameMoves, PagesKept DEF IInv, PagesCounted
<1>. QED  BY <1>4, <1>5, <1>6 DEF IInv

\* The components of the outlets are created, or a constructor of them throws.
LEMMA ActivatedCases ==
    ASSUME Typed, CallsFit, NEW n \in Ids, Activated(n) \/ ActivationThrows(n)
    PROVE  /\ At("activating", n) /\ stack # <<>>
           /\ UNCHANGED <<options, navigationId, inner, currentTransition, currentNavigation, state,
                          stateMemento, history, traversals, popstates, settled>>
           /\ \/ /\ transition[n].stage = "activating" /\ shown' = n
                 /\ Staged(n, "ending") /\ GoesTo("ended")
                 /\ currentPageId' = browserPageId /\ navigated' = TRUE /\ waiting' = {}
              \/ /\ transition[n].stage = "activating" /\ shown' = -1
                 /\ Staged(n, "failing") /\ GoesTo("handling")
                 /\ UNCHANGED <<currentPageId, navigated, waiting>>
              \/ /\ transition[n].stage = "done" /\ shown' \in {n, -1}
                 /\ Returns
                 /\ UNCHANGED <<transition, currentPageId, navigated, waiting>>
<1>1. /\ At("activating", n) /\ stack # <<>>
      /\ UNCHANGED <<options, navigationId, inner, currentTransition, currentNavigation, state,
                     stateMemento, history, traversals, popstates, settled>>
  BY DEF Activated, ActivationThrows, At
<1>2. /\ transition[n].stage \in {"activating", "done"}
      /\ {"ended", "handling"} \subseteq PlainPoints /\ {"ending", "failing"} \subseteq Stages
  BY <1>1, TopStage DEF Fits, PlainPoints, Points, Emissions, Stages
<1>3. CASE transition[n].stage = "done"
  <2>1. /\ stack' = Return /\ shown' \in {n, -1}
        /\ UNCHANGED <<transition, currentPageId, navigated, waiting>>
    BY <1>3 DEF Activated, ActivationThrows
  <2>. QED  BY <1>1, <1>3, <2>1, ReturnEffect
<1>4. CASE transition[n].stage = "activating"
  <2>1. CASE Activated(n)
    <3>1. /\ SetStage(n, "ending") /\ stack' = Goto("ended") /\ shown' = n
          /\ currentPageId' = browserPageId /\ navigated' = TRUE /\ waiting' = {}
      BY <1>4, <2>1 DEF Activated
    <3>. QED  BY <1>1, <1>2, <1>4, <3>1, StageEffect, GotoEffect
  <2>2. CASE ActivationThrows(n)
    <3>1. /\ SetStage(n, "failing") /\ stack' = Goto("handling") /\ shown' = -1
          /\ UNCHANGED <<currentPageId, navigated, waiting>>
      BY <1>4, <2>2 DEF ActivationThrows
    <3>. QED  BY <1>1, <1>2, <1>4, <3>1, StageEffect, GotoEffect
  <2>. QED  BY <2>1, <2>2
<1>. QED  BY <1>2, <1>3, <1>4

LEMMA ActivatedStep ==
    ASSUME IInv, NEW n \in Ids, Activated(n) \/ ActivationThrows(n)
    PROVE  IInv'
<1>1. /\ At("activating", n) /\ stack # <<>>
      /\ UNCHANGED <<options, navigationId, inner, currentTransition, currentNavigation, state,
                     stateMemento, history, traversals, popstates, settled>>
  BY ActivatedCases DEF IInv
<1>2. /\ stack' \in Seq(Frames) /\ transition' \in [Ids -> Transitions]
      /\ shown' \in {-1, 0} \cup Ids /\ navigated' \in BOOLEAN /\ waiting' \subseteq Ids
  BY ActivatedCases DEF IInv, Typed, Staged, GoesTo, Returns
<1>3. Typed'
  BY <1>1, <1>2 DEF IInv, Typed
<1>4. CallsFit'
  <2>1. Fits("ended", "ending") /\ Fits("handling", "failing")
    BY DEF Fits
  <2>. QED  BY <1>1, <2>1, ActivatedCases, TopFits, ReturnFits DEF IInv
<1>5. Moved \subseteq Moved'
  <2>1. "ending" \notin Early /\ "failing" \notin Early
    BY DEF Early
  <2>. QED  BY <1>1, <2>1, ActivatedCases, StageMoves, SameMoves DEF IInv
<1>6. currentPageId' \in 0..Cardinality(Moved)
  <2>1. currentPageId' \in {currentPageId, browserPageId}
    BY ActivatedCases DEF IInv
  <2>2. Cardinality(Moved) \in Nat
    BY MovedCount, Constants
  <2>. QED  BY <2>1, <2>2, BrowserPage DEF IInv, PagesCounted
<1>7. PagesCounted'
  BY <1>1, <1>5, <1>6, PagesKept DEF IInv, PagesCounted
<1>. QED  BY <1>3, <1>4, <1>7 DEF IInv

----------------------------------------------------------------------------
(* What a navigation awaits arrives. *)

LEMMA ArrivalIsUsed ==
    ASSUME Typed, CallsFit, NEW n \in Ids, NEW stage \in Pending, Awaits(n, stage)
    PROVE  /\ stack = <<>> /\ Len(stack) = 0 /\ transition[n].stage = stage
           /\ stage # "unused" /\ n <= navigationId
BY Constants DEF Awaits, Pending, CallsFit, Typed

LEMMA RecognizedCases ==
    ASSUME Typed, CallsFit, NEW n \in Ids, Recognized(n)
    PROVE  /\ stack = <<>> /\ transition[n].stage = "recognize" /\ Staged(n, "guards")
           /\ currentTransition' = n /\ transition[n].url \in Urls
           /\ currentNavigation' = [currentNavigation EXCEPT !.final = transition[n].url]
           /\ \/ history' = history
              \/ /\ options.urlUpdateStrategy = "eager"
                 /\ \E r : history' = setBrowserUrl(transition[n].url, r)
           /\ UNCHANGED <<options, navigationId, inner, state, stateMemento, navigated,
                          currentPageId, traversals, popstates, waiting, settled, shown, stack>>
<1>. DEFINE navigation == [currentNavigation EXCEPT !.final = transition[n].url]
<1>1. navigation.final = transition[n].url /\ transition[n].url \in Urls
  BY DEF Typed, Transitions
<1>2. "guards" \in Stages
  BY DEF Stages, Running, Pending
<1>. QED  BY <1>1, <1>2, StageEffect DEF Recognized, Awaits

LEMMA RecognizedStep ==
    ASSUME IInv, NEW n \in Ids, Recognized(n)
    PROVE  IInv'
<1>1. /\ stack = <<>> /\ transition[n].stage = "recognize" /\ Staged(n, "guards")
      /\ currentTransition' = n /\ transition[n].url \in Urls
      /\ currentNavigation' = [currentNavigation EXCEPT !.final = transition[n].url]
      /\ UNCHANGED <<options, navigationId, inner, state, stateMemento, navigated,
                     currentPageId, traversals, popstates, waiting, settled, shown, stack>>
  BY RecognizedCases DEF IInv
<1>2. Typed'
  BY <1>1 DEF IInv, Typed, Staged
<1>3. CallsFit'
  BY <1>1, FirstFits DEF IInv
<1>4. Moved \subseteq Moved'
  BY <1>1, StageMoves DEF IInv, Early
<1>5. PagesCounted'
  <2>1. CASE history' = history
    BY <1>1, <1>4, <2>1, PagesKept DEF IInv, PagesCounted
  <2>2. CASE /\ options.urlUpdateStrategy = "eager"
             /\ \E r : history' = setBrowserUrl(transition[n].url, r)
    <3>1. n \in Moved' /\ n \notin Moved
      BY <1>1, <2>2 DEF Moved, Early, Staged
    <3>. QED  BY <1>1, <1>4, <2>2, <3>1, OnePageMore DEF IInv
  <2>. QED  BY <2>1, <2>2, RecognizedCases DEF IInv
<1>. QED  BY <1>2, <1>3, <1>5 DEF IInv

LEMMA GuardsPassedStep ==
    ASSUME IInv, NEW n \in Ids, GuardsPassed(n)
    PROVE  IInv'
<1>1. /\ stack = <<>> /\ transition[n].stage = "guards" /\ Staged(n, "load")
      /\ UNCHANGED <<options, navigationId, inner, currentTransition, currentNavigation, state,
                     stateMemento, navigated, currentPageId, history, traversals, popstates,
                     waiting, settled, shown, stack>>
  BY StageEffect DEF IInv, GuardsPassed, Awaits, Stages, Running, Pending
<1>2. Typed'
  BY <1>1 DEF IInv, Typed, Staged
<1>3. CallsFit'
  BY <1>1, FirstFits DEF IInv
<1>4. Moved \subseteq Moved'
  <2>1. "load" \notin Early \/ transition[n].stage \in Early
    BY <1>1 DEF Early
  <2>. QED  BY <1>1, <2>1, StageMoves DEF IInv
<1>5. PagesCounted'
  BY <1>1, <1>4, PagesKept DEF IInv, PagesCounted
<1>. QED  BY <1>2, <1>3, <1>5 DEF IInv

\* A guard, a resolver or a loader cancels, redirects or throws.
LEMMA InterruptedCases ==
    ASSUME Typed, CallsFit, NEW n \in Ids, Reject(n) \/ Redirect(n) \/ Throw(n)
    PROVE  /\ stack = <<>> /\ transition[n].stage \in Pending
           /\ UNCHANGED <<options, navigationId, inner, currentTransition, currentNavigation,
                          stateMemento, currentPageId, popstates, settled, shown>>
           /\ \/ /\ Staged(n, IF transition[n].stage = "recognize" THEN "failing" ELSE "rejected")
                 /\ Calls("rejected", n) /\ RestoreHistory(FALSE)
                 /\ navigated' \in BOOLEAN /\ waiting' = {}
              \/ /\ Staged(n, "failing")
                 /\ Calls("redirecting", n) \/ Calls("handling", n)
                 /\ UNCHANGED <<state, navigated, history, traversals, waiting>>
<1>1. /\ stack = <<>> /\ transition[n].stage \in Pending
      /\ UNCHANGED <<options, navigationId, inner, currentTransition, currentNavigation,
                     stateMemento, currentPageId, popstates, settled, shown>>
  BY DEF Reject, Redirect, Throw, Awaits
<1>2. /\ {"failing", "rejected"} \subseteq Stages
      /\ {"rejected", "redirecting", "handling"} \subseteq Points
      /\ {"rejected", "handling"} \subseteq PlainPoints
  BY DEF Stages, Running, Pending, PlainPoints, Points, Emissions
<1>3. CASE Reject(n)
  <2>. DEFINE stage == IF transition[n].stage = "recognize" THEN "failing" ELSE "rejected"
              f == Frame("rejected", n)
  <2>1. /\ SetStage(n, stage) /\ stack' = <<f>> /\ RestoreHistory(FALSE)
        /\ navigated' = (navigated \/ RouterListens) /\ waiting' = {}
    BY <1>3 DEF Reject
  <2>2. Staged(n, stage) /\ f \in Frames /\ f.at = "rejected" /\ f.id = n
    BY <1>2, <2>1, StageEffect, FrameType
  <2>. HIDE DEF f
  <2>3. Calls("rejected", n)
    BY <1>1, <1>2, <2>1, <2>2, FirstCall
  <2>. QED  BY <1>1, <2>1, <2>2, <2>3
<1>4. CASE Redirect(n)
  <2>1. PICK u \in Urls : stack' = <<[Frame("redirecting", n) EXCEPT !.url = u]>>
    BY <1>4 DEF Redirect
  <2>. DEFINE f == [Frame("redirecting", n) EXCEPT !.url = u]
  <2>2. f \in Frames /\ f.at = "redirecting" /\ f.id = n /\ stack' = <<f>>
    BY <2>1 DEF Frame, Frames, Points, Emissions
  <2>. HIDE DEF f
  <2>3. Calls("redirecting", n)
    BY <1>1, <1>2, <2>2, FirstCall
  <2>. QED  BY <1>1, <1>2, <1>4, <2>3, StageEffect DEF Redirect
<1>5. CASE Throw(n)
  <2>. DEFINE f == Frame("handling", n)
  <2>1. SetStage(n, "failing") /\ stack' = Append(stack, f)
    BY <1>5 DEF Throw, Throws
  <2>2. f \in Frames /\ f.at = "handling" /\ f.id = n
    BY <1>2, FrameType
  <2>. HIDE DEF f
  <2>3. Calls("handling", n)
    BY <1>2, <2>1, <2>2, CallEffect
  <2>. QED  BY <1>1, <1>2, <1>5, <2>1, <2>3, StageEffect DEF Throw
<1>. QED  BY <1>3, <1>4, <1>5

LEMMA InterruptedStep ==
    ASSUME IInv, NEW n \in Ids, Reject(n) \/ Redirect(n) \/ Throw(n)
    PROVE  IInv'
<1>1. /\ stack = <<>> /\ transition[n].stage \in Pending
      /\ UNCHANGED <<options, navigationId, inner, currentTransition, currentNavigation,
                     stateMemento, currentPageId, popstates, settled, shown>>
  BY InterruptedCases DEF IInv
<1>2. /\ \E stage \in {"failing", "rejected"} : Staged(n, stage)
      /\ \E p \in {"rejected", "redirecting", "handling"} : Calls(p, n)
      /\ \E p, stage : Staged(n, stage) /\ Calls(p, n) /\ Fits(p, stage) /\ stage \in {"failing", "rejected"}
  BY InterruptedCases DEF IInv, Fits
<1>3. /\ state' \in {state, stateMemento} /\ traversals' \in Seq(Int) /\ waiting' \subseteq Ids
      /\ HistoryOK(history', Cardinality(Moved)) /\ navigated' \in BOOLEAN
  BY InterruptedCases, RestoreEffect DEF IInv, Typed, PagesCounted
<1>4. Typed'
  BY <1>1, <1>2, <1>3 DEF IInv, Typed, Calls, Staged
<1>5. CallsFit'
  <2>1. PICK p, stage : Staged(n, stage) /\ Calls(p, n) /\ Fits(p, stage) /\ stage \in {"failing", "rejected"}
    BY <1>2
  <2>2. transition[n].stage # "unused" /\ stage # "unused"
    BY <1>1, <2>1 DEF Pending
  <2>. QED  BY <1>1, <2>1, <2>2, FirstFits DEF IInv
<1>6. Moved \subseteq Moved'
  <2>1. "failing" \notin Early /\ "rejected" \notin Early
    BY DEF Early
  <2>. QED  BY <1>1, <1>2, <2>1, StageMoves DEF IInv
<1>7. PagesCounted'
  BY <1>1, <1>3, <1>6, PagesKept DEF IInv, PagesCounted
<1>. QED  BY <1>4, <1>5, <1>7 DEF IInv

LEMMA ActivateCases ==
    ASSUME Typed, CallsFit, NEW n \in Ids, Activate(n)
    PROVE  /\ stack = <<>> /\ transition[n].stage = "load"
           /\ UNCHANGED <<options, navigationId, inner, stateMemento, navigated, currentPageId,
                          traversals, popstates, waiting, settled, shown>>
           /\ \/ /\ currentNavigation.id = 0 \/ currentNavigation.final = None
                 /\ Staged(n, "failing") /\ Calls("handling", n)
                 /\ UNCHANGED <<currentTransition, currentNavigation, state, history>>
              \/ /\ currentNavigation.id # 0 /\ currentNavigation.final \in Urls
                 /\ Staged(n, "activating") /\ Calls("activating", n)
                 /\ currentTransition' = n
                 /\ currentNavigation' = [currentNavigation EXCEPT !.target = n]
                 /\ state' = [url |-> currentNavigation.final, router |-> n]
                 /\ \/ options.urlUpdateStrategy # "deferred" /\ history' = history
                    \/ /\ options.urlUpdateStrategy = "deferred"
                       /\ \E r : history' = setBrowserUrl(currentNavigation.final, r)
<1>1. /\ stack = <<>> /\ transition[n].stage = "load"
      /\ UNCHANGED <<options, navigationId, inner, stateMemento, navigated, currentPageId,
                     traversals, popstates, waiting, settled, shown>>
  BY DEF Activate, Awaits
<1>2. /\ {"failing", "activating"} \subseteq Stages
      /\ {"activating", "handling"} \subseteq Points
      /\ {"activating", "handling"} \subseteq PlainPoints
  BY DEF Stages, Running, Pending, PlainPoints, Points, Emissions
<1>3. CASE currentNavigation.id = 0 \/ currentNavigation.final = None
  <2>. DEFINE f == Frame("handling", n)
  <2>1. SetStage(n, "failing") /\ stack' = Append(stack, f)
        /\ UNCHANGED <<currentTransition, currentNavigation, state, history>>
    BY <1>3 DEF Activate, Throws
  <2>2. f \in Frames /\ f.at = "handling" /\ f.id = n
    BY <1>2, FrameType
  <2>. HIDE DEF f
  <2>3. Calls("handling", n)
    BY <1>2, <2>1, <2>2, CallEffect
  <2>. QED  BY <1>1, <1>2, <1>3, <2>1, <2>3, StageEffect
<1>4. CASE ~(currentNavigation.id = 0 \/ currentNavigation.final = None)
  <2>. DEFINE f == Frame("activating", n)
  <2>1. /\ SetStage(n, "activating") /\ stack' = <<f>>
        /\ currentTransition' = n
        /\ currentNavigation' = [currentNavigation EXCEPT !.target = n]
        /\ state' = [url |-> currentNavigation.final, router |-> n]
        /\ history' = IF options.urlUpdateStrategy = "deferred"
                      THEN setBrowserUrl(currentNavigation.final,
                                         transition[currentNavigation.id].replaceUrl)
                      ELSE history
    BY <1>4 DEF Activate
  <2>2. f \in Frames /\ f.at = "activating" /\ f.id = n
    BY <1>2, FrameType
  <2>. HIDE DEF f
  <2>3. Calls("activating", n)
    BY <1>1, <1>2, <2>1, <2>2, FirstCall
  <2>4. currentNavigation.final \in Urls
    BY <1>4 DEF Typed
  <2>. QED  BY <1>1, <1>2, <1>4, <2>1, <2>3, <2>4, StageEffect
<1>. QED  BY <1>3, <1>4

LEMMA ActivateStep ==
    ASSUME IInv, NEW n \in Ids, Activate(n)
    PROVE  IInv'
<1>1. /\ stack = <<>> /\ transition[n].stage = "load"
      /\ UNCHANGED <<options, navigationId, inner, stateMemento, navigated, currentPageId,
                     traversals, popstates, waiting, settled, shown>>
  BY ActivateCases DEF IInv
<1>2. CASE /\ Staged(n, "failing") /\ Calls("handling", n)
           /\ UNCHANGED <<currentTransition, currentNavigation, state, history>>
  <2>1. Typed'
    BY <1>1, <1>2 DEF IInv, Typed, Calls, Staged
  <2>2. CallsFit'
    BY <1>1, <1>2, FirstFits DEF IInv, Fits
  <2>3. Moved \subseteq Moved'
    BY <1>1, <1>2, StageMoves DEF IInv, Early
  <2>4. PagesCounted'
    BY <1>1, <1>2, <2>3, PagesKept DEF IInv, PagesCounted
  <2>. QED  BY <2>1, <2>2, <2>4 DEF IInv
<1>3. CASE /\ currentNavigation.final \in Urls
           /\ Staged(n, "activating") /\ Calls("activating", n)
           /\ currentTransition' = n
           /\ currentNavigation' = [currentNavigation EXCEPT !.target = n]
           /\ state' = [url |-> currentNavigation.final, router |-> n]
           /\ \/ options.urlUpdateStrategy # "deferred" /\ history' = history
              \/ /\ options.urlUpdateStrategy = "deferred"
                 /\ \E r : history' = setBrowserUrl(currentNavigation.final, r)
  <2>1. Typed'
    BY <1>1, <1>3 DEF IInv, Typed, Calls, Staged
  <2>2. CallsFit'
    BY <1>1, <1>3, FirstFits DEF IInv, Fits
  <2>3. Moved \subseteq Moved'
    BY <1>1, <1>3, StageMoves DEF IInv, Early
  <2>4. CASE history' = history
    <3>1. PagesCounted'
      BY <1>1, <2>3, <2>4, PagesKept DEF IInv, PagesCounted
    <3>. QED  BY <2>1, <2>2, <3>1 DEF IInv
  <2>5. CASE /\ options.urlUpdateStrategy = "deferred"
             /\ \E r : history' = setBrowserUrl(currentNavigation.final, r)
    <3>1. n \in Moved' /\ n \notin Moved
      BY <1>1, <1>3, <2>5 DEF Moved, Early, Staged
    <3>2. PagesCounted'
      BY <1>1, <1>3, <2>3, <2>5, <3>1, OnePageMore DEF IInv
    <3>. QED  BY <2>1, <2>2, <3>2 DEF IInv
  <2>. QED  BY <1>3, <2>4, <2>5
<1>. QED  BY <1>2, <1>3, ActivateCases DEF IInv

----------------------------------------------------------------------------
(* The browser. *)

LEMMA TravelEffect ==
    ASSUME Typed, NEW c \in Nat, HistoryOK(history, c), NEW delta \in Int, Travel(delta)
    PROVE  /\ popstates' \in Seq(Urls) /\ HistoryOK(history', c)
           /\ \/ UNCHANGED <<history, popstates>>
              \/ popstates' # <<>>
<1>1. history.entries \in Seq(Entries(c)) /\ history.position \in Nat
  BY DEF HistoryOK, Entries
<1>2. CASE history.position + delta \in DOMAIN history.entries
  <2>. DEFINE p == history.position + delta
  <2>1. history' = [history EXCEPT !.position = p]
        /\ popstates' = Append(popstates, history.entries[p].url)
    BY <1>2 DEF Travel
  <2>2. p \in 1..Len(history.entries) /\ p \in Nat
    BY <1>1, <1>2
  <2>. HIDE DEF p
  <2>3. history.entries[p] \in Entries(c)
    BY <1>1, <2>2, ElementOfSeq
  <2>4. popstates' \in Seq(Urls) /\ popstates' # <<>>
    BY <2>1, <2>3, AppendProperties DEF Entries, Typed
  <2>5. history'.entries = history.entries /\ history'.position = p
        /\ history' \in [entries: Seq([url: Urls, page: (0..c) \cup {None}]), position: Nat]
    BY <2>1, <2>2 DEF HistoryOK
  <2>. QED  BY <2>2, <2>4, <2>5 DEF HistoryOK
<1>3. CASE ~(history.position + delta \in DOMAIN history.entries)
  BY <1>3 DEF Travel, Typed
<1>. QED  BY <1>2, <1>3

LEMMA BrowserCases ==
    ASSUME Typed, PagesCounted, BackOrForward \/ HistoryGo
    PROVE  /\ stack = <<>> /\ traversals' \in Seq(Int)
           /\ UNCHANGED <<options, navigationId, transition, inner, currentTransition,
                          currentNavigation, state, stateMemento, navigated, currentPageId,
                          waiting, settled, shown, stack>>
           /\ popstates' \in Seq(Urls) /\ HistoryOK(history', Cardinality(Moved))
           /\ UNCHANGED <<history, popstates>> \/ popstates' # <<>>
           /\ traversals = <<>> => traversals' = <<>> /\ navigationId # 0
<1>1. Cardinality(Moved) \in Nat /\ HistoryOK(history, Cardinality(Moved))
  BY MovedCount, Constants DEF PagesCounted
<1>2. CASE BackOrForward
  <2>1. PICK delta \in {-1, 1} : Travel(delta)
    BY <1>2 DEF BackOrForward
  <2>2. delta \in Int
    OBVIOUS
  <2>. QED  BY <1>1, <1>2, <2>1, <2>2, TravelEffect DEF BackOrForward, Typed
<1>3. CASE HistoryGo
  <2>1. Head(traversals) \in Int /\ traversals' \in Seq(Int) /\ Travel(Head(traversals))
    BY <1>3, HeadTailProperties DEF HistoryGo, Typed
  <2>. QED  BY <1>1, <1>3, <2>1, TravelEffect DEF HistoryGo
<1>. QED  BY <1>2, <1>3

LEMMA BrowserStep == IInv /\ (BackOrForward \/ HistoryGo) => IInv'
<1>. SUFFICES ASSUME IInv, BackOrForward \/ HistoryGo
              PROVE  IInv'
  OBVIOUS
<1>1. Typed'
  BY BrowserCases DEF IInv, Typed
<1>2. CallsFit'
  BY BrowserCases DEF IInv, CallsFit
<1>3. PagesCounted'
  BY BrowserCases, SameMoves, PagesKept DEF IInv, PagesCounted
<1>. QED  BY <1>1, <1>2, <1>3 DEF IInv

----------------------------------------------------------------------------

LEMMA InvInit == Init => IInv
<1>. SUFFICES ASSUME Init PROVE IInv
  OBVIOUS
<1>1. Typed
  <2>1. NoTransition \in Transitions
    BY Constants DEF NoTransition, Transitions, Stages
  <2>2. options \in Options /\ navigationId \in 0..MaxNavigations
    BY RouterAssumption DEF Init
  <2>3. transition \in [Ids -> Transitions]
    BY <2>1 DEF Init
  <2>4. /\ currentNavigation \in [id: {0} \cup Ids, final: Urls \cup {None}, target: {0} \cup Ids]
        /\ state \in [url: Urls, router: {0} \cup Ids]
        /\ stateMemento \in [url: Urls, router: {0} \cup Ids]
    BY Constants DEF Init, NoNavigation
  <2>5. traversals \in Seq(Int) /\ popstates \in Seq(Urls) /\ stack \in Seq(Frames)
    BY DEF Init
  <2>6. /\ inner \in {0} \cup Ids /\ currentTransition \in {0} \cup Ids /\ navigated \in BOOLEAN
        /\ waiting \subseteq Ids /\ settled \subseteq Ids /\ shown \in {-1, 0} \cup Ids
    BY DEF Init
  <2>. QED  BY <2>2, <2>3, <2>4, <2>5, <2>6 DEF Typed
<1>2. CallsFit
  BY Constants DEF Init, CallsFit, NoTransition, Ids
<1>3. PagesCounted
  <2>1. Cardinality(Moved) \in Nat
    BY MovedCount, Constants
  <2>2. PICK u \in Urls : history = [entries |-> <<[url |-> u, page |-> None]>>, position |-> 1]
    BY DEF Init
  <2>3. HistoryOK(history, Cardinality(Moved))
    BY <2>1, <2>2 DEF HistoryOK
  <2>. QED  BY <2>1, <2>3 DEF PagesCounted, Init
<1>. QED  BY <1>1, <1>2, <1>3 DEF IInv

LEMMA InvNext == IInv /\ [Next]_vars => IInv'
<1>. SUFFICES ASSUME IInv, [Next]_vars PROVE IInv'
  OBVIOUS
<1>1. CASE UNCHANGED vars
  BY <1>1 DEF vars, IInv, Typed, CallsFit, PagesCounted, Moved, Early
<1>2. CASE Navigate \/ SyncWithBrowser \/ BackOrForward \/ HistoryGo
  BY <1>2, NavigateStep, SyncStep, BrowserStep
<1>3. ASSUME NEW n \in Ids, Call(n)
      PROVE  IInv'
  BY <1>3, SwitchStep, BeginStep, StartedStep, FinishStep, SupersededStep, RedirectRequestStep,
     FailedStep, HandledStep, ActivatedStep DEF Call
<1>4. ASSUME NEW n \in Ids, Arrive(n)
      PROVE  IInv'
  BY <1>4, RecognizedStep, GuardsPassedStep, InterruptedStep, ActivateStep DEF Arrive
<1>. QED  BY <1>1, <1>2, <1>3, <1>4 DEF Next

LEMMA OptionsStay == [Next]_vars => options' = options
<1>. SUFFICES ASSUME [Next]_vars PROVE options' = options
  OBVIOUS
<1>1. CASE UNCHANGED vars
  BY <1>1 DEF vars
<1>2. CASE Navigate \/ SyncWithBrowser \/ BackOrForward \/ HistoryGo
  BY <1>2 DEF Navigate, SyncWithBrowser, BackOrForward, HistoryGo
<1>3. ASSUME NEW n \in Ids, Call(n)
      PROVE  options' = options
  BY <1>3 DEF Call, Switch, Begin, Started, Finish, Superseded, RedirectRequest, Failed, Handled,
              Activated, ActivationThrows
<1>4. ASSUME NEW n \in Ids, Arrive(n)
      PROVE  options' = options
  BY <1>4 DEF Arrive, Recognized, GuardsPassed, Reject, Redirect, Throw, Activate
<1>. QED  BY <1>1, <1>2, <1>3, <1>4 DEF Next

\* The variables keep their types, whatever the subscribers of the events do: a
\* history entry and currentPageId hold no page id above the number of
\* navigations that have given the browser their URL.
THEOREM TypeCorrect == Spec => []TypeOK
<1>1. IInv /\ options \in Configurations => TypeOK
  <2>. SUFFICES ASSUME IInv, options \in Configurations PROVE TypeOK
    OBVIOUS
  <2>. DEFINE c == Cardinality(Moved)
  <2>1. c \in 0..MaxNavigations /\ currentPageId \in 0..c /\ HistoryOK(history, c)
    BY MovedCount DEF IInv, PagesCounted
  <2>. HIDE DEF c
  <2>2. currentPageId \in Pages
    BY <2>1, Constants DEF Pages
  <2>3. history.entries \in Seq([url: Urls, page: Pages \cup {None}])
    <3>1. HistoryOK(history, MaxNavigations)
      BY <2>1, HistoryGrows, Constants
    <3>. QED  BY <3>1 DEF HistoryOK, Pages
  <2>4. stack \in Seq([at: Points, id: Ids, url: Urls \cup {None}])
    <3>1. Frames \subseteq [at: Points, id: Ids, url: Urls \cup {None}]
      BY DEF Frames
    <3>. QED  BY <3>1, SeqMonotonic DEF IInv, Typed
  <2>. QED  BY <2>1, <2>2, <2>3, <2>4 DEF IInv, Typed, TypeOK, HistoryOK, Transitions, Stages, Points
<1>2. Init => options \in Configurations
  BY DEF Init
<1>3. IInv /\ options \in Configurations /\ [Next]_vars => (options \in Configurations)'
  BY OptionsStay
<1>. QED  BY <1>1, <1>2, <1>3, InvInit, InvNext, PTL DEF Spec

----------------------------------------------------------------------------
(* One navigation at a time: unless a subscriber navigates from within the  *)
(* cancellation of the navigation that another one supersedes.              *)

\* The stages in which the switchMap is subscribed to a navigation.
Subscribed == {"starting", "failing", "ending"} \cup Running

\* The navigation subscribed to is the current one.
Own ==
    \A n \in Ids : transition[n].stage \in Subscribed =>
        inner = n /\ currentTransition = n /\ currentNavigation.id = n

\* A call waits for those above it from within an emission to which subscribers
\* react, after a redirect, or before it begins while the navigation it supersedes
\* is cancelled.  A navigation that begins is the last one requested, and nothing
\* is subscribed to any more.
CallOrder ==
    \A i \in 1..Len(stack) :
        /\ i < Len(stack) =>
             \/ stack[i].at \in ReactsTo \cup {"failed"}
             \/ stack[i].at = "begin" /\ i = Len(stack) - 1 /\ stack[Len(stack)].at = "superseded"
        /\ stack[i].at \in {"switch", "begin"} => stack[i].id = navigationId
        /\ stack[i].at = "begin" => \A n \in Ids : transition[n].stage \notin Subscribed

NoReentry == "superseded" \notin ReactsTo

IInvOne == IInv /\ Own /\ CallOrder

LEMMA Depth ==
    ASSUME Typed
    PROVE  Len(stack) \in Nat /\ (stack # <<>> => Len(stack) >= 1 /\ Len(stack) \in 1..Len(stack))
BY EmptySeq, LenProperties DEF Typed

LEMMA BelowTop ==
    ASSUME Typed, CallOrder, NoReentry, stack # <<>>, stack[Len(stack)].at # "superseded"
    PROVE  \A i \in 1..Len(stack) : i # Len(stack) =>
             stack[i].at \in ReactsTo \cup {"failed"} /\ stack[i].at \notin {"switch", "begin", "superseded"}
BY Depth, Constants DEF CallOrder, NoReentry, Emissions

LEMMA GoesInOrder ==
    ASSUME Typed, CallOrder, NoReentry, stack # <<>>, stack[Len(stack)].at # "superseded",
           NEW q, q # "switch", GoesTo(q), UNCHANGED navigationId,
           q = "begin" => /\ stack[Len(stack)].id = navigationId
                          /\ \A m \in Ids : transition'[m].stage \notin Subscribed
    PROVE  CallOrder'
BY Depth, BelowTop DEF CallOrder, GoesTo

LEMMA ReturnsInOrder ==
    ASSUME Typed, CallOrder, stack # <<>>, Returns, UNCHANGED navigationId,
           \A n \in Ids : transition'[n].stage \in Subscribed => transition[n].stage \in Subscribed
    PROVE  CallOrder'
<1>1. Len(stack) \in Nat /\ Len(stack) >= 1 /\ Len(stack') = Len(stack) - 1
  BY Depth DEF Returns
<1>2. \A i \in 1..Len(stack') :
        /\ i \in 1..Len(stack) /\ i < Len(stack) /\ (i < Len(stack') => i # Len(stack) - 1)
        /\ stack'[i].id = stack[i].id /\ stack'[i].at = stack[i].at
  BY <1>1 DEF Returns
<1>. QED  BY <1>1, <1>2 DEF CallOrder

LEMMA CallsInOrder ==
    ASSUME Typed, CallOrder, NoReentry, stack = <<>> \/ stack[Len(stack)].at \in ReactsTo,
           Calls("switch", navigationId'),
           \A n \in Ids : transition'[n].stage \in Subscribed => transition[n].stage \in Subscribed
    PROVE  CallOrder'
<1>1. Len(stack) \in Nat /\ Len(stack') = Len(stack) + 1
  BY Depth DEF Calls
<1>2. \A i \in 1..Len(stack) :
        /\ stack'[i].id = stack[i].id /\ stack'[i].at = stack[i].at
        /\ stack[i].at \in ReactsTo \cup {"failed"} /\ stack[i].at \notin {"switch", "begin"}
  <2>1. CASE stack = <<>>
    BY <2>1
  <2>2. CASE stack # <<>>
    BY <2>2, Depth, BelowTop, Constants DEF Calls, Emissions, NoReentry
  <2>. QED  BY <2>1, <2>2
<1>3. stack'[Len(stack')].at = "switch" /\ stack'[Len(stack')].id = navigationId'
  BY DEF Calls
<1>4. \A i \in 1..Len(stack') : i = Len(stack') \/ i \in 1..Len(stack)
  BY <1>1
<1>. QED  BY <1>1, <1>2, <1>3, <1>4 DEF CallOrder

\* The top goes to point p and calls q.
LEMMA GoesAndCallsInOrder ==
    ASSUME Typed, CallOrder, NoReentry, stack # <<>>, stack[Len(stack)].at # "superseded",
           NEW p, NEW q, NEW n, GoesAndCalls(p, q, n),
           \/ p = "failed" /\ q = "switch" /\ n = navigationId'
           \/ /\ p = "begin" /\ q = "superseded" /\ stack[Len(stack)].id = navigationId'
              /\ \A m \in Ids : transition'[m].stage \notin Subscribed
    PROVE  CallOrder'
<1>1. Len(stack) \in Nat /\ Len(stack) >= 1 /\ Len(stack') = Len(stack) + 1
  BY Depth DEF GoesAndCalls
<1>2. \A i \in 1..Len(stack) : i # Len(stack) =>
        /\ stack'[i].id = stack[i].id /\ stack'[i].at = stack[i].at
        /\ stack[i].at \in ReactsTo \cup {"failed"} /\ stack[i].at \notin {"switch", "begin"}
  BY BelowTop DEF GoesAndCalls
<1>3. /\ stack'[Len(stack')].at = q /\ stack'[Len(stack')].id = n
      /\ stack'[Len(stack)].at = p /\ stack'[Len(stack)].id = stack[Len(stack)].id
  BY <1>1, Depth DEF GoesAndCalls
<1>4. \A i \in 1..Len(stack') : i = Len(stack') \/ i = Len(stack) \/ (i \in 1..Len(stack) /\ i # Len(stack))
  BY <1>1
<1>. QED  BY <1>1, <1>2, <1>3, <1>4 DEF CallOrder

\* The first call of a step of the event loop, or none.
LEMMA FirstInOrder ==
    ASSUME stack = <<>>, NEW p, NEW n, p \notin {"switch", "begin"},
           UNCHANGED stack \/ Calls(p, n)
    PROVE  CallOrder'
<1>1. Len(stack) = 0
  OBVIOUS
<1>2. \A i \in 1..Len(stack') : i = Len(stack') /\ stack'[i].at = p
  BY <1>1 DEF Calls
<1>. QED  BY <1>2 DEF CallOrder

\* Nothing becomes subscribed, or what is stays the current navigation.
LEMMA OwnKept ==
    ASSUME Own, UNCHANGED inner,
           \A n \in Ids : transition'[n].stage \in Subscribed =>
               /\ transition[n].stage \in Subscribed
               /\ currentTransition = n => currentTransition' = n
               /\ currentNavigation.id = n => currentNavigation'.id = n
    PROVE  Own'
BY DEF Own

LEMMA NoneSubscribed ==
    ASSUME \A n \in Ids : transition'[n].stage \notin Subscribed
    PROVE  Own'
BY DEF Own

LEMMA RequestOne ==
    ASSUME IInvOne, NEW n, NEW u, NEW p, Requested(n, u, p),
           UNCHANGED <<inner, currentTransition, currentNavigation>>
    PROVE  /\ Own'
           /\ \A m \in Ids : transition'[m].stage \in Subscribed => transition[m].stage \in Subscribed
<1>1. \A m \in Ids : transition'[m].stage \in Subscribed => transition[m].stage \in Subscribed
  BY DEF Requested, Subscribed, Running, Pending
<1>. QED  BY <1>1, OwnKept DEF IInvOne

LEMMA NavigateOne ==
    ASSUME IInvOne, NoReentry, Navigate \/ SyncWithBrowser
    PROVE  Own' /\ CallOrder'
<1>1. /\ \E u \in Urls : Requested(navigationId + 1, u, 0)
      /\ Calls("switch", navigationId + 1)
      /\ stack = <<>> \/ stack[Len(stack)].at \in ReactsTo
      /\ UNCHANGED <<inner, currentTransition, currentNavigation>>
  BY NavigateCalls, SyncCalls DEF IInvOne, IInv
<1>2. navigationId' = navigationId + 1
  BY <1>1 DEF Requested
<1>. QED  BY <1>1, <1>2, RequestOne, CallsInOrder DEF IInvOne, IInv

LEMMA SwitchOne ==
    ASSUME IInvOne, NoReentry, NEW n \in Ids, Switch(n)
    PROVE  Own' /\ CallOrder'
<1>1. /\ At("switch", n) /\ stack # <<>> /\ stack[Len(stack)].at = "switch" /\ stack[Len(stack)].id = n
      /\ navigationId' = navigationId
  BY TopCall DEF IInvOne, IInv, Switch
<1>2. n = navigationId
  BY <1>1, Depth DEF IInvOne, IInv, CallOrder
<1>3. \A m \in Ids : transition'[m].stage \notin Subscribed
  <2>. SUFFICES ASSUME NEW m \in Ids PROVE transition'[m].stage \notin Subscribed
    OBVIOUS
  <2>1. transition[m].stage \in Subscribed => m = inner
    BY DEF IInvOne, Own
  <2>2. "cut" \notin Subscribed /\ "done" \notin Subscribed
    BY DEF Subscribed, Running, Pending
  <2>3. \/ UNCHANGED transition /\ (inner = 0 \/ transition[inner].stage \in {"done", "cut"})
        \/ Staged(inner, "cut") \/ Staged(inner, "done")
    BY SwitchCases DEF IInvOne, IInv
  <2>. QED  BY <2>1, <2>2, <2>3, Constants DEF Staged
<1>4. GoesTo("begin") \/ GoesAndCalls("begin", "superseded", inner)
  BY SwitchCases DEF IInvOne, IInv
<1>. QED  BY <1>1, <1>2, <1>3, <1>4, NoneSubscribed, GoesInOrder, GoesAndCallsInOrder DEF IInvOne, IInv

\* A navigation that begins is the last one requested.
LEMMA BeginsLast ==
    ASSUME IInvOne, NEW n \in Ids, At("begin", n)
    PROVE  n = navigationId /\ \A m \in Ids : transition[m].stage \notin Subscribed
BY TopCall, Depth DEF IInvOne, IInv, CallOrder

LEMMA BeginOne ==
    ASSUME IInvOne, NoReentry, NEW n \in Ids, Begin(n)
    PROVE  Own' /\ CallOrder'
<1>1. At("begin", n) /\ Staged(n, "starting") /\ inner' = n
  BY BeginCases DEF IInvOne, IInv
<1>2. n = navigationId /\ \A m \in Ids : transition[m].stage \notin Subscribed
  BY <1>1, BeginsLast
<1>3. currentTransition' = n /\ currentNavigation' = [NoNavigation EXCEPT !.id = n]
      /\ \E q \in {"skipped", "started"} : GoesTo(q)
  BY <1>2, BeginCases, Constants DEF IInvOne, IInv
<1>4. currentNavigation'.id = n
  BY <1>3 DEF NoNavigation
<1>5. Own'
  BY <1>1, <1>2, <1>3, <1>4 DEF Own, Staged
<1>6. stack # <<>> /\ stack[Len(stack)].at = "begin" /\ navigationId' = navigationId
  BY <1>1, TopCall DEF IInvOne, IInv, Begin
<1>7. CallOrder'
  BY <1>3, <1>6, GoesInOrder DEF IInvOne, IInv
<1>. QED  BY <1>5, <1>7

LEMMA LeaveOne ==
    ASSUME IInvOne, NoReentry, NEW p, NEW n \in Ids, At(p, n), Leave(n), UNCHANGED navigationId,
           p \in {"started", "skipped", "outdated", "rejected", "errored", "ended", "failed"}
    PROVE  Own' /\ CallOrder'
<1>1. stack # <<>> /\ stack[Len(stack)].at = p /\ Fits(p, transition[n].stage)
  BY TopCall, TopStage DEF IInvOne, IInv
<1>2. CASE Returns /\ UNCHANGED <<transition, inner, currentTransition, currentNavigation>>
  BY <1>1, <1>2, OwnKept, ReturnsInOrder DEF IInvOne, IInv
<1>3. CASE Staged(n, "done") /\ GoesTo("superseded")
           /\ UNCHANGED <<inner, currentTransition, currentNavigation>>
  <2>1. \A m \in Ids : transition'[m].stage \in Subscribed => transition[m].stage \in Subscribed
    BY <1>3 DEF Staged, Subscribed, Running, Pending
  <2>. QED  BY <1>1, <1>3, <2>1, OwnKept, GoesInOrder DEF IInvOne, IInv
<1>4. CASE transition[n].stage \notin {"done", "cut"} /\ Staged(n, "done") /\ Returns
  <2>1. transition[n].stage \in Subscribed
    BY <1>1, <1>4 DEF Fits, Subscribed, Running, Pending
  <2>2. \A m \in Ids : transition'[m].stage \notin Subscribed
    BY <1>4, <2>1 DEF IInvOne, Own, Staged, Subscribed, Running, Pending
  <2>. QED  BY <1>1, <1>4, <2>2, NoneSubscribed, ReturnsInOrder DEF IInvOne, IInv
<1>. QED  BY <1>2, <1>3, <1>4, LeaveCases DEF IInvOne, IInv

LEMMA StartedOne ==
    ASSUME IInvOne, NoReentry, NEW n \in Ids, Started(n)
    PROVE  Own' /\ CallOrder'
<1>1. At("started", n) /\ stack # <<>> /\ navigationId' = navigationId
  BY TopCall DEF IInvOne, IInv, Started
<1>2. CASE Leave(n)
  BY <1>1, <1>2, LeaveOne
<1>3. CASE /\ transition[n].stage = "starting" /\ Staged(n, "recognize") /\ Returns
           /\ UNCHANGED <<inner, currentTransition, currentNavigation>>
  <2>1. \A m \in Ids : transition'[m].stage \in Subscribed => transition[m].stage \in Subscribed
    BY <1>3 DEF Staged, Subscribed
  <2>. QED  BY <1>1, <1>3, <2>1, OwnKept, ReturnsInOrder DEF IInvOne, IInv
<1>. QED  BY <1>2, <1>3, StartedCases DEF IInvOne, IInv

LEMMA SupersededOne ==
    ASSUME IInvOne, NEW n \in Ids, Superseded(n)
    PROVE  Own' /\ CallOrder'
<1>1. /\ At("superseded", n) /\ Clear(n) /\ stack # <<>> /\ stack' = Return
      /\ UNCHANGED <<navigationId, transition, inner>>
  BY DEF Superseded, At
<1>2. Returns
  BY <1>1, ReturnEffect DEF IInvOne, IInv
<1>3. transition[n].stage \notin Subscribed
  BY <1>1, TopStage DEF IInvOne, IInv, Fits, Subscribed, Running, Pending
<1>4. Own'
  BY <1>1, <1>3 DEF IInvOne, Own, Clear
<1>. QED  BY <1>1, <1>2, <1>4, ReturnsInOrder DEF IInvOne, IInv

LEMMA RedirectRequestOne ==
    ASSUME IInvOne, NoReentry, NEW n \in Ids, RedirectRequest(n)
    PROVE  Own' /\ CallOrder'
<1>1. /\ stack # <<>> /\ stack[Len(stack)].at = "redirecting"
      /\ UNCHANGED <<inner, currentTransition, currentNavigation>>
  BY TopCall DEF IInvOne, IInv, RedirectRequest
<1>2. CASE RouterListens
  <2>1. /\ \E u, p : Requested(navigationId + 1, u, p)
        /\ GoesAndCalls("failed", "switch", navigationId + 1)
    BY <1>2, RedirectCases DEF IInvOne, IInv
  <2>2. navigationId' = navigationId + 1
    BY <2>1 DEF Requested
  <2>. QED  BY <1>1, <2>1, <2>2, RequestOne, GoesAndCallsInOrder DEF IInvOne, IInv
<1>3. CASE ~RouterListens
  <2>1. GoesTo("failed") /\ UNCHANGED <<navigationId, transition, waiting>>
    BY <1>3, RedirectCases DEF IInvOne, IInv
  <2>. QED  BY <1>1, <2>1, OwnKept, GoesInOrder DEF IInvOne, IInv
<1>. QED  BY <1>2, <1>3

LEMMA HandledOne ==
    ASSUME IInvOne, NoReentry, NEW n \in Ids, Handled(n)
    PROVE  Own' /\ CallOrder'
<1>1. /\ stack # <<>> /\ stack[Len(stack)].at = "handling"
      /\ \E q \in {"redirecting", "errored"} : GoesTo(q)
      /\ UNCHANGED <<navigationId, transition, inner, currentTransition, currentNavigation>>
  BY HandledCases, TopCall DEF IInvOne, IInv
<1>. QED  BY <1>1, OwnKept, GoesInOrder DEF IInvOne, IInv

LEMMA ActivatedOne ==
    ASSUME IInvOne, NoReentry, NEW n \in Ids, Activated(n) \/ ActivationThrows(n)
    PROVE  Own' /\ CallOrder'
<1>1. /\ stack # <<>> /\ stack[Len(stack)].at = "activating"
      /\ UNCHANGED <<navigationId, inner, currentTransition, currentNavigation>>
  BY ActivatedCases, TopCall DEF IInvOne, IInv
<1>2. \/ /\ transition[n].stage = "activating" /\ Staged(n, "ending") /\ GoesTo("ended")
      \/ /\ transition[n].stage = "activating" /\ Staged(n, "failing") /\ GoesTo("handling")
      \/ UNCHANGED transition /\ Returns
  BY ActivatedCases DEF IInvOne, IInv
<1>3. \A m \in Ids : transition'[m].stage \in Subscribed => transition[m].stage \in Subscribed
  BY <1>2 DEF Staged, Subscribed, Running
<1>. QED  BY <1>1, <1>2, <1>3, OwnKept, GoesInOrder, ReturnsInOrder DEF IInvOne, IInv

\* A step of the event loop that takes a subscribed navigation further.
LEMMA ArrivesOne ==
    ASSUME IInvOne, stack = <<>>, NEW n \in Ids, transition[n].stage \in Subscribed,
           NEW stage, Staged(n, stage), UNCHANGED inner,
           currentTransition' \in {currentTransition, n}, currentNavigation'.id = currentNavigation.id,
           NEW p, p \notin {"switch", "begin"}, UNCHANGED stack \/ Calls(p, n)
    PROVE  Own' /\ CallOrder'
<1>1. \A m \in Ids : transition'[m].stage \in Subscribed => transition[m].stage \in Subscribed
  BY DEF Staged
<1>2. \A m \in Ids : transition[m].stage \in Subscribed => currentTransition' = currentTransition
  BY DEF IInvOne, Own
<1>. QED  BY <1>1, <1>2, OwnKept, FirstInOrder DEF IInvOne

LEMMA ArriveOne ==
    ASSUME IInvOne, NEW n \in Ids, Arrive(n)
    PROVE  Own' /\ CallOrder'
<1>. USE DEF IInvOne, IInv
<1>1. Pending \subseteq Subscribed /\ {"recognize", "guards", "load"} \subseteq Pending
  BY DEF Subscribed, Running, Pending
<1>2. CASE Recognized(n)
  <2>1. currentNavigation'.id = currentNavigation.id
    BY <1>2, RecognizedCases DEF Typed
  <2>. QED  BY <1>1, <1>2, <2>1, RecognizedCases, ArrivesOne
<1>3. CASE GuardsPassed(n)
  <2>1. Staged(n, "load")
    BY <1>3, StageEffect DEF GuardsPassed, Stages, Running, Pending
  <2>. QED  BY <1>1, <1>3, <2>1, ArrivesOne DEF GuardsPassed, Awaits
<1>4. CASE Reject(n) \/ Redirect(n) \/ Throw(n)
  <2>1. PICK stage \in {"failing", "rejected"}, p \in {"rejected", "redirecting", "handling"} :
              Staged(n, stage) /\ Calls(p, n)
    BY <1>4, InterruptedCases
  <2>. QED  BY <1>1, <1>4, <2>1, InterruptedCases, ArrivesOne
<1>5. CASE Activate(n)
  <2>1. PICK stage \in {"failing", "activating"}, p \in {"activating", "handling"} :
              Staged(n, stage) /\ Calls(p, n)
    BY <1>5, ActivateCases
  <2>2. currentNavigation'.id = currentNavigation.id /\ currentTransition' \in {currentTransition, n}
    BY <1>5, ActivateCases DEF Typed
  <2>. QED  BY <1>1, <1>5, <2>1, <2>2, ActivateCases, ArrivesOne
<1>. QED  BY <1>2, <1>3, <1>4, <1>5 DEF Arrive

LEMMA OneInit == Init => Own /\ CallOrder
BY DEF Init, Own, CallOrder, NoTransition, Subscribed, Running, Pending

LEMMA OneNext == NoReentry /\ IInvOne /\ [Next]_vars => Own' /\ CallOrder'
<1>. SUFFICES ASSUME NoReentry, IInvOne, [Next]_vars PROVE Own' /\ CallOrder'
  OBVIOUS
<1>1. CASE UNCHANGED vars
  BY <1>1 DEF vars, IInvOne, Own, CallOrder
<1>2. CASE Navigate \/ SyncWithBrowser
  BY <1>2, NavigateOne
<1>3. CASE BackOrForward \/ HistoryGo
  BY <1>3 DEF BackOrForward, HistoryGo, IInvOne, Own, CallOrder
<1>4. ASSUME NEW n \in Ids, Call(n)
      PROVE  Own' /\ CallOrder'
  <2>1. CASE Finish(n)
    BY <2>1, LeaveOne DEF Finish
  <2>2. CASE Failed(n)
    BY <2>2, LeaveOne DEF Failed
  <2>. QED  BY <1>4, <2>1, <2>2, SwitchOne, BeginOne, StartedOne, SupersededOne,
            RedirectRequestOne, HandledOne, ActivatedOne DEF Call
<1>5. ASSUME NEW n \in Ids, Arrive(n)
      PROVE  Own' /\ CallOrder'
  BY <1>5, ArriveOne
<1>. QED  BY <1>1, <1>2, <1>3, <1>4, <1>5 DEF Next

LEMMA OneInvariant == NoReentry => (Spec => []IInvOne)
<1>. SUFFICES ASSUME NoReentry PROVE Spec => []IInvOne
  OBVIOUS
<1>1. Init => IInvOne
  BY InvInit, OneInit DEF IInvOne
<1>2. IInvOne /\ [Next]_vars => IInvOne'
  BY InvNext, OneNext DEF IInvOne
<1>. QED  BY <1>1, <1>2, PTL DEF Spec

\* "Using switchMap so we cancel executing navigations when a new one comes in":
\* a running navigation is the current one, so that no two are running, as long
\* as no subscriber navigates from within the NavigationCancel that the switchMap
\* emits while it goes over to the next one.
THEOREM OneAtATime == NoReentry => (Spec => []OneNavigationRuns)
<1>1. IInvOne => OneNavigationRuns
  BY DEF IInvOne, Own, Subscribed, OneNavigationRuns, IsRunning
<1>. QED  BY <1>1, OneInvariant, PTL

----------------------------------------------------------------------------
(* Where the calls of the navigations are, unless subscribers navigate from *)
(* within the cancellation of a superseded navigation.                      *)

\* The current navigation is subscribed to, but for the time the switchMap takes to
\* go over to the next one.
Current ==
    currentTransition # 0 =>
        \/ transition[currentTransition].stage \in Subscribed
        \/ /\ stack # <<>>
           /\ \/ stack[Len(stack)].at = "begin"
              \/ stack[Len(stack)].at = "superseded" /\ stack[Len(stack)].id = currentTransition

\* A navigation that is subscribed to and awaits nothing is the innermost call, or
\* the one from within which the next navigation has been requested.
OnTop ==
    \A n \in Ids : transition[n].stage \in Subscribed \ Pending =>
        \/ stack # <<>> /\ stack[Len(stack)].id = n /\ stack[Len(stack)].at # "superseded"
        \/ Len(stack) >= 2 /\ stack[Len(stack)].at = "switch" /\ stack[Len(stack) - 1].id = n

\* A navigation that has been requested is about to begin.
Requesting ==
    \A n \in Ids : transition[n].stage = "requested" =>
        \E i \in 1..Len(stack) : stack[i].id = n /\ stack[i].at \in {"switch", "begin"}

Placed == Current /\ OnTop /\ Requesting

IInvPlaced == IInvOne /\ Placed

LEMMA RequestingKept ==
    ASSUME Requesting,
           \A n \in Ids : transition'[n].stage = "requested" => transition[n].stage = "requested",
           \A i \in 1..Len(stack) :
               stack[i].at \in {"switch", "begin"} /\ transition'[stack[i].id].stage = "requested" =>
                   /\ i \in 1..Len(stack')
                   /\ stack'[i].id = stack[i].id /\ stack'[i].at \in {"switch", "begin"}
    PROVE  Requesting'
BY DEF Requesting

LEMMA NavigatePlaced ==
    ASSUME IInvPlaced, NoReentry, Navigate \/ SyncWithBrowser
    PROVE  Placed'
<1>. USE DEF IInvPlaced, IInvOne, IInv, Placed
<1>. DEFINE n == navigationId + 1
<1>1. /\ \E u \in Urls : Requested(n, u, 0)
      /\ Calls("switch", n)
      /\ stack = <<>> \/ stack[Len(stack)].at \in ReactsTo
      /\ UNCHANGED currentTransition
  BY NavigateCalls, SyncCalls
<1>2. /\ n \in Ids /\ n > navigationId /\ transition'[n].stage = "requested"
      /\ \A m \in Ids \ {n} : transition'[m] = transition[m]
      /\ transition[n].stage = "unused"
  BY <1>1, Constants DEF Requested, CallsFit, Typed
<1>. HIDE DEF n
<1>3. stack # <<>> => stack[Len(stack)].at \notin {"switch", "begin", "superseded"}
  BY <1>1, Constants DEF NoReentry, Emissions
<1>4. /\ Len(stack) \in Nat /\ Len(stack') = Len(stack) + 1
      /\ stack'[Len(stack')].at = "switch" /\ stack'[Len(stack')].id = n
      /\ \A i \in 1..Len(stack) : stack'[i].id = stack[i].id /\ stack'[i].at = stack[i].at
  BY <1>1, Depth DEF Calls
<1>5. {"unused", "requested"} \cap Subscribed = {}
  BY DEF Subscribed, Running, Pending
<1>6. Current'
  <2>1. currentTransition # 0 => transition[currentTransition].stage \in Subscribed
    BY <1>3 DEF Current
  <2>. QED  BY <1>1, <1>2, <1>5, <2>1 DEF Current, Typed
<1>7. OnTop'
  <2>. SUFFICES ASSUME NEW m \in Ids, transition'[m].stage \in Subscribed \ Pending
                PROVE  Len(stack') >= 2 /\ stack'[Len(stack') - 1].id = m
    BY <1>4 DEF OnTop
  <2>1. m # n /\ transition[m].stage \in Subscribed \ Pending
    BY <1>2, <1>5
  <2>2. stack # <<>> /\ stack[Len(stack)].id = m
    BY <1>3, <1>4, <2>1 DEF OnTop
  <2>. QED  BY <1>4, <2>2, Depth
<1>8. Requesting'
  <2>1. \A m \in Ids : m # n /\ transition'[m].stage = "requested" =>
          \E i \in 1..Len(stack') : stack'[i].id = m /\ stack'[i].at \in {"switch", "begin"}
    BY <1>2, <1>4 DEF Requesting
  <2>2. Len(stack') \in 1..Len(stack')
    BY <1>4
  <2>. QED  BY <1>4, <2>1, <2>2 DEF Requesting
<1>. QED  BY <1>6, <1>7, <1>8

LEMMA SwitchPlaced ==
    ASSUME IInvPlaced, NoReentry, NEW n \in Ids, Switch(n)
    PROVE  Placed'
<1>. USE DEF IInvPlaced, IInvOne, IInv, Placed
<1>1. /\ At("switch", n) /\ stack # <<>> /\ stack[Len(stack)].at = "switch" /\ stack[Len(stack)].id = n
      /\ Len(stack) \in Nat /\ Len(stack) >= 1
  BY TopCall, Depth DEF Switch
<1>2. \A m \in Ids : transition'[m].stage \notin Subscribed
  <2>1. "cut" \notin Subscribed /\ "done" \notin Subscribed
    BY DEF Subscribed, Running, Pending
  <2>2. \/ UNCHANGED transition /\ (inner = 0 \/ transition[inner].stage \in {"done", "cut"})
        \/ Staged(inner, "cut") \/ Staged(inner, "done")
    BY SwitchCases
  <2>. QED  BY <2>1, <2>2, Constants DEF Staged, Own
<1>3. \/ GoesTo("begin")
      \/ /\ inner \in Ids /\ GoesAndCalls("begin", "superseded", inner)
         /\ transition[inner].stage \in Subscribed /\ UNCHANGED currentTransition
  BY SwitchCases DEF Subscribed
<1>4. Current'
  <2>1. CASE GoesTo("begin")
    <3>1. stack' # <<>> /\ stack'[Len(stack')].at = "begin"
      BY <1>1, <2>1 DEF GoesTo
    <3>. QED  BY <3>1 DEF Current
  <2>2. CASE /\ inner \in Ids /\ GoesAndCalls("begin", "superseded", inner)
             /\ transition[inner].stage \in Subscribed /\ UNCHANGED currentTransition
    <3>1. currentTransition' = inner
      BY <2>2 DEF Own
    <3>2. stack' # <<>> /\ stack'[Len(stack')].at = "superseded" /\ stack'[Len(stack')].id = inner
      BY <1>1, <2>2 DEF GoesAndCalls
    <3>. QED  BY <3>1, <3>2 DEF Current
  <2>. QED  BY <1>3, <2>1, <2>2
<1>5. OnTop'
  BY <1>2 DEF OnTop
<1>6. Requesting'
  <2>1. \A m \in Ids : transition'[m].stage = "requested" => transition[m].stage = "requested"
    <3>1. UNCHANGED transition \/ Staged(inner, "cut") \/ Staged(inner, "done")
      BY SwitchCases
    <3>. QED  BY <3>1 DEF Staged
  <2>2. \A i \in 1..Len(stack) :
          /\ i \in 1..Len(stack') /\ stack'[i].id = stack[i].id
          /\ stack'[i].at = stack[i].at \/ stack'[i].at = "begin"
    BY <1>1, <1>3 DEF GoesTo, GoesAndCalls
  <2>. QED  BY <2>1, <2>2, RequestingKept
<1>. QED  BY <1>4, <1>5, <1>6

LEMMA BeginPlaced ==
    ASSUME IInvPlaced, NoReentry, NEW n \in Ids, Begin(n)
    PROVE  Placed'
<1>. USE DEF IInvPlaced, IInvOne, IInv, Placed
<1>1. /\ At("begin", n) /\ Staged(n, "starting") /\ stack # <<>>
      /\ stack[Len(stack)].id = n /\ Len(stack) \in 1..Len(stack) /\ Len(stack) \in Nat
  BY BeginCases, TopCall, Depth
<1>2. n = navigationId /\ \A m \in Ids : transition[m].stage \notin Subscribed
  BY <1>1, BeginsLast
<1>3. currentTransition' = n /\ \E q \in {"skipped", "started"} : GoesTo(q)
  BY <1>2, BeginCases, Constants
<1>4. Current'
  BY <1>1, <1>3 DEF Current, Staged, Subscribed
<1>5. OnTop'
  <2>1. \A m \in Ids : transition'[m].stage \in Subscribed => m = n
    BY <1>1, <1>2 DEF Staged
  <2>2. Len(stack') = Len(stack) /\ stack'[Len(stack')].id = n
        /\ stack'[Len(stack')].at # "superseded" /\ stack' # <<>>
    BY <1>1, <1>3, Depth DEF GoesTo
  <2>. QED  BY <2>1, <2>2 DEF OnTop
<1>6. Requesting'
  <2>1. \A m \in Ids : transition'[m].stage = "requested" => m # n /\ transition[m].stage = "requested"
    BY <1>1 DEF Staged
  <2>2. \A i \in 1..Len(stack) : stack[i].id # n =>
          i \in 1..Len(stack') /\ stack'[i].id = stack[i].id /\ stack'[i].at = stack[i].at
    BY <1>1, <1>3 DEF GoesTo
  <2>. QED  BY <1>1, <2>1, <2>2, RequestingKept DEF Staged
<1>. QED  BY <1>4, <1>5, <1>6

\* While the innermost call is none of the switchMap's, the current navigation is
\* subscribed to, and no other is.
LEMMA TopIsCurrent ==
    ASSUME IInvPlaced, stack # <<>>, stack[Len(stack)].at \notin {"switch", "begin", "superseded"}
    PROVE  /\ currentTransition # 0 => transition[currentTransition].stage \in Subscribed
           /\ \A m \in Ids : transition[m].stage \in Subscribed \ Pending => m = stack[Len(stack)].id
BY DEF IInvPlaced, Placed, Current, OnTop

\* The innermost call goes on or returns, and no navigation is requested.
LEMMA GoesRequesting ==
    ASSUME IInvPlaced, stack # <<>>, stack[Len(stack)].at \notin {"switch", "begin"},
           \A n \in Ids : transition'[n].stage = "requested" => transition[n].stage = "requested",
           Returns \/ (\E q : GoesTo(q))
    PROVE  Requesting'
<1>1. Len(stack) \in Nat /\ Len(stack) >= 1
  BY Depth DEF IInvPlaced, IInvOne, IInv
<1>2. \A i \in 1..Len(stack) : i # Len(stack) =>
        /\ i \in 1..Len(stack') /\ stack'[i].id = stack[i].id /\ stack'[i].at = stack[i].at
  BY <1>1 DEF Returns, GoesTo
<1>. QED  BY <1>2, RequestingKept DEF IInvPlaced, Placed

LEMMA LeavePlaced ==
    ASSUME IInvPlaced, NEW p, NEW n \in Ids, At(p, n), Leave(n),
           p \in {"started", "skipped", "outdated", "rejected", "errored", "ended", "failed"}
    PROVE  Placed'
<1>. USE DEF IInvPlaced, IInvOne, IInv
<1>1. /\ stack # <<>> /\ stack[Len(stack)].at = p /\ stack[Len(stack)].id = n
      /\ Fits(p, transition[n].stage)
  BY TopCall, TopStage
<1>2. /\ currentTransition # 0 => transition[currentTransition].stage \in Subscribed
      /\ \A m \in Ids : transition[m].stage \in Subscribed \ Pending => m = n
  BY <1>1, TopIsCurrent
<1>3. "cut" \notin Subscribed /\ "done" \notin Subscribed
  BY DEF Subscribed, Running, Pending
<1>4. CASE /\ transition[n].stage = "done" /\ Returns
           /\ UNCHANGED <<transition, inner, currentTransition, currentNavigation>>
  <2>1. \A m \in Ids : transition'[m].stage \notin Subscribed \ Pending
    BY <1>2, <1>3, <1>4
  <2>. QED  BY <1>1, <1>2, <1>4, <2>1, GoesRequesting DEF Placed, Current, OnTop
<1>5. CASE /\ transition[n].stage = "cut" /\ Staged(n, "done") /\ GoesTo("superseded")
           /\ UNCHANGED <<inner, currentTransition, currentNavigation>>
  <2>1. \A m \in Ids : transition'[m].stage \notin Subscribed \ Pending
    BY <1>2, <1>3, <1>5 DEF Staged
  <2>2. currentTransition # 0 => transition'[currentTransition].stage \in Subscribed
    BY <1>2, <1>3, <1>5 DEF Staged, Typed
  <2>. QED  BY <1>1, <1>5, <2>1, <2>2, GoesRequesting DEF Placed, Current, OnTop, Staged
<1>6. CASE transition[n].stage \notin {"done", "cut"} /\ Staged(n, "done") /\ Returns /\ Clear(n)
  <2>1. transition[n].stage \in Subscribed
    BY <1>1, <1>6 DEF Fits, Subscribed, Running, Pending
  <2>2. currentTransition' = 0 /\ \A m \in Ids : transition'[m].stage \notin Subscribed
    BY <1>3, <1>6, <2>1 DEF Own, Staged, Clear
  <2>. QED  BY <1>1, <1>6, <2>2, GoesRequesting DEF Placed, Current, OnTop, Staged
<1>. QED  BY <1>4, <1>5, <1>6, LeaveCases

LEMMA StartedPlaced ==
    ASSUME IInvPlaced, NEW n \in Ids, Started(n)
    PROVE  Placed'
<1>. USE DEF IInvPlaced, IInvOne, IInv
<1>1. /\ At("started", n) /\ stack # <<>>
      /\ stack[Len(stack)].at = "started" /\ stack[Len(stack)].id = n
  BY TopCall DEF Started
<1>2. CASE Leave(n)
  BY <1>1, <1>2, LeavePlaced
<1>3. CASE /\ transition[n].stage = "starting" /\ Staged(n, "recognize") /\ Returns
           /\ UNCHANGED <<inner, currentTransition, currentNavigation>>
  <2>1. "recognize" \in Subscribed /\ "recognize" \in Pending
    BY DEF Subscribed, Running, Pending
  <2>2. \A m \in Ids : transition'[m].stage \notin Subscribed \ Pending
    BY <1>1, <1>3, <2>1, TopIsCurrent DEF Staged
  <2>3. currentTransition # 0 => transition'[currentTransition].stage \in Subscribed
    BY <1>1, <1>3, <2>1, TopIsCurrent DEF Staged, Typed
  <2>. QED  BY <1>1, <1>3, <2>2, <2>3, GoesRequesting DEF Placed, Current, OnTop, Staged
<1>. QED  BY <1>2, <1>3, StartedCases

LEMMA SupersededPlaced ==
    ASSUME IInvPlaced, NEW n \in Ids, Superseded(n)
    PROVE  Placed'
<1>. USE DEF IInvPlaced, IInvOne, IInv
<1>1. /\ At("superseded", n) /\ Clear(n) /\ stack # <<>> /\ stack' = Return
      /\ stack[Len(stack)].at = "superseded" /\ stack[Len(stack)].id = n
      /\ UNCHANGED transition
  BY TopCall DEF Superseded
<1>2. Returns
  BY <1>1, ReturnEffect
<1>3. currentTransition' # 0 => transition[currentTransition'].stage \in Subscribed
  BY <1>1 DEF Placed, Current, Clear
<1>4. \A m \in Ids : transition[m].stage \notin Subscribed \ Pending
  BY <1>1 DEF Placed, OnTop
<1>. QED  BY <1>1, <1>2, <1>3, <1>4, GoesRequesting DEF Placed, Current, OnTop

LEMMA RedirectRequestPlaced ==
    ASSUME IInvPlaced, NEW n \in Ids, RedirectRequest(n)
    PROVE  Placed'
<1>. USE DEF IInvPlaced, IInvOne, IInv
<1>1. /\ stack # <<>> /\ stack[Len(stack)].at = "redirecting" /\ stack[Len(stack)].id = n
      /\ Len(stack) \in Nat /\ Len(stack) >= 1
      /\ UNCHANGED currentTransition
  BY TopCall, Depth DEF RedirectRequest
<1>2. /\ currentTransition # 0 => transition[currentTransition].stage \in Subscribed
      /\ \A m \in Ids : transition[m].stage \in Subscribed \ Pending => m = n
  BY <1>1, TopIsCurrent
<1>3. CASE RouterListens
  <2>. DEFINE k == navigationId + 1
  <2>1. /\ \E u, p : Requested(k, u, p)
        /\ GoesAndCalls("failed", "switch", k)
    BY <1>3, RedirectCases
  <2>2. /\ k \in Ids /\ transition'[k].stage = "requested"
        /\ \A m \in Ids \ {k} : transition'[m] = transition[m]
        /\ transition[k].stage = "unused"
    BY <2>1, Constants DEF Requested, CallsFit, Typed
  <2>. HIDE DEF k
  <2>3. {"unused", "requested"} \cap Subscribed = {}
    BY DEF Subscribed, Running, Pending
  <2>4. /\ Len(stack') = Len(stack) + 1
        /\ stack'[Len(stack')].at = "switch" /\ stack'[Len(stack')].id = k
        /\ stack'[Len(stack)].id = n
        /\ \A i \in 1..Len(stack) : i # Len(stack) =>
              stack'[i].id = stack[i].id /\ stack'[i].at = stack[i].at
    BY <1>1, <2>1, Depth DEF GoesAndCalls
  <2>5. Current'
    BY <1>1, <1>2, <2>2, <2>3 DEF Current, Typed
  <2>6. OnTop'
    <3>1. \A m \in Ids : transition'[m].stage \in Subscribed \ Pending => m = n
      BY <1>2, <2>2, <2>3
    <3>2. Len(stack') >= 2 /\ Len(stack') - 1 = Len(stack)
      BY <1>1, <2>4
    <3>. QED  BY <2>4, <3>1, <3>2 DEF OnTop
  <2>7. Requesting'
    <3>1. \A m \in Ids : m # k /\ transition'[m].stage = "requested" =>
            \E i \in 1..Len(stack') : stack'[i].id = m /\ stack'[i].at \in {"switch", "begin"}
      BY <1>1, <2>2, <2>4 DEF Placed, Requesting
    <3>2. Len(stack') \in 1..Len(stack')
      BY <1>1, <2>4
    <3>. QED  BY <2>4, <3>1, <3>2 DEF Requesting
  <2>. QED  BY <2>5, <2>6, <2>7 DEF Placed
<1>4. CASE ~RouterListens
  <2>1. GoesTo("failed") /\ UNCHANGED transition
    BY <1>4, RedirectCases
  <2>2. stack' # <<>> /\ stack'[Len(stack')].id = n /\ stack'[Len(stack')].at = "failed"
    BY <1>1, <2>1, Depth DEF GoesTo
  <2>. QED  BY <1>1, <1>2, <2>1, <2>2, GoesRequesting DEF Placed, Current, OnTop
<1>. QED  BY <1>3, <1>4

\* The innermost call goes on, and its navigation is still subscribed to or was not.
LEMMA GoesPlaced ==
    ASSUME IInvPlaced, NEW p, NEW n \in Ids, At(p, n), p \notin {"switch", "begin", "superseded"},
           NEW q, q # "superseded", GoesTo(q), UNCHANGED currentTransition,
           \/ UNCHANGED transition
           \/ \E stage \in Subscribed : Staged(n, stage)
    PROVE  Placed'
<1>. USE DEF IInvPlaced, IInvOne, IInv
<1>1. /\ stack # <<>> /\ stack[Len(stack)].at = p /\ stack[Len(stack)].id = n
  BY TopCall
<1>2. /\ currentTransition # 0 => transition[currentTransition].stage \in Subscribed
      /\ \A m \in Ids : transition[m].stage \in Subscribed \ Pending => m = n
  BY <1>1, TopIsCurrent
<1>3. stack' # <<>> /\ stack'[Len(stack')].id = n /\ stack'[Len(stack')].at = q
  BY <1>1, Depth DEF GoesTo
<1>4. \A m \in Ids : /\ m = n \/ transition'[m].stage = transition[m].stage
                     /\ transition[m].stage \in Subscribed => transition'[m].stage \in Subscribed
                     /\ transition'[m].stage = "requested" => transition[m].stage = "requested"
  <2>1. "requested" \notin Subscribed
    BY DEF Subscribed, Running, Pending
  <2>. QED  BY <2>1 DEF Staged
<1>5. Current'
  BY <1>2, <1>4 DEF Current, Typed
<1>6. OnTop'
  BY <1>2, <1>3, <1>4 DEF OnTop
<1>. QED  BY <1>1, <1>4, <1>5, <1>6, GoesRequesting DEF Placed

LEMMA HandledPlaced ==
    ASSUME IInvPlaced, NEW n \in Ids, Handled(n)
    PROVE  Placed'
<1>1. /\ At("handling", n) /\ UNCHANGED <<transition, currentTransition>>
      /\ \E q \in {"redirecting", "errored"} : GoesTo(q)
  BY HandledCases DEF IInvPlaced, IInvOne, IInv
<1>. QED  BY <1>1, GoesPlaced

LEMMA ActivatedPlaced ==
    ASSUME IInvPlaced, NEW n \in Ids, Activated(n) \/ ActivationThrows(n)
    PROVE  Placed'
<1>. USE DEF IInvPlaced, IInvOne, IInv
<1>1. At("activating", n) /\ UNCHANGED <<currentTransition, currentNavigation, inner>>
  BY ActivatedCases
<1>2. CASE \E q \in {"ended", "handling"}, stage \in {"ending", "failing"} : Staged(n, stage) /\ GoesTo(q)
  <2>1. {"ending", "failing"} \subseteq Subscribed
    BY DEF Subscribed
  <2>. QED  BY <1>1, <1>2, <2>1, GoesPlaced
<1>3. CASE transition[n].stage = "done" /\ Returns /\ UNCHANGED transition
  <2>1. /\ stack # <<>> /\ stack[Len(stack)].at = "activating" /\ stack[Len(stack)].id = n
    BY <1>1, TopCall
  <2>2. /\ currentTransition # 0 => transition[currentTransition].stage \in Subscribed
        /\ \A m \in Ids : transition[m].stage \notin Subscribed \ Pending
    BY <1>3, <2>1, TopIsCurrent DEF Subscribed, Running, Pending
  <2>. QED  BY <1>1, <1>3, <2>1, <2>2, GoesRequesting DEF Placed, Current, OnTop
<1>. QED  BY <1>2, <1>3, ActivatedCases

\* A step of the event loop that takes a navigation further.
LEMMA ArrivesPlaced ==
    ASSUME IInvPlaced, stack = <<>>, NEW n \in Ids, transition[n].stage \in Pending,
           NEW stage \in Subscribed, Staged(n, stage), currentTransition' \in {currentTransition, n},
           NEW p, \/ UNCHANGED stack /\ stage \in Pending
                  \/ Calls(p, n) /\ p # "superseded"
    PROVE  Placed'
<1>. USE DEF IInvPlaced, IInvOne, IInv
<1>1. Len(stack) = 0 /\ "requested" \notin Subscribed
  BY DEF Subscribed, Running, Pending
<1>2. \A m \in Ids : /\ m # n => transition'[m].stage = transition[m].stage
                     /\ m # n => transition'[m].stage \notin Subscribed \cup {"requested"}
                     /\ transition'[n].stage = stage
  <2>1. \A m \in Ids : transition[m].stage # "requested"
    BY <1>1 DEF Placed, Requesting
  <2>2. \A m \in Ids : transition[m].stage \in Subscribed => m = n
    BY DEF Own, Subscribed, Running
  <2>. QED  BY <2>1, <2>2 DEF Staged
<1>3. currentTransition' # 0 => currentTransition' = n
  BY <1>1 DEF Placed, Current, Own, Subscribed, Running, Typed
<1>4. Current'
  BY <1>2, <1>3 DEF Current
<1>5. OnTop'
  <2>1. stage \in Pending \/ (stack' # <<>> /\ stack'[Len(stack')].at = p /\ stack'[Len(stack')].id = n /\ p # "superseded")
    BY <1>1 DEF Calls
  <2>. QED  BY <1>2, <2>1 DEF OnTop
<1>6. Requesting'
  BY <1>1, <1>2 DEF Requesting
<1>. QED  BY <1>4, <1>5, <1>6 DEF Placed

LEMMA ArrivePlaced ==
    ASSUME IInvPlaced, NEW n \in Ids, Arrive(n)
    PROVE  Placed'
<1>. USE DEF IInvPlaced, IInvOne, IInv
<1>1. /\ {"recognize", "guards", "load"} \subseteq Pending /\ Pending \subseteq Subscribed
      /\ {"failing", "rejected", "activating"} \subseteq Subscribed
  BY DEF Subscribed, Running, Pending
<1>2. CASE Recognized(n)
  BY <1>1, <1>2, RecognizedCases, ArrivesPlaced
<1>3. CASE GuardsPassed(n)
  <2>1. Staged(n, "load")
    BY <1>3, StageEffect DEF GuardsPassed, Stages, Running, Pending
  <2>. QED  BY <1>1, <1>3, <2>1, ArrivesPlaced DEF GuardsPassed, Awaits
<1>4. CASE Reject(n) \/ Redirect(n) \/ Throw(n)
  <2>1. PICK stage \in {"failing", "rejected"}, p \in {"rejected", "redirecting", "handling"} :
              Staged(n, stage) /\ Calls(p, n)
    BY <1>4, InterruptedCases
  <2>. QED  BY <1>1, <1>4, <2>1, InterruptedCases, ArrivesPlaced
<1>5. CASE Activate(n)
  <2>1. PICK stage \in {"failing", "activating"}, p \in {"activating", "handling"} :
              Staged(n, stage) /\ Calls(p, n)
    BY <1>5, ActivateCases
  <2>2. currentTransition' \in {currentTransition, n}
    BY <1>5, ActivateCases
  <2>. QED  BY <1>1, <1>5, <2>1, <2>2, ActivateCases, ArrivesPlaced
<1>. QED  BY <1>2, <1>3, <1>4, <1>5 DEF Arrive

LEMMA PlacedInit == Init => Placed
BY DEF Init, Placed, Current, OnTop, Requesting, NoTransition, Subscribed, Running, Pending

LEMMA PlacedNext == NoReentry /\ IInvPlaced /\ [Next]_vars => Placed'
<1>. SUFFICES ASSUME NoReentry, IInvPlaced, [Next]_vars PROVE Placed'
  OBVIOUS
<1>1. CASE UNCHANGED vars
  BY <1>1 DEF vars, IInvPlaced, Placed, Current, OnTop, Requesting
<1>2. CASE Navigate \/ SyncWithBrowser
  BY <1>2, NavigatePlaced
<1>3. CASE BackOrForward \/ HistoryGo
  BY <1>3 DEF BackOrForward, HistoryGo, IInvPlaced, Placed, Current, OnTop, Requesting
<1>4. ASSUME NEW n \in Ids, Call(n)
      PROVE  Placed'
  <2>1. CASE Finish(n)
    BY <2>1, LeavePlaced DEF Finish
  <2>2. CASE Failed(n)
    BY <2>2, LeavePlaced DEF Failed
  <2>. QED  BY <1>4, <2>1, <2>2, SwitchPlaced, BeginPlaced, StartedPlaced, SupersededPlaced,
            RedirectRequestPlaced, HandledPlaced, ActivatedPlaced DEF Call
<1>5. ASSUME NEW n \in Ids, Arrive(n)
      PROVE  Placed'
  BY <1>5, ArrivePlaced
<1>. QED  BY <1>1, <1>2, <1>3, <1>4, <1>5 DEF Next

----------------------------------------------------------------------------
(* What the outlets show. *)

Activating == stack # <<>> /\ stack[1].at = "activating"

\* The constructor of a component has thrown, and nothing was activated since.
Broken == shown = -1 /\ ~Activating

\* The router state the outlets show, or are about to.
Displayed == IF Activating THEN stack[1].id ELSE shown

\* An error in navigation n goes back to stateMemento.
HasMemento(n) ==
    \/ transition[n].stage \in Pending \cup {"rejected", "failing"}
    \/ /\ transition[n].stage = "starting"
       /\ \E i \in 1..Len(stack) : stack[i].at = "started" /\ stack[i].id = n

Outlets == \A i \in 1..Len(stack) : stack[i].at = "activating" => i = 1

\* Navigations that have yet to be activated.
Ahead == {"requested", "starting"} \cup Pending

ShownOK ==
    ~Broken =>
        /\ state.router = Displayed
        /\ \A n \in Ids : transition[n].stage \in Ahead => transition[n].base = state.router
        /\ \A n \in Ids : HasMemento(n) => stateMemento = state

IInvShown == IInvPlaced /\ Outlets /\ ShownOK

\* No call is made at, or goes to, point x.
NoCallAt(x) ==
    \/ UNCHANGED stack
    \/ \E p, n : p # x /\ Calls(p, n)
    \/ /\ stack # <<>>
       /\ \/ Returns
          \/ \E p : p # x /\ GoesTo(p)
          \/ \E p, q, n : p # x /\ q # x /\ GoesAndCalls(p, q, n)

LEMMA SameDisplay ==
    ASSUME Typed, Outlets, UNCHANGED shown, NoCallAt("activating"),
           \/ UNCHANGED stack
           \/ \E p, n : p # "activating" /\ Calls(p, n)
           \/ stack[Len(stack)].at # "activating"
    PROVE  Outlets' /\ (Broken' <=> Broken) /\ Displayed' = Displayed
<1>1. Len(stack) \in Nat /\ (stack # <<>> => Len(stack) >= 1)
  BY Depth
<1>2. CASE UNCHANGED stack
  BY <1>2 DEF Outlets, Broken, Displayed, Activating
<1>3. ASSUME NEW p, NEW n, p # "activating", Calls(p, n)
      PROVE  Outlets' /\ (Broken' <=> Broken) /\ Displayed' = Displayed
  <2>1. /\ Len(stack') = Len(stack) + 1 /\ stack' # <<>> /\ stack'[Len(stack')].at # "activating"
        /\ \A i \in 1..Len(stack) : stack'[i].id = stack[i].id /\ stack'[i].at = stack[i].at
    BY <1>1, <1>3 DEF Calls
  <2>2. Outlets'
    BY <1>1, <2>1 DEF Outlets
  <2>3. (Activating' <=> Activating) /\ (Activating => stack'[1].id = stack[1].id)
    <3>1. CASE stack = <<>>
      BY <2>1, <3>1 DEF Activating
    <3>2. CASE stack # <<>>
      BY <1>1, <2>1, <3>2 DEF Activating
    <3>. QED  BY <3>1, <3>2
  <2>. QED  BY <2>2, <2>3 DEF Broken, Displayed
<1>4. ASSUME stack # <<>>, stack[Len(stack)].at # "activating", Returns
      PROVE  Outlets' /\ (Broken' <=> Broken) /\ Displayed' = Displayed
  <2>1. /\ Len(stack') = Len(stack) - 1 /\ stack' \in Seq(Frames)
        /\ \A i \in 1..(Len(stack) - 1) : stack'[i].id = stack[i].id /\ stack'[i].at = stack[i].at
    BY <1>4 DEF Returns
  <2>2. Outlets'
    BY <1>1, <2>1, SMTT(30) DEF Outlets
  <2>3. (Activating' <=> Activating) /\ (Activating => stack'[1].id = stack[1].id)
    <3>1. CASE Len(stack) = 1
      BY <1>4, <2>1, <3>1, EmptySeq DEF Activating
    <3>2. CASE Len(stack) # 1
      <4>1. 1 \in 1..(Len(stack) - 1) /\ stack' # <<>>
        BY <1>1, <1>4, <2>1, <3>2
      <4>. QED  BY <1>4, <2>1, <4>1 DEF Activating
    <3>. QED  BY <3>1, <3>2
  <2>. QED  BY <2>2, <2>3 DEF Broken, Displayed
<1>5. ASSUME stack # <<>>, stack[Len(stack)].at # "activating",
             NEW p, NEW q, NEW n, p # "activating", q # "activating",
             GoesTo(p) \/ GoesAndCalls(p, q, n)
      PROVE  Outlets' /\ (Broken' <=> Broken) /\ Displayed' = Displayed
  <2>1. /\ Len(stack') >= Len(stack) /\ stack' # <<>> /\ Len(stack') \in Nat
        /\ \A i \in 1..Len(stack) : /\ stack'[i].id = stack[i].id
                                    /\ stack'[i].at = IF i = Len(stack) THEN p ELSE stack[i].at
        /\ \A i \in 1..Len(stack') : i \in 1..Len(stack) \/ stack'[i].at # "activating"
    BY <1>1, <1>5 DEF GoesTo, GoesAndCalls
  <2>2. Outlets'
    <3>. SUFFICES ASSUME NEW i \in 1..Len(stack'), stack'[i].at = "activating" PROVE i = 1
      BY DEF Outlets
    <3>1. i \in 1..Len(stack) /\ stack[i].at = "activating"
      BY <1>1, <1>5, <2>1
    <3>. QED  BY <3>1 DEF Outlets
  <2>3. (Activating' <=> Activating) /\ (Activating => stack'[1].id = stack[1].id)
    BY <1>1, <1>5, <2>1 DEF Activating
  <2>. QED  BY <2>2, <2>3 DEF Broken, Displayed
<1>6. ASSUME stack # <<>>, stack[Len(stack)].at # "activating",
             NEW p, p # "activating", GoesTo(p)
      PROVE  Outlets' /\ (Broken' <=> Broken) /\ Displayed' = Displayed
  BY <1>5, <1>6
<1>. QED  BY <1>2, <1>3, <1>4, <1>5, <1>6 DEF NoCallAt

\* Nothing is shown or undone, and no navigation starts.
LEMMA ShownKept ==
    ASSUME ShownOK, Broken' <=> Broken, Displayed' = Displayed, UNCHANGED <<state, stateMemento>>,
           \A n \in Ids : transition'[n].stage \in Ahead =>
               \/ transition[n].stage \in Ahead /\ transition'[n].base = transition[n].base
               \/ transition'[n].base = state.router,
           \A n \in Ids : HasMemento(n)' => HasMemento(n)
    PROVE  ShownOK'
BY DEF ShownOK

\* No call comes to emit NavigationStart.
LEMMA MementoKept ==
    ASSUME Typed, NEW n \in Ids, NoCallAt("started"),
           \/ transition'[n].stage = transition[n].stage
           \/ transition'[n].stage \notin Subscribed
           \/ /\ transition'[n].stage \notin {"starting", "activating", "ending"}
              /\ transition[n].stage \in Pending \cup {"rejected", "failing"}
    PROVE  HasMemento(n)' => HasMemento(n)
<1>. SUFFICES ASSUME HasMemento(n)' PROVE HasMemento(n)
  OBVIOUS
<1>1. transition'[n].stage \in Subscribed
  BY DEF HasMemento, Subscribed, Running
<1>2. CASE transition[n].stage \in Pending \cup {"rejected", "failing"}
  BY <1>2 DEF HasMemento
<1>3. CASE transition'[n].stage = transition[n].stage /\ transition[n].stage = "starting"
  <2>1. "starting" \notin Pending \cup {"rejected", "failing"}
    BY DEF Pending
  <2>2. PICK i \in 1..Len(stack') : stack'[i].at = "started" /\ stack'[i].id = n
    BY <1>3, <2>1 DEF HasMemento
  <2>3. i \in 1..Len(stack) /\ stack[i].at = "started" /\ stack[i].id = n
    BY <2>2, Depth DEF NoCallAt, Calls, Returns, GoesTo, GoesAndCalls
  <2>. QED  BY <1>3, <2>3 DEF HasMemento
<1>4. CASE transition'[n].stage = transition[n].stage /\ transition[n].stage # "starting"
  BY <1>2, <1>4 DEF HasMemento
<1>. QED  BY <1>1, <1>2, <1>3, <1>4

LEMMA RequestShown ==
    ASSUME IInvShown, NEW n, NEW u, NEW p, Requested(n, u, p),
           Calls("switch", n) \/ (stack # <<>> /\ stack[Len(stack)].at = "redirecting"
                                  /\ GoesAndCalls("failed", "switch", n)),
           UNCHANGED <<state, stateMemento, shown>>
    PROVE  Outlets' /\ ShownOK'
<1>. USE DEF IInvShown, IInvPlaced, IInvOne, IInv
<1>0. NoCallAt("activating") /\ NoCallAt("started")
  BY DEF NoCallAt
<1>1. Outlets' /\ (Broken' <=> Broken) /\ Displayed' = Displayed
  <2>1. (\E p1, n1 : p1 # "activating" /\ Calls(p1, n1)) \/ stack[Len(stack)].at # "activating"
    OBVIOUS
  <2>. QED  BY <1>0, <2>1, SameDisplay
<1>2. /\ n \in Ids /\ transition'[n].stage = "requested" /\ transition'[n].base = state.router
      /\ \A m \in Ids \ {n} : transition'[m] = transition[m]
  BY DEF Requested
<1>3. \A m \in Ids : HasMemento(m)' => HasMemento(m)
  <2>1. "requested" \notin Subscribed
    BY DEF Subscribed, Running, Pending
  <2>. QED  BY <1>0, <1>2, <2>1, MementoKept
<1>4. ShownOK'
  BY <1>1, <1>2, <1>3, ShownKept
<1>. QED  BY <1>1, <1>4

LEMMA NavigateShown ==
    ASSUME IInvShown, Navigate \/ SyncWithBrowser
    PROVE  Outlets' /\ ShownOK'
<1>1. /\ \E u : Requested(navigationId + 1, u, 0)
      /\ Calls("switch", navigationId + 1)
      /\ UNCHANGED <<state, stateMemento, shown>>
  BY NavigateCalls, SyncCalls DEF IInvShown, IInvPlaced, IInvOne, IInv
<1>. QED  BY <1>1, RequestShown

LEMMA RedirectRequestShown ==
    ASSUME IInvShown, NEW n \in Ids, RedirectRequest(n)
    PROVE  Outlets' /\ ShownOK'
<1>. USE DEF IInvShown, IInvPlaced, IInvOne, IInv
<1>1. /\ stack # <<>> /\ stack[Len(stack)].at = "redirecting"
      /\ UNCHANGED <<state, stateMemento, shown>>
  BY TopCall DEF RedirectRequest
<1>2. CASE RouterListens
  <2>1. /\ \E u, p : Requested(navigationId + 1, u, p)
        /\ GoesAndCalls("failed", "switch", navigationId + 1)
    BY <1>2, RedirectCases
  <2>. QED  BY <1>1, <2>1, RequestShown
<1>3. CASE ~RouterListens
  <2>1. GoesTo("failed") /\ UNCHANGED transition
    BY <1>3, RedirectCases
  <2>2. NoCallAt("activating") /\ NoCallAt("started") /\ stack[Len(stack)].at # "activating"
    BY <1>1, <2>1 DEF NoCallAt
  <2>. QED  BY <1>1, <2>1, <2>2, SameDisplay, MementoKept, ShownKept
<1>. QED  BY <1>2, <1>3

\* No call starts, and navigations are left or go on to what does not restore.
LEMMA LeavesShown ==
    ASSUME IInvShown, NEW n, NEW stage, UNCHANGED transition \/ Staged(n, stage),
           stage \notin Subscribed \cup {"requested"},
           NoCallAt("activating"), NoCallAt("started"),
           stack # <<>>, stack[Len(stack)].at # "activating",
           UNCHANGED <<state, stateMemento, shown>>
    PROVE  Outlets' /\ ShownOK'
<1>. USE DEF IInvShown, IInvPlaced, IInvOne, IInv
<1>1. Ahead \subseteq Subscribed \cup {"requested"}
  BY DEF Ahead, Subscribed, Running
<1>2. \A m \in Ids : transition'[m].stage \in Ahead =>
          transition[m].stage \in Ahead /\ transition'[m].base = transition[m].base
  BY <1>1 DEF Staged
<1>3. \A m \in Ids : HasMemento(m)' => HasMemento(m)
  <2>1. \A m \in Ids : \/ transition'[m].stage = transition[m].stage
                       \/ transition'[m].stage \notin Subscribed
    BY DEF Staged
  <2>. QED  BY <2>1, MementoKept
<1>. QED  BY <1>2, <1>3, SameDisplay, ShownKept

LEMMA SwitchShown ==
    ASSUME IInvShown, NEW n \in Ids, Switch(n)
    PROVE  Outlets' /\ ShownOK'
<1>. USE DEF IInvShown, IInvPlaced, IInvOne, IInv
<1>1. /\ stack # <<>> /\ stack[Len(stack)].at = "switch"
      /\ UNCHANGED <<state, stateMemento, shown>>
  BY TopCall DEF Switch
<1>2. NoCallAt("activating") /\ NoCallAt("started")
  <2>1. GoesTo("begin") \/ GoesAndCalls("begin", "superseded", inner)
    BY SwitchCases
  <2>. QED  BY <1>1, <2>1 DEF NoCallAt
<1>3. \E stage \in {"cut", "done"} : UNCHANGED transition \/ Staged(inner, stage)
  BY SwitchCases
<1>4. {"cut", "done"} \cap (Subscribed \cup {"requested"}) = {}
  BY DEF Subscribed, Running, Pending
<1>. QED  BY <1>1, <1>2, <1>3, <1>4, LeavesShown

LEMMA LeaveShown ==
    ASSUME IInvShown, NEW p, NEW n \in Ids, At(p, n), p # "activating", Leave(n),
           UNCHANGED <<state, stateMemento, shown>>
    PROVE  Outlets' /\ ShownOK'
<1>. USE DEF IInvShown, IInvPlaced, IInvOne, IInv
<1>1. stack # <<>> /\ stack[Len(stack)].at = p
  BY TopCall
<1>2. NoCallAt("activating") /\ NoCallAt("started")
  <2>1. Returns \/ GoesTo("superseded")
    BY LeaveCases
  <2>. QED  BY <1>1, <2>1 DEF NoCallAt
<1>3. UNCHANGED transition \/ Staged(n, "done")
  BY LeaveCases
<1>4. "done" \notin Subscribed \cup {"requested"}
  BY DEF Subscribed, Running, Pending
<1>. QED  BY <1>1, <1>2, <1>3, <1>4, LeavesShown

LEMMA SupersededShown ==
    ASSUME IInvShown, NEW n \in Ids, Superseded(n)
    PROVE  Outlets' /\ ShownOK'
<1>. USE DEF IInvShown, IInvPlaced, IInvOne, IInv
<1>1. /\ stack # <<>> /\ stack[Len(stack)].at = "superseded" /\ stack' = Return
      /\ UNCHANGED <<transition, state, stateMemento, shown>>
  BY TopCall DEF Superseded
<1>2. NoCallAt("activating") /\ NoCallAt("started")
  BY <1>1, ReturnEffect DEF NoCallAt
<1>3. "done" \notin Subscribed \cup {"requested"}
  BY DEF Subscribed, Running, Pending
<1>. QED  BY <1>1, <1>2, <1>3, LeavesShown

LEMMA BeginShown ==
    ASSUME IInvShown, NEW n \in Ids, Begin(n)
    PROVE  Outlets' /\ ShownOK'
<1>. USE DEF IInvShown, IInvPlaced, IInvOne, IInv
<1>1. /\ At("begin", n) /\ Staged(n, "starting") /\ stack # <<>>
      /\ stack[Len(stack)].at = "begin" /\ stack[Len(stack)].id = n
      /\ Len(stack) \in 1..Len(stack) /\ transition[n].stage = "requested"
      /\ UNCHANGED <<state, shown>>
  BY BeginCases, TopCall, TopStage, Depth DEF Begin, Fits
<1>2. n = navigationId /\ \A m \in Ids : transition[m].stage \notin Subscribed
  BY <1>1, BeginsLast
<1>3. \/ GoesTo("skipped") /\ UNCHANGED stateMemento
      \/ GoesTo("started") /\ stateMemento' = state
  BY <1>2, BeginCases, Constants
<1>4. Outlets' /\ (Broken' <=> Broken) /\ Displayed' = Displayed
  <2>1. NoCallAt("activating")
    BY <1>1, <1>3 DEF NoCallAt
  <2>. QED  BY <1>1, <2>1, SameDisplay
<1>5. \A m \in Ids : transition'[m].stage \in Ahead =>
        transition[m].stage \in Ahead /\ transition'[m].base = transition[m].base
  BY <1>1 DEF Staged, Ahead
<1>6. CASE GoesTo("started") /\ stateMemento' = state
  BY <1>1, <1>4, <1>5, <1>6 DEF ShownOK
<1>7. CASE GoesTo("skipped") /\ UNCHANGED stateMemento
  <2>1. \A m \in Ids : ~HasMemento(m)'
    <3>. SUFFICES ASSUME NEW m \in Ids, HasMemento(m)' PROVE FALSE
      OBVIOUS
    <3>1. transition'[m].stage \in Subscribed
      BY DEF HasMemento, Subscribed, Running
    <3>2. m = n /\ transition'[m].stage = "starting"
      BY <1>1, <1>2, <3>1 DEF Staged
    <3>3. \E i \in 1..Len(stack') : stack'[i].at = "started" /\ stack'[i].id = n
      BY <3>2 DEF HasMemento, Pending
    <3>4. \E i \in 1..Len(stack) : i # Len(stack) /\ stack[i].at = "started" /\ stack[i].id = n
      BY <1>7, <3>3 DEF GoesTo
    <3>. QED  BY <1>1, <3>4 DEF CallsFit
  <2>. QED  BY <1>1, <1>4, <1>5, <1>7, <2>1, ShownKept
<1>. QED  BY <1>3, <1>6, <1>7

LEMMA StartedShown ==
    ASSUME IInvShown, NEW n \in Ids, Started(n)
    PROVE  Outlets' /\ ShownOK'
<1>. USE DEF IInvShown, IInvPlaced, IInvOne, IInv
<1>1. /\ At("started", n) /\ stack # <<>> /\ Len(stack) \in 1..Len(stack)
      /\ stack[Len(stack)].at = "started" /\ stack[Len(stack)].id = n
      /\ UNCHANGED <<state, stateMemento, shown>>
  BY TopCall, Depth DEF Started
<1>2. CASE Leave(n)
  BY <1>1, <1>2, LeaveShown
<1>3. CASE transition[n].stage = "starting" /\ Staged(n, "recognize") /\ Returns
  <2>1. NoCallAt("activating") /\ NoCallAt("started")
    BY <1>1, <1>3 DEF NoCallAt
  <2>2. \A m \in Ids : HasMemento(m)' => HasMemento(m)
    <3>1. HasMemento(n)
      BY <1>1, <1>3 DEF HasMemento
    <3>. QED  BY <1>3, <2>1, <3>1, MementoKept DEF Staged
  <2>3. \A m \in Ids : transition'[m].stage \in Ahead =>
          transition[m].stage \in Ahead /\ transition'[m].base = transition[m].base
    BY <1>3 DEF Staged, Ahead
  <2>. QED  BY <1>1, <2>1, <2>2, <2>3, SameDisplay, ShownKept
<1>. QED  BY <1>2, <1>3, StartedCases

\* The state goes back to what it was, if anything: no navigation that may restore
\* it has been overtaken by an activation.
LEMMA RestoreShown ==
    ASSUME IInvShown, NEW caught \in BOOLEAN, RestoreHistory(caught), ~Broken,
           \/ stack = <<>>
           \/ stack[Len(stack)].at = "handling" /\ transition[stack[Len(stack)].id].stage \in {"failing", "done"}
    PROVE  UNCHANGED state
<1>. USE DEF IInvShown, IInvPlaced, IInvOne, IInv
<1>1. CASE ~RouterListens
  BY <1>1 DEF RestoreHistory
<1>2. CASE RouterListens
  <2>1. /\ currentTransition \in Ids
        /\ transition[currentTransition].stage \in Subscribed
    BY <1>2 DEF RouterListens, Placed, Current, Typed
  <2>2. HasMemento(currentTransition)
    <3>1. CASE transition[currentTransition].stage \in Pending
      BY <3>1 DEF HasMemento
    <3>2. CASE transition[currentTransition].stage \notin Pending
      <4>1. stack # <<>> /\ currentTransition = stack[Len(stack)].id
        BY <2>1, <3>2, Depth DEF Placed, OnTop
      <4>2. transition[currentTransition].stage = "failing"
        BY <2>1, <4>1 DEF Subscribed, Running, Pending
      <4>. QED  BY <4>2 DEF HasMemento
    <3>. QED  BY <3>1, <3>2
  <2>3. stateMemento = state
    BY <2>1, <2>2 DEF ShownOK
  <2>. QED  BY <2>3, RestoreEffect
<1>. QED  BY <1>1, <1>2

LEMMA HandledShown ==
    ASSUME IInvShown, NEW n \in Ids, Handled(n)
    PROVE  Outlets' /\ ShownOK'
<1>. USE DEF IInvShown, IInvPlaced, IInvOne, IInv
<1>1. /\ At("handling", n) /\ stack # <<>>
      /\ stack[Len(stack)].at = "handling" /\ stack[Len(stack)].id = n
      /\ transition[n].stage \in {"failing", "done"}
      /\ UNCHANGED <<transition, stateMemento, shown>>
      /\ (\E q \in {"redirecting", "errored"} : GoesTo(q))
      /\ UNCHANGED state \/ RestoreHistory(TRUE)
  BY HandledCases, TopCall, TopStage, ZenonT(40) DEF Fits
<1>2. NoCallAt("activating") /\ NoCallAt("started")
  BY <1>1 DEF NoCallAt
<1>3. Outlets' /\ (Broken' <=> Broken) /\ Displayed' = Displayed
  BY <1>1, <1>2, SameDisplay
<1>4. CASE Broken
  BY <1>3, <1>4 DEF ShownOK
<1>5. CASE ~Broken
  <2>1. UNCHANGED state
    BY <1>1, <1>5, RestoreShown
  <2>. QED  BY <1>1, <1>2, <1>3, <2>1, MementoKept, ShownKept
<1>. QED  BY <1>4, <1>5

LEMMA ActivatedShown ==
    ASSUME IInvShown, NEW n \in Ids, Activated(n) \/ ActivationThrows(n)
    PROVE  Outlets' /\ ShownOK'
<1>. USE DEF IInvShown, IInvPlaced, IInvOne, IInv
<1>1. /\ stack # <<>> /\ stack[Len(stack)].at = "activating" /\ stack[Len(stack)].id = n
      /\ Len(stack) = 1 /\ UNCHANGED <<state, stateMemento>>
  <2>1. /\ At("activating", n) /\ UNCHANGED <<state, stateMemento>>
    BY ActivatedCases
  <2>. QED  BY <2>1, TopCall, Depth DEF Outlets
<1>2. ~Broken /\ Displayed = n
  BY <1>1 DEF Broken, Displayed, Activating
<1>3. /\ \A i \in 1..Len(stack') : stack'[i].at \in {"ended", "handling"}
      /\ ~Activating' /\ Outlets'
  <2>1. (\E q \in {"ended", "handling"} : GoesTo(q)) \/ Returns
    BY ActivatedCases
  <2>2. \A i \in 1..Len(stack') : stack'[i].at \in {"ended", "handling"}
    BY <1>1, <2>1 DEF GoesTo, Returns
  <2>3. stack' # <<>> => 1 \in 1..Len(stack')
    BY <2>1, EmptySeq, LenProperties DEF GoesTo, Returns
  <2>. QED  BY <2>2, <2>3 DEF Activating, Outlets
<1>4. CASE shown' = -1
  BY <1>3, <1>4 DEF ShownOK, Broken
<1>5. CASE shown' = n
  <2>1. ~Broken' /\ Displayed' = n
    BY <1>3, <1>5, Constants DEF Broken, Displayed
  <2>2. \/ UNCHANGED transition
        \/ transition[n].stage = "activating" /\ Staged(n, "ending")
    <3>1. shown' # -1
      BY <1>5, Constants
    <3>. QED  BY <3>1, ActivatedCases
  <2>3. \A m \in Ids : transition'[m].stage \in Ahead =>
          transition[m].stage \in Ahead /\ transition'[m].base = transition[m].base
    BY <2>2 DEF Staged, Ahead, Pending
  <2>4. \A m \in Ids : HasMemento(m)' => HasMemento(m)
    <3>. SUFFICES ASSUME NEW m \in Ids, HasMemento(m)' PROVE HasMemento(m)
      OBVIOUS
    <3>1. transition'[m].stage \in Pending \cup {"rejected", "failing"}
      BY <1>3 DEF HasMemento
    <3>2. transition'[m].stage = transition[m].stage
      BY <2>2, <3>1 DEF Staged, Pending
    <3>. QED  BY <3>1, <3>2 DEF HasMemento
  <2>. QED  BY <1>1, <1>2, <1>3, <2>1, <2>3, <2>4 DEF ShownOK
<1>. QED  BY <1>4, <1>5, ActivatedCases

\* A step of the event loop that takes a navigation further, but for activation.
LEMMA ArrivesShown ==
    ASSUME IInvShown, stack = <<>>, NEW n \in Ids, transition[n].stage \in Pending,
           NEW stage \in Pending \cup {"rejected", "failing"}, Staged(n, stage),
           UNCHANGED stack \/ (\E p \in {"rejected", "redirecting", "handling"} : Calls(p, n)),
           UNCHANGED <<stateMemento, shown>>,
           UNCHANGED state \/ \E caught \in BOOLEAN : RestoreHistory(caught)
    PROVE  Outlets' /\ ShownOK'
<1>. USE DEF IInvShown, IInvPlaced, IInvOne, IInv
<1>1. NoCallAt("activating") /\ NoCallAt("started")
  BY DEF NoCallAt
<1>2. Outlets' /\ (Broken' <=> Broken) /\ Displayed' = Displayed
  BY <1>1, SameDisplay
<1>3. CASE Broken
  BY <1>2, <1>3 DEF ShownOK
<1>4. CASE ~Broken
  <2>1. UNCHANGED state
    BY <1>4, RestoreShown
  <2>2. \A m \in Ids : transition'[m].stage \in Ahead =>
          transition[m].stage \in Ahead /\ transition'[m].base = transition[m].base
    BY DEF Staged, Ahead
  <2>3. \A m \in Ids : HasMemento(m)' => HasMemento(m)
    <3>1. stage \notin {"starting", "activating", "ending"}
      BY DEF Pending
    <3>. QED  BY <1>1, <3>1, MementoKept DEF Staged
  <2>. QED  BY <1>2, <2>1, <2>2, <2>3, ShownKept
<1>. QED  BY <1>3, <1>4

LEMMA ActivateShown ==
    ASSUME IInvShown, NEW n \in Ids, Activate(n)
    PROVE  Outlets' /\ ShownOK'
<1>. USE DEF IInvShown, IInvPlaced, IInvOne, IInv
<1>1. /\ stack = <<>> /\ Len(stack) = 0 /\ transition[n].stage = "load" /\ "load" \in Pending
      /\ UNCHANGED <<stateMemento, shown>>
  BY ActivateCases DEF Pending
<1>2. CASE Staged(n, "failing") /\ Calls("handling", n) /\ UNCHANGED state
  BY <1>1, <1>2, ArrivesShown
<1>3. CASE /\ Staged(n, "activating") /\ Calls("activating", n)
           /\ state' = [url |-> currentNavigation.final, router |-> n]
  <2>1. Len(stack') = 1 /\ stack'[1].at = "activating" /\ stack'[1].id = n /\ stack' # <<>>
    <3>1. Len(stack') = 1
      BY <1>1, <1>3 DEF Calls
    <3>2. stack' # <<>>
      BY <3>1
    <3>. QED  BY <1>3, <3>1, <3>2 DEF Calls
  <2>2. Outlets' /\ ~Broken' /\ Displayed' = n
    BY <2>1 DEF Outlets, Broken, Displayed, Activating
  <2>3. state'.router = n
    BY <1>3
  <2>4. \A m \in Ids : transition[m].stage # "requested" /\ (transition[m].stage \in Subscribed => m = n)
    BY <1>1 DEF Placed, Requesting, Own, Subscribed, Running
  <2>5. \A m \in Ids : transition'[m].stage \notin Subscribed \cup {"requested"} \/ transition'[m].stage = "activating"
    BY <1>3, <2>4 DEF Staged
  <2>6. \A m \in Ids : transition'[m].stage \notin Ahead /\ ~HasMemento(m)'
    <3>1. "activating" \notin Ahead \cup {"rejected", "failing"}
      BY DEF Ahead, Pending
    <3>2. Ahead \cup {"rejected", "failing"} \subseteq Subscribed \cup {"requested"}
      BY DEF Ahead, Subscribed, Running
    <3>3. \A m \in Ids : transition'[m].stage \notin Ahead \cup {"rejected", "failing"}
      BY <2>5, <3>1, <3>2
    <3>. QED  BY <3>3 DEF HasMemento, Ahead
  <2>. QED  BY <2>2, <2>3, <2>6 DEF ShownOK
<1>. QED  BY <1>2, <1>3, ActivateCases

LEMMA ArriveShown ==
    ASSUME IInvShown, NEW n \in Ids, Arrive(n)
    PROVE  Outlets' /\ ShownOK'
<1>. USE DEF IInvShown, IInvPlaced, IInvOne, IInv
<1>1. {"recognize", "guards", "load"} \subseteq Pending
  BY DEF Pending
<1>2. CASE Recognized(n)
  BY <1>1, <1>2, RecognizedCases, ArrivesShown
<1>3. CASE GuardsPassed(n)
  <2>1. Staged(n, "load")
    BY <1>3, StageEffect DEF GuardsPassed, Stages, Running, Pending
  <2>. QED  BY <1>1, <1>3, <2>1, ArrivesShown DEF GuardsPassed, Awaits
<1>4. CASE Reject(n) \/ Redirect(n) \/ Throw(n)
  <2>1. PICK stage \in {"failing", "rejected"}, p \in {"rejected", "redirecting", "handling"} :
              Staged(n, stage) /\ Calls(p, n)
    BY <1>4, InterruptedCases
  <2>2. UNCHANGED state \/ RestoreHistory(FALSE)
    BY <1>4, InterruptedCases
  <2>. QED  BY <1>4, <2>1, <2>2, InterruptedCases, ArrivesShown
<1>. QED  BY <1>2, <1>3, <1>4, ActivateShown DEF Arrive

LEMMA ShownInit == Init => Outlets /\ ShownOK
BY DEF Init, Outlets, ShownOK, Displayed, Activating, Broken, HasMemento, Ahead, NoTransition, Pending

LEMMA ShownNext == NoReentry /\ IInvShown /\ [Next]_vars => Outlets' /\ ShownOK'
<1>. SUFFICES ASSUME NoReentry, IInvShown, [Next]_vars PROVE Outlets' /\ ShownOK'
  OBVIOUS
<1>1. CASE UNCHANGED vars
  BY <1>1 DEF vars, IInvShown, Outlets, ShownOK, Broken, Displayed, Activating, HasMemento
<1>2. CASE Navigate \/ SyncWithBrowser
  BY <1>2, NavigateShown
<1>3. CASE BackOrForward \/ HistoryGo
  BY <1>3 DEF BackOrForward, HistoryGo, IInvShown, Outlets, ShownOK, Broken, Displayed, Activating, HasMemento
<1>4. ASSUME NEW n \in Ids, Call(n)
      PROVE  Outlets' /\ ShownOK'
  <2>1. CASE Finish(n)
    BY <2>1, LeaveShown DEF Finish
  <2>2. CASE Failed(n)
    BY <2>2, LeaveShown DEF Failed
  <2>. QED  BY <1>4, <2>1, <2>2, SwitchShown, BeginShown, StartedShown, SupersededShown,
            RedirectRequestShown, HandledShown, ActivatedShown DEF Call
<1>5. ASSUME NEW n \in Ids, Arrive(n)
      PROVE  Outlets' /\ ShownOK'
  BY <1>5, ArriveShown
<1>. QED  BY <1>1, <1>2, <1>3, <1>4, <1>5 DEF Next

LEMMA ShownInvariant == NoReentry => (Spec => []IInvShown)
<1>. SUFFICES ASSUME NoReentry PROVE Spec => []IInvShown
  OBVIOUS
<1>1. Init => IInvShown
  BY InvInit, OneInit, PlacedInit, ShownInit DEF IInvShown, IInvPlaced, IInvOne
<1>2. IInvShown /\ [Next]_vars => IInvShown'
  BY InvNext, OneNext, PlacedNext, ShownNext DEF IInvShown, IInvPlaced, IInvOne
<1>. QED  BY <1>1, <1>2, PTL DEF Spec

LEMMA OnlyActivate ==
    ASSUME IInv, [Next]_vars, NEW n \in Ids,
           transition'[n].stage = "activating", transition[n].stage # "activating"
    PROVE  Activate(n)
<1>. USE DEF IInv
<1>1. CASE UNCHANGED vars
  BY <1>1 DEF vars
<1>2. CASE Navigate \/ SyncWithBrowser
  BY <1>2, NavigateCalls, SyncCalls DEF Requested
<1>3. CASE BackOrForward \/ HistoryGo
  BY <1>3 DEF BackOrForward, HistoryGo
<1>4. ASSUME NEW m \in Ids, Call(m)
      PROVE  FALSE
  <2>1. ASSUME NEW p, At(p, m), Leave(m)
        PROVE  FALSE
    BY <2>1, LeaveCases DEF Staged
  <2>2. ~Switch(m) /\ ~Begin(m)
    BY SwitchCases, BeginCases DEF Staged
  <2>3. ~Started(m)
    BY <2>1, StartedCases DEF Started, Staged
  <2>4. ~Finish(m) /\ ~Failed(m) /\ ~Superseded(m)
    BY <2>1 DEF Finish, Failed, Superseded
  <2>5. ~RedirectRequest(m)
    BY RedirectCases DEF Requested
  <2>6. ~Handled(m) /\ ~Activated(m) /\ ~ActivationThrows(m)
    BY HandledCases, ActivatedCases DEF Staged
  <2>. QED  BY <1>4, <2>2, <2>3, <2>4, <2>5, <2>6 DEF Call
<1>5. ASSUME NEW m \in Ids, Arrive(m), ~Activate(m) \/ m # n
      PROVE  FALSE
  <2>1. ~Recognized(m) /\ ~Reject(m) /\ ~Redirect(m) /\ ~Throw(m)
    BY RecognizedCases, InterruptedCases DEF Staged
  <2>2. ~GuardsPassed(m)
    BY StageEffect DEF GuardsPassed, Stages, Running, Pending, Staged
  <2>3. ~Activate(m)
    BY <1>5, ActivateCases DEF Staged
  <2>. QED  BY <1>5, <2>1, <2>2, <2>3 DEF Arrive
<1>. QED  BY <1>1, <1>2, <1>3, <1>4, <1>5 DEF Next

\* A navigation takes down the components of the router state it was requested
\* in: as long as none of them has thrown in its constructor, that is the state the
\* outlets show, whatever was cancelled, restored or failed since the request.
THEOREM ActivatesFromWhatIsShown == NoReentry => (Spec => ActivatesFromShown)
<1>. SUFFICES ASSUME NoReentry PROVE Spec => ActivatesFromShown
  OBVIOUS
<1>. DEFINE FromShown ==
       \A n \in Ids : transition'[n].stage = "activating" /\ transition[n].stage # "activating"
          /\ shown # -1 => transition[n].base = shown
<1>1. IInvShown /\ [Next]_vars => FromShown
  <2>. SUFFICES ASSUME IInvShown, [Next]_vars, NEW n \in Ids, transition'[n].stage = "activating",
                       transition[n].stage # "activating", shown # -1
                PROVE  transition[n].base = shown
    OBVIOUS
  <2>1. Activate(n)
    BY OnlyActivate DEF IInvShown, IInvPlaced, IInvOne, IInv
  <2>2. stack = <<>> /\ transition[n].stage = "load"
    BY <2>1 DEF Activate, Awaits
  <2>3. ~Broken /\ Displayed = shown
    BY <2>2 DEF Broken, Displayed, Activating
  <2>. QED  BY <2>2, <2>3 DEF IInvShown, ShownOK, Ahead, Pending
<1>2. IInvShown /\ [Next]_vars => [FromShown]_vars
  BY <1>1
<1>. QED  BY <1>2, ShownInvariant, PTL DEF Spec, ActivatesFromShown

----------------------------------------------------------------------------
(* The promises: also no subscriber navigates from within the cancellation   *)
(* that leads to a redirect, and no error handler does.                      *)

NoNesting == ReactsTo \cap {"superseded", "redirecting", "handling"} = {}

\* A navigation that is about to redirect, or whose error is being handled, has
\* not been superseded.
Failing ==
    stack # <<>> /\ stack[Len(stack)].at \in {"redirecting", "handling"} =>
        transition[stack[Len(stack)].id].stage = "failing"

\* Something is still to come that settles the promise of m.
Owed(m) ==
    \/ IsRunning(m)
    \/ \E i \in 1..Len(stack) : stack[i].id = m /\ stack[i].at \notin {"failed", "activating"}

\* The navigation to which a promise was handed on is another one that shares it.
PromisesKept ==
    \A n \in Ids : n <= navigationId =>
        \/ transition[n].promise \in settled
        \/ \E m \in Ids : m <= navigationId /\ transition[m].promise = transition[n].promise /\ Owed(m)

LEMMA NoHandlerBelow ==
    ASSUME IInvOne, NoNesting
    PROVE  \A i \in 1..Len(stack) : stack[i].at \in {"redirecting", "handling"} => i = Len(stack)
<1>1. {"redirecting", "handling"} \cap (ReactsTo \cup {"failed", "begin"}) = {}
  BY DEF NoNesting
<1>. QED  BY <1>1, Depth DEF IInvOne, IInv, CallOrder

\* The navigation that the innermost call fails is the one subscribed to.
LEMMA FailingIsCurrent ==
    ASSUME IInvOne, Failing, stack # <<>>, stack[Len(stack)].at \in {"redirecting", "handling"}
    PROVE  /\ stack[Len(stack)].id = currentTransition
           /\ transition[currentTransition].stage = "failing"
           /\ RouterListens
<1>. DEFINE n == stack[Len(stack)].id
<1>1. n \in Ids /\ transition[n].stage = "failing"
  BY Depth, CallsAreUsed DEF IInvOne, IInv, Failing
<1>2. currentTransition = n /\ currentNavigation.id = n
  BY <1>1 DEF IInvOne, Own, Subscribed
<1>3. currentNavigation # NoNavigation
  BY <1>1, <1>2, Constants DEF NoNavigation
<1>. QED  BY <1>1, <1>2, <1>3, Constants DEF RouterListens

\* The top is no handler, or its navigation fails.
LEMMA FailingKept ==
    ASSUME IInvOne, NoNesting, stack # <<>>,
           \/ Returns
           \/ \E p : p \notin {"redirecting", "handling"} /\ GoesTo(p)
           \/ \E p, q, n : q \notin {"redirecting", "handling"} /\ GoesAndCalls(p, q, n)
    PROVE  Failing'
<1>1. Len(stack) \in Nat /\ Len(stack) >= 1
  BY Depth DEF IInvOne, IInv
<1>2. CASE Returns
  <2>. SUFFICES ASSUME stack' # <<>>
                PROVE  stack'[Len(stack')].at \notin {"redirecting", "handling"}
    BY DEF Failing
  <2>1. Len(stack') = Len(stack) - 1 /\ Len(stack') \in Nat /\ Len(stack') # 0
    BY <1>1, <1>2, EmptySeq DEF Returns
  <2>2. /\ Len(stack') \in 1..Len(stack) /\ Len(stack') # Len(stack)
        /\ stack'[Len(stack')].at = stack[Len(stack')].at
    BY <1>1, <1>2, <2>1 DEF Returns
  <2>. QED  BY <2>2, NoHandlerBelow
<1>3. ASSUME NEW p, p \notin {"redirecting", "handling"}, GoesTo(p)
      PROVE  Failing'
  BY <1>1, <1>3 DEF GoesTo, Failing
<1>4. ASSUME NEW p, NEW q, NEW n, q \notin {"redirecting", "handling"}, GoesAndCalls(p, q, n)
      PROVE  Failing'
  BY <1>4 DEF GoesAndCalls, Failing
<1>. QED  BY <1>2, <1>3, <1>4

LEMMA FailingNext == IInvOne /\ Failing /\ NoNesting /\ [Next]_vars => Failing'
<1>. SUFFICES ASSUME IInvOne, Failing, NoNesting, [Next]_vars PROVE Failing'
  OBVIOUS
<1>. USE DEF IInvOne, IInv
<1>1. CASE UNCHANGED vars
  BY <1>1 DEF vars, Failing
<1>2. CASE Navigate \/ SyncWithBrowser
  <2>1. Calls("switch", navigationId + 1)
    BY <1>2, NavigateCalls, SyncCalls
  <2>. QED  BY <2>1 DEF Calls, Failing
<1>3. CASE BackOrForward \/ HistoryGo
  BY <1>3 DEF BackOrForward, HistoryGo, Failing
<1>4. ASSUME NEW n \in Ids, Call(n)
      PROVE  Failing'
  <2>1. ASSUME NEW p, At(p, n), Leave(n)
        PROVE  Failing'
    <3>1. stack # <<>> /\ (Returns \/ GoesTo("superseded"))
      BY <2>1, LeaveCases, TopCall
    <3>. QED  BY <3>1, FailingKept
  <2>2. CASE Switch(n)
    <3>1. stack # <<>> /\ (GoesTo("begin") \/ GoesAndCalls("begin", "superseded", inner))
      BY <2>2, SwitchCases DEF Switch, At
    <3>. QED  BY <3>1, FailingKept
  <2>3. CASE Begin(n)
    <3>1. stack # <<>> /\ \E q \in {"outdated", "skipped", "started"} : GoesTo(q)
      BY <2>3, BeginCases DEF Begin, At
    <3>. QED  BY <3>1, FailingKept
  <2>4. CASE Started(n)
    <3>1. At("started", n) /\ stack # <<>>
      BY <2>4 DEF Started, At
    <3>. QED  BY <2>1, <2>4, <3>1, StartedCases, FailingKept
  <2>5. CASE Finish(n) \/ Failed(n)
    BY <2>1, <2>5 DEF Finish, Failed
  <2>6. CASE Superseded(n)
    <3>1. stack # <<>> /\ Returns
      BY <2>6, ReturnEffect DEF Superseded, At
    <3>. QED  BY <3>1, FailingKept
  <2>7. CASE RedirectRequest(n)
    <3>1. stack # <<>> /\ (GoesTo("failed") \/ GoesAndCalls("failed", "switch", navigationId + 1))
      BY <2>7, RedirectCases DEF RedirectRequest, At
    <3>. QED  BY <3>1, FailingKept
  <2>8. CASE Handled(n)
    <3>1. /\ At("handling", n) /\ UNCHANGED transition
          /\ \E q \in {"redirecting", "errored"} : GoesTo(q)
      BY <2>8, HandledCases
    <3>2. stack # <<>> /\ stack[Len(stack)].id = n /\ transition[n].stage = "failing"
      BY <3>1, TopCall DEF Failing
    <3>3. Len(stack') = Len(stack) /\ stack'[Len(stack')].id = n
      BY <3>1, <3>2, Depth DEF GoesTo
    <3>. QED  BY <3>1, <3>2, <3>3 DEF Failing
  <2>9. CASE Activated(n) \/ ActivationThrows(n)
    <3>1. /\ stack # <<>>
          /\ \/ GoesTo("ended") \/ Returns
             \/ Staged(n, "failing") /\ GoesTo("handling")
      BY <2>9, ActivatedCases
    <3>2. stack[Len(stack)].id = n
      BY <2>9, ActivatedCases, TopCall
    <3>3. ASSUME Staged(n, "failing"), GoesTo("handling")
          PROVE  Failing'
      <4>1. Len(stack') = Len(stack) /\ stack'[Len(stack')].id = n
        BY <3>1, <3>2, <3>3, Depth DEF GoesTo
      <4>. QED  BY <3>3, <4>1 DEF Failing, Staged
    <3>. QED  BY <3>1, <3>3, FailingKept
  <2>. QED  BY <1>4, <2>2, <2>3, <2>4, <2>5, <2>6, <2>7, <2>8, <2>9 DEF Call
<1>5. ASSUME NEW n \in Ids, Arrive(n)
      PROVE  Failing'
  <2>1. CASE Recognized(n) \/ GuardsPassed(n)
    <3>1. stack = <<>> /\ UNCHANGED stack
      BY <2>1 DEF Recognized, GuardsPassed, Awaits
    <3>. QED  BY <3>1 DEF Failing
  <2>2. CASE Reject(n) \/ Redirect(n) \/ Throw(n) \/ Activate(n)
    <3>1. \/ Calls("rejected", n)
          \/ Calls("activating", n)
          \/ Staged(n, "failing") /\ (Calls("redirecting", n) \/ Calls("handling", n))
      BY <2>2, InterruptedCases, ActivateCases
    <3>. QED  BY <3>1 DEF Calls, Failing, Staged
  <2>. QED  BY <1>5, <2>1, <2>2 DEF Arrive
<1>. QED  BY <1>1, <1>2, <1>3, <1>4, <1>5 DEF Next

\* What is owed to a navigation is still owed, paid, or owed to the navigation its
\* promise is handed on to.
LEMMA PromisesFollow ==
    ASSUME PromisesKept, Typed, settled \subseteq settled', UNCHANGED navigationId,
           \A m \in Ids : transition'[m].promise = transition[m].promise,
           \A m \in Ids : m <= navigationId /\ Owed(m) =>
               transition[m].promise \in settled' \/ Owed(m)'
    PROVE  PromisesKept'
<1>. SUFFICES ASSUME NEW n \in Ids, n <= navigationId, transition'[n].promise \notin settled'
              PROVE  \E m \in Ids : /\ m <= navigationId'
                                    /\ transition'[m].promise = transition'[n].promise
                                    /\ Owed(m)'
  BY DEF PromisesKept
<1>1. PICK m \in Ids : m <= navigationId /\ transition[m].promise = transition[n].promise /\ Owed(m)
  BY DEF PromisesKept
<1>2. transition[m].promise \notin settled'
  BY <1>1
<1>. QED  BY <1>1, <1>2

\* A navigation runs on or is cancelled by a call, and no call but those to the
\* points of F is lost.
LEMMA OwedStays ==
    ASSUME NEW m \in Ids, Owed(m),
           IsRunning(m) => IsRunning(m)' \/ (\E i \in 1..Len(stack') :
                stack'[i].id = m /\ stack'[i].at \notin {"failed", "activating"}),
           \A i \in 1..Len(stack) : stack[i].id = m /\ stack[i].at \notin {"failed", "activating"} =>
               \/ IsRunning(m)'
               \/ \E j \in 1..Len(stack') : stack'[j].id = m /\ stack'[j].at \notin {"failed", "activating"}
    PROVE  Owed(m)'
BY DEF Owed

LEMMA RequestPromises ==
    ASSUME Typed, CallsFit, PromisesKept, NEW n, NEW u, NEW p, Requested(n, u, p),
           settled' = settled,
           \A m \in Ids : m <= navigationId /\ Owed(m) =>
               Owed(m)' \/ (transition[m].promise = p /\ p # 0),
           Len(stack') \in Nat, Len(stack') >= 1,
           stack'[Len(stack')].at = "switch", stack'[Len(stack')].id = n
    PROVE  PromisesKept'
<1>1. /\ n \in Ids /\ navigationId' = n /\ n = navigationId + 1 /\ navigationId \in Nat /\ n \in Nat
      /\ \A m \in Ids \ {n} : transition'[m] = transition[m]
      /\ transition'[n].promise = IF p = 0 THEN n ELSE p
  BY Constants DEF Requested, Typed
<1>2. Owed(n)'
  <2>1. Len(stack') \in 1..Len(stack')
    OBVIOUS
  <2>. QED  BY <2>1 DEF Owed
<1>. SUFFICES ASSUME NEW k \in Ids, k <= n, transition'[k].promise \notin settled
              PROVE  \E m \in Ids : /\ m <= n
                                    /\ transition'[m].promise = transition'[k].promise
                                    /\ Owed(m)'
  BY <1>1 DEF PromisesKept
<1>3. CASE k = n
  BY <1>1, <1>2, <1>3
<1>4. CASE k # n
  <2>1. k <= navigationId /\ transition'[k] = transition[k]
    BY <1>1, <1>4, Constants
  <2>2. PICK m \in Ids : m <= navigationId /\ transition[m].promise = transition[k].promise /\ Owed(m)
    BY <2>1 DEF PromisesKept
  <2>3. m # n /\ m <= n /\ transition'[m] = transition[m]
    BY <1>1, <2>2, Constants
  <2>4. CASE Owed(m)'
    BY <2>1, <2>2, <2>3, <2>4
  <2>5. CASE transition[m].promise = p /\ p # 0
    BY <1>1, <1>2, <2>1, <2>2, <2>5
  <2>. QED  BY <2>2, <2>4, <2>5
<1>. QED  BY <1>3, <1>4

LEMMA NavigatePromises ==
    ASSUME IInv, PromisesKept, Navigate \/ SyncWithBrowser
    PROVE  PromisesKept'
<1>. USE DEF IInv
<1>. DEFINE n == navigationId + 1
<1>1. /\ \E u \in Urls : Requested(n, u, 0)
      /\ Calls("switch", n) /\ settled' = settled
  BY NavigateCalls, SyncCalls
<1>2. /\ n \in Ids /\ navigationId \in Nat
      /\ \A m \in Ids \ {n} : transition'[m] = transition[m]
  BY <1>1, Constants DEF Requested, Typed
<1>. HIDE DEF n
<1>3. /\ Len(stack) \in Nat /\ Len(stack') = Len(stack) + 1
      /\ stack'[Len(stack')].at = "switch" /\ stack'[Len(stack')].id = n
      /\ \A i \in 1..Len(stack) : stack'[i].id = stack[i].id /\ stack'[i].at = stack[i].at
  BY <1>1, Depth DEF Calls
<1>4. \A m \in Ids : m <= navigationId /\ Owed(m) => Owed(m)'
  <2>. SUFFICES ASSUME NEW m \in Ids, m <= navigationId, Owed(m) PROVE Owed(m)'
    OBVIOUS
  <2>1. m # n
    BY <1>2, Constants DEF n
  <2>2. IsRunning(m) => IsRunning(m)'
    BY <1>2, <2>1 DEF IsRunning
  <2>3. \A i \in 1..Len(stack) : i \in 1..Len(stack')
    BY <1>3
  <2>. QED  BY <1>3, <2>2, <2>3, OwedStays
<1>. QED  BY <1>1, <1>3, <1>4, RequestPromises

LEMMA RedirectRequestPromises ==
    ASSUME IInvOne, Failing, PromisesKept, NEW n \in Ids, RedirectRequest(n)
    PROVE  PromisesKept'
<1>. USE DEF IInvOne, IInv
<1>1. /\ stack # <<>> /\ stack[Len(stack)].at = "redirecting" /\ stack[Len(stack)].id = n
      /\ Len(stack) \in Nat /\ Len(stack) >= 1 /\ settled' = settled
  BY TopCall, Depth DEF RedirectRequest
<1>2. n = currentTransition /\ transition[n].stage = "failing" /\ RouterListens
  BY <1>1, FailingIsCurrent
<1>. DEFINE k == navigationId + 1
            p == transition[n].promise
<1>3. (\E u : Requested(k, u, p)) /\ GoesAndCalls("failed", "switch", k)
  BY <1>2, RedirectCases
<1>4. /\ k \in Ids /\ navigationId \in Nat
      /\ \A m \in Ids \ {k} : transition'[m] = transition[m]
  BY <1>3, Constants DEF Requested, Typed
<1>5. p # 0
  BY <1>1, <1>2, CallsAreUsed, Depth, Constants DEF CallsFit
<1>6. \A m \in Ids : m <= navigationId => m # k
  BY <1>4, Constants
<1>. HIDE DEF k, p
<1>7. /\ Len(stack') = Len(stack) + 1
      /\ stack'[Len(stack')].at = "switch" /\ stack'[Len(stack')].id = k
      /\ \A i \in 1..Len(stack) : i # Len(stack) =>
            stack'[i].id = stack[i].id /\ stack'[i].at = stack[i].at
  BY <1>1, <1>3 DEF GoesAndCalls
<1>8. \A m \in Ids : m <= navigationId /\ Owed(m) => Owed(m)' \/ (transition[m].promise = p /\ p # 0)
  <2>. SUFFICES ASSUME NEW m \in Ids, m <= navigationId, Owed(m), m # n PROVE Owed(m)'
    BY <1>5 DEF p
  <2>1. IsRunning(m) => IsRunning(m)'
    BY <1>4, <1>6 DEF IsRunning
  <2>2. \A i \in 1..Len(stack) : stack[i].id = m => i # Len(stack) /\ i \in 1..Len(stack')
    BY <1>1, <1>7
  <2>. QED  BY <1>7, <2>1, <2>2, OwedStays
<1>. QED  BY <1>1, <1>3, <1>7, <1>8, RequestPromises

\* The innermost call goes on or returns: what is owed to other navigations stays.
LEMMA OthersOwed ==
    ASSUME Typed, stack # <<>>, NEW m \in Ids, Owed(m), IsRunning(m) => IsRunning(m)',
           \/ Returns
           \/ \E q : GoesTo(q)
           \/ \E p, q, k : GoesAndCalls(p, q, k),
           stack[Len(stack)].id # m \/ stack[Len(stack)].at \in {"failed", "activating"}
    PROVE  Owed(m)'
<1>1. Len(stack) \in Nat /\ Len(stack) >= 1
  BY Depth
<1>2. \A i \in 1..Len(stack) : i # Len(stack) =>
        i \in 1..Len(stack') /\ stack'[i].id = stack[i].id /\ stack'[i].at = stack[i].at
  BY <1>1 DEF Returns, GoesTo, GoesAndCalls
<1>. QED  BY <1>2, OwedStays

LEMMA GoesOwed ==
    ASSUME Typed, stack # <<>>, NEW q, q \notin {"failed", "activating"}, GoesTo(q)
    PROVE  \A m : m = stack[Len(stack)].id => Owed(m)'
BY Depth DEF GoesTo, Owed

LEMMA LeavePromises ==
    ASSUME IInv, PromisesKept, NEW p, NEW n \in Ids, At(p, n), Leave(n), UNCHANGED navigationId,
           p \in {"started", "skipped", "outdated", "rejected", "errored", "ended", "failed"},
           \/ Settle(n)
           \/ p = "failed" /\ UNCHANGED settled
           \/ p = "started" /\ UNCHANGED settled /\ transition[n].stage = "cut"
    PROVE  PromisesKept'
<1>. USE DEF IInv
<1>1. /\ stack # <<>> /\ stack[Len(stack)].at = p /\ stack[Len(stack)].id = n
      /\ Fits(p, transition[n].stage)
  BY TopCall, TopStage
<1>2. UNCHANGED transition \/ Staged(n, "done")
  BY LeaveCases
<1>3. Returns \/ GoesTo("superseded")
  BY LeaveCases
<1>4. \A m \in Ids : m # n /\ Owed(m) => Owed(m)'
  BY <1>1, <1>2, <1>3, OthersOwed DEF Staged, IsRunning
<1>5. Owed(n) => transition[n].promise \in settled' \/ Owed(n)'
  <2>1. CASE Settle(n)
    BY <2>1 DEF Settle
  <2>2. CASE p = "failed"
    <3>1. ~IsRunning(n)
      BY <1>1, <2>2 DEF Fits, IsRunning, Running, Pending
    <3>. QED  BY <1>1, <1>3, <2>2, <3>1, OthersOwed
  <2>3. CASE transition[n].stage = "cut"
    <3>1. GoesTo("superseded")
      BY <2>3, LeaveCases
    <3>. QED  BY <1>1, <3>1, GoesOwed
  <2>. QED  BY <2>1, <2>2, <2>3
<1>6. settled \subseteq settled' /\ \A m \in Ids : transition'[m].promise = transition[m].promise
  BY <1>2 DEF Settle, Staged
<1>. QED  BY <1>4, <1>5, <1>6, PromisesFollow

LEMMA SwitchPromises ==
    ASSUME IInv, PromisesKept, NEW n \in Ids, Switch(n)
    PROVE  PromisesKept'
<1>. USE DEF IInv
<1>1. /\ stack # <<>> /\ Len(stack) \in Nat /\ Len(stack) >= 1
      /\ UNCHANGED <<navigationId, settled>>
  BY Depth DEF Switch, At
<1>2. /\ \A m \in Ids : m # inner => transition'[m].stage = transition[m].stage
      /\ \A m \in Ids : transition'[m].promise = transition[m].promise
  BY SwitchCases DEF Staged
<1>3. GoesTo("begin") \/ GoesAndCalls("begin", "superseded", inner)
  BY SwitchCases
<1>4. \A i \in 1..Len(stack) :
        /\ i \in 1..Len(stack') /\ stack'[i].id = stack[i].id
        /\ stack'[i].at \in {stack[i].at, "begin"}
  BY <1>1, <1>3 DEF GoesTo, GoesAndCalls
<1>5. \A m \in Ids : Owed(m) => Owed(m)'
  <2>. SUFFICES ASSUME NEW m \in Ids, Owed(m) PROVE Owed(m)'
    OBVIOUS
  <2>1. IsRunning(m) => IsRunning(m)' \/ (\E i \in 1..Len(stack') :
                stack'[i].id = m /\ stack'[i].at \notin {"failed", "activating"})
    <3>1. CASE m # inner
      BY <1>2, <3>1 DEF IsRunning
    <3>2. CASE m = inner
      <4>. SUFFICES ASSUME IsRunning(m)
                    PROVE  \E i \in 1..Len(stack') :
                             stack'[i].id = m /\ stack'[i].at \notin {"failed", "activating"}
        OBVIOUS
      <4>1. transition[inner].stage \notin {"done", "cut", "starting", "failing", "ending"} /\ inner # 0
        BY <3>2, Constants DEF IsRunning, Running, Pending
      <4>2. GoesAndCalls("begin", "superseded", inner)
        BY <4>1, SwitchCases
      <4>3. Len(stack') \in 1..Len(stack')
        BY <1>1, <4>2 DEF GoesAndCalls
      <4>. QED  BY <3>2, <4>2, <4>3 DEF GoesAndCalls
    <3>. QED  BY <3>1, <3>2
  <2>. QED  BY <1>4, <2>1, OwedStays
<1>. QED  BY <1>1, <1>2, <1>5, PromisesFollow

LEMMA CallPromises ==
    ASSUME IInvOne, Failing, PromisesKept, NEW n \in Ids, Call(n)
    PROVE  PromisesKept'
<1>. USE DEF IInvOne, IInv
<1>1. ASSUME NEW p, NEW q, At(p, n), q \notin {"failed", "activating"}, GoesTo(q),
             UNCHANGED <<navigationId, settled>>,
             UNCHANGED transition \/ \E stage : Staged(n, stage)
      PROVE  PromisesKept'
  <2>1. stack # <<>> /\ stack[Len(stack)].id = n
    BY <1>1, TopCall
  <2>2. \A m \in Ids : /\ m # n => transition'[m].stage = transition[m].stage
                       /\ transition'[m].promise = transition[m].promise
    BY <1>1 DEF Staged
  <2>3. \A m \in Ids : Owed(m) => Owed(m)'
    BY <1>1, <2>1, <2>2, GoesOwed, OthersOwed DEF IsRunning
  <2>. QED  BY <1>1, <2>2, <2>3, PromisesFollow
<1>2. CASE Begin(n)
  BY <1>1, <1>2, BeginCases DEF Begin
<1>3. CASE Started(n)
  <2>1. At("started", n) /\ UNCHANGED <<navigationId, settled>>
    BY <1>3 DEF Started
  <2>2. CASE transition[n].stage = "cut" /\ Leave(n)
    BY <2>1, <2>2, LeavePromises
  <2>3. CASE Staged(n, "recognize") /\ Returns
    <3>1. IsRunning(n)'
      BY <2>3 DEF Staged, IsRunning, Running, Pending
    <3>2. \A m \in Ids : Owed(m) => Owed(m)'
      <4>1. stack # <<>> /\ stack[Len(stack)].id = n
        BY <2>1, TopCall
      <4>. QED  BY <2>3, <3>1, <4>1, OthersOwed DEF Staged, IsRunning, Owed
    <3>. QED  BY <2>1, <2>3, <3>2, PromisesFollow DEF Staged
  <2>. QED  BY <1>3, <2>2, <2>3, StartedCases
<1>4. CASE Finish(n)
  BY <1>4, LeavePromises DEF Finish
<1>5. CASE Failed(n)
  BY <1>5, LeavePromises DEF Failed
<1>6. CASE Superseded(n)
  <2>1. /\ At("superseded", n) /\ Settle(n) /\ stack' = Return /\ UNCHANGED <<navigationId, transition>>
    BY <1>6 DEF Superseded
  <2>2. stack # <<>> /\ stack[Len(stack)].id = n /\ Returns
    BY <2>1, TopCall, ReturnEffect
  <2>3. \A m \in Ids : Owed(m) => transition[m].promise \in settled' \/ Owed(m)'
    BY <2>1, <2>2, OthersOwed DEF IsRunning, Settle
  <2>. QED  BY <2>1, <2>3, PromisesFollow DEF Settle
<1>7. CASE Handled(n)
  BY <1>1, <1>7, HandledCases
<1>8. CASE Activated(n) \/ ActivationThrows(n)
  <2>1. At("activating", n) /\ UNCHANGED <<navigationId, settled>>
    BY <1>8, ActivatedCases
  <2>2. CASE \E q \in {"ended", "handling"} : GoesTo(q) /\ \E stage : Staged(n, stage)
    BY <1>1, <2>1, <2>2
  <2>3. CASE UNCHANGED transition /\ Returns
    <3>1. stack # <<>> /\ stack[Len(stack)].at = "activating"
      BY <2>1, TopCall
    <3>2. \A m \in Ids : Owed(m) => Owed(m)'
      BY <2>3, <3>1, OthersOwed DEF IsRunning
    <3>. QED  BY <2>1, <2>3, <3>2, PromisesFollow
  <2>. QED  BY <1>8, <2>2, <2>3, ActivatedCases
<1>. QED  BY <1>2, <1>3, <1>4, <1>5, <1>6, <1>7, <1>8, SwitchPromises, RedirectRequestPromises DEF Call

LEMMA ArrivePromises ==
    ASSUME IInv, PromisesKept, NEW n \in Ids, Arrive(n)
    PROVE  PromisesKept'
<1>. USE DEF IInv
<1>1. /\ stack = <<>> /\ UNCHANGED <<navigationId, settled>> /\ \E stage : Staged(n, stage)
      /\ IsRunning(n)' \/ \E p \in {"rejected", "redirecting", "handling"} : Calls(p, n)
  <2>1. {"guards", "load", "activating"} \subseteq Running
    BY DEF Running, Pending
  <2>2. CASE Recognized(n)
    BY <2>1, <2>2, RecognizedCases, ZenonT(40) DEF Staged, IsRunning
  <2>3. CASE GuardsPassed(n)
    <3>1. Staged(n, "load")
      BY <2>3, StageEffect DEF GuardsPassed, Stages, Running, Pending
    <3>. QED  BY <2>1, <2>3, <3>1 DEF GuardsPassed, Awaits, Staged, IsRunning
  <2>4. CASE Reject(n) \/ Redirect(n) \/ Throw(n)
    <3>1. PICK stage \in {"failing", "rejected"}, p \in {"rejected", "redirecting", "handling"} :
                Staged(n, stage) /\ Calls(p, n)
      BY <2>4, InterruptedCases
    <3>. QED  BY <2>4, <3>1, InterruptedCases
  <2>5. CASE Activate(n)
    <3>1. \/ Staged(n, "failing") /\ Calls("handling", n)
          \/ Staged(n, "activating")
      BY <2>5, ActivateCases
    <3>. QED  BY <2>1, <2>5, <3>1, ActivateCases, ZenonT(40) DEF Staged, IsRunning
  <2>. QED  BY <2>2, <2>3, <2>4, <2>5 DEF Arrive
<1>2. Len(stack) = 0
  BY <1>1
<1>3. \A m \in Ids : Owed(m) => IsRunning(m)
  BY <1>2 DEF Owed
<1>4. Owed(n)'
  <2>1. CASE IsRunning(n)'
    BY <2>1 DEF Owed
  <2>2. ASSUME NEW p \in {"rejected", "redirecting", "handling"}, Calls(p, n)
        PROVE  Owed(n)'
    <3>1. Len(stack') \in 1..Len(stack')
      BY <1>2, <2>2 DEF Calls
    <3>. QED  BY <2>2, <3>1 DEF Calls, Owed
  <2>. QED  BY <1>1, <2>1, <2>2
<1>5. \A m \in Ids : Owed(m) => Owed(m)'
  BY <1>1, <1>3, <1>4 DEF Owed, IsRunning, Staged
<1>. QED  BY <1>1, <1>5, PromisesFollow DEF Staged

IInvPromises == IInvOne /\ Failing /\ PromisesKept

LEMMA PromisesInvariant == NoNesting => (Spec => []IInvPromises)
<1>. SUFFICES ASSUME NoNesting PROVE Spec => []IInvPromises
  OBVIOUS
<1>1. NoReentry
  BY DEF NoNesting, NoReentry
<1>2. Init => IInvPromises
  <2>1. Init => Failing /\ PromisesKept
    BY Constants DEF Init, Failing, PromisesKept, Ids
  <2>. QED  BY <2>1, InvInit, OneInit DEF IInvPromises, IInvOne
<1>3. IInvPromises /\ [Next]_vars => PromisesKept'
  <2>. SUFFICES ASSUME IInvPromises, [Next]_vars PROVE PromisesKept'
    OBVIOUS
  <2>. USE DEF IInvPromises, IInvOne
  <2>1. CASE UNCHANGED vars
    BY <2>1 DEF vars, PromisesKept, Owed, IsRunning
  <2>2. CASE BackOrForward \/ HistoryGo
    BY <2>2 DEF BackOrForward, HistoryGo, PromisesKept, Owed, IsRunning
  <2>. QED  BY <2>1, <2>2, NavigatePromises, CallPromises, ArrivePromises DEF Next
<1>4. IInvPromises /\ [Next]_vars => IInvPromises'
  BY <1>1, <1>3, InvNext, OneNext, FailingNext DEF IInvPromises, IInvOne
<1>. QED  BY <1>2, <1>4, PTL DEF Spec

\* navigateByUrl() "to 'false' when navigation fails, or is rejected on error": when
\* no navigation runs and no call is unfinished, every promise has been settled, as
\* long as no subscriber navigates from within a cancellation that supersedes or
\* redirects, nor an error handler.
THEOREM EveryPromiseSettles == NoNesting => (Spec => []PromisesSettle)
<1>1. IInvPromises => PromisesSettle
  <2>. SUFFICES ASSUME IInvPromises, Idle, NEW n \in 1..navigationId
                PROVE  transition[n].promise \in settled
    BY DEF PromisesSettle
  <2>1. n \in Ids /\ n <= navigationId
    BY Constants DEF IInvPromises, IInvOne, IInv, Typed, Ids
  <2>2. Len(stack) = 0 /\ \A m \in Ids : ~Owed(m)
    BY DEF Idle, Owed
  <2>. QED  BY <2>1, <2>2 DEF IInvPromises, PromisesKept
<1>. QED  BY <1>1, PromisesInvariant, PTL

=============================================================================
