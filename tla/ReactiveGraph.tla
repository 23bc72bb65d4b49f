---------------------------- MODULE ReactiveGraph ----------------------------
(***************************************************************************)
(* The reactive graph of signals: writable signals, computed signals and   *)
(* effects (packages/core/primitives/signals, render3/reactivity/effect).  *)
(* Producers keep an array of their live consumers, consumers an array of  *)
(* their producers, and each entry stores the index of its counterpart.    *)
(*                                                                         *)
(* The functions of graph.ts are operators from graphs to graphs; "g" is   *)
(* the whole graph.  An action is one synchronous call by user code: write *)
(* a signal, read a node, run or destroy an effect.  The body of an effect *)
(* is the sequence of calls made while it is the active consumer; the      *)
(* bodies of computed signals are pure and given by Body.                  *)
(*                                                                         *)
(* Where graph.ts recurses from a node to its producers, the recursion is  *)
(* one over Rank: a computed only reads what has a lower rank.             *)
(***************************************************************************)
EXTENDS Integers, Sequences, SequencesExt

CONSTANTS
    Signals,        \* writable signals
    Computeds,      \* computed signals
    Effects,        \* effects
    Values,         \* what signals hold
    Initial,        \* the value each signal is created with
    None,           \* "no active consumer", and the hole of a sparse array
    Unset,          \* UNSET: a computed that was never calculated
    Errored,        \* ERRORED: the computation threw
    Rank,           \* how deep a computed is nested; no computation is cyclic
    Body(_, _),     \* Body(c, values): what c does after it read these values
    Longest,        \* how many reads a computation makes at most
    MaxEpoch,       \* bound: how many signal writes change a value
    MaxReads        \* bound: how many reads an effect's body makes

Producers == Signals \cup Computeds
Consumers == Computeds \cup Effects
Results == Values \cup {Errored}

\* The steps of a computation.
Reads(n) == [read |-> n, result |-> None]
Returns(v) == [read |-> None, result |-> v]

ASSUME NodesAssumption ==
    /\ Signals \cap Computeds = {} /\ Effects \cap Producers = {}
    /\ None \notin Producers \cup Effects \cup Results
    /\ Unset \notin Results /\ Errored \notin Values
    /\ Initial \in [Signals -> Values]

ASSUME RankAssumption ==
    /\ Rank \in [Producers -> Nat]
    /\ \A n \in Producers : Rank[n] = 0 <=> n \in Signals

\* A body reads the next producer or ends.
ASSUME BodyAssumption ==
    /\ Longest \in Nat
    /\ \A c \in Computeds : \A k \in 0..Longest : \A values \in [1..k -> Values] :
          LET step == Body(c, values)
          IN  \/ k < Longest /\ \E n \in Producers : Rank[n] < Rank[c] /\ step = Reads(n)
              \/ \E v \in Results : step = Returns(v)

VARIABLES
    g,           \* the graph, see Init
    active,      \* activeConsumer: the effect whose body runs
    queue,       \* effects handed to the scheduler
    hasRun,      \* EffectNode.hasRun
    destroyed,   \* effects whose destroy() was called
    broken       \* effects whose polling hit a hole and threw a TypeError

vars == <<g, active, queue, hasRun, destroyed, broken>>

\* One signal graph; "got" is a history of the values read.
Graphs ==
    [epoch:   Nat,
     value:   [Producers -> Results \cup {Unset}],
     version: [Producers -> Nat],
     clean:   [Computeds -> Nat],                            \* lastCleanEpoch
     dirty:   [Consumers -> BOOLEAN],
     prods:   [Consumers -> Seq(Producers \cup {None})],     \* producerNode
     seen:    [Consumers -> Seq(Nat \cup {None})],           \* producerLastReadVersion
     indexOf: [Consumers -> Seq(Nat)],                       \* producerIndexOfThis
     next:    [Consumers -> Nat],                            \* nextProducerIndex
     live:    [Producers -> Seq(Consumers)],                 \* liveConsumerNode
     liveIdx: [Producers -> Seq(Nat)],                       \* liveConsumerIndexOfThis
     got:     [Consumers -> Seq(Results \cup {Unset, None})]]

Init ==
    /\ g = [epoch   |-> 1,
            value   |-> [n \in Producers |-> IF n \in Signals THEN Initial[n] ELSE Unset],
            version |-> [n \in Producers |-> 0],
            clean   |-> [n \in Computeds |-> 0],
            dirty   |-> [n \in Consumers |-> TRUE],
            prods   |-> [n \in Consumers |-> <<>>],
            seen    |-> [n \in Consumers |-> <<>>],
            indexOf |-> [n \in Consumers |-> <<>>],
            next    |-> [n \in Consumers |-> 0],
            live    |-> [n \in Producers |-> <<>>],
            liveIdx |-> [n \in Producers |-> <<>>],
            got     |-> [n \in Consumers |-> <<>>]]
    /\ active = None
    /\ queue = Effects
    /\ hasRun = {} /\ destroyed = {} /\ broken = {}

\* The loop "for k from 1 to n: x = step[k][x]", from x = start.
Iterate(step, start, n) ==
    LET after[k \in Nat] == IF k = 0 THEN start ELSE step[k][after[k - 1]]
    IN  after[n]

----------------------------------------------------------------------------
(* graph.ts: links between producers and live consumers.                   *)

IsLive(h, n) == n \in Effects \/ Len(h.live[n]) > 0

\* The consumer's i-th link leads to the end of n's live consumers.
Link(h, n, consumer, i) ==
    [h EXCEPT !.live[n] = Append(@, consumer),
              !.liveIdx[n] = Append(@, i),
              !.indexOf[consumer][i] = Len(h.live[n]) + 1]

\* The computed n becomes a live consumer of all its producers.
LinkProducers(add, h, n) ==
    Iterate([j \in DOMAIN h.prods[n] |-> add[h.prods[n][j]][n][j]], h, Len(h.prods[n]))

\* producerAddLiveConsumer for a node of at most this rank.
AddLive[rank \in Nat] ==
    [n \in Producers |-> [consumer \in Consumers |-> [i \in Nat |-> [h \in Graphs |->
        Link(IF rank > 0 /\ n \in Computeds /\ h.live[n] = <<>>
               THEN LinkProducers(AddLive[rank - 1], h, n) ELSE h,
             n, consumer, i)]]]]

AddLiveConsumer(h, n, consumer, i) == AddLive[Rank[n]][n][consumer][i][h]

\* Mutation of UnlinkAt: the consumer moved to k keeps its old index.
UnlinkAtKeepsIndex(h, n, k) ==
    LET last == Len(h.live[n])
    IN  [h EXCEPT !.live[n] = Front([@ EXCEPT ![k] = h.live[n][last]]),
                  !.liveIdx[n] = Front([@ EXCEPT ![k] = h.liveIdx[n][last]])]

\* The last live consumer of n moves to position k and learns its new index.
UnlinkAt(h, n, k) ==
    LET last == Len(h.live[n])
        moved == [h EXCEPT !.live[n] = Front([@ EXCEPT ![k] = h.live[n][last]]),
                           !.liveIdx[n] = Front([@ EXCEPT ![k] = h.liveIdx[n][last]])]
    IN  IF k < last
        THEN [moved EXCEPT !.indexOf[moved.live[n][k]][moved.liveIdx[n][k]] = k]
        ELSE moved

\* The computed n stops being a live consumer of its own producers.
UnlinkProducers(remove, h, n) ==
    Iterate([j \in DOMAIN h.prods[n] |-> [acc \in Graphs |->
                remove[h.prods[n][j]][acc.indexOf[n][j]][acc]]],
            h, Len(h.prods[n]))

\* producerRemoveLiveConsumerAtIndex for a node of at most this rank.
RemoveLive[rank \in Nat] ==
    [n \in Producers |-> [k \in Nat |-> [h \in Graphs |->
        UnlinkAt(IF rank > 0 /\ n \in Computeds /\ Len(h.live[n]) = 1
                   THEN UnlinkProducers(RemoveLive[rank - 1], h, n) ELSE h,
                 n, k)]]]

RemoveLiveConsumerAt(h, n, k) == RemoveLive[Rank[n]][n][k][h]

\* Remove the links of the consumer n to its producers from position i on.
DropLinks(h, n, i) ==
    Iterate([j \in DOMAIN h.prods[n] |-> [acc \in Graphs |->
                IF j < i THEN acc
                ELSE RemoveLiveConsumerAt(acc, h.prods[n][j], acc.indexOf[n][j])]],
            h, Len(h.prods[n]))

----------------------------------------------------------------------------
(* graph.ts: notification, polling and recomputation.                      *)

\* Notification of n goes on through the consumers that were not dirty before.
PassesOn(h, n, reached) ==
    \A m \in {n} \cup (reached \cap Computeds) :
        {c \in ToSet(h.live[m]) : ~h.dirty[c]} \subseteq reached

\* producerNotifyConsumers and consumerMarkDirty, depth first in the code: the
\* consumers they mark.
Notified(h, n) ==
    {c \in Consumers : \A reached \in SUBSET Consumers : PassesOn(h, n, reached) => c \in reached}

MarkClean(h, n) == [h EXCEPT !.dirty[n] = FALSE, !.clean[n] = h.epoch]

\* Grow s with holes so that it has the position i.
Extend(s, i, hole) == IF i <= Len(s) THEN s ELSE s \o [j \in 1..(i - Len(s)) |-> hole]

\* producerAccessed, one statement after the other: a live link to another
\* producer at the next position is cut, ...
FreeNext(h, n, c) ==
    LET i == h.next[c] + 1
    IN  IF i <= Len(h.prods[c]) /\ h.prods[c][i] # n /\ IsLive(h, c)
        THEN RemoveLiveConsumerAt(h, h.prods[c][i], h.indexOf[c][i]) ELSE h

\* ... the index moves on, ...
MoveNext(h, c) ==
    LET i == h.next[c] + 1
    IN  [h EXCEPT !.next[c] = i,
                  !.prods[c] = Extend(@, i, None),
                  !.seen[c] = Extend(@, i, None),
                  !.indexOf[c] = Extend(@, i, 0),
                  !.got[c] = Extend(@, i, None)]

\* ... the producer is stored, and linked if the consumer is live, ...
PutProducer(h, n, c) ==
    LET i   == h.next[c]
        put == [h EXCEPT !.prods[c][i] = n, !.indexOf[c][i] = 0]
    IN  IF h.prods[c][i] = n THEN h
        ELSE IF IsLive(h, c) THEN AddLiveConsumer(put, n, c, i) ELSE put

\* ... and the version read is recorded.
RecordRead(h, n, c) == [h EXCEPT !.seen[c][h.next[c]] = h.version[n],
                                 !.got[c][h.next[c]] = h.value[n]]

\* producerAccessed with activeConsumer c.
Accessed(h, n, c) == RecordRead(PutProducer(MoveNext(FreeNext(h, n, c), c), n, c), n, c)

\* Mutation of Truncate: one of the parallel arrays is forgotten.
TruncateKeepsIndices(h, c) ==
    LET length == IF h.next[c] < Len(h.prods[c]) THEN h.next[c] ELSE Len(h.prods[c])
    IN  [h EXCEPT !.prods[c] = SubSeq(@, 1, length),
                  !.seen[c] = SubSeq(@, 1, length),
                  !.got[c] = SubSeq(@, 1, length)]

\* Drop what a shorter computation left at the end of the arrays.
Truncate(h, c) ==
    LET length == IF h.next[c] < Len(h.prods[c]) THEN h.next[c] ELSE Len(h.prods[c])
    IN  [h EXCEPT !.prods[c] = SubSeq(@, 1, length),
                  !.seen[c] = SubSeq(@, 1, length),
                  !.indexOf[c] = SubSeq(@, 1, length),
                  !.got[c] = SubSeq(@, 1, length)]

\* consumerAfterComputation: drop the producers that were not read again.
AfterComputation(h, c) ==
    Truncate(IF IsLive(h, c) THEN DropLinks(h, c, h.next[c] + 1) ELSE h, c)

\* A computation under way: the values it has read, None until it has a result.
Computations == [graph: Graphs, values: Seq(Results), result: Results \cup {None}]

\* The body of c goes on, which may read another producer: one that is errored throws.
Continue(update, run, c) ==
    LET step    == Body(c, run.values)
        n       == step.read
        updated == Accessed(update[n][run.graph], n, c)
    IN  IF run.result # None THEN run
        ELSE IF n = None THEN [run EXCEPT !.result = step.result]
        ELSE IF updated.value[n] = Errored
               THEN [run EXCEPT !.graph = updated, !.result = Errored]
               ELSE [run EXCEPT !.graph = updated, !.values = Append(@, updated.value[n])]

\* The computation of c, from consumerBeforeComputation until it ends.
Compute(update, h, c) ==
    Iterate([k \in 1..(Longest + 1) |-> [run \in Computations |-> Continue(update, run, c)]],
            [graph |-> [h EXCEPT !.next[c] = 0], values |-> <<>>, result |-> None],
            Longest + 1)

\* Mutation of StoreResult: a computation that throws keeps the version.
StoreResultKeepsVersion(h, c, result) ==
    IF h.value[c] \notin {Unset, Errored} /\ h.value[c] = result THEN h
    ELSE [h EXCEPT !.value[c] = result, !.version[c] = IF result = Errored THEN @ ELSE @ + 1]

\* A value that is equal to the old one keeps its version.
StoreResult(h, c, result) ==
    IF h.value[c] \notin {Unset, Errored} /\ result # Errored /\ h.value[c] = result THEN h
    ELSE [h EXCEPT !.value[c] = result, !.version[c] = @ + 1]

Finish(done, c) == StoreResult(AfterComputation(done.graph, c), c, done.result)

\* producerRecomputeValue of a computed.
Recompute(update, h, c) == Finish(Compute(update, h, c), c)

Polls == [graph: Graphs, answer: {"same", "changed", "throws"}]

\* The i-th producer of c is compared with what was seen of it, before and after it
\* is brought up to date.  A hole throws.
PollProducer(update, poll, c, i) ==
    LET h       == poll.graph
        n       == h.prods[c][i]
        updated == update[n][h]
    IN  IF poll.answer # "same" THEN poll
        ELSE IF n = None THEN [poll EXCEPT !.answer = "throws"]
        ELSE IF h.seen[c][i] # h.version[n] THEN [poll EXCEPT !.answer = "changed"]
        ELSE [graph |-> updated,
              answer |-> IF h.seen[c][i] # updated.version[n] THEN "changed" ELSE "same"]

\* consumerPollProducersForChange.
Poll(update, h, c) ==
    Iterate([i \in DOMAIN h.prods[c] |-> [poll \in Polls |-> PollProducer(update, poll, c, i)]],
            [graph |-> h, answer |-> "same"], Len(h.prods[c]))

\* Mutation of KnownClean: a consumer that was live once is still trusted.
KnownCleanWhenNotDirty(h, n) == ~h.dirty[n]

\* Is the value known to be up to date without polling?
KnownClean(h, n) == ~h.dirty[n] /\ (IsLive(h, n) \/ h.clean[n] = h.epoch)

RecomputeIfChanged(update, poll, n) ==
    IF poll.answer = "changed" THEN Recompute(update, poll.graph, n) ELSE poll.graph

\* A computed that is not known to be clean is polled, unless it was never calculated.
BringUpToDate(update, h, n) ==
    MarkClean(RecomputeIfChanged(update,
                                 IF h.value[n] = Unset THEN [graph |-> h, answer |-> "changed"]
                                 ELSE Poll(update, h, n), n), n)

\* producerUpdateValueVersion for a node of at most this rank; there is nothing to do
\* for a writable signal.
Update[rank \in Nat] ==
    [n \in Producers |-> [h \in Graphs |->
        IF rank = 0 \/ n \in Signals \/ KnownClean(h, n) THEN h
        ELSE BringUpToDate(Update[rank - 1], h, n)]]

UpdateValueVersion == [n \in Producers |-> Update[Rank[n]][n]]

----------------------------------------------------------------------------
(* What user code does.                                                    *)

\* signal.set(v) with a value that is not equal to the current one; the effects
\* that are marked are queued by their scheduler.
SetSignal(s, v) ==
    /\ g.epoch < MaxEpoch
    /\ g.value[s] # v
    /\ LET marked == Notified(g, s)
       IN  /\ g' = [g EXCEPT !.value[s] = v, !.version[s] = @ + 1, !.epoch = @ + 1,
                             !.dirty = [c \in Consumers |-> @[c] \/ c \in marked]]
           /\ queue' = queue \cup (marked \cap Effects)
    /\ UNCHANGED <<active, hasRun, destroyed, broken>>

\* A computed is read outside of any reactive context.
ReadComputed(c) ==
    /\ active = None
    /\ g' = UpdateValueVersion[c][g]
    /\ UNCHANGED <<active, queue, hasRun, destroyed, broken>>

\* Mutation of RunEffect: the effect becomes clean only where it returns.
RunEffectStaysDirty(e) ==
    /\ active = None
    /\ e \in queue
    /\ LET poll == Poll(UpdateValueVersion, g, e)
       IN  \/ /\ e \in hasRun /\ poll.answer = "same"
              /\ g' = [poll.graph EXCEPT !.dirty[e] = FALSE]
              /\ UNCHANGED <<active, hasRun, broken>>
           \/ /\ e \notin hasRun \/ poll.answer = "changed"
              /\ g' = [(IF e \in hasRun THEN poll.graph ELSE g) EXCEPT !.next[e] = 0]
              /\ active' = e
              /\ hasRun' = hasRun \cup {e}
              /\ UNCHANGED broken
    /\ queue' = queue \ {e}
    /\ UNCHANGED destroyed

\* The scheduler runs a queued effect: clean first, then polled unless it never
\* ran, then its body starts.
RunEffect(e) ==
    /\ active = None
    /\ e \in queue
    /\ LET start == [g EXCEPT !.dirty[e] = FALSE]
           poll == Poll(UpdateValueVersion, start, e)
       IN  \/ /\ e \in hasRun /\ poll.answer = "same"
              /\ g' = poll.graph
              /\ UNCHANGED <<active, hasRun, broken>>
           \/ /\ e \in hasRun /\ poll.answer = "throws"
              /\ g' = poll.graph
              /\ broken' = broken \cup {e}
              /\ UNCHANGED <<active, hasRun>>
           \/ /\ e \notin hasRun \/ poll.answer = "changed"
              /\ g' = [(IF e \in hasRun THEN poll.graph ELSE start) EXCEPT !.next[e] = 0]
              /\ active' = e
              /\ hasRun' = hasRun \cup {e}
              /\ UNCHANGED broken
    /\ queue' = queue \ {e}
    /\ UNCHANGED destroyed

\* The running body reads the producer n.
ReadInBody(n) ==
    /\ active # None
    /\ g.next[active] < MaxReads
    /\ g' = Accessed(UpdateValueVersion[n][g], n, active)
    /\ UNCHANGED <<active, queue, hasRun, destroyed, broken>>

\* The running body returns or throws.
BodyEnds ==
    /\ active # None
    /\ g' = AfterComputation(g, active)
    /\ active' = None
    /\ UNCHANGED <<queue, hasRun, destroyed, broken>>

\* EffectRef.destroy(): consumerDestroy, also from within its own body.
DestroyEffect(e) ==
    /\ e \notin destroyed
    /\ g' = [DropLinks(g, e, 1) EXCEPT !.prods[e] = <<>>, !.seen[e] = <<>>,
                                       !.indexOf[e] = <<>>, !.got[e] = <<>>]
    /\ destroyed' = destroyed \cup {e}
    /\ UNCHANGED <<active, queue, hasRun, broken>>

Next ==
    \/ \E s \in Signals, v \in Values : SetSignal(s, v)
    \/ \E c \in Computeds : ReadComputed(c)
    \/ \E e \in Effects : RunEffect(e) \/ DestroyEffect(e)
    \/ \E n \in Producers : ReadInBody(n)
    \/ BodyEnds

Spec == Init /\ [][Next]_vars

----------------------------------------------------------------------------
(* Properties.                                                             *)

\* What a node is worth, computed on the signals' values without any graph.
Trials == [values: Seq(Values), result: Results \cup {None}]

\* A body goes on with the worth of what it reads.
Try(worth, trial, c) ==
    LET step == Body(c, trial.values)
    IN  IF trial.result # None THEN trial
        ELSE IF step.read = None THEN [trial EXCEPT !.result = step.result]
        ELSE IF worth[step.read] = Errored THEN [trial EXCEPT !.result = Errored]
        ELSE [trial EXCEPT !.values = Append(@, worth[step.read])]

Outcome(worth, c) ==
    Iterate([k \in 1..(Longest + 1) |-> [trial \in Trials |-> Try(worth, trial, c)]],
            [values |-> <<>>, result |-> None], Longest + 1).result

Worth[rank \in Nat] ==
    [start \in [Signals -> Values] |->
        [n \in Producers |-> IF rank = 0 \/ n \in Signals THEN start[n]
                             ELSE Outcome(Worth[rank - 1][start], n)]]

Now(n) == Worth[Rank[n]][[s \in Signals |-> g.value[s]]][n]

\* The shape of the graph.  The arrays of a consumer are parallel, and so are
\* those of a producer; no call of user code leaves a notification half done.
TypeOK ==
    /\ g \in Graphs
    /\ \A n \in Signals : g.value[n] \in Values
    /\ \A n \in Producers : Len(g.liveIdx[n]) = Len(g.live[n])
    /\ \A c \in Consumers : /\ Len(g.seen[c]) = Len(g.prods[c])
                           /\ Len(g.indexOf[c]) = Len(g.prods[c])
                           /\ Len(g.got[c]) = Len(g.prods[c])
    /\ active \in Effects \cup {None}
    /\ queue \cup hasRun \cup destroyed \cup broken \subseteq Effects

\* The two index arrays of every link point at each other, exactly the live
\* consumers are linked, and so a computed is live only while an effect is
\* downstream of it: no swap in a removal, whatever else was linked in between,
\* makes a later removal cut the wrong edge.
LinksMatch ==
    /\ \A n \in Producers : \A k \in DOMAIN g.live[n] :
         LET c == g.live[n][k]
             i == g.liveIdx[n][k]
         IN  /\ IsLive(g, c)
             /\ i \in DOMAIN g.prods[c] /\ g.prods[c][i] = n /\ g.indexOf[c][i] = k
    /\ \A c \in Consumers : IsLive(g, c) =>
         \A i \in DOMAIN g.prods[c] \cap {j \in DOMAIN g.prods[c] : g.prods[c][j] # None} :
           LET n == g.prods[c][i]
               k == g.indexOf[c][i]
           IN  k \in DOMAIN g.live[n] /\ g.live[n][k] = c /\ g.liveIdx[n][k] = i

\* Reads are glitch free: a computed that would be returned without polling has
\* the value its computation gives on the current signals.
CleanIsCurrent ==
    \A c \in Computeds : KnownClean(g, c) => g.value[c] = Now(c)

\* No change is lost: an effect that is not waiting in the queue saw, in every
\* dependency it recorded, the value that it has now, also when signals are
\* written while its own body runs.  Notification stops at a consumer that is
\* dirty, so that dirty effects must be queued.
EffectsAreCurrentOrQueued ==
    \A e \in Effects \ destroyed : e \notin queue =>
        \A i \in 1..(IF active = e THEN g.next[e] ELSE Len(g.prods[e])) :
            g.got[e][i] = Now(g.prods[e][i])

\* Versions stand for values: a dependency whose version is the one last read
\* still has the value that was read.
VersionMeansValue ==
    \A c \in Consumers : \A i \in DOMAIN g.prods[c] :
        LET n == g.prods[c][i]
        IN  n # None /\ g.seen[c][i] = g.version[n] => g.got[c][i] = g.value[n]

(* A statement of the source's comments that the code does not meet.        *)

\* A consumer's producerNode array holds nodes: polling it never throws.
PollingNeverThrows == broken = {}
============================================================================
