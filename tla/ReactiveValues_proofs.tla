------------------------- MODULE ReactiveValues_proofs -------------------------
(***************************************************************************)
(* Theorems about the values in the reactive graph: what is returned       *)
(* without polling is what the computation gives on the current signals,   *)
(* and an effect that does not wait in the queue saw the current values.   *)
(*                                                                         *)
(* The invariant has two parts.  Every value has a trace: the list of a    *)
(* computed and what was read there are a run of its body that ends in its *)
(* value.  And there is a set of computeds that can be trusted: they are   *)
(* clean, and their lists name only signals and other members, each with   *)
(* the version that it has now.  A write takes from this set what it       *)
(* notifies and what is not live; bringing a node up to date only adds to  *)
(* it.  Since a version stands for a value (VersionsStandForValues), a     *)
(* member has, by induction over Rank, the value that its body gives now.  *)
(***************************************************************************)
EXTENDS ReactiveGraph_proofs

-----------------------------------------------------------------------------
(* Traces.                                                                 *)

\* The first k of the values v.
Prefix(v, k) == [j \in 1..k |-> v[j]]

\* The body of c reads the first "len" of the producers p, which have the values v, and
\* ends with the result w: it returns it, or the last producer is errored.
Ran(c, p, v, len, w) ==
    \E k \in 0..Longest :
        /\ \A i \in 1..k : v[i] \in Values
        /\ \A i \in 1..len : Body(c, Prefix(v, i - 1)) = Reads(p[i])
        /\ \/ len = k /\ Body(c, Prefix(v, k)) = Returns(w)
           \/ len = k + 1 /\ v[len] = Errored /\ w = Errored

\* Every value was computed from what its list says.
HasTrace(h, c) == h.value[c] # Unset => Ran(c, h.prods[c], h.got[c], Len(h.prods[c]), h.value[c])

Traced(h, S) == \A c \in S : HasTrace(h, c)

\* Prefixes look at the first values only, ...
LEMMA PrefixSame ==
    ASSUME NEW len \in Nat, NEW v, NEW v2, \A i \in 1..len : v2[i] = v[i]
    PROVE  \A k \in 0..len : Prefix(v2, k) = Prefix(v, k)
<1> SUFFICES ASSUME NEW k \in 0..len PROVE Prefix(v2, k) = Prefix(v, k)
  OBVIOUS
<1>1. \A j \in 1..k : v2[j] = v[j]
  OBVIOUS
<1> QED
  BY <1>1 DEF Prefix

\* ... and so do runs.
LEMMA RanSame ==
    ASSUME NEW c, NEW p, NEW v, NEW p2, NEW v2, NEW len \in Nat, NEW w,
           \A i \in 1..len : p2[i] = p[i] /\ v2[i] = v[i], Ran(c, p, v, len, w)
    PROVE  Ran(c, p2, v2, len, w)
<1>1. PICK k \in 0..Longest :
         /\ \A i \in 1..k : v[i] \in Values
         /\ \A i \in 1..len : Body(c, Prefix(v, i - 1)) = Reads(p[i])
         /\ \/ len = k /\ Body(c, Prefix(v, k)) = Returns(w)
            \/ len = k + 1 /\ v[len] = Errored /\ w = Errored
  BY DEF Ran
<1>2. k \in Nat /\ k <= len
  BY <1>1, BodyAssumption
<1>3. \A i \in 0..len : Prefix(v2, i) = Prefix(v, i)
  BY PrefixSame
<1>4. \A i \in 1..k : v2[i] \in Values
  BY <1>1, <1>2
<1>5. \A i \in 1..len : Body(c, Prefix(v2, i - 1)) = Reads(p2[i])
  <2> SUFFICES ASSUME NEW i \in 1..len PROVE Body(c, Prefix(v2, i - 1)) = Reads(p2[i])
    OBVIOUS
  <2>1. i - 1 \in 0..len
    OBVIOUS
  <2>2. Prefix(v2, i - 1) = Prefix(v, i - 1)
    BY <2>1, <1>3
  <2> QED
    BY <2>2, <1>1
<1>6. Prefix(v2, k) = Prefix(v, k)
  BY <1>2, <1>3
<1>7. \/ len = k /\ Body(c, Prefix(v2, k)) = Returns(w)
      \/ len = k + 1 /\ v2[len] = Errored /\ w = Errored
  <2>1. len = k + 1 => len \in 1..len
    BY <1>2
  <2> QED
    BY <2>1, <1>1, <1>6
<1> QED
  BY <1>1, <1>4, <1>5, <1>7 DEF Ran

\* A node whose list and value are the same keeps its trace.
LEMMA TraceStays ==
    ASSUME NEW h, NEW h2, NEW c, HasTrace(h, c), SameLists(h, h2, c), h2.value[c] = h.value[c]
    PROVE  HasTrace(h2, c)
  BY DEF HasTrace, SameLists

\* So do all computeds that a change does not touch.
LEMMA TracedStays ==
    ASSUME NEW h, NEW h2, NEW D, NEW Y, NEW S \in SUBSET Computeds, Tame(h, h2, D, Y),
           Traced(h, S), S \cap Y = {}, Traced(h2, S \cap D)
    PROVE  Traced(h2, S)
<1> SUFFICES ASSUME NEW c \in S PROVE HasTrace(h2, c)
  BY DEF Traced
<1>1. CASE c \in D
  BY <1>1 DEF Traced
<1>2. CASE c \notin D
  <2>1. c \in Consumers \ (D \cup Y) /\ c \in Producers \ D
    BY <1>2, NodeFacts
  <2>2. SameLists(h, h2, c) /\ h2.value[c] = h.value[c]
    BY <2>1 DEF Tame
  <2> QED
    BY <2>2, TraceStays DEF Traced
<1> QED
  BY <1>1, <1>2

-----------------------------------------------------------------------------
(* A computation leaves a trace.                                           *)

\* The body of c, which has read k values, reads the producer n: it is brought up to
\* date in h1 and recorded in h2.
ReadsNext(update, run, c, k, n, h1, h2) ==
    /\ k < Longest /\ run.values \in [1..k -> Values]
    /\ run.graph.next[c] = k /\ k <= Len(run.graph.prods[c]) /\ Len(run.graph.prods[c]) \in Nat
    /\ n \in Inputs(c) /\ n \in Producers /\ Body(c, run.values) = Reads(n)
    /\ h1 = update[n][run.graph] /\ h1 \in Graphs /\ Proper(h1)
    /\ Tame(run.graph, h1, Deep(c), {}) /\ SameLists(run.graph, h1, c)
    /\ h2 \in Graphs /\ Proper(h2) /\ SameExceptLists(h1, h2, c)
    /\ Tame(run.graph, h2, Deep(c), {c}) /\ h2.value[n] \in Results
    /\ h2.next[c] = k + 1 /\ k + 1 <= Len(h2.prods[c])
    /\ h2.prods[c][k + 1] = n /\ h2.seen[c][k + 1] = h1.version[n]
    /\ h2.got[c][k + 1] = h2.value[n]
    /\ \A i \in 1..k : /\ h2.prods[c][i] = run.graph.prods[c][i]
                       /\ h2.seen[c][i] = run.graph.seen[c][i]
                       /\ h2.got[c][i] = run.graph.got[c][i]
    /\ \A K \in SUBSET Producers : n \in K /\ Downward(h1, K) =>
          \A m \in Producers \ K : Len(h2.live[m]) <= Len(h1.live[m])
    /\ Continue(update, run, c) =
          IF h2.value[n] = Errored
            THEN [run EXCEPT !.graph = h2, !.result = Errored]
            ELSE [run EXCEPT !.graph = h2, !.values = Append(@, h2.value[n])]

\* This is what a round does that reads.
LEMMA ReadStep ==
    ASSUME NEW update, NEW c \in Computeds, Updates(update, c), NEW h, Proper(h),
           NEW run, NEW k \in Nat, RunOK(h, run, c, k), run.result = None,
           Body(c, run.values).read # None
    PROVE  \E n, h1, h2 : ReadsNext(update, run, c, k, n, h1, h2)
<1> DEFINE step == Body(c, run.values)
           n == step.read
           h0 == run.graph
           h1 == update[n][h0]
           h2 == Accessed(h1, n, c)
<1>1. /\ run \in Computations /\ h0 \in Graphs /\ Proper(h0) /\ c \in Consumers
      /\ h0.next[c] = k /\ k <= Len(h0.prods[c]) /\ k <= Longest
      /\ run.values \in [1..k -> Values]
  BY ProperFacts, NodeFacts DEF RunOK
<1>2. k < Longest /\ n \in Inputs(c) /\ step = Reads(n)
  BY <1>1, BodySteps
<1>3. n \in Producers /\ Rank[n] < Rank[c] /\ n # None
  BY <1>1, <1>2, InputFacts, NodeFacts
<1>4. Continue(update, run, c) =
         IF h2.value[n] = Errored
           THEN [run EXCEPT !.graph = h2, !.result = Errored]
           ELSE [run EXCEPT !.graph = h2, !.values = Append(@, h2.value[n])]
  BY <1>3 DEF Continue
<1> HIDE DEF step, n, h0
<1>5. Proper(h1) /\ Tame(h0, h1, Deep(c), {}) /\ h1.value[n] \in Results
  BY <1>1, <1>2, InputUpdated
<1>a. h1 = update[n][h0]
  OBVIOUS
<1> HIDE DEF h1
<1>6. h1 \in Graphs /\ Sane(h1) /\ SameLists(h0, h1, c)
  BY <1>1, <1>5, ProperFacts, OwnListsStay
<1>7. /\ h1.next[c] = k /\ h1.prods[c] = h0.prods[c] /\ Len(h1.prods[c]) \in Nat
      /\ k <= Len(h1.prods[c])
  <2>1. h1.next[c] = k /\ h1.prods[c] = h0.prods[c]
    BY <1>1, <1>6 DEF SameLists
  <2> QED
    BY <1>1, <1>6, <2>1, GraphTypes, LenProperties
<1>8. h1.next[c] + 1 <= Len(h1.prods[c]) => h1.prods[c][h1.next[c] + 1] # None
  <2>1. h1.next[c] + 1 <= Len(h1.prods[c]) => h1.next[c] + 1 \in 1..Len(h1.prods[c])
    BY <1>7
  <2>2. Shaped(h1)
    BY <1>5, ProperFacts
  <2> QED
    BY <1>1, <2>1, <2>2, EntryFacts
<1>9. /\ Proper(h2) /\ Tame(h1, h2, Deep(c), {c}) /\ SameExceptLists(h1, h2, c)
      /\ Recorded(h1, h2, n, c, k + 1)
  BY <1>1, <1>3, <1>5, <1>7, <1>8, AccessedTame
<1>10. \A K \in SUBSET Producers : n \in K /\ Downward(h1, K) =>
          \A m \in Producers \ K : Len(h2.live[m]) <= Len(h1.live[m])
  BY <1>1, <1>3, <1>6, <1>7, <1>8, AccessedEffect
<1> HIDE DEF h2
<1>11. h2 \in Graphs /\ h2.value[n] = h1.value[n]
  BY <1>9, ProperFacts DEF SameExceptLists
<1>12. Tame(h0, h2, Deep(c), {c})
  <2>1. Tame(h0, h1, Deep(c), {c})
    BY <1>5, TameMonotone
  <2> QED
    BY <1>1, <1>6, <1>9, <1>11, <2>1, TameTransitive
<1>13. /\ h2.next[c] = k + 1 /\ k + 1 <= Len(h2.prods[c])
       /\ h2.prods[c][k + 1] = n /\ h2.seen[c][k + 1] = h1.version[n]
       /\ h2.got[c][k + 1] = h2.value[n]
  BY <1>7, <1>9, <1>11 DEF Recorded
<1>14. ASSUME NEW i \in 1..k
       PROVE  /\ h2.prods[c][i] = h0.prods[c][i] /\ h2.seen[c][i] = h0.seen[c][i]
              /\ h2.got[c][i] = h0.got[c][i]
  <2>1. /\ i \in 1..(IF k + 1 <= Len(h1.prods[c]) THEN Len(h1.prods[c]) ELSE k + 1) \ {k + 1}
        /\ i <= Len(h1.prods[c])
    BY <1>7
  <2>2. /\ h2.prods[c][i] = h1.prods[c][i] /\ h2.seen[c][i] = h1.seen[c][i]
        /\ h2.got[c][i] = h1.got[c][i]
    BY <1>9, <2>1 DEF Recorded
  <2> QED
    BY <1>6, <2>2 DEF SameLists
<1>15. Len(h0.prods[c]) \in Nat
  BY <1>7
<1>16. ReadsNext(update, run, c, k, n, h1, h2)
  BY <1>1, <1>2, <1>3, <1>5, <1>6, <1>9, <1>10, <1>11, <1>12, <1>13, <1>14, <1>15, <1>4, <1>a
     DEF ReadsNext, step, h0
<1> QED
  BY <1>16

\* The lists of c say what its body has read so far.
RunTraced(run, c) ==
    LET h == run.graph
    IN  /\ run.result = None => \A i \in 1..h.next[c] :
                                   /\ h.got[c][i] = run.values[i]
                                   /\ Body(c, Prefix(h.got[c], i - 1)) = Reads(h.prods[c][i])
        /\ run.result # None => Ran(c, h.prods[c], h.got[c], h.next[c], run.result)

\* One step of the body keeps that.
LEMMA ContinueTraced ==
    ASSUME NEW update, NEW c \in Computeds, Updates(update, c), NEW h, Proper(h),
           NEW run, NEW k \in Nat, RunOK(h, run, c, k), RunTraced(run, c)
    PROVE  RunTraced(Continue(update, run, c), c)
<1> DEFINE n == Body(c, run.values).read
           h0 == run.graph
<1>1. CASE run.result # None
  BY <1>1 DEF Continue
<1>2. run \in Computations
  BY DEF RunOK
<1>3. ASSUME run.result = None
      PROVE  /\ k <= Longest /\ run.values \in [1..k -> Values] /\ h0.next[c] = k
             /\ \A i \in 1..k : /\ h0.got[c][i] = run.values[i]
                                /\ Body(c, Prefix(h0.got[c], i - 1)) = Reads(h0.prods[c][i])
  BY <1>3 DEF RunOK, RunTraced
<1>4. CASE run.result = None /\ n = None
  <2> DEFINE result == Body(c, run.values).result
             next == Continue(update, run, c)
  <2>1. next = [run EXCEPT !.result = result]
    BY <1>4 DEF Continue
  <2>2. result \in Results /\ Body(c, run.values) = Returns(result)
    BY <1>3, <1>4, BodySteps
  <2> HIDE DEF next, result
  <2>3. result # None
    BY <2>2, NodesAssumption
  <2>4. next.graph = h0 /\ next.result = result
    BY <1>2, <2>1 DEF Computations
  <2>5. Prefix(h0.got[c], k) = run.values
    BY <1>3, <1>4 DEF Prefix
  <2>6. Ran(c, h0.prods[c], h0.got[c], k, result)
    <3>1. k \in 0..Longest
      BY <1>3, <1>4, BodyAssumption
    <3>4. \A i \in 1..k : h0.got[c][i] \in Values
      BY <1>3, <1>4
    <3>2. \A i \in 1..k : Body(c, Prefix(h0.got[c], i - 1)) = Reads(h0.prods[c][i])
      BY <1>3, <1>4
    <3>3. Body(c, Prefix(h0.got[c], k)) = Returns(result)
      BY <2>2, <2>5
    <3> HIDE DEF h0
    <3> QED
      BY <3>1, <3>2, <3>3, <3>4 DEF Ran
  <2>7. RunTraced(next, c)
    BY <1>3, <1>4, <2>3, <2>4, <2>6 DEF RunTraced
  <2> QED
    BY <2>7 DEF next
<1>5. CASE run.result = None /\ n # None
  <2>0. run.result = None /\ Body(c, run.values).read # None
    BY <1>5
  <2> HIDE DEF n
  <2>1. PICK m, h1, h2 : ReadsNext(update, run, c, k, m, h1, h2)
    BY <2>0, ReadStep
  <2> DEFINE next == Continue(update, run, c)
  <2>a. next = IF h2.value[m] = Errored
                 THEN [run EXCEPT !.graph = h2, !.result = Errored]
                 ELSE [run EXCEPT !.graph = h2, !.values = Append(@, h2.value[m])]
    BY <2>1 DEF ReadsNext
  <2> HIDE DEF next
  <2>2. /\ k < Longest /\ Body(c, run.values) = Reads(m) /\ h2.value[m] \in Results
        /\ h2 \in Graphs /\ h2.next[c] = k + 1 /\ h2.prods[c][k + 1] = m
        /\ h2.got[c][k + 1] = h2.value[m]
        /\ \A i \in 1..k : h2.prods[c][i] = h0.prods[c][i] /\ h2.got[c][i] = h0.got[c][i]
    <3>1. /\ k < Longest /\ Body(c, run.values) = Reads(m) /\ h2.value[m] \in Results
          /\ h2 \in Graphs /\ h2.next[c] = k + 1 /\ h2.prods[c][k + 1] = m
          /\ h2.got[c][k + 1] = h2.value[m]
      BY <2>1 DEF ReadsNext
    <3>2. \A i \in 1..k : /\ h2.prods[c][i] = run.graph.prods[c][i]
                          /\ h2.got[c][i] = run.graph.got[c][i]
      BY <2>1 DEF ReadsNext
    <3> QED
      BY <3>1, <3>2
  <2>3. \A i \in 0..k : Prefix(h2.got[c], i) = Prefix(h0.got[c], i)
    <3>1. \A i \in 1..k : h2.got[c][i] = h0.got[c][i]
      BY <2>2
    <3> HIDE DEF h0
    <3> QED
      BY <3>1, PrefixSame
  <2>4. Prefix(h2.got[c], k) = run.values
    <3>1. Prefix(h0.got[c], k) = run.values
      BY <1>3, <1>5 DEF Prefix
    <3>2. k \in 0..k
      OBVIOUS
    <3> QED
      BY <2>3, <3>1, <3>2
  <2>5. \A i \in 1..(k + 1) : Body(c, Prefix(h2.got[c], i - 1)) = Reads(h2.prods[c][i])
    <3> SUFFICES ASSUME NEW i \in 1..(k + 1)
                 PROVE  Body(c, Prefix(h2.got[c], i - 1)) = Reads(h2.prods[c][i])
      OBVIOUS
    <3>1. CASE i = k + 1
      <4>1. i - 1 = k
        BY <3>1
      <4>2. Prefix(h2.got[c], i - 1) = run.values
        BY <4>1, <2>4
      <4>3. Reads(h2.prods[c][i]) = Reads(m)
        BY <3>1, <2>2
      <4> QED
        BY <4>2, <4>3, <2>2
    <3>2. CASE i # k + 1
      <4>1. i \in 1..k /\ i - 1 \in 0..k
        BY <3>2
      <4>2. Prefix(h2.got[c], i - 1) = Prefix(h0.got[c], i - 1)
        BY <2>3, <4>1
      <4> QED
        BY <1>3, <1>5, <2>2, <4>1, <4>2
    <3> QED
      BY <3>1, <3>2
  <2>6. \A i \in 1..k : h2.got[c][i] = run.values[i] /\ h2.got[c][i] \in Values
    BY <1>3, <1>5, <2>2
  <2>7. CASE h2.value[m] = Errored
    <3>1. next.graph = h2 /\ next.result = Errored /\ Errored # None
      BY <1>2, <2>a, <2>7, NodesAssumption DEF Computations, Results
    <3>2. Ran(c, h2.prods[c], h2.got[c], k + 1, Errored)
      <4>1. k \in 0..Longest /\ h2.got[c][k + 1] = Errored
        BY <2>2, <2>7, BodyAssumption
      <4> QED
        BY <4>1, <2>5, <2>6 DEF Ran
    <3>3. RunTraced(next, c)
      BY <2>2, <3>1, <3>2 DEF RunTraced
    <3> QED
      BY <3>3 DEF next
  <2>8. CASE h2.value[m] # Errored
    <3> DEFINE v == h2.value[m]
    <3>1. next = [run EXCEPT !.graph = h2, !.values = Append(@, v)]
      BY <2>a, <2>8
    <3> HIDE DEF v
    <3>2. next.graph = h2 /\ next.result = None /\ next.values = Append(run.values, v)
      BY <1>2, <1>5, <3>1 DEF Computations
    <3>3. /\ \A i \in 1..k : Append(run.values, v)[i] = run.values[i]
          /\ Append(run.values, v)[k + 1] = v
      <4>1. run.values \in Seq(Values) /\ Len(run.values) = k
        BY <1>3, <1>5
      <4>2. v \in Values
        BY <2>2, <2>8 DEF v, Results
      <4>3. Longer(Append(run.values, v), run.values, v)
        BY <4>1, <4>2, AppendFacts
      <4> QED
        BY <4>1, <4>3 DEF Longer
    <3>4. \A i \in 1..(k + 1) : h2.got[c][i] = Append(run.values, v)[i]
      <4> SUFFICES ASSUME NEW i \in 1..(k + 1) PROVE h2.got[c][i] = Append(run.values, v)[i]
        OBVIOUS
      <4>1. CASE i = k + 1
        BY <4>1, <2>2, <3>3 DEF v
      <4>2. CASE i # k + 1
        <5>1. i \in 1..k
          BY <4>2
        <5> QED
          BY <5>1, <2>6, <3>3
      <4> QED
        BY <4>1, <4>2
    <3>5. RunTraced(next, c)
      BY <2>2, <2>5, <3>2, <3>4 DEF RunTraced
    <3> QED
      BY <3>5 DEF next
  <2> QED
    BY <2>7, <2>8
<1> QED
  BY <1>1, <1>4, <1>5

-----------------------------------------------------------------------------
(* What can be trusted.                                                    *)

\* The i-th entry of c is a signal or a member of K, with the version it has now.
EntryFresh(h, c, i, K) ==
    LET n == h.prods[c][i]
    IN  n \in Signals \cup K /\ h.seen[c][i] = h.version[n]

FreshUpto(h, c, k, K) == \A i \in 1..k : EntryFresh(h, c, i, K)

\* The computeds of K are clean and fresh, and nobody else is returned without polling.
Trusts(h, K) ==
    /\ K \subseteq Computeds
    /\ \A c \in K : ~h.dirty[c] /\ FreshUpto(h, c, Len(h.prods[c]), K)
    /\ \A c \in Computeds : KnownClean(h, c) => c \in K
    /\ \A c \in Computeds : h.clean[c] <= h.epoch

\* No producer that K relies on has a new version.
Keeps(h, h2, K) == \A m \in Signals \cup K : h2.version[m] = h.version[m]

\* From h to h2 more computeds are trusted, all of them in D.
Advance(h, K, h2, K2, D) ==
    /\ Trusts(h2, K2) /\ Traced(h2, D)
    /\ K \subseteq K2 /\ K2 \subseteq K \cup D /\ Keeps(h, h2, K)

\* Nothing is an advance, ...
LEMMA AdvanceReflexive ==
    ASSUME NEW h, NEW K, NEW D, Trusts(h, K), Traced(h, D)
    PROVE  Advance(h, K, h, K, D)
  BY DEF Advance, Keeps

\* ... and so are two advances.
LEMMA AdvanceTransitive ==
    ASSUME NEW h, NEW K, NEW h2, NEW K2, NEW h3, NEW K3, NEW D,
           Advance(h, K, h2, K2, D), Advance(h2, K2, h3, K3, D)
    PROVE  Advance(h, K, h3, K3, D)
<1>1. Keeps(h, h3, K)
  <2>1. \A m \in Signals \cup K : m \in Signals \cup K2
    BY DEF Advance
  <2> QED
    BY <2>1 DEF Advance, Keeps
<1> QED
  BY <1>1 DEF Advance

\* Entries stay fresh while their producers keep their versions.
LEMMA FreshStays ==
    ASSUME NEW h, NEW h2, NEW c, NEW k, NEW K, NEW K2, FreshUpto(h, c, k, K),
           \A i \in 1..k : h2.prods[c][i] = h.prods[c][i] /\ h2.seen[c][i] = h.seen[c][i],
           Keeps(h, h2, K), K \subseteq K2
    PROVE  FreshUpto(h2, c, k, K2)
<1> SUFFICES ASSUME NEW i \in 1..k PROVE EntryFresh(h2, c, i, K2)
  BY DEF FreshUpto
<1>1. h.prods[c][i] \in Signals \cup K /\ h.seen[c][i] = h.version[h.prods[c][i]]
  BY DEF FreshUpto, EntryFresh
<1>2. h2.version[h.prods[c][i]] = h.version[h.prods[c][i]]
  BY <1>1 DEF Keeps
<1> QED
  BY <1>1, <1>2 DEF EntryFresh

\* What does not concern the members of K leaves them trusted, if nobody else
\* becomes live.
LEMMA TrustsStay ==
    ASSUME NEW h, NEW h2, NEW K, Trusts(h, K), Keeps(h, h2, K),
           h2.epoch = h.epoch, h2.clean = h.clean,
           \A x \in Computeds : h2.dirty[x] = h.dirty[x],
           \A x \in K : h2.prods[x] = h.prods[x] /\ h2.seen[x] = h.seen[x],
           \A x \in Computeds \ K : IsLive(h2, x) => IsLive(h, x)
    PROVE  Trusts(h2, K)
<1>1. K \subseteq Computeds
  BY DEF Trusts
<1>2. ASSUME NEW x \in K PROVE ~h2.dirty[x] /\ FreshUpto(h2, x, Len(h2.prods[x]), K)
  <2>1. ~h.dirty[x] /\ FreshUpto(h, x, Len(h.prods[x]), K)
    BY DEF Trusts
  <2>2. FreshUpto(h2, x, Len(h.prods[x]), K)
    BY <2>1, FreshStays
  <2> QED
    BY <1>1, <2>1, <2>2
<1>3. ASSUME NEW x \in Computeds, KnownClean(h2, x) PROVE x \in K
  <2>1. KnownClean(h, x) \/ x \in K
    BY <1>3 DEF KnownClean
  <2> QED
    BY <2>1 DEF Trusts
<1>4. \A x \in Computeds : h2.clean[x] <= h2.epoch
  BY DEF Trusts
<1> QED
  BY <1>1, <1>2, <1>3, <1>4 DEF Trusts

\* The trusted computeds and the signals hold everything they are computed from.
LEMMA TrustedDownward ==
    ASSUME NEW h, NEW K, Trusts(h, K)
    PROVE  Signals \cup K \in SUBSET Producers /\ Downward(h, Signals \cup K)
<1>1. Signals \cup K \in SUBSET Producers
  BY DEF Trusts, Producers
<1>2. ASSUME NEW c \in (Signals \cup K) \cap Computeds, NEW j \in 1..Len(h.prods[c])
      PROVE  h.prods[c][j] \in Signals \cup K
  <2>1. c \in K
    BY NodeFacts
  <2>2. EntryFresh(h, c, j, K)
    BY <2>1 DEF Trusts, FreshUpto
  <2> QED
    BY <2>2 DEF EntryFresh
<1> QED
  BY <1>1, <1>2 DEF Downward

\* A consumer that is not trusted gets other lists, and nobody becomes live that was not.
LEMMA OtherListsTrusted ==
    ASSUME NEW h \in Graphs, NEW h2 \in Graphs, NEW c \in Consumers, NEW K, NEW S \in SUBSET Computeds,
           SameExceptLists(h, h2, c), c \notin K, c \notin S, Trusts(h, K), Traced(h, S),
           \A m \in Producers \ (Signals \cup K) : Len(h2.live[m]) <= Len(h.live[m])
    PROVE  Trusts(h2, K) /\ Keeps(h, h2, K) /\ Traced(h2, S)
<1>1. Keeps(h, h2, K)
  BY DEF Keeps, SameExceptLists
<1>2. K \subseteq Computeds
  BY DEF Trusts
<1>3. \A x \in K : h2.prods[x] = h.prods[x] /\ h2.seen[x] = h.seen[x]
  BY <1>2, NodeFacts DEF SameExceptLists
<1>4. ASSUME NEW x \in Computeds \ K, IsLive(h2, x) PROVE IsLive(h, x)
  <2>1. x \in Producers \ (Signals \cup K) /\ x \notin Effects
    BY NodeFacts
  <2>2. Len(h2.live[x]) \in Nat /\ Len(h.live[x]) \in Nat
    BY <2>1, GraphTypes, LenProperties
  <2>3. Len(h2.live[x]) > 0 /\ Len(h2.live[x]) <= Len(h.live[x])
    BY <1>4, <2>1 DEF IsLive
  <2> QED
    BY <2>2, <2>3 DEF IsLive
<1>5. Trusts(h2, K)
  BY <1>1, <1>3, <1>4, TrustsStay DEF SameExceptLists
<1>6. Traced(h2, S)
  <2> SUFFICES ASSUME NEW x \in S PROVE HasTrace(h2, x)
    BY DEF Traced
  <2>1. SameLists(h, h2, x) /\ h2.value[x] = h.value[x]
    BY NodeFacts DEF SameExceptLists, SameLists
  <2> QED
    BY <2>1, TraceStays DEF Traced
<1> QED
  BY <1>1, <1>5, <1>6

\* An update makes its producer trusted, and keeps the traces of what it may recompute.
Improved(h, h2, n) ==
    \A K : Traced(h, Upto(n)) /\ Trusts(h, K) =>
        \E K2 : Advance(h, K, h2, K2, Upto(n)) /\ n \in Signals \cup K2

\* So does "update" for every input of c.
Improves(update, c) == \A n \in Inputs(c) : \A h \in Graphs :
                          Proper(h) => Improved(h, update[n][h], n)

\* Seen from c: everything that is deeper keeps its trace.
LEMMA InputImproved ==
    ASSUME NEW update, NEW c \in Consumers, Updates(update, c), Improves(update, c),
           NEW n \in Inputs(c), NEW h, Proper(h), Traced(h, Deep(c)), NEW K, Trusts(h, K)
    PROVE  \E K2 : Advance(h, K, update[n][h], K2, Deep(c)) /\ n \in Signals \cup K2
<1> DEFINE h2 == update[n][h]
<1>1. h \in Graphs /\ Upto(n) \subseteq Deep(c) /\ Deep(c) \subseteq Computeds
  BY ProperFacts, InputFacts
<1>2. Updated(h, h2, n) /\ Improved(h, h2, n)
  BY <1>1 DEF Updates, Improves
<1> HIDE DEF h2
<1>3. Traced(h, Upto(n))
  BY <1>1 DEF Traced
<1>4. PICK K2 : Advance(h, K, h2, K2, Upto(n)) /\ n \in Signals \cup K2
  BY <1>2, <1>3 DEF Improved
<1>5. Traced(h2, Deep(c))
  <2>1. Tame(h, h2, Upto(n), {})
    BY <1>2 DEF Updated
  <2>2. Traced(h2, Deep(c) \cap Upto(n))
    BY <1>4 DEF Advance, Traced
  <2>3. Deep(c) \in SUBSET Computeds /\ Deep(c) \cap {} = {}
    BY <1>1
  <2> QED
    BY <2>1, <2>2, <2>3, TracedStays
<1>6. Advance(h, K, h2, K2, Deep(c))
  BY <1>1, <1>4, <1>5 DEF Advance
<1> QED
  BY <1>4, <1>6 DEF h2

-----------------------------------------------------------------------------
(* Polling finds out whether the lists of c are fresh.                     *)

\* After k rounds: as long as nothing changed these entries are fresh, and nothing
\* changes for a trusted computed.
PollGood(h, K, poll, c, k, K2) ==
    /\ Advance(h, K, poll.graph, K2, Deep(c))
    /\ poll.answer = "same" => FreshUpto(poll.graph, c, k, K2)
    /\ c \in K => poll.answer = "same"

\* One round keeps that, ...
LEMMA PollProducerGood ==
    ASSUME NEW update, NEW c \in Consumers, Updates(update, c), Improves(update, c),
           NEW h, Proper(h), NEW K, NEW poll, PollOK(h, poll, c), NEW k \in Nat,
           k + 1 \in 1..Len(h.prods[c]), NEW K2, PollGood(h, K, poll, c, k, K2)
    PROVE  \E K3 : PollGood(h, K, PollProducer(update, poll, c, k + 1), c, k + 1, K3)
<1> DEFINE i == k + 1
           h1 == poll.graph
           n == h1.prods[c][i]
           updated == update[n][h1]
           next == PollProducer(update, poll, c, i)
<1>1. /\ poll \in Polls /\ Proper(h1) /\ h1 \in Graphs /\ Shaped(h1)
      /\ h1.prods[c] = h.prods[c] /\ Advance(h, K, h1, K2, Deep(c))
      /\ Trusts(h1, K2) /\ Traced(h1, Deep(c)) /\ K \subseteq K2
  BY ProperFacts, OwnListsStay DEF PollOK, PollGood, SameLists, Advance
<1>2. n \in Inputs(c) \cup {None} /\ None \notin Signals \cup K2
  <2>1. n \in Inputs(c) \cup {None}
    BY <1>1, EntryFacts
  <2>2. None \notin Signals \cup K2
    BY <1>1, NodeFacts DEF Trusts
  <2> QED
    BY <2>1, <2>2
<1>3. c \in K => n \in Signals \cup K2 /\ h1.seen[c][i] = h1.version[n]
  <2>1. c \in K => FreshUpto(h1, c, Len(h1.prods[c]), K2)
    BY <1>1 DEF Trusts
  <2>2. i \in 1..Len(h1.prods[c])
    BY <1>1
  <2> HIDE DEF i
  <2>3. c \in K => EntryFresh(h1, c, i, K2)
    BY <2>1, <2>2 DEF FreshUpto
  <2> QED
    BY <2>3 DEF EntryFresh
<1>4. CASE poll.answer # "same"
  <2>1. next = poll
    BY <1>4 DEF PollProducer
  <2>2. PollGood(h, K, next, c, i, K2)
    BY <1>4, <2>1 DEF PollGood
  <2> QED
    BY <2>2
<1>5. CASE poll.answer = "same" /\ n = None
  <2>1. next = [poll EXCEPT !.answer = "throws"]
    BY <1>5 DEF PollProducer
  <2> HIDE DEF next
  <2>2. next.graph = h1 /\ next.answer = "throws" /\ c \notin K
    BY <1>1, <1>2, <1>3, <1>5, <2>1 DEF Polls
  <2>3. PollGood(h, K, next, c, i, K2)
    BY <1>1, <2>2 DEF PollGood
  <2> QED
    BY <2>3 DEF next
<1>6. CASE poll.answer = "same" /\ n # None /\ h1.seen[c][i] # h1.version[n]
  <2>1. next = [poll EXCEPT !.answer = "changed"]
    BY <1>6 DEF PollProducer
  <2> HIDE DEF next
  <2>2. next.graph = h1 /\ next.answer = "changed" /\ c \notin K
    BY <1>1, <1>3, <1>6, <2>1 DEF Polls
  <2>3. PollGood(h, K, next, c, i, K2)
    BY <1>1, <2>2 DEF PollGood
  <2> QED
    BY <2>3 DEF next
<1>7. CASE poll.answer = "same" /\ n # None /\ ~(h1.seen[c][i] # h1.version[n])
  <2>1. next = [graph |-> updated,
                answer |-> IF h1.seen[c][i] # updated.version[n] THEN "changed" ELSE "same"]
    BY <1>7 DEF PollProducer
  <2>2. n \in Inputs(c) /\ h1.seen[c][i] = h1.version[n]
    BY <1>2, <1>7
  <2> HIDE DEF next, n
  <2>3. PICK K3 : Advance(h1, K2, updated, K3, Deep(c)) /\ n \in Signals \cup K3
    BY <1>1, <2>2, InputImproved
  <2>4. Tame(h1, updated, Deep(c), {})
    BY <1>1, <2>2, InputUpdated
  <2> HIDE DEF updated
  <2>5. SameLists(h1, updated, c)
    BY <2>4, OwnListsStay
  <2>6. Advance(h, K, updated, K3, Deep(c))
    BY <1>1, <2>3, AdvanceTransitive
  <2>7. /\ next.graph = updated
        /\ next.answer = "same" <=> h1.seen[c][i] = updated.version[n]
    BY <2>1
  <2>8. c \in K => next.answer = "same"
    <3>1. c \in K => updated.version[n] = h1.version[n]
      BY <1>3, <2>3 DEF Advance, Keeps, n
    <3> QED
      BY <2>2, <2>7, <3>1
  <2>9. next.answer = "same" => FreshUpto(updated, c, i, K3)
    <3> SUFFICES ASSUME next.answer = "same", NEW j \in 1..i PROVE EntryFresh(updated, c, j, K3)
      BY DEF FreshUpto
    <3>1. CASE j = i
      <4>1. updated.prods[c][i] = n /\ updated.seen[c][i] = updated.version[n]
        BY <2>5, <2>7 DEF SameLists, n
      <4> QED
        BY <2>3, <3>1, <4>1 DEF EntryFresh
    <3>2. CASE j # i
      <4>1. FreshUpto(h1, c, k, K2)
        BY <1>7 DEF PollGood
      <4>2. FreshUpto(updated, c, k, K3)
        <5>1. \A x \in 1..k : /\ updated.prods[c][x] = h1.prods[c][x]
                              /\ updated.seen[c][x] = h1.seen[c][x]
          BY <2>5 DEF SameLists
        <5> HIDE DEF h1
        <5> QED
          BY <2>3, <4>1, <5>1, FreshStays DEF Advance
      <4>3. j \in 1..k
        BY <3>2
      <4> QED
        BY <4>2, <4>3 DEF FreshUpto
    <3> QED
      BY <3>1, <3>2
  <2>10. PollGood(h, K, next, c, i, K3)
    BY <2>6, <2>7, <2>8, <2>9 DEF PollGood
  <2> QED
    BY <2>10 DEF next
<1> QED
  BY <1>4, <1>5, <1>6, <1>7

\* ... and so a poll that finds nothing changed makes the lists of c fresh.
LEMMA PollImproves ==
    ASSUME NEW update, NEW c \in Consumers, Updates(update, c), Improves(update, c),
           NEW h, Proper(h), Traced(h, Deep(c)), NEW K, Trusts(h, K)
    PROVE  \E K2 : PollGood(h, K, Poll(update, h, c), c, Len(h.prods[c]), K2)
<1> DEFINE N == Len(h.prods[c])
           At(k) == PollAt(update, h, c, k)
           Done == {k \in Nat : k <= N => \E K2 : PollGood(h, K, At(k), c, k, K2)}
<1>1. /\ At(0) = [graph |-> h, answer |-> "same"]
      /\ \A k \in 0..N : PollOK(h, At(k), c)
      /\ \A k \in Nat : k + 1 <= N => At(k + 1) = PollProducer(update, At(k), c, k + 1)
      /\ Poll(update, h, c) = At(N) /\ N \in Nat
  BY PollRounds
<1> HIDE DEF At
<1>2. 0 \in Done
  <2>1. At(0).graph = h /\ At(0).answer = "same"
    BY <1>1
  <2>2. FreshUpto(h, c, 0, K)
    BY DEF FreshUpto
  <2>3. PollGood(h, K, At(0), c, 0, K)
    BY <2>1, <2>2, AdvanceReflexive DEF PollGood
  <2> QED
    BY <2>3
<1>3. ASSUME NEW k \in Nat, k \in Done PROVE k + 1 \in Done
  <2>1. SUFFICES ASSUME k + 1 <= N PROVE \E K2 : PollGood(h, K, At(k + 1), c, k + 1, K2)
    OBVIOUS
  <2>2. k \in 0..N /\ k + 1 \in 1..N
    BY <1>1, <2>1
  <2>3. PICK K2 : PollGood(h, K, At(k), c, k, K2)
    BY <1>3, <2>2
  <2>4. PollOK(h, At(k), c) /\ At(k + 1) = PollProducer(update, At(k), c, k + 1)
    BY <1>1, <2>1, <2>2
  <2>5. \E K3 : PollGood(h, K, PollProducer(update, At(k), c, k + 1), c, k + 1, K3)
    BY <2>2, <2>3, <2>4, PollProducerGood
  <2> QED
    BY <2>4, <2>5
<1>4. Nat \subseteq Done
  <2> HIDE DEF Done
  <2> QED
    BY <1>2, <1>3, Induction
<1> QED
  <2>1. N <= N /\ N \in Done
    BY <1>1, <1>4
  <2>2. PICK K2 : PollGood(h, K, At(N), c, N, K2)
    BY <2>1
  <2> QED
    BY <1>1, <2>2

-----------------------------------------------------------------------------
(* A recomputation makes the lists of c fresh.                             *)

\* What c has read so far is fresh and traced.
RunGood(h, K, run, c, K2) ==
    /\ Advance(h, K, run.graph, K2, Deep(c)) /\ RunTraced(run, c)
    /\ FreshUpto(run.graph, c, run.graph.next[c], K2)

\* One step of the body keeps that, ...
LEMMA ContinueGood ==
    ASSUME NEW update, NEW c \in Computeds, Updates(update, c), Improves(update, c),
           NEW h, Proper(h), NEW K, c \notin K, NEW run, NEW k \in Nat, RunOK(h, run, c, k),
           NEW K2, RunGood(h, K, run, c, K2)
    PROVE  \E K3 : RunGood(h, K, Continue(update, run, c), c, K3)
<1> DEFINE next == Continue(update, run, c)
           h0 == run.graph
<1>1. /\ run \in Computations /\ Proper(h0) /\ Advance(h, K, h0, K2, Deep(c))
      /\ Trusts(h0, K2) /\ Traced(h0, Deep(c)) /\ RunTraced(next, c) /\ c \in Consumers
      /\ FreshUpto(h0, c, h0.next[c], K2) /\ K2 \subseteq K \cup Deep(c) /\ c \notin Deep(c)
  BY ContinueTraced, NodeFacts, InputFacts DEF RunOK, RunGood, Advance
<1>2. CASE next.graph = h0
  <2>1. RunGood(h, K, next, c, K2)
    BY <1>1, <1>2 DEF RunGood
  <2> QED
    BY <2>1
<1>3. CASE run.result = None /\ Body(c, run.values).read # None
  <2>1. PICK n, h1, h2 : ReadsNext(update, run, c, k, n, h1, h2)
    BY <1>3, ReadStep
  <2>2. /\ n \in Inputs(c) /\ n \in Producers /\ h1 = update[n][h0] /\ h1 \in Graphs
        /\ h2 \in Graphs /\ SameLists(h0, h1, c) /\ SameExceptLists(h1, h2, c)
        /\ h0.next[c] = k /\ h2.next[c] = k + 1
        /\ h2.prods[c][k + 1] = n /\ h2.seen[c][k + 1] = h1.version[n]
    BY <2>1 DEF ReadsNext
  <2>3. \A i \in 1..k : h2.prods[c][i] = h0.prods[c][i] /\ h2.seen[c][i] = h0.seen[c][i]
    BY <2>1 DEF ReadsNext
  <2>4. \A L \in SUBSET Producers : n \in L /\ Downward(h1, L) =>
           \A m \in Producers \ L : Len(h2.live[m]) <= Len(h1.live[m])
    BY <2>1 DEF ReadsNext
  <2>5. next.graph = h2
    <3>1. next = IF h2.value[n] = Errored
                   THEN [run EXCEPT !.graph = h2, !.result = Errored]
                   ELSE [run EXCEPT !.graph = h2, !.values = Append(@, h2.value[n])]
      BY <2>1 DEF ReadsNext
    <3> HIDE DEF next
    <3> QED
      BY <1>1, <3>1 DEF Computations
  <2> HIDE DEF next, h0
  <2>6. PICK K3 : Advance(h0, K2, h1, K3, Deep(c)) /\ n \in Signals \cup K3
    BY <1>1, <2>2, InputImproved
  <2>7. /\ Trusts(h1, K3) /\ Traced(h1, Deep(c)) /\ K2 \subseteq K3 /\ Keeps(h0, h1, K2)
        /\ c \notin K3 /\ Deep(c) \in SUBSET Computeds
    BY <1>1, <2>6, InputFacts DEF Advance
  <2>8. Trusts(h2, K3) /\ Keeps(h1, h2, K3) /\ Traced(h2, Deep(c))
    <3>1. \A m \in Producers \ (Signals \cup K3) : Len(h2.live[m]) <= Len(h1.live[m])
      BY <2>4, <2>6, <2>7, TrustedDownward
    <3> QED
      BY <1>1, <2>2, <2>7, <3>1, OtherListsTrusted
  <2>9. Advance(h, K, h2, K3, Deep(c))
    <3>1. Advance(h1, K3, h2, K3, Deep(c))
      BY <2>8 DEF Advance
    <3>2. Advance(h, K, h1, K3, Deep(c))
      BY <1>1, <2>6, AdvanceTransitive
    <3> QED
      BY <3>1, <3>2, AdvanceTransitive
  <2>10. FreshUpto(h2, c, k + 1, K3)
    <3> SUFFICES ASSUME NEW j \in 1..(k + 1) PROVE EntryFresh(h2, c, j, K3)
      BY DEF FreshUpto
    <3>1. CASE j = k + 1
      <4>1. h2.version[n] = h1.version[n]
        BY <2>2 DEF SameExceptLists
      <4> QED
        BY <2>2, <2>6, <3>1, <4>1 DEF EntryFresh
    <3>2. CASE j # k + 1
      <4>1. j \in 1..k
        BY <3>2
      <4>2. Keeps(h0, h2, K2)
        BY <2>7, <2>8 DEF Keeps
      <4>3. FreshUpto(h2, c, k, K3)
        BY <1>1, <2>2, <2>3, <2>7, <4>2, FreshStays
      <4> QED
        BY <4>1, <4>3 DEF FreshUpto
    <3> QED
      BY <3>1, <3>2
  <2>11. RunGood(h, K, next, c, K3)
    BY <1>1, <2>2, <2>5, <2>9, <2>10 DEF RunGood
  <2> QED
    BY <2>11 DEF next
<1>4. next.graph = h0 \/ (run.result = None /\ Body(c, run.values).read # None)
  <2>1. CASE run.result # None
    BY <2>1 DEF Continue
  <2>2. CASE run.result = None /\ Body(c, run.values).read = None
    <3>1. next = [run EXCEPT !.result = Body(c, run.values).result]
      BY <2>2 DEF Continue
    <3> HIDE DEF next
    <3> QED
      BY <1>1, <3>1 DEF Computations
  <2> QED
    BY <2>1, <2>2
<1> QED
  BY <1>2, <1>3, <1>4

\* ... so that the lists of c are fresh when it has a new value.
LEMMA ComputeGood ==
    ASSUME NEW update, NEW c \in Computeds, Updates(update, c), Improves(update, c),
           NEW h, Proper(h), Traced(h, Deep(c)), NEW K, Trusts(h, K), c \notin K
    PROVE  /\ RunOK(h, Compute(update, h, c), c, Longest + 1)
           /\ \E K2 : RunGood(h, K, Compute(update, h, c), c, K2)
<1> DEFINE At(k) == ComputeAt(update, h, c, k)
           Done == {k \in Nat : k <= Longest + 1 => \E K2 : RunGood(h, K, At(k), c, K2)}
           start == [h EXCEPT !.next[c] = 0]
<1>1. /\ At(0) = [graph |-> start, values |-> <<>>, result |-> None]
      /\ \A k \in 0..(Longest + 1) : RunOK(h, At(k), c, k)
      /\ \A k \in 0..Longest : At(k + 1) = Continue(update, At(k), c)
      /\ Compute(update, h, c) = At(Longest + 1) /\ Longest \in Nat
  BY ComputeRounds, BodyAssumption
<1>2. /\ c \in Consumers /\ h \in Graphs /\ Deep(c) \in SUBSET Computeds /\ c \notin Deep(c)
  BY ProperFacts, NodeFacts, InputFacts
<1>3. Proper(start) /\ start.next[c] = 0 /\ SameExceptLists(h, start, c) /\ start.live = h.live
  BY <1>2, ResetEffect
<1> HIDE DEF At, start
<1>4. 0 \in Done
  <2>1. start \in Graphs
    BY <1>3, ProperFacts
  <2>2. \A m \in Producers \ (Signals \cup K) : Len(start.live[m]) <= Len(h.live[m])
    BY <1>2, <1>3, GraphTypes, LenProperties
  <2>3. Trusts(start, K) /\ Keeps(h, start, K) /\ Traced(start, Deep(c))
    BY <1>2, <1>3, <2>1, <2>2, OtherListsTrusted
  <2>4. Advance(h, K, start, K, Deep(c))
    BY <2>3 DEF Advance
  <2>5. At(0).graph = start /\ At(0).result = None
    BY <1>1
  <2>6. RunTraced(At(0), c)
    BY <1>3, <2>5 DEF RunTraced
  <2>7. FreshUpto(start, c, 0, K)
    BY DEF FreshUpto
  <2>8. RunGood(h, K, At(0), c, K)
    BY <1>3, <2>4, <2>5, <2>6, <2>7 DEF RunGood
  <2> QED
    BY <2>8
<1>5. ASSUME NEW k \in Nat, k \in Done PROVE k + 1 \in Done
  <2>1. SUFFICES ASSUME k + 1 <= Longest + 1 PROVE \E K2 : RunGood(h, K, At(k + 1), c, K2)
    OBVIOUS
  <2>2. k \in 0..(Longest + 1) /\ k \in 0..Longest
    BY <1>1, <2>1
  <2>3. PICK K2 : RunGood(h, K, At(k), c, K2)
    BY <1>5, <2>2
  <2>4. RunOK(h, At(k), c, k) /\ At(k + 1) = Continue(update, At(k), c)
    BY <1>1, <2>2
  <2>5. \E K3 : RunGood(h, K, Continue(update, At(k), c), c, K3)
    BY <2>3, <2>4, ContinueGood
  <2> QED
    BY <2>4, <2>5
<1>6. Nat \subseteq Done
  <2> HIDE DEF Done
  <2> QED
    BY <1>4, <1>5, Induction
<1> QED
  <2>1. Longest + 1 \in Done /\ Longest + 1 <= Longest + 1 /\ Longest + 1 \in 0..(Longest + 1)
    BY <1>1, <1>6
  <2>2. PICK K2 : RunGood(h, K, At(Longest + 1), c, K2)
    BY <2>1
  <2>3. RunOK(h, At(Longest + 1), c, Longest + 1)
    BY <1>1, <2>1
  <2> QED
    BY <1>1, <2>2, <2>3

\* The lists of c are all fresh.
Settles(h, K, h2, c, K2) ==
    Advance(h, K, h2, K2, Deep(c)) /\ HasTrace(h2, c) /\ FreshUpto(h2, c, Len(h2.prods[c]), K2)

\* The recomputation of c leaves them so.
LEMMA RecomputeSettles ==
    ASSUME NEW update, NEW c \in Computeds, Updates(update, c), Improves(update, c),
           NEW h, Proper(h), Traced(h, Deep(c)), NEW K, Trusts(h, K), c \notin K
    PROVE  \E K2 : Settles(h, K, Recompute(update, h, c), c, K2)
<1> DEFINE done == Compute(update, h, c)
           h1 == AfterComputation(done.graph, c)
           h2 == StoreResult(h1, c, done.result)
<1>1. Recompute(update, h, c) = h2
  BY DEF Recompute, Finish
<1>2. RunOK(h, done, c, Longest + 1) /\ \E K2 : RunGood(h, K, done, c, K2)
  BY ComputeGood
<1> HIDE DEF done
<1> DEFINE h0 == done.graph
           len == h0.next[c]
<1>3. PICK K2 : RunGood(h, K, done, c, K2)
  BY <1>2
<1>4. /\ c \in Consumers /\ c \in Producers /\ c \notin Deep(c)
      /\ Deep(c) \in SUBSET Computeds
  BY NodeFacts, InputFacts
<1>5. /\ Proper(h0) /\ h0 \in Graphs /\ Sane(h0) /\ Shaped(h0) /\ done.result \in Results
      /\ len <= Len(h0.prods[c])
  <2>1. /\ Proper(h0) /\ done.result \in Results \cup {None} /\ len <= Len(h0.prods[c])
        /\ (done.result = None => Longest + 1 <= Longest)
    BY <1>2 DEF RunOK, Computations
  <2>2. ~(Longest + 1 <= Longest)
    BY BodyAssumption
  <2> QED
    BY <2>1, <2>2, ProperFacts
<1>6. /\ Advance(h, K, h0, K2, Deep(c)) /\ Ran(c, h0.prods[c], h0.got[c], len, done.result)
      /\ FreshUpto(h0, c, len, K2) /\ Trusts(h0, K2) /\ Traced(h0, Deep(c)) /\ c \notin K2
  <2>1. done.result # None
    BY <1>5, NodesAssumption
  <2> QED
    BY <2>1, <1>3, <1>4 DEF RunGood, RunTraced, Advance
<1>7. len \in Nat /\ Kept(h0, c) = len
  <2>1. len \in Nat /\ Len(h0.prods[c]) \in Nat
    BY <1>4, <1>5, GraphTypes, LenProperties
  <2> QED
    BY <1>5, <2>1 DEF Kept
<1>8. \A j \in 1..Len(h0.prods[c]) : h0.prods[c][j] # None
  BY <1>4, <1>5, EntryFacts
<1>9. /\ Proper(h1) /\ SameExceptLists(h0, h1, c) /\ Len(h1.prods[c]) = len
      /\ \A j \in 1..len : /\ h1.prods[c][j] = h0.prods[c][j]
                           /\ h1.seen[c][j] = h0.seen[c][j] /\ h1.got[c][j] = h0.got[c][j]
      /\ \A m \in Producers : Len(h1.live[m]) <= Len(h0.live[m])
  <2>1. Proper(h1)
    BY <1>4, <1>5, <1>8, AfterComputationTame
  <2>2. /\ SameExceptLists(h0, h1, c) /\ Len(h1.prods[c]) = Kept(h0, c)
        /\ \A j \in 1..Kept(h0, c) : /\ h1.prods[c][j] = h0.prods[c][j]
                                     /\ h1.seen[c][j] = h0.seen[c][j]
                                     /\ h1.got[c][j] = h0.got[c][j]
        /\ \A m \in Producers : Len(h1.live[m]) <= Len(h0.live[m])
    BY <1>4, <1>5, <1>8, AfterComputationEffect
  <2> HIDE DEF h1
  <2> QED
    BY <1>7, <2>1, <2>2
<1> HIDE DEF h1
<1>10. h1 \in Graphs
  BY <1>9, ProperFacts
<1>11. Trusts(h1, K2) /\ Keeps(h0, h1, K2) /\ Traced(h1, Deep(c))
  BY <1>4, <1>5, <1>6, <1>9, <1>10, OtherListsTrusted
<1>12. /\ Proper(h2) /\ Tame(h1, h2, {c}, {}) /\ h2.value[c] = done.result
       /\ SameLists(h1, h2, c) /\ h2.live = h1.live /\ h2.dirty = h1.dirty /\ h2.clean = h1.clean
  <2> DEFINE v == done.result
  <2>1. v \in Results /\ Proper(h1)
    BY <1>5, <1>9
  <2> HIDE DEF v
  <2>2. LET x == StoreResult(h1, c, v)
        IN  Proper(x) /\ Tame(h1, x, {c}, {}) /\ x.value[c] = v /\ SameLists(h1, x, c)
            /\ x.live = h1.live /\ x.dirty = h1.dirty /\ x.clean = h1.clean
    BY <2>1, StoreResultEffect
  <2> QED
    BY <2>2 DEF v
<1> HIDE DEF h2, h0, len
\* The result concerns none of those that are trusted.
<1>13. Keeps(h1, h2, K2)
  <2>1. \A m \in Signals \cup K2 : m \in Producers \ {c}
    BY <1>4, <1>6, NodeFacts DEF Trusts
  <2> QED
    BY <1>12, <2>1 DEF Tame, Keeps
<1>14. Trusts(h2, K2)
  <2>1. h2.epoch = h1.epoch
    BY <1>12 DEF Tame
  <2>2. \A x \in K2 : h2.prods[x] = h1.prods[x] /\ h2.seen[x] = h1.seen[x]
    <3>1. \A x \in K2 : x \in Consumers \ ({c} \cup {})
      BY <1>6, NodeFacts DEF Trusts
    <3> QED
      BY <1>12, <3>1 DEF Tame, SameLists
  <2>3. \A x \in Computeds \ K2 : IsLive(h2, x) => IsLive(h1, x)
    BY <1>12 DEF IsLive
  <2> QED
    BY <1>11, <1>12, <1>13, <2>1, <2>2, <2>3, TrustsStay
<1>15. Traced(h2, Deep(c))
  <2>1. Deep(c) \cap {c} = {} /\ Deep(c) \cap {} = {} /\ Traced(h2, {})
    BY <1>4 DEF Traced
  <2>2. Traced(h2, Deep(c) \cap {c})
    BY <2>1
  <2> QED
    BY <1>4, <1>11, <1>12, <2>1, <2>2, TracedStays
<1>16. Advance(h, K, h2, K2, Deep(c))
  <2>1. Advance(h0, K2, h1, K2, Deep(c)) /\ Advance(h1, K2, h2, K2, Deep(c))
    BY <1>11, <1>13, <1>14, <1>15 DEF Advance
  <2>2. Advance(h, K, h1, K2, Deep(c))
    BY <1>6, <2>1, AdvanceTransitive
  <2> QED
    BY <2>1, <2>2, AdvanceTransitive
<1>17. /\ Len(h2.prods[c]) = len
       /\ \A j \in 1..len : /\ h2.prods[c][j] = h0.prods[c][j]
                            /\ h2.seen[c][j] = h0.seen[c][j] /\ h2.got[c][j] = h0.got[c][j]
  BY <1>9, <1>12 DEF SameLists
<1>18. FreshUpto(h2, c, len, K2)
  <2>1. Keeps(h0, h2, K2)
    BY <1>11, <1>13 DEF Keeps
  <2> QED
    BY <1>6, <1>17, <2>1, FreshStays
<1>19. Ran(c, h2.prods[c], h2.got[c], len, done.result)
  BY <1>6, <1>7, <1>17, RanSame
<1>20. Settles(h, K, h2, c, K2)
  BY <1>12, <1>16, <1>17, <1>18, <1>19 DEF Settles, HasTrace
<1> QED
  BY <1>1, <1>20

-----------------------------------------------------------------------------
(* Bringing a computed up to date makes it trusted.                        *)

\* A computed whose lists are fresh can be trusted once it is clean.
LEMMA MarkCleanTrusted ==
    ASSUME NEW h, Proper(h), NEW c \in Computeds, h.value[c] # Unset, NEW D \in SUBSET Computeds,
           c \in D, Traced(h, D), NEW K, Trusts(h, K), FreshUpto(h, c, Len(h.prods[c]), K)
    PROVE  Advance(h, K, MarkClean(h, c), K \cup {c}, D)
<1> DEFINE h2 == MarkClean(h, c)
<1>1. /\ Proper(h2) /\ Tame(h, h2, {c}, {}) /\ SameLists(h, h2, c)
      /\ h2.value = h.value /\ h2.version = h.version /\ h2.live = h.live
      /\ h2.dirty[c] = FALSE /\ h2.clean[c] = h.epoch
  BY MarkCleanEffect
<1>a. h \in Graphs /\ c \in Consumers /\ h.epoch \in Nat
  BY ProperFacts, NodeFacts, GraphTypes
<1> HIDE DEF h2
<1>2. /\ h2.epoch = h.epoch
      /\ \A x \in Computeds \ {c} : h2.clean[x] = h.clean[x] /\ h2.dirty[x] = h.dirty[x]
      /\ \A x \in Computeds : SameLists(h, h2, x)
  <2>1. \A x \in Computeds \ {c} : x \in Consumers \ {c} /\ x \in Consumers \ ({c} \cup {})
    BY NodeFacts
  <2> QED
    BY <1>1, <2>1 DEF Tame
<1>3. Keeps(h, h2, K)
  BY <1>1 DEF Keeps
<1>4. Trusts(h2, K \cup {c})
  <2>1. K \cup {c} \subseteq Computeds
    BY DEF Trusts
  <2>2. ASSUME NEW x \in K \cup {c}
        PROVE  ~h2.dirty[x] /\ FreshUpto(h2, x, Len(h2.prods[x]), K \cup {c})
    <3>1. FreshUpto(h, x, Len(h.prods[x]), K)
      BY DEF Trusts
    <3>2. h2.prods[x] = h.prods[x] /\ h2.seen[x] = h.seen[x]
      BY <1>2, <2>1 DEF SameLists
    <3>3. FreshUpto(h2, x, Len(h.prods[x]), K \cup {c})
      BY <1>3, <3>1, <3>2, FreshStays
    <3>4. ~h2.dirty[x]
      <4>1. CASE x = c
        BY <4>1, <1>1
      <4>2. CASE x # c
        BY <4>2, <1>2, <2>1 DEF Trusts
      <4> QED
        BY <4>1, <4>2
    <3> QED
      BY <3>2, <3>3, <3>4
  <2>3. ASSUME NEW x \in Computeds, KnownClean(h2, x) PROVE x \in K \cup {c}
    <3>1. CASE x # c
      <4>1. KnownClean(h, x)
        BY <1>1, <1>2, <2>3, <3>1 DEF KnownClean, IsLive
      <4> QED
        BY <4>1 DEF Trusts
    <3> QED
      BY <3>1
  <2>4. ASSUME NEW x \in Computeds PROVE h2.clean[x] <= h2.epoch
    <3>1. CASE x = c
      BY <1>a, <1>1, <1>2, <3>1
    <3>2. CASE x # c
      BY <1>2, <3>2 DEF Trusts
    <3> QED
      BY <3>1, <3>2
  <2> QED
    BY <2>1, <2>2, <2>3, <2>4 DEF Trusts
<1>5. Traced(h2, D)
  <2> SUFFICES ASSUME NEW x \in D PROVE HasTrace(h2, x)
    BY DEF Traced
  <2>1. SameLists(h, h2, x) /\ h2.value[x] = h.value[x] /\ HasTrace(h, x)
    BY <1>1, <1>2 DEF Traced
  <2> QED
    BY <2>1, TraceStays
<1>6. Advance(h, K, h2, K \cup {c}, D)
  BY <1>3, <1>4, <1>5 DEF Advance
<1> QED
  BY <1>6 DEF h2

\* After the poll, and the recomputation if something changed, the lists of c are fresh.
LEMMA PolledOrRecomputed ==
    ASSUME NEW update, NEW c \in Computeds, Updates(update, c), Improves(update, c),
           NEW h, Proper(h), Traced(h, Deep(c)), HasTrace(h, c), NEW K, Trusts(h, K)
    PROVE  LET poll == IF h.value[c] = Unset THEN [graph |-> h, answer |-> "changed"]
                       ELSE Poll(update, h, c)
               h1 == RecomputeIfChanged(update, poll, c)
           IN  Proper(h1) /\ h1.value[c] \in Results /\ \E K2 : Settles(h, K, h1, c, K2)
<1> DEFINE poll == IF h.value[c] = Unset THEN [graph |-> h, answer |-> "changed"]
                   ELSE Poll(update, h, c)
           h1 == RecomputeIfChanged(update, poll, c)
<1>1. /\ c \in Consumers /\ c \in Producers /\ h \in Graphs /\ Shaped(h)
      /\ h.value[c] \in Results \cup {Unset} /\ c \notin Deep(c) /\ Valued(h)
  BY ProperFacts, NodeFacts, GraphTypes, InputFacts
<1>2. CASE h.value[c] = Unset
  <2>1. c \notin K
    BY <1>1, <1>2 DEF Trusts, Valued
  <2>2. poll = [graph |-> h, answer |-> "changed"]
    BY <1>2
  <2>3. h1 = Recompute(update, h, c)
    BY <2>2 DEF RecomputeIfChanged
  <2> HIDE DEF h1, poll
  <2>4. Proper(h1) /\ h1.value[c] \in Results
    BY <2>3, RecomputeEffect
  <2>5. \E K2 : Settles(h, K, h1, c, K2)
    BY <2>1, <2>3, RecomputeSettles
  <2> QED
    BY <2>4, <2>5 DEF h1, poll
<1>3. CASE h.value[c] # Unset
  <2>1. PollOK(h, Poll(update, h, c), c)
    <3>1. /\ \A k \in 0..Len(h.prods[c]) : PollOK(h, PollAt(update, h, c, k), c)
          /\ Poll(update, h, c) = PollAt(update, h, c, Len(h.prods[c]))
          /\ Len(h.prods[c]) \in Nat
      BY <1>1, PollRounds
    <3> QED
      BY <3>1
  <2>2. \E K2 : PollGood(h, K, Poll(update, h, c), c, Len(h.prods[c]), K2)
    BY <1>1, PollImproves
  <2>a. poll = Poll(update, h, c)
    BY <1>3
  <2> HIDE DEF poll
  <2>3. PICK K2 : PollGood(h, K, poll, c, Len(h.prods[c]), K2)
    BY <2>2, <2>a
  <2> DEFINE h0 == poll.graph
  <2>4. Proper(h0) /\ Tame(h, h0, Deep(c), {}) /\ poll \in Polls /\ poll.answer # "throws"
    <3>1. \A j \in 1..Len(h.prods[c]) : h.prods[c][j] # None
      BY <1>1, EntryFacts
    <3> QED
      BY <2>1, <2>a, <3>1 DEF PollOK
  <2>5. Advance(h, K, h0, K2, Deep(c)) /\ (poll.answer = "same" => FreshUpto(h0, c, Len(h.prods[c]), K2))
        /\ (c \in K => poll.answer = "same")
    BY <2>3 DEF PollGood
  <2>6. ASSUME poll.answer = "same"
        PROVE  Proper(h1) /\ h1.value[c] \in Results /\ \E K3 : Settles(h, K, h1, c, K3)
    <3>1. h1 = h0
      BY <2>6 DEF RecomputeIfChanged
    <3> HIDE DEF h1, h0
    <3>2. SameLists(h, h0, c) /\ h0.value[c] = h.value[c]
      BY <1>1, <2>4, OwnListsStay DEF Tame
    <3>3. HasTrace(h0, c)
      BY <3>2, TraceStays
    <3>4. Len(h0.prods[c]) = Len(h.prods[c])
      BY <3>2 DEF SameLists
    <3>5. Settles(h, K, h0, c, K2)
      BY <2>5, <2>6, <3>3, <3>4 DEF Settles
    <3>6. h0.value[c] \in Results
      BY <1>1, <1>3, <3>2
    <3> QED
      BY <2>4, <3>1, <3>5, <3>6
  <2>7. ASSUME poll.answer = "changed"
        PROVE  Proper(h1) /\ h1.value[c] \in Results /\ \E K3 : Settles(h, K, h1, c, K3)
    <3>1. h1 = Recompute(update, h0, c)
      BY <2>7 DEF RecomputeIfChanged
    <3> HIDE DEF h1, h0
    <3>2. Trusts(h0, K2) /\ Traced(h0, Deep(c)) /\ c \notin K2
      BY <1>1, <2>5, <2>7 DEF Advance
    <3>3. Proper(h1) /\ h1.value[c] \in Results
      BY <2>4, <3>1, RecomputeEffect
    <3>4. \E K3 : Settles(h0, K2, h1, c, K3)
      BY <2>4, <3>1, <3>2, RecomputeSettles
    <3>5. PICK K3 : Settles(h0, K2, h1, c, K3)
      BY <3>4
    <3>6. Advance(h, K, h1, K3, Deep(c))
      BY <2>5, <3>5, AdvanceTransitive DEF Settles
    <3>7. Settles(h, K, h1, c, K3)
      BY <3>5, <3>6 DEF Settles
    <3> QED
      BY <3>3, <3>7
  <2>8. poll.answer = "same" \/ poll.answer = "changed"
    BY <2>4 DEF Polls
  <2>9. Proper(h1) /\ h1.value[c] \in Results /\ \E K3 : Settles(h, K, h1, c, K3)
    BY <2>6, <2>7, <2>8
  <2> HIDE DEF h1, h0
  <2> QED
    BY <2>9 DEF h1, poll
<1> QED
  BY <1>2, <1>3

\* And so c can be trusted.
LEMMA BringUpToDateImproves ==
    ASSUME NEW update, NEW c \in Computeds, Updates(update, c), Improves(update, c),
           NEW h, Proper(h), Traced(h, Deep(c) \cup {c}), NEW K, Trusts(h, K)
    PROVE  \E K2 : Advance(h, K, BringUpToDate(update, h, c), K2, Deep(c) \cup {c}) /\ c \in K2
<1> DEFINE D == Deep(c) \cup {c}
           poll == IF h.value[c] = Unset THEN [graph |-> h, answer |-> "changed"]
                   ELSE Poll(update, h, c)
           h1 == RecomputeIfChanged(update, poll, c)
<1>1. Traced(h, Deep(c)) /\ HasTrace(h, c) /\ D \in SUBSET Computeds
  BY NodeFacts, InputFacts DEF Traced
<1>2. Proper(h1) /\ h1.value[c] \in Results /\ \E K2 : Settles(h, K, h1, c, K2)
  BY <1>1, PolledOrRecomputed
<1>3. BringUpToDate(update, h, c) = MarkClean(h1, c)
  BY DEF BringUpToDate
<1> HIDE DEF h1
<1>4. PICK K2 : Settles(h, K, h1, c, K2)
  BY <1>2
<1>5. Advance(h, K, h1, K2, D) /\ Traced(h1, D) /\ Trusts(h1, K2)
  BY <1>4 DEF Settles, Advance, Traced
<1>6. h1.value[c] # Unset
  BY <1>2, NodesAssumption
<1>7. Advance(h1, K2, MarkClean(h1, c), K2 \cup {c}, D)
  BY <1>1, <1>2, <1>4, <1>5, <1>6, MarkCleanTrusted DEF Settles
<1>8. Advance(h, K, MarkClean(h1, c), K2 \cup {c}, D)
  <2> HIDE DEF D
  <2> QED
    BY <1>5, <1>7, AdvanceTransitive
<1> QED
  BY <1>3, <1>8

\* An update of this rank improves its producer.
ImprovesUpto(r) == \A n \in Producers : \A h \in Graphs :
                      Rank[n] <= r /\ Proper(h) => Improved(h, Update[r][n][h], n)

\* By induction so does producerUpdateValueVersion at every rank, ...
LEMMA UpdateImproves == \A r \in Nat : ImprovesUpto(r)
<1> DEFINE Proved == {r \in Nat : ImprovesUpto(r)}
<1>1. ASSUME NEW r \in Nat, r > 0 => ImprovesUpto(r - 1) PROVE ImprovesUpto(r)
  <2> SUFFICES ASSUME NEW n \in Producers, NEW h \in Graphs, Rank[n] <= r, Proper(h)
               PROVE  Improved(h, Update[r][n][h], n)
    BY DEF ImprovesUpto
  <2> SUFFICES ASSUME NEW K, Traced(h, Upto(n)), Trusts(h, K)
               PROVE  \E K2 : Advance(h, K, Update[r][n][h], K2, Upto(n)) /\ n \in Signals \cup K2
    BY DEF Improved
  <2>1. Update[r][n][h] = IF r = 0 \/ n \in Signals \/ KnownClean(h, n) THEN h
                          ELSE BringUpToDate(Update[r - 1], h, n)
    <3>1. Update[r] = [m \in Producers |-> [x \in Graphs |->
              IF r = 0 \/ m \in Signals \/ KnownClean(x, m) THEN x
              ELSE BringUpToDate(Update[r - 1], x, m)]]
      BY UpdateRound
    <3>2. Update[r][n] = [x \in Graphs |->
              IF r = 0 \/ n \in Signals \/ KnownClean(x, n) THEN x
              ELSE BringUpToDate(Update[r - 1], x, n)]
      BY <3>1
    <3> QED
      BY <3>2
  <2>2. Rank[n] \in Nat /\ (n \in Signals \/ n \in Computeds) /\ (Rank[n] = 0 => n \in Signals)
    BY NodeFacts
  <2>3. CASE r = 0 \/ n \in Signals \/ KnownClean(h, n)
    <3>1. Update[r][n][h] = h
      BY <2>1, <2>3
    <3>2. n \in Signals \cup K
      <4>1. CASE n \notin Signals
        <5>1. n \in Computeds /\ KnownClean(h, n)
          BY <2>2, <2>3, <4>1
        <5> QED
          BY <5>1 DEF Trusts
      <4> QED
        BY <4>1
    <3> QED
      BY <3>1, <3>2, AdvanceReflexive
  <2>4. CASE ~(r = 0 \/ n \in Signals \/ KnownClean(h, n))
    <3> DEFINE D == Deep(n) \cup {n}
               h2 == BringUpToDate(Update[r - 1], h, n)
    <3>1. Update[r][n][h] = h2
      BY <2>1, <2>4
    <3>2. n \in Computeds /\ r - 1 \in Nat /\ ImprovesUpto(r - 1) /\ n \in Consumers
      BY <1>1, <2>2, <2>4, NodeFacts
    <3>3. \A m \in Inputs(n) : m \in Producers /\ Rank[m] <= r - 1
      <4>1. ASSUME NEW m \in Inputs(n) PROVE m \in Producers /\ Rank[m] <= r - 1
        <5>1. m \in Producers /\ Rank[m] < Rank[n]
          BY <3>2 DEF Inputs
        <5> QED
          BY <2>2, <5>1, NodeFacts
      <4> QED
        BY <4>1
    <3>4. Updates(Update[r - 1], n)
      BY <3>2, <3>3, UpdateUpdates DEF Updates, UpdatesUpto
    <3>5. Improves(Update[r - 1], n)
      BY <3>2, <3>3 DEF Improves, ImprovesUpto
    <3>6. D \subseteq Upto(n) /\ D \in SUBSET Computeds
      BY <2>2, <3>2, NodeFacts DEF Deep, Upto
    <3>7. Traced(h, D)
      BY <3>6 DEF Traced
    <3>8. Tame(h, h2, D, {})
      BY <3>2, <3>4, BringUpToDateEffect
    <3>9. \E K2 : Advance(h, K, h2, K2, D) /\ n \in K2
      BY <3>2, <3>4, <3>5, <3>7, BringUpToDateImproves
    <3> HIDE DEF h2, D
    <3>10. PICK K2 : Advance(h, K, h2, K2, D) /\ n \in K2
      BY <3>9
    <3>11. Traced(h2, Upto(n))
      <4>1. Traced(h2, Upto(n) \cap D)
        BY <3>10 DEF Advance, Traced
      <4>2. Upto(n) \in SUBSET Computeds /\ Upto(n) \cap {} = {}
        BY DEF Upto
      <4> QED
        BY <3>8, <4>1, <4>2, TracedStays
    <3>12. Advance(h, K, h2, K2, Upto(n))
      BY <3>6, <3>10, <3>11 DEF Advance
    <3> QED
      BY <3>1, <3>10, <3>12
  <2> QED
    BY <2>3, <2>4
<1>2. 0 \in Proved
  BY <1>1
<1>3. ASSUME NEW r \in Nat, r \in Proved PROVE r + 1 \in Proved
  BY <1>1, <1>3
<1>4. Nat \subseteq Proved
  <2> HIDE DEF Proved
  <2> QED
    BY <1>2, <1>3, Induction
<1> QED
  BY <1>4

\* ... for every node, ...
LEMMA UpdateValueVersionImproved ==
    ASSUME NEW n \in Producers, NEW h \in Graphs, Proper(h)
    PROVE  Improved(h, UpdateValueVersion[n][h], n)
<1>1. Rank[n] \in Nat /\ Rank[n] <= Rank[n]
  BY NodeFacts
<1>2. UpdateValueVersion[n] = Update[Rank[n]][n]
  BY DEF UpdateValueVersion
<1>3. Improved(h, Update[Rank[n]][n][h], n)
  BY <1>1, UpdateImproves DEF ImprovesUpto
<1> QED
  BY <1>2, <1>3

\* ... and so for whatever a consumer reads.
LEMMA UpdateValueVersionImproves ==
    \A c \in Consumers : Improves(UpdateValueVersion, c)
  BY UpdateValueVersionImproved DEF Improves, Inputs

-----------------------------------------------------------------------------
(* The inductive invariant.                                                *)

\* The entries of e that count: while its body runs, what it has read so far.
ReadBy(h, running, e) == IF running = e THEN h.next[e] ELSE Len(h.prods[e])

\* The effects that do not wait are clean, and what they read is fresh.
EffectsFresh(h, running, waiting, K) ==
    \A e \in Effects \ waiting : ~h.dirty[e] /\ FreshUpto(h, e, ReadBy(h, running, e), K)

\* All values have traces, and some computeds can be trusted on which those effects rely.
Valid ==
    /\ Traced(g, Computeds)
    /\ \E K : Trusts(g, K) /\ EffectsFresh(g, active, destroyed \cup queue, K)

\* The inductive invariant.
VInv == IInv /\ Valid

\* Effects stay fresh whose lists and producers are the same.
LEMMA EffectsStay ==
    ASSUME NEW h, NEW h2, NEW K, NEW K2, NEW running, NEW running2, NEW waiting, NEW waiting2,
           EffectsFresh(h, running, waiting, K), Keeps(h, h2, K), K \subseteq K2,
           NEW e \in Effects, e \notin waiting, SameLists(h, h2, e), h2.dirty[e] = h.dirty[e],
           running2 = e <=> running = e
    PROVE  ~h2.dirty[e] /\ FreshUpto(h2, e, ReadBy(h2, running2, e), K2)
<1>1. ~h.dirty[e] /\ FreshUpto(h, e, ReadBy(h, running, e), K)
  BY DEF EffectsFresh
<1>2. ReadBy(h2, running2, e) = ReadBy(h, running, e)
  BY DEF ReadBy, SameLists
<1>3. FreshUpto(h2, e, ReadBy(h, running, e), K2)
  BY <1>1, FreshStays DEF SameLists
<1> QED
  BY <1>1, <1>2, <1>3

\* It holds of a new graph: every computed is dirty and every effect waits.
LEMMA InitValid == Init => Valid
<1> SUFFICES ASSUME Init PROVE Valid
  OBVIOUS
<1>1. /\ \A c \in Computeds : g.value[c] = Unset /\ g.clean[c] = 0 /\ g.dirty[c] = TRUE
      /\ g.epoch = 1 /\ queue = Effects
  BY NodeFacts DEF Init
<1>2. Traced(g, Computeds)
  BY <1>1 DEF Traced, HasTrace
<1>3. Trusts(g, {})
  BY <1>1 DEF Trusts, KnownClean
<1>4. EffectsFresh(g, active, destroyed \cup queue, {})
  BY <1>1 DEF EffectsFresh
<1> QED
  BY <1>2, <1>3, <1>4 DEF Valid

\* A notification goes on from what it reached.
LEMMA NotifiedGoesOn ==
    ASSUME NEW h, NEW s \in Signals, NEW m \in {s} \cup (Notified(h, s) \cap Computeds),
           NEW x \in ToSet(h.live[m]), x \in Consumers, ~h.dirty[x]
    PROVE  x \in Notified(h, s)
<1> SUFFICES ASSUME NEW reached \in SUBSET Consumers, PassesOn(h, s, reached) PROVE x \in reached
  BY DEF Notified
<1>1. m \in {s} \cup (reached \cap Computeds)
  BY DEF Notified
<1>2. x \in {c \in ToSet(h.live[m]) : ~h.dirty[c]}
  OBVIOUS
<1>3. {c \in ToSet(h.live[m]) : ~h.dirty[c]} \subseteq reached
  BY <1>1 DEF PassesOn
<1> QED
  BY <1>2, <1>3

\* The computeds that a write to s leaves trusted.
StillTrusted(h, K, s) == {x \in K : IsLive(h, x) /\ x \notin Notified(h, s)}

\* A live consumer that is not notified relies on none that is.
LEMMA FreshAfterWrite ==
    ASSUME NEW h, Proper(h), NEW h2, NEW s \in Signals, NEW K, K \subseteq Computeds,
           NEW x \in Consumers, IsLive(h, x), ~h.dirty[x], x \notin Notified(h, s),
           NEW k \in Nat, k <= Len(h.prods[x]), FreshUpto(h, x, k, K),
           SameLists(h, h2, x), \A m \in Producers \ {s} : h2.version[m] = h.version[m]
    PROVE  FreshUpto(h2, x, k, StillTrusted(h, K, s))
<1> SUFFICES ASSUME NEW i \in 1..k PROVE EntryFresh(h2, x, i, StillTrusted(h, K, s))
  BY DEF FreshUpto
<1> DEFINE m == h.prods[x][i]
           p == h.indexOf[x][i]
<1>1. h \in Graphs /\ Wired(h, {}) /\ Len(h.prods[x]) \in Nat
  BY ProperFacts, GraphTypes, LenProperties
<1>2. i \in 1..Len(h.prods[x])
  BY <1>1
<1>3. m \in Signals \cup K /\ h.seen[x][i] = h.version[m]
  BY DEF FreshUpto, EntryFresh
<1>4. m \in Producers /\ m # None
  BY <1>3, NodeFacts
<1>5. Linked(h, x, i)
  BY <1>1, <1>2, <1>4 DEF Wired, Settled
<1>6. p \in 1..Len(h.live[m]) /\ h.live[m][p] = x
  BY <1>5 DEF Linked
<1> HIDE DEF m, p
<1>7. x \in ToSet(h.live[m]) /\ Len(h.live[m]) > 0
  <2>1. h.live[m] \in Seq(Consumers) /\ Len(h.live[m]) \in Nat
    BY <1>1, <1>4, GraphTypes, LenProperties
  <2>2. DOMAIN h.live[m] = 1..Len(h.live[m])
    BY <2>1
  <2> QED
    BY <1>6, <2>1, <2>2 DEF ToSet
<1>8. m \notin {s} \cup (Notified(h, s) \cap Computeds)
  BY <1>7, NotifiedGoesOn
<1>9. m \in Signals \cup StillTrusted(h, K, s)
  <2>1. IsLive(h, m)
    BY <1>7 DEF IsLive
  <2> QED
    BY <1>3, <1>8, <2>1 DEF StillTrusted
<1>10. h2.version[m] = h.version[m] /\ h2.prods[x][i] = m /\ h2.seen[x][i] = h.seen[x][i]
  BY <1>4, <1>8 DEF SameLists, m
<1> QED
  BY <1>3, <1>9, <1>10 DEF EntryFresh

-----------------------------------------------------------------------------
(* One lemma per action.                                                   *)

\* A write keeps the invariant: what relies on the signal is dirty or waits.
LEMMA SetSignalValid ==
    ASSUME VInv, NEW s \in Signals, NEW v \in Values, SetSignal(s, v)
    PROVE  Valid'
<1> DEFINE marked == Notified(g, s)
<1>1. /\ Proper(g) /\ g \in Graphs /\ g.epoch \in Nat /\ g.clean \in [Computeds -> Nat]
      /\ Traced(g, Computeds) /\ Holes
  BY ProperFacts, GraphTypes DEF VInv, IInv, Valid
<1>2. PICK K : Trusts(g, K) /\ EffectsFresh(g, active, destroyed \cup queue, K)
  BY DEF VInv, Valid
<1>3. /\ \A x \in Consumers : SameLists(g, g', x)
      /\ g'.epoch = g.epoch + 1
      /\ \A m \in Producers \ {s} : g'.value[m] = g.value[m] /\ g'.version[m] = g.version[m]
      /\ \A x \in Consumers : g'.dirty[x] <=> g.dirty[x] \/ x \in marked
      /\ g'.clean = g.clean /\ g'.live = g.live
  <2>1. g' = Written(g, s, v, marked)
    BY DEF SetSignal, Written
  <2> HIDE DEF marked
  <2> QED
    BY <1>1, <2>1, WriteEffect
<1>4. /\ queue' = queue \cup (marked \cap Effects) /\ active' = active /\ destroyed' = destroyed
  BY DEF SetSignal
<1> DEFINE K2 == StillTrusted(g, K, s)
<1>5. Traced(g', Computeds)
  <2> SUFFICES ASSUME NEW x \in Computeds PROVE HasTrace(g', x)
    BY DEF Traced
  <2>1. SameLists(g, g', x) /\ g'.value[x] = g.value[x]
    BY <1>3, NodeFacts
  <2> QED
    BY <1>1, <2>1, TraceStays DEF Traced
<1>6. K \subseteq Computeds /\ K2 \subseteq K
  BY <1>2 DEF Trusts, StillTrusted
<1>7. ASSUME NEW x \in K2 PROVE ~g'.dirty[x] /\ FreshUpto(g', x, Len(g'.prods[x]), K2)
  <2>1. /\ x \in K /\ x \in Consumers /\ IsLive(g, x) /\ x \notin marked /\ ~g.dirty[x]
        /\ FreshUpto(g, x, Len(g.prods[x]), K)
    BY <1>2, <1>6, NodeFacts DEF Trusts, StillTrusted
  <2>2. SameLists(g, g', x) /\ Len(g.prods[x]) \in Nat
    BY <1>1, <1>3, <2>1, GraphTypes, LenProperties
  <2> DEFINE N == Len(g.prods[x])
  <2>a. /\ N \in Nat /\ N <= Len(g.prods[x]) /\ FreshUpto(g, x, N, K) /\ x \notin Notified(g, s)
        /\ \A m \in Producers \ {s} : g'.version[m] = g.version[m]
    BY <1>3, <2>1, <2>2
  <2> HIDE DEF N
  <2>3. FreshUpto(g', x, N, StillTrusted(g, K, s))
    BY <1>1, <1>6, <2>1, <2>2, <2>a, FreshAfterWrite
  <2> QED
    BY <1>3, <2>1, <2>2, <2>3 DEF SameLists, N
<1>8. ASSUME NEW x \in Computeds, KnownClean(g', x) PROVE x \in K2
  <2>1. g.clean[x] <= g.epoch /\ g.clean[x] \in Nat /\ x \in Consumers
    BY <1>1, <1>2, NodeFacts DEF Trusts
  <2>2. ~g.dirty[x] /\ x \notin marked
    BY <1>3, <1>8, <2>1 DEF KnownClean
  <2>3. IsLive(g, x)
    <3>1. g'.clean[x] # g'.epoch
      BY <1>1, <1>3, <2>1
    <3> QED
      BY <1>3, <1>8, <3>1 DEF KnownClean, IsLive
  <2>4. x \in K
    BY <1>2, <2>2, <2>3 DEF Trusts, KnownClean
  <2> QED
    BY <2>2, <2>3, <2>4 DEF StillTrusted
<1>9. ASSUME NEW x \in Computeds PROVE g'.clean[x] <= g'.epoch
  <2>1. g.clean[x] <= g.epoch /\ g.clean[x] \in Nat
    BY <1>1, <1>2 DEF Trusts
  <2> QED
    BY <1>1, <1>3, <2>1
<1>10. Trusts(g', K2)
  BY <1>6, <1>7, <1>8, <1>9 DEF Trusts
<1>11. EffectsFresh(g', active', destroyed' \cup queue', K2)
  <2> SUFFICES ASSUME NEW e \in Effects \ (destroyed' \cup queue')
               PROVE  ~g'.dirty[e] /\ FreshUpto(g', e, ReadBy(g', active', e), K2)
    BY DEF EffectsFresh
  <2>1. /\ e \in Consumers /\ e \notin destroyed \cup queue /\ e \notin marked /\ IsLive(g, e)
    BY <1>4, NodeFacts DEF IsLive
  <2>2. ~g.dirty[e] /\ FreshUpto(g, e, ReadBy(g, active, e), K)
    BY <1>2, <2>1 DEF EffectsFresh
  <2>3. ReadBy(g, active, e) \in Nat /\ ReadBy(g, active, e) <= Len(g.prods[e])
    <3>1. Len(g.prods[e]) \in Nat /\ g.next[e] \in Nat
      BY <1>1, <2>1, GraphTypes, LenProperties
    <3>2. active = e => g.next[e] <= Len(g.prods[e])
      BY <1>1, <2>1 DEF Holes
    <3> QED
      BY <3>1, <3>2 DEF ReadBy
  <2>4. SameLists(g, g', e)
    BY <1>3, <2>1
  <2>5. ReadBy(g', active', e) = ReadBy(g, active, e)
    BY <1>4, <2>4 DEF ReadBy, SameLists
  <2>6. FreshUpto(g', e, ReadBy(g, active, e), K2)
    BY <1>1, <1>3, <1>6, <2>1, <2>2, <2>3, <2>4, FreshAfterWrite
  <2> QED
    BY <1>3, <2>1, <2>2, <2>5, <2>6
<1> HIDE DEF K2
<1> QED
  BY <1>5, <1>10, <1>11 DEF Valid

\* What is known after an update that the code makes for n, in any state.
LEMMA UpdateValid ==
    ASSUME NEW n \in Producers, NEW h, Proper(h), Traced(h, Computeds), NEW K, Trusts(h, K)
    PROVE  LET h2 == UpdateValueVersion[n][h]
           IN  /\ Proper(h2) /\ Traced(h2, Computeds)
               /\ \A e \in Effects : SameLists(h, h2, e) /\ h2.dirty[e] = h.dirty[e]
               /\ \E K2 : Trusts(h2, K2) /\ K \subseteq K2 /\ Keeps(h, h2, K) /\ n \in Signals \cup K2
<1> DEFINE h2 == UpdateValueVersion[n][h]
<1>1. h \in Graphs /\ Upto(n) \subseteq Computeds
  BY ProperFacts DEF Upto
<1>2. Proper(h2) /\ Tame(h, h2, Upto(n), {})
  BY <1>1, UpdateValueVersionUpdated DEF Updated
<1>3. Improved(h, h2, n)
  BY <1>1, UpdateValueVersionImproved
<1> HIDE DEF h2
<1>4. Traced(h, Upto(n))
  BY <1>1 DEF Traced
<1>5. PICK K2 : Advance(h, K, h2, K2, Upto(n)) /\ n \in Signals \cup K2
  BY <1>3, <1>4 DEF Improved
<1>6. Traced(h2, Computeds)
  <2>1. Traced(h2, Computeds \cap Upto(n)) /\ Computeds \in SUBSET Computeds /\ Computeds \cap {} = {}
    BY <1>5 DEF Advance, Traced
  <2> QED
    BY <1>2, <2>1, TracedStays
<1>7. \A e \in Effects : SameLists(h, h2, e) /\ h2.dirty[e] = h.dirty[e]
  <2>1. \A e \in Effects : e \in Consumers \ Upto(n) /\ e \in Consumers \ (Upto(n) \cup {})
    BY <1>1, NodeFacts
  <2> QED
    BY <1>2, <2>1 DEF Tame
<1>8. \E K3 : Trusts(h2, K3) /\ K \subseteq K3 /\ Keeps(h, h2, K) /\ n \in Signals \cup K3
  BY <1>5 DEF Advance
<1> QED
  BY <1>2, <1>6, <1>7, <1>8 DEF h2

\* A read outside of any context keeps the invariant.
LEMMA ReadComputedValid ==
    ASSUME VInv, NEW c \in Computeds, ReadComputed(c)
    PROVE  Valid'
<1>1. Proper(g) /\ Traced(g, Computeds) /\ c \in Producers
  BY NodeFacts DEF VInv, IInv, Valid
<1>2. PICK K : Trusts(g, K) /\ EffectsFresh(g, active, destroyed \cup queue, K)
  BY DEF VInv, Valid
<1>3. g' = UpdateValueVersion[c][g] /\ UNCHANGED <<active, queue, destroyed>>
  BY DEF ReadComputed
<1>4. /\ Traced(g', Computeds)
      /\ \A e \in Effects : SameLists(g, g', e) /\ g'.dirty[e] = g.dirty[e]
      /\ \E K2 : Trusts(g', K2) /\ K \subseteq K2 /\ Keeps(g, g', K) /\ c \in Signals \cup K2
  BY <1>1, <1>2, <1>3, UpdateValid
<1>5. PICK K2 : Trusts(g', K2) /\ K \subseteq K2 /\ Keeps(g, g', K)
  BY <1>4
<1>6. EffectsFresh(g', active, destroyed \cup queue, K2)
  <2> SUFFICES ASSUME NEW e \in Effects \ (destroyed \cup queue)
               PROVE  ~g'.dirty[e] /\ FreshUpto(g', e, ReadBy(g', active, e), K2)
    BY DEF EffectsFresh
  <2> QED
    BY <1>2, <1>4, <1>5, EffectsStay
<1> QED
  BY <1>3, <1>4, <1>5, <1>6 DEF Valid

\* An effect that starts to run is clean, before it is polled.
LEMMA CleanEffectTrusted ==
    ASSUME NEW h, Proper(h), NEW e \in Effects, Traced(h, Computeds), NEW K, Trusts(h, K)
    PROVE  LET h2 == [h EXCEPT !.dirty[e] = FALSE]
           IN  /\ Traced(h2, Computeds) /\ Trusts(h2, K) /\ Keeps(h, h2, K)
               /\ \A x \in Effects : SameLists(h, h2, x)
               /\ \A x \in Effects \ {e} : h2.dirty[x] = h.dirty[x]
<1> DEFINE h2 == [h EXCEPT !.dirty[e] = FALSE]
<1>1. /\ Tame(h, h2, {e}, {}) /\ SameLists(h, h2, e)
      /\ h2.live = h.live /\ h2.clean = h.clean /\ h2.value = h.value
  BY CleanEffect
<1> HIDE DEF h2
<1>2. \A x \in Consumers \ {e} : SameLists(h, h2, x) /\ h2.dirty[x] = h.dirty[x]
  BY <1>1 DEF Tame
<1>3. Keeps(h, h2, K) /\ h2.epoch = h.epoch
  <2>1. \A m \in Signals \cup K : m \in Producers \ {e}
    BY NodeFacts DEF Trusts
  <2> QED
    BY <1>1, <2>1 DEF Keeps, Tame
<1>4. \A x \in Computeds : SameLists(h, h2, x) /\ h2.dirty[x] = h.dirty[x]
  BY <1>2, NodeFacts
<1>5. Trusts(h2, K)
  <2>1. \A x \in K : h2.prods[x] = h.prods[x] /\ h2.seen[x] = h.seen[x]
    BY <1>4 DEF SameLists, Trusts
  <2>2. \A x \in Computeds \ K : IsLive(h2, x) => IsLive(h, x)
    BY <1>1 DEF IsLive
  <2>3. \A x \in Computeds : h2.dirty[x] = h.dirty[x]
    BY <1>4
  <2> QED
    BY <1>1, <1>3, <2>1, <2>2, <2>3, TrustsStay
<1>6. Traced(h2, Computeds)
  <2> SUFFICES ASSUME NEW x \in Computeds PROVE HasTrace(h2, x)
    BY DEF Traced
  <2> QED
    BY <1>1, <1>4, TraceStays DEF Traced
<1>7. /\ \A x \in Effects : SameLists(h, h2, x)
      /\ \A x \in Effects \ {e} : h2.dirty[x] = h.dirty[x]
  BY <1>1, <1>2, NodeFacts
<1> QED
  BY <1>3, <1>5, <1>6, <1>7 DEF h2

\* The start of a run keeps the invariant: an effect that does not run again saw what is
\* fresh now.
LEMMA RunEffectValid ==
    ASSUME VInv, NEW e \in Effects, RunEffect(e)
    PROVE  Valid'
<1> DEFINE start == [g EXCEPT !.dirty[e] = FALSE]
           poll == Poll(UpdateValueVersion, start, e)
           base == IF e \in hasRun THEN poll.graph ELSE start
<1>1. /\ Proper(g) /\ e \in Consumers /\ Holes /\ active = None /\ None \notin Effects
      /\ Updates(UpdateValueVersion, e) /\ Improves(UpdateValueVersion, e)
      /\ Traced(g, Computeds) /\ Deep(e) = Computeds
  <2>1. Deep(e) = Computeds
    BY NodeFacts DEF Deep
  <2> QED
    BY <2>1, NodeFacts, UpdateValueVersionUpdates, UpdateValueVersionImproves
       DEF VInv, Valid, IInv, RunEffect
<1>2. PICK K : Trusts(g, K) /\ EffectsFresh(g, active, destroyed \cup queue, K)
  BY DEF VInv, Valid
<1>3. /\ Proper(start) /\ Traced(start, Computeds) /\ Trusts(start, K) /\ Keeps(g, start, K)
      /\ \A x \in Effects : SameLists(g, start, x)
      /\ \A x \in Effects \ {e} : start.dirty[x] = g.dirty[x]
      /\ start.dirty[e] = FALSE
  <2>1. Proper(start) /\ start.dirty[e] = FALSE
    BY <1>1, CleanEffect
  <2>2. /\ Traced(start, Computeds) /\ Trusts(start, K) /\ Keeps(g, start, K)
        /\ \A x \in Effects : SameLists(g, start, x)
        /\ \A x \in Effects \ {e} : start.dirty[x] = g.dirty[x]
    BY <1>1, <1>2, CleanEffectTrusted
  <2> HIDE DEF start
  <2> QED
    BY <2>1, <2>2
<1>4. \/ /\ e \in hasRun /\ poll.answer = "same"
         /\ g' = poll.graph
         /\ UNCHANGED <<active, hasRun, broken>>
      \/ /\ e \in hasRun /\ poll.answer = "throws"
         /\ g' = poll.graph
         /\ broken' = broken \cup {e}
         /\ UNCHANGED <<active, hasRun>>
      \/ /\ e \notin hasRun \/ poll.answer = "changed"
         /\ g' = [base EXCEPT !.next[e] = 0]
         /\ active' = e
         /\ hasRun' = hasRun \cup {e}
         /\ UNCHANGED broken
  BY DEF RunEffect
<1>5. queue' = queue \ {e} /\ destroyed' = destroyed
  BY DEF RunEffect
<1>a. poll = Poll(UpdateValueVersion, start, e) /\ base = IF e \in hasRun THEN poll.graph ELSE start
  OBVIOUS
<1> HIDE DEF start, poll, base
<1>6. PollOK(start, poll, e)
  <2>1. /\ \A k \in 0..Len(start.prods[e]) :
              PollOK(start, PollAt(UpdateValueVersion, start, e, k), e)
        /\ Poll(UpdateValueVersion, start, e)
              = PollAt(UpdateValueVersion, start, e, Len(start.prods[e]))
        /\ Len(start.prods[e]) \in Nat
    BY <1>1, <1>3, PollRounds
  <2> QED
    BY <1>a, <2>1
<1>7. PICK K2 : PollGood(start, K, poll, e, Len(start.prods[e]), K2)
  <2>1. \E K2 : PollGood(start, K, Poll(UpdateValueVersion, start, e), e, Len(start.prods[e]), K2)
    BY <1>1, <1>3, PollImproves
  <2> QED
    BY <1>a, <2>1
<1> DEFINE polled == poll.graph
<1>8. /\ Proper(polled) /\ Trusts(polled, K2) /\ Traced(polled, Computeds) /\ K \subseteq K2
      /\ Keeps(g, polled, K)
      /\ \A x \in Effects : SameLists(g, polled, x) /\ polled.dirty[x] = start.dirty[x]
  <2>1. Proper(polled) /\ Tame(start, polled, Computeds, {})
    BY <1>1, <1>6 DEF PollOK
  <2>2. Advance(start, K, polled, K2, Computeds)
    BY <1>1, <1>7 DEF PollGood
  <2> HIDE DEF polled
  <2>3. Keeps(g, polled, K)
    BY <1>3, <2>2 DEF Advance, Keeps
  <2>4. \A x \in Effects : SameLists(start, polled, x) /\ polled.dirty[x] = start.dirty[x]
    <3>1. \A x \in Effects : x \in Consumers \ (Computeds \cup {}) /\ x \in Consumers \ Computeds
      BY NodeFacts
    <3> QED
      BY <2>1, <3>1 DEF Tame
  <2>5. \A x \in Effects : SameLists(g, polled, x)
    BY <1>3, <2>4 DEF SameLists
  <2> QED
    BY <2>1, <2>2, <2>3, <2>4, <2>5 DEF Advance
\* The other effects rely on what they relied on before.
<1>9. ASSUME NEW h2, NEW K3, K \subseteq K3, Keeps(g, h2, K), active' = None \/ active' = e,
             NEW x \in Effects, x # e, x \notin destroyed' \cup queue', SameLists(g, h2, x),
             h2.dirty[x] = start.dirty[x]
      PROVE  ~h2.dirty[x] /\ FreshUpto(h2, x, ReadBy(h2, active', x), K3)
  <2>1. x \notin destroyed \cup queue /\ h2.dirty[x] = g.dirty[x]
    BY <1>3, <1>5, <1>9
  <2>2. active' = x <=> active = x
    BY <1>1, <1>9
  <2> QED
    BY <1>2, <1>9, <2>1, <2>2, EffectsStay
<1>10. CASE g' = polled /\ active' = active /\ poll.answer # "changed"
  <2>1. EffectsFresh(g', active', destroyed' \cup queue', K2)
    <3> SUFFICES ASSUME NEW x \in Effects \ (destroyed' \cup queue')
                 PROVE  ~g'.dirty[x] /\ FreshUpto(g', x, ReadBy(g', active', x), K2)
      BY DEF EffectsFresh
    <3>1. CASE x = e
      <4>1. poll.answer = "same"
        <5>1. SUFFICES ASSUME poll.answer = "throws" PROVE FALSE
          BY <1>6, <1>10 DEF PollOK, Polls
        <5>2. PICK j \in 1..Len(start.prods[e]) : start.prods[e][j] = None
          BY <1>6, <5>1 DEF PollOK
        <5>3. start.prods[e] = g.prods[e]
          BY <1>3 DEF SameLists
        <5>4. e \in destroyed
          BY <1>1, <5>2, <5>3 DEF Holes, NoHole
        <5> QED
          BY <1>5, <3>1, <5>4
      <4>2. FreshUpto(polled, e, Len(start.prods[e]), K2)
        BY <1>7, <4>1 DEF PollGood
      <4>3. ReadBy(g', active', e) = Len(start.prods[e])
        BY <1>1, <1>3, <1>8, <1>10 DEF ReadBy, SameLists
      <4>4. ~polled.dirty[e]
        BY <1>3, <1>8
      <4> HIDE DEF polled
      <4> QED
        BY <1>10, <3>1, <4>2, <4>3, <4>4
    <3>2. CASE x # e
      <4> HIDE DEF polled
      <4> QED
        BY <1>1, <1>8, <1>9, <1>10, <3>2
    <3> QED
      BY <3>1, <3>2
  <2> HIDE DEF polled
  <2> QED
    BY <1>8, <1>10, <2>1 DEF Valid
<1>11. CASE g' = [base EXCEPT !.next[e] = 0] /\ active' = e
  <2>1. PICK K3 : /\ Proper(base) /\ Trusts(base, K3) /\ Traced(base, Computeds)
                  /\ K \subseteq K3 /\ Keeps(g, base, K)
                  /\ \A x \in Effects : SameLists(g, base, x) /\ base.dirty[x] = start.dirty[x]
    <3>1. CASE e \in hasRun
      <4>1. base = polled
        BY <1>a, <3>1
      <4> HIDE DEF polled
      <4> QED
        BY <1>8, <4>1
    <3>2. CASE e \notin hasRun
      <4>1. base = start
        BY <1>a, <3>2
      <4> QED
        BY <1>3, <4>1
    <3> QED
      BY <3>1, <3>2
  <2>2. /\ Proper(g') /\ g'.next[e] = 0 /\ SameExceptLists(base, g', e) /\ g'.live = base.live
    BY <1>1, <1>11, <2>1, ResetEffect
  <2>3. base \in Graphs /\ g' \in Graphs /\ e \notin K3 /\ e \notin Computeds
    BY <2>1, <2>2, ProperFacts, NodeFacts DEF Trusts
  <2>4. \A m \in Producers \ (Signals \cup K3) : Len(g'.live[m]) <= Len(base.live[m])
    BY <2>2, <2>3, GraphTypes, LenProperties
  <2>5. Trusts(g', K3) /\ Keeps(base, g', K3) /\ Traced(g', Computeds)
    BY <1>1, <2>1, <2>2, <2>3, <2>4, OtherListsTrusted
  <2>6. Keeps(g, g', K)
    BY <2>1, <2>5 DEF Keeps
  <2>7. EffectsFresh(g', active', destroyed' \cup queue', K3)
    <3> SUFFICES ASSUME NEW x \in Effects \ (destroyed' \cup queue')
                 PROVE  ~g'.dirty[x] /\ FreshUpto(g', x, ReadBy(g', active', x), K3)
      BY DEF EffectsFresh
    <3>1. g'.dirty = base.dirty
      BY <2>2 DEF SameExceptLists
    <3>2. CASE x = e
      <4>1. ReadBy(g', active', e) = 0
        BY <1>11, <2>2 DEF ReadBy
      <4>2. FreshUpto(g', e, 0, K3)
        BY DEF FreshUpto
      <4> QED
        BY <1>3, <2>1, <3>1, <3>2, <4>1, <4>2
    <3>3. CASE x # e
      <4>1. SameLists(g, g', x)
        <5>1. SameLists(base, g', x) /\ SameLists(g, base, x)
          BY <2>1, <2>2, <3>3, NodeFacts DEF SameExceptLists, SameLists
        <5> QED
          BY <5>1 DEF SameLists
      <4>2. g'.dirty[x] = start.dirty[x]
        BY <2>1, <3>1
      <4> QED
        BY <1>9, <1>11, <2>1, <2>6, <3>3, <4>1, <4>2
    <3> QED
      BY <3>2, <3>3
  <2> QED
    BY <2>5, <2>7 DEF Valid
<1> QED
  BY <1>4, <1>10, <1>11

\* A read in a body keeps the invariant: what the effect recorded is fresh.
LEMMA ReadInBodyValid ==
    ASSUME VInv, NEW n \in Producers, ReadInBody(n)
    PROVE  Valid'
<1> DEFINE e == active
           h == UpdateValueVersion[n][g]
<1>1. /\ Proper(g) /\ g \in Graphs /\ e \in Effects /\ e \in Consumers /\ e \notin Computeds
      /\ Holes /\ Traced(g, Computeds)
  BY ProperFacts, NodeFacts DEF VInv, Valid, IInv, Sets, ReadInBody
<1>2. PICK K : Trusts(g, K) /\ EffectsFresh(g, active, destroyed \cup queue, K)
  BY DEF VInv, Valid
<1>3. g' = Accessed(h, n, e) /\ UNCHANGED <<active, queue, hasRun, destroyed, broken>>
  BY DEF ReadInBody
<1>4. /\ Proper(h) /\ Traced(h, Computeds)
      /\ \A x \in Effects : SameLists(g, h, x) /\ h.dirty[x] = g.dirty[x]
      /\ \E K2 : Trusts(h, K2) /\ K \subseteq K2 /\ Keeps(g, h, K) /\ n \in Signals \cup K2
  BY <1>1, <1>2, UpdateValid
<1> HIDE DEF h
<1>5. PICK K2 : Trusts(h, K2) /\ K \subseteq K2 /\ Keeps(g, h, K) /\ n \in Signals \cup K2
  BY <1>4
<1>6. /\ h \in Graphs /\ Sane(h) /\ SameLists(g, h, e)
      /\ Len(h.prods[e]) \in Nat /\ h.next[e] \in Nat
  BY <1>1, <1>4, ProperFacts, GraphTypes, LenProperties
<1>7. h.next[e] + 1 <= Len(h.prods[e]) => h.prods[e][h.next[e] + 1] # None
  <2>1. h.next[e] + 1 <= Len(h.prods[e]) => h.next[e] + 1 \in 1..Len(h.prods[e])
    BY <1>6
  <2>2. h.next[e] + 1 <= Len(h.prods[e]) => NoHole(g, e)
    BY <1>1, <1>6 DEF Holes, SameLists
  <2> QED
    BY <1>6, <2>1, <2>2 DEF NoHole, SameLists
<1>8. Proper(g') /\ SameExceptLists(h, g', e) /\ Recorded(h, g', n, e, h.next[e] + 1)
  BY <1>1, <1>3, <1>4, <1>7, AccessedTame
<1>9. \A L \in SUBSET Producers : n \in L /\ Downward(h, L) =>
         \A m \in Producers \ L : Len(g'.live[m]) <= Len(h.live[m])
  BY <1>1, <1>3, <1>6, <1>7, AccessedEffect
<1> HIDE DEF e
<1>10. Trusts(g', K2) /\ Keeps(h, g', K2) /\ Traced(g', Computeds)
  <2>1. \A m \in Producers \ (Signals \cup K2) : Len(g'.live[m]) <= Len(h.live[m])
    BY <1>5, <1>9, TrustedDownward
  <2>2. g' \in Graphs /\ e \notin K2
    BY <1>1, <1>5, <1>8, ProperFacts DEF Trusts
  <2> QED
    BY <1>1, <1>4, <1>5, <1>6, <1>8, <2>1, <2>2, OtherListsTrusted
<1>11. Keeps(g, g', K)
  BY <1>5, <1>10 DEF Keeps
<1>12. EffectsFresh(g', active', destroyed' \cup queue', K2)
  <2> SUFFICES ASSUME NEW x \in Effects, x \notin destroyed \cup queue
               PROVE  ~g'.dirty[x] /\ FreshUpto(g', x, ReadBy(g', active, x), K2)
    BY <1>3 DEF EffectsFresh
  <2>1. g'.dirty[x] = g.dirty[x]
    BY <1>4, <1>8 DEF SameExceptLists
  <2>2. CASE x = e
    <3>1. ~g.dirty[e] /\ FreshUpto(g, e, g.next[e], K)
      BY <1>2, <2>2 DEF EffectsFresh, ReadBy, e
    <3>2. g.next[e] <= Len(g.prods[e])
      BY <1>1, <2>2 DEF Holes, e
    <3> DEFINE k == g.next[e]
    <3>3. /\ k \in Nat /\ k <= Len(h.prods[e]) /\ h.next[e] = k
          /\ \A i \in 1..k : h.prods[e][i] = g.prods[e][i] /\ h.seen[e][i] = g.seen[e][i]
      BY <1>6, <3>2 DEF SameLists
    <3> HIDE DEF k
    <3>4. /\ g'.next[e] = k + 1 /\ g'.prods[e][k + 1] = n /\ g'.seen[e][k + 1] = h.version[n]
          /\ \A i \in 1..k : g'.prods[e][i] = h.prods[e][i] /\ g'.seen[e][i] = h.seen[e][i]
      <4>1. /\ g'.next[e] = k + 1 /\ g'.prods[e][k + 1] = n /\ g'.seen[e][k + 1] = h.version[n]
        BY <1>8, <3>3 DEF Recorded
      <4>2. ASSUME NEW i \in 1..k
            PROVE  g'.prods[e][i] = h.prods[e][i] /\ g'.seen[e][i] = h.seen[e][i]
        <5>1. /\ i \in 1..(IF k + 1 <= Len(h.prods[e]) THEN Len(h.prods[e]) ELSE k + 1) \ {k + 1}
              /\ i <= Len(h.prods[e])
          BY <1>6, <3>3
        <5> QED
          BY <1>8, <3>3, <5>1 DEF Recorded
      <4> QED
        BY <4>1, <4>2
    <3>5. FreshUpto(g', e, k, K2)
      BY <1>5, <1>11, <3>1, <3>3, <3>4, FreshStays DEF k
    <3>6. EntryFresh(g', e, k + 1, K2)
      <4>1. g'.version[n] = h.version[n]
        BY <1>8 DEF SameExceptLists
      <4> QED
        BY <1>5, <3>4, <4>1 DEF EntryFresh
    <3>7. FreshUpto(g', e, k + 1, K2)
      <4> SUFFICES ASSUME NEW i \in 1..(k + 1) PROVE EntryFresh(g', e, i, K2)
        BY DEF FreshUpto
      <4>1. i \in 1..k \/ i = k + 1
        BY <3>3
      <4> QED
        BY <3>5, <3>6, <4>1 DEF FreshUpto
    <3>8. ReadBy(g', active, e) = k + 1
      BY <3>4 DEF ReadBy, e
    <3> QED
      BY <2>1, <2>2, <3>1, <3>7, <3>8
  <2>3. CASE x # e
    <3>1. SameLists(g, g', x)
      <4>1. SameLists(h, g', x) /\ SameLists(g, h, x)
        BY <1>4, <1>8, <2>3, NodeFacts DEF SameExceptLists, SameLists
      <4> QED
        BY <4>1 DEF SameLists
    <3> QED
      BY <1>2, <1>5, <1>11, <2>1, <3>1, EffectsStay
  <2> QED
    BY <2>2, <2>3
<1> QED
  BY <1>10, <1>12 DEF Valid

\* An effect gets shorter lists, or none, and nobody else is concerned.
LEMMA ShorterListsValid ==
    ASSUME VInv, NEW e \in Effects, g' \in Graphs, SameExceptLists(g, g', e),
           \A m \in Producers : Len(g'.live[m]) <= Len(g.live[m]),
           destroyed \cup queue \subseteq destroyed' \cup queue',
           \A x \in Effects \ {e} : active' = x <=> active = x,
           e \notin destroyed' \cup queue' =>
              /\ active = e /\ active' # e /\ Len(g'.prods[e]) \in Nat
              /\ Len(g'.prods[e]) <= g.next[e]
              /\ \A i \in 1..Len(g'.prods[e]) : /\ g'.prods[e][i] = g.prods[e][i]
                                                /\ g'.seen[e][i] = g.seen[e][i]
    PROVE  Valid'
<1>1. /\ g \in Graphs /\ e \in Consumers /\ e \notin Computeds /\ Traced(g, Computeds)
  BY ProperFacts, NodeFacts DEF VInv, IInv, Valid
<1>2. PICK K : Trusts(g, K) /\ EffectsFresh(g, active, destroyed \cup queue, K)
  BY DEF VInv, Valid
<1>3. Trusts(g', K) /\ Keeps(g, g', K) /\ Traced(g', Computeds)
  <2>1. e \notin K
    BY <1>1, <1>2 DEF Trusts
  <2> QED
    BY <1>1, <1>2, <2>1, OtherListsTrusted
<1>4. EffectsFresh(g', active', destroyed' \cup queue', K)
  <2> SUFFICES ASSUME NEW x \in Effects, x \notin destroyed' \cup queue'
               PROVE  ~g'.dirty[x] /\ FreshUpto(g', x, ReadBy(g', active', x), K)
    BY DEF EffectsFresh
  <2>1. g'.dirty[x] = g.dirty[x] /\ x \notin destroyed \cup queue
    BY DEF SameExceptLists
  <2>2. CASE x = e
    <3> DEFINE k == Len(g'.prods[e])
    <3>1. ~g.dirty[e] /\ FreshUpto(g, e, g.next[e], K)
      BY <1>2, <2>1, <2>2 DEF EffectsFresh, ReadBy
    <3>2. k \in Nat /\ k <= g.next[e] /\ g.next[e] \in Nat
      BY <1>1, <2>2, GraphTypes
    <3>3. FreshUpto(g, e, k, K)
      BY <3>1, <3>2 DEF FreshUpto
    <3>4. FreshUpto(g', e, k, K)
      BY <1>3, <2>2, <3>3, FreshStays
    <3>5. ReadBy(g', active', e) = k
      BY <2>2 DEF ReadBy
    <3> HIDE DEF k
    <3> QED
      BY <2>1, <2>2, <3>1, <3>4, <3>5
  <2>3. CASE x # e
    <3>1. SameLists(g, g', x)
      BY <2>3, NodeFacts DEF SameExceptLists, SameLists
    <3> QED
      BY <1>2, <1>3, <2>1, <2>3, <3>1, EffectsStay
  <2> QED
    BY <2>2, <2>3
<1> QED
  BY <1>3, <1>4 DEF Valid

\* The end of a run keeps the invariant: only entries that were read again are left.
LEMMA BodyEndsValid ==
    ASSUME VInv, BodyEnds
    PROVE  Valid'
<1> DEFINE e == active
<1>1. /\ Proper(g) /\ g \in Graphs /\ Sane(g) /\ e \in Effects /\ e \in Consumers
      /\ Holes /\ None \notin Effects
  BY ProperFacts, NodeFacts DEF VInv, IInv, Sets, BodyEnds
<1>2. /\ g' = AfterComputation(g, e) /\ active' = None
      /\ UNCHANGED <<queue, hasRun, destroyed, broken>>
  BY DEF BodyEnds
<1>3. Len(g.prods[e]) \in Nat /\ g.next[e] \in Nat
  BY <1>1, GraphTypes, LenProperties
<1>4. \A j \in 1..Len(g.prods[e]) : j > g.next[e] => g.prods[e][j] # None
  <2> SUFFICES ASSUME NEW j \in 1..Len(g.prods[e]), j > g.next[e], g.prods[e][j] = None
               PROVE  FALSE
    OBVIOUS
  <2>1. g.next[e] = Len(g.prods[e])
    BY <1>1 DEF Holes, NoHole
  <2> QED
    BY <1>3, <2>1
<1>5. /\ SameExceptLists(g, g', e) /\ Len(g'.prods[e]) = Kept(g, e)
      /\ \A j \in 1..Kept(g, e) : /\ g'.prods[e][j] = g.prods[e][j]
                                  /\ g'.seen[e][j] = g.seen[e][j]
                                  /\ g'.got[e][j] = g.got[e][j]
      /\ \A m \in Producers : Len(g'.live[m]) <= Len(g.live[m])
  BY <1>1, <1>2, <1>4, AfterComputationEffect
<1>6. g' \in Graphs
  <2>1. Proper(g')
    BY <1>1, <1>2, <1>4, AfterComputationTame
  <2> QED
    BY <2>1, ProperFacts
<1>7. Kept(g, e) \in Nat /\ Kept(g, e) <= g.next[e]
  BY <1>3 DEF Kept
<1>8. destroyed \cup queue \subseteq destroyed' \cup queue'
  BY <1>2
<1>9. \A x \in Effects \ {e} : active' = x <=> active = x
  BY <1>1, <1>2
<1>10. /\ active = e /\ active' # e /\ Len(g'.prods[e]) \in Nat /\ Len(g'.prods[e]) <= g.next[e]
       /\ \A i \in 1..Len(g'.prods[e]) : /\ g'.prods[e][i] = g.prods[e][i]
                                         /\ g'.seen[e][i] = g.seen[e][i]
  BY <1>1, <1>2, <1>5, <1>7
<1> QED
  BY <1>1, <1>5, <1>6, <1>8, <1>9, <1>10, ShorterListsValid

\* Destroying an effect keeps the invariant.
LEMMA DestroyEffectValid ==
    ASSUME VInv, NEW e \in Effects, DestroyEffect(e)
    PROVE  Valid'
<1>1. Proper(g) /\ NoHole(g, e)
  BY DEF VInv, IInv, DestroyEffect, Holes
<1>2. /\ destroyed' = destroyed \cup {e} /\ UNCHANGED <<active, queue, hasRun, broken>>
  BY DEF DestroyEffect
<1>3. /\ Proper(g') /\ SameExceptLists(g, g', e)
      /\ \A m \in Producers : Len(g'.live[m]) <= Len(g.live[m])
  BY <1>1, DestroyEffectEffect DEF DestroyEffect
<1>4. g' \in Graphs
  BY <1>3, ProperFacts
<1>5. destroyed \cup queue \subseteq destroyed' \cup queue' /\ e \in destroyed'
  BY <1>2
<1>6. \A x \in Effects \ {e} : active' = x <=> active = x
  BY <1>2
<1> QED
  BY <1>3, <1>4, <1>5, <1>6, ShorterListsValid

\* Every state of the graph satisfies the inductive invariant.
THEOREM ValidInvariant == Spec => []VInv
<1>1. ASSUME VInv, IInv', [Next]_vars PROVE VInv'
  <2>1. CASE Next
    <3>1. CASE \E s \in Signals, v \in Values : SetSignal(s, v)
      BY <1>1, <3>1, SetSignalValid DEF VInv
    <3>2. CASE \E c \in Computeds : ReadComputed(c)
      BY <1>1, <3>2, ReadComputedValid DEF VInv
    <3>3. CASE \E e \in Effects : RunEffect(e)
      BY <1>1, <3>3, RunEffectValid DEF VInv
    <3>4. CASE \E e \in Effects : DestroyEffect(e)
      BY <1>1, <3>4, DestroyEffectValid DEF VInv
    <3>5. CASE \E n \in Producers : ReadInBody(n)
      BY <1>1, <3>5, ReadInBodyValid DEF VInv
    <3>6. CASE BodyEnds
      BY <1>1, <3>6, BodyEndsValid DEF VInv
    <3> QED
      BY <2>1, <3>1, <3>2, <3>3, <3>4, <3>5, <3>6 DEF Next
  <2>2. CASE UNCHANGED vars
    BY <1>1, <2>2 DEF vars, VInv, Valid
  <2> QED
    BY <1>1, <2>1, <2>2
<1>2. Init => VInv
  BY InitIInv, InitValid DEF VInv
<1> QED
  BY <1>1, <1>2, IInvInvariant, PTL DEF Spec

-----------------------------------------------------------------------------
(* What a computation gives without any graph.                             *)

\* Worth is the recursion over ranks it is written as.
LEMMA WorthRound ==
    \A r \in Nat :
        Worth[r] =
            [start \in [Signals -> Values] |->
                [n \in Producers |-> IF r = 0 \/ n \in Signals THEN start[n]
                                     ELSE Outcome(Worth[r - 1][start], n)]]
<1> DEFINE Round(f, r) ==
              [start \in [Signals -> Values] |->
                  [n \in Producers |-> IF r = 0 \/ n \in Signals THEN start[n]
                                       ELSE Outcome(f[r - 1][start], n)]]
           Rounds(f, r) == \A k \in 0..r : f[k] = Round(f, k)
           Chosen(r) == CHOOSE f : Rounds(f, r)
           F == [r \in Nat |-> Chosen(r)[r]]
           Loop(f) == f = [r \in Nat |-> Round(f, r)]
<1>1. \A f, h : Round(f, 0) = Round(h, 0)
  OBVIOUS
<1>2. \A f, h : \A k \in Nat \ {0} : f[k - 1] = h[k - 1] => Round(f, k) = Round(h, k)
  OBVIOUS
<1>3. \A f : Loop(f) => \A r \in Nat : f[r] = Round(f, r)
  <2> HIDE DEF Round
  <2> QED
    OBVIOUS
<1>4. Worth = CHOOSE f : Loop(f)
  BY DEF Worth
<1> HIDE DEF Round
<1>5. \A r \in Nat : \E f : Rounds(f, r)
  <2> DEFINE Built == {r \in Nat : \E f : Rounds(f, r)}
  <2>1. 0 \in Built
    <3> DEFINE h == [k \in {0} |-> Round(<<>>, 0)]
    <3>1. h[0] = Round(h, 0)
      <4>1. h[0] = Round(<<>>, 0)
        OBVIOUS
      <4> QED
        BY <4>1, <1>1
    <3>2. Rounds(h, 0)
      BY <3>1
    <3> QED
      BY <3>2
  <2>2. ASSUME NEW r \in Nat, r \in Built PROVE r + 1 \in Built
    <3>1. PICK f : Rounds(f, r)
      BY <2>2
    <3> DEFINE h == [k \in 0..(r + 1) |-> IF k = r + 1 THEN Round(f, k) ELSE f[k]]
    <3>2. \A k \in 0..r : h[k] = f[k]
      OBVIOUS
    <3>3. h[r + 1] = Round(f, r + 1)
      OBVIOUS
    <3> HIDE DEF h
    <3>4. ASSUME NEW k \in 0..(r + 1) PROVE h[k] = Round(h, k)
      <4>1. f[k] = Round(f, k) \/ k = r + 1
        BY <3>1
      <4>2. h[k] = Round(f, k)
        BY <4>1, <3>2, <3>3
      <4>3. CASE k = 0
        BY <4>2, <4>3, <1>1
      <4>4. CASE k # 0
        <5>1. k - 1 \in 0..r /\ k \in Nat \ {0}
          BY <4>4
        <5>2. h[k - 1] = f[k - 1]
          BY <5>1, <3>2
        <5> QED
          BY <4>2, <5>1, <5>2, <1>2
      <4> QED
        BY <4>3, <4>4
    <3>5. Rounds(h, r + 1)
      BY <3>4
    <3> QED
      BY <3>5
  <2>3. Nat \subseteq Built
    <3> HIDE DEF Built
    <3> QED
      BY <2>1, <2>2, Induction
  <2> QED
    BY <2>3
<1>6. ASSUME NEW r \in Nat, NEW f, NEW h, Rounds(f, r), Rounds(h, r + 1)
      PROVE  f[r] = h[r]
  <2> DEFINE Same == {k \in Nat : k <= r => f[k] = h[k]}
  <2>1. 0 \in Same
    BY <1>6, <1>1
  <2>2. ASSUME NEW k \in Nat, k \in Same PROVE k + 1 \in Same
    <3>1. SUFFICES ASSUME k + 1 <= r PROVE f[k + 1] = h[k + 1]
      OBVIOUS
    <3>2. f[k] = h[k] /\ k + 1 \in Nat \ {0} /\ (k + 1) - 1 = k
      BY <2>2, <3>1
    <3>3. f[k + 1] = Round(f, k + 1) /\ h[k + 1] = Round(h, k + 1)
      BY <1>6, <3>1
    <3> QED
      BY <3>2, <3>3, <1>2
  <2>3. Nat \subseteq Same
    <3> HIDE DEF Same
    <3> QED
      BY <2>1, <2>2, Induction
  <2> QED
    BY <2>3
<1>7. \A r \in Nat : Rounds(Chosen(r), r)
  BY <1>5
<1> HIDE DEF Chosen
<1>8. ASSUME NEW k \in Nat PROVE F[k] = Round(F, k)
  <2>1. F[k] = Round(Chosen(k), k)
    BY <1>7
  <2>2. CASE k = 0
    BY <2>1, <2>2, <1>1
  <2>3. CASE k # 0
    <3>1. k - 1 \in Nat /\ k = (k - 1) + 1 /\ k \in Nat \ {0}
      BY <2>3
    <3>2. Chosen(k - 1)[k - 1] = Chosen(k)[k - 1]
      BY <3>1, <1>6, <1>7
    <3>3. F[k - 1] = Chosen(k)[k - 1]
      BY <3>1, <3>2
    <3> HIDE DEF F
    <3> QED
      BY <2>1, <3>1, <3>3, <1>2
  <2> QED
    BY <2>2, <2>3
<1>9. Loop(F)
  <2>1. F = [k \in Nat |-> F[k]]
    OBVIOUS
  <2> HIDE DEF F
  <2> QED
    BY <2>1, <1>8
<1>10. Loop(Worth)
  BY <1>4, <1>9
<1> QED
  BY <1>3, <1>10 DEF Round

\* The trial of c after j rounds.
TrialAt(worth, c, j) ==
    Iterate([k \in 1..(Longest + 1) |-> [trial \in Trials |-> Try(worth, trial, c)]],
            [values |-> <<>>, result |-> None], j)

\* It has read the first of the values v, or it has ended.
TrialOK(trial, v, w, k, j) ==
    /\ trial \in Trials
    /\ j <= k => trial.values = Prefix(v, j) /\ trial.result = None
    /\ j > k => trial.result = w

\* One round of a trial does what the traced run did.
LEMMA TryStep ==
    ASSUME NEW c, NEW p, NEW v, NEW len \in Nat, NEW w \in Results, NEW worth, NEW k \in Nat,
           \A i \in 1..k : v[i] \in Values,
           \A i \in 1..len : Body(c, Prefix(v, i - 1)) = Reads(p[i]),
           \A i \in 1..len : p[i] # None /\ worth[p[i]] = v[i],
           \/ len = k /\ Body(c, Prefix(v, k)) = Returns(w)
           \/ len = k + 1 /\ v[len] = Errored /\ w = Errored,
           NEW trial, NEW j \in Nat, TrialOK(trial, v, w, k, j)
    PROVE  TrialOK(Try(worth, trial, c), v, w, k, j + 1)
<1> DEFINE next == Try(worth, trial, c)
           step == Body(c, trial.values)
<1>1. trial \in Trials /\ w # None /\ Errored \notin Values
  BY NodesAssumption DEF TrialOK
<1>2. CASE j > k
  <2>1. trial.result = w
    BY <1>2 DEF TrialOK
  <2>2. next = trial
    BY <1>1, <2>1 DEF Try
  <2> HIDE DEF next
  <2>3. TrialOK(next, v, w, k, j + 1)
    BY <1>1, <1>2, <2>1, <2>2 DEF TrialOK
  <2> QED
    BY <2>3 DEF next
<1>3. CASE j <= k
  <2>1. trial.values = Prefix(v, j) /\ trial.result = None
    BY <1>3 DEF TrialOK
  <2>2. CASE j < len
    <3>1. j + 1 \in 1..len /\ (j + 1) - 1 = j
      BY <2>2
    <3>2. Body(c, Prefix(v, (j + 1) - 1)) = Reads(p[j + 1]) /\ p[j + 1] # None
          /\ worth[p[j + 1]] = v[j + 1]
      BY <3>1
    <3>3. step = Reads(p[j + 1])
      BY <2>1, <3>1, <3>2
    <3>4. step.read = p[j + 1] /\ step.read # None /\ worth[step.read] = v[j + 1]
      BY <3>2, <3>3 DEF Reads
    <3>5. next = IF v[j + 1] = Errored THEN [trial EXCEPT !.result = Errored]
                 ELSE [trial EXCEPT !.values = Append(@, v[j + 1])]
      BY <2>1, <3>4 DEF Try
    <3> HIDE DEF next, step
    <3>6. CASE j + 1 <= k
      <4>1. v[j + 1] \in Values
        BY <3>6
      <4> DEFINE x == v[j + 1]
      <4>2. next = [trial EXCEPT !.values = Append(@, x)] /\ x \in Values
        BY <1>1, <3>5, <4>1
      <4> HIDE DEF x
      <4>3. next \in Trials /\ next.result = None /\ next.values = Append(trial.values, x)
        <5>1. trial.values \in Seq(Values) /\ Append(trial.values, x) \in Seq(Values)
          BY <1>1, <4>2 DEF Trials
        <5> QED
          BY <1>1, <2>1, <4>2, <5>1 DEF Trials
      <4>4. Append(trial.values, x) = Prefix(v, j + 1)
        <5> DEFINE s == Append(trial.values, x)
        <5>1. trial.values \in Seq(Values) /\ Len(trial.values) = j
              /\ \A i \in 1..j : trial.values[i] = v[i]
          <6>1. DOMAIN Prefix(v, j) = 1..j /\ \A i \in 1..j : Prefix(v, j)[i] = v[i]
            BY DEF Prefix
          <6>2. trial.values \in Seq(Values) /\ DOMAIN trial.values = 1..j
            BY <1>1, <2>1, <6>1 DEF Trials
          <6>3. Len(trial.values) = j
            BY <6>2, LenProperties
          <6> QED
            BY <2>1, <6>1, <6>2, <6>3
        <5>2. Longer(s, trial.values, x) /\ s \in Seq(Values)
          BY <4>2, <5>1, AppendFacts
        <5>3. /\ Len(s) = j + 1 /\ s[j + 1] = x
              /\ \A i \in 1..j : s[i] = trial.values[i]
          BY <5>1, <5>2 DEF Longer
        <5> HIDE DEF s
        <5>4. \A i \in 1..(j + 1) : s[i] = v[i]
          <6> SUFFICES ASSUME NEW i \in 1..(j + 1) PROVE s[i] = v[i]
            OBVIOUS
          <6>1. i \in 1..j \/ i = j + 1
            OBVIOUS
          <6> QED
            BY <5>1, <5>2, <5>3, <6>1 DEF x
        <5>5. s = [i \in 1..(j + 1) |-> v[i]]
          BY <5>2, <5>3, <5>4
        <5> QED
          BY <5>5 DEF Prefix, s
      <4>5. TrialOK(next, v, w, k, j + 1)
        BY <3>6, <4>3, <4>4 DEF TrialOK
      <4> QED
        BY <4>5 DEF next
    <3>7. CASE ~(j + 1 <= k)
      <4>1. len = k + 1 /\ j = k /\ v[j + 1] = Errored /\ w = Errored
        BY <1>3, <2>2, <3>7
      <4>2. next = [trial EXCEPT !.result = Errored]
        BY <3>5, <4>1
      <4>3. next \in Trials /\ next.result = w
        BY <1>1, <4>1, <4>2 DEF Trials
      <4>4. TrialOK(next, v, w, k, j + 1)
        BY <3>7, <4>3 DEF TrialOK
      <4> QED
        BY <4>4 DEF next
    <3> QED
      BY <3>6, <3>7
  <2>3. CASE ~(j < len)
    <3>1. j = k /\ Body(c, Prefix(v, k)) = Returns(w)
      BY <1>3, <2>3
    <3>2. step.read = None /\ step.result = w
      BY <2>1, <3>1 DEF Returns
    <3>3. next = [trial EXCEPT !.result = step.result]
      BY <2>1, <3>2 DEF Try
    <3> HIDE DEF next, step
    <3>4. next \in Trials /\ next.result = w
      BY <1>1, <3>2, <3>3 DEF Trials
    <3>5. TrialOK(next, v, w, k, j + 1)
      BY <3>1, <3>4 DEF TrialOK
    <3> QED
      BY <3>5 DEF next
  <2> QED
    BY <2>2, <2>3
<1> QED
  BY <1>2, <1>3

\* So a run is what the body does when it reads these values.
LEMMA TraceOutcome ==
    ASSUME NEW c, NEW p, NEW v, NEW len \in Nat, NEW w \in Results, NEW worth,
           Ran(c, p, v, len, w), \A i \in 1..len : p[i] # None /\ worth[p[i]] = v[i]
    PROVE  Outcome(worth, c) = w
<1>1. PICK k \in 0..Longest :
         /\ \A i \in 1..k : v[i] \in Values
         /\ \A i \in 1..len : Body(c, Prefix(v, i - 1)) = Reads(p[i])
         /\ \/ len = k /\ Body(c, Prefix(v, k)) = Returns(w)
            \/ len = k + 1 /\ v[len] = Errored /\ w = Errored
  BY DEF Ran
<1> DEFINE N == Longest + 1
           step == [j \in 1..N |-> [trial \in Trials |-> Try(worth, trial, c)]]
           start == [values |-> <<>>, result |-> None]
           At(j) == TrialAt(worth, c, j)
           Done == {j \in Nat : j <= N => TrialOK(At(j), v, w, k, j)}
<1>2. N \in Nat /\ k \in Nat /\ k < N
  BY <1>1, BodyAssumption
<1>3. At(0) = start /\ \A j \in Nat : At(j + 1) = step[j + 1][At(j)]
  <2>1. \A j : At(j) = Iterate(step, start, j)
    BY DEF TrialAt
  <2> HIDE DEF step, start, At
  <2> QED
    BY <2>1, IterateRounds
<1>4. 0 \in Done
  <2>1. <<>> = Prefix(v, 0)
    BY DEF Prefix
  <2>2. <<>> \in Seq(Values)
    OBVIOUS
  <2>3. start \in Trials /\ start.values = <<>> /\ start.result = None
    BY <2>2 DEF Trials
  <2> HIDE DEF start, At
  <2>4. TrialOK(start, v, w, k, 0)
    BY <1>2, <2>1, <2>3 DEF TrialOK
  <2> QED
    BY <1>3, <2>4
<1>5. ASSUME NEW j \in Nat, j \in Done PROVE j + 1 \in Done
  <2>1. SUFFICES ASSUME j + 1 <= N PROVE TrialOK(At(j + 1), v, w, k, j + 1)
    OBVIOUS
  <2>2. TrialOK(At(j), v, w, k, j)
    BY <1>2, <1>5, <2>1
  <2>3. At(j + 1) = Try(worth, At(j), c)
    <3>1. At(j + 1) = step[j + 1][At(j)]
      BY <1>3
    <3> HIDE DEF At
    <3>2. At(j) \in Trials /\ j + 1 \in 1..N
      BY <1>2, <2>1, <2>2 DEF TrialOK
    <3> QED
      BY <3>1, <3>2
  <2> HIDE DEF At
  <2> QED
    BY <1>1, <1>2, <2>2, <2>3, TryStep
<1>6. Nat \subseteq Done
  <2> HIDE DEF Done
  <2> QED
    BY <1>4, <1>5, Induction
<1>7. TrialOK(At(N), v, w, k, N)
  <2>1. N \in Done /\ N <= N
    BY <1>2, <1>6
  <2> HIDE DEF At
  <2> QED
    BY <2>1
<1>8. Outcome(worth, c) = At(N).result
  BY DEF Outcome, TrialAt
<1> HIDE DEF At
<1> QED
  BY <1>2, <1>7, <1>8 DEF TrialOK

-----------------------------------------------------------------------------
(* Theorems.                                                               *)

\* The values that the signals of h hold.
SignalValues(h) == [s \in Signals |-> h.value[s]]

\* By induction over Rank, what is trusted has the value that it is worth.
LEMMA TrustedIsCurrent ==
    ASSUME NEW h, Proper(h), NEW K, Trusts(h, K), Traced(h, K)
    PROVE  \A r \in Nat : \A n \in Signals \cup K :
              Rank[n] <= r => Worth[r][SignalValues(h)][n] = h.value[n]
<1> DEFINE start == SignalValues(h)
           Current(r) == \A n \in Signals \cup K :
                            Rank[n] <= r => Worth[r][start][n] = h.value[n]
           Done == {r \in Nat : Current(r)}
<1>1. /\ h \in Graphs /\ Shaped(h) /\ Versioned(h) /\ Valued(h) /\ K \subseteq Computeds
  BY ProperFacts DEF Trusts
<1>2. start \in [Signals -> Values] /\ \A s \in Signals : start[s] = h.value[s]
  BY <1>1 DEF SignalValues, Valued
<1> HIDE DEF start
<1>3. ASSUME NEW r \in Nat, r > 0 => Current(r - 1) PROVE Current(r)
  <2> SUFFICES ASSUME NEW n \in Signals \cup K, Rank[n] <= r
               PROVE  Worth[r][start][n] = h.value[n]
    OBVIOUS
  <2>1. n \in Producers /\ Rank[n] \in Nat /\ (Rank[n] = 0 <=> n \in Signals)
    BY <1>1, NodeFacts
  <2>2. Worth[r][start][n] = IF r = 0 \/ n \in Signals THEN start[n]
                             ELSE Outcome(Worth[r - 1][start], n)
    <3>1. Worth[r] = [x \in [Signals -> Values] |->
              [m \in Producers |-> IF r = 0 \/ m \in Signals THEN x[m]
                                   ELSE Outcome(Worth[r - 1][x], m)]]
      BY WorthRound
    <3>2. Worth[r][start] =
              [m \in Producers |-> IF r = 0 \/ m \in Signals THEN start[m]
                                   ELSE Outcome(Worth[r - 1][start], m)]
      BY <1>2, <3>1
    <3> QED
      BY <2>1, <3>2
  <2>3. CASE n \in Signals
    BY <1>2, <2>2, <2>3
  <2>4. CASE n \notin Signals
    <3>1. n \in K /\ n \in Computeds /\ n \in Consumers /\ r # 0 /\ r - 1 \in Nat
      BY <1>1, <2>1, <2>4, NodeFacts
    <3> DEFINE worth == Worth[r - 1][start]
               len == Len(h.prods[n])
    <3>2. Worth[r][start][n] = Outcome(worth, n)
      BY <2>2, <2>4, <3>1
    <3> HIDE DEF worth
    <3>3. ~h.dirty[n] /\ FreshUpto(h, n, len, K)
      BY <3>1 DEF Trusts
    <3>4. h.value[n] \in Results /\ len \in Nat
      <4>1. h.value[n] # Unset
        BY <1>1, <3>1, <3>3 DEF Valued
      <4> QED
        BY <1>1, <2>1, <3>1, <4>1, GraphTypes, LenProperties
    <3>5. Ran(n, h.prods[n], h.got[n], len, h.value[n])
      <4>1. h.value[n] # Unset
        BY <3>4, NodesAssumption
      <4> QED
        BY <3>1, <4>1 DEF Traced, HasTrace
    <3>6. ASSUME NEW i \in 1..len
          PROVE  h.prods[n][i] # None /\ worth[h.prods[n][i]] = h.got[n][i]
      <4> DEFINE m == h.prods[n][i]
      <4>1. m \in Signals \cup K /\ h.seen[n][i] = h.version[m]
        BY <3>3 DEF FreshUpto, EntryFresh
      <4>2. m \in Producers /\ Rank[m] < Rank[n]
        BY <1>1, <3>1 DEF Shaped
      <4>3. m # None
        BY <4>2, NodeFacts
      <4>4. h.got[n][i] = h.value[m]
        BY <1>1, <3>1, <4>1, <4>3 DEF Versioned
      <4>5. Rank[m] <= r - 1
        BY <2>1, <3>1, <4>2, NodeFacts
      <4> HIDE DEF m
      <4>6. worth[m] = h.value[m]
        BY <1>3, <3>1, <4>1, <4>5 DEF worth
      <4> QED
        BY <4>3, <4>4, <4>6 DEF m
    <3> HIDE DEF len
    <3>7. Outcome(worth, n) = h.value[n]
      BY <3>4, <3>5, <3>6, TraceOutcome
    <3> QED
      BY <3>2, <3>7
  <2> QED
    BY <2>3, <2>4
<1>4. 0 \in Done
  BY <1>3
<1>5. ASSUME NEW r \in Nat, r \in Done PROVE r + 1 \in Done
  <2>1. Current(r) /\ (r + 1) - 1 = r /\ r + 1 \in Nat
    BY <1>5
  <2> HIDE DEF Current
  <2> QED
    BY <1>3, <2>1
<1>6. Nat \subseteq Done
  <2> HIDE DEF Done
  <2> QED
    BY <1>4, <1>5, Induction
<1> QED
  BY <1>6 DEF start

\* In particular now.
LEMMA TrustedNow ==
    ASSUME IInv, NEW K, Trusts(g, K), Traced(g, Computeds), NEW n \in Signals \cup K
    PROVE  g.value[n] = Now(n)
<1>1. Proper(g) /\ K \subseteq Computeds
  BY DEF IInv, Trusts
<1>2. Rank[n] \in Nat /\ Rank[n] <= Rank[n]
  BY <1>1, NodeFacts
<1>3. Traced(g, K)
  BY <1>1 DEF Traced
<1>4. Worth[Rank[n]][SignalValues(g)][n] = g.value[n]
  BY <1>1, <1>2, <1>3, TrustedIsCurrent
<1> QED
  BY <1>4 DEF Now, SignalValues

\* Reads are glitch free: a computed that producerUpdateValueVersion returns without
\* polling has the value that its computation gives on the current signals, whatever was
\* written, read, linked and unlinked since it was computed.
THEOREM ReadsAreGlitchFree == Spec => []CleanIsCurrent
<1>1. ASSUME VInv PROVE CleanIsCurrent
  <2>1. PICK K : Trusts(g, K)
    BY <1>1 DEF VInv, Valid
  <2>2. IInv /\ Traced(g, Computeds)
    BY <1>1 DEF VInv, Valid
  <2> SUFFICES ASSUME NEW c \in Computeds, KnownClean(g, c) PROVE g.value[c] = Now(c)
    BY DEF CleanIsCurrent
  <2>3. c \in K
    BY <2>1 DEF Trusts
  <2> QED
    BY <2>1, <2>2, <2>3, TrustedNow
<1> QED
  BY <1>1, ValidInvariant, PTL

\* No change is lost: an effect that does not wait in the queue saw the current value of
\* everything it recorded, also while its body runs and writes signals that it has read.
THEOREM NoChangeIsLost == Spec => []EffectsAreCurrentOrQueued
<1>1. ASSUME VInv PROVE EffectsAreCurrentOrQueued
  <2>1. PICK K : Trusts(g, K) /\ EffectsFresh(g, active, destroyed \cup queue, K)
    BY <1>1 DEF VInv, Valid
  <2>2. IInv /\ Traced(g, Computeds) /\ g \in Graphs /\ Versioned(g) /\ Holes
    BY <1>1, ProperFacts DEF VInv, Valid, IInv
  <2> SUFFICES ASSUME NEW e \in Effects, e \notin destroyed, e \notin queue,
                      NEW i \in 1..ReadBy(g, active, e)
               PROVE  g.got[e][i] = Now(g.prods[e][i])
    BY DEF EffectsAreCurrentOrQueued, ReadBy
  <2> DEFINE n == g.prods[e][i]
  <2>3. e \in Consumers /\ i \in 1..Len(g.prods[e])
    <3>1. e \in Consumers
      BY NodeFacts
    <3>2. Len(g.prods[e]) \in Nat /\ g.next[e] \in Nat
      BY <2>2, <3>1, GraphTypes, LenProperties
    <3>3. active = e => g.next[e] <= Len(g.prods[e])
      BY <2>2 DEF Holes
    <3> QED
      BY <3>1, <3>2, <3>3 DEF ReadBy
  <2>4. n \in Signals \cup K /\ g.seen[e][i] = g.version[n]
    BY <2>1 DEF EffectsFresh, FreshUpto, EntryFresh
  <2>5. n # None
    BY <2>1, <2>4, NodeFacts DEF Trusts
  <2>6. g.got[e][i] = g.value[n]
    BY <2>2, <2>3, <2>4, <2>5 DEF Versioned
  <2> HIDE DEF n
  <2>7. g.value[n] = Now(n)
    BY <2>1, <2>2, <2>4, TrustedNow
  <2> QED
    BY <2>6, <2>7 DEF n
<1> QED
  BY <1>1, ValidInvariant, PTL
=============================================================================
