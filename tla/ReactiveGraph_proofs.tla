------------------------ MODULE ReactiveGraph_proofs ------------------------
(***************************************************************************)
(* Theorems about the reactive graph: whatever the number of signals,      *)
(* computed signals and effects, whatever the bodies and their nesting.    *)
(*                                                                         *)
(* Every operator on graphs is given by its effect, lowest first: a link   *)
(* is added or cut, a consumer's links are, a producer is accessed, what   *)
(* was not read again is dropped, a computed is polled, recomputed and     *)
(* brought up to date.  What is recursive over Rank is proved for a rank   *)
(* from the rank below it; a loop, for the rounds it has made.             *)
(*                                                                         *)
(* While links change, the consumers in a set X are in transition: Settled *)
(* says that every other consumer is linked exactly if it is live.         *)
(***************************************************************************)
EXTENDS ReactiveGraph, SequenceTheorems, WellFoundedInduction, NaturalsInduction, TLAPS

\* Induction over the natural numbers, for the set where a property holds.
LEMMA Induction ==
    ASSUME NEW S, 0 \in S, \A k \in Nat : k \in S => k + 1 \in S
    PROVE  Nat \subseteq S
<1>1. SUFFICES ASSUME Nat \ S # {} PROVE FALSE
  OBVIOUS
<1>2. PICK m \in Nat \ S : \A k \in Nat \ S : ~(<<k, m>> \in OpToRel(<, Nat))
  <2>1. IsWellFoundedOn(OpToRel(<, Nat), Nat)
    BY NatLessThanWellFounded
  <2> QED
    BY <1>1, <2>1, WFMin
<1>3. m \in Nat /\ m # 0
  OBVIOUS
<1>4. m - 1 \in Nat /\ m = (m - 1) + 1 /\ m - 1 < m
  BY <1>3
<1>5. <<m - 1, m>> \in OpToRel(<, Nat)
  BY <1>3, <1>4 DEF OpToRel
<1>6. m - 1 \in S
  BY <1>2, <1>4, <1>5
<1> QED
  BY <1>2, <1>4, <1>6

\* What a loop computes, one round after the other.
LEMMA IterateRounds ==
    ASSUME NEW step, NEW start
    PROVE  /\ Iterate(step, start, 0) = start
           /\ \A k \in Nat : Iterate(step, start, k + 1) = step[k + 1][Iterate(step, start, k)]
<1> DEFINE Round(f, k) == IF k = 0 THEN start ELSE step[k][f[k - 1]]
           Rounds(f, n) == \A k \in 0..n : f[k] = Round(f, k)
           Chosen(n) == CHOOSE f : Rounds(f, n)
           F == [n \in Nat |-> Chosen(n)[n]]
           Loop(f) == f = [k \in Nat |-> Round(f, k)]
           after == CHOOSE f : Loop(f)
<1>1. \A n \in Nat : \E f : Rounds(f, n)
  <2> DEFINE Built == {n \in Nat : \E f : Rounds(f, n)}
  <2>1. 0 \in Built
    <3>1. Rounds([k \in {0} |-> start], 0)
      OBVIOUS
    <3> QED
      BY <3>1
  <2>2. ASSUME NEW n \in Nat, n \in Built PROVE n + 1 \in Built
    <3>1. PICK f : Rounds(f, n)
      BY <2>2
    <3> DEFINE h == [k \in 0..(n + 1) |-> IF k = n + 1 THEN step[k][f[n]] ELSE f[k]]
    <3>2. \A k \in 0..n : h[k] = f[k]
      OBVIOUS
    <3>3. h[n + 1] = step[n + 1][f[n]]
      OBVIOUS
    <3> HIDE DEF h
    <3>4. ASSUME NEW k \in 0..(n + 1) PROVE h[k] = Round(h, k)
      <4>1. CASE k = n + 1
        BY <4>1, <3>2, <3>3
      <4>2. CASE k = 0
        BY <4>2, <3>1, <3>2
      <4>3. CASE k \in 1..n
        <5>1. k - 1 \in 0..n /\ k \in 0..n /\ k # 0
          BY <4>3
        <5>2. h[k] = f[k] /\ h[k - 1] = f[k - 1]
          BY <5>1, <3>2
        <5> QED
          BY <5>1, <5>2, <3>1
      <4> QED
        BY <4>1, <4>2, <4>3
    <3>5. Rounds(h, n + 1)
      BY <3>4
    <3> QED
      BY <3>5
  <2>3. Nat \subseteq Built
    <3> HIDE DEF Built
    <3> QED
      BY <2>1, <2>2, Induction
  <2> QED
    BY <2>3
<1>2. ASSUME NEW n \in Nat, NEW f, NEW h, Rounds(f, n), Rounds(h, n + 1)
      PROVE  f[n] = h[n]
  <2> DEFINE Same == {k \in Nat : k <= n => f[k] = h[k]}
  <2>1. 0 \in Same
    BY <1>2
  <2>2. ASSUME NEW k \in Nat, k \in Same PROVE k + 1 \in Same
    BY <1>2, <2>2
  <2>3. Nat \subseteq Same
    <3> HIDE DEF Same
    <3> QED
      BY <2>1, <2>2, Induction
  <2> QED
    BY <2>3
<1>3. \A n \in Nat : Rounds(Chosen(n), n)
  BY <1>1
<1> HIDE DEF Chosen
<1>4. ASSUME NEW k \in Nat PROVE F[k] = Round(F, k)
  <2>1. CASE k = 0
    BY <2>1, <1>3
  <2>2. CASE k # 0
    <3>1. k - 1 \in Nat /\ k = (k - 1) + 1
      BY <2>2
    <3>2. Chosen(k - 1)[k - 1] = Chosen(k)[k - 1]
      BY <3>1, <1>2, <1>3
    <3>3. Chosen(k)[k] = Round(Chosen(k), k)
      BY <1>3
    <3> QED
      BY <2>2, <3>1, <3>2, <3>3
  <2> QED
    BY <2>1, <2>2
<1>5. Loop(F)
  <2>1. F = [k \in Nat |-> F[k]]
    OBVIOUS
  <2> HIDE DEF F, Round
  <2> QED
    BY <2>1, <1>4
<1>6. Loop(after)
  BY <1>5
<1>7. \A n : Iterate(step, start, n) = after[n]
  BY DEF Iterate
<1> HIDE DEF after
<1>8. \A k \in Nat : after[k] = Round(after, k)
  BY <1>6
<1> QED
  BY <1>7, <1>8

\* Round k + 1 starts from what round k left.
GoesOn(step, start, k) == Iterate(step, start, k + 1) = step[k + 1][Iterate(step, start, k)]

\* So does every round.
LEMMA IterateGoesOn == \A step, start : \A k \in Nat : GoesOn(step, start, k)
  BY IterateRounds DEF GoesOn

-----------------------------------------------------------------------------
(* The recursive functions are what they are written as.                   *)

\* AddLive is the recursion over ranks it is written as.
LEMMA AddLiveRound ==
    \A r \in Nat :
        AddLive[r] =
            [n \in Producers |-> [consumer \in Consumers |-> [i \in Nat |-> [h \in Graphs |->
                Link(IF r > 0 /\ n \in Computeds /\ h.live[n] = <<>>
                       THEN LinkProducers(AddLive[r - 1], h, n) ELSE h,
                     n, consumer, i)]]]]
<1> DEFINE Round(f, r) ==
              [n \in Producers |-> [consumer \in Consumers |-> [i \in Nat |-> [h \in Graphs |->
                  Link(IF r > 0 /\ n \in Computeds /\ h.live[n] = <<>>
                         THEN LinkProducers(f[r - 1], h, n) ELSE h,
                       n, consumer, i)]]]]
           Rounds(f, r) == \A k \in 0..r : f[k] = Round(f, k)
           Chosen(r) == CHOOSE f : Rounds(f, r)
           F == [r \in Nat |-> Chosen(r)[r]]
           Loop(f) == f = [r \in Nat |-> Round(f, r)]
<1>1. \A f, h : Round(f, 0) = Round(h, 0)
  OBVIOUS
<1>2. \A f, h : \A k \in Nat \ {0} : f[k - 1] = h[k - 1] => Round(f, k) = Round(h, k)
  OBVIOUS
<1>3. \A f : Loop(f) => \A r \in Nat : f[r] = Round(f, r)
  <2> HIDE DEF Round
  <2> QED
    OBVIOUS
<1>4. AddLive = CHOOSE f : Loop(f)
  BY DEF AddLive
<1> HIDE DEF Round
<1>5. \A r \in Nat : \E f : Rounds(f, r)
  <2> DEFINE Built == {r \in Nat : \E f : Rounds(f, r)}
  <2>1. 0 \in Built
    <3> DEFINE h == [k \in {0} |-> Round(<<>>, 0)]
    <3>1. h[0] = Round(h, 0)
      <4>1. h[0] = Round(<<>>, 0)
        OBVIOUS
      <4> QED
        BY <4>1, <1>1
    <3>2. Rounds(h, 0)
      BY <3>1
    <3> QED
      BY <3>2
  <2>2. ASSUME NEW r \in Nat, r \in Built PROVE r + 1 \in Built
    <3>1. PICK f : Rounds(f, r)
      BY <2>2
    <3> DEFINE h == [k \in 0..(r + 1) |-> IF k = r + 1 THEN Round(f, k) ELSE f[k]]
    <3>2. \A k \in 0..r : h[k] = f[k]
      OBVIOUS
    <3>3. h[r + 1] = Round(f, r + 1)
      OBVIOUS
    <3> HIDE DEF h
    <3>4. ASSUME NEW k \in 0..(r + 1) PROVE h[k] = Round(h, k)
      <4>1. f[k] = Round(f, k) \/ k = r + 1
        BY <3>1
      <4>2. h[k] = Round(f, k)
        BY <4>1, <3>2, <3>3
      <4>3. CASE k = 0
        BY <4>2, <4>3, <1>1
      <4>4. CASE k # 0
        <5>1. k - 1 \in 0..r /\ k \in Nat \ {0}
          BY <4>4
        <5>2. h[k - 1] = f[k - 1]
          BY <5>1, <3>2
        <5> QED
          BY <4>2, <5>1, <5>2, <1>2
      <4> QED
        BY <4>3, <4>4
    <3>5. Rounds(h, r + 1)
      BY <3>4
    <3> QED
      BY <3>5
  <2>3. Nat \subseteq Built
    <3> HIDE DEF Built
    <3> QED
      BY <2>1, <2>2, Induction
  <2> QED
    BY <2>3
<1>6. ASSUME NEW r \in Nat, NEW f, NEW h, Rounds(f, r), Rounds(h, r + 1)
      PROVE  f[r] = h[r]
  <2> DEFINE Same == {k \in Nat : k <= r => f[k] = h[k]}
  <2>1. 0 \in Same
    BY <1>6, <1>1
  <2>2. ASSUME NEW k \in Nat, k \in Same PROVE k + 1 \in Same
    <3>1. SUFFICES ASSUME k + 1 <= r PROVE f[k + 1] = h[k + 1]
      OBVIOUS
    <3>2. f[k] = h[k] /\ k + 1 \in Nat \ {0} /\ (k + 1) - 1 = k
      BY <2>2, <3>1
    <3>3. f[k + 1] = Round(f, k + 1) /\ h[k + 1] = Round(h, k + 1)
      BY <1>6, <3>1
    <3> QED
      BY <3>2, <3>3, <1>2
  <2>3. Nat \subseteq Same
    <3> HIDE DEF Same
    <3> QED
      BY <2>1, <2>2, Induction
  <2> QED
    BY <2>3
<1>7. \A r \in Nat : Rounds(Chosen(r), r)
  BY <1>5
<1> HIDE DEF Chosen
<1>8. ASSUME NEW k \in Nat PROVE F[k] = Round(F, k)
  <2>1. F[k] = Round(Chosen(k), k)
    BY <1>7
  <2>2. CASE k = 0
    BY <2>1, <2>2, <1>1
  <2>3. CASE k # 0
    <3>1. k - 1 \in Nat /\ k = (k - 1) + 1 /\ k \in Nat \ {0}
      BY <2>3
    <3>2. Chosen(k - 1)[k - 1] = Chosen(k)[k - 1]
      BY <3>1, <1>6, <1>7
    <3>3. F[k - 1] = Chosen(k)[k - 1]
      BY <3>1, <3>2
    <3> HIDE DEF F
    <3> QED
      BY <2>1, <3>1, <3>3, <1>2
  <2> QED
    BY <2>2, <2>3
<1>9. Loop(F)
  <2>1. F = [k \in Nat |-> F[k]]
    OBVIOUS
  <2> HIDE DEF F
  <2> QED
    BY <2>1, <1>8
<1>10. Loop(AddLive)
  BY <1>4, <1>9
<1> QED
  BY <1>3, <1>10 DEF Round

\* RemoveLive is the recursion over ranks it is written as.
LEMMA RemoveLiveRound ==
    \A r \in Nat :
        RemoveLive[r] =
            [n \in Producers |-> [k \in Nat |-> [h \in Graphs |->
                UnlinkAt(IF r > 0 /\ n \in Computeds /\ Len(h.live[n]) = 1
                           THEN UnlinkProducers(RemoveLive[r - 1], h, n) ELSE h,
                         n, k)]]]
<1> DEFINE Round(f, r) ==
              [n \in Producers |-> [k \in Nat |-> [h \in Graphs |->
                  UnlinkAt(IF r > 0 /\ n \in Computeds /\ Len(h.live[n]) = 1
                             THEN UnlinkProducers(f[r - 1], h, n) ELSE h,
                           n, k)]]]
           Rounds(f, r) == \A k \in 0..r : f[k] = Round(f, k)
           Chosen(r) == CHOOSE f : Rounds(f, r)
           F == [r \in Nat |-> Chosen(r)[r]]
           Loop(f) == f = [r \in Nat |-> Round(f, r)]
<1>1. \A f, h : Round(f, 0) = Round(h, 0)
  OBVIOUS
<1>2. \A f, h : \A k \in Nat \ {0} : f[k - 1] = h[k - 1] => Round(f, k) = Round(h, k)
  OBVIOUS
<1>3. \A f : Loop(f) => \A r \in Nat : f[r] = Round(f, r)
  <2> HIDE DEF Round
  <2> QED
    OBVIOUS
<1>4. RemoveLive = CHOOSE f : Loop(f)
  BY DEF RemoveLive
<1> HIDE DEF Round
<1>5. \A r \in Nat : \E f : Rounds(f, r)
  <2> DEFINE Built == {r \in Nat : \E f : Rounds(f, r)}
  <2>1. 0 \in Built
    <3> DEFINE h == [k \in {0} |-> Round(<<>>, 0)]
    <3>1. h[0] = Round(h, 0)
      <4>1. h[0] = Round(<<>>, 0)
        OBVIOUS
      <4> QED
        BY <4>1, <1>1
    <3>2. Rounds(h, 0)
      BY <3>1
    <3> QED
      BY <3>2
  <2>2. ASSUME NEW r \in Nat, r \in Built PROVE r + 1 \in Built
    <3>1. PICK f : Rounds(f, r)
      BY <2>2
    <3> DEFINE h == [k \in 0..(r + 1) |-> IF k = r + 1 THEN Round(f, k) ELSE f[k]]
    <3>2. \A k \in 0..r : h[k] = f[k]
      OBVIOUS
    <3>3. h[r + 1] = Round(f, r + 1)
      OBVIOUS
    <3> HIDE DEF h
    <3>4. ASSUME NEW k \in 0..(r + 1) PROVE h[k] = Round(h, k)
      <4>1. f[k] = Round(f, k) \/ k = r + 1
        BY <3>1
      <4>2. h[k] = Round(f, k)
        BY <4>1, <3>2, <3>3
      <4>3. CASE k = 0
        BY <4>2, <4>3, <1>1
      <4>4. CASE k # 0
        <5>1. k - 1 \in 0..r /\ k \in Nat \ {0}
          BY <4>4
        <5>2. h[k - 1] = f[k - 1]
          BY <5>1, <3>2
        <5> QED
          BY <4>2, <5>1, <5>2, <1>2
      <4> QED
        BY <4>3, <4>4
    <3>5. Rounds(h, r + 1)
      BY <3>4
    <3> QED
      BY <3>5
  <2>3. Nat \subseteq Built
    <3> HIDE DEF Built
    <3> QED
      BY <2>1, <2>2, Induction
  <2> QED
    BY <2>3
<1>6. ASSUME NEW r \in Nat, NEW f, NEW h, Rounds(f, r), Rounds(h, r + 1)
      PROVE  f[r] = h[r]
  <2> DEFINE Same == {k \in Nat : k <= r => f[k] = h[k]}
  <2>1. 0 \in Same
    BY <1>6, <1>1
  <2>2. ASSUME NEW k \in Nat, k \in Same PROVE k + 1 \in Same
    <3>1. SUFFICES ASSUME k + 1 <= r PROVE f[k + 1] = h[k + 1]
      OBVIOUS
    <3>2. f[k] = h[k] /\ k + 1 \in Nat \ {0} /\ (k + 1) - 1 = k
      BY <2>2, <3>1
    <3>3. f[k + 1] = Round(f, k + 1) /\ h[k + 1] = Round(h, k + 1)
      BY <1>6, <3>1
    <3> QED
      BY <3>2, <3>3, <1>2
  <2>3. Nat \subseteq Same
    <3> HIDE DEF Same
    <3> QED
      BY <2>1, <2>2, Induction
  <2> QED
    BY <2>3
<1>7. \A r \in Nat : Rounds(Chosen(r), r)
  BY <1>5
<1> HIDE DEF Chosen
<1>8. ASSUME NEW k \in Nat PROVE F[k] = Round(F, k)
  <2>1. F[k] = Round(Chosen(k), k)
    BY <1>7
  <2>2. CASE k = 0
    BY <2>1, <2>2, <1>1
  <2>3. CASE k # 0
    <3>1. k - 1 \in Nat /\ k = (k - 1) + 1 /\ k \in Nat \ {0}
      BY <2>3
    <3>2. Chosen(k - 1)[k - 1] = Chosen(k)[k - 1]
      BY <3>1, <1>6, <1>7
    <3>3. F[k - 1] = Chosen(k)[k - 1]
      BY <3>1, <3>2
    <3> HIDE DEF F
    <3> QED
      BY <2>1, <3>1, <3>3, <1>2
  <2> QED
    BY <2>2, <2>3
<1>9. Loop(F)
  <2>1. F = [k \in Nat |-> F[k]]
    OBVIOUS
  <2> HIDE DEF F
  <2> QED
    BY <2>1, <1>8
<1>10. Loop(RemoveLive)
  BY <1>4, <1>9
<1> QED
  BY <1>3, <1>10 DEF Round

\* Update is the recursion over ranks it is written as.
LEMMA UpdateRound ==
    \A r \in Nat :
        Update[r] =
            [n \in Producers |-> [h \in Graphs |->
                IF r = 0 \/ n \in Signals \/ KnownClean(h, n) THEN h
                ELSE BringUpToDate(Update[r - 1], h, n)]]
<1> DEFINE Round(f, r) ==
              [n \in Producers |-> [h \in Graphs |->
                  IF r = 0 \/ n \in Signals \/ KnownClean(h, n) THEN h
                  ELSE BringUpToDate(f[r - 1], h, n)]]
           Rounds(f, r) == \A k \in 0..r : f[k] = Round(f, k)
           Chosen(r) == CHOOSE f : Rounds(f, r)
           F == [r \in Nat |-> Chosen(r)[r]]
           Loop(f) == f = [r \in Nat |-> Round(f, r)]
<1>1. \A f, h : Round(f, 0) = Round(h, 0)
  OBVIOUS
<1>2. \A f, h : \A k \in Nat \ {0} : f[k - 1] = h[k - 1] => Round(f, k) = Round(h, k)
  OBVIOUS
<1>3. \A f : Loop(f) => \A r \in Nat : f[r] = Round(f, r)
  <2> HIDE DEF Round
  <2> QED
    OBVIOUS
<1>4. Update = CHOOSE f : Loop(f)
  BY DEF Update
<1> HIDE DEF Round
<1>5. \A r \in Nat : \E f : Rounds(f, r)
  <2> DEFINE Built == {r \in Nat : \E f : Rounds(f, r)}
  <2>1. 0 \in Built
    <3> DEFINE h == [k \in {0} |-> Round(<<>>, 0)]
    <3>1. h[0] = Round(h, 0)
      <4>1. h[0] = Round(<<>>, 0)
        OBVIOUS
      <4> QED
        BY <4>1, <1>1
    <3>2. Rounds(h, 0)
      BY <3>1
    <3> QED
      BY <3>2
  <2>2. ASSUME NEW r \in Nat, r \in Built PROVE r + 1 \in Built
    <3>1. PICK f : Rounds(f, r)
      BY <2>2
    <3> DEFINE h == [k \in 0..(r + 1) |-> IF k = r + 1 THEN Round(f, k) ELSE f[k]]
    <3>2. \A k \in 0..r : h[k] = f[k]
      OBVIOUS
    <3>3. h[r + 1] = Round(f, r + 1)
      OBVIOUS
    <3> HIDE DEF h
    <3>4. ASSUME NEW k \in 0..(r + 1) PROVE h[k] = Round(h, k)
      <4>1. f[k] = Round(f, k) \/ k = r + 1
        BY <3>1
      <4>2. h[k] = Round(f, k)
        BY <4>1, <3>2, <3>3
      <4>3. CASE k = 0
        BY <4>2, <4>3, <1>1
      <4>4. CASE k # 0
        <5>1. k - 1 \in 0..r /\ k \in Nat \ {0}
          BY <4>4
        <5>2. h[k - 1] = f[k - 1]
          BY <5>1, <3>2
        <5> QED
          BY <4>2, <5>1, <5>2, <1>2
      <4> QED
        BY <4>3, <4>4
    <3>5. Rounds(h, r + 1)
      BY <3>4
    <3> QED
      BY <3>5
  <2>3. Nat \subseteq Built
    <3> HIDE DEF Built
    <3> QED
      BY <2>1, <2>2, Induction
  <2> QED
    BY <2>3
<1>6. ASSUME NEW r \in Nat, NEW f, NEW h, Rounds(f, r), Rounds(h, r + 1)
      PROVE  f[r] = h[r]
  <2> DEFINE Same == {k \in Nat : k <= r => f[k] = h[k]}
  <2>1. 0 \in Same
    BY <1>6, <1>1
  <2>2. ASSUME NEW k \in Nat, k \in Same PROVE k + 1 \in Same
    <3>1. SUFFICES ASSUME k + 1 <= r PROVE f[k + 1] = h[k + 1]
      OBVIOUS
    <3>2. f[k] = h[k] /\ k + 1 \in Nat \ {0} /\ (k + 1) - 1 = k
      BY <2>2, <3>1
    <3>3. f[k + 1] = Round(f, k + 1) /\ h[k + 1] = Round(h, k + 1)
      BY <1>6, <3>1
    <3> QED
      BY <3>2, <3>3, <1>2
  <2>3. Nat \subseteq Same
    <3> HIDE DEF Same
    <3> QED
      BY <2>1, <2>2, Induction
  <2> QED
    BY <2>3
<1>7. \A r \in Nat : Rounds(Chosen(r), r)
  BY <1>5
<1> HIDE DEF Chosen
<1>8. ASSUME NEW k \in Nat PROVE F[k] = Round(F, k)
  <2>1. F[k] = Round(Chosen(k), k)
    BY <1>7
  <2>2. CASE k = 0
    BY <2>1, <2>2, <1>1
  <2>3. CASE k # 0
    <3>1. k - 1 \in Nat /\ k = (k - 1) + 1 /\ k \in Nat \ {0}
      BY <2>3
    <3>2. Chosen(k - 1)[k - 1] = Chosen(k)[k - 1]
      BY <3>1, <1>6, <1>7
    <3>3. F[k - 1] = Chosen(k)[k - 1]
      BY <3>1, <3>2
    <3> HIDE DEF F
    <3> QED
      BY <2>1, <3>1, <3>3, <1>2
  <2> QED
    BY <2>2, <2>3
<1>9. Loop(F)
  <2>1. F = [k \in Nat |-> F[k]]
    OBVIOUS
  <2> HIDE DEF F
  <2> QED
    BY <2>1, <1>8
<1>10. Loop(Update)
  BY <1>4, <1>9
<1> QED
  BY <1>3, <1>10 DEF Round

-----------------------------------------------------------------------------
(* Links between producers and live consumers.                             *)

\* The arrays of a consumer are parallel, those of a producer too, and a computed
\* reads what has a lower rank.
Shaped(h) ==
    /\ h \in Graphs
    /\ \A n \in Producers : Len(h.liveIdx[n]) = Len(h.live[n])
    /\ \A c \in Consumers : /\ Len(h.seen[c]) = Len(h.prods[c])
                           /\ Len(h.indexOf[c]) = Len(h.prods[c])
                           /\ Len(h.got[c]) = Len(h.prods[c])
    /\ \A c \in Computeds : \A i \in 1..Len(h.prods[c]) :
          h.prods[c][i] \in Producers /\ Rank[h.prods[c][i]] < Rank[c]

\* The i-th entry of the consumer c and an entry of its producer point at each other.
Linked(h, c, i) ==
    LET n == h.prods[c][i]
        k == h.indexOf[c][i]
    IN  /\ i \in 1..Len(h.prods[c]) /\ n \in Producers
        /\ k \in 1..Len(h.live[n]) /\ h.live[n][k] = c /\ h.liveIdx[n][k] = i

\* Every live consumer of a producer is an entry of that consumer, and points back.
Matched(h) ==
    \A n \in Producers : \A k \in 1..Len(h.live[n]) :
        LET c == h.live[n][k]
            i == h.liveIdx[n][k]
        IN  i \in 1..Len(h.prods[c]) /\ h.prods[c][i] = n /\ h.indexOf[c][i] = k

\* Only links differ.
SameNodes(h, h2) ==
    /\ h2.epoch = h.epoch /\ h2.value = h.value /\ h2.version = h.version
    /\ h2.clean = h.clean /\ h2.dirty = h.dirty /\ h2.prods = h.prods
    /\ h2.seen = h.seen /\ h2.next = h.next /\ h2.got = h.got

\* The fields of a graph.
LEMMA GraphTypes ==
    ASSUME NEW h \in Graphs
    PROVE  /\ h.epoch \in Nat
           /\ h.value \in [Producers -> Results \cup {Unset}]
           /\ h.version \in [Producers -> Nat]
           /\ h.clean \in [Computeds -> Nat]
           /\ h.dirty \in [Consumers -> BOOLEAN]
           /\ h.prods \in [Consumers -> Seq(Producers \cup {None})]
           /\ h.seen \in [Consumers -> Seq(Nat \cup {None})]
           /\ h.indexOf \in [Consumers -> Seq(Nat)]
           /\ h.next \in [Consumers -> Nat]
           /\ h.live \in [Producers -> Seq(Consumers)]
           /\ h.liveIdx \in [Producers -> Seq(Nat)]
           /\ h.got \in [Consumers -> Seq(Results \cup {Unset, None})]
  BY DEF Graphs

\* Comparing in two steps.
LEMMA AtMostTransitive == \A a, b, c \in Nat : a <= b /\ b <= c => a <= c
  OBVIOUS

\* The sequence t is s with x at the end.
Longer(t, s, x) ==
    /\ Len(t) = Len(s) + 1 /\ t[Len(s) + 1] = x
    /\ \A k \in 1..Len(s) : t[k] = s[k]

\* This is what Append computes.
LEMMA AppendFacts ==
    ASSUME NEW S, NEW s \in Seq(S), NEW x \in S
    PROVE  Longer(Append(s, x), s, x)
  BY AppendProperties DEF Longer

\* Linking an entry that was not linked adds this link and no other.
LEMMA LinkEffect ==
    ASSUME NEW h, Shaped(h), Matched(h), NEW n \in Producers, NEW c \in Consumers,
           NEW i \in 1..Len(h.prods[c]), h.prods[c][i] = n, ~Linked(h, c, i)
    PROVE  LET h2 == Link(h, n, c, i)
           IN  /\ Shaped(h2) /\ Matched(h2) /\ SameNodes(h, h2)
               /\ \A m \in Producers \ {n} : /\ h2.live[m] = h.live[m]
                                             /\ h2.liveIdx[m] = h.liveIdx[m]
               /\ Len(h2.live[n]) = Len(h.live[n]) + 1
               /\ \A x \in Consumers : \A j : 
                     Linked(h2, x, j) <=> Linked(h, x, j) \/ (x = c /\ j = i)
<1> DEFINE h2 == Link(h, n, c, i)
           last == Len(h.live[n]) + 1
<1>1. /\ h \in Graphs /\ h2 \in Graphs /\ SameNodes(h, h2)
      /\ h2.live = [h.live EXCEPT ![n] = Append(@, c)]
      /\ h2.liveIdx = [h.liveIdx EXCEPT ![n] = Append(@, i)]
      /\ h2.indexOf = [h.indexOf EXCEPT ![c] = [@ EXCEPT ![i] = last]]
  <2>1. h \in Graphs /\ Len(h.indexOf[c]) = Len(h.prods[c])
    BY DEF Shaped
  <2>2. /\ h2.live = [h.live EXCEPT ![n] = Append(@, c)]
        /\ h2.liveIdx = [h.liveIdx EXCEPT ![n] = Append(@, i)]
        /\ h2.indexOf = [h.indexOf EXCEPT ![c] = [@ EXCEPT ![i] = last]]
    BY <2>1 DEF Link, Graphs
  <2>3. SameNodes(h, h2)
    BY <2>1 DEF Link, Graphs, SameNodes
  <2>4. /\ h2.live \in [Producers -> Seq(Consumers)]
        /\ h2.liveIdx \in [Producers -> Seq(Nat)]
        /\ h2.indexOf \in [Consumers -> Seq(Nat)]
    <3>1. Append(h.live[n], c) \in Seq(Consumers) /\ Append(h.liveIdx[n], i) \in Seq(Nat)
      BY <2>1, GraphTypes, AppendProperties
    <3>2. [h.indexOf[c] EXCEPT ![i] = last] \in Seq(Nat)
      BY <2>1, GraphTypes, ExceptSeq, LenProperties
    <3> QED
      BY <2>1, <2>2, <3>1, <3>2, GraphTypes
  <2>5. h2 \in Graphs
    BY <2>1, <2>4 DEF Link, Graphs
  <2> QED
    BY <2>1, <2>2, <2>3, <2>5
<1>2. /\ Len(h.live[n]) \in Nat /\ last \in Nat /\ i \in Nat
      /\ Len(h.liveIdx[n]) = Len(h.live[n])
      /\ h.live[n] \in Seq(Consumers) /\ h.liveIdx[n] \in Seq(Nat)
      /\ Len(h.prods[c]) \in Nat
  <2>1. /\ h.live[n] \in Seq(Consumers) /\ h.liveIdx[n] \in Seq(Nat)
        /\ h.prods[c] \in Seq(Producers \cup {None})
    BY <1>1, GraphTypes
  <2>2. Len(h.live[n]) \in Nat /\ Len(h.prods[c]) \in Nat
    BY <2>1, LenProperties
  <2> QED
    BY <2>1, <2>2 DEF Shaped
<1>3. /\ \A m \in Producers \ {n} : h2.live[m] = h.live[m] /\ h2.liveIdx[m] = h.liveIdx[m]
      /\ Len(h2.live[n]) = last /\ Len(h2.liveIdx[n]) = last
      /\ h2.live[n][last] = c /\ h2.liveIdx[n][last] = i
      /\ \A k \in 1..Len(h.live[n]) : h2.live[n][k] = h.live[n][k]
                                      /\ h2.liveIdx[n][k] = h.liveIdx[n][k]
  <2> HIDE DEF h2, last
  <2>a. h.live \in [Producers -> Seq(Consumers)] /\ h.liveIdx \in [Producers -> Seq(Nat)]
    BY <1>1, GraphTypes
  <2>b. /\ h2.live = [h.live EXCEPT ![n] = Append(@, c)]
        /\ h2.liveIdx = [h.liveIdx EXCEPT ![n] = Append(@, i)]
    BY <1>1
  <2>1. h2.live[n] = Append(h.live[n], c) /\ h2.liveIdx[n] = Append(h.liveIdx[n], i)
    BY <2>a, <2>b
  <2>2. \A m \in Producers \ {n} : h2.live[m] = h.live[m] /\ h2.liveIdx[m] = h.liveIdx[m]
    BY <2>a, <2>b
  <2>3. /\ Len(h2.live[n]) = last /\ h2.live[n][last] = c
        /\ \A k \in 1..Len(h.live[n]) : h2.live[n][k] = h.live[n][k]
    <3>1. Longer(h2.live[n], h.live[n], c)
      BY <1>2, <2>1, AppendFacts
    <3> QED
      BY <3>1 DEF last, Longer
  <2>4. /\ Len(h2.liveIdx[n]) = last /\ h2.liveIdx[n][last] = i
        /\ \A k \in 1..Len(h.live[n]) : h2.liveIdx[n][k] = h.liveIdx[n][k]
    <3>1. Longer(h2.liveIdx[n], h.liveIdx[n], i)
      BY <1>2, <2>1, AppendFacts
    <3> QED
      BY <1>2, <3>1 DEF last, Longer
  <2> QED
    BY <2>2, <2>3, <2>4
<1>4. /\ \A x \in Consumers : Len(h2.indexOf[x]) = Len(h.indexOf[x])
      /\ h2.indexOf[c][i] = last
      /\ \A x \in Consumers : \A j \in 1..Len(h.prods[x]) :
            x # c \/ j # i => h2.indexOf[x][j] = h.indexOf[x][j]
  <2>1. h.indexOf[c] \in Seq(Nat) /\ Len(h.indexOf[c]) = Len(h.prods[c])
    BY <1>1, GraphTypes DEF Shaped
  <2>2. /\ Len([h.indexOf[c] EXCEPT ![i] = last]) = Len(h.indexOf[c])
        /\ \A j \in 1..Len(h.prods[c]) :
              [h.indexOf[c] EXCEPT ![i] = last][j] = IF j = i THEN last ELSE h.indexOf[c][j]
    BY <2>1, <1>2, ExceptSeq
  <2>3. /\ h2.indexOf[c] = [h.indexOf[c] EXCEPT ![i] = last]
        /\ \A x \in Consumers \ {c} : h2.indexOf[x] = h.indexOf[x]
    BY <1>1, GraphTypes
  <2> HIDE DEF h2, last
  <2> QED
    BY <2>2, <2>3, <2>1
<1> HIDE DEF h2
<1>5. Shaped(h2)
  BY <1>1, <1>3, <1>4 DEF Shaped, SameNodes
<1>6. \A x \in Consumers : \A j :
         Linked(h2, x, j) <=> Linked(h, x, j) \/ (x = c /\ j = i)
  <2> TAKE x \in Consumers
  <2> TAKE j
  <2>1. CASE x = c /\ j = i
    <3>1. h2.prods = h.prods
      BY <1>1 DEF SameNodes
    <3>2. last \in 1..Len(h2.live[n])
      BY <1>2, <1>3
    <3> QED
      BY <2>1, <3>1, <3>2, <1>3, <1>4 DEF Linked
  <2>2. CASE ~(x = c /\ j = i)
    <3> DEFINE m == h.prods[x][j]
               k == h.indexOf[x][j]
    <3> SUFFICES ASSUME j \in 1..Len(h.prods[x]), m \in Producers
                 PROVE  Linked(h2, x, j) <=> Linked(h, x, j)
      BY <2>2, <1>1 DEF Linked, SameNodes
    <3>1. h2.prods[x] = h.prods[x] /\ h2.indexOf[x][j] = k
      BY <2>2, <1>1, <1>4 DEF SameNodes
    <3>2. CASE m # n
      <4>1. h2.live[m] = h.live[m] /\ h2.liveIdx[m] = h.liveIdx[m]
        BY <3>2, <1>3
      <4> QED
        BY <3>1, <4>1 DEF Linked
    <3>3. CASE m = n
      <4> HIDE DEF k, m
      <4>a. h.prods[x][j] = m /\ h.indexOf[x][j] = k
        BY DEF k, m
      <4>1. k = last => ~Linked(h, x, j) /\ ~Linked(h2, x, j)
        <5>1. last \notin 1..Len(h.live[n])
          BY <1>2
        <5>2. k = last => ~Linked(h, x, j)
          BY <4>a, <5>1, <3>3 DEF Linked
        <5>3. k = last /\ Linked(h2, x, j) => x = c /\ j = i
          <6>1. Linked(h2, x, j) => h2.live[m][k] = x /\ h2.liveIdx[m][k] = j
            BY <4>a, <3>1 DEF Linked
          <6> QED
            BY <3>3, <6>1, <1>3
        <5> QED
          BY <5>2, <5>3, <2>2
      <4>2. k # last => (k \in 1..Len(h2.live[n]) <=> k \in 1..Len(h.live[n]))
        <5>1. 1..Len(h2.live[n]) = 1..Len(h.live[n]) \cup {last}
          BY <1>2, <1>3
        <5> QED
          BY <5>1
      <4>3. CASE k \in 1..Len(h.live[n])
        <5>1. h2.live[n][k] = h.live[n][k] /\ h2.liveIdx[n][k] = h.liveIdx[n][k]
          BY <4>3, <1>3
        <5>2. k \in 1..Len(h2.live[n])
          BY <4>3, <1>2, <1>3
        <5> QED
          BY <4>a, <4>3, <5>1, <5>2, <3>1, <3>3 DEF Linked
      <4>4. CASE k # last /\ k \notin 1..Len(h.live[n])
        BY <4>a, <4>2, <4>4, <3>1, <3>3 DEF Linked
      <4> QED
        BY <4>1, <4>3, <4>4, <3>3
    <3> QED
      BY <3>2, <3>3
  <2> QED
    BY <2>1, <2>2
<1>7. Matched(h2)
  <2> SUFFICES ASSUME NEW m \in Producers, NEW k \in 1..Len(h2.live[m])
               PROVE  LET x == h2.live[m][k]
                          j == h2.liveIdx[m][k]
                      IN  j \in 1..Len(h2.prods[x]) /\ h2.prods[x][j] = m /\ h2.indexOf[x][j] = k
    BY DEF Matched
  <2>1. CASE m = n /\ k = last
    BY <2>1, <1>1, <1>3, <1>4 DEF SameNodes
  <2>2. CASE ~(m = n /\ k = last)
    <3> DEFINE x == h.live[m][k]
               j == h.liveIdx[m][k]
    <3>1. k \in 1..Len(h.live[m]) /\ h2.live[m][k] = x /\ h2.liveIdx[m][k] = j
      <4>1. k \in 1..Len(h.live[m])
        BY <2>2, <1>2, <1>3
      <4> QED
        BY <4>1, <1>3
    <3>2. j \in 1..Len(h.prods[x]) /\ h.prods[x][j] = m /\ h.indexOf[x][j] = k
      BY <3>1 DEF Matched
    <3>3. Linked(h, x, j) /\ x \in Consumers
      <4>1. h.live[m] \in Seq(Consumers)
        BY <1>1, GraphTypes
      <4>2. x \in Consumers
        BY <3>1, <4>1, ElementOfSeq
      <4> HIDE DEF x, j
      <4>3. h.live[m][k] = x /\ h.liveIdx[m][k] = j
        BY DEF x, j
      <4> QED
        BY <3>1, <3>2, <4>2, <4>3 DEF Linked
    <3>4. x # c \/ j # i
      BY <3>3
    <3> HIDE DEF x, j
    <3> QED
      BY <3>1, <3>2, <3>3, <3>4, <1>1, <1>4 DEF SameNodes
  <2> QED
    BY <2>1, <2>2
<1> QED
  BY <1>1, <1>3, <1>5, <1>6, <1>7 DEF h2

\* A sequence that lost its last element after that was copied to position k.
LEMMA SwapOut ==
    ASSUME NEW S, NEW s \in Seq(S), NEW k \in 1..Len(s)
    PROVE  LET t == Front([s EXCEPT ![k] = s[Len(s)]])
           IN  /\ t \in Seq(S) /\ Len(t) = Len(s) - 1
               /\ \A j \in 1..(Len(s) - 1) : t[j] = IF j = k THEN s[Len(s)] ELSE s[j]
<1> DEFINE put == [s EXCEPT ![k] = s[Len(s)]]
<1>1. Len(s) \in Nat /\ Len(s) \in 1..Len(s) /\ k \in Nat
  BY LenProperties
<1>2. s[Len(s)] \in S
  BY <1>1, ElementOfSeq
<1>3. /\ put \in Seq(S) /\ Len(put) = Len(s)
      /\ \A j \in 1..Len(s) : put[j] = IF j = k THEN s[Len(s)] ELSE s[j]
  BY <1>2, ExceptSeq
<1> HIDE DEF put
<1>4. \A j \in 1..(Len(s) - 1) : put[j] \in S
  BY <1>1, <1>3, ElementOfSeq
<1>5. /\ Front(put) \in Seq(S) /\ Len(Front(put)) = Len(s) - 1
      /\ \A j \in 1..(Len(s) - 1) : Front(put)[j] = put[j]
  <2>1. Front(put) = SubSeq(put, 1, Len(s) - 1)
    BY <1>3 DEF Front
  <2>2. 1 \in Int /\ Len(s) - 1 \in Int /\ (Len(s) - 1) - 1 + 1 = Len(s) - 1
    BY <1>1
  <2>3. /\ SubSeq(put, 1, Len(s) - 1) \in Seq(S)
        /\ Len(SubSeq(put, 1, Len(s) - 1)) = IF 1 <= Len(s) - 1 THEN (Len(s) - 1) - 1 + 1 ELSE 0
        /\ \A j \in 1..((Len(s) - 1) - 1 + 1) : SubSeq(put, 1, Len(s) - 1)[j] = put[1 + j - 1]
    BY <1>4, <2>2, SubSeqProperties
  <2> QED
    BY <1>1, <2>1, <2>2, <2>3
<1>6. \A j \in 1..(Len(s) - 1) : Front(put)[j] = IF j = k THEN s[Len(s)] ELSE s[j]
  BY <1>1, <1>3, <1>5
<1> QED
  BY <1>5, <1>6 DEF put

\* Cutting the k-th live link of n removes this link and no other, whichever consumer
\* moves to position k.
LEMMA UnlinkEffect ==
    ASSUME NEW h, Shaped(h), Matched(h), NEW n \in Producers, NEW k \in 1..Len(h.live[n])
    PROVE  LET h2 == UnlinkAt(h, n, k)
               c == h.live[n][k]
               i == h.liveIdx[n][k]
           IN  /\ Shaped(h2) /\ Matched(h2) /\ SameNodes(h, h2)
               /\ \A m \in Producers \ {n} : /\ h2.live[m] = h.live[m]
                                             /\ h2.liveIdx[m] = h.liveIdx[m]
               /\ Len(h2.live[n]) = Len(h.live[n]) - 1
               /\ \A x \in Consumers : \A j :
                     Linked(h2, x, j) <=> Linked(h, x, j) /\ ~(x = c /\ j = i)
<1> DEFINE h2 == UnlinkAt(h, n, k)
           last == Len(h.live[n])
           c == h.live[n][k]
           i == h.liveIdx[n][k]
           d == h.live[n][last]
           e == h.liveIdx[n][last]
           live2 == Front([h.live[n] EXCEPT ![k] = d])
           idx2 == Front([h.liveIdx[n] EXCEPT ![k] = e])
<1>1. /\ h \in Graphs /\ last \in Nat /\ last \in 1..last /\ k \in 1..last
      /\ Len(h.liveIdx[n]) = last
      /\ h.live[n] \in Seq(Consumers) /\ h.liveIdx[n] \in Seq(Nat)
      /\ c \in Consumers /\ d \in Consumers /\ i \in Nat /\ e \in Nat
  <2>1. h \in Graphs /\ Len(h.liveIdx[n]) = last
    BY DEF Shaped
  <2>2. h.live[n] \in Seq(Consumers) /\ h.liveIdx[n] \in Seq(Nat)
    BY <2>1, GraphTypes
  <2>3. last \in Nat /\ last \in 1..last /\ k \in 1..last
    BY <2>2, LenProperties
  <2> QED
    BY <2>1, <2>2, <2>3, ElementOfSeq
<1>2. /\ Linked(h, c, i) /\ Linked(h, d, e)
      /\ h.prods[c][i] = n /\ h.prods[d][e] = n
      /\ h.indexOf[c][i] = k /\ h.indexOf[d][e] = last
  <2>1. i \in 1..Len(h.prods[c]) /\ h.prods[c][i] = n /\ h.indexOf[c][i] = k
    BY <1>1 DEF Matched
  <2>2. e \in 1..Len(h.prods[d]) /\ h.prods[d][e] = n /\ h.indexOf[d][e] = last
    BY <1>1 DEF Matched
  <2> HIDE DEF c, i, d, e
  <2>3. h.live[n][k] = c /\ h.liveIdx[n][k] = i /\ h.live[n][last] = d /\ h.liveIdx[n][last] = e
    BY DEF c, i, d, e
  <2> QED
    BY <1>1, <2>1, <2>2, <2>3 DEF Linked
<1>3. /\ live2 \in Seq(Consumers) /\ Len(live2) = last - 1
      /\ \A j \in 1..(last - 1) : live2[j] = IF j = k THEN d ELSE h.live[n][j]
      /\ idx2 \in Seq(Nat) /\ Len(idx2) = last - 1
      /\ \A j \in 1..(last - 1) : idx2[j] = IF j = k THEN e ELSE h.liveIdx[n][j]
  <2>1. /\ live2 \in Seq(Consumers) /\ Len(live2) = last - 1
        /\ \A j \in 1..(last - 1) : live2[j] = IF j = k THEN d ELSE h.live[n][j]
    <3>1. h.live[n] \in Seq(Consumers) /\ k \in 1..Len(h.live[n])
      BY <1>1
    <3> QED
      BY <3>1, SwapOut
  <2>2. LET t == Front([h.liveIdx[n] EXCEPT ![k] = h.liveIdx[n][Len(h.liveIdx[n])]])
        IN  /\ t \in Seq(Nat) /\ Len(t) = Len(h.liveIdx[n]) - 1
            /\ \A j \in 1..(Len(h.liveIdx[n]) - 1) :
                  t[j] = IF j = k THEN h.liveIdx[n][Len(h.liveIdx[n])] ELSE h.liveIdx[n][j]
    <3>1. h.liveIdx[n] \in Seq(Nat) /\ k \in 1..Len(h.liveIdx[n])
      BY <1>1
    <3> QED
      BY <3>1, SwapOut
  <2>3. /\ idx2 \in Seq(Nat) /\ Len(idx2) = last - 1
        /\ \A j \in 1..(last - 1) : idx2[j] = IF j = k THEN e ELSE h.liveIdx[n][j]
    BY <1>1, <2>2
  <2> QED
    BY <2>1, <2>3
<1>4. /\ h2.live = [h.live EXCEPT ![n] = live2]
      /\ h2.liveIdx = [h.liveIdx EXCEPT ![n] = idx2]
      /\ k < last => h2.indexOf = [h.indexOf EXCEPT ![d] = [@ EXCEPT ![e] = k]]
      /\ k = last => h2.indexOf = h.indexOf
      /\ SameNodes(h, h2) /\ h2 \in Graphs
  <2> DEFINE moved == [h EXCEPT !.live[n] = live2, !.liveIdx[n] = idx2]
  <2>1. /\ moved.live = [h.live EXCEPT ![n] = live2]
        /\ moved.liveIdx = [h.liveIdx EXCEPT ![n] = idx2]
        /\ moved.indexOf = h.indexOf
        /\ SameNodes(h, moved) /\ moved \in Graphs
    <3> HIDE DEF live2, idx2
    <3>1. [h.live EXCEPT ![n] = live2] \in [Producers -> Seq(Consumers)]
      BY <1>1, <1>3, GraphTypes
    <3>2. [h.liveIdx EXCEPT ![n] = idx2] \in [Producers -> Seq(Nat)]
      BY <1>1, <1>3, GraphTypes
    <3> QED
      BY <1>1, <3>1, <3>2 DEF Graphs, SameNodes
  <2>2. k < last => moved.live[n][k] = d /\ moved.liveIdx[n][k] = e
    <3> HIDE DEF live2, idx2, d, e
    <3>1. moved.live[n] = live2 /\ moved.liveIdx[n] = idx2
      BY <1>1, <2>1, GraphTypes
    <3>2. k < last => k \in 1..(last - 1)
      BY <1>1
    <3> QED
      BY <1>3, <3>1, <3>2
  <2>3. h2 = IF k < last
             THEN [moved EXCEPT !.indexOf[moved.live[n][k]][moved.liveIdx[n][k]] = k]
             ELSE moved
    BY DEF UnlinkAt
  <2> HIDE DEF moved, h2, d, e, live2, idx2
  <2>4. CASE k < last
    <3>1. h2 = [moved EXCEPT !.indexOf[d][e] = k]
      BY <2>2, <2>3, <2>4
    <3>2. [h.indexOf EXCEPT ![d] = [@ EXCEPT ![e] = k]] \in [Consumers -> Seq(Nat)]
      <4>1. e \in 1..Len(h.indexOf[d]) /\ h.indexOf[d] \in Seq(Nat)
        BY <1>1, <1>2, GraphTypes DEF Linked, Shaped
      <4>2. [h.indexOf[d] EXCEPT ![e] = k] \in Seq(Nat)
        BY <1>1, <4>1, ExceptSeq
      <4> QED
        BY <1>1, <4>2, GraphTypes
    <3>3. h2.indexOf = [h.indexOf EXCEPT ![d] = [@ EXCEPT ![e] = k]]
      BY <2>1, <3>1 DEF Graphs
    <3>4. h2.live = moved.live /\ h2.liveIdx = moved.liveIdx /\ SameNodes(moved, h2)
      BY <2>1, <3>1 DEF Graphs, SameNodes
    <3>5. h2 \in Graphs
      BY <2>1, <3>1, <3>2 DEF Graphs
    <3> QED
      BY <2>1, <2>4, <3>3, <3>4, <3>5 DEF SameNodes
  <2>5. CASE ~(k < last)
    BY <2>1, <2>3, <2>5
  <2> QED
    BY <2>4, <2>5
<1>5. /\ \A m \in Producers \ {n} : h2.live[m] = h.live[m] /\ h2.liveIdx[m] = h.liveIdx[m]
      /\ h2.live[n] = live2 /\ h2.liveIdx[n] = idx2
  <2> HIDE DEF h2, live2, idx2
  <2>1. h.live \in [Producers -> Seq(Consumers)] /\ h.liveIdx \in [Producers -> Seq(Nat)]
    BY <1>1, GraphTypes
  <2>2. h2.live = [h.live EXCEPT ![n] = live2] /\ h2.liveIdx = [h.liveIdx EXCEPT ![n] = idx2]
    BY <1>4
  <2> QED
    BY <2>1, <2>2
<1>6. /\ \A x \in Consumers : Len(h2.indexOf[x]) = Len(h.indexOf[x])
      /\ k < last => h2.indexOf[d][e] = k
      /\ \A x \in Consumers : \A j \in 1..Len(h.prods[x]) :
            x # d \/ j # e \/ k = last => h2.indexOf[x][j] = h.indexOf[x][j]
  <2> HIDE DEF h2, live2, idx2, d, e
  <2>1. CASE k = last
    BY <2>1, <1>4, <1>1
  <2>2. CASE k < last
    <3>1. /\ e \in 1..Len(h.indexOf[d]) /\ h.indexOf[d] \in Seq(Nat)
          /\ Len(h.indexOf[d]) = Len(h.prods[d])
      BY <1>1, <1>2, GraphTypes DEF Linked, Shaped
    <3>2. /\ Len([h.indexOf[d] EXCEPT ![e] = k]) = Len(h.indexOf[d])
          /\ \A j \in 1..Len(h.prods[d]) :
                [h.indexOf[d] EXCEPT ![e] = k][j] = IF j = e THEN k ELSE h.indexOf[d][j]
      <4>1. k \in Nat
        BY <1>1
      <4> HIDE DEF last
      <4> QED
        BY <4>1, <3>1, ExceptSeq
    <3>3. /\ h2.indexOf[d] = [h.indexOf[d] EXCEPT ![e] = k]
          /\ \A x \in Consumers \ {d} : h2.indexOf[x] = h.indexOf[x]
      <4>1. h.indexOf \in [Consumers -> Seq(Nat)] /\ d \in Consumers
        BY <1>1, GraphTypes
      <4>2. h2.indexOf = [h.indexOf EXCEPT ![d] = [@ EXCEPT ![e] = k]]
        BY <1>4, <2>2
      <4> QED
        BY <4>1, <4>2
    <3>4. k # last /\ k \in Nat /\ last \in Nat
      BY <2>2, <1>1
    <3>5. ASSUME NEW x \in Consumers, NEW j \in 1..Len(h.prods[x]), x # d \/ j # e
          PROVE  h2.indexOf[x][j] = h.indexOf[x][j]
      BY <3>1, <3>2, <3>3, <3>5
    <3>6. h2.indexOf[d][e] = k
      BY <3>1, <3>2, <3>3
    <3>7. \A x \in Consumers : Len(h2.indexOf[x]) = Len(h.indexOf[x])
      BY <3>2, <3>3
    <3> QED
      BY <3>4, <3>5, <3>6, <3>7
  <2> QED
    BY <1>1, <2>1, <2>2
<1> HIDE DEF h2, live2, idx2, c, i, d, e
<1>7. h.live[n][k] = c /\ h.liveIdx[n][k] = i /\ h.live[n][last] = d /\ h.liveIdx[n][last] = e
  BY DEF c, i, d, e
<1>8. Shaped(h2)
  BY <1>1, <1>3, <1>4, <1>5, <1>6 DEF Shaped, SameNodes
<1>9. \A x \in Consumers : \A j :
         Linked(h2, x, j) <=> Linked(h, x, j) /\ ~(x = c /\ j = i)
  <2> TAKE x \in Consumers
  <2> TAKE j
  <2> DEFINE m == h.prods[x][j]
             p == h.indexOf[x][j]
  <2> SUFFICES ASSUME j \in 1..Len(h.prods[x]), m \in Producers
               PROVE  Linked(h2, x, j) <=> Linked(h, x, j) /\ ~(x = c /\ j = i)
    BY <1>4 DEF Linked, SameNodes
  <2>1. h2.prods[x] = h.prods[x]
    BY <1>4 DEF SameNodes
  <2>2. k < last => /\ ~(c = d /\ i = e) /\ k \in 1..(last - 1)
                    /\ h2.live[n][k] = d /\ h2.liveIdx[n][k] = e
    <3> HAVE k < last
    <3>1. k \in 1..(last - 1) /\ k # last
      BY <1>1
    <3>2. ~(c = d /\ i = e)
      BY <3>1, <1>2
    <3> QED
      BY <3>1, <3>2, <1>3, <1>5
  <2>3. k = last => c = d /\ i = e
    BY <1>7
  <2>4. Len(h2.live[n]) = last - 1 /\ last \notin 1..(last - 1) /\ k <= last
    BY <1>1, <1>3, <1>5
  <2>5. CASE x = c /\ j = i
    <3>1. k < last => h2.indexOf[c][i] = k
      BY <2>5, <2>2, <1>1, <1>2, <1>6
    <3>2. k = last => h2.indexOf[c][i] = last
      BY <2>5, <1>2, <1>6
    <3>3. m = n
      BY <2>5, <1>2
    <3>4. CASE k < last
      BY <2>1, <2>2, <2>5, <3>1, <3>3, <3>4 DEF Linked
    <3>5. CASE k = last
      BY <2>1, <2>4, <2>5, <3>2, <3>3, <3>5 DEF Linked
    <3> QED
      BY <1>1, <3>4, <3>5
  <2>6. CASE x = d /\ j = e /\ ~(x = c /\ j = i)
    <3>1. k < last
      BY <2>3, <2>4, <2>6, <1>1
    <3>2. h2.indexOf[d][e] = k /\ m = n
      BY <2>6, <3>1, <1>2, <1>6
    <3> QED
      BY <2>1, <2>2, <2>4, <2>6, <3>1, <3>2, <1>2 DEF Linked
  <2>7. CASE ~(x = c /\ j = i) /\ ~(x = d /\ j = e)
    <3>1. h2.indexOf[x][j] = p
      BY <2>7, <1>6
    <3>2. CASE m # n
      <4>1. h2.live[m] = h.live[m] /\ h2.liveIdx[m] = h.liveIdx[m]
        BY <3>2, <1>5
      <4> QED
        BY <2>1, <2>7, <3>1, <4>1 DEF Linked
    <3>3. CASE m = n /\ p \in 1..(last - 1) /\ p # k
      <4>1. /\ h2.live[n][p] = h.live[n][p] /\ h2.liveIdx[n][p] = h.liveIdx[n][p]
            /\ p \in 1..last
        <5>1. live2[p] = h.live[n][p] /\ idx2[p] = h.liveIdx[n][p]
          BY <3>3, <1>3
        <5>2. p \in 1..last
          BY <3>3, <1>1
        <5> QED
          BY <5>1, <5>2, <1>5
      <4> QED
        BY <2>1, <2>4, <2>7, <3>1, <3>3, <4>1 DEF Linked
    <3>4. CASE m = n /\ ~(p \in 1..(last - 1) /\ p # k)
      <4>1. ~Linked(h, x, j)
        <5>1. p \in 1..last => p = k \/ p = last
          BY <3>4, <1>1
        <5> QED
          BY <2>7, <3>4, <5>1, <1>7 DEF Linked
      <4>2. ~Linked(h2, x, j)
        <5>1. p \in 1..(last - 1) => p = k /\ k < last
          BY <3>4, <1>1
        <5> QED
          BY <2>1, <2>2, <2>4, <2>7, <3>1, <3>4, <5>1 DEF Linked
      <4> QED
        BY <4>1, <4>2
    <3> QED
      BY <3>2, <3>3, <3>4
  <2> QED
    BY <2>5, <2>6, <2>7
<1>10. Matched(h2)
  <2> SUFFICES ASSUME NEW m \in Producers, NEW p \in 1..Len(h2.live[m])
               PROVE  LET x == h2.live[m][p]
                          j == h2.liveIdx[m][p]
                      IN  j \in 1..Len(h2.prods[x]) /\ h2.prods[x][j] = m /\ h2.indexOf[x][j] = p
    BY DEF Matched
  <2>1. h2.prods = h.prods
    BY <1>4 DEF SameNodes
  <2>2. CASE m = n /\ p = k
    <3>1. k < last /\ k \in 1..(last - 1)
      BY <2>2, <1>1, <1>3, <1>5
    <3>2. h2.live[n][k] = d /\ h2.liveIdx[n][k] = e
      BY <3>1, <1>3, <1>5
    <3> QED
      BY <2>1, <2>2, <3>1, <3>2, <1>2, <1>6 DEF Linked
  <2>3. CASE ~(m = n /\ p = k)
    <3> DEFINE x == h.live[m][p]
               j == h.liveIdx[m][p]
    <3>1. /\ p \in 1..Len(h.live[m]) /\ ~(m = n /\ p = last)
          /\ h2.live[m][p] = x /\ h2.liveIdx[m][p] = j
      <4>1. CASE m = n
        <5>1. p \in 1..(last - 1) /\ p # k
          BY <2>3, <4>1, <1>3, <1>5
        <5>2. live2[p] = h.live[n][p] /\ idx2[p] = h.liveIdx[n][p]
          BY <5>1, <1>3
        <5>3. p \in 1..last /\ p # last
          BY <5>1, <1>1
        <5> QED
          BY <4>1, <5>2, <5>3, <1>5
      <4>2. CASE m # n
        BY <4>2, <1>5
      <4> QED
        BY <4>1, <4>2
    <3>2. j \in 1..Len(h.prods[x]) /\ h.prods[x][j] = m /\ h.indexOf[x][j] = p
      BY <3>1 DEF Matched
    <3>3. x \in Consumers
      BY <3>1, <1>1, GraphTypes, ElementOfSeq
    <3>4. ~(x = d /\ j = e)
      BY <3>1, <3>2, <1>2
    <3> HIDE DEF x, j
    <3> QED
      BY <2>1, <3>1, <3>2, <3>3, <3>4, <1>6
  <2> QED
    BY <2>2, <2>3
<1> QED
  BY <1>4, <1>5, <1>3, <1>8, <1>9, <1>10 DEF h2, c, i

-----------------------------------------------------------------------------
(* Adding live consumers, rank by rank.                                    *)

\* Outside X, exactly the live consumers are linked to their producers.
Settled(h, X) ==
    \A c \in Consumers \ X : \A i \in 1..Len(h.prods[c]) :
        h.prods[c][i] # None => (Linked(h, c, i) <=> IsLive(h, c))

\* What happens to n and below it does not concern X.
Above(X, n) == \A c \in X \cap Computeds : Rank[c] > Rank[n]

\* K holds with a computed everything that it reads.
Downward(h, K) == \A c \in K \cap Computeds : \A j \in 1..Len(h.prods[c]) : h.prods[c][j] \in K

\* No other producer than n and what n is computed from got or lost live consumers.
OnlyBelow(h, h2, n) ==
    \A K \in SUBSET Producers : n \in K /\ Downward(h, K) =>
        \A m \in Producers \ K : h2.live[m] = h.live[m]

\* The entry i of c, which is in transition like the rest of X, can be linked to n.
CanAdd(h, n, c, i, X) ==
    /\ Shaped(h) /\ Matched(h) /\ Settled(h, X) /\ Above(X, n)
    /\ c \in X /\ i \in 1..Len(h.prods[c]) /\ h.prods[c][i] = n /\ ~Linked(h, c, i)

\* It is the only link of X that was added, and the other nodes are settled again.
Added(h, h2, n, c, i, X) ==
    /\ Shaped(h2) /\ Matched(h2) /\ Settled(h2, X) /\ SameNodes(h, h2)
    /\ \A m \in Producers : Rank[m] > Rank[n] => h2.live[m] = h.live[m]
    /\ OnlyBelow(h, h2, n)
    /\ \A x \in X : \A j : Linked(h2, x, j) <=> Linked(h, x, j) \/ (x = c /\ j = i)

\* AddLive does what it should up to rank r.
AddsOne(r) ==
    \A h \in Graphs : \A n \in Producers : \A c \in Consumers : \A i \in Nat :
        \A X \in SUBSET Consumers :
            Rank[n] <= r /\ CanAdd(h, n, c, i, X)
                => Added(h, AddLive[r][n][c][i][h], n, c, i, X)

\* Who is what, from the assumptions on the constants.
LEMMA NodeFacts ==
    /\ Signals \cap Computeds = {} /\ Effects \cap Producers = {}
    /\ None \notin Producers \cup Consumers
    /\ Computeds \subseteq Producers /\ Computeds \subseteq Consumers
    /\ Producers = Signals \cup Computeds /\ Consumers = Computeds \cup Effects
    /\ \A n \in Producers : Rank[n] \in Nat /\ (Rank[n] = 0 <=> n \in Signals)
  BY NodesAssumption, RankAssumption DEF Producers, Consumers

\* The loop over the producers of n, which was not live, links them one by one.
LEMMA LinkProducersAdds ==
    ASSUME NEW r \in Nat, AddsOne(r), NEW h, Shaped(h), Matched(h),
           NEW n \in Computeds, NEW X \in SUBSET Consumers, Rank[n] <= r + 1, n \notin X,
           Settled(h, X \cup {n}), Above(X, n), \A j : ~Linked(h, n, j)
    PROVE  LET h2 == LinkProducers(AddLive[r], h, n)
           IN  /\ Shaped(h2) /\ Matched(h2) /\ Settled(h2, X \cup {n}) /\ SameNodes(h, h2)
               /\ \A m \in Producers : Rank[m] >= Rank[n] => h2.live[m] = h.live[m]
               /\ OnlyBelow(h, h2, n)
               /\ \A x \in X : \A j : Linked(h2, x, j) <=> Linked(h, x, j)
               /\ \A j \in 1..Len(h.prods[n]) : Linked(h2, n, j)
<1> DEFINE N == Len(h.prods[n])
           step == [j \in DOMAIN h.prods[n] |-> AddLive[r][h.prods[n][j]][n][j]]
           At(j) == Iterate(step, h, j)
           OK(acc, k) == /\ Shaped(acc) /\ Matched(acc) /\ Settled(acc, X \cup {n})
                         /\ SameNodes(h, acc)
                         /\ \A m \in Producers : Rank[m] >= Rank[n] => acc.live[m] = h.live[m]
                         /\ OnlyBelow(h, acc, n)
                         /\ \A x \in X : \A j : Linked(acc, x, j) <=> Linked(h, x, j)
                         /\ \A j : Linked(acc, n, j) <=> j \in 1..k
           Done == {k \in Nat : k <= N => OK(At(k), k)}
<1>1. /\ h \in Graphs /\ h.prods[n] \in Seq(Producers \cup {None})
      /\ N \in Nat /\ DOMAIN h.prods[n] = 1..N
      /\ n \in Producers /\ n \in Consumers /\ Rank[n] \in Nat
      /\ \A j \in 1..N : h.prods[n][j] \in Producers /\ Rank[h.prods[n][j]] < Rank[n]
  <2>1. h \in Graphs /\ \A j \in 1..N : h.prods[n][j] \in Producers /\ Rank[h.prods[n][j]] < Rank[n]
    BY DEF Shaped
  <2>2. n \in Producers /\ n \in Consumers /\ Rank[n] \in Nat
    BY NodeFacts
  <2>3. h.prods[n] \in Seq(Producers \cup {None})
    BY <2>1, <2>2, GraphTypes
  <2> QED
    BY <2>1, <2>2, <2>3, LenProperties
<1>2. 0 \in Done
  <2>1. At(0) = h
    BY IterateRounds
  <2>2. SameNodes(h, h) /\ OnlyBelow(h, h, n)
    BY DEF SameNodes, OnlyBelow
  <2>3. OK(h, 0)
    BY <2>2
  <2> HIDE DEF OK
  <2> QED
    BY <2>1, <2>3
<1>3. ASSUME NEW k \in Nat, k \in Done PROVE k + 1 \in Done
  <2>1. SUFFICES ASSUME k + 1 <= N PROVE OK(At(k + 1), k + 1)
    <3> HIDE DEF OK, At
    <3> QED
      OBVIOUS
  <2> DEFINE acc == At(k)
             p == h.prods[n][k + 1]
             next == AddLive[r][p][n][k + 1][acc]
  <2>2. OK(acc, k)
    <3> HIDE DEF OK, At
    <3> QED
      BY <1>1, <1>3, <2>1
  <2>3. k + 1 \in 1..N /\ p \in Producers /\ Rank[p] < Rank[n] /\ Rank[p] <= r /\ Rank[p] \in Nat
    BY <1>1, <2>1, NodeFacts
  <2>4. At(k + 1) = next
    <3>1. step[k + 1] = AddLive[r][p][n][k + 1]
      BY <1>1, <2>3
    <3>2. At(k + 1) = step[k + 1][At(k)]
      <4> HIDE DEF step
      <4>1. GoesOn(step, h, k)
        BY IterateGoesOn, Zenon
      <4> QED
        BY <4>1 DEF GoesOn
    <3> QED
      BY <3>1, <3>2
  <2> HIDE DEF At, next, p
  <2>5. CanAdd(acc, p, n, k + 1, X \cup {n})
    <3>1. Above(X \cup {n}, p)
      BY <1>1, <2>3, NodeFacts DEF Above
    <3>2. acc.prods = h.prods
      BY <2>2 DEF SameNodes
    <3>3. ~Linked(acc, n, k + 1)
      BY <2>2
    <3>4. h.prods[n][k + 1] = p
      BY DEF p
    <3> QED
      BY <2>2, <2>3, <3>1, <3>2, <3>3, <3>4 DEF CanAdd
  <2>6. Added(acc, next, p, n, k + 1, X \cup {n})
    <3>1. acc \in Graphs /\ X \cup {n} \in SUBSET Consumers /\ k + 1 \in Nat
      BY <1>1, <2>2 DEF Shaped
    <3> QED
      BY <1>1, <2>3, <2>5, <3>1 DEF AddsOne, next
  <2>7. OK(next, k + 1)
    <3>1. SameNodes(h, next)
      BY <2>2, <2>6 DEF Added, SameNodes
    <3>2. \A m \in Producers : Rank[m] >= Rank[n] => next.live[m] = h.live[m]
      BY <2>2, <2>3, <2>6, <1>1, NodeFacts DEF Added
    <3>3. \A x \in X : \A j : Linked(next, x, j) <=> Linked(h, x, j)
      BY <2>2, <2>6 DEF Added
    <3>4. \A j : Linked(next, n, j) <=> j \in 1..(k + 1)
      <4>1. \A j : Linked(next, n, j) <=> j \in 1..k \/ j = k + 1
        BY <2>2, <2>6 DEF Added
      <4> QED
        BY <4>1
    <3>5. OnlyBelow(h, next, n)
      <4> SUFFICES ASSUME NEW K \in SUBSET Producers, n \in K, Downward(h, K),
                          NEW m \in Producers \ K
                   PROVE  next.live[m] = h.live[m]
        BY DEF OnlyBelow
      <4>1. p \in K
        BY <1>1, <2>3 DEF Downward, p
      <4>2. Downward(acc, K)
        BY <2>2 DEF Downward, SameNodes
      <4>3. next.live[m] = acc.live[m]
        BY <2>6, <4>1, <4>2 DEF Added, OnlyBelow
      <4>4. acc.live[m] = h.live[m]
        BY <2>2 DEF OnlyBelow
      <4> QED
        BY <4>3, <4>4
    <3> QED
      BY <2>6, <3>1, <3>2, <3>3, <3>4, <3>5 DEF Added
  <2> QED
    BY <2>4, <2>7
<1>4. OK(At(N), N)
  <2>1. Nat \subseteq Done
    <3> HIDE DEF Done
    <3> QED
      BY <1>2, <1>3, Induction
  <2> HIDE DEF OK, At
  <2> QED
    BY <2>1, <1>1
<1>5. LinkProducers(AddLive[r], h, n) = At(N)
  BY DEF LinkProducers
<1> HIDE DEF At
<1> QED
  BY <1>4, <1>5

\* producerAddLiveConsumer links the entry it is called for, and with the first one
\* all entries of the producer, recursively.
LEMMA AddLiveAdds == \A r \in Nat : AddsOne(r)
<1> DEFINE Proved == {r \in Nat : AddsOne(r)}
<1>1. ASSUME NEW r \in Nat, r > 0 => AddsOne(r - 1) PROVE AddsOne(r)
  <2> SUFFICES ASSUME NEW h \in Graphs, NEW n \in Producers, NEW c \in Consumers,
                      NEW i \in Nat, NEW X \in SUBSET Consumers,
                      Rank[n] <= r, CanAdd(h, n, c, i, X)
               PROVE  Added(h, AddLive[r][n][c][i][h], n, c, i, X)
    BY DEF AddsOne
  <2> DEFINE first == r > 0 /\ n \in Computeds /\ h.live[n] = <<>>
             h1 == IF first THEN LinkProducers(AddLive[r - 1], h, n) ELSE h
             h2 == Link(h1, n, c, i)
  <2>1. AddLive[r][n][c][i][h] = h2
    <3>1. AddLive[r] =
            [m \in Producers |-> [consumer \in Consumers |-> [j \in Nat |-> [f \in Graphs |->
                Link(IF r > 0 /\ m \in Computeds /\ f.live[m] = <<>>
                       THEN LinkProducers(AddLive[r - 1], f, m) ELSE f,
                     m, consumer, j)]]]]
      BY AddLiveRound
    <3>2. AddLive[r][n] =
            [consumer \in Consumers |-> [j \in Nat |-> [f \in Graphs |->
                Link(IF r > 0 /\ n \in Computeds /\ f.live[n] = <<>>
                       THEN LinkProducers(AddLive[r - 1], f, n) ELSE f,
                     n, consumer, j)]]]
      BY <3>1, Zenon
    <3>3. AddLive[r][n][c] =
            [j \in Nat |-> [f \in Graphs |->
                Link(IF r > 0 /\ n \in Computeds /\ f.live[n] = <<>>
                       THEN LinkProducers(AddLive[r - 1], f, n) ELSE f,
                     n, c, j)]]
      BY <3>2, Zenon
    <3>4. AddLive[r][n][c][i] =
            [f \in Graphs |->
                Link(IF r > 0 /\ n \in Computeds /\ f.live[n] = <<>>
                       THEN LinkProducers(AddLive[r - 1], f, n) ELSE f,
                     n, c, i)]
      BY <3>3, Zenon
    <3> QED
      BY <3>4, Zenon
  <2>2. /\ Shaped(h) /\ Matched(h) /\ Settled(h, X) /\ Above(X, n)
        /\ c \in X /\ i \in 1..Len(h.prods[c]) /\ h.prods[c][i] = n /\ ~Linked(h, c, i)
    BY DEF CanAdd
  <2>3. n \in Computeds => n \notin X
    BY <2>2, NodeFacts DEF Above
  <2>4. \A m \in Computeds : Rank[m] > 0 /\ m \notin Effects /\ m \in Producers /\ m \in Consumers
    BY NodeFacts
  <2>5. /\ Shaped(h1) /\ Matched(h1) /\ SameNodes(h, h1)
        /\ \A m \in Producers : Rank[m] >= Rank[n] => h1.live[m] = h.live[m]
        /\ OnlyBelow(h, h1, n)
        /\ \A x \in X : \A j : Linked(h1, x, j) <=> Linked(h, x, j)
        /\ Settled(h1, X \cup {n})
        /\ n \in Computeds => \A j \in 1..Len(h1.prods[n]) : Linked(h1, n, j)
    <3>1. CASE first
      <4>1. h1 = LinkProducers(AddLive[r - 1], h, n) /\ n \in Computeds /\ h.live[n] = <<>>
        BY <3>1
      <4>2. \A j : ~Linked(h, n, j)
        <5>1. ~IsLive(h, n)
          BY <4>1, <2>4, EmptySeq DEF IsLive
        <5>2. \A j \in 1..Len(h.prods[n]) : h.prods[n][j] # None
          BY <4>1, <2>2, NodeFacts DEF Shaped
        <5>3. \A j \in 1..Len(h.prods[n]) : ~Linked(h, n, j)
          BY <4>1, <5>1, <5>2, <2>2, <2>3, <2>4 DEF Settled
        <5> QED
          BY <5>3 DEF Linked
      <4>3. Settled(h, X \cup {n})
        BY <2>2 DEF Settled
      <4>4. r - 1 \in Nat /\ Rank[n] <= (r - 1) + 1 /\ AddsOne(r - 1)
        BY <3>1, <1>1
      <4> HIDE DEF h1
      <4>5. /\ Shaped(h1) /\ Matched(h1) /\ Settled(h1, X \cup {n}) /\ SameNodes(h, h1)
            /\ \A m \in Producers : Rank[m] >= Rank[n] => h1.live[m] = h.live[m]
            /\ OnlyBelow(h, h1, n)
            /\ \A x \in X : \A j : Linked(h1, x, j) <=> Linked(h, x, j)
            /\ \A j \in 1..Len(h.prods[n]) : Linked(h1, n, j)
        BY <4>1, <4>2, <4>3, <4>4, <2>2, <2>3, LinkProducersAdds
      <4> QED
        BY <4>5 DEF SameNodes
    <3>2. CASE ~first
      <4>1. h1 = h
        BY <3>2
      <4>2. n \in Computeds => h.live[n] # <<>>
        <5>1. n \in Computeds => r > 0
          BY <2>4, NodeFacts
        <5> QED
          BY <3>2, <5>1
      <4>3. ASSUME n \in Computeds, NEW j \in 1..Len(h.prods[n]) PROVE Linked(h, n, j)
        <5>1. IsLive(h, n)
          <6>1. h.live[n] \in Seq(Consumers)
            BY GraphTypes
          <6> QED
            BY <4>2, <4>3, <6>1, EmptySeq DEF IsLive
        <5>2. h.prods[n][j] # None
          BY <4>3, <2>2, NodeFacts DEF Shaped
        <5> QED
          BY <4>3, <5>1, <5>2, <2>2, <2>3, <2>4 DEF Settled
      <4>4. Settled(h, X \cup {n}) /\ SameNodes(h, h) /\ OnlyBelow(h, h, n)
        BY <2>2 DEF Settled, SameNodes, OnlyBelow
      <4> QED
        BY <4>1, <4>3, <4>4, <2>2
    <3> QED
      BY <3>1, <3>2
  <2> HIDE DEF h1
  <2>6. /\ Shaped(h2) /\ Matched(h2) /\ SameNodes(h1, h2)
        /\ \A m \in Producers \ {n} : h2.live[m] = h1.live[m]
        /\ Len(h2.live[n]) = Len(h1.live[n]) + 1
        /\ \A x \in Consumers : \A j :
              Linked(h2, x, j) <=> Linked(h1, x, j) \/ (x = c /\ j = i)
    <3>1. i \in 1..Len(h1.prods[c]) /\ h1.prods[c][i] = n /\ ~Linked(h1, c, i)
      BY <2>2, <2>5 DEF SameNodes
    <3> QED
      BY <2>5, <3>1, LinkEffect
  <2>7. Settled(h2, X)
    <3> SUFFICES ASSUME NEW x \in Consumers \ X, NEW j \in 1..Len(h2.prods[x]),
                        h2.prods[x][j] # None
                 PROVE  Linked(h2, x, j) <=> IsLive(h2, x)
      BY DEF Settled
    <3>1. j \in 1..Len(h1.prods[x]) /\ h1.prods[x][j] # None
      BY <2>6 DEF SameNodes
    <3>2. Linked(h2, x, j) <=> Linked(h1, x, j)
      BY <2>2, <2>6
    <3>3. CASE x = n
      <4>1. n \in Computeds
        BY <3>3, NodeFacts
      <4>2. Linked(h1, x, j)
        BY <4>1, <3>1, <3>3, <2>5
      <4>3. Len(h1.live[n]) \in Nat
        <5>1. h1.live[n] \in Seq(Consumers)
          BY <2>5, GraphTypes DEF Shaped
        <5> QED
          BY <5>1, LenProperties
      <4>4. IsLive(h2, x)
        BY <4>3, <3>3, <2>6 DEF IsLive
      <4> QED
        BY <3>2, <4>2, <4>4
    <3>4. CASE x # n
      <4>1. Linked(h1, x, j) <=> IsLive(h1, x)
        BY <3>1, <3>4, <2>5 DEF Settled
      <4>2. IsLive(h2, x) <=> IsLive(h1, x)
        BY <3>4, <2>6, NodeFacts DEF IsLive
      <4> QED
        BY <3>2, <4>1, <4>2
    <3> QED
      BY <3>3, <3>4
  <2>8. SameNodes(h, h2)
    BY <2>5, <2>6 DEF SameNodes
  <2>9. \A m \in Producers : Rank[m] > Rank[n] => h2.live[m] = h.live[m]
    BY <2>5, <2>6, NodeFacts
  <2>10. \A x \in X : \A j : Linked(h2, x, j) <=> Linked(h, x, j) \/ (x = c /\ j = i)
    BY <2>5, <2>6
  <2>11. OnlyBelow(h, h2, n)
    <3> SUFFICES ASSUME NEW K \in SUBSET Producers, n \in K, Downward(h, K),
                        NEW m \in Producers \ K
                 PROVE  h2.live[m] = h.live[m]
      BY DEF OnlyBelow
    <3>1. h1.live[m] = h.live[m]
      BY <2>5 DEF OnlyBelow
    <3> QED
      BY <3>1, <2>6
  <2> QED
    BY <2>1, <2>6, <2>7, <2>8, <2>9, <2>10, <2>11 DEF Added
<1>2. Nat \subseteq Proved
  <2>1. 0 \in Proved
    BY <1>1
  <2>2. ASSUME NEW r \in Nat, r \in Proved PROVE r + 1 \in Proved
    BY <1>1, <2>2
  <2> HIDE DEF Proved
  <2> QED
    BY <2>1, <2>2, Induction
<1> QED
  BY <1>2

-----------------------------------------------------------------------------
(* Removing live consumers, rank by rank.                                  *)

\* The k-th link of n, which comes from X, can be cut.
CanCut(h, n, k, X) ==
    /\ Shaped(h) /\ Matched(h) /\ Settled(h, X) /\ Above(X, n)
    /\ k \in 1..Len(h.live[n]) /\ h.live[n][k] \in X

\* It is the only link of X that was cut, and the other nodes are settled again.
Cut(h, h2, n, k, X) ==
    /\ Shaped(h2) /\ Matched(h2) /\ Settled(h2, X) /\ SameNodes(h, h2)
    /\ \A m \in Producers : Rank[m] > Rank[n] =>
          h2.live[m] = h.live[m] /\ h2.liveIdx[m] = h.liveIdx[m]
    /\ \A m \in Producers : Len(h2.live[m]) <= Len(h.live[m])
    /\ \A x \in X : \A j :
          Linked(h2, x, j) <=> Linked(h, x, j) /\ ~(x = h.live[n][k] /\ j = h.liveIdx[n][k])

\* RemoveLive does what it should up to rank r.
CutsOne(r) ==
    \A h \in Graphs : \A n \in Producers : \A k \in Nat : \A X \in SUBSET Consumers :
        Rank[n] <= r /\ CanCut(h, n, k, X) => Cut(h, RemoveLive[r][n][k][h], n, k, X)

\* Arrays have a length.
LEMMA LiveLength == \A h : Shaped(h) => \A m \in Producers : Len(h.live[m]) \in Nat
<1> SUFFICES ASSUME NEW h, Shaped(h), NEW m \in Producers PROVE Len(h.live[m]) \in Nat
  OBVIOUS
<1>1. h.live[m] \in Seq(Consumers)
  BY GraphTypes DEF Shaped
<1> QED
  BY <1>1, LenProperties

\* The loop over the producers of n, which is about to lose its last live consumer,
\* cuts its links one by one.
LEMMA UnlinkProducersCuts ==
    ASSUME NEW r \in Nat, CutsOne(r), NEW h, Shaped(h), Matched(h),
           NEW n \in Computeds, NEW X \in SUBSET Consumers, Rank[n] <= r + 1, n \notin X,
           Settled(h, X \cup {n}), Above(X, n), \A j \in 1..Len(h.prods[n]) : Linked(h, n, j)
    PROVE  LET h2 == UnlinkProducers(RemoveLive[r], h, n)
           IN  /\ Shaped(h2) /\ Matched(h2) /\ Settled(h2, X \cup {n}) /\ SameNodes(h, h2)
               /\ \A m \in Producers : Rank[m] >= Rank[n] =>
                     h2.live[m] = h.live[m] /\ h2.liveIdx[m] = h.liveIdx[m]
               /\ \A m \in Producers : Len(h2.live[m]) <= Len(h.live[m])
               /\ \A x \in X : \A j : Linked(h2, x, j) <=> Linked(h, x, j)
               /\ \A j : ~Linked(h2, n, j)
<1> DEFINE N == Len(h.prods[n])
           step == [j \in DOMAIN h.prods[n] |-> [acc \in Graphs |->
                      RemoveLive[r][h.prods[n][j]][acc.indexOf[n][j]][acc]]]
           At(j) == Iterate(step, h, j)
           OK(acc, k) == /\ Shaped(acc) /\ Matched(acc) /\ Settled(acc, X \cup {n})
                         /\ SameNodes(h, acc)
                         /\ \A m \in Producers : Rank[m] >= Rank[n] =>
                               acc.live[m] = h.live[m] /\ acc.liveIdx[m] = h.liveIdx[m]
                         /\ \A m \in Producers : Len(acc.live[m]) <= Len(h.live[m])
                         /\ \A x \in X : \A j : Linked(acc, x, j) <=> Linked(h, x, j)
                         /\ \A j : Linked(acc, n, j) <=> j \in (k + 1)..N
           Done == {k \in Nat : k <= N => OK(At(k), k)}
<1>1. /\ h \in Graphs /\ h.prods[n] \in Seq(Producers \cup {None})
      /\ N \in Nat /\ DOMAIN h.prods[n] = 1..N
      /\ n \in Producers /\ n \in Consumers /\ Rank[n] \in Nat
      /\ \A j \in 1..N : h.prods[n][j] \in Producers /\ Rank[h.prods[n][j]] < Rank[n]
  <2>1. h \in Graphs /\ \A j \in 1..N : h.prods[n][j] \in Producers /\ Rank[h.prods[n][j]] < Rank[n]
    BY DEF Shaped
  <2>2. n \in Producers /\ n \in Consumers /\ Rank[n] \in Nat
    BY NodeFacts
  <2>3. h.prods[n] \in Seq(Producers \cup {None})
    BY <2>1, <2>2, GraphTypes
  <2> QED
    BY <2>1, <2>2, <2>3, LenProperties
<1>2. 0 \in Done
  <2>1. At(0) = h
    BY IterateRounds
  <2>2. SameNodes(h, h)
    BY DEF SameNodes
  <2>3. \A j : Linked(h, n, j) <=> j \in (0 + 1)..N
    <3>1. \A j : Linked(h, n, j) => j \in 1..N
      BY DEF Linked
    <3> QED
      BY <3>1
  <2>4. \A m \in Producers : Len(h.live[m]) <= Len(h.live[m])
    BY LiveLength
  <2>5. OK(h, 0)
    BY <2>2, <2>3, <2>4
  <2> HIDE DEF OK
  <2> QED
    BY <2>1, <2>5
<1>3. ASSUME NEW k \in Nat, k \in Done PROVE k + 1 \in Done
  <2>1. SUFFICES ASSUME k + 1 <= N PROVE OK(At(k + 1), k + 1)
    <3> HIDE DEF OK, At
    <3> QED
      OBVIOUS
  <2> DEFINE acc == At(k)
             p == h.prods[n][k + 1]
             q == acc.indexOf[n][k + 1]
             next == RemoveLive[r][p][q][acc]
  <2>2. OK(acc, k)
    <3> HIDE DEF OK, At
    <3> QED
      BY <1>1, <1>3, <2>1
  <2>3. k + 1 \in 1..N /\ p \in Producers /\ Rank[p] < Rank[n] /\ Rank[p] <= r /\ Rank[p] \in Nat
    BY <1>1, <2>1, NodeFacts
  <2>4. At(k + 1) = next
    <3>1. acc \in Graphs
      BY <2>2 DEF Shaped
    <3>2. step[k + 1][acc] = next
      BY <1>1, <2>3, <3>1
    <3>3. At(k + 1) = step[k + 1][At(k)]
      <4> HIDE DEF step
      <4>1. GoesOn(step, h, k)
        BY IterateGoesOn, Zenon
      <4> QED
        BY <4>1 DEF GoesOn
    <3> QED
      BY <3>2, <3>3
  <2>5. h.prods[n][k + 1] = p /\ acc.indexOf[n][k + 1] = q
    OBVIOUS
  <2> HIDE DEF At, next, p, q
  <2>6. /\ q \in 1..Len(acc.live[p]) /\ acc.live[p][q] = n /\ acc.liveIdx[p][q] = k + 1
        /\ q \in Nat
    <3>1. Linked(acc, n, k + 1)
      BY <2>2, <2>3
    <3>2. acc.prods[n][k + 1] = p
      BY <2>2, <2>5 DEF SameNodes
    <3>3. q \in Nat
      <4>1. acc.indexOf[n] \in Seq(Nat) /\ Len(acc.indexOf[n]) = N
        BY <1>1, <2>2, GraphTypes DEF Shaped, SameNodes
      <4> QED
        BY <4>1, <2>3, <2>5, ElementOfSeq
    <3> QED
      BY <2>5, <3>1, <3>2, <3>3 DEF Linked
  <2>7. CanCut(acc, p, q, X \cup {n})
    <3>1. Above(X \cup {n}, p)
      BY <1>1, <2>3, NodeFacts DEF Above
    <3> QED
      BY <2>2, <2>6, <3>1 DEF CanCut
  <2>8. Cut(acc, next, p, q, X \cup {n})
    <3>1. acc \in Graphs /\ X \cup {n} \in SUBSET Consumers
      BY <1>1, <2>2 DEF Shaped
    <3> QED
      BY <2>3, <2>6, <2>7, <3>1 DEF CutsOne, next
  <2>9. OK(next, k + 1)
    <3>1. SameNodes(h, next)
      BY <2>2, <2>8 DEF Cut, SameNodes
    <3>2. \A m \in Producers : Rank[m] >= Rank[n] =>
             next.live[m] = h.live[m] /\ next.liveIdx[m] = h.liveIdx[m]
      BY <2>2, <2>3, <2>8, <1>1, NodeFacts DEF Cut
    <3>3. \A x \in X : \A j : Linked(next, x, j) <=> Linked(h, x, j)
      BY <2>2, <2>6, <2>8 DEF Cut
    <3>4. \A j : Linked(next, n, j) <=> j \in ((k + 1) + 1)..N
      <4>1. \A j : Linked(next, n, j) <=> j \in (k + 1)..N /\ j # k + 1
        BY <2>2, <2>6, <2>8 DEF Cut
      <4> QED
        BY <1>1, <4>1
    <3>5. \A m \in Producers : Len(next.live[m]) <= Len(h.live[m])
      <4> TAKE m \in Producers
      <4>1. Shaped(next) /\ Len(next.live[m]) <= Len(acc.live[m])
        BY <2>8 DEF Cut
      <4>2. Shaped(acc) /\ Len(acc.live[m]) <= Len(h.live[m])
        BY <2>2
      <4>3. Len(next.live[m]) \in Nat /\ Len(acc.live[m]) \in Nat /\ Len(h.live[m]) \in Nat
        BY <4>1, <4>2, LiveLength
      <4> QED
        BY <4>1, <4>2, <4>3, AtMostTransitive, Zenon
    <3> QED
      BY <2>8, <3>1, <3>2, <3>3, <3>4, <3>5 DEF Cut
  <2> QED
    BY <2>4, <2>9
<1>4. OK(At(N), N)
  <2>1. Nat \subseteq Done
    <3> HIDE DEF Done
    <3> QED
      BY <1>2, <1>3, Induction
  <2> HIDE DEF OK, At
  <2> QED
    BY <2>1, <1>1
<1>5. UnlinkProducers(RemoveLive[r], h, n) = At(N)
  BY DEF UnlinkProducers
<1>6. \A j : j \notin (N + 1)..N
  BY <1>1
<1> HIDE DEF At
<1> QED
  BY <1>4, <1>5, <1>6

\* producerRemoveLiveConsumerAtIndex cuts the link it is called for, and with the
\* last one all links of the producer to its own producers, recursively.
LEMMA RemoveLiveCuts == \A r \in Nat : CutsOne(r)
<1> DEFINE Proved == {r \in Nat : CutsOne(r)}
<1>1. ASSUME NEW r \in Nat, r > 0 => CutsOne(r - 1) PROVE CutsOne(r)
  <2> SUFFICES ASSUME NEW h \in Graphs, NEW n \in Producers, NEW k \in Nat,
                      NEW X \in SUBSET Consumers, Rank[n] <= r, CanCut(h, n, k, X)
               PROVE  Cut(h, RemoveLive[r][n][k][h], n, k, X)
    BY DEF CutsOne
  <2> DEFINE last == r > 0 /\ n \in Computeds /\ Len(h.live[n]) = 1
             h1 == IF last THEN UnlinkProducers(RemoveLive[r - 1], h, n) ELSE h
             h2 == UnlinkAt(h1, n, k)
             c == h.live[n][k]
             i == h.liveIdx[n][k]
  <2>1. RemoveLive[r][n][k][h] = h2
    <3>1. RemoveLive[r] =
            [m \in Producers |-> [j \in Nat |-> [f \in Graphs |->
                UnlinkAt(IF r > 0 /\ m \in Computeds /\ Len(f.live[m]) = 1
                           THEN UnlinkProducers(RemoveLive[r - 1], f, m) ELSE f,
                         m, j)]]]
      BY RemoveLiveRound
    <3>2. RemoveLive[r][n] =
            [j \in Nat |-> [f \in Graphs |->
                UnlinkAt(IF r > 0 /\ n \in Computeds /\ Len(f.live[n]) = 1
                           THEN UnlinkProducers(RemoveLive[r - 1], f, n) ELSE f,
                         n, j)]]
      BY <3>1, Zenon
    <3>3. RemoveLive[r][n][k] =
            [f \in Graphs |->
                UnlinkAt(IF r > 0 /\ n \in Computeds /\ Len(f.live[n]) = 1
                           THEN UnlinkProducers(RemoveLive[r - 1], f, n) ELSE f,
                         n, k)]
      BY <3>2, Zenon
    <3> QED
      BY <3>3, Zenon
  <2>2. /\ Shaped(h) /\ Matched(h) /\ Settled(h, X) /\ Above(X, n)
        /\ k \in 1..Len(h.live[n]) /\ c \in X
    BY DEF CanCut
  <2>3. n \in Computeds => n \notin X
    BY <2>2, NodeFacts DEF Above
  <2>4. \A m \in Computeds : Rank[m] > 0 /\ m \notin Effects /\ m \in Producers /\ m \in Consumers
    BY NodeFacts
  <2>5. Len(h.live[n]) \in Nat
    BY GraphTypes, LenProperties
  <2>6. n \in Computeds => \A j \in 1..Len(h.prods[n]) : Linked(h, n, j)
    <3> SUFFICES ASSUME n \in Computeds, NEW j \in 1..Len(h.prods[n]) PROVE Linked(h, n, j)
      OBVIOUS
    <3>1. IsLive(h, n)
      BY <2>2, <2>5 DEF IsLive
    <3>2. h.prods[n][j] # None
      BY <2>2, NodeFacts DEF Shaped
    <3> QED
      BY <3>1, <3>2, <2>2, <2>3, <2>4 DEF Settled
  <2>7. /\ Shaped(h1) /\ Matched(h1) /\ SameNodes(h, h1)
        /\ \A m \in Producers : Rank[m] >= Rank[n] =>
              h1.live[m] = h.live[m] /\ h1.liveIdx[m] = h.liveIdx[m]
        /\ \A m \in Producers : Len(h1.live[m]) <= Len(h.live[m])
        /\ \A x \in X : \A j : Linked(h1, x, j) <=> Linked(h, x, j)
        /\ Settled(h1, X \cup {n})
        /\ n \in Computeds /\ Len(h.live[n]) = 1 => \A j : ~Linked(h1, n, j)
        /\ n \in Computeds /\ Len(h.live[n]) # 1 =>
              \A j \in 1..Len(h1.prods[n]) : Linked(h1, n, j)
    <3>1. Settled(h, X \cup {n})
      BY <2>2 DEF Settled
    <3>2. CASE last
      <4>1. h1 = UnlinkProducers(RemoveLive[r - 1], h, n) /\ n \in Computeds /\ Len(h.live[n]) = 1
        BY <3>2
      <4>2. r - 1 \in Nat /\ Rank[n] <= (r - 1) + 1 /\ CutsOne(r - 1)
        BY <3>2, <1>1
      <4> HIDE DEF h1
      <4>3. /\ Shaped(h1) /\ Matched(h1) /\ Settled(h1, X \cup {n}) /\ SameNodes(h, h1)
            /\ \A m \in Producers : Rank[m] >= Rank[n] =>
                  h1.live[m] = h.live[m] /\ h1.liveIdx[m] = h.liveIdx[m]
            /\ \A m \in Producers : Len(h1.live[m]) <= Len(h.live[m])
            /\ \A x \in X : \A j : Linked(h1, x, j) <=> Linked(h, x, j)
            /\ \A j : ~Linked(h1, n, j)
        BY <4>1, <4>2, <3>1, <2>2, <2>3, <2>6, UnlinkProducersCuts
      <4> QED
        BY <4>1, <4>3
    <3>3. CASE ~last
      <4>1. h1 = h
        BY <3>3
      <4>2. n \in Computeds => Len(h.live[n]) # 1
        <5>1. n \in Computeds => r > 0
          BY <2>4, NodeFacts
        <5> QED
          BY <3>3, <5>1
      <4>3. SameNodes(h, h) /\ \A m \in Producers : Len(h.live[m]) <= Len(h.live[m])
        BY <2>2, LiveLength DEF SameNodes
      <4> QED
        BY <4>1, <4>2, <4>3, <3>1, <2>2, <2>6
    <3> QED
      BY <3>2, <3>3
  <2> HIDE DEF h1
  <2>8. h1.live[n] = h.live[n] /\ h1.liveIdx[n] = h.liveIdx[n]
    BY <2>7, NodeFacts
  <2>9. /\ Shaped(h2) /\ Matched(h2) /\ SameNodes(h1, h2)
        /\ \A m \in Producers \ {n} : h2.live[m] = h1.live[m] /\ h2.liveIdx[m] = h1.liveIdx[m]
        /\ Len(h2.live[n]) = Len(h.live[n]) - 1
        /\ \A x \in Consumers : \A j :
              Linked(h2, x, j) <=> Linked(h1, x, j) /\ ~(x = c /\ j = i)
    <3>1. k \in 1..Len(h1.live[n]) /\ h1.live[n][k] = c /\ h1.liveIdx[n][k] = i
      BY <2>2, <2>8
    <3> QED
      BY <2>7, <2>8, <3>1, UnlinkEffect
  <2> HIDE DEF h2
  <2>10. Settled(h2, X)
    <3> SUFFICES ASSUME NEW x \in Consumers \ X, NEW j \in 1..Len(h2.prods[x]),
                        h2.prods[x][j] # None
                 PROVE  Linked(h2, x, j) <=> IsLive(h2, x)
      BY DEF Settled
    <3>1. j \in 1..Len(h1.prods[x]) /\ h1.prods[x][j] # None
      BY <2>9 DEF SameNodes
    <3>2. Linked(h2, x, j) <=> Linked(h1, x, j)
      BY <2>2, <2>9
    <3>3. CASE x = n
      <4>1. n \in Computeds
        BY <3>3, NodeFacts
      <4>2. IsLive(h2, n) <=> Len(h.live[n]) # 1
        <5>1. Len(h.live[n]) >= 1 /\ n \notin Effects
          BY <4>1, <2>2, <2>4, <2>5
        <5>2. Len(h2.live[n]) = Len(h.live[n]) - 1
          BY <2>9
        <5>3. Len(h2.live[n]) > 0 <=> Len(h.live[n]) # 1
          <6> HIDE DEF h2
          <6>1. \A a \in Nat : a >= 1 => (a - 1 > 0 <=> a # 1)
            OBVIOUS
          <6> QED
            BY <5>1, <5>2, <6>1, <2>5
        <5> QED
          BY <5>1, <5>3 DEF IsLive
      <4> QED
        BY <4>1, <4>2, <3>1, <3>2, <3>3, <2>7
    <3>4. CASE x # n
      <4>1. Linked(h1, x, j) <=> IsLive(h1, x)
        BY <3>1, <3>4, <2>7 DEF Settled
      <4>2. IsLive(h2, x) <=> IsLive(h1, x)
        BY <3>4, <2>9, NodeFacts DEF IsLive
      <4> QED
        BY <3>2, <4>1, <4>2
    <3> QED
      BY <3>3, <3>4
  <2>11. SameNodes(h, h2)
    BY <2>7, <2>9 DEF SameNodes
  <2>12. \A m \in Producers : Rank[m] > Rank[n] =>
            h2.live[m] = h.live[m] /\ h2.liveIdx[m] = h.liveIdx[m]
    BY <2>7, <2>9, NodeFacts
  <2>13. \A x \in X : \A j : Linked(h2, x, j) <=> Linked(h, x, j) /\ ~(x = c /\ j = i)
    BY <2>7, <2>9
  <2>14. ASSUME NEW m \in Producers PROVE Len(h2.live[m]) <= Len(h.live[m])
    <3>1. Len(h1.live[m]) <= Len(h.live[m])
      BY <2>7
    <3>2. CASE m = n
      BY <3>2, <2>5, <2>9
    <3>3. CASE m # n
      BY <3>1, <3>3, <2>9
    <3> QED
      BY <3>2, <3>3
  <2> QED
    BY <2>1, <2>9, <2>10, <2>11, <2>12, <2>13, <2>14 DEF Cut
<1>2. Nat \subseteq Proved
  <2>1. 0 \in Proved
    BY <1>1
  <2>2. ASSUME NEW r \in Nat, r \in Proved PROVE r + 1 \in Proved
    BY <1>1, <2>2
  <2> HIDE DEF Proved
  <2> QED
    BY <2>1, <2>2, Induction
<1> QED
  BY <1>2

\* producerAddLiveConsumer links one entry and keeps everybody else settled.
LEMMA AddLiveConsumerAdds ==
    ASSUME NEW h, NEW n \in Producers, NEW X \in SUBSET Consumers, NEW c \in X,
           NEW i, CanAdd(h, n, c, i, X)
    PROVE  Added(h, AddLiveConsumer(h, n, c, i), n, c, i, X)
<1>1. h \in Graphs /\ i \in 1..Len(h.prods[c])
  BY DEF CanAdd, Shaped
<1>2. i \in Nat
  <2>1. h.prods[c] \in Seq(Producers \cup {None})
    BY <1>1, GraphTypes
  <2> QED
    BY <1>1, <2>1, LenProperties
<1>3. Rank[n] \in Nat /\ Rank[n] <= Rank[n]
  BY NodeFacts
<1>4. AddsOne(Rank[n])
  BY <1>3, AddLiveAdds
<1> QED
  BY <1>1, <1>2, <1>3, <1>4 DEF AddsOne, AddLiveConsumer

\* producerRemoveLiveConsumerAtIndex cuts one link and keeps everybody else settled.
LEMMA RemoveLiveConsumerCuts ==
    ASSUME NEW h, NEW n \in Producers, NEW X \in SUBSET Consumers, NEW k,
           CanCut(h, n, k, X)
    PROVE  Cut(h, RemoveLiveConsumerAt(h, n, k), n, k, X)
<1>1. Shaped(h) /\ h \in Graphs /\ k \in 1..Len(h.live[n])
  BY DEF CanCut, Shaped
<1>2. k \in Nat
  BY <1>1, LiveLength
<1>3. Rank[n] \in Nat /\ Rank[n] <= Rank[n]
  BY NodeFacts
<1>4. CutsOne(Rank[n])
  BY <1>3, RemoveLiveCuts
<1> QED
  BY <1>1, <1>2, <1>3, <1>4 DEF CutsOne, RemoveLiveConsumerAt

-----------------------------------------------------------------------------
(* Accessing a producer.                                                   *)

\* Only entries are linked.
LEMMA LinkedInRange ==
    \A h, c, j : Linked(h, c, j) => j \in 1..Len(h.prods[c]) /\ h.prods[c][j] \in Producers
  BY DEF Linked

\* What is known of the links between two steps of a consumer c.
Wired(h, X) == Shaped(h) /\ Matched(h) /\ Settled(h, X)

\* The link of the entry j of c leads to a producer, where it can be cut.
Cuttable(h, c, j) ==
    LET n == h.prods[c][j]
        k == h.indexOf[c][j]
    IN  /\ n \in Producers /\ CanCut(h, n, k, {c})
        /\ h.live[n][k] = c /\ h.liveIdx[n][k] = j
        /\ c \in Computeds => Rank[n] < Rank[c]

\* So it is if there is a link.
LEMMA LinkedIsCuttable ==
    ASSUME NEW h, NEW c \in Consumers, NEW j, Wired(h, {c}), Linked(h, c, j)
    PROVE  Cuttable(h, c, j)
<1> DEFINE n == h.prods[c][j]
           k == h.indexOf[c][j]
<1>1. /\ n \in Producers /\ j \in 1..Len(h.prods[c])
      /\ k \in 1..Len(h.live[n]) /\ h.live[n][k] = c /\ h.liveIdx[n][k] = j
  BY DEF Linked
<1>2. c \in Computeds => Rank[n] < Rank[c]
  BY <1>1 DEF Wired, Shaped
<1>3. Above({c}, n)
  BY <1>1, <1>2, NodeFacts DEF Above
<1> QED
  BY <1>1, <1>2, <1>3 DEF Wired, CanCut, Cuttable

\* The next position of c loses its link unless it leads to n already.
LEMMA FreeNextEffect ==
    ASSUME NEW h, NEW n \in Producers, NEW c \in Consumers, Wired(h, {}),
           h.next[c] + 1 <= Len(h.prods[c]) => h.prods[c][h.next[c] + 1] # None
    PROVE  LET h1 == FreeNext(h, n, c)
               i == h.next[c] + 1
           IN  /\ Wired(h1, {c}) /\ SameNodes(h, h1) /\ (IsLive(h1, c) <=> IsLive(h, c))
               /\ \A j : Linked(h1, c, j) <=> Linked(h, c, j) /\ (j = i => h.prods[c][i] = n)
               /\ c \in Computeds => \A m \in Producers : Rank[m] >= Rank[c] =>
                                        h1.live[m] = h.live[m]
               /\ \A m \in Producers : Len(h1.live[m]) <= Len(h.live[m])
<1> DEFINE h1 == FreeNext(h, n, c)
           i == h.next[c] + 1
           p == h.prods[c][i]
           k == h.indexOf[c][i]
<1>1. /\ h \in Graphs /\ Shaped(h) /\ h.prods[c] \in Seq(Producers \cup {None})
      /\ Len(h.prods[c]) \in Nat /\ h.next[c] \in Nat /\ i \in Nat /\ i >= 1
  <2>1. Shaped(h) /\ h \in Graphs
    BY DEF Wired, Shaped
  <2>2. h.prods[c] \in Seq(Producers \cup {None}) /\ h.next[c] \in Nat
    BY <2>1, GraphTypes
  <2> QED
    BY <2>1, <2>2, LenProperties
<1>2. Wired(h, {c})
  BY DEF Wired, Settled
<1>3. i <= Len(h.prods[c]) => i \in 1..Len(h.prods[c]) /\ (Linked(h, c, i) <=> IsLive(h, c))
  BY <1>1 DEF Wired, Settled
<1>4. CASE i <= Len(h.prods[c]) /\ p # n /\ IsLive(h, c)
  <2>1. h1 = RemoveLiveConsumerAt(h, p, k)
    BY <1>4 DEF FreeNext
  <2>2. Linked(h, c, i)
    BY <1>3, <1>4
  <2>3. /\ p \in Producers /\ CanCut(h, p, k, {c})
        /\ h.live[p][k] = c /\ h.liveIdx[p][k] = i /\ (c \in Computeds => Rank[p] < Rank[c])
    <3>1. Cuttable(h, c, i)
      BY <2>2, <1>2, LinkedIsCuttable
    <3> QED
      BY <3>1 DEF Cuttable
  <2>4. Cut(h, h1, p, k, {c})
    <3> HIDE DEF h1, p, k
    <3> QED
      BY <2>1, <2>3, RemoveLiveConsumerCuts
  <2> HIDE DEF h1
  <2>5. \A m \in Producers : Rank[m] > Rank[p] => h1.live[m] = h.live[m]
    BY <2>4 DEF Cut
  <2>6. c \in Computeds => \A m \in Producers : Rank[m] >= Rank[c] => h1.live[m] = h.live[m]
    <3> SUFFICES ASSUME c \in Computeds, NEW m \in Producers, Rank[m] >= Rank[c]
                 PROVE  h1.live[m] = h.live[m]
      OBVIOUS
    <3>1. Rank[m] \in Nat /\ Rank[c] \in Nat /\ Rank[p] \in Nat /\ Rank[p] < Rank[c]
      BY <2>3, NodeFacts
    <3>2. Rank[m] > Rank[p]
      BY <3>1
    <3> QED
      BY <2>5, <3>2
  <2>7. IsLive(h1, c) <=> IsLive(h, c)
    BY <2>6, NodeFacts DEF IsLive
  <2>8. \A j : Linked(h1, c, j) <=> Linked(h, c, j) /\ j # i
    BY <2>3, <2>4 DEF Cut
  <2>9. Wired(h1, {c}) /\ SameNodes(h, h1) /\ \A m \in Producers : Len(h1.live[m]) <= Len(h.live[m])
    BY <2>4 DEF Cut, Wired
  <2> QED
    BY <2>6, <2>7, <2>8, <2>9, <1>4 DEF h1
<1>5. CASE ~(i <= Len(h.prods[c]) /\ p # n /\ IsLive(h, c))
  <2>1. h1 = h
    BY <1>5 DEF FreeNext
  <2>2. Linked(h, c, i) => p = n
    <3>1. Linked(h, c, i) => i \in 1..Len(h.prods[c])
      BY LinkedInRange
    <3>2. i \in 1..Len(h.prods[c]) => i <= Len(h.prods[c])
      BY <1>1
    <3> QED
      BY <1>3, <1>5, <3>1, <3>2
  <2>3. SameNodes(h, h) /\ \A m \in Producers : Len(h.live[m]) <= Len(h.live[m])
    BY <1>1, LiveLength DEF SameNodes
  <2> HIDE DEF h1
  <2> QED
    BY <2>1, <2>2, <2>3, <1>2 DEF h1
<1> QED
  BY <1>4, <1>5

\* The links of a graph are in these four fields.
LEMMA SameLinks ==
    ASSUME NEW h, NEW h2, h2.prods = h.prods, h2.indexOf = h.indexOf,
           h2.live = h.live, h2.liveIdx = h.liveIdx
    PROVE  /\ \A c, j : Linked(h2, c, j) <=> Linked(h, c, j)
           /\ \A c : IsLive(h2, c) <=> IsLive(h, c)
           /\ Matched(h2) <=> Matched(h)
           /\ \A X : Settled(h2, X) <=> Settled(h, X)
<1>1. \A c, j : Linked(h2, c, j) <=> Linked(h, c, j)
  BY DEF Linked
<1>2. \A c : IsLive(h2, c) <=> IsLive(h, c)
  BY DEF IsLive
<1>3. Matched(h2) <=> Matched(h)
  BY DEF Matched
<1>4. \A X : Settled(h2, X) <=> Settled(h, X)
  BY <1>1, <1>2 DEF Settled
<1> QED
  BY <1>1, <1>2, <1>3, <1>4

\* The sequence t is s with room for the position i, where there may be holes.
Roomy(t, s, i, hole) ==
    LET length == IF i <= Len(s) THEN Len(s) ELSE i
    IN  /\ Len(t) = length
        /\ \A j \in 1..length : t[j] = IF j <= Len(s) THEN s[j] ELSE hole

\* This is what Extend computes.
LEMMA ExtendFacts ==
    ASSUME NEW S, NEW s \in Seq(S), NEW i \in Nat \ {0}, NEW hole \in S
    PROVE  Extend(s, i, hole) \in Seq(S) /\ Roomy(Extend(s, i, hole), s, i, hole)
<1>1. Len(s) \in Nat
  BY LenProperties
<1>2. CASE i <= Len(s)
  <2>1. Extend(s, i, hole) = s /\ \A j \in 1..Len(s) : j <= Len(s)
    BY <1>1, <1>2 DEF Extend
  <2> QED
    BY <1>2, <2>1 DEF Roomy
<1>3. CASE ~(i <= Len(s))
  <2> DEFINE N == i - Len(s)
             tail == [j \in 1..N |-> hole]
  <2>1. N \in Nat
    BY <1>1, <1>3
  <2>2. tail \in Seq(S) /\ Len(tail) = N /\ \A j \in 1..N : tail[j] = hole
    BY <2>1
  <2>3. Extend(s, i, hole) = s \o tail
    BY <1>3 DEF Extend
  <2> HIDE DEF tail
  <2>4. /\ s \o tail \in Seq(S) /\ Len(s \o tail) = Len(s) + N
        /\ \A j \in 1..Len(s) + N : (s \o tail)[j] = IF j <= Len(s) THEN s[j] ELSE tail[j - Len(s)]
    BY <2>2, ConcatProperties
  <2>5. Len(s) + N = i
    BY <1>1
  <2>6. \A j \in 1..i : ~(j <= Len(s)) => j - Len(s) \in 1..N
    BY <1>1, <2>1
  <2>7. \A j \in 1..i : (s \o tail)[j] = IF j <= Len(s) THEN s[j] ELSE hole
    BY <2>2, <2>4, <2>5, <2>6
  <2> QED
    BY <1>3, <2>3, <2>4, <2>5, <2>7 DEF Roomy
<1> QED
  BY <1>2, <1>3

\* What a consumer recorded of a producer that has still this version is its value.
Versioned(h) ==
    \A c \in Consumers : \A j \in 1..Len(h.prods[c]) :
        LET n == h.prods[c][j]
        IN  n # None => /\ h.seen[c][j] \in Nat /\ h.seen[c][j] <= h.version[n]
                        /\ h.seen[c][j] = h.version[n] => h.got[c][j] = h.value[n]

\* Between two steps of the code, outside of any change of links.
Sane(h) == Wired(h, {}) /\ Versioned(h)

\* The i-th entry of the consumer c is now the producer n, read as it is.
Recorded(h, h2, n, c, i) ==
    LET length == IF i <= Len(h.prods[c]) THEN Len(h.prods[c]) ELSE i
    IN  /\ h2.next[c] = i /\ Len(h2.prods[c]) = length
        /\ h2.prods[c][i] = n /\ h2.got[c][i] = h.value[n] /\ h2.seen[c][i] = h.version[n]
        /\ \A j \in 1..length \ {i} : j <= Len(h.prods[c]) =>
              /\ h2.prods[c][j] = h.prods[c][j]
              /\ h2.seen[c][j] = h.seen[c][j] /\ h2.got[c][j] = h.got[c][j]
        /\ \A j \in 1..length \ {i} : j > Len(h.prods[c]) => h2.prods[c][j] = None

\* Only the lists of c differ, and links.
SameExceptLists(h, h2, c) ==
    /\ h2.epoch = h.epoch /\ h2.value = h.value /\ h2.version = h.version
    /\ h2.clean = h.clean /\ h2.dirty = h.dirty
    /\ \A x \in Consumers \ {c} : /\ h2.prods[x] = h.prods[x] /\ h2.seen[x] = h.seen[x]
                                   /\ h2.next[x] = h.next[x] /\ h2.got[x] = h.got[x]

\* producerAccessed records the producer and keeps the links right.
LEMMA AccessedEffect ==
    ASSUME NEW h, NEW n \in Producers, NEW c \in Consumers, Sane(h),
           c \in Computeds => Rank[n] < Rank[c] /\ h.next[c] <= Len(h.prods[c]),
           h.next[c] + 1 <= Len(h.prods[c]) => h.prods[c][h.next[c] + 1] # None
    PROVE  LET h2 == Accessed(h, n, c)
           IN  /\ Sane(h2) /\ SameExceptLists(h, h2, c) /\ Recorded(h, h2, n, c, h.next[c] + 1)
               /\ c \in Computeds => \A m \in Producers : Rank[m] >= Rank[c] =>
                                        h2.live[m] = h.live[m]
               /\ \A K \in SUBSET Producers : n \in K /\ Downward(h, K) =>
                     \A m \in Producers \ K : Len(h2.live[m]) <= Len(h.live[m])
<1> DEFINE i == h.next[c] + 1
           h1 == FreeNext(h, n, c)
           h2 == MoveNext(h1, c)
           put == [h2 EXCEPT !.prods[c][i] = n, !.indexOf[c][i] = 0]
           h3 == PutProducer(h2, n, c)
           h4 == RecordRead(h3, n, c)
           length == IF i <= Len(h.prods[c]) THEN Len(h.prods[c]) ELSE i
<1>1. Accessed(h, n, c) = h4
  BY DEF Accessed
<1>2. /\ Wired(h, {}) /\ Shaped(h) /\ h \in Graphs /\ h.next[c] \in Nat /\ i \in Nat \ {0}
      /\ h.prods[c] \in Seq(Producers \cup {None}) /\ Len(h.prods[c]) \in Nat
      /\ i \in 1..length /\ length \in Nat
  <2>1. Wired(h, {}) /\ Shaped(h) /\ h \in Graphs
    BY DEF Sane, Wired, Shaped
  <2>2. h.next[c] \in Nat /\ h.prods[c] \in Seq(Producers \cup {None})
    BY <2>1, GraphTypes
  <2> QED
    BY <2>1, <2>2, LenProperties
<1>3. /\ Wired(h1, {c}) /\ SameNodes(h, h1) /\ (IsLive(h1, c) <=> IsLive(h, c))
      /\ \A j : Linked(h1, c, j) <=> Linked(h, c, j) /\ (j = i => h.prods[c][i] = n)
      /\ c \in Computeds => \A m \in Producers : Rank[m] >= Rank[c] => h1.live[m] = h.live[m]
      /\ \A m \in Producers : Len(h1.live[m]) <= Len(h.live[m])
  BY <1>2, FreeNextEffect
<1> HIDE DEF h1
<1>4. h1 \in Graphs /\ Shaped(h1) /\ Matched(h1) /\ Settled(h1, {c}) /\ h1.next[c] + 1 = i
  BY <1>3 DEF Wired, Shaped, SameNodes
<1>a. length = IF i <= Len(h.prods[c]) THEN Len(h.prods[c]) ELSE i
  OBVIOUS
<1>b. i = h.next[c] + 1
  OBVIOUS
<1> HIDE DEF i, length
\* The next position has room.
<1>5. /\ h2 \in Graphs
      /\ h2.epoch = h1.epoch /\ h2.value = h1.value /\ h2.version = h1.version
      /\ h2.clean = h1.clean /\ h2.dirty = h1.dirty
      /\ h2.live = h1.live /\ h2.liveIdx = h1.liveIdx
      /\ h2.next = [h1.next EXCEPT ![c] = i]
      /\ h2.prods = [h1.prods EXCEPT ![c] = Extend(@, i, None)]
      /\ h2.seen = [h1.seen EXCEPT ![c] = Extend(@, i, None)]
      /\ h2.indexOf = [h1.indexOf EXCEPT ![c] = Extend(@, i, 0)]
      /\ h2.got = [h1.got EXCEPT ![c] = Extend(@, i, None)]
  <2>1. /\ h1.prods[c] \in Seq(Producers \cup {None}) /\ h1.seen[c] \in Seq(Nat \cup {None})
        /\ h1.indexOf[c] \in Seq(Nat) /\ h1.got[c] \in Seq(Results \cup {Unset, None})
    BY <1>4, GraphTypes
  <2>2. /\ Extend(h1.prods[c], i, None) \in Seq(Producers \cup {None})
        /\ Extend(h1.seen[c], i, None) \in Seq(Nat \cup {None})
        /\ Extend(h1.indexOf[c], i, 0) \in Seq(Nat)
        /\ Extend(h1.got[c], i, None) \in Seq(Results \cup {Unset, None})
    <3>1. /\ None \in Producers \cup {None} /\ None \in Nat \cup {None} /\ 0 \in Nat
          /\ None \in Results \cup {Unset, None}
      OBVIOUS
    <3>2. Extend(h1.prods[c], i, None) \in Seq(Producers \cup {None})
      BY <1>2, <2>1, <3>1, ExtendFacts
    <3>3. Extend(h1.seen[c], i, None) \in Seq(Nat \cup {None})
      BY <1>2, <2>1, <3>1, ExtendFacts
    <3>4. Extend(h1.indexOf[c], i, 0) \in Seq(Nat)
      BY <1>2, <2>1, <3>1, ExtendFacts
    <3>5. Extend(h1.got[c], i, None) \in Seq(Results \cup {Unset, None})
      BY <1>2, <2>1, <3>1, ExtendFacts
    <3> QED
      BY <3>2, <3>3, <3>4, <3>5
  <2>3. h2 = [h1 EXCEPT !.next[c] = i,
                        !.prods[c] = Extend(@, i, None),
                        !.seen[c] = Extend(@, i, None),
                        !.indexOf[c] = Extend(@, i, 0),
                        !.got[c] = Extend(@, i, None)]
    BY <1>4 DEF MoveNext
  <2> HIDE DEF h2
  <2>4. /\ h2.epoch = h1.epoch /\ h2.value = h1.value /\ h2.version = h1.version
        /\ h2.clean = h1.clean /\ h2.dirty = h1.dirty
        /\ h2.live = h1.live /\ h2.liveIdx = h1.liveIdx
        /\ h2.next = [h1.next EXCEPT ![c] = i]
        /\ h2.prods = [h1.prods EXCEPT ![c] = Extend(@, i, None)]
        /\ h2.seen = [h1.seen EXCEPT ![c] = Extend(@, i, None)]
        /\ h2.indexOf = [h1.indexOf EXCEPT ![c] = Extend(@, i, 0)]
        /\ h2.got = [h1.got EXCEPT ![c] = Extend(@, i, None)]
    BY <1>4, <2>3 DEF Graphs
  <2>5. /\ [h1.next EXCEPT ![c] = i] \in [Consumers -> Nat]
        /\ [h1.prods EXCEPT ![c] = Extend(@, i, None)] \in [Consumers -> Seq(Producers \cup {None})]
        /\ [h1.seen EXCEPT ![c] = Extend(@, i, None)] \in [Consumers -> Seq(Nat \cup {None})]
        /\ [h1.indexOf EXCEPT ![c] = Extend(@, i, 0)] \in [Consumers -> Seq(Nat)]
        /\ [h1.got EXCEPT ![c] = Extend(@, i, None)]
              \in [Consumers -> Seq(Results \cup {Unset, None})]
    BY <1>2, <1>4, <2>2, GraphTypes
  <2>6. h2 \in Graphs
    BY <1>4, <2>3, <2>5 DEF Graphs
  <2> QED
    BY <2>4, <2>6
<1> HIDE DEF h2
<1>6. /\ \A x \in Consumers \ {c} : /\ h2.prods[x] = h1.prods[x] /\ h2.seen[x] = h1.seen[x]
                                    /\ h2.indexOf[x] = h1.indexOf[x] /\ h2.got[x] = h1.got[x]
                                    /\ h2.next[x] = h1.next[x]
      /\ h2.next[c] = i
      /\ Len(h2.prods[c]) = length /\ Len(h2.seen[c]) = length
      /\ Len(h2.indexOf[c]) = length /\ Len(h2.got[c]) = length
      /\ \A j \in 1..length : j <= Len(h.prods[c]) =>
            /\ h2.prods[c][j] = h1.prods[c][j] /\ h2.seen[c][j] = h1.seen[c][j]
            /\ h2.indexOf[c][j] = h1.indexOf[c][j] /\ h2.got[c][j] = h1.got[c][j]
      /\ \A j \in 1..length : j > Len(h.prods[c]) =>
            h2.prods[c][j] = None /\ h2.indexOf[c][j] = 0
      /\ i <= Len(h.prods[c]) => h2.prods = h1.prods /\ h2.indexOf = h1.indexOf
                                 /\ h2.seen = h1.seen /\ h2.got = h1.got
  <2>1. /\ h1.prods \in [Consumers -> Seq(Producers \cup {None})]
        /\ h1.seen \in [Consumers -> Seq(Nat \cup {None})]
        /\ h1.indexOf \in [Consumers -> Seq(Nat)]
        /\ h1.got \in [Consumers -> Seq(Results \cup {Unset, None})]
        /\ h1.next \in [Consumers -> Nat]
    BY <1>4, GraphTypes
  <2>2. /\ Len(h1.prods[c]) = Len(h.prods[c]) /\ Len(h1.seen[c]) = Len(h.prods[c])
        /\ Len(h1.indexOf[c]) = Len(h.prods[c]) /\ Len(h1.got[c]) = Len(h.prods[c])
    BY <1>3, <1>4 DEF SameNodes, Shaped
  <2>3. /\ \A x \in Consumers \ {c} : /\ h2.prods[x] = h1.prods[x] /\ h2.seen[x] = h1.seen[x]
                                      /\ h2.indexOf[x] = h1.indexOf[x] /\ h2.got[x] = h1.got[x]
                                      /\ h2.next[x] = h1.next[x]
        /\ h2.next[c] = i
        /\ h2.prods[c] = Extend(h1.prods[c], i, None) /\ h2.seen[c] = Extend(h1.seen[c], i, None)
        /\ h2.indexOf[c] = Extend(h1.indexOf[c], i, 0) /\ h2.got[c] = Extend(h1.got[c], i, None)
    BY <2>1, <1>5
  <2>4. /\ Len(h2.prods[c]) = length
        /\ \A j \in 1..length :
              h2.prods[c][j] = IF j <= Len(h.prods[c]) THEN h1.prods[c][j] ELSE None
    <3>1. h1.prods[c] \in Seq(Producers \cup {None}) /\ None \in Producers \cup {None} /\ i \in Nat \ {0}
      BY <1>2, <2>1
    <3>2. Roomy(h2.prods[c], h1.prods[c], i, None)
      BY <2>3, <3>1, ExtendFacts
    <3> QED
      BY <1>a, <2>2, <3>2 DEF Roomy
  <2>5. /\ Len(h2.indexOf[c]) = length
        /\ \A j \in 1..length :
              h2.indexOf[c][j] = IF j <= Len(h.prods[c]) THEN h1.indexOf[c][j] ELSE 0
    <3>1. h1.indexOf[c] \in Seq(Nat) /\ 0 \in Nat /\ i \in Nat \ {0}
      BY <1>2, <2>1
    <3>2. Roomy(h2.indexOf[c], h1.indexOf[c], i, 0)
      BY <2>3, <3>1, ExtendFacts
    <3> QED
      BY <1>a, <2>2, <3>2 DEF Roomy
  <2>6. /\ Len(h2.seen[c]) = length
        /\ \A j \in 1..length :
              h2.seen[c][j] = IF j <= Len(h.prods[c]) THEN h1.seen[c][j] ELSE None
    <3>1. h1.seen[c] \in Seq(Nat \cup {None}) /\ None \in Nat \cup {None} /\ i \in Nat \ {0}
      BY <1>2, <2>1
    <3>2. Roomy(h2.seen[c], h1.seen[c], i, None)
      BY <2>3, <3>1, ExtendFacts
    <3> QED
      BY <1>a, <2>2, <3>2 DEF Roomy
  <2>7. /\ Len(h2.got[c]) = length
        /\ \A j \in 1..length :
              h2.got[c][j] = IF j <= Len(h.prods[c]) THEN h1.got[c][j] ELSE None
    <3>1. h1.got[c] \in Seq(Results \cup {Unset, None}) /\ None \in Results \cup {Unset, None} /\ i \in Nat \ {0}
      BY <1>2, <2>1
    <3>2. Roomy(h2.got[c], h1.got[c], i, None)
      BY <2>3, <3>1, ExtendFacts
    <3> QED
      BY <1>a, <2>2, <3>2 DEF Roomy
  <2>8. i <= Len(h.prods[c]) => h2.prods = h1.prods /\ h2.indexOf = h1.indexOf
                                /\ h2.seen = h1.seen /\ h2.got = h1.got
    <3> SUFFICES ASSUME i <= Len(h.prods[c])
                 PROVE  h2.prods = h1.prods /\ h2.indexOf = h1.indexOf
                        /\ h2.seen = h1.seen /\ h2.got = h1.got
      OBVIOUS
    <3>1. /\ Extend(h1.prods[c], i, None) = h1.prods[c] /\ Extend(h1.seen[c], i, None) = h1.seen[c]
          /\ Extend(h1.indexOf[c], i, 0) = h1.indexOf[c] /\ Extend(h1.got[c], i, None) = h1.got[c]
      BY <2>2 DEF Extend
    <3>2. /\ h2.prods = [h1.prods EXCEPT ![c] = h1.prods[c]]
          /\ h2.seen = [h1.seen EXCEPT ![c] = h1.seen[c]]
          /\ h2.indexOf = [h1.indexOf EXCEPT ![c] = h1.indexOf[c]]
          /\ h2.got = [h1.got EXCEPT ![c] = h1.got[c]]
      BY <1>5, <3>1
    <3> QED
      BY <2>1, <3>2
  <2>9. \A j \in 1..length : j > Len(h.prods[c]) <=> ~(j <= Len(h.prods[c]))
    BY <1>2
  <2> QED
    BY <2>3, <2>4, <2>5, <2>6, <2>7, <2>8, <2>9
\* The producer is stored there.
<1> DEFINE base == IF h2.prods[c][i] = n THEN h2 ELSE put
<1>7. /\ base \in Graphs
      /\ base.epoch = h1.epoch /\ base.value = h1.value /\ base.version = h1.version
      /\ base.clean = h1.clean /\ base.dirty = h1.dirty
      /\ base.live = h1.live /\ base.liveIdx = h1.liveIdx
      /\ base.next = h2.next /\ base.seen = h2.seen /\ base.got = h2.got
      /\ \A x \in Consumers \ {c} : base.prods[x] = h1.prods[x] /\ base.indexOf[x] = h1.indexOf[x]
      /\ Len(base.prods[c]) = length /\ Len(base.indexOf[c]) = length
      /\ base.prods[c][i] = n
      /\ h2.prods[c][i] # n => base.indexOf[c][i] = 0
      /\ h2.prods[c][i] = n => base.indexOf[c][i] = h2.indexOf[c][i]
      /\ \A j \in 1..length \ {i} : /\ base.prods[c][j] = h2.prods[c][j]
                                    /\ base.indexOf[c][j] = h2.indexOf[c][j]
  <2>1. CASE h2.prods[c][i] = n
    BY <2>1, <1>5, <1>6
  <2>2. CASE h2.prods[c][i] # n
    <3>1. base = put
      BY <2>2
    <3>2. /\ h2.prods \in [Consumers -> Seq(Producers \cup {None})]
          /\ h2.indexOf \in [Consumers -> Seq(Nat)]
      BY <1>5, GraphTypes
    <3>3. /\ put.epoch = h2.epoch /\ put.value = h2.value /\ put.version = h2.version
          /\ put.clean = h2.clean /\ put.dirty = h2.dirty
          /\ put.live = h2.live /\ put.liveIdx = h2.liveIdx
          /\ put.next = h2.next /\ put.seen = h2.seen /\ put.got = h2.got
          /\ put.prods = [h2.prods EXCEPT ![c] = [@ EXCEPT ![i] = n]]
          /\ put.indexOf = [h2.indexOf EXCEPT ![c] = [@ EXCEPT ![i] = 0]]
      BY <1>5 DEF Graphs
    <3>4. /\ [h2.prods[c] EXCEPT ![i] = n] \in Seq(Producers \cup {None})
          /\ Len([h2.prods[c] EXCEPT ![i] = n]) = length
          /\ \A j \in 1..length :
                [h2.prods[c] EXCEPT ![i] = n][j] = IF j = i THEN n ELSE h2.prods[c][j]
      <4>1. h2.prods[c] \in Seq(Producers \cup {None}) /\ n \in Producers \cup {None}
        BY <3>2
      <4>2. i \in 1..Len(h2.prods[c]) /\ Len(h2.prods[c]) = length
        BY <1>2, <1>6
      <4> QED
        BY <4>1, <4>2, ExceptSeq
    <3>5. /\ [h2.indexOf[c] EXCEPT ![i] = 0] \in Seq(Nat)
          /\ Len([h2.indexOf[c] EXCEPT ![i] = 0]) = length
          /\ \A j \in 1..length :
                [h2.indexOf[c] EXCEPT ![i] = 0][j] = IF j = i THEN 0 ELSE h2.indexOf[c][j]
      <4>1. h2.indexOf[c] \in Seq(Nat) /\ 0 \in Nat
        BY <3>2
      <4>2. i \in 1..Len(h2.indexOf[c]) /\ Len(h2.indexOf[c]) = length
        BY <1>2, <1>6
      <4> QED
        BY <4>1, <4>2, ExceptSeq
    <3>6. /\ put.prods \in [Consumers -> Seq(Producers \cup {None})]
          /\ put.indexOf \in [Consumers -> Seq(Nat)]
      BY <3>2, <3>3, <3>4, <3>5
    <3>7. put \in Graphs
      BY <1>5, <3>6 DEF Graphs
    <3>8. /\ put.prods[c] = [h2.prods[c] EXCEPT ![i] = n]
          /\ put.indexOf[c] = [h2.indexOf[c] EXCEPT ![i] = 0]
          /\ \A x \in Consumers \ {c} : put.prods[x] = h2.prods[x] /\ put.indexOf[x] = h2.indexOf[x]
      BY <3>2, <3>3
    <3> HIDE DEF put
    <3>9. \A x \in Consumers \ {c} : put.prods[x] = h1.prods[x] /\ put.indexOf[x] = h1.indexOf[x]
      BY <1>6, <3>8
    <3>10. /\ Len(put.prods[c]) = length /\ Len(put.indexOf[c]) = length
           /\ put.prods[c][i] = n /\ put.indexOf[c][i] = 0
           /\ \A j \in 1..length \ {i} : /\ put.prods[c][j] = h2.prods[c][j]
                                         /\ put.indexOf[c][j] = h2.indexOf[c][j]
      BY <1>2, <3>4, <3>5, <3>8
    <3> QED
      BY <1>5, <2>2, <3>1, <3>3, <3>7, <3>9, <3>10
  <2> QED
    BY <2>1, <2>2
<1>8. h2.prods[c][i] = n => i <= Len(h.prods[c])
  BY <1>2, <1>6, NodeFacts
<1>c. h3 = IF h2.prods[c][i] # n /\ IsLive(base, c) THEN AddLiveConsumer(base, n, c, i) ELSE base
  <2>1. IsLive(base, c) <=> IsLive(h2, c)
    BY <1>5, <1>7 DEF IsLive
  <2>2. h2.next[c] = i
    BY <1>6
  <2> QED
    BY <2>1, <2>2 DEF PutProducer
<1> HIDE DEF base, put, h3
<1>9. /\ \A x \in Consumers \ {c} : \A j : Linked(base, x, j) <=> Linked(h1, x, j)
      /\ \A j : Linked(base, c, j) <=> Linked(h1, c, j)
  <2>1. ASSUME NEW x \in Consumers \ {c}, NEW j PROVE Linked(base, x, j) <=> Linked(h1, x, j)
    BY <1>7 DEF Linked
  <2>2. h1.prods = h.prods
    BY <1>3 DEF SameNodes
  <2>3. ASSUME NEW j PROVE Linked(base, c, j) <=> Linked(h1, c, j)
    <3>1. CASE j \notin 1..length
      <4>1. j \notin 1..Len(h.prods[c])
        BY <3>1, <1>2, <1>a
      <4> QED
        BY <3>1, <4>1, <2>2, <1>7 DEF Linked
    <3>2. CASE j \in 1..length /\ j # i /\ j <= Len(h.prods[c])
      <4>1. base.prods[c][j] = h1.prods[c][j] /\ base.indexOf[c][j] = h1.indexOf[c][j]
        BY <3>2, <1>6, <1>7
      <4>2. j \in 1..Len(h1.prods[c]) /\ j \in 1..Len(base.prods[c])
        BY <3>2, <1>2, <1>7, <2>2
      <4> QED
        BY <4>1, <4>2, <1>7 DEF Linked
    <3>3. CASE j \in 1..length /\ j # i /\ j > Len(h.prods[c])
      <4>1. base.prods[c][j] = None /\ None \notin Producers
        BY <3>3, <1>6, <1>7, NodeFacts
      <4>2. j \notin 1..Len(h1.prods[c])
        BY <3>3, <1>2, <2>2
      <4> QED
        BY <4>1, <4>2 DEF Linked
    <3>4. CASE j = i /\ h2.prods[c][i] = n
      <4>1. i \in 1..Len(h1.prods[c]) /\ i \in 1..Len(base.prods[c])
        BY <3>4, <1>2, <1>7, <1>8, <2>2
      <4>2. base.prods[c][i] = h1.prods[c][i] /\ base.indexOf[c][i] = h1.indexOf[c][i]
        BY <3>4, <1>2, <1>6, <1>7, <1>8
      <4> QED
        BY <3>4, <4>1, <4>2, <1>7 DEF Linked
    <3>5. CASE j = i /\ h2.prods[c][i] # n
      <4>1. ~Linked(base, c, i)
        <5>1. base.indexOf[c][i] = 0
          BY <3>5, <1>7
        <5>2. 0 \notin 1..Len(base.live[base.prods[c][i]])
          OBVIOUS
        <5> QED
          BY <5>1, <5>2 DEF Linked
      <4>2. Linked(h1, c, i) => h.prods[c][i] = n /\ i \in 1..Len(h.prods[c])
        BY <1>3, <2>2, LinkedInRange
      <4>3. ~Linked(h1, c, i)
        BY <3>5, <4>2, <1>2, <1>6, <2>2
      <4> QED
        BY <3>5, <4>1, <4>3
    <3> QED
      BY <3>1, <3>2, <3>3, <3>4, <3>5, <1>2
  <2> QED
    BY <2>1, <2>3
<1>d. h1.prods = h.prods
  BY <1>3 DEF SameNodes
<1>10. Matched(base)
  <2>1. SUFFICES ASSUME NEW m \in Producers, NEW k \in 1..Len(base.live[m])
                 PROVE  LET x == base.live[m][k]
                            y == base.liveIdx[m][k]
                        IN  y \in 1..Len(base.prods[x]) /\ base.prods[x][y] = m
                            /\ base.indexOf[x][y] = k
    BY DEF Matched
  <2> DEFINE x == h1.live[m][k]
             y == h1.liveIdx[m][k]
  <2>a. base.live[m][k] = x /\ base.liveIdx[m][k] = y /\ k \in 1..Len(h1.live[m])
    BY <2>1, <1>7
  <2>b. SUFFICES y \in 1..Len(base.prods[x]) /\ base.prods[x][y] = m /\ base.indexOf[x][y] = k
    BY <2>a
  <2>2. y \in 1..Len(h1.prods[x]) /\ h1.prods[x][y] = m /\ h1.indexOf[x][y] = k
    BY <1>4, <2>a DEF Matched
  <2>3. x \in Consumers
    BY <1>4, <2>a, GraphTypes, ElementOfSeq
  <2>4. CASE x # c
    BY <2>2, <2>3, <2>4, <1>7
  <2>5. CASE x = c
    <3>1. y \in 1..Len(h.prods[c]) /\ h1.prods[c][y] = m /\ h1.indexOf[c][y] = k
      BY <2>2, <2>5, <1>d
    <3>2. y \in 1..length /\ y <= Len(h.prods[c])
      BY <3>1, <1>2, <1>a
    <3>3. CASE y # i
      <4>1. base.prods[c][y] = h2.prods[c][y] /\ base.indexOf[c][y] = h2.indexOf[c][y]
        BY <3>2, <3>3, <1>7
      <4>2. h2.prods[c][y] = h1.prods[c][y] /\ h2.indexOf[c][y] = h1.indexOf[c][y]
        BY <3>2, <1>6
      <4>3. y \in 1..Len(base.prods[c])
        BY <3>2, <1>6, <1>7
      <4> QED
        BY <2>5, <3>1, <4>1, <4>2, <4>3
    <3>4. CASE y = i
      <4>1. Linked(h1, c, i)
        <5>1. h1.live[h1.prods[c][i]][h1.indexOf[c][i]] = c
              /\ h1.liveIdx[h1.prods[c][i]][h1.indexOf[c][i]] = i
          BY <3>1, <3>4, <2>5
        <5>2. i \in 1..Len(h1.prods[c]) /\ h1.prods[c][i] \in Producers
              /\ h1.indexOf[c][i] \in 1..Len(h1.live[h1.prods[c][i]])
          BY <2>1, <2>a, <3>1, <3>4, <1>d
        <5> QED
          BY <5>1, <5>2 DEF Linked
      <4>2. h.prods[c][i] = n
        BY <4>1, <1>3
      <4>3. h2.prods[c][i] = n /\ h2.prods[c][i] = m /\ h2.indexOf[c][i] = k
        BY <4>2, <3>1, <3>2, <3>4, <1>6, <1>d
      <4> QED
        BY <2>5, <3>2, <3>4, <4>3, <1>7
    <3> QED
      BY <3>3, <3>4
  <2> QED
    BY <2>4, <2>5
<1>11. Shaped(base)
  <2>1. \A m \in Producers : Len(base.liveIdx[m]) = Len(base.live[m])
    BY <1>4, <1>7 DEF Shaped
  <2>2. \A x \in Consumers : /\ Len(base.seen[x]) = Len(base.prods[x])
                             /\ Len(base.indexOf[x]) = Len(base.prods[x])
                             /\ Len(base.got[x]) = Len(base.prods[x])
    <3> SUFFICES ASSUME NEW x \in Consumers
                 PROVE  /\ Len(base.seen[x]) = Len(base.prods[x])
                        /\ Len(base.indexOf[x]) = Len(base.prods[x])
                        /\ Len(base.got[x]) = Len(base.prods[x])
      OBVIOUS
    <3>1. CASE x = c
      BY <3>1, <1>6, <1>7
    <3>2. CASE x # c
      <4>1. /\ base.prods[x] = h1.prods[x] /\ base.indexOf[x] = h1.indexOf[x]
            /\ base.seen[x] = h1.seen[x] /\ base.got[x] = h1.got[x]
        BY <3>2, <1>6, <1>7
      <4> QED
        BY <4>1, <1>4 DEF Shaped
    <3> QED
      BY <3>1, <3>2
  <2>3. ASSUME NEW x \in Computeds, NEW j \in 1..Len(base.prods[x])
        PROVE  base.prods[x][j] \in Producers /\ Rank[base.prods[x][j]] < Rank[x]
    <3>1. CASE x # c
      BY <3>1, <1>4, <1>7, NodeFacts DEF Shaped
    <3>2. CASE x = c
      <4>1. CASE j = i
        BY <3>2, <4>1, <1>7
      <4>2. CASE j # i
        <5>1. j \in 1..length \ {i}
          BY <2>3, <3>2, <4>2, <1>7
        <5>2. j <= Len(h.prods[c]) /\ j \in 1..Len(h1.prods[c])
          <6>1. h.next[c] <= Len(h.prods[c])
            BY <3>2
          <6>2. length <= Len(h.prods[c]) + 1 /\ (length > Len(h.prods[c]) => length = i)
            BY <6>1, <1>2, <1>a, <1>b
          <6> QED
            BY <5>1, <6>2, <1>2, <1>d
        <5>3. base.prods[c][j] = h1.prods[c][j]
          BY <5>1, <5>2, <1>6, <1>7
        <5> QED
          BY <3>2, <5>2, <5>3, <1>4 DEF Shaped
      <4> QED
        BY <4>1, <4>2
    <3> QED
      BY <3>1, <3>2
  <2> QED
    BY <1>7, <2>1, <2>2, <2>3 DEF Shaped
<1>12. Settled(base, {c})
  <2>1. ASSUME NEW x \in Consumers \ {c}, NEW j \in 1..Len(base.prods[x]),
               base.prods[x][j] # None
        PROVE  Linked(base, x, j) <=> IsLive(base, x)
    <3>1. Linked(h1, x, j) <=> IsLive(h1, x)
      BY <2>1, <1>4, <1>7 DEF Settled
    <3>2. IsLive(base, x) <=> IsLive(h1, x)
      BY <1>7 DEF IsLive
    <3> QED
      BY <3>1, <3>2, <1>9
  <2> QED
    BY <2>1 DEF Settled
\* If it was another producer, it is linked exactly if the consumer is live.
<1>13. /\ Shaped(h3) /\ Matched(h3) /\ Settled(h3, {c}) /\ SameNodes(base, h3)
       /\ c \in Computeds => \A m \in Producers : Rank[m] >= Rank[c] => h3.live[m] = base.live[m]
       /\ OnlyBelow(base, h3, n)
       /\ \A j : Linked(h3, c, j) <=>
             Linked(base, c, j) \/ (j = i /\ h2.prods[c][i] # n /\ IsLive(base, c))
  <2>1. CASE h2.prods[c][i] # n /\ IsLive(base, c)
    <3>1. h3 = AddLiveConsumer(base, n, c, i)
      BY <2>1, <1>c
    <3>2. Above({c}, n)
      BY NodeFacts DEF Above
    <3>3. ~Linked(base, c, i)
      <4>1. base.indexOf[c][i] = 0
        BY <2>1, <1>7
      <4>2. 0 \notin 1..Len(base.live[base.prods[c][i]])
        OBVIOUS
      <4> QED
        BY <4>1, <4>2 DEF Linked
    <3>4. CanAdd(base, n, c, i, {c})
      BY <1>2, <1>7, <1>10, <1>11, <1>12, <3>2, <3>3 DEF CanAdd
    <3>5. Added(base, h3, n, c, i, {c})
      BY <3>1, <3>4, AddLiveConsumerAdds
    <3>6. c \in Computeds => \A m \in Producers : Rank[m] >= Rank[c] => h3.live[m] = base.live[m]
      <4> SUFFICES ASSUME c \in Computeds, NEW m \in Producers, Rank[m] >= Rank[c]
                   PROVE  h3.live[m] = base.live[m]
        OBVIOUS
      <4>1. Rank[m] \in Nat /\ Rank[c] \in Nat /\ Rank[n] \in Nat /\ Rank[n] < Rank[c]
        BY NodeFacts
      <4>2. Rank[m] > Rank[n]
        BY <4>1
      <4> QED
        BY <4>2, <3>5 DEF Added
    <3>7. \A j : Linked(h3, c, j) <=> Linked(base, c, j) \/ j = i
      BY <3>5 DEF Added
    <3> QED
      BY <2>1, <3>5, <3>6, <3>7 DEF Added
  <2>2. CASE ~(h2.prods[c][i] # n /\ IsLive(base, c))
    <3>1. h3 = base
      BY <2>2, <1>c
    <3> QED
      BY <2>2, <3>1, <1>10, <1>11, <1>12 DEF SameNodes, OnlyBelow
  <2> QED
    BY <2>1, <2>2
<1>14. IsLive(h3, c) <=> IsLive(h, c)
  <2>1. CASE c \in Effects
    BY <2>1 DEF IsLive
  <2>2. CASE c \in Computeds
    <3>1. h3.live[c] = h.live[c]
      BY <2>2, <1>3, <1>7, <1>13, NodeFacts
    <3> QED
      BY <3>1 DEF IsLive
  <2> QED
    BY <2>1, <2>2, NodeFacts
<1>15. Settled(h3, {})
  <2>1. ASSUME NEW j \in 1..length, h3.prods[c][j] # None
        PROVE  Linked(h3, c, j) <=> IsLive(h3, c)
    <3>1. h3.prods = base.prods
      BY <1>13 DEF SameNodes
    <3>2. \A y \in 1..Len(h.prods[c]) : h.prods[c][y] # None => (Linked(h, c, y) <=> IsLive(h, c))
      BY <1>2 DEF Wired, Settled
    <3>3. CASE j # i
      <4>1. j <= Len(h.prods[c]) /\ h.prods[c][j] # None
        BY <2>1, <3>1, <3>3, <1>2, <1>6, <1>7, <1>d
      <4>2. j \in 1..Len(h.prods[c])
        BY <4>1, <2>1, <1>2
      <4>3. Linked(h, c, j) <=> IsLive(h, c)
        BY <3>2, <4>1, <4>2
      <4>4. Linked(h3, c, j) <=> Linked(h, c, j)
        BY <3>3, <1>3, <1>9, <1>13
      <4> QED
        BY <4>3, <4>4, <1>14
    <3>4. CASE j = i /\ h2.prods[c][i] = n
      <4>1. i \in 1..Len(h.prods[c]) /\ h.prods[c][i] = n /\ n # None
        BY <3>4, <1>2, <1>6, <1>8, <1>d, NodeFacts
      <4>2. Linked(h, c, i) <=> IsLive(h, c)
        BY <3>2, <4>1
      <4>3. Linked(h3, c, i) <=> Linked(h, c, i)
        BY <3>4, <4>1, <1>3, <1>9, <1>13
      <4> QED
        BY <3>4, <4>2, <4>3, <1>14
    <3>5. CASE j = i /\ h2.prods[c][i] # n
      <4>1. ~Linked(base, c, i)
        <5>1. base.indexOf[c][i] = 0
          BY <3>5, <1>7
        <5>2. 0 \notin 1..Len(base.live[base.prods[c][i]])
          OBVIOUS
        <5> QED
          BY <5>1, <5>2 DEF Linked
      <4>2. IsLive(base, c) <=> IsLive(h1, c)
        BY <1>7 DEF IsLive
      <4> QED
        BY <3>5, <4>1, <4>2, <1>3, <1>13, <1>14
    <3> QED
      BY <3>3, <3>4, <3>5
  <2>2. Len(h3.prods[c]) = length
    BY <1>7, <1>13 DEF SameNodes
  <2>3. \A x \in Consumers \ {c} : \A j \in 1..Len(h3.prods[x]) :
           h3.prods[x][j] # None => (Linked(h3, x, j) <=> IsLive(h3, x))
    BY <1>13 DEF Settled
  <2> QED
    BY <2>1, <2>2, <2>3 DEF Settled
\* The version and the value are recorded.
<1>16. /\ h3 \in Graphs /\ h3.next[c] = i
       /\ h3.value = h.value /\ h3.version = h.version
       /\ i \in 1..Len(h3.seen[c]) /\ i \in 1..Len(h3.got[c])
       /\ h3.seen = h2.seen /\ h3.got = h2.got
  <2>1. h3 \in Graphs
    BY <1>13 DEF Shaped
  <2>2. /\ h3.next = h2.next /\ h3.seen = h2.seen /\ h3.got = h2.got
        /\ h3.value = h1.value /\ h3.version = h1.version
    BY <1>7, <1>13 DEF SameNodes
  <2>3. h1.value = h.value /\ h1.version = h.version
    BY <1>3 DEF SameNodes
  <2> QED
    BY <2>1, <2>2, <2>3, <1>2, <1>6
<1>17. /\ h4.epoch = h3.epoch /\ h4.value = h3.value /\ h4.version = h3.version
       /\ h4.clean = h3.clean /\ h4.dirty = h3.dirty /\ h4.prods = h3.prods
       /\ h4.indexOf = h3.indexOf /\ h4.next = h3.next /\ h4.live = h3.live
       /\ h4.liveIdx = h3.liveIdx
       /\ h4.seen = [h3.seen EXCEPT ![c] = [@ EXCEPT ![i] = h.version[n]]]
       /\ h4.got = [h3.got EXCEPT ![c] = [@ EXCEPT ![i] = h.value[n]]]
  BY <1>16 DEF RecordRead, Graphs
<1> HIDE DEF h4
<1>18. /\ [h3.seen[c] EXCEPT ![i] = h.version[n]] \in Seq(Nat \cup {None})
       /\ Len([h3.seen[c] EXCEPT ![i] = h.version[n]]) = Len(h3.seen[c])
       /\ \A j \in 1..Len(h3.seen[c]) : [h3.seen[c] EXCEPT ![i] = h.version[n]][j] =
                                          IF j = i THEN h.version[n] ELSE h3.seen[c][j]
  <2>1. h3.seen[c] \in Seq(Nat \cup {None}) /\ h.version[n] \in Nat \cup {None}
    BY <1>2, <1>16, GraphTypes
  <2> QED
    BY <2>1, <1>16, ExceptSeq
<1>19. /\ [h3.got[c] EXCEPT ![i] = h.value[n]] \in Seq(Results \cup {Unset, None})
       /\ Len([h3.got[c] EXCEPT ![i] = h.value[n]]) = Len(h3.got[c])
       /\ \A j \in 1..Len(h3.got[c]) : [h3.got[c] EXCEPT ![i] = h.value[n]][j] =
                                         IF j = i THEN h.value[n] ELSE h3.got[c][j]
  <2>1. h3.got[c] \in Seq(Results \cup {Unset, None}) /\ h.value[n] \in Results \cup {Unset, None}
    BY <1>2, <1>16, GraphTypes
  <2> QED
    BY <2>1, <1>16, ExceptSeq
<1>20. /\ h4.seen[c] = [h3.seen[c] EXCEPT ![i] = h.version[n]]
       /\ h4.got[c] = [h3.got[c] EXCEPT ![i] = h.value[n]]
       /\ \A x \in Consumers \ {c} : h4.seen[x] = h3.seen[x] /\ h4.got[x] = h3.got[x]
  <2>1. /\ h3.seen \in [Consumers -> Seq(Nat \cup {None})]
        /\ h3.got \in [Consumers -> Seq(Results \cup {Unset, None})]
    BY <1>16, GraphTypes
  <2> QED
    BY <1>17, <2>1
<1>21. /\ Len(h4.seen[c]) = Len(h3.seen[c]) /\ Len(h4.got[c]) = Len(h3.got[c])
       /\ h4.seen[c][i] = h.version[n] /\ h4.got[c][i] = h.value[n]
       /\ \A j \in 1..length \ {i} : h4.seen[c][j] = h3.seen[c][j] /\ h4.got[c][j] = h3.got[c][j]
  <2>1. Len(h3.seen[c]) = length /\ Len(h3.got[c]) = length
    BY <1>6, <1>16
  <2> QED
    BY <2>1, <1>16, <1>18, <1>19, <1>20
<1>22. h4 \in Graphs
  <2>1. /\ h3.seen \in [Consumers -> Seq(Nat \cup {None})]
        /\ h3.got \in [Consumers -> Seq(Results \cup {Unset, None})]
    BY <1>16, GraphTypes
  <2>2. /\ h4.seen \in [Consumers -> Seq(Nat \cup {None})]
        /\ h4.got \in [Consumers -> Seq(Results \cup {Unset, None})]
    BY <1>17, <1>18, <1>19, <2>1
  <2>3. h4 = [h3 EXCEPT !.seen = h4.seen, !.got = h4.got]
    BY <1>16 DEF RecordRead, Graphs, h4
  <2> QED
    BY <1>16, <2>2, <2>3 DEF Graphs
<1>23. Wired(h4, {})
  <2>1. Matched(h4) /\ Settled(h4, {})
    BY <1>13, <1>15, <1>17, SameLinks
  <2>2. \A m \in Producers : Len(h4.liveIdx[m]) = Len(h4.live[m])
    BY <1>13, <1>17 DEF Shaped
  <2>3. \A x \in Consumers : /\ Len(h4.seen[x]) = Len(h4.prods[x])
                             /\ Len(h4.indexOf[x]) = Len(h4.prods[x])
                             /\ Len(h4.got[x]) = Len(h4.prods[x])
    <3> SUFFICES ASSUME NEW x \in Consumers
                 PROVE  Len(h4.seen[x]) = Len(h3.seen[x]) /\ Len(h4.got[x]) = Len(h3.got[x])
      BY <1>13, <1>17 DEF Shaped
    <3> QED
      BY <1>20, <1>21
  <2>4. \A x \in Computeds : \A j \in 1..Len(h4.prods[x]) :
           h4.prods[x][j] \in Producers /\ Rank[h4.prods[x][j]] < Rank[x]
    BY <1>13, <1>17 DEF Shaped
  <2> QED
    BY <1>22, <2>1, <2>2, <2>3, <2>4 DEF Wired, Shaped
\* Compared with the graph at the start.
<1>24. /\ h4.epoch = h.epoch /\ h4.value = h.value /\ h4.version = h.version
       /\ h4.clean = h.clean /\ h4.dirty = h.dirty
  <2>1. /\ h3.epoch = base.epoch /\ h3.value = base.value /\ h3.version = base.version
        /\ h3.clean = base.clean /\ h3.dirty = base.dirty
    BY <1>13 DEF SameNodes
  <2>2. /\ h1.epoch = h.epoch /\ h1.value = h.value /\ h1.version = h.version
        /\ h1.clean = h.clean /\ h1.dirty = h.dirty
    BY <1>3 DEF SameNodes
  <2> QED
    BY <1>7, <1>17, <2>1, <2>2
<1>25. \A x \in Consumers \ {c} : /\ h4.prods[x] = h.prods[x] /\ h4.seen[x] = h.seen[x]
                                  /\ h4.next[x] = h.next[x] /\ h4.got[x] = h.got[x]
  <2>1. h3.prods = base.prods /\ h3.next = base.next
    BY <1>13 DEF SameNodes
  <2>2. h1.prods = h.prods /\ h1.seen = h.seen /\ h1.next = h.next /\ h1.got = h.got
    BY <1>3 DEF SameNodes
  <2> SUFFICES ASSUME NEW x \in Consumers \ {c}
               PROVE  /\ h4.prods[x] = h.prods[x] /\ h4.seen[x] = h.seen[x]
                      /\ h4.next[x] = h.next[x] /\ h4.got[x] = h.got[x]
    OBVIOUS
  <2>3. h4.prods[x] = h.prods[x]
    BY <1>7, <1>17, <2>1, <2>2
  <2>4. h4.next[x] = h.next[x]
    BY <1>6, <1>7, <1>17, <2>1, <2>2
  <2>5. h4.seen[x] = h.seen[x] /\ h4.got[x] = h.got[x]
    BY <1>6, <1>16, <1>20, <2>2
  <2> QED
    BY <2>3, <2>4, <2>5
<1>26. SameExceptLists(h, h4, c)
  BY <1>24, <1>25 DEF SameExceptLists
<1>27. /\ h4.next[c] = i /\ Len(h4.prods[c]) = length /\ h4.prods[c][i] = n
       /\ \A j \in 1..length \ {i} : j <= Len(h.prods[c]) =>
             /\ h4.prods[c][j] = h.prods[c][j]
             /\ h4.seen[c][j] = h.seen[c][j] /\ h4.got[c][j] = h.got[c][j]
       /\ \A j \in 1..length \ {i} : j > Len(h.prods[c]) => h4.prods[c][j] = None
  <2>1. h3.prods = base.prods
    BY <1>13 DEF SameNodes
  <2>2. h1.prods = h.prods /\ h1.seen = h.seen /\ h1.got = h.got
    BY <1>3 DEF SameNodes
  <2>3. h4.next[c] = i /\ Len(h4.prods[c]) = length /\ h4.prods[c][i] = n
    BY <1>7, <1>16, <1>17, <2>1
  <2>4. ASSUME NEW j \in 1..length \ {i}, j <= Len(h.prods[c])
        PROVE  /\ h4.prods[c][j] = h.prods[c][j]
               /\ h4.seen[c][j] = h.seen[c][j] /\ h4.got[c][j] = h.got[c][j]
    <3>1. h4.prods[c][j] = h.prods[c][j]
      BY <2>1, <2>2, <2>4, <1>6, <1>7, <1>17
    <3>2. h4.seen[c][j] = h2.seen[c][j] /\ h4.got[c][j] = h2.got[c][j]
      BY <2>4, <1>16, <1>21
    <3>3. h2.seen[c][j] = h1.seen[c][j] /\ h2.got[c][j] = h1.got[c][j]
      BY <2>4, <1>6
    <3> QED
      BY <2>2, <3>1, <3>2, <3>3
  <2>5. ASSUME NEW j \in 1..length \ {i}, j > Len(h.prods[c])
        PROVE  h4.prods[c][j] = None
    BY <2>1, <2>5, <1>6, <1>7, <1>17
  <2> QED
    BY <2>3, <2>4, <2>5
<1>28. Recorded(h, h4, n, c, i)
  BY <1>21, <1>27, <1>a DEF Recorded
<1>29. Versioned(h4)
  <2>1. Versioned(h)
    BY DEF Sane
  <2>2. ASSUME NEW x \in Consumers, NEW j \in 1..Len(h4.prods[x]), h4.prods[x][j] # None
        PROVE  /\ h4.seen[x][j] \in Nat /\ h4.seen[x][j] <= h4.version[h4.prods[x][j]]
               /\ h4.seen[x][j] = h4.version[h4.prods[x][j]]
                     => h4.got[x][j] = h4.value[h4.prods[x][j]]
    <3>1. CASE x # c
      <4>1. h4.prods[x] = h.prods[x] /\ h4.seen[x] = h.seen[x] /\ h4.got[x] = h.got[x]
        BY <3>1, <1>25
      <4> QED
        BY <2>1, <2>2, <4>1, <1>24 DEF Versioned
    <3>2. CASE x = c /\ j = i
      <4>1. h.version[n] \in Nat
        BY <1>2, GraphTypes
      <4> QED
        BY <3>2, <4>1, <1>21, <1>24, <1>27
    <3>3. CASE x = c /\ j # i
      <4>1. j \in 1..length \ {i}
        BY <2>2, <3>3, <1>27
      <4>2. j <= Len(h.prods[c])
        BY <2>2, <3>3, <4>1, <1>2, <1>27
      <4>3. /\ h4.prods[c][j] = h.prods[c][j]
            /\ h4.seen[c][j] = h.seen[c][j] /\ h4.got[c][j] = h.got[c][j]
        BY <4>1, <4>2, <1>27
      <4>4. j \in 1..Len(h.prods[c]) /\ h.prods[c][j] # None
        BY <2>2, <3>3, <4>1, <4>2, <4>3, <1>2
      <4>5. LET m == h.prods[c][j]
            IN  /\ h.seen[c][j] \in Nat /\ h.seen[c][j] <= h.version[m]
                /\ h.seen[c][j] = h.version[m] => h.got[c][j] = h.value[m]
        BY <2>1, <4>4 DEF Versioned
      <4> QED
        BY <3>3, <4>3, <4>5, <1>24
    <3> QED
      BY <3>1, <3>2, <3>3
  <2> QED
    BY <2>2 DEF Versioned
<1>30. c \in Computeds => \A m \in Producers : Rank[m] >= Rank[c] => h4.live[m] = h.live[m]
  BY <1>3, <1>7, <1>13, <1>17
<1>31. ASSUME NEW K \in SUBSET Producers, n \in K, Downward(h, K), NEW m \in Producers \ K
       PROVE  Len(h4.live[m]) <= Len(h.live[m])
  <2>1. Downward(base, K)
    <3>1. ASSUME NEW x \in K \cap Computeds, NEW j \in 1..Len(base.prods[x])
          PROVE  base.prods[x][j] \in K
      <4>1. CASE x # c
        BY <1>31, <3>1, <4>1, <1>7, <1>d, NodeFacts DEF Downward
      <4>2. CASE x = c /\ j = i
        BY <4>2, <1>7, <1>31
      <4>3. CASE x = c /\ j # i
        <5>1. base.prods[c][j] \in Producers /\ base.prods[c][j] # None
          BY <3>1, <4>3, <1>11, NodeFacts DEF Shaped
        <5>2. j \in 1..length \ {i}
          BY <3>1, <4>3, <1>7
        <5>3. j <= Len(h.prods[c])
          BY <5>1, <5>2, <1>2, <1>6, <1>7
        <5>4. base.prods[c][j] = h.prods[c][j] /\ j \in 1..Len(h.prods[c])
          BY <5>2, <5>3, <1>2, <1>6, <1>7, <1>d
        <5> QED
          BY <1>31, <3>1, <4>3, <5>4 DEF Downward
      <4> QED
        BY <4>1, <4>2, <4>3
    <3> QED
      BY <3>1 DEF Downward
  <2>2. h3.live[m] = base.live[m]
    BY <2>1, <1>13, <1>31 DEF OnlyBelow
  <2> QED
    BY <2>2, <1>3, <1>7, <1>17
<1>32. Sane(h4)
  BY <1>23, <1>29 DEF Sane
<1> QED
  BY <1>1, <1>26, <1>28, <1>30, <1>31, <1>32, <1>b

-----------------------------------------------------------------------------
(* The end of a computation.                                               *)

\* The loop over the producers of c cuts its links from the position i on.
LEMMA DropLinksCuts ==
    ASSUME NEW h, NEW c \in Consumers, NEW i \in Nat, Wired(h, {}), IsLive(h, c),
           \A j \in 1..Len(h.prods[c]) : j >= i => h.prods[c][j] # None
    PROVE  LET h2 == DropLinks(h, c, i)
           IN  /\ Wired(h2, {c}) /\ SameNodes(h, h2)
               /\ \A j : Linked(h2, c, j) <=> Linked(h, c, j) /\ j < i
               /\ c \in Computeds => \A m \in Producers : Rank[m] >= Rank[c] =>
                                        h2.live[m] = h.live[m]
               /\ \A m \in Producers : Len(h2.live[m]) <= Len(h.live[m])
<1> DEFINE N == Len(h.prods[c])
           step == [j \in DOMAIN h.prods[c] |-> [acc \in Graphs |->
                      IF j < i THEN acc
                      ELSE RemoveLiveConsumerAt(acc, h.prods[c][j], acc.indexOf[c][j])]]
           At(j) == Iterate(step, h, j)
           OK(acc, k) == /\ Wired(acc, {c}) /\ SameNodes(h, acc)
                         /\ c \in Computeds => \A m \in Producers : Rank[m] >= Rank[c] =>
                                                  acc.live[m] = h.live[m]
                         /\ \A m \in Producers : Len(acc.live[m]) <= Len(h.live[m])
                         /\ \A j : Linked(acc, c, j) <=> Linked(h, c, j) /\ (j < i \/ j > k)
           Done == {k \in Nat : k <= N => OK(At(k), k)}
<1>1. /\ h \in Graphs /\ Shaped(h) /\ h.prods[c] \in Seq(Producers \cup {None})
      /\ N \in Nat /\ DOMAIN h.prods[c] = 1..N
  <2>1. h \in Graphs /\ Shaped(h)
    BY DEF Wired, Shaped
  <2>2. h.prods[c] \in Seq(Producers \cup {None})
    BY <2>1, GraphTypes
  <2> QED
    BY <2>1, <2>2, LenProperties
<1>2. 0 \in Done
  <2>1. At(0) = h
    BY IterateRounds
  <2>2. SameNodes(h, h)
    BY DEF SameNodes
  <2>3. \A j : Linked(h, c, j) => j \in Nat /\ j > 0
    <3>1. \A j \in 1..N : j \in Nat /\ j > 0
      BY <1>1
    <3> QED
      BY <3>1, LinkedInRange
  <2>4. \A m \in Producers : Len(h.live[m]) <= Len(h.live[m])
    BY <1>1, LiveLength
  <2>5. Wired(h, {c})
    BY DEF Wired, Settled
  <2>6. OK(h, 0)
    BY <2>2, <2>3, <2>4, <2>5
  <2> HIDE DEF OK
  <2> QED
    BY <2>1, <2>6
<1>3. ASSUME NEW k \in Nat, k \in Done PROVE k + 1 \in Done
  <2>1. SUFFICES ASSUME k + 1 <= N PROVE OK(At(k + 1), k + 1)
    <3> HIDE DEF OK, At
    <3> QED
      OBVIOUS
  <2> DEFINE acc == At(k)
             p == h.prods[c][k + 1]
             q == acc.indexOf[c][k + 1]
             next == RemoveLiveConsumerAt(acc, p, q)
  <2>2. OK(acc, k)
    <3> HIDE DEF OK, At
    <3> QED
      BY <1>1, <1>3, <2>1
  <2>3. k + 1 \in 1..N
    BY <1>1, <2>1
  <2>4. At(k + 1) = IF k + 1 < i THEN acc ELSE next
    <3>1. acc \in Graphs
      BY <2>2 DEF Wired, Shaped
    <3>2. step[k + 1][acc] = IF k + 1 < i THEN acc ELSE next
      BY <1>1, <2>3, <3>1
    <3>3. At(k + 1) = step[k + 1][At(k)]
      <4> HIDE DEF step
      <4>1. GoesOn(step, h, k)
        BY IterateGoesOn, Zenon
      <4> QED
        BY <4>1 DEF GoesOn
    <3> QED
      BY <3>2, <3>3
  <2>5. h.prods[c][k + 1] = p /\ acc.indexOf[c][k + 1] = q
    OBVIOUS
  <2>a. \A j : Linked(h, c, j) => j \in Nat
    <3>1. \A j \in 1..N : j \in Nat
      BY <1>1
    <3> QED
      BY <3>1, LinkedInRange
  <2> HIDE DEF At, next, p, q
  <2>6. CASE k + 1 < i
    <3>1. \A j : Linked(h, c, j) => ((j < i \/ j > k) <=> (j < i \/ j > k + 1))
      BY <2>6, <2>a
    <3>2. OK(acc, k + 1)
      BY <2>2, <3>1
    <3> HIDE DEF OK
    <3> QED
      BY <2>4, <2>6, <3>2
  <2>7. CASE ~(k + 1 < i)
    <3>1. Linked(acc, c, k + 1)
      <4>1. h.prods[c][k + 1] # None
        BY <2>3, <2>7
      <4>2. Linked(h, c, k + 1)
        BY <2>3, <4>1 DEF Wired, Settled
      <4> QED
        BY <2>2, <4>2
    <3>2. acc.prods[c][k + 1] = p
      BY <2>2, <2>5 DEF SameNodes
    <3>3. /\ p \in Producers /\ CanCut(acc, p, q, {c})
          /\ acc.live[p][q] = c /\ acc.liveIdx[p][q] = k + 1
          /\ c \in Computeds => Rank[p] < Rank[c]
      <4>1. Wired(acc, {c})
        BY <2>2
      <4>2. Cuttable(acc, c, k + 1)
        BY <3>1, <4>1, LinkedIsCuttable
      <4> HIDE DEF acc
      <4> QED
        BY <2>5, <3>2, <4>2 DEF Cuttable
    <3>4. Cut(acc, next, p, q, {c})
      BY <3>3, RemoveLiveConsumerCuts DEF next
    <3>5. SameNodes(h, next)
      BY <2>2, <3>4 DEF Cut, SameNodes
    <3>6. c \in Computeds => \A m \in Producers : Rank[m] >= Rank[c] => next.live[m] = h.live[m]
      <4> SUFFICES ASSUME c \in Computeds, NEW m \in Producers, Rank[m] >= Rank[c]
                   PROVE  next.live[m] = h.live[m]
        OBVIOUS
      <4>1. Rank[m] \in Nat /\ Rank[c] \in Nat /\ Rank[p] \in Nat /\ Rank[p] < Rank[c]
        BY <3>3, NodeFacts
      <4>2. Rank[m] > Rank[p]
        BY <4>1
      <4>3. next.live[m] = acc.live[m]
        BY <3>4, <4>2 DEF Cut
      <4> QED
        BY <2>2, <4>3
    <3>7. \A m \in Producers : Len(next.live[m]) <= Len(h.live[m])
      <4> TAKE m \in Producers
      <4>1. Shaped(next) /\ Len(next.live[m]) <= Len(acc.live[m])
        BY <3>4 DEF Cut
      <4>2. Shaped(acc) /\ Len(acc.live[m]) <= Len(h.live[m])
        BY <2>2 DEF Wired
      <4>3. Len(next.live[m]) \in Nat /\ Len(acc.live[m]) \in Nat /\ Len(h.live[m]) \in Nat
        BY <1>1, <4>1, <4>2, LiveLength
      <4> QED
        BY <4>1, <4>2, <4>3, AtMostTransitive, Zenon
    <3>8. \A j : Linked(next, c, j) <=> Linked(h, c, j) /\ (j < i \/ j > k + 1)
      <4>1. \A j : Linked(next, c, j) <=> Linked(h, c, j) /\ (j < i \/ j > k) /\ j # k + 1
        BY <2>2, <3>3, <3>4 DEF Cut
      <4>2. \A j \in Nat : (j < i \/ j > k) /\ j # k + 1 <=> j < i \/ j > k + 1
        BY <2>7
      <4> QED
        BY <2>a, <4>1, <4>2
    <3>9. OK(next, k + 1)
      BY <3>4, <3>5, <3>6, <3>7, <3>8 DEF Cut, Wired
    <3> HIDE DEF OK
    <3> QED
      BY <2>4, <2>7, <3>9
  <2> QED
    BY <2>6, <2>7
<1>4. OK(At(N), N)
  <2>1. Nat \subseteq Done
    <3> HIDE DEF Done
    <3> QED
      BY <1>2, <1>3, Induction
  <2> HIDE DEF OK, At
  <2> QED
    BY <2>1, <1>1
<1>5. DropLinks(h, c, i) = At(N)
  BY DEF DropLinks
<1>6. \A j : Linked(h, c, j) => ~(j > N)
  <2>1. \A j \in 1..N : ~(j > N)
    BY <1>1
  <2> QED
    BY <2>1, LinkedInRange
<1> HIDE DEF At
<1> QED
  BY <1>4, <1>5, <1>6

\* What consumerAfterComputation keeps: the entries up to this one.
Kept(h, c) == IF h.next[c] < Len(h.prods[c]) THEN h.next[c] ELSE Len(h.prods[c])

\* consumerAfterComputation drops the entries that were not read again, with their links.
LEMMA AfterComputationEffect ==
    ASSUME NEW h, NEW c \in Consumers, Sane(h),
           \A j \in 1..Len(h.prods[c]) : j > h.next[c] => h.prods[c][j] # None
    PROVE  LET h2 == AfterComputation(h, c)
           IN  /\ Sane(h2) /\ SameExceptLists(h, h2, c) /\ h2.next = h.next
               /\ Len(h2.prods[c]) = Kept(h, c)
               /\ \A j \in 1..Kept(h, c) : /\ h2.prods[c][j] = h.prods[c][j]
                                           /\ h2.seen[c][j] = h.seen[c][j]
                                           /\ h2.got[c][j] = h.got[c][j]
               /\ c \in Computeds => \A m \in Producers : Rank[m] >= Rank[c] =>
                                        h2.live[m] = h.live[m]
               /\ \A m \in Producers : Len(h2.live[m]) <= Len(h.live[m])
<1> DEFINE N == Kept(h, c)
           h1 == IF IsLive(h, c) THEN DropLinks(h, c, h.next[c] + 1) ELSE h
           h2 == Truncate(h1, c)
<1>1. /\ Wired(h, {}) /\ Shaped(h) /\ h \in Graphs /\ h.next[c] \in Nat
      /\ Len(h.prods[c]) \in Nat /\ N \in Nat /\ N <= Len(h.prods[c])
      /\ N <= h.next[c]
  <2>1. Wired(h, {}) /\ Shaped(h) /\ h \in Graphs
    BY DEF Sane, Wired, Shaped
  <2>2. h.next[c] \in Nat /\ h.prods[c] \in Seq(Producers \cup {None})
    BY <2>1, GraphTypes
  <2>3. Len(h.prods[c]) \in Nat
    BY <2>2, LenProperties
  <2> QED
    BY <2>1, <2>2, <2>3 DEF Kept
<1>2. /\ Wired(h1, {c}) /\ SameNodes(h, h1)
      /\ \A j : Linked(h1, c, j) <=> Linked(h, c, j) /\ j <= N
      /\ c \in Computeds => \A m \in Producers : Rank[m] >= Rank[c] => h1.live[m] = h.live[m]
      /\ \A m \in Producers : Len(h1.live[m]) <= Len(h.live[m])
  <2>1. \A j : Linked(h, c, j) => j \in Nat /\ j <= Len(h.prods[c]) /\ h.prods[c][j] # None
    <3>1. \A j \in 1..Len(h.prods[c]) : j \in Nat /\ j <= Len(h.prods[c])
      BY <1>1
    <3> QED
      BY <3>1, LinkedInRange, NodeFacts
  <2>2. CASE IsLive(h, c)
    <3> DEFINE i == h.next[c] + 1
               h3 == DropLinks(h, c, i)
    <3>1. i \in Nat /\ \A j \in 1..Len(h.prods[c]) : j >= i => h.prods[c][j] # None
      BY <1>1
    <3>2. /\ Wired(h3, {c}) /\ SameNodes(h, h3)
          /\ \A j : Linked(h3, c, j) <=> Linked(h, c, j) /\ j < i
          /\ c \in Computeds => \A m \in Producers : Rank[m] >= Rank[c] =>
                                   h3.live[m] = h.live[m]
          /\ \A m \in Producers : Len(h3.live[m]) <= Len(h.live[m])
      <4> HIDE DEF i
      <4> QED
        BY <1>1, <2>2, <3>1, DropLinksCuts
    <3>3. h1 = h3
      BY <2>2
    <3> HIDE DEF h1, h3
    <3>4. \A j : Linked(h, c, j) => (j < i <=> j <= N)
      BY <1>1, <2>1 DEF Kept
    <3> QED
      BY <3>2, <3>3, <3>4
  <2>3. CASE ~IsLive(h, c)
    <3>1. h1 = h
      BY <2>3
    <3>2. \A j : ~Linked(h, c, j)
      <4>1. \A j : Linked(h, c, j) => j \in 1..Len(h.prods[c]) /\ h.prods[c][j] # None
        BY <2>1, LinkedInRange
      <4> QED
        BY <1>1, <2>3, <4>1 DEF Wired, Settled
    <3>3. Wired(h, {c}) /\ SameNodes(h, h)
      BY <1>1 DEF Wired, Settled, SameNodes
    <3>4. \A m \in Producers : Len(h.live[m]) <= Len(h.live[m])
      BY <1>1, LiveLength
    <3> QED
      BY <3>1, <3>2, <3>3, <3>4
  <2> QED
    BY <2>2, <2>3
<1>3. AfterComputation(h, c) = h2
  BY DEF AfterComputation
<1> HIDE DEF h1
<1>4. /\ h1 \in Graphs /\ Shaped(h1) /\ Matched(h1) /\ Settled(h1, {c})
      /\ h1.prods = h.prods /\ h1.seen = h.seen /\ h1.got = h.got /\ h1.next = h.next
  BY <1>2 DEF Wired, Shaped, SameNodes
<1>5. /\ h1.prods \in [Consumers -> Seq(Producers \cup {None})]
      /\ h1.seen \in [Consumers -> Seq(Nat \cup {None})]
      /\ h1.indexOf \in [Consumers -> Seq(Nat)]
      /\ h1.got \in [Consumers -> Seq(Results \cup {Unset, None})]
      /\ Len(h1.prods[c]) = Len(h.prods[c]) /\ Len(h1.seen[c]) = Len(h.prods[c])
      /\ Len(h1.indexOf[c]) = Len(h.prods[c]) /\ Len(h1.got[c]) = Len(h.prods[c])
  <2>1. /\ h1.prods \in [Consumers -> Seq(Producers \cup {None})]
        /\ h1.seen \in [Consumers -> Seq(Nat \cup {None})]
        /\ h1.indexOf \in [Consumers -> Seq(Nat)]
        /\ h1.got \in [Consumers -> Seq(Results \cup {Unset, None})]
    BY <1>4, GraphTypes
  <2>2. /\ Len(h1.prods[c]) = Len(h.prods[c]) /\ Len(h1.seen[c]) = Len(h.prods[c])
        /\ Len(h1.indexOf[c]) = Len(h.prods[c]) /\ Len(h1.got[c]) = Len(h.prods[c])
    BY <1>4 DEF Shaped
  <2> QED
    BY <2>1, <2>2
<1> DEFINE Start(s) == SubSeq(s, 1, N)
\* The arrays are truncated alike.
<1>6. /\ h2.epoch = h1.epoch /\ h2.value = h1.value /\ h2.version = h1.version
      /\ h2.clean = h1.clean /\ h2.dirty = h1.dirty /\ h2.next = h1.next
      /\ h2.live = h1.live /\ h2.liveIdx = h1.liveIdx
      /\ h2.prods = [h1.prods EXCEPT ![c] = Start(@)]
      /\ h2.seen = [h1.seen EXCEPT ![c] = Start(@)]
      /\ h2.indexOf = [h1.indexOf EXCEPT ![c] = Start(@)]
      /\ h2.got = [h1.got EXCEPT ![c] = Start(@)]
  <2>1. h2 = [h1 EXCEPT !.prods[c] = Start(@), !.seen[c] = Start(@),
                        !.indexOf[c] = Start(@), !.got[c] = Start(@)]
    BY <1>4 DEF Truncate, Kept
  <2> HIDE DEF Start, h2
  <2> QED
    BY <1>4, <2>1 DEF Graphs
<1>7. \A S : \A s \in Seq(S) : Len(s) = Len(h.prods[c]) =>
         /\ Start(s) \in Seq(S) /\ Len(Start(s)) = N
         /\ \A j \in 1..N : Start(s)[j] = s[j]
  <2> SUFFICES ASSUME NEW S, NEW s \in Seq(S), Len(s) = Len(h.prods[c])
               PROVE  /\ Start(s) \in Seq(S) /\ Len(Start(s)) = N
                      /\ \A j \in 1..N : Start(s)[j] = s[j]
    OBVIOUS
  <2>1. 1 \in 1..Len(s) + 1 /\ N \in 0..Len(s)
    BY <1>1
  <2> HIDE DEF N
  <2>2. /\ SubSeq(s, 1, N) \in Seq(S)
        /\ Len(SubSeq(s, 1, N)) = IF 1 <= N THEN N - 1 + 1 ELSE 0
        /\ \A j \in 1..N - 1 + 1 : SubSeq(s, 1, N)[j] = s[1 + j - 1]
    BY <1>1, <2>1, SubSeqProperties
  <2>3. N - 1 + 1 = N /\ (~(1 <= N) => N = 0) /\ \A j \in 1..N : 1 + j - 1 = j
    BY <1>1
  <2> QED
    BY <2>2, <2>3
<1>8. /\ Start(h1.prods[c]) \in Seq(Producers \cup {None})
      /\ Start(h1.seen[c]) \in Seq(Nat \cup {None})
      /\ Start(h1.indexOf[c]) \in Seq(Nat)
      /\ Start(h1.got[c]) \in Seq(Results \cup {Unset, None})
  <2> HIDE DEF Start, N
  <2>1. h1.prods[c] \in Seq(Producers \cup {None}) /\ h1.seen[c] \in Seq(Nat \cup {None})
        /\ h1.indexOf[c] \in Seq(Nat) /\ h1.got[c] \in Seq(Results \cup {Unset, None})
    BY <1>5
  <2>2. Start(h1.prods[c]) \in Seq(Producers \cup {None})
    BY <1>5, <1>7, <2>1
  <2>3. Start(h1.seen[c]) \in Seq(Nat \cup {None})
    BY <1>5, <1>7, <2>1
  <2>4. Start(h1.indexOf[c]) \in Seq(Nat)
    BY <1>5, <1>7, <2>1
  <2>5. Start(h1.got[c]) \in Seq(Results \cup {Unset, None})
    BY <1>5, <1>7, <2>1
  <2> QED
    BY <2>2, <2>3, <2>4, <2>5
<1>9. /\ Len(Start(h1.prods[c])) = N /\ \A j \in 1..N : Start(h1.prods[c])[j] = h1.prods[c][j]
      /\ Len(Start(h1.seen[c])) = N /\ \A j \in 1..N : Start(h1.seen[c])[j] = h1.seen[c][j]
      /\ Len(Start(h1.indexOf[c])) = N
      /\ \A j \in 1..N : Start(h1.indexOf[c])[j] = h1.indexOf[c][j]
      /\ Len(Start(h1.got[c])) = N /\ \A j \in 1..N : Start(h1.got[c])[j] = h1.got[c][j]
  <2> HIDE DEF Start, N
  <2>1. h1.prods[c] \in Seq(Producers \cup {None}) /\ h1.seen[c] \in Seq(Nat \cup {None})
        /\ h1.indexOf[c] \in Seq(Nat) /\ h1.got[c] \in Seq(Results \cup {Unset, None})
    BY <1>5
  <2>2. Len(Start(h1.prods[c])) = N /\ \A j \in 1..N : Start(h1.prods[c])[j] = h1.prods[c][j]
    BY <1>5, <1>7, <2>1
  <2>3. Len(Start(h1.seen[c])) = N /\ \A j \in 1..N : Start(h1.seen[c])[j] = h1.seen[c][j]
    BY <1>5, <1>7, <2>1
  <2>4. Len(Start(h1.indexOf[c])) = N /\ \A j \in 1..N : Start(h1.indexOf[c])[j] = h1.indexOf[c][j]
    BY <1>5, <1>7, <2>1
  <2>5. Len(Start(h1.got[c])) = N /\ \A j \in 1..N : Start(h1.got[c])[j] = h1.got[c][j]
    BY <1>5, <1>7, <2>1
  <2> QED
    BY <2>2, <2>3, <2>4, <2>5
<1> HIDE DEF Start
<1>10. h2 \in Graphs
  <2>1. /\ h2.prods \in [Consumers -> Seq(Producers \cup {None})]
        /\ h2.seen \in [Consumers -> Seq(Nat \cup {None})]
        /\ h2.indexOf \in [Consumers -> Seq(Nat)]
        /\ h2.got \in [Consumers -> Seq(Results \cup {Unset, None})]
    <3> HIDE DEF h2
    <3>1. h2.prods \in [Consumers -> Seq(Producers \cup {None})]
      BY <1>5, <1>6, <1>8
    <3>2. h2.seen \in [Consumers -> Seq(Nat \cup {None})]
      BY <1>5, <1>6, <1>8
    <3>3. h2.indexOf \in [Consumers -> Seq(Nat)]
      BY <1>5, <1>6, <1>8
    <3>4. h2.got \in [Consumers -> Seq(Results \cup {Unset, None})]
      BY <1>5, <1>6, <1>8
    <3> QED
      BY <3>1, <3>2, <3>3, <3>4
  <2>2. h2 = [h1 EXCEPT !.prods = h2.prods, !.seen = h2.seen, !.indexOf = h2.indexOf,
                        !.got = h2.got]
    BY <1>4 DEF Truncate, Graphs, h2
  <2> HIDE DEF h2
  <2> QED
    BY <1>4, <2>1, <2>2 DEF Graphs
<1> HIDE DEF h2
<1>11. /\ \A x \in Consumers \ {c} : /\ h2.prods[x] = h1.prods[x] /\ h2.seen[x] = h1.seen[x]
                                     /\ h2.indexOf[x] = h1.indexOf[x] /\ h2.got[x] = h1.got[x]
       /\ Len(h2.prods[c]) = N /\ Len(h2.seen[c]) = N
       /\ Len(h2.indexOf[c]) = N /\ Len(h2.got[c]) = N
       /\ \A j \in 1..N : /\ h2.prods[c][j] = h1.prods[c][j] /\ h2.seen[c][j] = h1.seen[c][j]
                          /\ h2.indexOf[c][j] = h1.indexOf[c][j] /\ h2.got[c][j] = h1.got[c][j]
  <2>1. /\ h2.prods[c] = Start(h1.prods[c]) /\ h2.seen[c] = Start(h1.seen[c])
        /\ h2.indexOf[c] = Start(h1.indexOf[c]) /\ h2.got[c] = Start(h1.got[c])
        /\ \A x \in Consumers \ {c} : /\ h2.prods[x] = h1.prods[x] /\ h2.seen[x] = h1.seen[x]
                                      /\ h2.indexOf[x] = h1.indexOf[x] /\ h2.got[x] = h1.got[x]
    BY <1>5, <1>6
  <2> QED
    BY <1>9, <2>1
\* No link was lost.
<1>12. /\ \A x \in Consumers \ {c} : \A j : Linked(h2, x, j) <=> Linked(h1, x, j)
       /\ \A j : Linked(h2, c, j) <=> Linked(h1, c, j)
  <2>1. ASSUME NEW x \in Consumers \ {c}, NEW j PROVE Linked(h2, x, j) <=> Linked(h1, x, j)
    BY <1>6, <1>11 DEF Linked
  <2>2. ASSUME NEW j PROVE Linked(h2, c, j) <=> Linked(h1, c, j)
    <3>1. CASE j \in 1..N
      <4>1. j \in 1..Len(h1.prods[c]) /\ j \in 1..Len(h2.prods[c])
        BY <3>1, <1>1, <1>5, <1>11
      <4>2. h2.prods[c][j] = h1.prods[c][j] /\ h2.indexOf[c][j] = h1.indexOf[c][j]
        BY <3>1, <1>11
      <4> QED
        BY <4>1, <4>2, <1>6 DEF Linked
    <3>2. CASE j \notin 1..N
      <4>1. ~Linked(h2, c, j)
        BY <3>2, <1>11 DEF Linked
      <4>2. Linked(h1, c, j) => j \in 1..Len(h.prods[c]) /\ j <= N
        BY <1>2, LinkedInRange
      <4>3. \A y \in 1..Len(h.prods[c]) : y <= N => y \in 1..N
        BY <1>1
      <4> QED
        BY <3>2, <4>1, <4>2, <4>3
    <3> QED
      BY <3>1, <3>2
  <2> QED
    BY <2>1, <2>2
<1>13. Matched(h2)
  <2>1. SUFFICES ASSUME NEW m \in Producers, NEW k \in 1..Len(h2.live[m])
                 PROVE  LET x == h2.live[m][k]
                            y == h2.liveIdx[m][k]
                        IN  y \in 1..Len(h2.prods[x]) /\ h2.prods[x][y] = m
                            /\ h2.indexOf[x][y] = k
    BY DEF Matched
  <2> DEFINE x == h1.live[m][k]
             y == h1.liveIdx[m][k]
  <2>a. h2.live[m][k] = x /\ h2.liveIdx[m][k] = y /\ k \in 1..Len(h1.live[m])
    BY <2>1, <1>6
  <2>b. SUFFICES y \in 1..Len(h2.prods[x]) /\ h2.prods[x][y] = m /\ h2.indexOf[x][y] = k
    BY <2>a
  <2>2. y \in 1..Len(h1.prods[x]) /\ h1.prods[x][y] = m /\ h1.indexOf[x][y] = k
    BY <1>4, <2>a DEF Matched
  <2>3. x \in Consumers
    BY <1>4, <2>a, GraphTypes, ElementOfSeq
  <2> HIDE DEF x, y
  <2>4. CASE x # c
    BY <2>2, <2>3, <2>4, <1>11
  <2>5. CASE x = c
    <3>1. Linked(h1, c, y)
      <4>1. h1.live[h1.prods[c][y]][h1.indexOf[c][y]] = c
            /\ h1.liveIdx[h1.prods[c][y]][h1.indexOf[c][y]] = y
        BY <2>2, <2>5 DEF x, y
      <4> QED
        BY <2>a, <2>2, <2>5, <4>1 DEF Linked
    <3>2. Linked(h2, c, y)
      BY <3>1, <1>12
    <3>3. y \in 1..N
      BY <3>2, <1>11, LinkedInRange
    <3> QED
      BY <2>2, <2>5, <3>3, <1>11
  <2> QED
    BY <2>4, <2>5
<1>14. Shaped(h2)
  <2>1. \A m \in Producers : Len(h2.liveIdx[m]) = Len(h2.live[m])
    BY <1>4, <1>6 DEF Shaped
  <2>2. ASSUME NEW x \in Consumers
        PROVE  /\ Len(h2.seen[x]) = Len(h2.prods[x])
               /\ Len(h2.indexOf[x]) = Len(h2.prods[x])
               /\ Len(h2.got[x]) = Len(h2.prods[x])
    <3>1. CASE x = c
      BY <3>1, <1>11
    <3>2. CASE x # c
      BY <3>2, <1>4, <1>11 DEF Shaped
    <3> QED
      BY <3>1, <3>2
  <2>3. ASSUME NEW x \in Computeds, NEW j \in 1..Len(h2.prods[x])
        PROVE  h2.prods[x][j] \in Producers /\ Rank[h2.prods[x][j]] < Rank[x]
    <3>1. h2.prods[x][j] = h1.prods[x][j] /\ j \in 1..Len(h1.prods[x])
      <4>1. CASE x # c
        BY <2>3, <4>1, <1>11, NodeFacts
      <4>2. CASE x = c
        <5>1. j \in 1..N
          BY <2>3, <4>2, <1>11
        <5> QED
          BY <4>2, <5>1, <1>1, <1>5, <1>11
      <4> QED
        BY <4>1, <4>2
    <3> QED
      BY <3>1, <1>4 DEF Shaped
  <2> QED
    BY <1>10, <2>1, <2>2, <2>3 DEF Shaped
<1>15. IsLive(h2, c) <=> IsLive(h, c)
  <2>1. CASE c \in Effects
    BY <2>1 DEF IsLive
  <2>2. CASE c \in Computeds
    <3>1. h2.live[c] = h.live[c]
      BY <2>2, <1>2, <1>6, NodeFacts
    <3> QED
      BY <3>1 DEF IsLive
  <2> QED
    BY <2>1, <2>2, NodeFacts
<1>16. Settled(h2, {})
  <2>1. ASSUME NEW x \in Consumers, NEW j \in 1..Len(h2.prods[x]), h2.prods[x][j] # None
        PROVE  Linked(h2, x, j) <=> IsLive(h2, x)
    <3>1. CASE x # c
      <4>1. h1.prods[x] = h2.prods[x] /\ (IsLive(h1, x) <=> IsLive(h2, x))
        BY <3>1, <1>6, <1>11 DEF IsLive
      <4> QED
        BY <2>1, <3>1, <4>1, <1>4, <1>12 DEF Settled
    <3>2. CASE x = c
      <4>1. j \in 1..N /\ j \in 1..Len(h.prods[c]) /\ j <= N
        BY <2>1, <3>2, <1>1, <1>11
      <4>2. h.prods[c][j] # None
        BY <2>1, <3>2, <4>1, <1>4, <1>11
      <4>3. Linked(h, c, j) <=> IsLive(h, c)
        BY <4>1, <4>2, <1>1 DEF Wired, Settled
      <4> QED
        BY <3>2, <4>1, <4>3, <1>2, <1>12, <1>15
    <3> QED
      BY <3>1, <3>2
  <2> QED
    BY <2>1 DEF Settled
<1>17. /\ h2.epoch = h.epoch /\ h2.value = h.value /\ h2.version = h.version
       /\ h2.clean = h.clean /\ h2.dirty = h.dirty /\ h2.next = h.next
  BY <1>2, <1>6 DEF SameNodes
<1>18. SameExceptLists(h, h2, c)
  BY <1>4, <1>11, <1>17 DEF SameExceptLists
<1>19. \A j \in 1..N : /\ h2.prods[c][j] = h.prods[c][j] /\ h2.seen[c][j] = h.seen[c][j]
                       /\ h2.got[c][j] = h.got[c][j]
  BY <1>4, <1>11
<1>20. Versioned(h2)
  <2>1. ASSUME NEW x \in Consumers, NEW j \in 1..Len(h2.prods[x])
        PROVE  /\ h2.prods[x][j] = h.prods[x][j] /\ h2.seen[x][j] = h.seen[x][j]
               /\ h2.got[x][j] = h.got[x][j] /\ j \in 1..Len(h.prods[x])
    <3>1. CASE x # c
      BY <2>1, <3>1, <1>4, <1>11
    <3>2. CASE x = c
      <4>1. j \in 1..N
        BY <2>1, <3>2, <1>11
      <4> QED
        BY <3>2, <4>1, <1>1, <1>19
    <3> QED
      BY <3>1, <3>2
  <2>2. Versioned(h)
    BY DEF Sane
  <2> SUFFICES ASSUME NEW x \in Consumers, NEW j \in 1..Len(h2.prods[x]), h2.prods[x][j] # None
               PROVE  /\ h2.seen[x][j] \in Nat /\ h2.seen[x][j] <= h2.version[h2.prods[x][j]]
                      /\ h2.seen[x][j] = h2.version[h2.prods[x][j]]
                            => h2.got[x][j] = h2.value[h2.prods[x][j]]
    BY DEF Versioned
  <2>3. LET m == h.prods[x][j]
        IN  /\ h.seen[x][j] \in Nat /\ h.seen[x][j] <= h.version[m]
            /\ h.seen[x][j] = h.version[m] => h.got[x][j] = h.value[m]
    BY <2>1, <2>2 DEF Versioned
  <2> QED
    BY <2>1, <2>3, <1>17
<1>21. Sane(h2)
  BY <1>13, <1>14, <1>16, <1>20 DEF Sane, Wired
<1> QED
  BY <1>2, <1>3, <1>6, <1>11, <1>17, <1>18, <1>19, <1>21

-----------------------------------------------------------------------------
(* What a change may touch.                                                *)

\* Writable signals have values, and so do the computeds that are not dirty.
Valued(h) ==
    /\ \A s \in Signals : h.value[s] \in Values
    /\ \A x \in Computeds : ~h.dirty[x] => h.value[x] # Unset

\* What holds of the graph between two calls, and also inside them.
Proper(h) == Sane(h) /\ Valued(h)

\* The lists of x are the same.
SameLists(h, h2, x) ==
    /\ h2.prods[x] = h.prods[x] /\ h2.seen[x] = h.seen[x]
    /\ h2.next[x] = h.next[x] /\ h2.got[x] = h.got[x]

\* Only the computeds of D change, and the lists of Y.  A value that changes has a
\* new version.
Tame(h, h2, D, Y) ==
    /\ h2.epoch = h.epoch
    /\ \A m \in Producers : /\ h.version[m] <= h2.version[m]
                            /\ h2.version[m] = h.version[m] => h2.value[m] = h.value[m]
    /\ \A m \in Producers \ D : h2.value[m] = h.value[m] /\ h2.version[m] = h.version[m]
    /\ \A x \in Computeds \ D : h2.clean[x] = h.clean[x] /\ h2.live[x] = h.live[x]
    /\ \A x \in Consumers \ D : h2.dirty[x] = h.dirty[x]
    /\ \A x \in Consumers \ (D \cup Y) : SameLists(h, h2, x)

\* The computeds that c can be computed from, and those that n can.
Deep(c) == {x \in Computeds : c \in Computeds => Rank[x] < Rank[c]}
\* The computeds that are not deeper than n.
Upto(n) == {x \in Computeds : Rank[x] <= Rank[n]}

\* The parts of Proper, by name.
LEMMA ProperFacts ==
    ASSUME NEW h, Proper(h)
    PROVE  h \in Graphs /\ Shaped(h) /\ Wired(h, {}) /\ Versioned(h) /\ Sane(h) /\ Valued(h)
  BY DEF Proper, Sane, Wired, Shaped

\* Tame changes are the ones that may happen behind the back of a caller: no change
LEMMA TameReflexive ==
    ASSUME NEW h, h \in Graphs, NEW D, NEW Y
    PROVE  Tame(h, h, D, Y)
<1>1. \A m \in Producers : h.version[m] \in Nat
  BY GraphTypes
<1> QED
  BY <1>1 DEF Tame, SameLists

\* ... is one, two in a row are one,
LEMMA TameTransitive ==
    ASSUME NEW h, NEW h2, NEW h3, NEW D, NEW Y, h \in Graphs, h2 \in Graphs, h3 \in Graphs,
           Tame(h, h2, D, Y), Tame(h2, h3, D, Y)
    PROVE  Tame(h, h3, D, Y)
<1>1. ASSUME NEW m \in Producers
      PROVE  /\ h.version[m] <= h3.version[m]
             /\ h3.version[m] = h.version[m] => h3.value[m] = h.value[m]
  <2>1. h.version[m] \in Nat /\ h2.version[m] \in Nat /\ h3.version[m] \in Nat
    BY GraphTypes
  <2>2. /\ h.version[m] <= h2.version[m] /\ h2.version[m] <= h3.version[m]
        /\ h2.version[m] = h.version[m] => h2.value[m] = h.value[m]
        /\ h3.version[m] = h2.version[m] => h3.value[m] = h2.value[m]
    BY DEF Tame
  <2> QED
    BY <2>1, <2>2
<1>2. h3.epoch = h.epoch
  BY DEF Tame
<1>3. \A m \in Producers \ D : h3.value[m] = h.value[m] /\ h3.version[m] = h.version[m]
  BY DEF Tame
<1>4. \A x \in Computeds \ D : h3.clean[x] = h.clean[x] /\ h3.live[x] = h.live[x]
  BY DEF Tame
<1>5. \A x \in Consumers \ D : h3.dirty[x] = h.dirty[x]
  BY DEF Tame
<1>6. \A x \in Consumers \ (D \cup Y) : SameLists(h, h3, x)
  BY DEF Tame, SameLists
<1> QED
  BY <1>1, <1>2, <1>3, <1>4, <1>5, <1>6 DEF Tame

\* ... and one that may touch less is one that may touch more.
LEMMA TameMonotone ==
    ASSUME NEW h, NEW h2, NEW D, NEW Y, NEW D2, NEW Y2, Tame(h, h2, D, Y),
           D \subseteq D2, Y \subseteq D2 \cup Y2
    PROVE  Tame(h, h2, D2, Y2)
<1>1. /\ Producers \ D2 \subseteq Producers \ D /\ Computeds \ D2 \subseteq Computeds \ D
      /\ Consumers \ D2 \subseteq Consumers \ D
      /\ Consumers \ (D2 \cup Y2) \subseteq Consumers \ (D \cup Y)
  OBVIOUS
<1> QED
  BY <1>1 DEF Tame

\* What is not about edges leaves them right.
LEMMA SameEdges ==
    ASSUME NEW h, NEW h2, h2 \in Graphs, Wired(h, {}),
           h2.prods = h.prods, h2.seen = h.seen, h2.indexOf = h.indexOf, h2.got = h.got,
           h2.live = h.live, h2.liveIdx = h.liveIdx
    PROVE  Wired(h2, {})
<1>1. Matched(h2) /\ Settled(h2, {})
  BY SameLinks DEF Wired
<1>2. Shaped(h2)
  BY DEF Wired, Shaped
<1> QED
  BY <1>1, <1>2 DEF Wired

\* Versioned looks at what was read and at values and versions only.
LEMMA SameReads ==
    ASSUME NEW h, NEW h2, Versioned(h), h2.prods = h.prods, h2.seen = h.seen,
           h2.got = h.got, h2.value = h.value, h2.version = h.version
    PROVE  Versioned(h2)
  BY DEF Versioned

\* producerAccessed changes the lists of its consumer, and nothing else but links.
LEMMA AccessedTame ==
    ASSUME NEW h, NEW n \in Producers, NEW c \in Consumers, Proper(h),
           c \in Computeds => Rank[n] < Rank[c] /\ h.next[c] <= Len(h.prods[c]),
           h.next[c] + 1 <= Len(h.prods[c]) => h.prods[c][h.next[c] + 1] # None
    PROVE  LET h2 == Accessed(h, n, c)
           IN  /\ Proper(h2) /\ Tame(h, h2, Deep(c), {c}) /\ SameExceptLists(h, h2, c)
               /\ Recorded(h, h2, n, c, h.next[c] + 1)
<1> DEFINE h2 == Accessed(h, n, c)
<1>1. Sane(h) /\ Valued(h) /\ h \in Graphs
  BY ProperFacts
<1>2. /\ Sane(h2) /\ SameExceptLists(h, h2, c) /\ Recorded(h, h2, n, c, h.next[c] + 1)
      /\ c \in Computeds => \A m \in Producers : Rank[m] >= Rank[c] => h2.live[m] = h.live[m]
  BY <1>1, AccessedEffect
<1> HIDE DEF h2
<1>3. Valued(h2)
  BY <1>1, <1>2 DEF Valued, SameExceptLists
<1>4. \A x \in Computeds \ Deep(c) : h2.live[x] = h.live[x]
  <2>1. \A x \in Computeds \ Deep(c) : c \in Computeds /\ ~(Rank[x] < Rank[c]) /\ x \in Producers
    BY NodeFacts DEF Deep
  <2>2. \A x \in Computeds \ Deep(c) : Rank[x] \in Nat /\ Rank[c] \in Nat
    BY <2>1, NodeFacts
  <2>3. \A x \in Computeds \ Deep(c) : Rank[x] >= Rank[c]
    BY <2>1, <2>2
  <2> QED
    BY <1>2, <2>1, <2>3
<1>5. \A m \in Producers : h.version[m] \in Nat
  BY <1>1, GraphTypes
<1>6. \A x \in Consumers \ (Deep(c) \cup {c}) : SameLists(h, h2, x)
  BY <1>2 DEF SameLists, SameExceptLists
<1>7. Tame(h, h2, Deep(c), {c})
  BY <1>2, <1>4, <1>5, <1>6 DEF Tame, SameExceptLists
<1> QED
  BY <1>2, <1>3, <1>7 DEF Proper, h2

\* So does consumerAfterComputation.
LEMMA AfterComputationTame ==
    ASSUME NEW h, NEW c \in Consumers, Proper(h),
           \A j \in 1..Len(h.prods[c]) : j > h.next[c] => h.prods[c][j] # None
    PROVE  LET h2 == AfterComputation(h, c)
           IN  Proper(h2) /\ Tame(h, h2, Deep(c), {c}) /\ SameExceptLists(h, h2, c)
<1> DEFINE h2 == AfterComputation(h, c)
<1>1. Sane(h) /\ Valued(h) /\ h \in Graphs
  BY ProperFacts
<1>2. /\ Sane(h2) /\ SameExceptLists(h, h2, c)
      /\ c \in Computeds => \A m \in Producers : Rank[m] >= Rank[c] => h2.live[m] = h.live[m]
  BY <1>1, AfterComputationEffect
<1> HIDE DEF h2
<1>3. Valued(h2)
  BY <1>1, <1>2 DEF Valued, SameExceptLists
<1>4. \A x \in Computeds \ Deep(c) : h2.live[x] = h.live[x]
  <2>1. \A x \in Computeds \ Deep(c) : c \in Computeds /\ ~(Rank[x] < Rank[c]) /\ x \in Producers
    BY NodeFacts DEF Deep
  <2>2. \A x \in Computeds \ Deep(c) : Rank[x] \in Nat /\ Rank[c] \in Nat
    BY <2>1, NodeFacts
  <2>3. \A x \in Computeds \ Deep(c) : Rank[x] >= Rank[c]
    BY <2>1, <2>2
  <2> QED
    BY <1>2, <2>1, <2>3
<1>5. \A m \in Producers : h.version[m] \in Nat
  BY <1>1, GraphTypes
<1>6. \A x \in Consumers \ (Deep(c) \cup {c}) : SameLists(h, h2, x)
  BY <1>2 DEF SameLists, SameExceptLists
<1>7. Tame(h, h2, Deep(c), {c})
  BY <1>2, <1>4, <1>5, <1>6 DEF Tame, SameExceptLists
<1> QED
  BY <1>2, <1>3, <1>7 DEF Proper, h2

\* The result of a computation.
LEMMA StoreResultEffect ==
    ASSUME NEW h, NEW c \in Computeds, NEW v \in Results, Proper(h)
    PROVE  LET h2 == StoreResult(h, c, v)
           IN  Proper(h2) /\ Tame(h, h2, {c}, {}) /\ h2.value[c] \in Results
               /\ (h2.value[c] = v) /\ SameLists(h, h2, c) /\ h2.live = h.live
               /\ h2.dirty = h.dirty /\ h2.clean = h.clean
<1> DEFINE h2 == StoreResult(h, c, v)
           new == [h EXCEPT !.value[c] = v, !.version[c] = @ + 1]
<1>1. /\ h \in Graphs /\ Wired(h, {}) /\ Versioned(h) /\ Valued(h) /\ Proper(h)
      /\ c \in Producers /\ c \in Consumers /\ c \notin Signals
      /\ h.version \in [Producers -> Nat] /\ h.value \in [Producers -> Results \cup {Unset}]
      /\ Unset \notin Results
  BY ProperFacts, NodeFacts, GraphTypes, NodesAssumption
<1>2. CASE h2 = h /\ h.value[c] = v
  <2>1. Tame(h, h, {c}, {}) /\ SameLists(h, h, c)
    BY <1>1, TameReflexive DEF SameLists
  <2> HIDE DEF h2
  <2> QED
    BY <1>1, <1>2, <2>1 DEF h2
<1>3. CASE h2 = new
  <2>1. /\ new.epoch = h.epoch /\ new.clean = h.clean /\ new.dirty = h.dirty
        /\ new.prods = h.prods /\ new.seen = h.seen /\ new.indexOf = h.indexOf
        /\ new.next = h.next /\ new.live = h.live /\ new.liveIdx = h.liveIdx
        /\ new.got = h.got
        /\ new.value = [h.value EXCEPT ![c] = v]
        /\ new.version = [h.version EXCEPT ![c] = @ + 1]
    BY <1>1 DEF Graphs
  <2>2. new \in Graphs
    <3>1. /\ [h.value EXCEPT ![c] = v] \in [Producers -> Results \cup {Unset}]
          /\ [h.version EXCEPT ![c] = @ + 1] \in [Producers -> Nat]
      BY <1>1
    <3> QED
      BY <1>1, <3>1 DEF Graphs
  <2>3. /\ new.value[c] = v /\ new.version[c] = h.version[c] + 1
        /\ \A m \in Producers \ {c} : new.value[m] = h.value[m] /\ new.version[m] = h.version[m]
        /\ \A m \in Producers : h.version[m] \in Nat
    BY <1>1, <2>1
  <2> HIDE DEF new
  <2>4. Wired(new, {})
    BY <1>1, <2>1, <2>2, SameEdges
  <2>5. Versioned(new)
    <3> SUFFICES ASSUME NEW x \in Consumers, NEW j \in 1..Len(h.prods[x]), h.prods[x][j] # None
                 PROVE  /\ h.seen[x][j] \in Nat /\ h.seen[x][j] <= new.version[h.prods[x][j]]
                        /\ h.seen[x][j] = new.version[h.prods[x][j]]
                              => h.got[x][j] = new.value[h.prods[x][j]]
      BY <2>1 DEF Versioned
    <3>1. LET m == h.prods[x][j]
          IN  /\ h.seen[x][j] \in Nat /\ h.seen[x][j] <= h.version[m]
              /\ h.seen[x][j] = h.version[m] => h.got[x][j] = h.value[m]
      BY <1>1 DEF Versioned
    <3>2. h.prods[x][j] \in Producers
      <4>1. h.prods[x] \in Seq(Producers \cup {None})
        BY <1>1, GraphTypes
      <4> QED
        BY <4>1, ElementOfSeq
    <3>3. CASE h.prods[x][j] = c
      <4>1. h.seen[x][j] \in Nat /\ h.seen[x][j] <= h.version[c] /\ h.version[c] \in Nat
        BY <1>1, <3>1, <3>3
      <4>2. h.seen[x][j] < new.version[c]
        BY <2>3, <4>1
      <4> QED
        BY <2>3, <3>3, <4>1, <4>2
    <3>4. CASE h.prods[x][j] # c
      BY <2>3, <3>1, <3>2, <3>4
    <3> QED
      BY <3>3, <3>4
  <2>6. Valued(new)
    BY <1>1, <2>1, <2>3, NodeFacts DEF Valued
  <2>7. Tame(h, new, {c}, {})
    BY <2>1, <2>3 DEF Tame, SameLists
  <2>8. Proper(new)
    BY <2>4, <2>5, <2>6 DEF Proper, Sane
  <2>9. SameLists(h, new, c)
    BY <2>1 DEF SameLists
  <2> HIDE DEF h2
  <2> QED
    BY <1>3, <2>1, <2>3, <2>7, <2>8, <2>9 DEF h2
<1> QED
  BY <1>2, <1>3 DEF StoreResult

\* The end of producerUpdateValueVersion.
LEMMA MarkCleanEffect ==
    ASSUME NEW h, NEW c \in Computeds, Proper(h), h.value[c] # Unset
    PROVE  LET h2 == MarkClean(h, c)
           IN  Proper(h2) /\ Tame(h, h2, {c}, {}) /\ SameLists(h, h2, c)
               /\ h2.value = h.value /\ h2.version = h.version /\ h2.live = h.live
               /\ h2.dirty[c] = FALSE /\ h2.clean[c] = h.epoch
<1> DEFINE h2 == MarkClean(h, c)
<1>1. /\ h \in Graphs /\ Wired(h, {}) /\ Versioned(h) /\ Valued(h)
      /\ c \in Producers /\ c \in Consumers
      /\ h.version \in [Producers -> Nat] /\ h.dirty \in [Consumers -> BOOLEAN]
      /\ h.clean \in [Computeds -> Nat] /\ h.epoch \in Nat
  BY ProperFacts, NodeFacts, GraphTypes
<1>2. /\ h2.epoch = h.epoch /\ h2.value = h.value /\ h2.version = h.version
      /\ h2.prods = h.prods /\ h2.seen = h.seen /\ h2.indexOf = h.indexOf
      /\ h2.next = h.next /\ h2.live = h.live /\ h2.liveIdx = h.liveIdx
      /\ h2.got = h.got
      /\ h2.dirty = [h.dirty EXCEPT ![c] = FALSE]
      /\ h2.clean = [h.clean EXCEPT ![c] = h.epoch]
  BY <1>1 DEF Graphs, MarkClean
<1>3. h2 \in Graphs
  <2>1. /\ [h.dirty EXCEPT ![c] = FALSE] \in [Consumers -> BOOLEAN]
        /\ [h.clean EXCEPT ![c] = h.epoch] \in [Computeds -> Nat]
    BY <1>1
  <2> QED
    BY <1>1, <2>1 DEF Graphs, MarkClean
<1>4. /\ h2.dirty[c] = FALSE /\ h2.clean[c] = h.epoch
      /\ \A x \in Consumers \ {c} : h2.dirty[x] = h.dirty[x]
      /\ \A x \in Computeds \ {c} : h2.clean[x] = h.clean[x]
  BY <1>1, <1>2
<1> HIDE DEF h2
<1>5. Wired(h2, {})
  BY <1>1, <1>2, <1>3, SameEdges
<1>6. Versioned(h2)
  BY <1>1, <1>2, SameReads
<1>7. Valued(h2)
  BY <1>1, <1>2, <1>4, NodeFacts DEF Valued
<1>8. Tame(h, h2, {c}, {})
  BY <1>1, <1>2, <1>4 DEF Tame, SameLists
<1> QED
  BY <1>2, <1>4, <1>5, <1>6, <1>7, <1>8 DEF Proper, Sane, SameLists, h2

-----------------------------------------------------------------------------
(* Polling.                                                                *)

\* What an update of n achieves, and the producers that c may read.
Updated(h, h2, n) == Proper(h2) /\ Tame(h, h2, Upto(n), {}) /\ h2.value[n] \in Results

\* What c may read.
Inputs(c) == {n \in Producers : c \in Computeds => Rank[n] < Rank[c]}

\* "update" brings every input of c up to date.
Updates(update, c) == \A n \in Inputs(c) : \A h \in Graphs :
                         Proper(h) => Updated(h, update[n][h], n)

\* What an update of an input touches is strictly below c.
LEMMA InputFacts ==
    ASSUME NEW c \in Consumers
    PROVE  /\ \A n \in Inputs(c) : n \in Producers /\ Upto(n) \subseteq Deep(c)
           /\ c \notin Deep(c) /\ Deep(c) \subseteq Computeds
           /\ c \in Computeds => \A n \in Inputs(c) : Rank[n] < Rank[c]
<1>1. ASSUME NEW n \in Inputs(c), NEW x \in Upto(n) PROVE x \in Deep(c)
  <2>1. /\ n \in Producers /\ x \in Computeds /\ Rank[x] <= Rank[n]
        /\ (c \in Computeds => Rank[n] < Rank[c])
    BY <1>1 DEF Inputs, Upto
  <2>2. Rank[x] \in Nat /\ Rank[n] \in Nat /\ (c \in Computeds => Rank[c] \in Nat)
    BY <2>1, NodeFacts
  <2> QED
    BY <2>1, <2>2 DEF Deep
<1>2. c \in Computeds => Rank[c] \in Nat
  BY NodeFacts
<1> QED
  BY <1>1, <1>2 DEF Inputs, Deep

\* What an update of an input of c means for c.
LEMMA InputUpdated ==
    ASSUME NEW update, NEW c \in Consumers, Updates(update, c), NEW n \in Inputs(c),
           NEW h, Proper(h)
    PROVE  LET h2 == update[n][h]
           IN  Proper(h2) /\ Tame(h, h2, Deep(c), {}) /\ h2.value[n] \in Results
<1> DEFINE h2 == update[n][h]
<1>1. Updated(h, h2, n)
  BY ProperFacts DEF Updates
<1>2. Upto(n) \subseteq Deep(c)
  BY InputFacts
<1> HIDE DEF h2
<1>3. Tame(h, h2, Deep(c), {})
  BY <1>1, <1>2, TameMonotone DEF Updated
<1> QED
  BY <1>1, <1>3 DEF Updated, h2

\* The lists of c stay as they are while its producers are brought up to date.
LEMMA OwnListsStay ==
    ASSUME NEW c \in Consumers, NEW h, NEW h2, Tame(h, h2, Deep(c), {})
    PROVE  SameLists(h, h2, c) /\ h2.dirty[c] = h.dirty[c]
<1>1. c \notin Deep(c)
  BY InputFacts
<1> QED
  BY <1>1 DEF Tame

\* The entries of a consumer are producers that it may read, or holes.
LEMMA EntryFacts ==
    ASSUME NEW h, Shaped(h), NEW c \in Consumers, NEW i \in 1..Len(h.prods[c])
    PROVE  /\ h.prods[c][i] \in Inputs(c) \cup {None}
           /\ c \in Computeds => h.prods[c][i] # None
<1>1. h.prods[c] \in Seq(Producers \cup {None})
  BY GraphTypes DEF Shaped
<1>2. h.prods[c][i] \in Producers \cup {None}
  BY <1>1, ElementOfSeq
<1>3. c \in Computeds => h.prods[c][i] \in Producers /\ Rank[h.prods[c][i]] < Rank[c]
  BY DEF Shaped
<1> QED
  BY <1>2, <1>3, NodeFacts DEF Inputs

(* ---- polling ---- *)
PollAt(update, h, c, k) ==
    Iterate([i \in DOMAIN h.prods[c] |-> [poll \in Polls |-> PollProducer(update, poll, c, i)]],
            [graph |-> h, answer |-> "same"], k)

\* A round of the poll leaves a proper graph, and touched what is below c.
PollOK(h, poll, c) ==
    /\ poll \in Polls /\ Proper(poll.graph) /\ Tame(h, poll.graph, Deep(c), {})
    /\ poll.answer = "throws" => \E j \in 1..Len(h.prods[c]) : h.prods[c][j] = None

\* One round keeps that, ...
LEMMA PollProducerOK ==
    ASSUME NEW update, NEW c \in Consumers, Updates(update, c), NEW h, Proper(h),
           NEW poll, PollOK(h, poll, c), NEW i \in 1..Len(h.prods[c])
    PROVE  PollOK(h, PollProducer(update, poll, c, i), c)
<1> DEFINE h1 == poll.graph
           n == h1.prods[c][i]
           updated == update[n][h1]
<1>1. /\ poll \in Polls /\ Proper(h1) /\ h1 \in Graphs /\ Shaped(h1) /\ h \in Graphs
      /\ h1.prods[c] = h.prods[c] /\ Tame(h, h1, Deep(c), {})
  BY ProperFacts, OwnListsStay DEF PollOK, SameLists
<1>2. n \in Inputs(c) \cup {None}
  BY <1>1, EntryFacts
<1>3. CASE poll.answer # "same"
  BY <1>3 DEF PollProducer
<1>4. CASE poll.answer = "same" /\ n = None
  <2>1. PollProducer(update, poll, c, i) = [poll EXCEPT !.answer = "throws"]
    BY <1>4 DEF PollProducer
  <2> QED
    BY <1>1, <1>4, <2>1 DEF PollOK, Polls
<1>5. CASE poll.answer = "same" /\ n # None /\ h1.seen[c][i] # h1.version[n]
  <2>1. PollProducer(update, poll, c, i) = [poll EXCEPT !.answer = "changed"]
    BY <1>5 DEF PollProducer
  <2> QED
    BY <1>1, <2>1 DEF PollOK, Polls
<1>6. CASE poll.answer = "same" /\ n # None /\ ~(h1.seen[c][i] # h1.version[n])
  <2>1. PollProducer(update, poll, c, i) =
           [graph |-> updated,
            answer |-> IF h1.seen[c][i] # updated.version[n] THEN "changed" ELSE "same"]
    BY <1>6 DEF PollProducer
  <2>2. n \in Inputs(c)
    BY <1>2, <1>6
  <2> HIDE DEF h1, n
  <2>3. Proper(updated) /\ Tame(h1, updated, Deep(c), {})
    BY <1>1, <2>2, InputUpdated
  <2> HIDE DEF updated
  <2>4. updated \in Graphs
    BY <2>3, ProperFacts
  <2>5. Tame(h, updated, Deep(c), {})
    BY <1>1, <2>3, <2>4, TameTransitive
  <2> QED
    BY <2>1, <2>3, <2>4, <2>5 DEF PollOK, Polls
<1> QED
  BY <1>3, <1>4, <1>5, <1>6

\* ... and so it holds after all of them.
LEMMA PollRounds ==
    ASSUME NEW update, NEW c \in Consumers, Updates(update, c), NEW h, Proper(h)
    PROVE  /\ PollAt(update, h, c, 0) = [graph |-> h, answer |-> "same"]
           /\ \A k \in 0..Len(h.prods[c]) : PollOK(h, PollAt(update, h, c, k), c)
           /\ \A k \in Nat : k + 1 <= Len(h.prods[c]) =>
                 PollAt(update, h, c, k + 1)
                    = PollProducer(update, PollAt(update, h, c, k), c, k + 1)
           /\ Poll(update, h, c) = PollAt(update, h, c, Len(h.prods[c]))
           /\ Len(h.prods[c]) \in Nat
<1> DEFINE N == Len(h.prods[c])
           step == [i \in DOMAIN h.prods[c] |-> [poll \in Polls |->
                        PollProducer(update, poll, c, i)]]
           start == [graph |-> h, answer |-> "same"]
           At(k) == PollAt(update, h, c, k)
           Done == {k \in Nat : k <= N => PollOK(h, At(k), c)}
<1>1. h \in Graphs /\ N \in Nat /\ DOMAIN h.prods[c] = 1..N
  <2>1. h \in Graphs
    BY ProperFacts
  <2>2. h.prods[c] \in Seq(Producers \cup {None})
    BY <2>1, GraphTypes
  <2> QED
    BY <2>1, <2>2, LenProperties
<1>2. At(0) = start /\ \A k \in Nat : At(k + 1) = step[k + 1][At(k)]
  <2>1. \A k : At(k) = Iterate(step, start, k)
    BY DEF PollAt
  <2> HIDE DEF step, start, At
  <2> QED
    BY <2>1, IterateRounds
<1>3. ASSUME NEW k \in Nat, k + 1 <= N, At(k) \in Polls
      PROVE  At(k + 1) = PollProducer(update, At(k), c, k + 1)
  <2>1. At(k + 1) = step[k + 1][At(k)]
    BY <1>2
  <2>2. k + 1 \in DOMAIN h.prods[c]
    BY <1>1, <1>3
  <2> HIDE DEF At
  <2> QED
    BY <1>3, <2>1, <2>2
<1>4. 0 \in Done
  <2>1. start \in Polls
    BY <1>1 DEF Polls
  <2>2. PollOK(h, start, c)
    BY <1>1, <2>1, TameReflexive DEF PollOK
  <2> HIDE DEF start, At
  <2> QED
    BY <1>2, <2>2
<1>5. ASSUME NEW k \in Nat, k \in Done PROVE k + 1 \in Done
  <2>1. SUFFICES ASSUME k + 1 <= N PROVE PollOK(h, At(k + 1), c)
    OBVIOUS
  <2>2. PollOK(h, At(k), c) /\ k + 1 \in 1..N
    BY <1>1, <1>5, <2>1
  <2>3. At(k + 1) = PollProducer(update, At(k), c, k + 1)
    BY <1>3, <2>1, <2>2 DEF PollOK
  <2> HIDE DEF At
  <2> QED
    BY <2>2, <2>3, PollProducerOK
<1>6. Nat \subseteq Done
  <2> HIDE DEF Done
  <2> QED
    BY <1>4, <1>5, Induction
<1>7. \A k \in 0..N : PollOK(h, At(k), c)
  <2> HIDE DEF At
  <2> QED
    BY <1>1, <1>6
<1>8. \A k \in Nat : k + 1 <= N => At(k + 1) = PollProducer(update, At(k), c, k + 1)
  <2>1. \A k \in Nat : k + 1 <= N => At(k) \in Polls
    BY <1>1, <1>7 DEF PollOK
  <2> HIDE DEF At
  <2> QED
    BY <1>3, <2>1
<1>9. Poll(update, h, c) = At(N)
  BY DEF Poll, PollAt
<1> QED
  BY <1>1, <1>2, <1>7, <1>8, <1>9

-----------------------------------------------------------------------------
(* Recomputing.                                                            *)

\* The computation of c after k rounds.
ComputeAt(update, h, c, k) ==
    Iterate([j \in 1..(Longest + 1) |-> [run \in Computations |-> Continue(update, run, c)]],
            [graph |-> [h EXCEPT !.next[c] = 0], values |-> <<>>, result |-> None], k)

\* A computation under way: c has read the values in the order of its list.
RunOK(h, run, c, k) ==
    /\ run \in Computations /\ Proper(run.graph) /\ Tame(h, run.graph, Deep(c), {c})
    /\ run.graph.next[c] <= Len(run.graph.prods[c])
    /\ run.result = None => /\ k <= Longest /\ run.values \in [1..k -> Values]
                            /\ run.graph.next[c] = k

\* The start of a computation, or of the body of an effect.
LEMMA ResetEffect ==
    ASSUME NEW h, NEW c \in Consumers, Proper(h)
    PROVE  LET h2 == [h EXCEPT !.next[c] = 0]
           IN  /\ Proper(h2) /\ Tame(h, h2, Deep(c), {c}) /\ h2.next[c] = 0
               /\ SameExceptLists(h, h2, c)
               /\ h2.prods = h.prods /\ h2.seen = h.seen /\ h2.got = h.got /\ h2.live = h.live
<1> DEFINE h2 == [h EXCEPT !.next[c] = 0]
<1>1. h \in Graphs /\ Wired(h, {}) /\ Versioned(h) /\ Valued(h) /\ h.next \in [Consumers -> Nat]
  BY ProperFacts, GraphTypes
<1>2. /\ h2.epoch = h.epoch /\ h2.value = h.value /\ h2.version = h.version
      /\ h2.clean = h.clean /\ h2.dirty = h.dirty
      /\ h2.prods = h.prods /\ h2.seen = h.seen /\ h2.indexOf = h.indexOf
      /\ h2.live = h.live /\ h2.liveIdx = h.liveIdx /\ h2.got = h.got
      /\ h2.next = [h.next EXCEPT ![c] = 0]
  BY <1>1 DEF Graphs
<1>3. h2 \in Graphs
  <2>1. [h.next EXCEPT ![c] = 0] \in [Consumers -> Nat]
    BY <1>1
  <2> QED
    BY <1>1, <2>1 DEF Graphs
<1>4. h2.next[c] = 0 /\ \A x \in Consumers \ {c} : h2.next[x] = h.next[x]
  BY <1>1, <1>2
<1> HIDE DEF h2
<1>5. Wired(h2, {})
  BY <1>1, <1>2, <1>3, SameEdges
<1>6. Versioned(h2) /\ Valued(h2)
  BY <1>1, <1>2, SameReads DEF Valued
<1>7. \A m \in Producers : h.version[m] \in Nat
  BY <1>1, GraphTypes
<1>8. SameExceptLists(h, h2, c)
  BY <1>2, <1>4 DEF SameExceptLists
<1>9. Tame(h, h2, Deep(c), {c})
  BY <1>2, <1>4, <1>7 DEF Tame, SameLists
<1> QED
  BY <1>2, <1>4, <1>5, <1>6, <1>8, <1>9 DEF Proper, Sane, h2

\* The next step of a body that still runs: it reads a producer or returns.
LEMMA BodySteps ==
    ASSUME NEW c \in Computeds, NEW k \in Nat, k <= Longest, NEW values \in [1..k -> Values]
    PROVE  LET step == Body(c, values)
           IN  \/ /\ step.read = None /\ step.result \in Results
                  /\ step = Returns(step.result)
               \/ /\ k < Longest /\ step.read \in Inputs(c) /\ step.read # None
                  /\ step = Reads(step.read)
<1> DEFINE step == Body(c, values)
<1>1. k \in 0..Longest
  BY BodyAssumption
<1>2. \/ k < Longest /\ \E n \in Producers : Rank[n] < Rank[c] /\ step = Reads(n)
      \/ \E v \in Results : step = Returns(v)
  BY <1>1, BodyAssumption
<1>3. CASE \E v \in Results : step = Returns(v)
  <2>1. PICK v \in Results : step = Returns(v)
    BY <1>3
  <2>2. step.read = None /\ step.result = v
    BY <2>1 DEF Returns
  <2> HIDE DEF step
  <2> QED
    BY <2>1, <2>2 DEF step
<1>4. CASE k < Longest /\ \E n \in Producers : Rank[n] < Rank[c] /\ step = Reads(n)
  <2>1. PICK n \in Producers : Rank[n] < Rank[c] /\ step = Reads(n)
    BY <1>4
  <2>2. step.read = n
    BY <2>1 DEF Reads
  <2> HIDE DEF step
  <2> QED
    BY <1>4, <2>1, <2>2, NodeFacts DEF Inputs, step
<1> QED
  BY <1>2, <1>3, <1>4

\* One step of the body keeps that, ...
LEMMA ContinueOK ==
    ASSUME NEW update, NEW c \in Computeds, Updates(update, c), NEW h, Proper(h),
           NEW run, NEW k \in Nat, RunOK(h, run, c, k)
    PROVE  RunOK(h, Continue(update, run, c), c, k + 1)
<1> DEFINE step == Body(c, run.values)
           n == step.read
           h1 == update[n][run.graph]
           updated == Accessed(h1, n, c)
<1>1. /\ run \in Computations /\ run.graph \in Graphs /\ Proper(run.graph)
      /\ Tame(h, run.graph, Deep(c), {c}) /\ c \in Consumers
      /\ run.graph.next[c] <= Len(run.graph.prods[c]) /\ h \in Graphs
  BY ProperFacts, NodeFacts DEF RunOK
<1>2. CASE run.result # None
  BY <1>2 DEF Continue, RunOK
<1>3. CASE run.result = None /\ n = None
  <2>1. Continue(update, run, c) = [run EXCEPT !.result = step.result]
    BY <1>3 DEF Continue
  <2>2. step.result \in Results /\ step.result # None
    <3>1. k <= Longest /\ run.values \in [1..k -> Values]
      BY <1>3 DEF RunOK
    <3>2. \/ n = None /\ step.result \in Results
          \/ n # None
      BY <3>1, BodySteps
    <3> QED
      BY <1>3, <3>2, NodesAssumption
  <2> HIDE DEF step
  <2> QED
    BY <1>1, <2>1, <2>2 DEF RunOK, Computations
<1>4. CASE run.result = None /\ n # None
  <2>1. /\ k <= Longest /\ run.values \in [1..k -> Values] /\ run.graph.next[c] = k
        /\ run.values \in Seq(Results)
    BY <1>4 DEF RunOK, Computations
  <2>2. k < Longest /\ n \in Inputs(c)
    BY <1>4, <2>1, BodySteps
  <2>3. n \in Producers /\ Rank[n] < Rank[c]
    BY <2>2, <1>1, InputFacts
  <2>4. Continue(update, run, c) =
           IF updated.value[n] = Errored
             THEN [run EXCEPT !.graph = updated, !.result = Errored]
             ELSE [run EXCEPT !.graph = updated, !.values = Append(@, updated.value[n])]
    BY <1>4 DEF Continue
  <2> HIDE DEF step, n
  <2>5. Proper(h1) /\ Tame(run.graph, h1, Deep(c), {}) /\ h1.value[n] \in Results
    BY <1>1, <2>2, InputUpdated
  <2> HIDE DEF h1
  <2>6. h1 \in Graphs /\ Shaped(h1) /\ h1.prods[c] = run.graph.prods[c] /\ h1.next[c] = k
    BY <1>1, <2>1, <2>5, ProperFacts, OwnListsStay DEF SameLists
  <2>7. h1.prods[c] \in Seq(Producers \cup {None}) /\ Len(h1.prods[c]) \in Nat
    BY <1>1, <2>6, GraphTypes, LenProperties
  <2>8. h1.next[c] + 1 <= Len(h1.prods[c]) => h1.prods[c][h1.next[c] + 1] # None
    <3>1. h1.next[c] + 1 <= Len(h1.prods[c]) => h1.next[c] + 1 \in 1..Len(h1.prods[c])
      BY <2>6, <2>7
    <3> QED
      BY <1>1, <2>6, <3>1, EntryFacts
  <2>9. /\ Proper(updated) /\ Tame(h1, updated, Deep(c), {c})
        /\ SameExceptLists(h1, updated, c) /\ Recorded(h1, updated, n, c, k + 1)
    BY <1>1, <2>1, <2>3, <2>5, <2>6, <2>8, AccessedTame
  <2> HIDE DEF updated
  <2>10. updated \in Graphs /\ updated.value[n] \in Results
    BY <2>5, <2>9, ProperFacts DEF SameExceptLists
  <2>11. Tame(h, updated, Deep(c), {c})
    <3>1. Tame(run.graph, h1, Deep(c), {c})
      BY <2>5, TameMonotone
    <3>2. Tame(h, h1, Deep(c), {c})
      BY <1>1, <2>6, <3>1, TameTransitive
    <3> QED
      BY <1>1, <2>6, <2>9, <2>10, <3>2, TameTransitive
  <2>12. updated.next[c] = k + 1 /\ k + 1 <= Len(updated.prods[c])
    BY <2>7, <2>9 DEF Recorded
  <2>13. CASE updated.value[n] = Errored
    <3>1. Errored \in Results /\ Errored # None
      BY NodesAssumption DEF Results
    <3>2. Continue(update, run, c) = [run EXCEPT !.graph = updated, !.result = Errored]
      BY <2>4, <2>13
    <3> QED
      BY <1>1, <2>9, <2>10, <2>11, <2>12, <3>1, <3>2 DEF RunOK, Computations
  <2>14. CASE updated.value[n] # Errored
    <3> DEFINE v == updated.value[n]
    <3>1. v \in Values /\ v \in Results
      BY <2>10, <2>14 DEF Results
    <3>2. Continue(update, run, c) = [run EXCEPT !.graph = updated, !.values = Append(@, v)]
      BY <2>4, <2>14
    <3> HIDE DEF v
    <3>3. Len(run.values) = k
      BY <2>1
    <3>4. Append(run.values, v) \in Seq(Results) /\ Append(run.values, v) \in [1..(k + 1) -> Values]
      <4>1. run.values \in Seq(Values)
        BY <2>1
      <4>2. Append(run.values, v) \in Seq(Values) /\ Len(Append(run.values, v)) = k + 1
        BY <3>1, <3>3, <4>1, AppendProperties
      <4>3. Append(run.values, v) \in Seq(Results)
        BY <2>1, <3>1, AppendProperties
      <4>4. Append(run.values, v) \in [1..(k + 1) -> Values]
        BY <4>2, LenProperties
      <4> QED
        BY <4>3, <4>4
    <3>5. k + 1 <= Longest
      BY <2>2, BodyAssumption
    <3> DEFINE next == Continue(update, run, c)
    <3>6. /\ next.graph = updated /\ next.values = Append(run.values, v) /\ next.result = None
          /\ next \in Computations
      BY <1>1, <1>4, <2>10, <3>2, <3>4 DEF Computations
    <3> HIDE DEF next
    <3>7. RunOK(h, next, c, k + 1)
      BY <2>9, <2>11, <2>12, <3>4, <3>5, <3>6 DEF RunOK
    <3> QED
      BY <3>7 DEF next
  <2> QED
    BY <2>13, <2>14
<1> QED
  BY <1>2, <1>3, <1>4

\* ... and so it holds when the body has ended, with a result.
LEMMA ComputeRounds ==
    ASSUME NEW update, NEW c \in Computeds, Updates(update, c), NEW h, Proper(h)
    PROVE  /\ ComputeAt(update, h, c, 0) =
                 [graph |-> [h EXCEPT !.next[c] = 0], values |-> <<>>, result |-> None]
           /\ \A k \in 0..(Longest + 1) : RunOK(h, ComputeAt(update, h, c, k), c, k)
           /\ \A k \in 0..Longest :
                 ComputeAt(update, h, c, k + 1) = Continue(update, ComputeAt(update, h, c, k), c)
           /\ Compute(update, h, c) = ComputeAt(update, h, c, Longest + 1)
<1> DEFINE N == Longest + 1
           step == [j \in 1..N |-> [run \in Computations |-> Continue(update, run, c)]]
           start == [graph |-> [h EXCEPT !.next[c] = 0], values |-> <<>>, result |-> None]
           At(k) == ComputeAt(update, h, c, k)
           Done == {k \in Nat : k <= N => RunOK(h, At(k), c, k)}
<1>1. h \in Graphs /\ N \in Nat /\ c \in Consumers /\ Longest \in Nat
  BY ProperFacts, BodyAssumption, NodeFacts
<1>2. At(0) = start /\ \A k \in Nat : At(k + 1) = step[k + 1][At(k)]
  <2>1. \A k : At(k) = Iterate(step, start, k)
    BY DEF ComputeAt
  <2> HIDE DEF step, start, At
  <2> QED
    BY <2>1, IterateRounds
<1>3. ASSUME NEW k \in Nat, k + 1 <= N, At(k) \in Computations
      PROVE  At(k + 1) = Continue(update, At(k), c)
  <2>1. At(k + 1) = step[k + 1][At(k)]
    BY <1>2
  <2>2. k + 1 \in 1..N
    BY <1>1, <1>3
  <2> HIDE DEF At
  <2> QED
    BY <1>3, <2>1, <2>2
<1>4. 0 \in Done
  <2> DEFINE h2 == [h EXCEPT !.next[c] = 0]
  <2>1. Proper(h2) /\ Tame(h, h2, Deep(c), {c}) /\ h2.next[c] = 0
    BY <1>1, ResetEffect
  <2>2. start = [graph |-> h2, values |-> <<>>, result |-> None]
    OBVIOUS
  <2> HIDE DEF h2, start
  <2>3. h2 \in Graphs
    BY <2>1, ProperFacts
  <2>4. Len(h2.prods[c]) \in Nat
    BY <1>1, <2>3, GraphTypes, LenProperties
  <2>5. <<>> \in Seq(Results) /\ <<>> \in [1..0 -> Values]
    OBVIOUS
  <2>6. RunOK(h, start, c, 0)
    BY <1>1, <2>1, <2>2, <2>3, <2>4, <2>5 DEF RunOK, Computations
  <2> HIDE DEF At
  <2> QED
    BY <1>2, <2>6
<1>5. ASSUME NEW k \in Nat, k \in Done PROVE k + 1 \in Done
  <2>1. SUFFICES ASSUME k + 1 <= N PROVE RunOK(h, At(k + 1), c, k + 1)
    OBVIOUS
  <2>2. RunOK(h, At(k), c, k)
    BY <1>1, <1>5, <2>1
  <2>3. At(k + 1) = Continue(update, At(k), c)
    BY <1>3, <2>1, <2>2 DEF RunOK
  <2> HIDE DEF At
  <2> QED
    BY <2>2, <2>3, ContinueOK
<1>6. Nat \subseteq Done
  <2> HIDE DEF Done
  <2> QED
    BY <1>4, <1>5, Induction
<1>7. \A k \in 0..N : RunOK(h, At(k), c, k)
  <2> HIDE DEF At
  <2> QED
    BY <1>1, <1>6
<1>8. \A k \in 0..Longest : At(k + 1) = Continue(update, At(k), c)
  <2>1. \A k \in 0..Longest : At(k) \in Computations /\ k \in Nat /\ k + 1 <= N
    BY <1>1, <1>7 DEF RunOK
  <2> HIDE DEF At
  <2> QED
    BY <1>3, <2>1
<1>9. Compute(update, h, c) = At(N)
  BY DEF Compute, ComputeAt
<1> QED
  BY <1>2, <1>7, <1>8, <1>9

-----------------------------------------------------------------------------
(* Bringing a computed up to date, rank by rank.                           *)

\* The recomputation of c ends with a result.
LEMMA RecomputeEffect ==
    ASSUME NEW update, NEW c \in Computeds, Updates(update, c), NEW h, Proper(h)
    PROVE  LET h2 == Recompute(update, h, c)
           IN  Proper(h2) /\ Tame(h, h2, Deep(c) \cup {c}, {}) /\ h2.value[c] \in Results
<1> DEFINE done == Compute(update, h, c)
           h1 == AfterComputation(done.graph, c)
           h2 == StoreResult(h1, c, done.result)
<1>1. /\ c \in Consumers /\ h \in Graphs /\ Longest \in Nat
      /\ RunOK(h, done, c, Longest + 1)
  <2>1. c \in Consumers /\ h \in Graphs /\ Longest \in Nat
    BY ProperFacts, NodeFacts, BodyAssumption
  <2>2. /\ \A k \in 0..(Longest + 1) : RunOK(h, ComputeAt(update, h, c, k), c, k)
        /\ done = ComputeAt(update, h, c, Longest + 1)
    BY ComputeRounds
  <2>3. Longest + 1 \in 0..(Longest + 1)
    BY <2>1
  <2> HIDE DEF done
  <2> QED
    BY <2>1, <2>2, <2>3
<1>2. Recompute(update, h, c) = h2
  BY DEF Recompute, Finish
<1> HIDE DEF done
<1>3. /\ Proper(done.graph) /\ done.graph \in Graphs /\ Shaped(done.graph)
      /\ Tame(h, done.graph, Deep(c), {c}) /\ done.result \in Results
  <2>1. /\ Proper(done.graph) /\ Tame(h, done.graph, Deep(c), {c})
        /\ done.result \in Results \cup {None}
    BY <1>1 DEF RunOK, Computations
  <2>2. done.result # None
    BY <1>1 DEF RunOK
  <2> QED
    BY <2>1, <2>2, ProperFacts
<1>4. Proper(h1) /\ Tame(done.graph, h1, Deep(c), {c}) /\ h1 \in Graphs
  <2>1. \A j \in 1..Len(done.graph.prods[c]) : done.graph.prods[c][j] # None
    BY <1>1, <1>3, EntryFacts
  <2>2. Proper(h1) /\ Tame(done.graph, h1, Deep(c), {c})
    BY <1>1, <1>3, <2>1, AfterComputationTame
  <2> HIDE DEF h1
  <2> QED
    BY <2>2, ProperFacts
<1> HIDE DEF h1
<1>5. Proper(h2) /\ Tame(h1, h2, {c}, {}) /\ h2.value[c] \in Results /\ h2 \in Graphs
  <2>1. Proper(h2) /\ Tame(h1, h2, {c}, {}) /\ h2.value[c] \in Results
    BY <1>3, <1>4, StoreResultEffect
  <2> HIDE DEF h2
  <2> QED
    BY <2>1, ProperFacts
<1> HIDE DEF h2
<1>6. Tame(h, h2, Deep(c) \cup {c}, {})
  <2> DEFINE D == Deep(c) \cup {c}
  <2>1. Tame(h, done.graph, D, {})
    BY <1>3, TameMonotone
  <2>2. Tame(done.graph, h1, D, {})
    BY <1>4, TameMonotone
  <2>3. Tame(h1, h2, D, {})
    BY <1>5, TameMonotone
  <2> HIDE DEF D
  <2>4. Tame(h, h1, D, {})
    BY <1>1, <1>3, <1>4, <2>1, <2>2, TameTransitive
  <2>5. Tame(h, h2, D, {})
    BY <1>1, <1>4, <1>5, <2>3, <2>4, TameTransitive
  <2> QED
    BY <2>5 DEF D
<1> QED
  BY <1>2, <1>5, <1>6

\* A computed that was polled or recomputed has a value and is clean.
LEMMA BringUpToDateEffect ==
    ASSUME NEW update, NEW c \in Computeds, Updates(update, c), NEW h, Proper(h)
    PROVE  LET h2 == BringUpToDate(update, h, c)
           IN  Proper(h2) /\ Tame(h, h2, Deep(c) \cup {c}, {}) /\ h2.value[c] \in Results
<1> DEFINE D == Deep(c) \cup {c}
           poll == IF h.value[c] = Unset THEN [graph |-> h, answer |-> "changed"]
                   ELSE Poll(update, h, c)
           h1 == RecomputeIfChanged(update, poll, c)
           h2 == MarkClean(h1, c)
<1>1. /\ c \in Consumers /\ c \in Producers /\ h \in Graphs /\ Shaped(h)
      /\ h.value[c] \in Results \cup {Unset} /\ Unset \notin Results
      /\ c \notin Deep(c)
  BY ProperFacts, NodeFacts, GraphTypes, NodesAssumption, InputFacts
<1>2. /\ Proper(poll.graph) /\ poll.graph \in Graphs /\ Tame(h, poll.graph, D, {})
      /\ poll.answer # "changed" => poll.graph.value[c] \in Results
  <2>1. CASE h.value[c] = Unset
    <3>1. poll = [graph |-> h, answer |-> "changed"]
      BY <2>1
    <3> HIDE DEF poll, D
    <3> QED
      BY <1>1, <3>1, TameReflexive
  <2>2. CASE h.value[c] # Unset
    <3>1. PollOK(h, Poll(update, h, c), c)
      <4>1. /\ \A k \in 0..Len(h.prods[c]) : PollOK(h, PollAt(update, h, c, k), c)
            /\ Poll(update, h, c) = PollAt(update, h, c, Len(h.prods[c]))
            /\ Len(h.prods[c]) \in Nat
        BY <1>1, PollRounds
      <4> QED
        BY <4>1
    <3>2. poll = Poll(update, h, c)
      BY <2>2
    <3> HIDE DEF poll
    <3>3. Proper(poll.graph) /\ poll.graph \in Graphs /\ Tame(h, poll.graph, Deep(c), {})
      BY <3>1, <3>2, ProperFacts DEF PollOK
    <3>4. Tame(h, poll.graph, D, {})
      BY <3>3, TameMonotone
    <3>5. poll.graph.value[c] = h.value[c]
      BY <1>1, <3>3 DEF Tame
    <3> QED
      BY <1>1, <2>2, <3>3, <3>4, <3>5
  <2> QED
    BY <2>1, <2>2
<1>3. BringUpToDate(update, h, c) = h2
  BY DEF BringUpToDate
<1> HIDE DEF poll
<1>4. Proper(h1) /\ h1 \in Graphs /\ Tame(h, h1, D, {}) /\ h1.value[c] \in Results
  <2>1. CASE poll.answer = "changed"
    <3>1. h1 = Recompute(update, poll.graph, c)
      BY <2>1 DEF RecomputeIfChanged
    <3> HIDE DEF h1
    <3>2. Proper(h1) /\ Tame(poll.graph, h1, D, {}) /\ h1.value[c] \in Results
      BY <1>2, <3>1, RecomputeEffect
    <3> HIDE DEF D
    <3>3. h1 \in Graphs
      BY <3>2, ProperFacts
    <3>4. Tame(h, h1, D, {})
      BY <1>1, <1>2, <3>2, <3>3, TameTransitive
    <3> QED
      BY <3>2, <3>3, <3>4
  <2>2. CASE poll.answer # "changed"
    <3>1. h1 = poll.graph
      BY <2>2 DEF RecomputeIfChanged
    <3> QED
      BY <1>2, <2>2, <3>1
  <2> QED
    BY <2>1, <2>2
<1> HIDE DEF h1
<1>5. Proper(h2) /\ Tame(h1, h2, {c}, {}) /\ h2.value = h1.value
  BY <1>1, <1>4, MarkCleanEffect
<1> HIDE DEF h2
<1>6. Tame(h1, h2, D, {})
  BY <1>5, TameMonotone
<1>7. h2 \in Graphs
  BY <1>5, ProperFacts
<1>8. Tame(h, h2, D, {})
  <2> HIDE DEF D
  <2> QED
    BY <1>1, <1>4, <1>6, <1>7, TameTransitive
<1> QED
  BY <1>3, <1>4, <1>5, <1>8

\* An update brings a producer up to date and disturbs nothing that is not upstream.
UpdatesUpto(r) == \A n \in Producers : \A h \in Graphs :
                     Rank[n] <= r /\ Proper(h) => Updated(h, Update[r][n][h], n)

\* So producerUpdateValueVersion is right at every rank, by induction ...
LEMMA UpdateUpdates == \A r \in Nat : UpdatesUpto(r)
<1> DEFINE Proved == {r \in Nat : UpdatesUpto(r)}
<1>1. ASSUME NEW r \in Nat, r > 0 => UpdatesUpto(r - 1) PROVE UpdatesUpto(r)
  <2> SUFFICES ASSUME NEW n \in Producers, NEW h \in Graphs, Rank[n] <= r, Proper(h)
               PROVE  Updated(h, Update[r][n][h], n)
    BY DEF UpdatesUpto
  <2>1. Update[r][n][h] = IF r = 0 \/ n \in Signals \/ KnownClean(h, n) THEN h
                          ELSE BringUpToDate(Update[r - 1], h, n)
    <3>1. Update[r] = [m \in Producers |-> [x \in Graphs |->
              IF r = 0 \/ m \in Signals \/ KnownClean(x, m) THEN x
              ELSE BringUpToDate(Update[r - 1], x, m)]]
      BY UpdateRound
    <3>2. Update[r][n] = [x \in Graphs |->
              IF r = 0 \/ n \in Signals \/ KnownClean(x, n) THEN x
              ELSE BringUpToDate(Update[r - 1], x, n)]
      BY <3>1
    <3> QED
      BY <3>2
  <2>2. Rank[n] \in Nat /\ (n \in Signals \/ n \in Computeds) /\ (Rank[n] = 0 => n \in Signals)
    BY NodeFacts
  <2>3. CASE r = 0 \/ n \in Signals \/ KnownClean(h, n)
    <3>1. Update[r][n][h] = h
      BY <2>1, <2>3
    <3>2. h.value[n] \in Results
      <4>1. CASE n \in Signals
        BY <4>1 DEF Proper, Valued, Results
      <4>2. CASE n \in Computeds
        <5>1. KnownClean(h, n)
          BY <2>2, <2>3, <4>2, NodeFacts
        <5>2. h.value[n] # Unset
          BY <4>2, <5>1 DEF KnownClean, Proper, Valued
        <5> QED
          BY <5>2, GraphTypes
      <4> QED
        BY <2>2, <4>1, <4>2
    <3> QED
      BY <3>1, <3>2, TameReflexive DEF Updated
  <2>4. CASE ~(r = 0 \/ n \in Signals \/ KnownClean(h, n))
    <3> DEFINE h2 == BringUpToDate(Update[r - 1], h, n)
    <3>1. Update[r][n][h] = h2
      BY <2>1, <2>4
    <3>2. n \in Computeds /\ r - 1 \in Nat /\ UpdatesUpto(r - 1)
      BY <1>1, <2>2, <2>4
    <3>3. Updates(Update[r - 1], n)
      <4> SUFFICES ASSUME NEW m \in Inputs(n), NEW x \in Graphs, Proper(x)
                   PROVE  Updated(x, Update[r - 1][m][x], m)
        BY DEF Updates
      <4>1. m \in Producers /\ Rank[m] < Rank[n]
        BY <3>2 DEF Inputs
      <4>2. Rank[m] <= r - 1
        BY <2>2, <4>1, NodeFacts
      <4> QED
        BY <3>2, <4>1, <4>2 DEF UpdatesUpto
    <3>4. Proper(h2) /\ Tame(h, h2, Deep(n) \cup {n}, {}) /\ h2.value[n] \in Results
      BY <3>2, <3>3, BringUpToDateEffect
    <3>5. Deep(n) \cup {n} \subseteq Upto(n)
      BY <2>2, <3>2, NodeFacts DEF Deep, Upto
    <3> HIDE DEF h2
    <3>6. Tame(h, h2, Upto(n), {})
      BY <3>4, <3>5, TameMonotone
    <3> QED
      BY <3>1, <3>4, <3>6 DEF Updated
  <2> QED
    BY <2>3, <2>4
<1>2. 0 \in Proved
  BY <1>1
<1>3. ASSUME NEW r \in Nat, r \in Proved PROVE r + 1 \in Proved
  BY <1>1, <1>3
<1>4. Nat \subseteq Proved
  <2> HIDE DEF Proved
  <2> QED
    BY <1>2, <1>3, Induction
<1> QED
  BY <1>4

\* ... and for every node.
LEMMA UpdateValueVersionUpdated ==
    ASSUME NEW n \in Producers, NEW h \in Graphs, Proper(h)
    PROVE  Updated(h, UpdateValueVersion[n][h], n)
<1>1. Rank[n] \in Nat /\ Rank[n] <= Rank[n]
  BY NodeFacts
<1>2. UpdateValueVersion[n] = Update[Rank[n]][n]
  BY DEF UpdateValueVersion
<1>3. Updated(h, Update[Rank[n]][n][h], n)
  BY <1>1, UpdateUpdates DEF UpdatesUpto
<1> QED
  BY <1>2, <1>3

\* In particular it is right for whatever a consumer reads.
LEMMA UpdateValueVersionUpdates ==
    \A c \in Consumers : Updates(UpdateValueVersion, c)
  BY UpdateValueVersionUpdated DEF Updates, Inputs

-----------------------------------------------------------------------------
(* The inductive invariant.                                                *)

\* The list of e is dense.
NoHole(h, e) == \A j \in 1..Len(h.prods[e]) : h.prods[e][j] # None

\* A destroyed effect has lists no more; holes come from what it still reads.
Holes ==
    \A e \in Effects :
        /\ ~NoHole(g, e) => /\ e \in destroyed /\ e \in hasRun /\ g.prods[e][1] = None
                            /\ active = e => g.next[e] = Len(g.prods[e])
        /\ active = e => /\ e \in hasRun
                         /\ g.next[e] <= Len(g.prods[e])
                               \/ (g.prods[e] = <<>> /\ e \in destroyed)

\* The types of the other variables.
Sets ==
    /\ active \in Effects \cup {None}
    /\ queue \cup hasRun \cup destroyed \cup broken \subseteq Effects

\* The inductive invariant.
IInv == Proper(g) /\ Sets /\ Holes

\* It holds of a new graph.
LEMMA InitIInv == Init => IInv
<1> SUFFICES ASSUME Init PROVE IInv
  OBVIOUS
<1>1. /\ g.epoch = 1
      /\ g.value = [n \in Producers |-> IF n \in Signals THEN Initial[n] ELSE Unset]
      /\ g.version = [n \in Producers |-> 0] /\ g.clean = [n \in Computeds |-> 0]
      /\ g.dirty = [n \in Consumers |-> TRUE]
      /\ g.prods = [n \in Consumers |-> <<>>] /\ g.seen = [n \in Consumers |-> <<>>]
      /\ g.indexOf = [n \in Consumers |-> <<>>] /\ g.next = [n \in Consumers |-> 0]
      /\ g.live = [n \in Producers |-> <<>>] /\ g.liveIdx = [n \in Producers |-> <<>>]
      /\ g.got = [n \in Consumers |-> <<>>]
  BY DEF Init
<1>2. /\ \A c \in Consumers : /\ g.prods[c] = <<>> /\ g.seen[c] = <<>>
                             /\ g.indexOf[c] = <<>> /\ g.got[c] = <<>>
                             /\ g.dirty[c] = TRUE
      /\ \A n \in Producers : g.live[n] = <<>> /\ g.liveIdx[n] = <<>>
  BY <1>1
<1>3. g \in Graphs
  <2>1. [n \in Producers |-> IF n \in Signals THEN Initial[n] ELSE Unset]
           \in [Producers -> Results \cup {Unset}]
    BY NodesAssumption DEF Results
  <2>2. /\ 1 \in Nat /\ [n \in Producers |-> 0] \in [Producers -> Nat]
        /\ [n \in Computeds |-> 0] \in [Computeds -> Nat]
        /\ [n \in Consumers |-> TRUE] \in [Consumers -> BOOLEAN]
        /\ [n \in Consumers |-> <<>>] \in [Consumers -> Seq(Producers \cup {None})]
        /\ [n \in Consumers |-> <<>>] \in [Consumers -> Seq(Nat \cup {None})]
        /\ [n \in Consumers |-> <<>>] \in [Consumers -> Seq(Nat)]
        /\ [n \in Consumers |-> 0] \in [Consumers -> Nat]
        /\ [n \in Producers |-> <<>>] \in [Producers -> Seq(Consumers)]
        /\ [n \in Producers |-> <<>>] \in [Producers -> Seq(Nat)]
        /\ [n \in Consumers |-> <<>>] \in [Consumers -> Seq(Results \cup {Unset, None})]
    OBVIOUS
  <2> QED
    BY <2>1, <2>2 DEF Init, Graphs
<1>4. 1..Len(<<>>) = {}
  OBVIOUS
<1>5. Shaped(g)
  BY <1>2, <1>3, <1>4, NodeFacts DEF Shaped
<1>6. Matched(g) /\ Settled(g, {})
  BY <1>2, <1>4 DEF Matched, Settled
<1>7. Versioned(g)
  BY <1>2, <1>4 DEF Versioned
<1>8. Valued(g)
  BY <1>1, <1>2, NodeFacts, NodesAssumption DEF Valued
<1>9. Sets
  BY DEF Init, Sets
<1>10. Holes
  <2>1. \A e \in Effects : NoHole(g, e)
    BY <1>2, <1>4, NodeFacts DEF NoHole
  <2>2. active = None /\ None \notin Effects
    BY NodeFacts DEF Init
  <2> QED
    BY <2>1, <2>2 DEF Holes
<1> QED
  BY <1>5, <1>6, <1>7, <1>8, <1>9, <1>10 DEF IInv, Proper, Sane, Wired

\* The graph after a write that marked these consumers.
Written(h, s, v, marked) ==
    [h EXCEPT !.value[s] = v, !.version[s] = @ + 1, !.epoch = @ + 1,
              !.dirty = [c \in Consumers |-> @[c] \/ c \in marked]]

\* A write gives the signal a new version, and more consumers are dirty.
LEMMA WriteEffect ==
    ASSUME NEW h, Proper(h), NEW s \in Signals, NEW v \in Values, NEW marked
    PROVE  LET h2 == Written(h, s, v, marked) IN
           /\ Proper(h2) /\ \A x \in Consumers : SameLists(h, h2, x)
           /\ h2.value[s] = v /\ h2.version[s] = h.version[s] + 1 /\ h2.epoch = h.epoch + 1
           /\ \A m \in Producers \ {s} : h2.value[m] = h.value[m] /\ h2.version[m] = h.version[m]
           /\ \A x \in Consumers : h2.dirty[x] <=> h.dirty[x] \/ x \in marked
           /\ h2.clean = h.clean /\ h2.prods = h.prods /\ h2.got = h.got /\ h2.next = h.next
           /\ h2.live = h.live /\ h2.seen = h.seen /\ h2.indexOf = h.indexOf
           /\ h2.liveIdx = h.liveIdx
<1> DEFINE h2 == Written(h, s, v, marked)
<1>1. /\ h \in Graphs /\ Wired(h, {}) /\ Versioned(h) /\ Valued(h) /\ s \in Producers
      /\ h.version \in [Producers -> Nat] /\ h.value \in [Producers -> Results \cup {Unset}]
      /\ h.dirty \in [Consumers -> BOOLEAN] /\ h.epoch \in Nat /\ v \in Results
  BY ProperFacts, NodeFacts, GraphTypes DEF Results
<1>2. /\ h2.prods = h.prods /\ h2.seen = h.seen /\ h2.indexOf = h.indexOf
      /\ h2.live = h.live /\ h2.liveIdx = h.liveIdx /\ h2.got = h.got
      /\ h2.next = h.next /\ h2.clean = h.clean /\ h2.epoch = h.epoch + 1
      /\ h2.value = [h.value EXCEPT ![s] = v]
      /\ h2.version = [h.version EXCEPT ![s] = @ + 1]
      /\ h2.dirty = [c \in Consumers |-> h.dirty[c] \/ c \in marked]
  BY <1>1 DEF Graphs, Written
<1>3. h2 \in Graphs
  <2>1. /\ [h.value EXCEPT ![s] = v] \in [Producers -> Results \cup {Unset}]
        /\ [h.version EXCEPT ![s] = @ + 1] \in [Producers -> Nat]
        /\ h.epoch + 1 \in Nat
    BY <1>1
  <2>2. [c \in Consumers |-> h.dirty[c] \/ c \in marked] \in [Consumers -> BOOLEAN]
    OBVIOUS
  <2> QED
    BY <1>1, <2>1, <2>2 DEF Graphs, Written
<1>4. /\ h2.value[s] = v /\ h2.version[s] = h.version[s] + 1
      /\ \A m \in Producers \ {s} : h2.value[m] = h.value[m] /\ h2.version[m] = h.version[m]
      /\ \A m \in Producers : h.version[m] \in Nat
  BY <1>1, <1>2
<1> HIDE DEF h2
<1>5. \A x \in Consumers : h2.dirty[x] <=> h.dirty[x] \/ x \in marked
  BY <1>2, Zenon
<1>6. Wired(h2, {})
  BY <1>1, <1>2, <1>3, SameEdges
<1>7. Versioned(h2)
  <2> SUFFICES ASSUME NEW x \in Consumers, NEW j \in 1..Len(h.prods[x]), h.prods[x][j] # None
               PROVE  /\ h.seen[x][j] \in Nat /\ h.seen[x][j] <= h2.version[h.prods[x][j]]
                      /\ h.seen[x][j] = h2.version[h.prods[x][j]]
                            => h.got[x][j] = h2.value[h.prods[x][j]]
    BY <1>2 DEF Versioned
  <2>1. LET m == h.prods[x][j]
        IN  /\ h.seen[x][j] \in Nat /\ h.seen[x][j] <= h.version[m]
            /\ h.seen[x][j] = h.version[m] => h.got[x][j] = h.value[m]
    BY <1>1 DEF Versioned
  <2>2. h.prods[x][j] \in Producers
    <3>1. h.prods[x] \in Seq(Producers \cup {None})
      BY <1>1, GraphTypes
    <3> QED
      BY <3>1, ElementOfSeq
  <2>3. CASE h.prods[x][j] = s
    <3>1. h.seen[x][j] \in Nat /\ h.seen[x][j] <= h.version[s] /\ h.version[s] \in Nat
      BY <1>1, <2>1, <2>3
    <3>2. h.seen[x][j] < h2.version[s]
      BY <1>4, <3>1
    <3> QED
      BY <1>4, <2>3, <3>1, <3>2
  <2>4. CASE h.prods[x][j] # s
    BY <1>4, <2>1, <2>2, <2>4
  <2> QED
    BY <2>3, <2>4
<1>8. Valued(h2)
  <2>1. \A t \in Signals : h2.value[t] \in Values
    BY <1>1, <1>4, NodeFacts DEF Valued
  <2>2. \A x \in Computeds : ~h2.dirty[x] => h2.value[x] # Unset
    BY <1>1, <1>4, <1>5, NodeFacts DEF Valued
  <2> QED
    BY <2>1, <2>2 DEF Valued
<1>9. \A x \in Consumers : SameLists(h, h2, x)
  BY <1>2 DEF SameLists
<1> QED
  BY <1>2, <1>4, <1>5, <1>6, <1>7, <1>8, <1>9 DEF Proper, Sane, h2

\* The effect that is about to run is clean.
LEMMA CleanEffect ==
    ASSUME NEW h, Proper(h), NEW e \in Effects
    PROVE  LET h2 == [h EXCEPT !.dirty[e] = FALSE]
           IN  /\ Proper(h2) /\ Tame(h, h2, {e}, {}) /\ SameLists(h, h2, e)
               /\ h2.live = h.live /\ h2.clean = h.clean /\ h2.prods = h.prods
               /\ h2.got = h.got /\ h2.dirty[e] = FALSE /\ h2.value = h.value
<1> DEFINE h2 == [h EXCEPT !.dirty[e] = FALSE]
<1>1. /\ h \in Graphs /\ Wired(h, {}) /\ Versioned(h) /\ Valued(h)
      /\ e \in Consumers /\ e \notin Producers
      /\ h.version \in [Producers -> Nat] /\ h.dirty \in [Consumers -> BOOLEAN]
  BY ProperFacts, NodeFacts, GraphTypes
<1>2. /\ h2.epoch = h.epoch /\ h2.value = h.value /\ h2.version = h.version
      /\ h2.prods = h.prods /\ h2.seen = h.seen /\ h2.indexOf = h.indexOf
      /\ h2.next = h.next /\ h2.live = h.live /\ h2.liveIdx = h.liveIdx
      /\ h2.got = h.got /\ h2.clean = h.clean
      /\ h2.dirty = [h.dirty EXCEPT ![e] = FALSE]
  BY <1>1 DEF Graphs
<1>3. h2 \in Graphs
  <2>1. [h.dirty EXCEPT ![e] = FALSE] \in [Consumers -> BOOLEAN]
    BY <1>1
  <2> QED
    BY <1>1, <2>1 DEF Graphs
<1>4. h2.dirty[e] = FALSE /\ \A x \in Consumers \ {e} : h2.dirty[x] = h.dirty[x]
  BY <1>1, <1>2
<1> HIDE DEF h2
<1>5. Wired(h2, {})
  BY <1>1, <1>2, <1>3, SameEdges
<1>6. Versioned(h2)
  BY <1>1, <1>2, SameReads
<1>7. Valued(h2)
  BY <1>1, <1>2, <1>4, NodeFacts DEF Valued
<1>8. Tame(h, h2, {e}, {})
  BY <1>1, <1>2, <1>4 DEF Tame, SameLists
<1> QED
  BY <1>2, <1>4, <1>5, <1>6, <1>7, <1>8 DEF Proper, Sane, SameLists, h2

\* consumerDestroy cuts all links of the effect and forgets its lists.
LEMMA DestroyEffectEffect ==
    ASSUME NEW h, Proper(h), NEW e \in Effects, NoHole(h, e)
    PROVE  LET h2 == [DropLinks(h, e, 1) EXCEPT !.prods[e] = <<>>, !.seen[e] = <<>>,
                                                !.indexOf[e] = <<>>, !.got[e] = <<>>]
           IN  /\ Proper(h2) /\ SameExceptLists(h, h2, e) /\ h2.next = h.next
               /\ h2.prods[e] = <<>>
               /\ \A m \in Producers : Len(h2.live[m]) <= Len(h.live[m])
<1> DEFINE h1 == DropLinks(h, e, 1)
           h2 == [h1 EXCEPT !.prods[e] = <<>>, !.seen[e] = <<>>,
                            !.indexOf[e] = <<>>, !.got[e] = <<>>]
<1>1. h \in Graphs /\ Wired(h, {}) /\ Versioned(h) /\ Valued(h) /\ e \in Consumers
  BY ProperFacts, NodeFacts
<1>2. /\ Wired(h1, {e}) /\ SameNodes(h, h1)
      /\ \A j : Linked(h1, e, j) <=> Linked(h, e, j) /\ j < 1
      /\ \A m \in Producers : Len(h1.live[m]) <= Len(h.live[m])
  <2>1. IsLive(h, e)
    BY DEF IsLive
  <2>2. \A j \in 1..Len(h.prods[e]) : j >= 1 => h.prods[e][j] # None
    BY DEF NoHole
  <2> QED
    BY <1>1, <2>1, <2>2, DropLinksCuts
<1>3. \A j : ~Linked(h1, e, j)
  <2>1. \A j \in 1..Len(h.prods[e]) : ~(j < 1)
    <3>1. Len(h.prods[e]) \in Nat
      BY <1>1, GraphTypes, LenProperties
    <3> QED
      BY <3>1
  <2> QED
    BY <1>2, <2>1, LinkedInRange
<1> HIDE DEF h1
<1>4. /\ h1 \in Graphs /\ Shaped(h1) /\ Matched(h1) /\ Settled(h1, {e})
      /\ h1.prods = h.prods /\ h1.seen = h.seen /\ h1.got = h.got /\ h1.next = h.next
      /\ h1.prods \in [Consumers -> Seq(Producers \cup {None})]
      /\ h1.seen \in [Consumers -> Seq(Nat \cup {None})]
      /\ h1.indexOf \in [Consumers -> Seq(Nat)]
      /\ h1.got \in [Consumers -> Seq(Results \cup {Unset, None})]
  <2>1. h1 \in Graphs /\ Shaped(h1) /\ Matched(h1) /\ Settled(h1, {e})
    BY <1>2 DEF Wired, Shaped
  <2>2. h1.prods = h.prods /\ h1.seen = h.seen /\ h1.got = h.got /\ h1.next = h.next
    BY <1>2 DEF SameNodes
  <2> QED
    BY <2>1, <2>2, GraphTypes
<1>5. /\ h2.epoch = h1.epoch /\ h2.value = h1.value /\ h2.version = h1.version
      /\ h2.clean = h1.clean /\ h2.dirty = h1.dirty /\ h2.next = h1.next
      /\ h2.live = h1.live /\ h2.liveIdx = h1.liveIdx
      /\ h2.prods = [h1.prods EXCEPT ![e] = <<>>]
      /\ h2.seen = [h1.seen EXCEPT ![e] = <<>>]
      /\ h2.indexOf = [h1.indexOf EXCEPT ![e] = <<>>]
      /\ h2.got = [h1.got EXCEPT ![e] = <<>>]
  BY <1>4 DEF Graphs
<1>6. h2 \in Graphs
  <2>1. /\ [h1.prods EXCEPT ![e] = <<>>] \in [Consumers -> Seq(Producers \cup {None})]
        /\ [h1.seen EXCEPT ![e] = <<>>] \in [Consumers -> Seq(Nat \cup {None})]
        /\ [h1.indexOf EXCEPT ![e] = <<>>] \in [Consumers -> Seq(Nat)]
        /\ [h1.got EXCEPT ![e] = <<>>] \in [Consumers -> Seq(Results \cup {Unset, None})]
    <3>1. /\ <<>> \in Seq(Producers \cup {None}) /\ <<>> \in Seq(Nat \cup {None})
          /\ <<>> \in Seq(Nat) /\ <<>> \in Seq(Results \cup {Unset, None})
      OBVIOUS
    <3>2. \A S, T, f : f \in [S -> Seq(T)] /\ <<>> \in Seq(T) =>
                          [f EXCEPT ![e] = <<>>] \in [S -> Seq(T)]
      OBVIOUS
    <3> QED
      BY <1>4, <3>1, <3>2, Zenon
  <2>2. h2 = [h1 EXCEPT !.prods = [h1.prods EXCEPT ![e] = <<>>],
                        !.seen = [h1.seen EXCEPT ![e] = <<>>],
                        !.indexOf = [h1.indexOf EXCEPT ![e] = <<>>],
                        !.got = [h1.got EXCEPT ![e] = <<>>]]
    BY <1>4 DEF Graphs
  <2> HIDE DEF h2
  <2> QED
    BY <1>4, <2>1, <2>2 DEF Graphs
<1> HIDE DEF h2
<1>7. /\ \A x \in Consumers \ {e} : /\ h2.prods[x] = h1.prods[x] /\ h2.seen[x] = h1.seen[x]
                                    /\ h2.indexOf[x] = h1.indexOf[x] /\ h2.got[x] = h1.got[x]
      /\ h2.prods[e] = <<>> /\ h2.seen[e] = <<>> /\ h2.indexOf[e] = <<>> /\ h2.got[e] = <<>>
  BY <1>1, <1>4, <1>5
<1>8. 1..Len(<<>>) = {}
  OBVIOUS
<1>9. /\ \A x \in Consumers \ {e} : \A j : Linked(h2, x, j) <=> Linked(h1, x, j)
      /\ \A j : ~Linked(h2, e, j)
  <2>1. ASSUME NEW x \in Consumers \ {e}, NEW j PROVE Linked(h2, x, j) <=> Linked(h1, x, j)
    BY <1>5, <1>7 DEF Linked
  <2>2. \A j : ~Linked(h2, e, j)
    BY <1>7, <1>8 DEF Linked
  <2> QED
    BY <2>1, <2>2
<1>10. Matched(h2)
  <2>1. SUFFICES ASSUME NEW m \in Producers, NEW k \in 1..Len(h2.live[m])
                 PROVE  LET x == h2.live[m][k]
                            y == h2.liveIdx[m][k]
                        IN  y \in 1..Len(h2.prods[x]) /\ h2.prods[x][y] = m
                            /\ h2.indexOf[x][y] = k
    BY DEF Matched
  <2> DEFINE x == h1.live[m][k]
             y == h1.liveIdx[m][k]
  <2>a. h2.live[m][k] = x /\ h2.liveIdx[m][k] = y /\ k \in 1..Len(h1.live[m])
    BY <2>1, <1>5
  <2>b. SUFFICES y \in 1..Len(h2.prods[x]) /\ h2.prods[x][y] = m /\ h2.indexOf[x][y] = k
    BY <2>a
  <2>2. y \in 1..Len(h1.prods[x]) /\ h1.prods[x][y] = m /\ h1.indexOf[x][y] = k
    BY <1>4, <2>a DEF Matched
  <2>3. x \in Consumers
    BY <1>4, <2>a, GraphTypes, ElementOfSeq
  <2>4. x # e
    <3>1. SUFFICES ASSUME x = e PROVE FALSE
      OBVIOUS
    <3>2. h1.live[h1.prods[e][y]][h1.indexOf[e][y]] = e
          /\ h1.liveIdx[h1.prods[e][y]][h1.indexOf[e][y]] = y
      BY <2>2, <3>1
    <3>3. Linked(h1, e, y)
      BY <2>a, <2>2, <3>1, <3>2 DEF Linked
    <3> QED
      BY <1>3, <3>3
  <2> HIDE DEF x, y
  <2> QED
    BY <2>2, <2>3, <2>4, <1>7
<1>11. Shaped(h2)
  <2>1. \A m \in Producers : Len(h2.liveIdx[m]) = Len(h2.live[m])
    BY <1>4, <1>5 DEF Shaped
  <2>2. ASSUME NEW x \in Consumers
        PROVE  /\ Len(h2.seen[x]) = Len(h2.prods[x])
               /\ Len(h2.indexOf[x]) = Len(h2.prods[x])
               /\ Len(h2.got[x]) = Len(h2.prods[x])
    <3>1. CASE x = e
      BY <3>1, <1>7
    <3>2. CASE x # e
      BY <3>2, <1>4, <1>7 DEF Shaped
    <3> QED
      BY <3>1, <3>2
  <2>3. \A x \in Computeds : \A j \in 1..Len(h2.prods[x]) :
           h2.prods[x][j] \in Producers /\ Rank[h2.prods[x][j]] < Rank[x]
    <3>1. \A x \in Computeds : x \in Consumers \ {e}
      BY NodeFacts
    <3> QED
      BY <3>1, <1>4, <1>7 DEF Shaped
  <2> QED
    BY <1>6, <2>1, <2>2, <2>3 DEF Shaped
<1>12. Settled(h2, {})
  <2>1. ASSUME NEW x \in Consumers, NEW j \in 1..Len(h2.prods[x]), h2.prods[x][j] # None
        PROVE  Linked(h2, x, j) <=> IsLive(h2, x)
    <3>1. x # e
      BY <2>1, <1>7, <1>8
    <3>2. h1.prods[x] = h2.prods[x] /\ (IsLive(h1, x) <=> IsLive(h2, x))
      BY <3>1, <1>5, <1>7 DEF IsLive
    <3> QED
      BY <2>1, <3>1, <3>2, <1>4, <1>9 DEF Settled
  <2> QED
    BY <2>1 DEF Settled
<1>13. /\ h2.epoch = h.epoch /\ h2.value = h.value /\ h2.version = h.version
       /\ h2.clean = h.clean /\ h2.dirty = h.dirty /\ h2.next = h.next
  BY <1>2, <1>5 DEF SameNodes
<1>14. SameExceptLists(h, h2, e)
  BY <1>4, <1>7, <1>13 DEF SameExceptLists
<1>15. Versioned(h2)
  <2> SUFFICES ASSUME NEW x \in Consumers, NEW j \in 1..Len(h2.prods[x]), h2.prods[x][j] # None
               PROVE  /\ h2.seen[x][j] \in Nat /\ h2.seen[x][j] <= h2.version[h2.prods[x][j]]
                      /\ h2.seen[x][j] = h2.version[h2.prods[x][j]]
                            => h2.got[x][j] = h2.value[h2.prods[x][j]]
    BY DEF Versioned
  <2>1. x # e
    BY <1>7, <1>8
  <2>2. h2.prods[x] = h.prods[x] /\ h2.seen[x] = h.seen[x] /\ h2.got[x] = h.got[x]
    BY <2>1, <1>4, <1>7
  <2>3. LET m == h.prods[x][j]
        IN  /\ h.seen[x][j] \in Nat /\ h.seen[x][j] <= h.version[m]
            /\ h.seen[x][j] = h.version[m] => h.got[x][j] = h.value[m]
    BY <2>2, <1>1 DEF Versioned
  <2> QED
    BY <2>2, <2>3, <1>13
<1>16. Valued(h2)
  BY <1>1, <1>13 DEF Valued
<1>17. \A m \in Producers : Len(h2.live[m]) <= Len(h.live[m])
  BY <1>2, <1>5
<1>18. Proper(h2)
  BY <1>10, <1>11, <1>12, <1>15, <1>16 DEF Proper, Sane, Wired
<1>19. h2.prods[e] = <<>> /\ h2.next = h.next
  BY <1>7, <1>13
<1> QED
  BY <1>14, <1>17, <1>18, <1>19 DEF h1, h2

\* Polling an effect with a hole at the start throws.
LEMMA HoleThrows ==
    ASSUME NEW update, NEW e \in Effects, Updates(update, e), NEW h, Proper(h),
           ~NoHole(h, e), h.prods[e][1] = None
    PROVE  Poll(update, h, e).answer = "throws"
<1> DEFINE N == Len(h.prods[e])
           At(k) == PollAt(update, h, e, k)
           Thrown == {k \in Nat : k + 1 <= N => At(k + 1).answer = "throws"}
<1>1. /\ At(0) = [graph |-> h, answer |-> "same"]
      /\ \A k \in Nat : k + 1 <= N => At(k + 1) = PollProducer(update, At(k), e, k + 1)
      /\ Poll(update, h, e) = At(N) /\ N \in Nat
  <2>1. e \in Consumers
    BY NodeFacts
  <2> QED
    BY <2>1, PollRounds
<1>2. N \in Nat \ {0}
  <2>1. PICK j \in 1..N : h.prods[e][j] = None
    BY DEF NoHole
  <2> QED
    BY <1>1, <2>1
<1> HIDE DEF At
<1>3. 0 \in Thrown
  <2>1. At(1) = PollProducer(update, At(0), e, 1)
    <3>1. 0 + 1 <= N /\ 0 + 1 = 1
      BY <1>2
    <3>2. At(0 + 1) = PollProducer(update, At(0), e, 0 + 1)
      BY <1>1, <3>1
    <3> QED
      BY <3>1, <3>2
  <2>2. At(0).graph = h /\ At(0).answer = "same" /\ At(0) = [graph |-> h, answer |-> "same"]
    BY <1>1
  <2>3. PollProducer(update, At(0), e, 1).answer = "throws"
    BY <2>2 DEF PollProducer
  <2>4. At(1).answer = "throws"
    BY <2>1, <2>3, Zenon
  <2>5. At(1).answer = "throws" /\ 0 + 1 = 1
    BY <2>4
  <2> QED
    BY <2>5
<1>4. ASSUME NEW k \in Nat, k \in Thrown PROVE k + 1 \in Thrown
  <2> SUFFICES ASSUME (k + 1) + 1 <= N PROVE At((k + 1) + 1).answer = "throws"
    OBVIOUS
  <2>1. At(k + 1).answer = "throws"
    BY <1>1, <1>4
  <2>2. At((k + 1) + 1) = PollProducer(update, At(k + 1), e, (k + 1) + 1)
    BY <1>1
  <2> QED
    BY <2>1, <2>2 DEF PollProducer
<1>5. Nat \subseteq Thrown
  <2> HIDE DEF Thrown
  <2> QED
    BY <1>3, <1>4, Induction
<1>6. At(N).answer = "throws"
  <2>1. \A k \in Nat : k + 1 <= N => At(k + 1).answer = "throws"
    BY <1>5
  <2> HIDE DEF N
  <2>2. N - 1 \in Nat /\ (N - 1) + 1 = N /\ (N - 1) + 1 <= N
    BY <1>2
  <2> QED
    BY <2>1, <2>2
<1> QED
  BY <1>1, <1>6

\* Nothing that concerns holes happened.
LEMMA HolesStay ==
    ASSUME Holes, \A x \in Effects : g'.prods[x] = g.prods[x] /\ g'.next[x] = g.next[x],
           UNCHANGED <<active, hasRun, destroyed>>
    PROVE  Holes'
<1>1. \A x \in Effects : NoHole(g, x)' <=> NoHole(g, x)
  BY DEF NoHole
<1> QED
  BY <1>1 DEF Holes

\* What happens to computeds leaves the lists of the effects alone.
LEMMA TameEffects ==
    ASSUME NEW h, NEW h2, NEW D, Tame(h, h2, D, {}), D \subseteq Computeds
    PROVE  \A x \in Effects : h2.prods[x] = h.prods[x] /\ h2.next[x] = h.next[x]
<1>1. \A x \in Effects : x \in Consumers \ (D \cup {})
  BY NodeFacts
<1> QED
  BY <1>1 DEF Tame, SameLists

-----------------------------------------------------------------------------
(* One lemma per action.                                                   *)

\* A write keeps the invariant.
LEMMA SetSignalStep ==
    ASSUME IInv, NEW s \in Signals, NEW v \in Values, SetSignal(s, v)
    PROVE  IInv'
<1>1. /\ Proper(g')
      /\ g'.prods = g.prods /\ g'.next = g.next
  <2>1. g' = Written(g, s, v, Notified(g, s))
    BY DEF SetSignal, Written
  <2> QED
    BY <2>1, WriteEffect DEF IInv
<1>2. Holes'
  <2>1. UNCHANGED <<active, hasRun, destroyed>>
    BY DEF SetSignal
  <2> QED
    BY <1>1, <2>1, HolesStay DEF IInv
<1>3. Sets'
  BY DEF SetSignal, IInv, Sets
<1> QED
  BY <1>1, <1>2, <1>3 DEF IInv

\* A read outside of any context keeps the invariant.
LEMMA ReadComputedStep ==
    ASSUME IInv, NEW c \in Computeds, ReadComputed(c)
    PROVE  IInv'
<1>1. Proper(g) /\ g \in Graphs /\ c \in Producers
  BY ProperFacts, NodeFacts DEF IInv
<1>2. Updated(g, g', c)
  BY <1>1, UpdateValueVersionUpdated DEF ReadComputed
<1>3. Proper(g') /\ Tame(g, g', Upto(c), {}) /\ Upto(c) \subseteq Computeds
  BY <1>2 DEF Updated, Upto
<1>4. Holes'
  <2>1. UNCHANGED <<active, hasRun, destroyed>>
    BY DEF ReadComputed
  <2> QED
    BY <1>3, <2>1, HolesStay, TameEffects DEF IInv
<1>5. Sets'
  BY DEF ReadComputed, IInv, Sets
<1> QED
  BY <1>3, <1>4, <1>5 DEF IInv

\* The start of a run keeps the invariant: an effect whose list has a hole throws here.
LEMMA RunEffectStep ==
    ASSUME IInv, NEW e \in Effects, RunEffect(e)
    PROVE  IInv'
<1> DEFINE start == [g EXCEPT !.dirty[e] = FALSE]
           poll == Poll(UpdateValueVersion, start, e)
           base == IF e \in hasRun THEN poll.graph ELSE start
<1>1. /\ Proper(g) /\ e \in Consumers /\ Sets /\ Holes /\ active = None /\ None \notin Effects
      /\ Updates(UpdateValueVersion, e)
  BY NodeFacts, UpdateValueVersionUpdates DEF IInv, RunEffect
<1>2. /\ Proper(start)
      /\ \A x \in Effects : start.prods[x] = g.prods[x] /\ start.next[x] = g.next[x]
  <2>1. Proper(start) /\ Tame(g, start, {e}, {}) /\ SameLists(g, start, e)
    BY <1>1, CleanEffect
  <2> HIDE DEF start
  <2>2. \A x \in Effects \ {e} : SameLists(g, start, x)
    BY <2>1, NodeFacts DEF Tame
  <2> QED
    BY <2>1, <2>2 DEF SameLists
<1>3. \/ /\ e \in hasRun /\ poll.answer = "same"
         /\ g' = poll.graph
         /\ UNCHANGED <<active, hasRun, broken>>
      \/ /\ e \in hasRun /\ poll.answer = "throws"
         /\ g' = poll.graph
         /\ broken' = broken \cup {e}
         /\ UNCHANGED <<active, hasRun>>
      \/ /\ e \notin hasRun \/ poll.answer = "changed"
         /\ g' = [base EXCEPT !.next[e] = 0]
         /\ active' = e
         /\ hasRun' = hasRun \cup {e}
         /\ UNCHANGED broken
  BY DEF RunEffect
<1>4. queue' = queue \ {e} /\ UNCHANGED destroyed
  BY DEF RunEffect
<1>a. poll = Poll(UpdateValueVersion, start, e) /\ base = IF e \in hasRun THEN poll.graph ELSE start
  OBVIOUS
<1> HIDE DEF start, poll, base
<1>5. PollOK(start, poll, e)
  <2>1. /\ \A k \in 0..Len(start.prods[e]) :
              PollOK(start, PollAt(UpdateValueVersion, start, e, k), e)
        /\ Poll(UpdateValueVersion, start, e)
              = PollAt(UpdateValueVersion, start, e, Len(start.prods[e]))
        /\ Len(start.prods[e]) \in Nat
    BY <1>1, <1>2, PollRounds
  <2> QED
    BY <1>a, <2>1
<1>6. /\ Proper(poll.graph)
      /\ \A x \in Effects : poll.graph.prods[x] = g.prods[x] /\ poll.graph.next[x] = g.next[x]
  <2>1. Proper(poll.graph) /\ Tame(start, poll.graph, Deep(e), {}) /\ Deep(e) \subseteq Computeds
    BY <1>5 DEF PollOK, Deep
  <2> QED
    BY <2>1, <1>2, TameEffects
<1>7. Sets'
  BY <1>1, <1>3, <1>4 DEF Sets
<1>8. CASE g' = poll.graph /\ UNCHANGED <<active, hasRun>>
  <2>1. Holes'
    BY <1>1, <1>4, <1>6, <1>8, HolesStay
  <2> QED
    BY <1>6, <1>7, <1>8, <2>1 DEF IInv
<1>9. CASE /\ e \notin hasRun \/ poll.answer = "changed"
           /\ g' = [base EXCEPT !.next[e] = 0]
           /\ active' = e /\ hasRun' = hasRun \cup {e}
  <2>1. NoHole(g, e)
    <3>1. CASE e \notin hasRun
      BY <1>1, <3>1 DEF Holes
    <3>2. CASE poll.answer = "changed"
      <4>1. SUFFICES ASSUME ~NoHole(g, e) PROVE FALSE
        OBVIOUS
      <4>2. start.prods[e][1] = None /\ ~NoHole(start, e)
        BY <1>1, <1>2, <4>1 DEF Holes, NoHole
      <4>3. poll.answer = "throws"
        BY <1>1, <1>2, <1>a, <4>2, HoleThrows
      <4> QED
        BY <3>2, <4>3
    <3> QED
      BY <1>9, <3>1, <3>2
  <2>2. /\ Proper(base)
        /\ \A x \in Effects : base.prods[x] = g.prods[x] /\ base.next[x] = g.next[x]
    BY <1>2, <1>6, <1>a
  <2>3. /\ Proper(g') /\ g'.next[e] = 0 /\ g'.prods = base.prods
        /\ \A x \in Effects \ {e} : g'.next[x] = base.next[x]
    <3>1. Proper(g') /\ g'.next[e] = 0 /\ g'.prods = base.prods /\ SameExceptLists(base, g', e)
      BY <1>1, <1>9, <2>2, ResetEffect
    <3>2. \A x \in Effects \ {e} : g'.next[x] = base.next[x]
      BY <3>1, NodeFacts DEF SameExceptLists
    <3> QED
      BY <3>1, <3>2
  <2>4. Holes'
    <3> SUFFICES ASSUME NEW x \in Effects
                 PROVE  /\ ~NoHole(g', x) =>
                              /\ x \in destroyed /\ x \in hasRun' /\ g'.prods[x][1] = None
                              /\ active' = x => g'.next[x] = Len(g'.prods[x])
                        /\ active' = x => /\ x \in hasRun'
                                          /\ g'.next[x] <= Len(g'.prods[x])
                                               \/ (g'.prods[x] = <<>> /\ x \in destroyed)
      BY <1>4 DEF Holes, NoHole
    <3>1. g'.prods[x] = g.prods[x] /\ (NoHole(g', x) <=> NoHole(g, x))
      BY <2>2, <2>3 DEF NoHole
    <3>2. CASE x = e
      <4>1. Len(g'.prods[e]) \in Nat
        BY <1>1, <2>3, ProperFacts, GraphTypes, LenProperties
      <4> QED
        BY <1>9, <2>1, <2>3, <3>1, <3>2, <4>1
    <3>3. CASE x # e
      BY <1>1, <1>9, <3>1, <3>3 DEF Holes
    <3> QED
      BY <3>2, <3>3
  <2> QED
    BY <1>7, <2>3, <2>4 DEF IInv
<1> QED
  BY <1>3, <1>8, <1>9

\* A read in a body keeps the invariant, also after the effect was destroyed.
LEMMA ReadInBodyStep ==
    ASSUME IInv, NEW n \in Producers, ReadInBody(n)
    PROVE  IInv'
<1> DEFINE e == active
           h == UpdateValueVersion[n][g]
           i == g.next[e] + 1
<1>1. /\ Proper(g) /\ g \in Graphs /\ e \in Effects /\ e \in Consumers /\ e \notin Computeds
      /\ Sets /\ Holes
  BY ProperFacts, NodeFacts DEF IInv, Sets, ReadInBody
<1>2. /\ Proper(h)
      /\ \A x \in Effects : h.prods[x] = g.prods[x] /\ h.next[x] = g.next[x]
  <2>1. Updated(g, h, n)
    BY <1>1, UpdateValueVersionUpdated
  <2> HIDE DEF h
  <2>2. Proper(h) /\ Tame(g, h, Upto(n), {}) /\ Upto(n) \subseteq Computeds
    BY <2>1 DEF Updated, Upto
  <2> QED
    BY <2>2, TameEffects
<1>3. g' = Accessed(h, n, e) /\ UNCHANGED <<active, queue, hasRun, destroyed, broken>>
  BY DEF ReadInBody
<1> HIDE DEF h
<1>4. /\ Len(g.prods[e]) \in Nat /\ g.next[e] \in Nat /\ i \in Nat
      /\ h.next[e] + 1 = i /\ h.prods[e] = g.prods[e]
  <2>1. Len(g.prods[e]) \in Nat /\ g.next[e] \in Nat
    BY <1>1, GraphTypes, LenProperties
  <2> QED
    BY <1>1, <1>2, <2>1
<1>5. i <= Len(g.prods[e]) => NoHole(g, e)
  BY <1>1, <1>4 DEF Holes
<1>6. h.next[e] + 1 <= Len(h.prods[e]) => h.prods[e][h.next[e] + 1] # None
  <2>1. i <= Len(g.prods[e]) => i \in 1..Len(g.prods[e])
    BY <1>4
  <2>2. i <= Len(g.prods[e]) => g.prods[e][i] # None
    BY <1>5, <2>1 DEF NoHole
  <2> QED
    BY <1>4, <2>2
<1>7. Proper(g') /\ SameExceptLists(h, g', e) /\ Recorded(h, g', n, e, h.next[e] + 1)
  BY <1>1, <1>2, <1>3, <1>6, AccessedTame
<1>8. \A x \in Effects \ {e} : g'.prods[x] = g.prods[x] /\ g'.next[x] = g.next[x]
  BY <1>2, <1>7, NodeFacts DEF SameExceptLists
<1>a. i = g.next[e] + 1 /\ e = active
  OBVIOUS
<1> HIDE DEF i, e
<1>9. /\ g'.next[e] = i /\ g'.prods[e][i] = n /\ n # None
      /\ Len(g'.prods[e]) = IF i <= Len(g.prods[e]) THEN Len(g.prods[e]) ELSE i
      /\ \A j \in 1..Len(g'.prods[e]) \ {i} :
            /\ j <= Len(g.prods[e]) => g'.prods[e][j] = g.prods[e][j]
            /\ j > Len(g.prods[e]) => g'.prods[e][j] = None
  BY <1>4, <1>7, NodeFacts DEF Recorded
<1>10. /\ ~NoHole(g', e) =>
             /\ e \in destroyed /\ e \in hasRun /\ g'.prods[e][1] = None
             /\ g'.next[e] = Len(g'.prods[e])
       /\ e \in hasRun /\ g'.next[e] <= Len(g'.prods[e])
  <2>1. e \in hasRun /\ g'.next[e] <= Len(g'.prods[e])
    BY <1>1, <1>4, <1>9, <1>a DEF Holes
  <2>2. ASSUME ~NoHole(g', e)
        PROVE  /\ e \in destroyed /\ g'.prods[e][1] = None /\ g'.next[e] = Len(g'.prods[e])
    <3>1. PICK j \in 1..Len(g'.prods[e]) : g'.prods[e][j] = None
      BY <2>2 DEF NoHole
    <3>2. j # i /\ j \in Nat /\ j >= 1 /\ j \in 1..Len(g'.prods[e]) \ {i}
      BY <1>9, <3>1
    <3>3. CASE ~NoHole(g, e)
      <4>1. /\ e \in destroyed /\ g.prods[e][1] = None /\ g.next[e] = Len(g.prods[e])
        BY <1>1, <1>a, <3>3 DEF Holes
      <4>2. Len(g.prods[e]) >= 1
        <5>1. PICK y \in 1..Len(g.prods[e]) : TRUE
          BY <3>3 DEF NoHole
        <5> QED
          BY <1>4, <5>1
      <4>3. i = Len(g.prods[e]) + 1 /\ Len(g'.prods[e]) = i
        BY <1>4, <1>9, <1>a, <4>1
      <4>4. 1 \in 1..Len(g'.prods[e]) \ {i} /\ 1 <= Len(g.prods[e])
        BY <1>4, <4>2, <4>3
      <4> QED
        BY <1>9, <4>1, <4>3, <4>4
    <3>4. CASE NoHole(g, e)
      <4>1. j > Len(g.prods[e])
        <5>1. SUFFICES ASSUME j <= Len(g.prods[e]) PROVE FALSE
          BY <1>4, <3>2
        <5>2. j \in 1..Len(g.prods[e]) /\ g.prods[e][j] = None
          BY <1>4, <1>9, <3>1, <3>2, <5>1
        <5> QED
          BY <3>4, <5>2 DEF NoHole
      <4>2. ~(i <= Len(g.prods[e])) /\ Len(g'.prods[e]) = i /\ j < i
        BY <1>4, <1>9, <3>1, <3>2, <4>1
      <4>3. ~(g.next[e] <= Len(g.prods[e]))
        BY <1>4, <1>a, <3>2, <4>1, <4>2
      <4>4. g.prods[e] = <<>> /\ e \in destroyed
        BY <1>1, <1>a, <4>3 DEF Holes
      <4>5. Len(g.prods[e]) = 0
        BY <4>4
      <4>6. 1 \in 1..Len(g'.prods[e]) \ {i} /\ 1 > Len(g.prods[e])
        BY <1>4, <3>2, <4>2, <4>5
      <4> QED
        BY <1>9, <4>2, <4>4, <4>6
    <3> QED
      BY <3>3, <3>4
  <2> QED
    BY <2>1, <2>2
<1>11. Holes'
  <2> SUFFICES ASSUME NEW x \in Effects
               PROVE  /\ ~NoHole(g', x) =>
                            /\ x \in destroyed /\ x \in hasRun /\ g'.prods[x][1] = None
                            /\ active = x => g'.next[x] = Len(g'.prods[x])
                      /\ active = x => /\ x \in hasRun
                                       /\ g'.next[x] <= Len(g'.prods[x])
                                            \/ (g'.prods[x] = <<>> /\ x \in destroyed)
    BY <1>3 DEF Holes, NoHole
  <2>1. CASE x = e
    BY <1>10, <2>1
  <2>2. CASE x # e
    <3>1. g'.prods[x] = g.prods[x] /\ (NoHole(g', x) <=> NoHole(g, x)) /\ active # x
      BY <1>8, <1>a, <2>2 DEF NoHole
    <3> QED
      BY <1>1, <3>1 DEF Holes
  <2> QED
    BY <2>1, <2>2
<1>12. Sets'
  BY <1>1, <1>3 DEF Sets
<1> QED
  BY <1>7, <1>11, <1>12 DEF IInv

\* The end of a run keeps the invariant.
LEMMA BodyEndsStep ==
    ASSUME IInv, BodyEnds
    PROVE  IInv'
<1> DEFINE e == active
<1>1. /\ Proper(g) /\ g \in Graphs /\ Sane(g) /\ Valued(g) /\ e \in Effects /\ e \in Consumers
      /\ Sets /\ Holes /\ None \notin Effects
  BY ProperFacts, NodeFacts DEF IInv, Sets, BodyEnds
<1>2. /\ g' = AfterComputation(g, e) /\ active' = None
      /\ UNCHANGED <<queue, hasRun, destroyed, broken>>
  BY DEF BodyEnds
<1>3. Len(g.prods[e]) \in Nat /\ g.next[e] \in Nat
  BY <1>1, GraphTypes, LenProperties
<1>4. \A j \in 1..Len(g.prods[e]) : j > g.next[e] => g.prods[e][j] # None
  <2> SUFFICES ASSUME NEW j \in 1..Len(g.prods[e]), j > g.next[e], g.prods[e][j] = None
               PROVE  FALSE
    OBVIOUS
  <2>1. g.next[e] = Len(g.prods[e])
    BY <1>1 DEF Holes, NoHole
  <2> QED
    BY <1>3, <2>1
<1>5. /\ Sane(g') /\ SameExceptLists(g, g', e) /\ g'.next = g.next
      /\ Len(g'.prods[e]) = Kept(g, e)
      /\ \A j \in 1..Kept(g, e) : g'.prods[e][j] = g.prods[e][j]
  BY <1>1, <1>2, <1>4, AfterComputationEffect
<1>6. Proper(g')
  BY <1>1, <1>2, <1>4, AfterComputationTame
<1> HIDE DEF e
<1>7. Holes'
  <2> SUFFICES ASSUME NEW x \in Effects, ~NoHole(g', x)
               PROVE  x \in destroyed /\ x \in hasRun /\ g'.prods[x][1] = None
    BY <1>1, <1>2 DEF Holes, NoHole
  <2>1. CASE x = e
    <3>1. PICK j \in 1..Kept(g, e) : g'.prods[e][j] = None
      BY <1>5, <2>1 DEF NoHole
    <3>2. Kept(g, e) \in Nat /\ Kept(g, e) <= Len(g.prods[e])
      BY <1>3 DEF Kept
    <3>3. j \in 1..Len(g.prods[e]) /\ g.prods[e][j] = None /\ 1 \in 1..Kept(g, e)
      BY <1>3, <1>5, <3>1, <3>2
    <3>4. ~NoHole(g, e)
      BY <3>3 DEF NoHole
    <3>5. e \in destroyed /\ e \in hasRun /\ g.prods[e][1] = None
      BY <1>1, <3>4 DEF Holes
    <3> QED
      BY <1>5, <2>1, <3>3, <3>5
  <2>2. CASE x # e
    <3>1. g'.prods[x] = g.prods[x]
      BY <1>5, <2>2, NodeFacts DEF SameExceptLists
    <3>2. ~NoHole(g, x)
      BY <3>1 DEF NoHole
    <3> QED
      BY <1>1, <3>1, <3>2 DEF Holes
  <2> QED
    BY <2>1, <2>2
<1>8. Sets'
  BY <1>1, <1>2 DEF Sets
<1> QED
  BY <1>6, <1>7, <1>8 DEF IInv

\* Destroying an effect keeps the invariant.
LEMMA DestroyEffectStep ==
    ASSUME IInv, NEW e \in Effects, DestroyEffect(e)
    PROVE  IInv'
<1>1. /\ Proper(g) /\ Sets /\ Holes /\ NoHole(g, e)
  BY DEF IInv, DestroyEffect, Holes
<1>2. /\ destroyed' = destroyed \cup {e} /\ UNCHANGED <<active, queue, hasRun, broken>>
  BY DEF DestroyEffect
<1>3. /\ Proper(g') /\ SameExceptLists(g, g', e) /\ g'.next = g.next /\ g'.prods[e] = <<>>
  BY <1>1, DestroyEffectEffect DEF DestroyEffect
<1>4. Holes'
  <2> SUFFICES ASSUME NEW x \in Effects
               PROVE  /\ ~NoHole(g', x) =>
                            /\ x \in destroyed' /\ x \in hasRun /\ g'.prods[x][1] = None
                            /\ active = x => g'.next[x] = Len(g'.prods[x])
                      /\ active = x => /\ x \in hasRun
                                       /\ g'.next[x] <= Len(g'.prods[x])
                                            \/ (g'.prods[x] = <<>> /\ x \in destroyed')
    BY <1>2 DEF Holes, NoHole
  <2>1. CASE x = e
    <3>1. NoHole(g', e)
      <4>1. 1..Len(<<>>) = {}
        OBVIOUS
      <4> QED
        BY <1>3, <4>1 DEF NoHole
    <3> QED
      BY <1>1, <1>2, <1>3, <2>1, <3>1 DEF Holes
  <2>2. CASE x # e
    <3>1. g'.prods[x] = g.prods[x] /\ g'.next[x] = g.next[x] /\ (NoHole(g', x) <=> NoHole(g, x))
      BY <1>3, <2>2, NodeFacts DEF SameExceptLists, NoHole
    <3> QED
      BY <1>1, <1>2, <3>1 DEF Holes
  <2> QED
    BY <2>1, <2>2
<1>5. Sets'
  BY <1>1, <1>2 DEF Sets
<1> QED
  BY <1>3, <1>4, <1>5 DEF IInv

-----------------------------------------------------------------------------
(* Theorems.                                                               *)

\* Every state of the graph satisfies the inductive invariant.
THEOREM IInvInvariant == Spec => []IInv
<1>1. ASSUME IInv, [Next]_vars PROVE IInv'
  <2>1. CASE Next
    <3>1. CASE \E s \in Signals, v \in Values : SetSignal(s, v)
      BY <1>1, <3>1, SetSignalStep
    <3>2. CASE \E c \in Computeds : ReadComputed(c)
      BY <1>1, <3>2, ReadComputedStep
    <3>3. CASE \E e \in Effects : RunEffect(e)
      BY <1>1, <3>3, RunEffectStep
    <3>4. CASE \E e \in Effects : DestroyEffect(e)
      BY <1>1, <3>4, DestroyEffectStep
    <3>5. CASE \E n \in Producers : ReadInBody(n)
      BY <1>1, <3>5, ReadInBodyStep
    <3>6. CASE BodyEnds
      BY <1>1, <3>6, BodyEndsStep
    <3> QED
      BY <2>1, <3>1, <3>2, <3>3, <3>4, <3>5, <3>6 DEF Next
  <2>2. CASE UNCHANGED vars
    BY <1>1, <2>2 DEF vars, IInv, Sets, Holes, NoHole
  <2> QED
    BY <1>1, <2>1, <2>2
<1> QED
  BY <1>1, InitIInv, PTL DEF Spec

\* The graph keeps its shape: the arrays of a node stay parallel, and every signal has
\* a value, whatever producerAccessed, consumerAfterComputation and consumerDestroy did.
THEOREM TypeCorrect == Spec => []TypeOK
<1>1. ASSUME IInv PROVE TypeOK
  BY <1>1, ProperFacts DEF IInv, Sets, TypeOK, Shaped, Wired, Valued
<1> QED
  BY <1>1, IInvInvariant, PTL

\* liveConsumerIndexOfThis and producerIndexOfThis point at each other in every link,
\* and exactly the live consumers are linked, whatever was swapped in a removal.
THEOREM LinksPointAtEachOther == Spec => []LinksMatch
<1>1. ASSUME IInv PROVE LinksMatch
  <2>1. g \in Graphs /\ Matched(g) /\ Settled(g, {})
    BY <1>1, ProperFacts DEF IInv, Wired
  <2>2. /\ \A n \in Producers : DOMAIN g.live[n] = 1..Len(g.live[n])
        /\ \A c \in Consumers : /\ DOMAIN g.prods[c] = 1..Len(g.prods[c])
                               /\ g.prods[c] \in Seq(Producers \cup {None})
    BY <2>1, GraphTypes, LenProperties
  <2>3. \A n \in Producers : \A k \in DOMAIN g.live[n] :
           LET c == g.live[n][k]
               i == g.liveIdx[n][k]
           IN  /\ IsLive(g, c)
               /\ i \in DOMAIN g.prods[c] /\ g.prods[c][i] = n /\ g.indexOf[c][i] = k
    <3> SUFFICES ASSUME NEW n \in Producers, NEW k \in DOMAIN g.live[n]
                 PROVE  LET c == g.live[n][k]
                            i == g.liveIdx[n][k]
                        IN  /\ IsLive(g, c)
                            /\ i \in DOMAIN g.prods[c] /\ g.prods[c][i] = n /\ g.indexOf[c][i] = k
      OBVIOUS
    <3> DEFINE c == g.live[n][k]
               i == g.liveIdx[n][k]
    <3>1. c \in Consumers
      BY <2>1, <2>2, GraphTypes, ElementOfSeq
    <3>2. i \in 1..Len(g.prods[c]) /\ g.prods[c][i] = n /\ g.indexOf[c][i] = k
      <4>1. k \in 1..Len(g.live[n])
        BY <2>2
      <4>2. Matched(g)
        BY <2>1
      <4> QED
        BY <4>1, <4>2 DEF Matched
    <3>3. DOMAIN g.prods[c] = 1..Len(g.prods[c])
      BY <2>2, <3>1
    <3>4. k \in 1..Len(g.live[n]) /\ g.live[n][k] = c /\ g.liveIdx[n][k] = i
      BY <2>2
    <3> HIDE DEF c, i
    <3>5. Linked(g, c, i)
      BY <3>2, <3>4 DEF Linked
    <3>6. n # None
      BY NodeFacts
    <3>7. IsLive(g, c)
      BY <2>1, <3>1, <3>2, <3>5, <3>6 DEF Settled
    <3> QED
      BY <3>2, <3>3, <3>7 DEF c, i
  <2>4. ASSUME NEW c \in Consumers, IsLive(g, c), NEW i \in DOMAIN g.prods[c],
               g.prods[c][i] # None
        PROVE  LET n == g.prods[c][i]
                   k == g.indexOf[c][i]
               IN  k \in DOMAIN g.live[n] /\ g.live[n][k] = c /\ g.liveIdx[n][k] = i
    <3>1. Linked(g, c, i)
      BY <2>1, <2>2, <2>4 DEF Settled
    <3> QED
      BY <2>2, <3>1 DEF Linked
  <2> QED
    BY <2>3, <2>4 DEF LinksMatch
<1> QED
  BY <1>1, IInvInvariant, PTL

\* What consumerPollProducersForChange relies on: a version that did not move stands
\* for a value that did not change.
THEOREM VersionsStandForValues == Spec => []VersionMeansValue
<1>1. ASSUME IInv PROVE VersionMeansValue
  <2>1. g \in Graphs /\ Versioned(g)
    BY <1>1, ProperFacts DEF IInv
  <2>2. \A c \in Consumers : DOMAIN g.prods[c] = 1..Len(g.prods[c])
    BY <2>1, GraphTypes, LenProperties
  <2> QED
    BY <2>1, <2>2 DEF Versioned, VersionMeansValue
<1> QED
  BY <1>1, IInvInvariant, PTL
=============================================================================
