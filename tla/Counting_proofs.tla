----------------------------- MODULE Counting_proofs -----------------------------
(***************************************************************************)
(* Proofs about what is counted and what is made of it: Accumulator, for   *)
(* every set of sequence numbers, every gap limit and every capacity of    *)
(* the duplicate map; KernelDrops, the counter beside it, for any number   *)
(* of drops; and Aggregator, the timeline of those counts and the verdicts *)
(* drawn from it, for every table a sweep may end with, every step of the  *)
(* counters and every number of seconds, snapshots and sweeps.             *)
(***************************************************************************)
EXTENDS Accumulator, KernelDrops, Aggregator, AccumulatorOps_proofs,
        FiniteSetTheorems, TLAPS

(***************************************************************************)
(* The horizon splits into delivered and missing sequence numbers.  With n *)
(* the number delivered, the counters are kept between two bounds that     *)
(* every arrival moves together:  lost + n <= expectedSeq <= lost + recv.  *)
(***************************************************************************)
Delivered == Cardinality(delivered)

HorizonInv ==
  /\ delivered \subseteq 0 .. acc.expectedSeq - 1
  /\ acc.expectedSeq > 0 => acc.expectedSeq - 1 \in delivered
  /\ acc.seen \subseteq delivered
  /\ Delivered <= acc.recv
  /\ acc.lost + Delivered <= acc.expectedSeq
  /\ acc.expectedSeq <= acc.lost + acc.recv

\* The map differs from what was delivered only once it is full, and until
\* then every packet counted as received was a fresh one.
MapInv ==
  /\ delivered # acc.seen => Cardinality(acc.seen) >= MaxSeenEntries
  /\ AllRemembered => acc.recv = Delivered

IInv == TypeOK /\ HorizonInv /\ MapInv

-----------------------------------------------------------------------------
(* What one arrival can be: refused, a repeat, forward or late. *)
Refuses(s) == acc' = acc /\ delivered' = delivered

Repeats(s) ==
  /\ s \in acc.seen
  /\ acc' = [acc EXCEPT !.duplicates = @ + 1]
  /\ delivered' = delivered \cup {s}

Advances(s) ==
  /\ s >= acc.expectedSeq
  /\ s \notin acc.seen
  /\ acc' = ForwardArrival(acc, s)
  /\ delivered' = delivered \cup {s}

FillsHole(s) ==
  /\ s < acc.expectedSeq
  /\ s \notin acc.seen
  /\ acc' = LateArrival(acc, s)
  /\ delivered' = delivered \cup {s}

LEMMA ArrivalCases ==
  ASSUME TypeOK, NEW s \in Seqs, Observe(s)
  PROVE  s \in Nat /\ (Refuses(s) \/ Repeats(s) \/ Advances(s) \/ FillsHole(s))
<1>1. s \in Nat
  BY SeqsAssumption
<1>2. acc.expectedSeq \in Nat
  BY CountersAreNumbers DEF TypeOK
<1>3. CASE Refused(acc, s)
  BY <1>1, <1>3 DEF Observe, Observed, Refuses
<1>4. CASE ~Refused(acc, s) /\ s \in acc.seen
  BY <1>1, <1>4 DEF Observe, Observed, Repeats
<1>5. CASE ~Refused(acc, s) /\ s \notin acc.seen /\ s >= acc.expectedSeq
  BY <1>1, <1>5 DEF Observe, Observed, Advances
<1>6. CASE ~Refused(acc, s) /\ s \notin acc.seen /\ ~(s >= acc.expectedSeq)
  BY <1>1, <1>2, <1>6 DEF Observe, Observed, FillsHole
<1> QED BY <1>3, <1>4, <1>5, <1>6

\* The history grows by at most the arriving packet, and stays countable.
LEMMA DeliveredGrows ==
  ASSUME IInv, NEW s \in Nat
  PROVE  /\ IsFiniteSet(delivered) /\ Delivered \in Nat
         /\ Cardinality(delivered \cup {s}) =
              IF s \in delivered THEN Delivered ELSE Delivered + 1
         /\ IsFiniteSet(acc.seen) /\ Cardinality(acc.seen) \in Nat
         /\ Cardinality(acc.seen \cup {s}) =
              IF s \in acc.seen THEN Cardinality(acc.seen)
                                ELSE Cardinality(acc.seen) + 1
<1>1. acc.expectedSeq \in Nat /\ delivered \in SUBSET (0 .. acc.expectedSeq - 1)
  BY CountersAreNumbers DEF IInv, TypeOK, HorizonInv
<1>2. IsFiniteSet(delivered) /\ Cardinality(delivered) \in Nat
  BY <1>1, HorizonSplit
<1>3. IsFiniteSet(acc.seen)
  BY <1>2, FS_Subset DEF IInv, HorizonInv
<1>4. Cardinality(acc.seen) \in Nat
  BY <1>3, FS_CardinalityType
<1>5. Cardinality(delivered \cup {s}) =
        IF s \in delivered THEN Cardinality(delivered)
                           ELSE Cardinality(delivered) + 1
  BY <1>2, FS_AddElement
<1>6. Cardinality(acc.seen \cup {s}) =
        IF s \in acc.seen THEN Cardinality(acc.seen)
                          ELSE Cardinality(acc.seen) + 1
  BY <1>3, FS_AddElement
<1> QED BY <1>2, <1>3, <1>4, <1>5, <1>6 DEF Delivered

-----------------------------------------------------------------------------
LEMMA InitIInv == Init => IInv
<1> SUFFICES ASSUME Init PROVE IInv
  OBVIOUS
<1>1. TypeOK
  BY DEF Init, TypeOK, NewAccumulator, NoBursts, AccumulatorType, BurstBuckets
<1>2. Delivered = 0 /\ Cardinality(acc.seen) = 0
  BY FS_EmptySet DEF Init, Delivered, NewAccumulator
<1>3. HorizonInv
  BY <1>2 DEF Init, HorizonInv, NewAccumulator
<1>4. MapInv
  BY <1>2 DEF Init, MapInv, AllRemembered, NewAccumulator
<1> QED BY <1>1, <1>3, <1>4 DEF IInv

\* Every kind of arrival keeps the counters counters.
LEMMA TypeStep ==
  ASSUME TypeOK, NEW s \in Seqs, Observe(s)
  PROVE  TypeOK'
<1>1. acc \in AccumulatorType /\ s \in Nat
  BY SeqsAssumption DEF TypeOK
<1>2. delivered' \subseteq Seqs
  BY DEF TypeOK, Observe
<1>3. acc' \in AccumulatorType
  <2>1. CASE Refuses(s)
    BY <1>1, <2>1 DEF Refuses
  <2>2. CASE Repeats(s)
    BY <1>1, <2>2, DuplicateEffect DEF Repeats
  <2>3. CASE Advances(s)
    BY <1>1, <2>3, ForwardArrivalType DEF Advances
  <2>4. CASE FillsHole(s)
    BY <1>1, <2>4, LateArrivalType DEF FillsHole
  <2> QED BY <2>1, <2>2, <2>3, <2>4, ArrivalCases
<1> QED BY <1>2, <1>3 DEF TypeOK

\* A repeat changes neither the history nor the counters the bounds relate.
LEMMA RepeatStep ==
  ASSUME IInv, NEW s \in Nat, Repeats(s)
  PROVE  HorizonInv' /\ MapInv'
<1>1. acc \in AccumulatorType
  BY DEF IInv, TypeOK
<1>2. delivered' = delivered
  BY DEF IInv, HorizonInv, Repeats
<1>3. /\ acc'.recv = acc.recv /\ acc'.lost = acc.lost
      /\ acc'.expectedSeq = acc.expectedSeq /\ acc'.seen = acc.seen
  BY <1>1, DuplicateEffect DEF Repeats
<1> QED
  BY <1>2, <1>3 DEF IInv, HorizonInv, MapInv, AllRemembered, Delivered

\* A packet at or past the expected one is new; the holes it jumps over enter
\* lost, and both bounds move by the same amount.
LEMMA AdvanceStep ==
  ASSUME IInv, NEW s \in Nat, Advances(s)
  PROVE  HorizonInv'
<1>1. acc \in AccumulatorType
  BY DEF IInv, TypeOK
<1>2. /\ acc.recv \in Nat /\ acc.lost \in Nat /\ acc.expectedSeq \in Nat
  BY <1>1, CountersAreNumbers
<1>3. /\ acc'.recv = acc.recv + 1
      /\ acc'.lost = acc.lost + (s - acc.expectedSeq)
      /\ acc'.expectedSeq = s + 1
      /\ acc'.seen = Remember(acc.seen, s)
  BY <1>1, ForwardArrivalEffect DEF Advances
<1>4. s \notin delivered
  BY <1>2 DEF IInv, HorizonInv, Advances
<1>5. Delivered' = Delivered + 1 /\ Delivered \in Nat
  BY <1>4, DeliveredGrows DEF Delivered, Advances
<1>6. /\ delivered' \subseteq 0 .. acc'.expectedSeq - 1
      /\ acc'.expectedSeq > 0 => acc'.expectedSeq - 1 \in delivered'
  <2>1. delivered' \subseteq 0 .. acc'.expectedSeq - 1
    <3>1. delivered \subseteq 0 .. acc.expectedSeq - 1
      BY DEF IInv, HorizonInv
    <3>2. acc'.expectedSeq - 1 = s /\ s >= acc.expectedSeq
      BY <1>2, <1>3 DEF Advances
    <3>3. delivered' = delivered \cup {s}
      BY DEF Advances
    <3> QED BY <1>2, <3>1, <3>2, <3>3
  <2>2. acc'.expectedSeq - 1 \in delivered'
    BY <1>2, <1>3 DEF Advances
  <2> QED BY <2>1, <2>2
<1>7. acc'.seen \subseteq delivered'
  BY <1>3 DEF IInv, HorizonInv, Advances, Remember
<1>8. /\ Delivered' <= acc'.recv
      /\ acc'.lost + Delivered' <= acc'.expectedSeq
      /\ acc'.expectedSeq <= acc'.lost + acc'.recv
  BY <1>2, <1>3, <1>5 DEF IInv, HorizonInv, Advances
<1> QED BY <1>6, <1>7, <1>8 DEF HorizonInv

\* A late packet fills a hole, unless the map has forgotten it: then the
\* number received is one too high, which the upper bound allows.
LEMMA FillStep ==
  ASSUME IInv, NEW s \in Nat, FillsHole(s)
  PROVE  HorizonInv'
<1>1. acc \in AccumulatorType
  BY DEF IInv, TypeOK
<1>2. /\ acc.recv \in Nat /\ acc.lost \in Nat /\ acc.expectedSeq \in Nat
  BY <1>1, CountersAreNumbers
<1>3. /\ acc'.recv = acc.recv + 1
      /\ acc'.lost = IF acc.lost > 0 THEN acc.lost - 1 ELSE acc.lost
      /\ acc'.expectedSeq = acc.expectedSeq
      /\ acc'.seen = Remember(acc.seen, s)
  BY <1>1, LateArrivalEffect DEF FillsHole
<1>4. /\ delivered' \subseteq 0 .. acc'.expectedSeq - 1
      /\ acc'.expectedSeq > 0 => acc'.expectedSeq - 1 \in delivered'
  BY <1>2, <1>3 DEF IInv, HorizonInv, FillsHole
<1>5. acc'.seen \subseteq delivered'
  BY <1>3 DEF IInv, HorizonInv, FillsHole, Remember
<1>6. /\ Delivered' = IF s \in delivered THEN Delivered ELSE Delivered + 1
      /\ Delivered \in Nat
  BY DeliveredGrows DEF Delivered, FillsHole
<1>7. Delivered' <= acc.expectedSeq
  BY <1>2, <1>3, <1>4, HorizonSplit DEF Delivered
<1>8. /\ Delivered' <= acc'.recv
      /\ acc'.lost + Delivered' <= acc'.expectedSeq
      /\ acc'.expectedSeq <= acc'.lost + acc'.recv
  BY <1>2, <1>3, <1>6, <1>7 DEF IInv, HorizonInv
<1> QED BY <1>4, <1>5, <1>8 DEF HorizonInv

\* Once the map is full it never equals the history again, whatever arrives.
LEMMA MapStep ==
  ASSUME IInv, NEW s \in Nat, Advances(s) \/ FillsHole(s)
  PROVE  MapInv'
<1>1. acc \in AccumulatorType
  BY DEF IInv, TypeOK
<1>2. /\ acc'.recv = acc.recv + 1
      /\ acc'.seen = Remember(acc.seen, s)
      /\ s \notin acc.seen
      /\ delivered' = delivered \cup {s}
  BY <1>1, ForwardArrivalEffect, LateArrivalEffect DEF Advances, FillsHole
<1>3. /\ Delivered \in Nat /\ Cardinality(acc.seen) \in Nat
      /\ Cardinality(acc.seen \cup {s}) = Cardinality(acc.seen) + 1
      /\ s \notin delivered => Delivered' = Delivered + 1
  BY <1>2, DeliveredGrows DEF Delivered
<1>4. acc.seen \subseteq delivered
  BY DEF IInv, HorizonInv
<1>5. CASE Cardinality(acc.seen) < MaxSeenEntries
  <2>1. delivered = acc.seen
    BY <1>3, <1>5, AccumulatorAssumption DEF IInv, MapInv
  <2>2. acc'.seen = delivered' /\ acc'.recv = Delivered'
    BY <1>2, <1>3, <1>5, <2>1 DEF IInv, MapInv, AllRemembered, Remember
  <2> QED BY <2>2 DEF MapInv, AllRemembered
<1>6. CASE Cardinality(acc.seen) >= MaxSeenEntries
  <2>1. acc'.seen = acc.seen
    BY <1>2, <1>3, <1>6, AccumulatorAssumption DEF Remember
  <2>2. delivered' # acc'.seen
    BY <1>2, <2>1
  <2> QED BY <1>6, <2>1, <2>2 DEF MapInv, AllRemembered
<1> QED BY <1>3, <1>5, <1>6, AccumulatorAssumption

LEMMA StepIInv == IInv /\ [Next]_vars => IInv'
<1> SUFFICES ASSUME IInv, [Next]_vars PROVE IInv'
  OBVIOUS
<1>1. CASE UNCHANGED vars
  BY <1>1 DEF vars, IInv, TypeOK, HorizonInv, MapInv, AllRemembered, Delivered
<1>2. ASSUME NEW s \in Seqs, Observe(s) PROVE IInv'
  <2>1. s \in Nat /\ (Refuses(s) \/ Repeats(s) \/ Advances(s) \/ FillsHole(s))
    BY <1>2, ArrivalCases DEF IInv
  <2>2. TypeOK'
    BY <1>2, TypeStep DEF IInv
  <2>3. HorizonInv' /\ MapInv'
    <3>1. CASE Refuses(s)
      BY <3>1 DEF Refuses, IInv, HorizonInv, MapInv, AllRemembered, Delivered
    <3>2. CASE Repeats(s)
      BY <2>1, <3>2, RepeatStep
    <3>3. CASE Advances(s)
      BY <2>1, <3>3, AdvanceStep, MapStep
    <3>4. CASE FillsHole(s)
      BY <2>1, <3>4, FillStep, MapStep
    <3> QED BY <2>1, <3>1, <3>2, <3>3, <3>4
  <2> QED BY <2>2, <2>3 DEF IInv
<1> QED BY <1>1, <1>2 DEF Next

LEMMA Invariance == Spec => []IInv
BY InitIInv, StepIInv, PTL DEF Spec

-----------------------------------------------------------------------------
(* The counters stay natural numbers: lost is never decremented below zero *)
(* (Observe's check before the roll-back).                                 *)
THEOREM TypeCorrect == Spec => []TypeOK
<1>1. IInv => TypeOK
  BY DEF IInv
<1> QED BY <1>1, Invariance, PTL

\* The number of holes, from the horizon and the history.
LEMMA HolesCounted ==
  ASSUME IInv
  PROVE  /\ Cardinality(Missing(acc, delivered)) = acc.expectedSeq - Delivered
         /\ Delivered \in Nat /\ acc.expectedSeq \in Nat
         /\ acc.recv \in Nat /\ acc.lost \in Nat
<1>1. acc.expectedSeq \in Nat /\ acc.recv \in Nat /\ acc.lost \in Nat
  BY CountersAreNumbers DEF IInv, TypeOK
<1>2. delivered \in SUBSET (0 .. acc.expectedSeq - 1)
  BY DEF IInv, HorizonInv
<1> QED BY <1>1, <1>2, HorizonSplit DEF Missing, Delivered

(* Reported loss never exceeds the holes in what was delivered, and falls  *)
(* short of them by at most the repeats a full duplicate map let through.  *)
THEOREM LossBracket == Spec => []LossIsBracketed
<1>1. IInv => LossIsBracketed
  BY HolesCounted DEF IInv, HorizonInv, LossIsBracketed, Miscounted, Delivered
<1> QED BY <1>1, Invariance, PTL

(* Until the map fills, received plus lost is the horizon and lost is the  *)
(* number of holes, for every order of arrival.                            *)
THEOREM LedgerBalance == Spec => []LedgerBalances
<1>1. IInv => LedgerBalances
  BY HolesCounted
     DEF IInv, HorizonInv, MapInv, LedgerBalances, AllRemembered, Delivered
<1> QED BY <1>1, Invariance, PTL

-----------------------------------------------------------------------------
(* The burst histogram. *)

BurstInv ==
  /\ BurstFloor(acc.bursts) <= acc.lost + acc.outOfOrder
  /\ AllRemembered => acc.lost + acc.outOfOrder <= BurstCeiling(acc.bursts)
  /\ LongestIsIn(acc.bursts)

\* Room in the map now means there was room all along.
LEMMA RememberedBackward ==
  ASSUME IInv, NEW s \in Seqs, Observe(s), AllRemembered'
  PROVE  AllRemembered
<1>1. acc \in AccumulatorType /\ s \in Nat
  BY SeqsAssumption DEF IInv, TypeOK
<1>2. CASE Refuses(s)
  BY <1>2 DEF Refuses, AllRemembered
<1>3. CASE Repeats(s)
  BY <1>1, <1>3, DuplicateEffect DEF Repeats, AllRemembered, IInv, HorizonInv
<1>4. CASE Advances(s) \/ FillsHole(s)
  <2>1. /\ acc'.seen = Remember(acc.seen, s)
        /\ s \notin acc.seen
        /\ delivered' = delivered \cup {s}
    BY <1>1, <1>4, ForwardArrivalEffect, LateArrivalEffect
       DEF Advances, FillsHole
  <2>2. acc.seen \subseteq delivered
    BY DEF IInv, HorizonInv
  <2>3. CASE Cardinality(acc.seen) < MaxSeenEntries
    <3>1. Cardinality(acc.seen) \in Nat
      BY <1>1, DeliveredGrows
    <3>2. ~(Cardinality(acc.seen) >= MaxSeenEntries)
      BY <2>3, <3>1, AccumulatorAssumption
    <3> QED BY <3>2 DEF IInv, MapInv, AllRemembered
  <2>4. CASE ~(Cardinality(acc.seen) < MaxSeenEntries)
    BY <2>1, <2>4 DEF AllRemembered, Remember
  <2> QED BY <2>3, <2>4
<1> QED BY <1>2, <1>3, <1>4, ArrivalCases DEF IInv

LEMMA BurstInit == Init => BurstInv
<1> SUFFICES ASSUME Init PROVE BurstInv
  OBVIOUS
<1>1. acc.bursts = NoBursts /\ acc.lost = 0 /\ acc.outOfOrder = 0
  BY DEF Init, NewAccumulator
<1>2. NoBursts \in BurstBuckets
  BY DEF NoBursts, BurstBuckets
<1>3. BurstFloor(NoBursts) = 0 /\ BurstCeiling(NoBursts) = 0
  BY DEF NoBursts, BurstFloor, BurstCeiling
<1>4. LongestIsIn(NoBursts)
  BY <1>2, LongestMeans DEF NoBursts
<1> QED BY <1>1, <1>3, <1>4 DEF BurstInv

LEMMA BurstStep ==
  ASSUME IInv, BurstInv, NEW s \in Seqs, Observe(s)
  PROVE  BurstInv'
<1>1. acc \in AccumulatorType /\ s \in Nat
  BY SeqsAssumption DEF IInv, TypeOK
<1>2. /\ acc.lost \in Nat /\ acc.outOfOrder \in Nat /\ acc.expectedSeq \in Nat
      /\ acc.recv \in Nat /\ acc.bursts \in BurstBuckets
  BY <1>1, CountersAreNumbers
<1>3. CASE Refuses(s)
  BY <1>3 DEF Refuses, BurstInv, AllRemembered
<1>4. CASE Repeats(s)
  BY <1>1, <1>4, DuplicateEffect, RememberedBackward DEF Repeats, BurstInv
<1>5. CASE Advances(s)
  <2>1. PICK n \in Nat : n = s - acc.expectedSeq
    BY <1>1, <1>2, <1>5 DEF Advances
  <2>2. /\ acc'.lost = acc.lost + n /\ acc'.outOfOrder = acc.outOfOrder
        /\ acc'.bursts = RecordBurst(acc.bursts, n)
    BY <1>1, <1>5, <2>1, ForwardArrivalEffect DEF Advances
  <2>3. BurstFloor(acc'.bursts) <= acc'.lost + acc'.outOfOrder
    <3>1. /\ BurstFloor(acc.bursts) \in Nat
          /\ BurstFloor(acc'.bursts) <= BurstFloor(acc.bursts) + n
      BY <1>2, <2>2, RecordBurstFloor
    <3>2. BurstFloor(acc'.bursts) \in Nat
      BY <1>2, <2>2, RecordBurstType, RecordBurstFloor
    <3> QED BY <1>2, <2>2, <3>1, <3>2 DEF BurstInv
  <2>4. AllRemembered' =>
          acc'.lost + acc'.outOfOrder <= BurstCeiling(acc'.bursts)
    <3> SUFFICES ASSUME AllRemembered'
                 PROVE  acc'.lost + acc'.outOfOrder <= BurstCeiling(acc'.bursts)
      OBVIOUS
    <3>1. acc.lost + acc.outOfOrder <= BurstCeiling(acc.bursts)
      BY RememberedBackward DEF BurstInv
    <3>2. BurstCeiling(acc.bursts) + n <= BurstCeiling(acc'.bursts)
      BY <1>2, <2>2, RecordBurstCeiling
    <3>3. BurstCeiling(acc.bursts) \in Nat /\ BurstCeiling(acc'.bursts) \in Nat
      BY <1>2, <2>2, RecordBurstType, BurstCeilingType
    <3> QED BY <1>2, <2>2, <3>1, <3>2, <3>3
  <2>5. LongestIsIn(acc'.bursts)
    BY <1>2, <2>2, RecordBurstLongest DEF BurstInv
  <2> QED BY <2>3, <2>4, <2>5 DEF BurstInv
<1>6. CASE FillsHole(s)
  <2>1. /\ acc'.lost = IF acc.lost > 0 THEN acc.lost - 1 ELSE acc.lost
        /\ acc'.outOfOrder = acc.outOfOrder + 1
        /\ acc'.bursts = acc.bursts
    BY <1>1, <1>6, LateArrivalEffect DEF FillsHole
  <2>2. BurstFloor(acc'.bursts) <= acc'.lost + acc'.outOfOrder
    <3>1. BurstFloor(acc.bursts) \in Nat
      BY <1>2, RecordBurstFloor
    <3> QED BY <1>2, <2>1, <3>1 DEF BurstInv
  <2>3. AllRemembered' =>
          acc'.lost + acc'.outOfOrder <= BurstCeiling(acc'.bursts)
    <3> SUFFICES ASSUME AllRemembered'
                 PROVE  acc'.lost + acc'.outOfOrder <= BurstCeiling(acc'.bursts)
      OBVIOUS
    <3>1. AllRemembered
      BY RememberedBackward
    \* A hole that is really open was counted, so lost is not zero.
    <3>2. Delivered + 1 <= acc.expectedSeq /\ Delivered \in Nat
      <4>1. s \notin delivered
        BY <1>6, <3>1 DEF FillsHole, AllRemembered
      <4>2. (delivered \cup {s}) \in SUBSET (0 .. acc.expectedSeq - 1)
        <5>1. s \in 0 .. acc.expectedSeq - 1
          BY <1>1, <1>2, <1>6 DEF FillsHole
        <5>2. delivered \subseteq 0 .. acc.expectedSeq - 1
          BY DEF IInv, HorizonInv
        <5> QED BY <5>1, <5>2
      <4>3. Cardinality(delivered \cup {s}) <= acc.expectedSeq
        BY <1>2, <4>2, HorizonSplit
      <4>4. Cardinality(delivered \cup {s}) = Delivered + 1 /\ Delivered \in Nat
        BY <1>1, <4>1, DeliveredGrows
      <4> QED BY <4>3, <4>4
    <3>3. acc.lost > 0
      BY <1>2, <3>1, <3>2 DEF IInv, HorizonInv, MapInv
    <3> QED BY <1>2, <2>1, <3>1, <3>3 DEF BurstInv
  <2> QED BY <2>1, <2>2, <2>3 DEF BurstInv
<1> QED BY <1>3, <1>4, <1>5, <1>6, ArrivalCases DEF IInv

(* The burst histogram and the loss counter never drift apart: what is     *)
(* lost or was recovered out of order is what the recorded bursts can      *)
(* stand for, and the longest burst is in the bucket of its length.        *)
THEOREM BurstsMatch == Spec => []BurstsMatchLosses
<1>1. IInv /\ BurstInv /\ [Next]_vars => BurstInv'
  <2>1. ASSUME BurstInv, UNCHANGED vars PROVE BurstInv'
    BY <2>1 DEF BurstInv, AllRemembered, vars
  <2>2. ASSUME IInv, BurstInv, NEW s \in Seqs, Observe(s) PROVE BurstInv'
    BY <2>2, BurstStep
  <2> QED BY <2>1, <2>2 DEF Next
<1>2. BurstInv => BurstsMatchLosses
  BY DEF BurstInv, BurstsMatchLosses, LongestIsIn
<1> QED BY BurstInit, <1>1, <1>2, Invariance, PTL DEF Spec

-----------------------------------------------------------------------------
(* Refinement of PacketLedger, for every capacity of the duplicate map. *)

\* While the distinct arrivals fit the map, it has them all.
LEMMA MapHoldsThemAll ==
  ASSUME IInv, Delivered <= MaxSeenEntries
  PROVE  AllRemembered
<1>1. /\ acc.expectedSeq \in Nat /\ acc.seen \subseteq delivered
      /\ delivered \in SUBSET (0 .. acc.expectedSeq - 1)
  BY CountersAreNumbers DEF IInv, TypeOK, HorizonInv
<1>2. IsFiniteSet(delivered) /\ Delivered \in Nat
  BY <1>1, HorizonSplit DEF Delivered
<1>3. /\ IsFiniteSet(acc.seen) /\ Cardinality(acc.seen) <= Delivered
      /\ Cardinality(acc.seen) = Delivered => acc.seen = delivered
  BY <1>1, <1>2, FS_Subset DEF Delivered
<1>4. Cardinality(acc.seen) \in Nat
  BY <1>3, FS_CardinalityType
<1>5. ASSUME delivered # acc.seen PROVE FALSE
  <2>1. Cardinality(acc.seen) >= MaxSeenEntries
    BY <1>5 DEF IInv, MapInv
  <2> QED BY <1>2, <1>3, <1>4, <1>5, <2>1, AccumulatorAssumption
<1> QED BY <1>5 DEF AllRemembered

\* The accumulator's horizon is the ledger's: one past the highest arrival.
LEMMA HorizonIsLedgers ==
  ASSUME IInv
  PROVE  Ledger!Horizon(delivered) = acc.expectedSeq
<1>1. /\ acc.expectedSeq \in Nat
      /\ delivered \subseteq 0 .. acc.expectedSeq - 1
      /\ acc.expectedSeq > 0 => acc.expectedSeq - 1 \in delivered
  BY CountersAreNumbers DEF IInv, TypeOK, HorizonInv
<1>2. CASE delivered = {}
  BY <1>1, <1>2 DEF Ledger!Horizon
<1>3. CASE delivered # {}
  <2>1. acc.expectedSeq - 1 \in delivered
    <3>1. PICK x \in delivered : x \in 0 .. acc.expectedSeq - 1
      BY <1>1, <1>3
    <3> QED BY <1>1, <3>1
  <2>2. \A x \in delivered : x <= acc.expectedSeq - 1
    BY <1>1
  <2>3. \A m \in delivered :
          (\A x \in delivered : x <= m) => m = acc.expectedSeq - 1
    BY <1>1, <2>1
  <2>4. (CHOOSE m \in delivered : \A x \in delivered : x <= m)
          = acc.expectedSeq - 1
    BY <2>1, <2>2, <2>3
  <2>5. Ledger!Horizon(delivered) = 1 + (acc.expectedSeq - 1)
    BY <1>3, <2>4, Zenon DEF Ledger!Horizon
  <2> QED BY <1>1, <2>5
<1> QED BY <1>2, <1>3

\* Both modules take Cardinality from FiniteSets.
LEMMA SameCardinality == \A S : Ledger!Cardinality(S) = Cardinality(S)
BY DEF Ledger!Cardinality, Cardinality

Reported == [recv |-> acc.recv, duplicates |-> acc.duplicates, lost |-> acc.lost]

ReportSound ==
  Ledger!Sound(delivered, acc.recv + acc.duplicates, Reported)

LEMMA ReportIsSound ==
  ASSUME IInv
  PROVE  ReportSound
<1>1. /\ Reported.recv = acc.recv /\ Reported.duplicates = acc.duplicates
      /\ Reported.lost = acc.lost
  BY DEF Reported
<1>2. /\ Cardinality(Missing(acc, delivered)) = acc.expectedSeq - Delivered
      /\ Delivered \in Nat /\ acc.expectedSeq \in Nat
      /\ acc.recv \in Nat /\ acc.lost \in Nat
  BY HolesCounted
<1>3. Ledger!Holes(delivered) = acc.expectedSeq - Delivered
  BY <1>2, HorizonIsLedgers, SameCardinality DEF Ledger!Holes, Missing
<1>4. Ledger!Unnoticed(delivered, Reported) = acc.recv - Delivered
  BY <1>1, SameCardinality DEF Ledger!Unnoticed, Delivered
<1>5. Delivered <= MaxSeenEntries => acc.recv = Delivered
  BY MapHoldsThemAll DEF IInv, MapInv
<1>6. Ledger!Cardinality(delivered) = Delivered
  BY SameCardinality DEF Delivered
<1>7. /\ Delivered <= acc.recv
      /\ acc.lost + Delivered <= acc.expectedSeq
      /\ acc.expectedSeq <= acc.lost + acc.recv
  BY DEF IInv, HorizonInv
<1>8. /\ acc.recv - Delivered >= 0
      /\ Delivered <= MaxSeenEntries => acc.recv - Delivered = 0
      /\ acc.lost <= acc.expectedSeq - Delivered
      /\ acc.expectedSeq - Delivered <= acc.lost + (acc.recv - Delivered)
  BY <1>2, <1>5, <1>7
<1> QED BY <1>1, <1>3, <1>4, <1>6, <1>8 DEF ReportSound, Ledger!Sound

LEMMA LedgerStep ==
  ASSUME IInv, IInv', [Next]_vars
  PROVE  [Ledger!LedgerNext]_(Ledger!ledgerVars)
<1>1. CASE UNCHANGED vars
  BY <1>1 DEF vars, Ledger!ledgerVars
<1>2. ASSUME NEW s \in Seqs, Observe(s)
      PROVE  [Ledger!LedgerNext]_(Ledger!ledgerVars)
  <2>1. /\ acc \in AccumulatorType /\ s \in Nat
        /\ acc.recv \in Nat /\ acc.duplicates \in Nat
    BY SeqsAssumption, CountersAreNumbers DEF IInv, TypeOK
  <2>2. ReportSound'
    <3>1. IInv => ReportSound
      BY ReportIsSound
    <3> QED BY <3>1, ReportIsSound, PTL
  <2>3. CASE Refuses(s)
    BY <2>3 DEF Refuses, Ledger!ledgerVars
  <2>4. CASE ~Refused(acc, s)
    <3>1. delivered' = delivered \cup {s}
      BY <1>2, <2>4 DEF Observe
    <3>2. acc'.recv + acc'.duplicates = acc.recv + acc.duplicates + 1
      BY <1>2, <2>1, <2>4, ObservedEffect DEF Observe
    <3>3. Ledger!Arrive(s)
      BY <2>2, <3>1, <3>2 DEF Ledger!Arrive, ReportSound, Reported
    <3> QED BY <3>3 DEF Ledger!LedgerNext
  <2> QED BY <1>2, <2>3, <2>4 DEF Observe, Observed, Refuses
<1> QED BY <1>1, <1>2 DEF Next

(* The accumulator implements the abstract ledger: what it reports is what *)
(* the set of arrived packets says, exactly while the duplicate map has    *)
(* room and within the forgotten repeats after that.                       *)
THEOREM LedgerRefinement == Spec => ImplementsLedger
<1>1. Init => Ledger!LedgerInit
  BY DEF Init, NewAccumulator, Ledger!LedgerInit
<1>2. IInv /\ IInv' /\ [Next]_vars => [Ledger!LedgerNext]_(Ledger!ledgerVars)
  BY LedgerStep
<1> QED
  BY <1>1, <1>2, Invariance, PTL
     DEF Spec, ImplementsLedger, Ledger!LedgerSpec

-----------------------------------------------------------------------------
(* Kernel drops.                                                           *)

(***************************************************************************)
(* While a baseline is latched, the counter has moved away from it by no   *)
(* more than what was dropped since, and by exactly that without a reset.  *)
(***************************************************************************)
KernelInv ==
  /\ KernelTypeOK
  /\ drops <= total
  /\ baseline # Unset =>
       /\ host - baseline <= total - before
       /\ ~resets => /\ host - baseline = total - before
                     /\ drops = sampled - before

LEMMA KernelInitial == KernelInit => KernelInv
<1> SUFFICES ASSUME KernelInit PROVE KernelInv
  OBVIOUS
<1>1. host \in Nat /\ drops = 0 /\ total = 0 /\ baseline = Unset
  BY DEF KernelInit
<1>2. resets \in BOOLEAN /\ run \in {"running", "returned"}
  BY DEF KernelInit
<1>3. before \in 0 .. total /\ sampled \in 0 .. total
  BY <1>1 DEF KernelInit
<1> QED BY <1>1, <1>2, <1>3 DEF KernelInv, KernelTypeOK

\* What a sample does: nothing, or it re-anchors and reports.
LEMMA SampleStep ==
  ASSUME KernelInv, Sample, UNCHANGED <<host, total, resets>>,
         run' \in {"running", "returned"}
  PROVE  KernelInv'
<1>1. /\ host \in Nat /\ total \in Nat /\ before \in 0 .. total
      /\ sampled \in 0 .. total /\ drops \in Nat
      /\ baseline \in Nat \/ baseline = Unset
  BY DEF KernelInv, KernelTypeOK
<1>2. CASE UNCHANGED <<baseline, drops, before, sampled>>
  BY <1>2 DEF KernelInv, KernelTypeOK
<1>3. CASE /\ baseline' = Anchor(baseline, host)
           /\ drops' = Report(baseline, host)
           /\ before' = IF baseline = Unset THEN total ELSE before
           /\ sampled' = total
  <2>1. CASE baseline = Unset
    <3>1. baseline' = host /\ drops' = 0 /\ before' = total /\ sampled' = total
      BY <1>1, <1>3, <2>1 DEF Anchor, Report
    <3> QED BY <1>1, <3>1 DEF KernelInv, KernelTypeOK
  <2>2. CASE baseline # Unset /\ host < baseline
    <3>1. baseline' = host /\ drops' = 0 /\ before' = before /\ sampled' = total
      BY <1>1, <1>3, <2>2 DEF Anchor, Report
    <3>2. resets
      BY <1>1, <2>2 DEF KernelInv
    <3> QED BY <1>1, <2>2, <3>1, <3>2 DEF KernelInv, KernelTypeOK
  <2>3. CASE baseline # Unset /\ ~(host < baseline)
    <3>1. /\ baseline' = baseline /\ drops' = host - baseline
          /\ before' = before /\ sampled' = total
      BY <1>1, <1>3, <2>3 DEF Anchor, Report
    <3> QED BY <1>1, <2>3, <3>1 DEF KernelInv, KernelTypeOK
  <2> QED BY <2>1, <2>2, <2>3
<1> QED BY <1>2, <1>3 DEF Sample

LEMMA KernelStep == KernelInv /\ [KernelNext]_kernelVars => KernelInv'
<1> SUFFICES ASSUME KernelInv, [KernelNext]_kernelVars PROVE KernelInv'
  OBVIOUS
<1>1. /\ host \in Nat /\ total \in Nat /\ before \in 0 .. total
      /\ sampled \in 0 .. total /\ drops \in Nat
      /\ baseline \in Nat \/ baseline = Unset
  BY DEF KernelInv, KernelTypeOK
<1>2. CASE KernelDrop
  BY <1>1, <1>2 DEF KernelDrop, KernelInv, KernelTypeOK
<1>3. CASE CounterReset
  BY <1>1, <1>3 DEF CounterReset, KernelInv, KernelTypeOK
<1>4. CASE Tick
  BY <1>4, SampleStep DEF Tick
<1>5. CASE Return
  BY <1>5, SampleStep DEF Return
<1>6. CASE UNCHANGED kernelVars
  BY <1>6 DEF kernelVars, KernelInv, KernelTypeOK
<1> QED BY <1>2, <1>3, <1>4, <1>5, <1>6 DEF KernelNext

LEMMA KernelInvariance == KernelSpec => []KernelInv
BY KernelInitial, KernelStep, PTL DEF KernelSpec

(* Reported kernel drops never exceed what the kernel dropped during the   *)
(* test (the clamp that re-anchors the baseline on a reset).               *)
THEOREM NoOverstatement == KernelSpec => []NeverOverstates
<1>1. KernelInv => NeverOverstates
  BY DEF KernelInv, NeverOverstates
<1> QED BY <1>1, KernelInvariance, PTL

(* Without a reset, the only drops missing from the report are those that  *)
(* came before the first sample that worked.                               *)
THEOREM OnlyEarlyMissing == KernelSpec => []OnlyEarlyDropsMissing
<1>1. KernelInv => OnlyEarlyDropsMissing
  BY DEF KernelInv, OnlyEarlyDropsMissing
<1> QED BY <1>1, KernelInvariance, PTL

-----------------------------------------------------------------------------
(* Sums of functions, and lists with one more element. *)

\* A nonempty family of subsets of a finite set has one that is minimal: this
\* is the induction the other lemmas of this section rest on.
LEMMA MinimalSubset ==
  ASSUME NEW S, IsFiniteSet(S), NEW F, F \subseteq SUBSET S, F # {}
  PROVE  \E U \in F : \A x \in U : U \ {x} \notin F
<1>1. F \subseteq FiniteSubsetsOf(S)
  BY FS_FiniteSubsetsOfFinite
<1>2. IsWellFoundedOn(StrictSubsetOrdering(S), FiniteSubsetsOf(S))
  BY FS_StrictSubsetOrderingWellFounded
<1>3. PICK U \in F : \A y \in F : ~ (<<y, U>> \in StrictSubsetOrdering(S))
  BY <1>1, <1>2, WFMin
<1>4. ASSUME NEW x \in U, U \ {x} \in F  PROVE FALSE
  <2>1. <<U \ {x}, U>> \in StrictSubsetOrdering(S)
    BY <1>4 DEF StrictSubsetOrdering
  <2> QED BY <1>3, <1>4, <2>1
<1> QED BY <1>4

\* Induction over the subsets of a finite set.
LEMMA SetInduction ==
  ASSUME NEW S, IsFiniteSet(S), NEW T, {} \in T,
         \A U \in T : U \subseteq S => \A x \in S \ U : U \cup {x} \in T
  PROVE  S \in T
<1> SUFFICES ASSUME S \notin T  PROVE FALSE
  OBVIOUS
<1>1. S \in (SUBSET S) \ T
  OBVIOUS
<1>2. PICK U \in (SUBSET S) \ T : \A x \in U : U \ {x} \notin (SUBSET S) \ T
  BY <1>1, MinimalSubset
<1>3. PICK x : x \in U
  BY <1>2
<1>4. U \ {x} \in T /\ U \ {x} \subseteq S /\ x \in S \ (U \ {x})
  BY <1>2, <1>3
<1>5. (U \ {x}) \cup {x} = U
  BY <1>3
<1> QED BY <1>2, <1>4, <1>5

\* Induction over the naturals, of a set instead of a predicate.
LEMMA CountInduction ==
  ASSUME NEW T, 0 \in T, \A n \in Nat : n \in T => n + 1 \in T
  PROVE  \A n \in Nat : n \in T
<1> SUFFICES ASSUME NEW n \in Nat, n \notin T  PROVE FALSE
  OBVIOUS
<1> DEFINE F == {1 .. m : m \in (0 .. n) \ T}
<1>1. F # {} /\ F \subseteq SUBSET (1 .. n)
  <2>1. 1 .. n \in F
    OBVIOUS
  <2>2. ASSUME NEW u \in F  PROVE u \in SUBSET (1 .. n)
    OBVIOUS
  <2> QED BY <2>1, <2>2
<1>2. IsFiniteSet(1 .. n)
  BY FS_Interval
<1> HIDE DEF F
<1>3. PICK U \in F : \A x \in U : U \ {x} \notin F
  BY <1>1, <1>2, MinimalSubset
<1>4. PICK m \in (0 .. n) \ T : U = 1 .. m
  BY DEF F
<1>5. m \in Nat /\ m # 0 /\ m \in U
  BY <1>4
<1>6. m - 1 \in (0 .. n) \ T
  <2>1. m - 1 \in Nat /\ (m - 1) + 1 = m /\ m - 1 \in 0 .. n
    BY <1>4, <1>5
  <2> QED BY <1>4, <2>1
<1>7. 1 .. (m - 1) = U \ {m}
  BY <1>4, <1>5
<1>8. 1 .. (m - 1) \in F
  BY <1>6 DEF F
<1> QED BY <1>3, <1>5, <1>7, <1>8

-----------------------------------------------------------------------------
(* Sums. *)

\* What g says of each set of f's arguments is the sum of f over it.
IsSum(f, g) ==
  /\ g \in [SUBSET DOMAIN f -> Int]
  /\ g[{}] = 0
  /\ \A s \in SUBSET DOMAIN f : \A x \in s : g[s] = f[x] + g[s \ {x}]

\* There is a function that says so.
LEMMA SumExists ==
  ASSUME NEW D, IsFiniteSet(D), NEW f \in [D -> Int]
  PROVE  \E g : IsSum(f, g)
<1> DEFINE P(U, g) == /\ g \in [SUBSET U -> Int]
                      /\ g[{}] = 0
                      /\ \A s \in SUBSET U : \A x \in s : g[s] = f[x] + g[s \ {x}]
           T == {U \in SUBSET D : \E g : P(U, g)}
<1>1. {} \in T
  <2>1. P({}, [s \in SUBSET {} |-> 0])
    OBVIOUS
  <2> QED BY <2>1
<1>2. ASSUME NEW U \in T, NEW a \in D \ U  PROVE U \cup {a} \in T
  <2>1. PICK g : P(U, g)
    OBVIOUS
  <2> DEFINE W == U \cup {a}
             h == [s \in SUBSET W |-> IF a \in s THEN f[a] + g[s \ {a}] ELSE g[s]]
  <2>2. h \in [SUBSET W -> Int] /\ h[{}] = 0
    <3>1. ASSUME NEW s \in SUBSET W
          PROVE  (IF a \in s THEN f[a] + g[s \ {a}] ELSE g[s]) \in Int
      <4>1. CASE a \in s
        <5>1. s \ {a} \in SUBSET U
          OBVIOUS
        <5>2. g[s \ {a}] \in Int /\ f[a] \in Int
          BY <2>1, <5>1
        <5> QED BY <4>1, <5>2
      <4>2. CASE a \notin s
        <5>1. s \in SUBSET U
          BY <4>2
        <5> QED BY <2>1, <4>2, <5>1
      <4> QED BY <4>1, <4>2
    <3> QED BY <2>1, <3>1
  <2>3. ASSUME NEW s \in SUBSET W, NEW x \in s  PROVE h[s] = f[x] + h[s \ {x}]
    <3>1. s \ {x} \in SUBSET W /\ s \ {a} \in SUBSET U
      OBVIOUS
    <3>2. CASE a \notin s
      <4>1. s \in SUBSET U /\ a \notin s \ {x}
        BY <3>2
      <4>2. h[s] = g[s] /\ h[s \ {x}] = g[s \ {x}]
        BY <3>1, <3>2, <4>1
      <4> QED BY <2>1, <4>1, <4>2
    <3>3. CASE a \in s /\ x = a
      <4>1. h[s] = f[a] + g[s \ {a}] /\ h[s \ {x}] = g[s \ {x}]
        BY <3>1, <3>3
      <4> QED BY <3>3, <4>1
    <3>4. CASE a \in s /\ x # a
      <4>1. h[s] = f[a] + g[s \ {a}]
        BY <3>4
      <4>2. h[s \ {x}] = f[a] + g[(s \ {x}) \ {a}]
        BY <3>1, <3>4
      <4>3. g[s \ {a}] = f[x] + g[(s \ {a}) \ {x}]
        BY <2>1, <3>1, <3>4
      <4>4. (s \ {a}) \ {x} = (s \ {x}) \ {a}
        OBVIOUS
      <4>5. (s \ {a}) \ {x} \in SUBSET U
        BY <3>1
      <4>6. g[(s \ {a}) \ {x}] \in Int /\ f[a] \in Int /\ f[x] \in Int
        BY <2>1, <4>5, <3>4
      <4> HIDE DEF h, P
      <4>7. \A u, v, w \in Int : u + (v + w) = v + (u + w)
        OBVIOUS
      <4>8. f[a] + (f[x] + g[(s \ {a}) \ {x}]) = f[x] + (f[a] + g[(s \ {a}) \ {x}])
        BY <4>6, <4>7
      <4> QED BY <4>1, <4>2, <4>3, <4>4, <4>8, Zenon
    <3> QED BY <3>2, <3>3, <3>4
  <2>4. P(W, h)
    BY <2>2, <2>3
  <2>5. W \in SUBSET D
    OBVIOUS
  <2> HIDE DEF P, h
  <2> QED BY <2>4, <2>5
<1> HIDE DEF T
<1>3. D \in T
  BY <1>1, <1>2, SetInduction
<1>4. PICK g : P(D, g)
  BY <1>3 DEF T
<1> QED BY <1>4 DEF IsSum

\* The recursive function SumFunction stands for.
Slices(f, g) ==
  g = [s \in SUBSET DOMAIN f |->
         IF s = {} THEN 0
         ELSE f[CHOOSE x \in s : TRUE] + g[s \ {CHOOSE x \in s : TRUE}]]

LEMMA SumUnfold ==
  ASSUME NEW f  PROVE SumFunction(f) = (CHOOSE g : Slices(f, g))[DOMAIN f]
BY Zenon DEF Slices, SumFunction, SumFunctionOnSet, FoldFunctionOnSet, MapThenFoldSet

\* Whatever says so says what SumFunction does.
LEMMA SumIs ==
  ASSUME NEW D, IsFiniteSet(D), NEW f \in [D -> Int], NEW g, IsSum(f, g)
  PROVE  SumFunction(f) = g[D]
<1> DEFINE c(s) == CHOOSE x \in s : TRUE
           h == CHOOSE k : Slices(f, k)
<1>1. ASSUME NEW s \in SUBSET D, s # {}  PROVE c(s) \in s
  BY <1>1
<1>2. Slices(f, g)
  <2>1. DOMAIN f = D /\ g = [s \in SUBSET D |-> g[s]]
    BY DEF IsSum
  <2>2. ASSUME NEW s \in SUBSET D
        PROVE  g[s] = IF s = {} THEN 0 ELSE f[c(s)] + g[s \ {c(s)}]
    <3>1. CASE s = {}
      BY <3>1 DEF IsSum
    <3>2. CASE s # {}
      <4>1. c(s) \in s
        BY <1>1, <3>2
      <4> HIDE DEF c
      <4> QED BY <3>2, <4>1, <2>1 DEF IsSum
    <3> QED BY <3>1, <3>2
  <2>3. g = [s \in SUBSET D |-> IF s = {} THEN 0 ELSE f[c(s)] + g[s \ {c(s)}]]
    <3> HIDE DEF c
    <3> QED BY <2>1, <2>2, Zenon
  <2> QED BY <2>1, <2>3 DEF Slices
<1>3. Slices(f, h)
  BY <1>2
<1> HIDE DEF h
<1>4. ASSUME NEW s \in SUBSET D, s # {}
      PROVE  h[s] = f[c(s)] + h[s \ {c(s)}] /\ g[s] = f[c(s)] + g[s \ {c(s)}]
  <2>1. DOMAIN f = D
    OBVIOUS
  <2> QED BY <1>2, <1>3, <1>4, <2>1, Zenon DEF Slices
<1>5. h[{}] = 0 /\ g[{}] = 0
  <2>1. {} \in SUBSET DOMAIN f
    OBVIOUS
  <2> QED BY <1>3, <2>1, Zenon DEF Slices, IsSum
<1> DEFINE F == {s \in SUBSET D : h[s] # g[s]}
<1>6. F = {}
  <2> SUFFICES ASSUME F # {}  PROVE FALSE
    OBVIOUS
  <2>1. PICK s \in F : \A x \in s : s \ {x} \notin F
    BY MinimalSubset
  <2>2. s \in SUBSET D /\ s # {}
    BY <1>5
  <2>3. c(s) \in s
    BY <1>1, <2>2
  <2> HIDE DEF c
  <2>4. s \ {c(s)} \in SUBSET D /\ s \ {c(s)} \notin F
    BY <2>1, <2>2, <2>3
  <2>5. h[s \ {c(s)}] = g[s \ {c(s)}]
    BY <2>4
  <2> QED BY <1>4, <2>1, <2>2, <2>5
<1>7. h[D] = g[D]
  BY <1>6
<1>8. SumFunction(f) = h[D]
  BY SumUnfold DEF h
<1> QED BY <1>7, <1>8

\* A sum of integers is one; the empty sum is zero.
LEMMA SumInt ==
  ASSUME NEW D, IsFiniteSet(D), NEW f \in [D -> Int]
  PROVE  SumFunction(f) \in Int /\ (D = {} => SumFunction(f) = 0)
<1>1. PICK g : IsSum(f, g)
  BY SumExists
<1>2. SumFunction(f) = g[D]
  BY <1>1, SumIs
<1> QED BY <1>1, <1>2 DEF IsSum

\* e is f without its argument x.
Without(f, x, e) ==
  /\ IsFiniteSet(DOMAIN f) /\ f \in [DOMAIN f -> Int] /\ x \in DOMAIN f
  /\ e \in [DOMAIN f \ {x} -> Int]
  /\ \A y \in DOMAIN f \ {x} : e[y] = f[y]

\* One argument's value and the sum over the others.
LEMMA SumRemove ==
  ASSUME NEW f, NEW x, NEW e, Without(f, x, e)
  PROVE  SumFunction(f) = f[x] + SumFunction(e)
<1> DEFINE D == DOMAIN f
<1>0. /\ IsFiniteSet(D) /\ f \in [D -> Int] /\ x \in D
      /\ e \in [D \ {x} -> Int] /\ \A y \in D \ {x} : e[y] = f[y]
  BY DEF Without
<1>1. PICK g : IsSum(f, g)
  BY <1>0, SumExists
<1> DEFINE E == D \ {x}
           h == [s \in SUBSET E |-> g[s]]
<1>2. IsFiniteSet(E)
  BY <1>0, FS_RemoveElement
<1>3. IsSum(e, h)
  <2>1. h \in [SUBSET E -> Int] /\ h[{}] = 0
    BY <1>0, <1>1 DEF IsSum
  <2>2. ASSUME NEW s \in SUBSET E, NEW y \in s
        PROVE  h[s] = e[y] + h[s \ {y}]
    <3>1. s \in SUBSET D /\ s \ {y} \in SUBSET E
      OBVIOUS
    <3> QED BY <1>0, <1>1, <3>1 DEF IsSum
  <2>3. DOMAIN e = E
    BY <1>0
  <2> HIDE DEF E, h
  <2> QED BY <2>1, <2>2, <2>3 DEF IsSum
<1>4. SumFunction(f) = g[D]
  BY <1>0, <1>1, SumIs
<1>5. SumFunction(e) = h[E]
  <2>1. e \in [E -> Int]
    BY <1>0
  <2> HIDE DEF E, h
  <2> QED BY <1>2, <1>3, <2>1, SumIs
<1>6. g[D] = f[x] + g[E] /\ h[E] = g[E]
  BY <1>0, <1>1 DEF IsSum
<1> QED BY <1>4, <1>5, <1>6

\* Nothing is more than the sum when nothing is negative.
LEMMA SumNat ==
  ASSUME NEW D, IsFiniteSet(D), NEW f \in [D -> Nat]
  PROVE  SumFunction(f) \in Nat /\ \A x \in D : f[x] <= SumFunction(f)
<1>1. f \in [D -> Int]
  OBVIOUS
<1>2. PICK g : IsSum(f, g)
  BY <1>1, SumExists
<1>3. SumFunction(f) = g[D]
  BY <1>1, <1>2, SumIs
<1> DEFINE T == {U \in SUBSET D : g[U] \in Nat /\ \A x \in U : f[x] <= g[U]}
<1>4. {} \in T
  BY <1>2 DEF IsSum
<1>5. ASSUME NEW U \in T, NEW a \in D \ U  PROVE U \cup {a} \in T
  <2>1. (U \cup {a}) \ {a} = U /\ a \in U \cup {a} /\ U \cup {a} \in SUBSET D
    OBVIOUS
  <2>2. g[U \cup {a}] = f[a] + g[U]
    BY <1>2, <2>1 DEF IsSum
  <2>3. f[a] \in Nat /\ g[U] \in Nat
    OBVIOUS
  <2>4. ASSUME NEW x \in U \cup {a}  PROVE f[x] <= f[a] + g[U]
    <3>1. f[x] \in Nat
      OBVIOUS
    <3>2. CASE x = a
      BY <2>3, <3>2
    <3>3. CASE x \in U
      <4>1. f[x] <= g[U]
        BY <3>3
      <4> HIDE DEF T
      <4> QED BY <2>3, <3>1, <4>1
    <3> QED BY <3>2, <3>3
  <2> HIDE DEF T
  <2>5. g[U \cup {a}] \in Nat
    BY <2>2, <2>3
  <2> QED BY <2>1, <2>2, <2>4, <2>5 DEF T
<1> HIDE DEF T
<1>6. D \in T
  BY <1>4, <1>5, SetInduction
<1> QED BY <1>3, <1>6 DEF T

\* One argument gets another value.
LEMMA SumUpdate ==
  ASSUME NEW D, IsFiniteSet(D), NEW f \in [D -> Int], NEW g \in [D -> Int],
         NEW x \in D, \A y \in D \ {x} : g[y] = f[y]
  PROVE  SumFunction(g) = SumFunction(f) + g[x] - f[x]
<1> DEFINE e == [y \in D \ {x} |-> f[y]]
<1>1. e \in [D \ {x} -> Int]
  OBVIOUS
<1>2. SumFunction(f) = f[x] + SumFunction(e)
  <2>1. Without(f, x, e)
    BY <1>1 DEF Without
  <2> QED BY <2>1, SumRemove
<1>3. SumFunction(g) = g[x] + SumFunction(e)
  <2>1. Without(g, x, e)
    BY <1>1 DEF Without
  <2> QED BY <2>1, SumRemove
<1> HIDE DEF e
<1>4. SumFunction(e) \in Int
  BY <1>1, FS_RemoveElement, SumInt
<1>5. f[x] \in Int /\ g[x] \in Int
  OBVIOUS
<1> QED BY <1>2, <1>3, <1>4, <1>5

\* h names the arguments of e as f does.
Renames(h, e, f) ==
  /\ IsFiniteSet(DOMAIN e) /\ IsFiniteSet(DOMAIN f)
  /\ e \in [DOMAIN e -> Int] /\ f \in [DOMAIN f -> Int]
  /\ h \in [DOMAIN e -> DOMAIN f]
  /\ \A x, y \in DOMAIN e : h[x] = h[y] => x = y
  /\ \A z \in DOMAIN f : \E x \in DOMAIN e : h[x] = z
  /\ \A x \in DOMAIN e : e[x] = f[h[x]]

\* The names of the arguments do not matter to the sum.
LEMMA SumRenamed ==
  ASSUME NEW h, NEW e, NEW f, Renames(h, e, f)
  PROVE  SumFunction(e) = SumFunction(f)
<1> DEFINE D == DOMAIN e
           E == DOMAIN f
<1>0. /\ IsFiniteSet(D) /\ IsFiniteSet(E)
      /\ e \in [D -> Int] /\ f \in [E -> Int] /\ h \in [D -> E]
      /\ \A x, y \in D : h[x] = h[y] => x = y
      /\ \A z \in E : \E x \in D : h[x] = z
      /\ \A x \in D : e[x] = f[h[x]]
  BY DEF Renames
<1> HIDE DEF D, E
<1> USE <1>0
<1>1. PICK g : IsSum(f, g)
  BY SumExists
<1> DEFINE im(s) == {h[x] : x \in s}
           k == [s \in SUBSET D |-> g[im(s)]]
<1>2. ASSUME NEW s \in SUBSET D  PROVE im(s) \in SUBSET E
  OBVIOUS
<1>3. k \in [SUBSET D -> Int] /\ k[{}] = 0
  <2>1. ASSUME NEW s \in SUBSET D  PROVE g[im(s)] \in Int
    BY <1>1, <1>2 DEF IsSum
  <2>2. im({}) = {}
    OBVIOUS
  <2>3. k[{}] = g[im({})]
    OBVIOUS
  <2> HIDE DEF im
  <2>4. k \in [SUBSET D -> Int]
    BY <2>1
  <2> HIDE DEF k
  <2>5. g[{}] = 0
    BY <1>1 DEF IsSum
  <2> QED BY <2>2, <2>3, <2>4, <2>5
<1>4. ASSUME NEW s \in SUBSET D, NEW x \in s  PROVE k[s] = e[x] + k[s \ {x}]
  <2>1. im(s \ {x}) = im(s) \ {h[x]}
    OBVIOUS
  <2>2. h[x] \in im(s)
    OBVIOUS
  <2>3. s \ {x} \in SUBSET D /\ x \in D
    OBVIOUS
  <2>4. k[s] = g[im(s)] /\ k[s \ {x}] = g[im(s \ {x})]
    BY <2>3
  <2>5. im(s) \in SUBSET E
    BY <1>2
  <2> HIDE DEF im, k
  <2>6. g[im(s)] = f[h[x]] + g[im(s) \ {h[x]}]
    BY <1>1, <2>2, <2>5 DEF IsSum
  <2> QED BY <2>1, <2>3, <2>4, <2>6
<1>5. IsSum(e, k)
  <2>1. DOMAIN e = D
    BY DEF D
  <2> HIDE DEF k
  <2> QED BY <1>3, <1>4, <2>1 DEF IsSum
<1>6. k[D] = g[E]
  <2>1. im(D) = E
    OBVIOUS
  <2>2. k[D] = g[im(D)]
    OBVIOUS
  <2> HIDE DEF im, k
  <2> QED BY <2>1, <2>2
<1> HIDE DEF k
<1>7. SumFunction(e) = k[D]
  BY <1>5, SumIs
<1>8. SumFunction(f) = g[E]
  BY <1>1, SumIs
<1> QED BY <1>6, <1>7, <1>8

\* e is the list f with a zero at place p.
Inserted(n, p, f, e) ==
  /\ n \in Nat /\ p \in 1 .. n + 1
  /\ f \in [1 .. n -> Int] /\ e \in [1 .. n + 1 -> Int]
  /\ e[p] = 0
  /\ \A i \in 1 .. p - 1 : e[i] = f[i]
  /\ \A i \in p + 1 .. n + 1 : e[i] = f[i - 1]

\* Nor does a zero put into the list.
LEMMA SumInserted ==
  ASSUME NEW n, NEW p, NEW f, NEW e, Inserted(n, p, f, e)
  PROVE  SumFunction(e) = SumFunction(f)
<1>0. /\ n \in Nat /\ p \in 1 .. n + 1
      /\ f \in [1 .. n -> Int] /\ e \in [1 .. n + 1 -> Int]
      /\ e[p] = 0
      /\ \A i \in 1 .. p - 1 : e[i] = f[i]
      /\ \A i \in p + 1 .. n + 1 : e[i] = f[i - 1]
  BY DEF Inserted
<1> USE <1>0
<1> DEFINE D == (1 .. n + 1) \ {p}
           d == [i \in D |-> e[i]]
           h == [i \in D |-> IF i < p THEN i ELSE i - 1]
<1>1. IsFiniteSet(1 .. n + 1) /\ IsFiniteSet(1 .. n) /\ IsFiniteSet(D)
  <2>1. n + 1 \in Int /\ IsFiniteSet(1 .. n)
    BY FS_Interval
  <2>2. IsFiniteSet(1 .. n + 1)
    BY <2>1, FS_Interval
  <2> QED BY <2>1, <2>2, FS_RemoveElement
<1>2. SumFunction(e) = e[p] + SumFunction(d)
  <2>1. Without(e, p, d)
    BY <1>1 DEF Without
  <2> HIDE DEF d, h
  <2> QED BY <2>1, SumRemove
<1>3. d \in [D -> Int]
  OBVIOUS
<1>4. h \in [D -> 1 .. n]
  OBVIOUS
<1>5. ASSUME NEW x \in D, NEW y \in D, h[x] = h[y]  PROVE x = y
  <2>1. /\ x \in Nat /\ y \in Nat /\ p \in Nat /\ x # p /\ y # p
        /\ h[x] = (IF x < p THEN x ELSE x - 1)
        /\ h[y] = (IF y < p THEN y ELSE y - 1)
    OBVIOUS
  <2>2. (IF x < p THEN x ELSE x - 1) = (IF y < p THEN y ELSE y - 1)
    BY <1>5, <2>1
  <2> HIDE DEF D, h, d
  <2>3. CASE x < p /\ y < p
    BY <2>2, <2>3
  <2>4. CASE x < p /\ ~ (y < p)
    <3>1. x = y - 1 /\ y > p
      BY <2>1, <2>2, <2>4
    <3> QED BY <2>1, <2>4, <3>1
  <2>5. CASE ~ (x < p) /\ y < p
    <3>1. y = x - 1 /\ x > p
      BY <2>1, <2>2, <2>5
    <3> QED BY <2>1, <2>5, <3>1
  <2>6. CASE ~ (x < p) /\ ~ (y < p)
    <3>1. x - 1 = y - 1
      BY <2>2, <2>6
    <3> QED BY <2>1, <3>1
  <2> QED BY <2>3, <2>4, <2>5, <2>6
<1>6. ASSUME NEW z \in 1 .. n  PROVE \E x \in D : h[x] = z
  <2>1. CASE z < p
    <3>1. z \in D /\ h[z] = z
      BY <2>1
    <3> QED BY <3>1
  <2>2. CASE ~ (z < p)
    <3>1. z + 1 \in D /\ h[z + 1] = z
      BY <2>2
    <3> QED BY <3>1
  <2> QED BY <2>1, <2>2
<1>7. ASSUME NEW x \in D  PROVE d[x] = f[h[x]]
  OBVIOUS
<1>8. DOMAIN d = D /\ DOMAIN f = 1 .. n
  OBVIOUS
<1> HIDE DEF D, d, h
<1>9. SumFunction(d) = SumFunction(f)
  <2>1. Renames(h, d, f)
    BY <1>1, <1>3, <1>4, <1>5, <1>6, <1>7, <1>8 DEF Renames
  <2> QED BY <2>1, SumRenamed
<1>10. SumFunction(f) \in Int
  BY <1>1, SumInt
<1> QED BY <1>2, <1>9, <1>10

\* What remains of a after b is taken, never less than nothing.
Above(a, b) == IF a > b THEN a - b ELSE 0

\* Taking m back from the end of a list of counts takes m from their sum, or
\* all there is, and leaves no count negative.
LEMMA SumUnwound ==
  ASSUME NEW n \in Nat, NEW m \in Nat, NEW f \in [1 .. n -> Nat],
         NEW e,
         DOMAIN e = 1 .. n,
         \A i \in 1 .. n :
           e[i] = f[i] - (IF SumFunction([j \in i + 1 .. n |-> f[j]]) < m
                          THEN AtMost(f[i], m - SumFunction([j \in i + 1 .. n |-> f[j]]))
                          ELSE 0)
  PROVE  /\ \A i \in 1 .. n : e[i] \in Nat
         /\ SumFunction([j \in 1 .. n |-> e[j]])
              = Above(SumFunction([j \in 1 .. n |-> f[j]]), m)
<1> DEFINE S(i) == SumFunction([j \in i .. n |-> f[j]])
           R(i) == SumFunction([j \in i .. n |-> e[j]])
<1>1. ASSUME NEW i \in 1 .. n + 1
      PROVE  /\ IsFiniteSet(i .. n) /\ i .. n \subseteq 1 .. n
             /\ S(i) \in Nat
  <2>1. IsFiniteSet(i .. n) /\ i .. n \subseteq 1 .. n
    BY FS_Interval
  <2>2. [j \in i .. n |-> f[j]] \in [i .. n -> Nat]
    BY <2>1
  <2> QED BY <2>1, <2>2, SumNat
<1>2. ASSUME NEW i \in 1 .. n  PROVE e[i] \in Nat
  <2>1. PICK s \in Nat : s = S(i + 1)
    <3>1. i + 1 \in 1 .. n + 1
      OBVIOUS
    <3> HIDE DEF S
    <3> QED BY <1>1, <3>1
  <2>2. e[i] = f[i] - (IF s < m THEN AtMost(f[i], m - s) ELSE 0)
    BY <2>1
  <2>3. f[i] \in Nat
    OBVIOUS
  <2> QED BY <2>2, <2>3 DEF AtMost
<1>3. S(n + 1) = 0 /\ R(n + 1) = 0
  <2>1. (n + 1) .. n = {}
    OBVIOUS
  <2>2. [j \in (n + 1) .. n |-> f[j]] \in [(n + 1) .. n -> Int]
    BY <2>1
  <2>3. [j \in (n + 1) .. n |-> e[j]] \in [(n + 1) .. n -> Int]
    BY <2>1
  <2>4. IsFiniteSet((n + 1) .. n)
    BY FS_Interval
  <2> QED BY <2>1, <2>2, <2>3, <2>4, SumInt
<1>4. ASSUME NEW i \in 1 .. n
      PROVE  S(i) = f[i] + S(i + 1) /\ R(i) = e[i] + R(i + 1)
  <2>1. (i .. n) \ {i} = i + 1 .. n /\ i \in i .. n /\ IsFiniteSet(i .. n)
    <3>1. (i .. n) \ {i} = i + 1 .. n /\ i \in i .. n
      OBVIOUS
    <3> QED BY <3>1, FS_Interval
  <2>2. i .. n \subseteq 1 .. n
    OBVIOUS
  <2>3. [j \in i .. n |-> f[j]] \in [i .. n -> Int]
    BY <2>2
  <2>4. [j \in i .. n |-> e[j]] \in [i .. n -> Int]
    BY <1>2, <2>2
  <2>5. SumFunction([j \in i .. n |-> f[j]])
          = [j \in i .. n |-> f[j]][i] + SumFunction([j \in i + 1 .. n |-> f[j]])
    <3> DEFINE a == [j \in i .. n |-> f[j]]
               b == [j \in i + 1 .. n |-> f[j]]
    <3>1. DOMAIN a = i .. n /\ b \in [(i .. n) \ {i} -> Int]
      BY <2>1, <2>2, <2>3
    <3>2. \A y \in (i .. n) \ {i} : b[y] = a[y]
      BY <2>1
    <3>3. Without(a, i, b)
      <4>1. a \in [i .. n -> Int]
        BY <2>3
      <4> HIDE DEF a, b
      <4> QED BY <2>1, <3>1, <3>2, <4>1 DEF Without
    <3>4. SumFunction(a) = a[i] + SumFunction(b)
      <4> HIDE DEF a, b, S, R
      <4> QED BY <3>3, SumRemove
    <3> QED BY <3>4
  <2>6. SumFunction([j \in i .. n |-> e[j]])
          = [j \in i .. n |-> e[j]][i] + SumFunction([j \in i + 1 .. n |-> e[j]])
    <3> DEFINE a == [j \in i .. n |-> e[j]]
               b == [j \in i + 1 .. n |-> e[j]]
    <3>1. DOMAIN a = i .. n /\ b \in [(i .. n) \ {i} -> Int]
      BY <2>1, <2>2, <2>4
    <3>2. \A y \in (i .. n) \ {i} : b[y] = a[y]
      BY <2>1
    <3>3. Without(a, i, b)
      <4>1. a \in [i .. n -> Int]
        BY <2>4
      <4> HIDE DEF a, b
      <4> QED BY <2>1, <3>1, <3>2, <4>1 DEF Without
    <3>4. SumFunction(a) = a[i] + SumFunction(b)
      <4> HIDE DEF a, b, S, R
      <4> QED BY <3>3, SumRemove
    <3> QED BY <3>4
  <2>7. [j \in i .. n |-> f[j]][i] = f[i] /\ [j \in i .. n |-> e[j]][i] = e[i]
    BY <2>1
  <2> QED BY <2>5, <2>6, <2>7, Zenon
<1> DEFINE T == {k \in Nat : k <= n => R(n + 1 - k) = Above(S(n + 1 - k), m)}
<1>5. 0 \in T
  <2>1. n + 1 - 0 = n + 1
    OBVIOUS
  <2>2. Above(0, m) = 0
    BY DEF Above
  <2> HIDE DEF S, R
  <2> QED BY <1>3, <2>1, <2>2
<1>6. ASSUME NEW k \in Nat, k \in T  PROVE k + 1 \in T
  <2> SUFFICES ASSUME k + 1 <= n  PROVE R(n + 1 - (k + 1)) = Above(S(n + 1 - (k + 1)), m)
    <3> HIDE DEF S, R
    <3> QED OBVIOUS
  <2>1. PICK i \in 1 .. n : i = n + 1 - (k + 1) /\ i + 1 = n + 1 - k
    OBVIOUS
  <2>2. PICK s \in Nat : s = S(i + 1)
    <3>1. i + 1 \in 1 .. n + 1
      OBVIOUS
    <3> HIDE DEF S, T
    <3> QED BY <1>1, <3>1
  <2>3. e[i] = f[i] - (IF s < m THEN AtMost(f[i], m - s) ELSE 0)
    BY <2>2
  <2>4. f[i] \in Nat
    OBVIOUS
  <2> HIDE DEF S, R
  <2>5. R(i + 1) = Above(s, m)
    BY <1>6, <2>1, <2>2
  <2>6. S(i) = f[i] + s /\ R(i) = e[i] + Above(s, m)
    BY <1>4, <2>2, <2>5
  <2>7. e[i] + Above(s, m) = Above(f[i] + s, m)
    BY <2>3, <2>4 DEF AtMost, Above
  <2> QED BY <2>1, <2>6, <2>7
<1> HIDE DEF S, R
<1>7. n \in T
  <2> HIDE DEF T
  <2> QED BY <1>5, <1>6, CountInduction
<1>8. R(1) = Above(S(1), m)
  <2>1. n + 1 - n = 1
    OBVIOUS
  <2> QED BY <1>7, <2>1
<1> QED BY <1>2, <1>8 DEF S, R

-----------------------------------------------------------------------------
(* Ranks. *)

\* A nonempty list of numbers has a greatest one.
LEMMA Greatest ==
  ASSUME NEW n \in Nat
  PROVE  \A f \in [1 .. n + 1 -> Int] : \E m \in 1 .. n + 1 : \A i \in 1 .. n + 1 : f[i] <= f[m]
<1> DEFINE G(k) == \A f \in [1 .. k + 1 -> Int] :
                     \E m \in 1 .. k + 1 : \A i \in 1 .. k + 1 : f[i] <= f[m]
           T == {k \in Nat : G(k)}
<1>1. 0 \in T
  <2>1. ASSUME NEW f \in [1 .. 0 + 1 -> Int]
        PROVE  \E m \in 1 .. 0 + 1 : \A i \in 1 .. 0 + 1 : f[i] <= f[m]
    <3>1. 1 \in 1 .. 0 + 1 /\ \A i \in 1 .. 0 + 1 : i = 1
      OBVIOUS
    <3>2. f[1] \in Int /\ f[1] <= f[1]
      BY <3>1
    <3> QED BY <3>1, <3>2
  <2> QED BY <2>1
<1>2. ASSUME NEW k \in Nat, k \in T  PROVE k + 1 \in T
  <2>1. ASSUME NEW f \in [1 .. (k + 1) + 1 -> Int]
        PROVE  \E m \in 1 .. (k + 1) + 1 : \A i \in 1 .. (k + 1) + 1 : f[i] <= f[m]
    <3> DEFINE e == [i \in 1 .. k + 1 |-> f[i]]
    <3>1. e \in [1 .. k + 1 -> Int]
      OBVIOUS
    <3>2. PICK m \in 1 .. k + 1 : \A i \in 1 .. k + 1 : e[i] <= e[m]
      BY <1>2, <3>1
    <3>3. \A i \in 1 .. k + 1 : f[i] <= f[m]
      BY <3>2
    <3>4. m \in 1 .. (k + 1) + 1 /\ (k + 1) + 1 \in 1 .. (k + 1) + 1
      OBVIOUS
    <3>5. \A i \in 1 .. (k + 1) + 1 : f[i] \in Int /\ (i \in 1 .. k + 1 \/ i = (k + 1) + 1)
      OBVIOUS
    <3>6. CASE f[(k + 1) + 1] <= f[m]
      BY <3>3, <3>4, <3>5, <3>6
    <3>7. CASE f[m] <= f[(k + 1) + 1]
      <4>1. \A i \in 1 .. (k + 1) + 1 : f[i] <= f[(k + 1) + 1]
        BY <3>3, <3>4, <3>5, <3>7
      <4> QED BY <3>4, <4>1
    <3> QED BY <3>4, <3>5, <3>6, <3>7
  <2>2. G(k + 1)
    BY <2>1
  <2>3. k + 1 \in Nat
    OBVIOUS
  <2> HIDE DEF G
  <2> QED BY <2>2, <2>3
<1> HIDE DEF T
<1>3. n \in T
  BY <1>1, <1>2, CountInduction
<1> QED BY <1>3 DEF T

-----------------------------------------------------------------------------
(* Ranks and places. *)

\* A set of numbers with everything below its members is 1 .. m.
LEMMA InitialSegment ==
  ASSUME NEW n \in Nat, NEW S \in SUBSET (1 .. n),
         \A i \in S : \A j \in 1 .. i : j \in S
  PROVE  \E m \in 0 .. n : S = 1 .. m
<1> DEFINE G(k) == \A U \in SUBSET (1 .. k) :
                     (\A i \in U : \A j \in 1 .. i : j \in U)
                       => \E m \in 0 .. k : U = 1 .. m
           T == {k \in Nat : G(k)}
<1>1. 0 \in T
  <2>1. ASSUME NEW U \in SUBSET (1 .. 0)  PROVE \E m \in 0 .. 0 : U = 1 .. m
    <3>1. 0 \in 0 .. 0 /\ U = 1 .. 0
      OBVIOUS
    <3> QED BY <3>1
  <2> QED BY <2>1
<1>2. ASSUME NEW k \in Nat, k \in T  PROVE k + 1 \in T
  <2>1. ASSUME NEW U \in SUBSET (1 .. k + 1), \A i \in U : \A j \in 1 .. i : j \in U
        PROVE  \E m \in 0 .. k + 1 : U = 1 .. m
    <3>1. CASE k + 1 \in U
      <4>1. U = 1 .. k + 1
        BY <2>1, <3>1
      <4>2. k + 1 \in 0 .. k + 1
        OBVIOUS
      <4> QED BY <4>1, <4>2
    <3>2. CASE k + 1 \notin U
      <4>1. U \in SUBSET (1 .. k)
        BY <3>2
      <4>2. PICK m \in 0 .. k : U = 1 .. m
        BY <1>2, <2>1, <4>1
      <4>3. m \in 0 .. k + 1
        OBVIOUS
      <4> QED BY <4>2, <4>3
    <3> QED BY <3>1, <3>2
  <2>2. G(k + 1) /\ k + 1 \in Nat
    BY <2>1
  <2> HIDE DEF G
  <2> QED BY <2>2
<1> HIDE DEF T
<1>3. n \in T
  BY <1>1, <1>2, CountInduction
<1> QED BY <1>3 DEF T

\* A list with one more element in it.
LEMMA InsertIs ==
  ASSUME NEW B, NEW s \in Seq(B), NEW p \in 1 .. Len(s) + 1, NEW e \in B
  PROVE  /\ InsertAt(s, p, e) \in Seq(B)
         /\ Len(InsertAt(s, p, e)) = Len(s) + 1
         /\ InsertAt(s, p, e)[p] = e
         /\ \A i \in 1 .. p - 1 : InsertAt(s, p, e)[i] = s[i]
         /\ \A i \in p + 1 .. Len(s) + 1 : InsertAt(s, p, e)[i] = s[i - 1]
<1>1. PICK n \in Nat : n = Len(s)
  OBVIOUS
<1> DEFINE a == SubSeq(s, 1, p - 1)
           b == SubSeq(s, p, Len(s))
<1>2. a \in Seq(B) /\ Len(a) = p - 1 /\ \A i \in 1 .. p - 1 : a[i] = s[i]
  BY <1>1
<1>3. b \in Seq(B) /\ Len(b) = n - p + 1 /\ \A i \in 1 .. n - p + 1 : b[i] = s[p + i - 1]
  BY <1>1
<1> HIDE DEF a, b
<1> DEFINE c == a \o <<e>>
<1>4. c \in Seq(B) /\ Len(c) = p /\ c[p] = e /\ \A i \in 1 .. p - 1 : c[i] = s[i]
  BY <1>2
<1> HIDE DEF c
<1> DEFINE d == c \o b
<1>5. /\ d \in Seq(B) /\ Len(d) = n + 1
      /\ \A i \in 1 .. p : d[i] = c[i]
      /\ \A i \in p + 1 .. n + 1 : d[i] = b[i - p]
  <2>1. d \in Seq(B) /\ Len(d) = n + 1
    <3>1. b \in Seq(B) /\ c \in Seq(B)
      BY <1>3, <1>4
    <3>2. d \in Seq(B) /\ Len(d) = Len(c) + Len(b)
      BY <3>1
    <3>3. p + (n - p + 1) = n + 1
      BY <1>1
    <3> QED BY <1>3, <1>4, <3>2, <3>3
  <2>2. \A i \in 1 .. p : d[i] = c[i]
    BY <1>3, <1>4
  <2>3. ASSUME NEW i \in p + 1 .. n + 1  PROVE d[i] = b[i - p]
    BY <1>3, <1>4
  <2> QED BY <2>1, <2>2, <2>3
<1> HIDE DEF d
<1>6. \A i \in p + 1 .. n + 1 : b[i - p] = s[i - 1]
  BY <1>3
<1>7. InsertAt(s, p, e) = d
  BY DEF InsertAt, a, b, c, d
<1> QED BY <1>1, <1>4, <1>5, <1>6, <1>7

-----------------------------------------------------------------------------
(***************************************************************************)
(* The aggregator.  Its timeline adds up: BucketAt, unwindLossLocked and   *)
(* IngestStream move both sums as they move the counters.                  *)
(***************************************************************************)

\* Every percentage is that of its second's counts.
Percented(bs) == \A i \in DOMAIN bs : bs[i].pct = LossPct(bs[i])

\* A percentage is at most a hundred, and zero without loss.
LEMMA LossPctIs ==
  ASSUME NEW b, b.recv \in Nat, b.lost \in Nat
  PROVE  LossPct(b) \in 0 .. 10000 /\ (b.lost = 0 => LossPct(b) = 0)
<1>1. PICK l, d \in Nat : l = b.lost /\ d = b.recv + b.lost /\ l <= d
  OBVIOUS
<1>2. CASE d = 0
  <2>1. ~ (b.recv + b.lost > 0)
    BY <1>1, <1>2
  <2>2. LossPct(b) = 0
    BY <2>1, SMT DEF LossPct
  <2> QED BY <2>2
<1>3. CASE d > 0
  <2>1. LossPct(b) = (10000 * l) \div d
    <3>1. b.recv + b.lost > 0
      BY <1>1, <1>3
    <3>2. LossPct(b) = (10000 * b.lost) \div (b.recv + b.lost)
      BY <3>1, SMT DEF LossPct
    <3> QED BY <1>1, <3>2
  <2>2. PICK q \in Int : q = (10000 * l) \div d
    BY <1>3
  <2>3. PICK x \in Nat : x = 10000 * l /\ x <= 10000 * d
    BY <1>1
  <2>4. d * q <= x /\ x < d * (q + 1)
    BY <1>3, <2>2, <2>3
  <2>5. q <= 10000
    <3>1. SUFFICES ASSUME q >= 10001 PROVE FALSE
      OBVIOUS
    <3>2. d * q >= d * 10001
      BY <1>3, <3>1
    <3> QED BY <1>3, <2>3, <2>4, <3>2
  <2>6. q >= 0
    <3>1. SUFFICES ASSUME q + 1 <= 0 PROVE FALSE
      OBVIOUS
    <3>2. d * (q + 1) <= 0
      BY <1>3, <3>1
    <3> QED BY <2>3, <2>4, <3>2
  <2>7. l = 0 => q = 0
    <3>1. SUFFICES ASSUME l = 0, q # 0 PROVE FALSE
      OBVIOUS
    <3>2. d * q <= 0
      BY <2>3, <2>4, <3>1
    <3>3. q >= 1
      BY <2>6, <3>1
    <3>4. d * q >= d
      BY <1>3, <3>3
    <3> QED BY <1>3, <3>2, <3>4
  <2>8. q \in 0 .. 10000
    BY <2>5, <2>6
  <2>9. LossPct(b) = q
    BY <2>1, <2>2
  <2>10. b.lost = 0 => q = 0
    BY <1>1, <2>7
  <2> QED BY <2>8, <2>9, <2>10
<1> QED BY <1>1, <1>2, <1>3

\* The fields of a bucket.
LEMMA BucketIs ==
  ASSUME NEW b \in Buckets
  PROVE  /\ b.t \in 0 .. MaxSecond /\ b.t \in Int
         /\ b.recv \in Nat /\ b.lost \in Nat /\ b.recv \in Int /\ b.lost \in Int
         /\ b.pct \in 0 .. 10000 /\ b.pct \in Nat
         /\ b.hops \in [Sources -> Seq(HopViews)]
<1>1. /\ b.t \in 0 .. MaxSecond /\ b.recv \in Nat /\ b.lost \in Nat
      /\ b.pct \in 0 .. 10000 /\ b.hops \in [Sources -> Seq(HopViews)]
  <2> DEFINE H == [Sources -> Seq(HopViews)]
  <2> HIDE DEF H
  <2> QED BY DEF Buckets, H
<1>2. b.t \in Int
  <2>1. MaxSecond \in Nat
    BY AggregatorAssumption
  <2>2. PICK t : t = b.t
    OBVIOUS
  <2>3. t \in 0 .. MaxSecond
    BY <1>1, <2>2
  <2>4. t \in Int
    BY <2>1, <2>3
  <2> QED BY <2>2, <2>4
<1>3. b.recv \in Int
  BY <1>1
<1>4. b.lost \in Int
  BY <1>1
<1>5. b.pct \in Nat
  <2>1. b.pct \in 0 .. 10000
    BY <1>1
  <2>2. PICK p \in 0 .. 10000 : p = b.pct
    BY <2>1
  <2>3. p \in Nat
    OBVIOUS
  <2> QED BY <2>2, <2>3
<1> QED BY <1>1, <1>2, <1>3, <1>4, <1>5

\* The seconds before t are the first ones of the timeline.
LEMMA PlaceIs ==
  ASSUME NEW bs \in Seq(Buckets), InOrder(bs), NEW t \in 0 .. MaxSecond
  PROVE  /\ Place(bs, t) \in 1 .. Len(bs) + 1
         /\ \A i \in 1 .. Place(bs, t) - 1 : bs[i].t < t
         /\ \A i \in Place(bs, t) .. Len(bs) : bs[i].t >= t
<1>0. MaxSecond \in Nat
  BY AggregatorAssumption
<1> USE <1>0
<1>1. PICK n \in Nat : n = Len(bs) /\ DOMAIN bs = 1 .. n
  OBVIOUS
<1> DEFINE S == {i \in DOMAIN bs : bs[i].t < t}
<1>2. \A i \in 1 .. n : bs[i].t \in Int
  <2>1. \A i \in 1 .. n : bs[i] \in Buckets
    BY <1>1
  <2> QED BY <2>1, BucketIs
<1>3. S \in SUBSET (1 .. n)
  BY <1>1
<1>4. \A i \in S : \A j \in 1 .. i : j \in S
  <2> TAKE i \in S
  <2> TAKE j \in 1 .. i
  <2>1. i \in 1 .. n /\ j \in 1 .. n /\ bs[i].t < t
    BY <1>1
  <2>2. CASE j = i
    BY <2>2
  <2>3. CASE j < i
    <3>1. bs[j].t < bs[i].t
      BY <1>1, <2>1, <2>3 DEF InOrder
    <3>2. bs[j].t < t
      BY <1>2, <2>1, <3>1
    <3> QED BY <1>1, <2>1, <3>2
  <2> QED BY <2>2, <2>3
<1>5. PICK m \in 0 .. n : S = 1 .. m
  <2> HIDE DEF S
  <2> QED BY <1>3, <1>4, InitialSegment
<1>6. Cardinality(S) = m
  <2>1. Cardinality(1 .. m) = m
    BY FS_Interval
  <2> QED BY <1>5, <2>1
<1>7. Place(bs, t) = m + 1
  BY <1>6 DEF Place
<1>8. \A i \in 1 .. m : bs[i].t < t
  BY <1>5
<1>9. \A i \in m + 1 .. n : bs[i].t >= t
  <2> TAKE i \in m + 1 .. n
  <2>1. i \in DOMAIN bs /\ i \notin S /\ i \in 1 .. n
    BY <1>1, <1>5
  <2>2. ~ (bs[i].t < t) /\ bs[i].t \in Int
    BY <1>2, <2>1
  <2> HIDE DEF S
  <2> QED BY <2>2
<1> QED BY <1>1, <1>7, <1>8, <1>9

\* A new bucket is empty.
LEMMA NewBucketIs ==
  ASSUME NEW t \in 0 .. MaxSecond
  PROVE  /\ NewBucket(t) \in Buckets
         /\ NewBucket(t).t = t /\ NewBucket(t).recv = 0 /\ NewBucket(t).lost = 0
         /\ NewBucket(t).pct = LossPct(NewBucket(t))
         /\ \A s \in Sources : NewBucket(t).hops[s] = <<>>
<1>1. [s \in Sources |-> <<>>] \in [Sources -> Seq(HopViews)]
  <2>1. <<>> \in Seq(HopViews)
    OBVIOUS
  <2> QED BY <2>1
<1> QED BY <1>1 DEF NewBucket, Buckets, LossPct

\* Both sums of a timeline, over all its seconds.
AllRecv(bs) == SumFunction([i \in DOMAIN bs |-> bs[i].recv])
AllLost(bs) == SumFunction([i \in DOMAIN bs |-> bs[i].lost])

\* Each second of r has the tables of one of bs, or none.
TablesFrom(bs, r) ==
  \A i \in DOMAIN r :
    \/ \E j \in DOMAIN bs : r[i].hops = bs[j].hops
    \/ \A s \in Sources : r[i].hops[s] = <<>>

\* Opening a second leaves the timeline in order and its sums as they were.
LEMMA BucketAtIs ==
  ASSUME NEW bs \in Seq(Buckets), InOrder(bs), Percented(bs),
         NEW t \in 0 .. MaxSecond, NEW at, at = BucketAt(bs, t)
  PROVE  /\ at \in Seq(Buckets) /\ InOrder(at) /\ Percented(at)
         /\ Place(at, t) \in DOMAIN at /\ at[Place(at, t)].t = t
         /\ AllRecv(at) = AllRecv(bs) /\ AllLost(at) = AllLost(bs)
         /\ TablesFrom(bs, at)
<1>0. MaxSecond \in Nat
  BY AggregatorAssumption
<1> USE <1>0
<1>1. PICK n \in Nat : n = Len(bs) /\ DOMAIN bs = 1 .. n
  OBVIOUS
<1>2. \A i \in 1 .. n : bs[i].t \in Int
  <2>1. \A i \in 1 .. n : bs[i] \in Buckets
    BY <1>1
  <2> QED BY <2>1, BucketIs
<1>3. CASE \E i \in DOMAIN bs : bs[i].t = t
  <2>1. at = bs
    BY <1>3 DEF BucketAt
  <2>2. PICK i \in 1 .. n : bs[i].t = t
    BY <1>1, <1>3
  <2>3. PICK p \in 1 .. n + 1 : /\ p = Place(bs, t)
                                /\ \A k \in 1 .. p - 1 : bs[k].t < t
                                /\ \A k \in p .. n : bs[k].t >= t
    BY <1>1, PlaceIs
  <2>4. p = i
    <3>1. i >= p
      <4>1. SUFFICES ASSUME i \in 1 .. p - 1  PROVE FALSE
        BY <2>2, <2>3
      <4> QED BY <2>2, <2>3, <4>1
    <3>2. SUFFICES ASSUME p < i  PROVE FALSE
      BY <3>1
    <3>3. p \in 1 .. n /\ p \in p .. n
      BY <2>3, <3>2
    <3>4. bs[p].t >= t /\ bs[p].t < bs[i].t
      BY <1>1, <2>2, <2>3, <3>2, <3>3 DEF InOrder
    <3> QED BY <1>2, <2>2, <3>3, <3>4
  <2>5. TablesFrom(bs, at)
    BY <2>1 DEF TablesFrom
  <2> QED BY <1>1, <2>1, <2>2, <2>3, <2>4, <2>5
<1>4. CASE ~ \E i \in DOMAIN bs : bs[i].t = t
  <2>1. PICK p \in 1 .. n + 1 : /\ p = Place(bs, t)
                                /\ \A k \in 1 .. p - 1 : bs[k].t < t
                                /\ \A k \in p .. n : bs[k].t >= t
    BY <1>1, PlaceIs
  <2>2. PICK e \in Buckets : /\ e = NewBucket(t) /\ e.t = t /\ e.recv = 0 /\ e.lost = 0
                             /\ e.pct = LossPct(e) /\ \A s \in Sources : e.hops[s] = <<>>
    BY NewBucketIs
  <2>3. at = InsertAt(bs, p, e)
    BY <1>4, <2>1, <2>2 DEF BucketAt
  <2>4. /\ at \in Seq(Buckets) /\ Len(at) = n + 1 /\ at[p] = e
        /\ \A i \in 1 .. p - 1 : at[i] = bs[i]
        /\ \A i \in p + 1 .. n + 1 : at[i] = bs[i - 1]
    <3>1. p \in 1 .. Len(bs) + 1
      BY <1>1
    <3>2. /\ InsertAt(bs, p, e) \in Seq(Buckets)
          /\ Len(InsertAt(bs, p, e)) = Len(bs) + 1 /\ InsertAt(bs, p, e)[p] = e
          /\ \A i \in 1 .. p - 1 : InsertAt(bs, p, e)[i] = bs[i]
          /\ \A i \in p + 1 .. Len(bs) + 1 : InsertAt(bs, p, e)[i] = bs[i - 1]
      BY <3>1, InsertIs
    <3> QED BY <1>1, <2>3, <3>2
  <2>5. DOMAIN at = 1 .. n + 1
    BY <2>4
  <2>6. \A k \in p .. n : bs[k].t > t
    BY <1>1, <1>2, <1>4, <2>1
  <2>7. InOrder(at)
    <3>1. ASSUME NEW i \in 1 .. n + 1, NEW j \in 1 .. n + 1, i < j
          PROVE  at[i].t < at[j].t
      <4>1. CASE j < p
        <5>1. at[i] = bs[i] /\ at[j] = bs[j] /\ i \in 1 .. n /\ j \in 1 .. n
          BY <2>4, <3>1, <4>1
        <5> QED BY <1>1, <3>1, <5>1 DEF InOrder
      <4>2. CASE j = p
        BY <2>1, <2>2, <2>4, <3>1, <4>2
      <4>3. CASE j > p /\ i = p
        <5>1. j \in p + 1 .. n + 1 /\ j - 1 \in p .. n
          BY <4>3
        <5>2. at[j] = bs[j - 1]
          BY <2>4, <5>1
        <5> QED BY <2>2, <2>4, <2>6, <4>3, <5>1, <5>2
      <4>4. CASE j > p /\ i > p
        <5>1. at[i] = bs[i - 1] /\ at[j] = bs[j - 1] /\ i - 1 \in 1 .. n /\ j - 1 \in 1 .. n
              /\ i - 1 < j - 1
          BY <2>4, <3>1, <4>4
        <5> QED BY <1>1, <5>1 DEF InOrder
      <4>5. CASE j > p /\ i < p
        <5>1. at[i] = bs[i] /\ at[j] = bs[j - 1] /\ i \in 1 .. n /\ j - 1 \in 1 .. n
              /\ i < j - 1
          BY <2>4, <3>1, <4>5
        <5> QED BY <1>1, <5>1 DEF InOrder
      <4> QED BY <4>1, <4>2, <4>3, <4>4, <4>5
    <3> QED BY <2>5, <3>1 DEF InOrder
  <2>8. ASSUME NEW i \in 1 .. n + 1
        PROVE  (i = p /\ at[i] = e) \/ \E j \in 1 .. n : at[i] = bs[j]
    <3>1. CASE i < p
      BY <2>4, <3>1
    <3>2. CASE i = p
      BY <2>4, <3>2
    <3>3. CASE i > p
      <4>1. at[i] = bs[i - 1] /\ i - 1 \in 1 .. n
        BY <2>4, <3>3
      <4> QED BY <4>1
    <3> QED BY <3>1, <3>2, <3>3
  <2>9. Percented(at)
    <3>1. ASSUME NEW i \in 1 .. n + 1  PROVE at[i].pct = LossPct(at[i])
      <4>1. CASE at[i] = e
        BY <2>2, <4>1
      <4>2. CASE \E j \in 1 .. n : at[i] = bs[j]
        BY <1>1, <4>2 DEF Percented
      <4> QED BY <2>8, <4>1, <4>2
    <3> QED BY <2>5, <3>1 DEF Percented
  <2>10. Place(at, t) = p
    <3>1. PICK q \in 1 .. (n + 1) + 1 :
            /\ q = Place(at, t)
            /\ \A k \in 1 .. q - 1 : at[k].t < t
            /\ \A k \in q .. n + 1 : at[k].t >= t
      BY <2>4, <2>7, PlaceIs
    <3>2. ~ (p < q)
      BY <2>2, <2>4, <3>1
    <3>3. ~ (q < p)
      <4>1. SUFFICES ASSUME q < p  PROVE FALSE
        OBVIOUS
      <4>2. q \in 1 .. p - 1 /\ q \in q .. n + 1 /\ q \in 1 .. n
        BY <4>1
      <4>3. at[q] = bs[q] /\ bs[q].t < t /\ at[q].t >= t
        <5>1. at[q] = bs[q]
          BY <2>4, <4>2
        <5>2. bs[q].t < t
          BY <2>1, <4>2
        <5>3. at[q].t >= t
          <6>1. q \in q .. n + 1
            BY <4>2
          <6> QED BY <3>1, <6>1
        <5> QED BY <5>1, <5>2, <5>3
      <4> QED BY <1>2, <4>2, <4>3
    <3> QED BY <3>1, <3>2, <3>3
  <2>11. AllRecv(at) = AllRecv(bs) /\ AllLost(at) = AllLost(bs)
    <3>1. \A i \in 1 .. n : bs[i].recv \in Int /\ bs[i].lost \in Int
      <4>1. \A i \in 1 .. n : bs[i] \in Buckets
        BY <1>1
      <4> QED BY <4>1, BucketIs
    <3>2. \A i \in 1 .. n + 1 : at[i].recv \in Int /\ at[i].lost \in Int
      <4>1. \A i \in 1 .. n + 1 : at[i] \in Buckets
        BY <2>4, <2>5
      <4> QED BY <4>1, BucketIs
    <3> DEFINE f == [i \in DOMAIN bs |-> bs[i].recv]
               g == [i \in DOMAIN at |-> at[i].recv]
               h == [i \in DOMAIN bs |-> bs[i].lost]
               k == [i \in DOMAIN at |-> at[i].lost]
    <3>4. f \in [1 .. n -> Int] /\ g \in [1 .. n + 1 -> Int]
          /\ h \in [1 .. n -> Int] /\ k \in [1 .. n + 1 -> Int]
      BY <1>1, <2>5, <3>1, <3>2
    <3>5. g[p] = 0 /\ k[p] = 0
      BY <2>2, <2>4, <2>5
    <3>6. ASSUME NEW i \in 1 .. p - 1  PROVE g[i] = f[i] /\ k[i] = h[i]
      <4>1. i \in 1 .. n /\ i \in 1 .. n + 1 /\ at[i] = bs[i]
        BY <2>4
      <4> QED BY <1>1, <2>5, <4>1
    <3>7. ASSUME NEW i \in p + 1 .. n + 1  PROVE g[i] = f[i - 1] /\ k[i] = h[i - 1]
      <4>1. i - 1 \in 1 .. n /\ i \in 1 .. n + 1 /\ at[i] = bs[i - 1]
        BY <2>4
      <4> QED BY <1>1, <2>5, <4>1
    <3> HIDE DEF f, g, h, k
    <3>8. Inserted(n, p, f, g) /\ Inserted(n, p, h, k)
      BY <3>4, <3>5, <3>6, <3>7 DEF Inserted
    <3>9. SumFunction(g) = SumFunction(f) /\ SumFunction(k) = SumFunction(h)
      BY <3>8, SumInserted
    <3> QED BY <3>9 DEF f, g, h, k, AllRecv, AllLost
  <2>12. p \in DOMAIN at /\ at[p].t = t
    BY <2>2, <2>4, <2>5
  <2>13. ASSUME NEW i \in DOMAIN at
         PROVE  (\E j \in DOMAIN bs : at[i].hops = bs[j].hops)
                  \/ \A s \in Sources : at[i].hops[s] = <<>>
    <3>1. CASE at[i] = e
      BY <2>2, <3>1
    <3>2. CASE \E j \in 1 .. n : at[i] = bs[j]
      BY <1>1, <3>2
    <3> QED BY <2>5, <2>8, <3>1, <3>2
  <2>14. TablesFrom(bs, at)
    BY <2>13 DEF TablesFrom
  <2> QED BY <2>4, <2>7, <2>9, <2>10, <2>11, <2>12, <2>14
<1> QED BY <1>3, <1>4

\* The percentage is a function of the counts.
LEMMA SamePct ==
  ASSUME NEW b, NEW c, b.recv = c.recv, b.lost = c.lost
  PROVE  LossPct(b) = LossPct(c)
BY DEF LossPct

\* One second of the timeline is replaced by one of the same time.
Replaces(bs, k, b, r) ==
  /\ bs \in Seq(Buckets) /\ InOrder(bs) /\ k \in DOMAIN bs
  /\ b \in Buckets /\ b.t = bs[k].t /\ r = [bs EXCEPT ![k] = b]

\* Both sums move by what the second does.
LEMMA ReplacedIs ==
  ASSUME NEW bs, NEW k, NEW b, NEW r, Replaces(bs, k, b, r)
  PROVE  /\ r \in Seq(Buckets) /\ Len(r) = Len(bs) /\ InOrder(r)
         /\ r[k] = b /\ \A i \in DOMAIN bs \ {k} : r[i] = bs[i]
         /\ AllRecv(r) = AllRecv(bs) + b.recv - bs[k].recv
         /\ AllLost(r) = AllLost(bs) + b.lost - bs[k].lost
<1>0. /\ bs \in Seq(Buckets) /\ InOrder(bs) /\ k \in DOMAIN bs
      /\ b \in Buckets /\ b.t = bs[k].t /\ r = [bs EXCEPT ![k] = b]
  BY DEF Replaces
<1>1. PICK n \in Nat : n = Len(bs) /\ DOMAIN bs = 1 .. n
  BY <1>0
<1>2. /\ r \in Seq(Buckets) /\ Len(r) = n /\ DOMAIN r = 1 .. n
      /\ r[k] = b /\ \A i \in 1 .. n \ {k} : r[i] = bs[i]
  BY <1>0, <1>1
<1>3. \A i \in 1 .. n : r[i].t = bs[i].t
  BY <1>0, <1>1, <1>2
<1>4. InOrder(r)
  BY <1>0, <1>1, <1>2, <1>3 DEF InOrder
<1>5. \A i \in 1 .. n : bs[i] \in Buckets /\ r[i] \in Buckets
  BY <1>0, <1>1, <1>2
<1>6. \A i \in 1 .. n : /\ bs[i].recv \in Int /\ r[i].recv \in Int
                        /\ bs[i].lost \in Int /\ r[i].lost \in Int
  BY <1>5, BucketIs
<1> DEFINE f == [i \in DOMAIN bs |-> bs[i].recv]
           g == [i \in DOMAIN r |-> r[i].recv]
           h == [i \in DOMAIN bs |-> bs[i].lost]
           m == [i \in DOMAIN r |-> r[i].lost]
<1>7. /\ f \in [1 .. n -> Int] /\ g \in [1 .. n -> Int]
      /\ h \in [1 .. n -> Int] /\ m \in [1 .. n -> Int]
  BY <1>0, <1>1, <1>2, <1>6
<1>8. /\ \A i \in 1 .. n \ {k} : g[i] = f[i] /\ m[i] = h[i]
      /\ f[k] = bs[k].recv /\ g[k] = b.recv /\ h[k] = bs[k].lost /\ m[k] = b.lost
  BY <1>0, <1>1, <1>2
<1>9. IsFiniteSet(1 .. n) /\ k \in 1 .. n
  BY <1>0, <1>1, FS_Interval
<1> HIDE DEF f, g, h, m
<1>10. SumFunction(g) = SumFunction(f) + g[k] - f[k]
  BY <1>7, <1>8, <1>9, SumUpdate
<1>11. SumFunction(m) = SumFunction(h) + m[k] - h[k]
  BY <1>7, <1>8, <1>9, SumUpdate
<1>12. /\ AllRecv(r) = SumFunction(g) /\ AllRecv(bs) = SumFunction(f)
       /\ AllLost(r) = SumFunction(m) /\ AllLost(bs) = SumFunction(h)
  BY DEF f, g, h, m, AllRecv, AllLost
<1> QED BY <1>0, <1>1, <1>2, <1>4, <1>8, <1>10, <1>11, <1>12

\* Both sums are counts, and no second holds more than the sum.
LEMMA SumsAreCounts ==
  ASSUME NEW bs \in Seq(Buckets)
  PROVE  /\ AllRecv(bs) \in Nat /\ AllLost(bs) \in Nat
         /\ \A i \in DOMAIN bs : bs[i].lost <= AllLost(bs)
         /\ bs = <<>> => AllRecv(bs) = 0 /\ AllLost(bs) = 0
<1>1. PICK n \in Nat : n = Len(bs) /\ DOMAIN bs = 1 .. n
  OBVIOUS
<1>2. \A i \in 1 .. n : bs[i] \in Buckets
  BY <1>1
<1>3. \A i \in 1 .. n : bs[i].recv \in Nat /\ bs[i].lost \in Nat
  BY <1>2, BucketIs
<1> DEFINE f == [i \in DOMAIN bs |-> bs[i].recv]
           h == [i \in DOMAIN bs |-> bs[i].lost]
<1>4. f \in [1 .. n -> Nat] /\ h \in [1 .. n -> Nat]
  BY <1>1, <1>3
<1>5. \A i \in 1 .. n : h[i] = bs[i].lost
  BY <1>1
<1>6. IsFiniteSet(1 .. n)
  BY FS_Interval
<1>7. bs = <<>> => 1 .. n = {}
  BY <1>1
<1>8. f \in [1 .. n -> Int] /\ h \in [1 .. n -> Int]
  BY <1>1, <1>3
<1> HIDE DEF f, h
<1>9. SumFunction(f) \in Nat /\ SumFunction(h) \in Nat
      /\ \A i \in 1 .. n : h[i] <= SumFunction(h)
  BY <1>4, <1>6, SumNat
<1>10. bs = <<>> => SumFunction(f) = 0 /\ SumFunction(h) = 0
  BY <1>6, <1>7, <1>8, SumInt
<1>11. AllRecv(bs) = SumFunction(f) /\ AllLost(bs) = SumFunction(h)
  BY DEF f, h, AllRecv, AllLost
<1> QED BY <1>1, <1>5, <1>9, <1>10, <1>11

\* A second gives back q of its losses.
Less(b, q) == [b EXCEPT !.lost = @ - q]

\* A second whose percentage is brought up to date.
Rated(b) == [b EXCEPT !.pct = LossPct(b)]

\* x is b after it gave back q: its percentage follows when q is not zero.
GivesBack(b, q, x) == x = IF q > 0 THEN Rated(Less(b, q)) ELSE Less(b, q)

\* It loses q and nothing else, and keeps a right percentage right.
LEMMA GivenBackIs ==
  ASSUME NEW b \in Buckets, NEW q \in 0 .. b.lost, NEW x, GivesBack(b, q, x)
  PROVE  /\ x \in Buckets
         /\ x.t = b.t /\ x.recv = b.recv /\ x.hops = b.hops
         /\ x.lost = b.lost - q
         /\ b.pct = LossPct(b) => x.pct = LossPct(x)
<1>1. PICK l, y \in Nat : l = b.lost /\ q \in 0 .. l /\ y = l - q
  BY BucketIs
<1>0. PICK c : c = Less(b, q)
  OBVIOUS
<1> DEFINE H == [Sources -> Seq(HopViews)]
<1>2. /\ b.t \in 0 .. MaxSecond /\ b.recv \in Nat
      /\ b.pct \in 0 .. 10000 /\ b.hops \in H
  BY BucketIs
<1> HIDE DEF H
<1>3. Buckets = [t : 0 .. MaxSecond, recv : Nat, lost : Nat, pct : 0 .. 10000, hops : H]
  BY DEF Buckets, H
<1>4. b = [t |-> b.t, recv |-> b.recv, lost |-> b.lost, pct |-> b.pct, hops |-> b.hops]
  BY <1>3
<1>5. c = [t |-> b.t, recv |-> b.recv, lost |-> y, pct |-> b.pct, hops |-> b.hops]
  BY <1>0, <1>1, <1>4 DEF Less
<1>6. c.recv = b.recv /\ c.lost = y
  BY <1>5
<1>7. LossPct(c) \in 0 .. 10000
  BY <1>1, <1>2, <1>6, LossPctIs
<1>8. [c EXCEPT !.pct = LossPct(c)] =
         [t |-> b.t, recv |-> b.recv, lost |-> y, pct |-> LossPct(c), hops |-> b.hops]
  BY <1>5
<1>9. CASE q > 0
  <2>1. PICK p \in 0 .. 10000 : p = LossPct(c)
    BY <1>7
  <2>2. x = [t |-> b.t, recv |-> b.recv, lost |-> y, pct |-> p, hops |-> b.hops]
    <3>1. x = [c EXCEPT !.pct = LossPct(c)]
      <4>1. x = Rated(c)
        BY <1>0, <1>9 DEF GivesBack
      <4> QED BY <4>1 DEF Rated
    <3> QED BY <1>8, <2>1, <3>1
  <2>3. x \in Buckets
    BY <1>1, <1>2, <1>3, <2>2
  <2>4. x.recv = c.recv /\ x.lost = c.lost
    BY <1>6, <2>2
  <2>5. LossPct(x) = LossPct(c)
    BY <2>4, SamePct
  <2> QED BY <1>1, <2>1, <2>2, <2>3, <2>5
<1>10. CASE ~ (q > 0)
  <2>1. x = [t |-> b.t, recv |-> b.recv, lost |-> y, pct |-> b.pct, hops |-> b.hops]
    <3>1. x = c
      BY <1>0, <1>10, Zenon DEF GivesBack
    <3> QED BY <1>5, <3>1
  <2>2. x \in Buckets
    <3>1. PICK p \in 0 .. 10000 : p = b.pct
      BY <1>2
    <3>2. x = [t |-> b.t, recv |-> b.recv, lost |-> y, pct |-> p, hops |-> b.hops]
      BY <2>1, <3>1
    <3> QED BY <1>1, <1>2, <1>3, <3>2
  <2>3. y = b.lost
    BY <1>1, <1>10
  <2>4. LossPct(x) = LossPct(b)
    BY <2>1, <2>3, SamePct
  <2> QED BY <1>1, <2>1, <2>2, <2>4
<1> QED BY <1>9, <1>10

\* Each second gives back at most what it holds, the newest first: the total
\* falls by n, or to zero.
LEMMA UnwoundIs ==
  ASSUME NEW bs \in Seq(Buckets), InOrder(bs), NEW m \in Nat, NEW r, r = Unwound(bs, m)
  PROVE  /\ r \in Seq(Buckets) /\ Len(r) = Len(bs) /\ InOrder(r)
         /\ \A i \in DOMAIN bs :
              /\ r[i].t = bs[i].t /\ r[i].recv = bs[i].recv /\ r[i].hops = bs[i].hops
              /\ bs[i].pct = LossPct(bs[i]) => r[i].pct = LossPct(r[i])
         /\ AllRecv(r) = AllRecv(bs) /\ AllLost(r) = Above(AllLost(bs), m)
<1>1. PICK n \in Nat : n = Len(bs) /\ DOMAIN bs = 1 .. n
  OBVIOUS
<1>2. \A i \in 1 .. n : bs[i] \in Buckets
  BY <1>1
<1> DEFINE newer(i) == LostIn(bs, i + 1 .. Len(bs))
           taken(i) == IF newer(i) < m THEN AtMost(bs[i].lost, m - newer(i)) ELSE 0
           d(i) == [bs[i] EXCEPT !.lost = @ - taken(i)]
           f == [i \in 1 .. n |-> bs[i].lost]
           e == [i \in 1 .. n |-> r[i].lost]
<1>3. \A i \in 1 .. n : bs[i].lost \in Nat
  BY <1>2, BucketIs
<1>4. r = [i \in 1 .. n |-> IF taken(i) > 0 THEN [d(i) EXCEPT !.pct = LossPct(d(i))] ELSE d(i)]
  BY <1>1 DEF Unwound
<1>5. f \in [1 .. n -> Nat]
  BY <1>3
<1>6. ASSUME NEW i \in 1 .. n
      PROVE  newer(i) = SumFunction([j \in i + 1 .. n |-> f[j]])
  <2>1. [j \in i + 1 .. n |-> f[j]] = [j \in i + 1 .. n |-> bs[j].lost]
    <3>1. \A j \in i + 1 .. n : j \in 1 .. n
      OBVIOUS
    <3> QED BY <3>1
  <2>2. newer(i) = SumFunction([j \in i + 1 .. n |-> bs[j].lost])
    BY <1>1 DEF LostIn
  <2> QED BY <2>1, <2>2
<1>7. ASSUME NEW i \in 1 .. n
      PROVE  newer(i) \in Nat
  <2>1. [j \in i + 1 .. n |-> f[j]] \in [i + 1 .. n -> Nat]
    BY <1>5
  <2>2. IsFiniteSet(i + 1 .. n)
    <3>1. i + 1 \in Int /\ n \in Int
      OBVIOUS
    <3> QED BY <3>1, FS_Interval
  <2> HIDE DEF f, newer
  <2>3. SumFunction([j \in i + 1 .. n |-> f[j]]) \in Nat
    BY <2>1, <2>2, SumNat
  <2> QED BY <1>6, <2>3
<1>8. ASSUME NEW i \in 1 .. n
      PROVE  taken(i) \in 0 .. bs[i].lost
  <2>1. PICK l \in Nat, w \in Nat : l = bs[i].lost /\ w = newer(i)
    BY <1>3, <1>7
  <2>2. taken(i) = IF w < m THEN AtMost(l, m - w) ELSE 0
    BY <2>1
  <2>3. taken(i) \in 0 .. l
    <3> HIDE DEF taken
    <3> QED BY <2>2 DEF AtMost
  <2> QED BY <2>1, <2>3
<1> HIDE DEF taken
<1>9. ASSUME NEW i \in 1 .. n
      PROVE  /\ r[i].t = bs[i].t /\ r[i].recv = bs[i].recv /\ r[i].hops = bs[i].hops
             /\ r[i].lost = bs[i].lost - taken(i)
             /\ r[i] \in Buckets
             /\ bs[i].pct = LossPct(bs[i]) => r[i].pct = LossPct(r[i])
  <2>1. PICK b, q : b \in Buckets /\ b = bs[i] /\ q = taken(i)
    BY <1>2
  <2>2. q \in 0 .. b.lost
    BY <1>8, <2>1
  <2>3. GivesBack(b, q, r[i])
    BY <1>4, <2>1 DEF GivesBack, Less, Rated
  <2>4. /\ r[i] \in Buckets
        /\ r[i].t = b.t /\ r[i].recv = b.recv /\ r[i].hops = b.hops
        /\ r[i].lost = b.lost - q
        /\ b.pct = LossPct(b) => r[i].pct = LossPct(r[i])
    <3>1. b \in Buckets
      BY <2>1
    <3> QED BY <2>2, <2>3, <3>1, GivenBackIs
  <2> QED BY <2>1, <2>4
<1>10. DOMAIN r = 1 .. n
  BY <1>4
<1>11. r \in Seq(Buckets) /\ Len(r) = n
  <2>1. r = [i \in 1 .. n |-> r[i]]
    BY <1>4
  <2>2. \A i \in 1 .. n : r[i] \in Buckets
    BY <1>9
  <2> HIDE DEF newer, d
  <2> QED BY <2>1, <2>2
<1>12. InOrder(r)
  BY <1>1, <1>9, <1>10 DEF InOrder
<1>13. AllRecv(r) = AllRecv(bs)
  <2>1. [i \in DOMAIN r |-> r[i].recv] = [i \in DOMAIN bs |-> bs[i].recv]
    BY <1>1, <1>9, <1>10
  <2> QED BY <2>1 DEF AllRecv
<1>14. AllLost(r) = Above(AllLost(bs), m)
  <2>1. ASSUME NEW i \in 1 .. n
        PROVE  e[i] = f[i] - (IF SumFunction([j \in i + 1 .. n |-> f[j]]) < m
                     THEN AtMost(f[i], m - SumFunction([j \in i + 1 .. n |-> f[j]]))
                     ELSE 0)
    <3>1. e[i] = f[i] - taken(i) /\ f[i] = bs[i].lost
      BY <1>9
    <3>2. taken(i) = IF newer(i) < m THEN AtMost(bs[i].lost, m - newer(i)) ELSE 0
      BY DEF taken
    <3> HIDE DEF e, f, newer
    <3> QED BY <1>6, <3>1, <3>2
  <2>2. DOMAIN e = 1 .. n
    OBVIOUS
  <2>3. /\ AllLost(r) = SumFunction([j \in 1 .. n |-> e[j]])
        /\ AllLost(bs) = SumFunction([j \in 1 .. n |-> f[j]])
    <3>1. [j \in 1 .. n |-> e[j]] = [i \in DOMAIN r |-> r[i].lost]
      BY <1>10
    <3>2. [j \in 1 .. n |-> f[j]] = [i \in DOMAIN bs |-> bs[i].lost]
      BY <1>1
    <3> QED BY <3>1, <3>2 DEF AllLost
  <2> HIDE DEF e, f
  <2>4. SumFunction([j \in 1 .. n |-> e[j]])
           = Above(SumFunction([j \in 1 .. n |-> f[j]]), m)
    BY <1>5, <2>1, <2>2, SumUnwound
  <2> QED BY <2>3, <2>4
<1> QED BY <1>1, <1>9, <1>11, <1>12, <1>13, <1>14

\* A second with one field set.
WithRecv(b, x) == [b EXCEPT !.recv = x]
WithLost(b, x) == [b EXCEPT !.lost = x]
WithHops(b, x) == [b EXCEPT !.hops = x]

\* The other fields stay.
LEMMA WithRecvIs ==
  ASSUME NEW b \in Buckets, NEW x \in Nat
  PROVE  /\ WithRecv(b, x) \in Buckets
         /\ WithRecv(b, x).t = b.t /\ WithRecv(b, x).recv = x /\ WithRecv(b, x).lost = b.lost
         /\ WithRecv(b, x).pct = b.pct /\ WithRecv(b, x).hops = b.hops
<1> DEFINE H == [Sources -> Seq(HopViews)]
<1> HIDE DEF H
<1>1. Buckets = [t : 0 .. MaxSecond, recv : Nat, lost : Nat, pct : 0 .. 10000, hops : H]
  BY DEF Buckets, H
<1>2. PICK t, recv, lost, pct, h :
        /\ t = b.t /\ recv = b.recv /\ lost = b.lost /\ pct = b.pct /\ h = b.hops
  OBVIOUS
<1>5. /\ t \in 0 .. MaxSecond /\ recv \in Nat /\ lost \in Nat
      /\ pct \in 0 .. 10000 /\ h \in H
  BY <1>1, <1>2
<1>6. b = [t |-> t, recv |-> recv, lost |-> lost, pct |-> pct, hops |-> h]
  <2>1. b = [t |-> b.t, recv |-> b.recv, lost |-> b.lost, pct |-> b.pct, hops |-> b.hops]
    BY <1>1
  <2> QED BY <1>2, <2>1, Zenon
<1>3. WithRecv(b, x) = [t |-> t, recv |-> x, lost |-> lost, pct |-> pct, hops |-> h]
  BY <1>6 DEF WithRecv
<1>4. WithRecv(b, x) \in Buckets
  BY <1>1, <1>3, <1>5
<1> QED BY <1>2, <1>3, <1>4

\* The same for the losses.
LEMMA WithLostIs ==
  ASSUME NEW b \in Buckets, NEW x \in Nat
  PROVE  /\ WithLost(b, x) \in Buckets
         /\ WithLost(b, x).t = b.t /\ WithLost(b, x).recv = b.recv /\ WithLost(b, x).lost = x
         /\ WithLost(b, x).pct = b.pct /\ WithLost(b, x).hops = b.hops
<1> DEFINE H == [Sources -> Seq(HopViews)]
<1> HIDE DEF H
<1>1. Buckets = [t : 0 .. MaxSecond, recv : Nat, lost : Nat, pct : 0 .. 10000, hops : H]
  BY DEF Buckets, H
<1>2. PICK t, recv, lost, pct, h :
        /\ t = b.t /\ recv = b.recv /\ lost = b.lost /\ pct = b.pct /\ h = b.hops
  OBVIOUS
<1>5. /\ t \in 0 .. MaxSecond /\ recv \in Nat /\ lost \in Nat
      /\ pct \in 0 .. 10000 /\ h \in H
  BY <1>1, <1>2
<1>6. b = [t |-> t, recv |-> recv, lost |-> lost, pct |-> pct, hops |-> h]
  <2>1. b = [t |-> b.t, recv |-> b.recv, lost |-> b.lost, pct |-> b.pct, hops |-> b.hops]
    BY <1>1
  <2> QED BY <1>2, <2>1, Zenon
<1>3. WithLost(b, x) = [t |-> t, recv |-> recv, lost |-> x, pct |-> pct, hops |-> h]
  BY <1>6 DEF WithLost
<1>4. WithLost(b, x) \in Buckets
  BY <1>1, <1>3, <1>5
<1> QED BY <1>2, <1>3, <1>4

\* The same for the percentage.
LEMMA RatedIs ==
  ASSUME NEW b \in Buckets
  PROVE  /\ Rated(b) \in Buckets
         /\ Rated(b).t = b.t /\ Rated(b).recv = b.recv /\ Rated(b).lost = b.lost
         /\ Rated(b).pct = LossPct(b) /\ Rated(b).hops = b.hops
<1> DEFINE H == [Sources -> Seq(HopViews)]
<1> HIDE DEF H
<1>1. Buckets = [t : 0 .. MaxSecond, recv : Nat, lost : Nat, pct : 0 .. 10000, hops : H]
  BY DEF Buckets, H
<1>2. PICK t, recv, lost, pct, h :
        /\ t = b.t /\ recv = b.recv /\ lost = b.lost /\ pct = b.pct /\ h = b.hops
  OBVIOUS
<1>5. /\ t \in 0 .. MaxSecond /\ recv \in Nat /\ lost \in Nat
      /\ pct \in 0 .. 10000 /\ h \in H
  BY <1>1, <1>2
<1>6. b = [t |-> t, recv |-> recv, lost |-> lost, pct |-> pct, hops |-> h]
  <2>1. b = [t |-> b.t, recv |-> b.recv, lost |-> b.lost, pct |-> b.pct, hops |-> b.hops]
    BY <1>1
  <2> QED BY <1>2, <2>1, Zenon
<1>0. PICK x \in 0 .. 10000 : x = LossPct(b)
  <2>1. b.recv \in Nat /\ b.lost \in Nat
    BY BucketIs
  <2>2. LossPct(b) \in 0 .. 10000
    BY <2>1, LossPctIs
  <2> QED BY <2>2
<1>3. Rated(b) = [t |-> t, recv |-> recv, lost |-> lost, pct |-> x, hops |-> h]
  BY <1>0, <1>6 DEF Rated
<1>4. Rated(b) \in Buckets
  BY <1>1, <1>3, <1>5
<1> QED BY <1>0, <1>2, <1>3, <1>4

\* The same for the tables.
LEMMA WithHopsIs ==
  ASSUME NEW b \in Buckets, NEW x \in [Sources -> Seq(HopViews)]
  PROVE  /\ WithHops(b, x) \in Buckets
         /\ WithHops(b, x).t = b.t /\ WithHops(b, x).recv = b.recv /\ WithHops(b, x).lost = b.lost
         /\ WithHops(b, x).pct = b.pct /\ WithHops(b, x).hops = x
<1> DEFINE H == [Sources -> Seq(HopViews)]
<1> HIDE DEF H
<1>1. Buckets = [t : 0 .. MaxSecond, recv : Nat, lost : Nat, pct : 0 .. 10000, hops : H]
  BY DEF Buckets, H
<1>2. PICK t, recv, lost, pct, h :
        /\ t = b.t /\ recv = b.recv /\ lost = b.lost /\ pct = b.pct /\ h = b.hops
  OBVIOUS
<1>5. /\ t \in 0 .. MaxSecond /\ recv \in Nat /\ lost \in Nat
      /\ pct \in 0 .. 10000 /\ h \in H
  BY <1>1, <1>2
<1>6. b = [t |-> t, recv |-> recv, lost |-> lost, pct |-> pct, hops |-> h]
  <2>1. b = [t |-> b.t, recv |-> b.recv, lost |-> b.lost, pct |-> b.pct, hops |-> b.hops]
    BY <1>1
  <2> QED BY <1>2, <2>1, Zenon
<1>0. PICK y \in H : y = x
  BY DEF H
<1>3. WithHops(b, x) = [t |-> t, recv |-> recv, lost |-> lost, pct |-> pct, hops |-> y]
  BY <1>0, <1>6 DEF WithHops
<1>4. WithHops(b, x) \in Buckets
  BY <1>1, <1>3, <1>5
<1> QED BY <1>0, <1>2, <1>3, <1>4

\* What IngestStream hands to Ingested.
Fits(bs, t, recv, lost) ==
  /\ bs \in Seq(Buckets) /\ InOrder(bs) /\ Percented(bs)
  /\ t \in 0 .. MaxSecond /\ recv \in Nat /\ lost \in Int

\* A snapshot adds to both sums what it brings; what late packets recovered is
\* taken from the losses, as far as they go.
LEMMA IngestedIs ==
  ASSUME NEW bs, NEW t, NEW recv, NEW lost, Fits(bs, t, recv, lost),
         NEW r, r = Ingested(bs, t, recv, lost)
  PROVE  /\ r \in Seq(Buckets) /\ InOrder(r) /\ Percented(r)
         /\ AllRecv(r) = AllRecv(bs) + recv
         /\ lost >= 0 => AllLost(r) = AllLost(bs) + lost
         /\ lost < 0 => AllLost(r) = Above(AllLost(bs), -lost)
         /\ TablesFrom(bs, r)
<1> DEFINE A == BucketAt(bs, t)
           K == Place(A, t)
           G == [A EXCEPT ![K].recv = @ + recv]
           B == IF lost >= 0 THEN [G EXCEPT ![K].lost = @ + lost] ELSE Unwound(G, -lost)
<1>0. r = [B EXCEPT ![K].pct = LossPct(B[K])]
  BY DEF Ingested
<1> HIDE DEF A, K, G, B
<1>1. PICK at, k, got, booked : at = A /\ k = K /\ got = G /\ booked = B
  OBVIOUS
<1>2. /\ at \in Seq(Buckets) /\ InOrder(at) /\ Percented(at)
      /\ k \in DOMAIN at /\ AllRecv(at) = AllRecv(bs) /\ AllLost(at) = AllLost(bs)
      /\ TablesFrom(bs, at)
  <2>1. bs \in Seq(Buckets) /\ InOrder(bs) /\ Percented(bs) /\ t \in 0 .. MaxSecond
    BY DEF Fits
  <2>2. at = BucketAt(bs, t) /\ k = Place(at, t)
    BY <1>1 DEF A, K
  <2> QED BY <2>1, <2>2, BucketAtIs
<1>3. PICK n \in Nat : n = Len(at) /\ DOMAIN at = 1 .. n
  BY <1>2
<1>4. recv \in Nat /\ lost \in Int
  BY DEF Fits
<1>5. got = [at EXCEPT ![k].recv = @ + recv]
  BY <1>1 DEF G
<1>6. /\ got \in Seq(Buckets) /\ Len(got) = n /\ InOrder(got)
      /\ AllRecv(got) = AllRecv(bs) + recv /\ AllLost(got) = AllLost(bs)
      /\ \A i \in 1 .. n : got[i].hops = at[i].hops /\ got[i].lost = at[i].lost
      /\ \A i \in 1 .. n \ {k} : got[i].pct = LossPct(got[i])
  <2>1. at[k] \in Buckets
    BY <1>2
  <2>2. PICK c : c = WithRecv(at[k], at[k].recv + recv)
    OBVIOUS
  <2>3. at[k].recv + recv \in Nat
    BY <1>4, <2>1, BucketIs
  <2>4. /\ c \in Buckets /\ c.t = at[k].t /\ c.recv = at[k].recv + recv
        /\ c.lost = at[k].lost /\ c.hops = at[k].hops
    BY <2>1, <2>2, <2>3, WithRecvIs
  <2>5. got = [at EXCEPT ![k] = c]
    BY <1>5, <2>2 DEF WithRecv
  <2>6. /\ got \in Seq(Buckets) /\ Len(got) = Len(at) /\ InOrder(got)
        /\ got[k] = c /\ \A i \in DOMAIN at \ {k} : got[i] = at[i]
        /\ AllRecv(got) = AllRecv(at) + c.recv - at[k].recv
        /\ AllLost(got) = AllLost(at) + c.lost - at[k].lost
    <3>1. Replaces(at, k, c, got)
      BY <1>2, <2>4, <2>5 DEF Replaces
    <3> QED BY <3>1, ReplacedIs
  <2>7. AllRecv(at) \in Nat /\ AllLost(at) \in Nat
    BY <1>2, SumsAreCounts
  <2>8. at[k].recv \in Nat /\ at[k].lost \in Nat
    BY <2>1, BucketIs
  <2>9. AllRecv(got) = AllRecv(bs) + recv /\ AllLost(got) = AllLost(bs)
    BY <1>2, <1>4, <2>4, <2>6, <2>7, <2>8
  <2>10. \A i \in 1 .. n : got[i].hops = at[i].hops /\ got[i].lost = at[i].lost
    BY <1>3, <2>4, <2>6
  <2>11. \A i \in 1 .. n \ {k} : got[i].pct = LossPct(got[i])
    BY <1>2, <1>3, <2>6 DEF Percented
  <2> QED BY <1>3, <2>6, <2>9, <2>10, <2>11
<1>7. k \in 1 .. n
  BY <1>2, <1>3
<1>8. DOMAIN got = 1 .. n
  BY <1>6
<1>9. booked = IF lost >= 0 THEN [got EXCEPT ![k].lost = @ + lost] ELSE Unwound(got, -lost)
  BY <1>1, Zenon DEF B
<1>10. /\ booked \in Seq(Buckets) /\ Len(booked) = n /\ InOrder(booked)
       /\ AllRecv(booked) = AllRecv(bs) + recv
       /\ lost >= 0 => AllLost(booked) = AllLost(bs) + lost
       /\ lost < 0 => AllLost(booked) = Above(AllLost(bs), -lost)
       /\ \A i \in 1 .. n : booked[i].hops = at[i].hops
       /\ \A i \in 1 .. n \ {k} : booked[i].pct = LossPct(booked[i])
  <2>1. CASE lost >= 0
    <3>1. got[k] \in Buckets
      BY <1>6, <1>7, <1>8
    <3>2. PICK c : c = WithLost(got[k], got[k].lost + lost)
      OBVIOUS
    <3>3. got[k].lost + lost \in Nat /\ got[k].lost \in Nat
      BY <1>4, <2>1, <3>1, BucketIs
    <3>4. /\ c \in Buckets /\ c.t = got[k].t /\ c.recv = got[k].recv
          /\ c.lost = got[k].lost + lost /\ c.hops = got[k].hops
      BY <3>1, <3>2, <3>3, WithLostIs
    <3>5. booked = [got EXCEPT ![k] = c]
      BY <1>9, <2>1, <3>2 DEF WithLost
    <3>6. /\ booked \in Seq(Buckets) /\ Len(booked) = Len(got) /\ InOrder(booked)
          /\ booked[k] = c /\ \A i \in DOMAIN got \ {k} : booked[i] = got[i]
          /\ AllRecv(booked) = AllRecv(got) + c.recv - got[k].recv
          /\ AllLost(booked) = AllLost(got) + c.lost - got[k].lost
      <4>1. Replaces(got, k, c, booked)
        BY <1>6, <1>7, <1>8, <3>4, <3>5 DEF Replaces
      <4> QED BY <4>1, ReplacedIs
    <3>7. AllRecv(got) \in Nat /\ AllLost(got) \in Nat
      BY <1>6, SumsAreCounts
    <3>8. got[k].recv \in Nat
      BY <3>1, BucketIs
    <3>9. AllRecv(booked) = AllRecv(bs) + recv /\ AllLost(booked) = AllLost(bs) + lost
      BY <1>4, <1>6, <3>3, <3>4, <3>6, <3>7, <3>8
    <3>10. \A i \in 1 .. n : booked[i].hops = at[i].hops
      BY <1>6, <1>8, <3>4, <3>6
    <3>11. \A i \in 1 .. n \ {k} : booked[i].pct = LossPct(booked[i])
      BY <1>6, <1>8, <3>6
    <3> QED BY <1>4, <1>6, <2>1, <3>6, <3>9, <3>10, <3>11
  <2>2. CASE lost < 0
    <3>1. ~ (lost >= 0) /\ -lost \in Nat
      BY <1>4, <2>2
    <3>2. booked = Unwound(got, -lost)
      BY <1>9, <3>1
    <3>3. /\ booked \in Seq(Buckets) /\ Len(booked) = Len(got) /\ InOrder(booked)
          /\ \A i \in DOMAIN got :
               /\ booked[i].t = got[i].t /\ booked[i].recv = got[i].recv
               /\ booked[i].hops = got[i].hops
               /\ got[i].pct = LossPct(got[i]) => booked[i].pct = LossPct(booked[i])
          /\ AllRecv(booked) = AllRecv(got) /\ AllLost(booked) = Above(AllLost(got), -lost)
      BY <1>6, <3>1, <3>2, UnwoundIs
    <3> QED BY <1>6, <1>8, <2>2, <3>1, <3>3
  <2> QED BY <1>4, <2>1, <2>2
<1>11. DOMAIN booked = 1 .. n
  BY <1>10
<1>12. r = [booked EXCEPT ![k].pct = LossPct(booked[k])]
  BY <1>0, <1>1
<1>13. booked[k] \in Buckets
  BY <1>7, <1>10, <1>11
<1>14. PICK c : c = Rated(booked[k])
  OBVIOUS
<1>16. /\ c \in Buckets /\ c.t = booked[k].t /\ c.recv = booked[k].recv
       /\ c.lost = booked[k].lost /\ c.hops = booked[k].hops /\ c.pct = LossPct(booked[k])
  BY <1>13, <1>14, RatedIs
<1>17. r = [booked EXCEPT ![k] = c]
  BY <1>12, <1>14 DEF Rated
<1>18. /\ r \in Seq(Buckets) /\ Len(r) = Len(booked) /\ InOrder(r)
       /\ r[k] = c /\ \A i \in DOMAIN booked \ {k} : r[i] = booked[i]
       /\ AllRecv(r) = AllRecv(booked) + c.recv - booked[k].recv
       /\ AllLost(r) = AllLost(booked) + c.lost - booked[k].lost
  <2>1. Replaces(booked, k, c, r)
    BY <1>7, <1>10, <1>11, <1>16, <1>17 DEF Replaces
  <2> QED BY <2>1, ReplacedIs
<1>19. AllRecv(r) = AllRecv(booked) /\ AllLost(r) = AllLost(booked)
  <2>1. AllRecv(booked) \in Nat /\ AllLost(booked) \in Nat
    BY <1>10, SumsAreCounts
  <2>2. booked[k].recv \in Nat /\ booked[k].lost \in Nat
    BY <1>13, BucketIs
  <2> QED BY <1>16, <1>18, <2>1, <2>2
<1>20. DOMAIN r = 1 .. n
  BY <1>10, <1>18
<1>21. Percented(r)
  <2>1. LossPct(c) = LossPct(booked[k])
    BY <1>16, SamePct
  <2>2. ASSUME NEW i \in 1 .. n  PROVE r[i].pct = LossPct(r[i])
    <3>1. CASE i = k
      BY <1>16, <1>18, <2>1, <3>1
    <3>2. CASE i # k
      BY <1>10, <1>11, <1>18, <3>2
    <3> QED BY <3>1, <3>2
  <2> QED BY <1>20, <2>2 DEF Percented
<1>22. \A i \in 1 .. n : r[i].hops = at[i].hops
  BY <1>10, <1>11, <1>16, <1>18
<1>23. TablesFrom(bs, r)
  BY <1>2, <1>3, <1>20, <1>22 DEF TablesFrom
<1> QED BY <1>10, <1>18, <1>19, <1>21, <1>23

-----------------------------------------------------------------------------
(* The correlator: thresholds, hits and verdicts. *)

\* Max of two numbers.
LEMMA MaxOfTwo ==
  ASSUME NEW a \in Int, NEW b \in Int
  PROVE  /\ Max({a, b}) \in {a, b} /\ Max({a, b}) >= a /\ Max({a, b}) >= b
<1>1. \E x \in {a, b} : \A y \in {a, b} : x >= y
  <2>1. CASE a >= b
    BY <2>1
  <2>2. CASE b >= a
    BY <2>2
  <2> QED BY <2>1, <2>2
<1> QED BY <1>1 DEF Max

\* A nonempty finite set of integers has a least and a greatest element.
LEMMA Extremes ==
  ASSUME NEW S, IsFiniteSet(S), S \subseteq Int, S # {}
  PROVE  /\ \E x \in S : \A y \in S : x <= y
         /\ \E x \in S : \A y \in S : x >= y
<1> DEFINE P(U) == /\ \E x \in U : \A y \in U : x <= y
                   /\ \E x \in U : \A y \in U : x >= y
           T == {U \in SUBSET S : U = {} \/ P(U)}
<1>1. {} \in T
  OBVIOUS
<1>2. ASSUME NEW U \in T, U \subseteq S, NEW z \in S \ U
      PROVE  U \cup {z} \in T
  <2>1. P(U \cup {z})
    <3>1. CASE U = {}
      BY <3>1
    <3>2. CASE U # {}
      <4>1. P(U)
        BY <3>2
      <4>2. PICK m \in U : \A y \in U : m <= y
        BY <4>1
      <4>3. PICK n \in U : \A y \in U : n >= y
        BY <4>1
      <4>4. m \in Int /\ n \in Int /\ z \in Int /\ \A y \in U : y \in Int
        BY <1>2
      <4>5. \E x \in U \cup {z} : \A y \in U \cup {z} : x <= y
        <5>1. CASE m <= z
          BY <4>2, <4>4, <5>1
        <5>2. CASE z <= m
          <6>1. \A y \in U \cup {z} : z <= y
            BY <4>2, <4>4, <5>2
          <6> QED BY <6>1
        <5> QED BY <4>4, <5>1, <5>2
      <4>6. \E x \in U \cup {z} : \A y \in U \cup {z} : x >= y
        <5>1. CASE n >= z
          BY <4>3, <4>4, <5>1
        <5>2. CASE z >= n
          <6>1. \A y \in U \cup {z} : z >= y
            BY <4>3, <4>4, <5>2
          <6> QED BY <6>1
        <5> QED BY <4>4, <5>1, <5>2
      <4> QED BY <4>5, <4>6
    <3> QED BY <3>1, <3>2
  <2> HIDE DEF P
  <2> QED BY <1>2, <2>1
<1>3. S \in T
  <2>1. \A U \in T : U \subseteq S => \A z \in S \ U : U \cup {z} \in T
    BY <1>2
  <2> HIDE DEF T
  <2> QED BY <1>1, <2>1, SetInduction
<1>4. P(S)
  <2> HIDE DEF P
  <2> QED BY <1>3
<1> QED BY <1>4

\* What is counted up to a value is what is counted below a greater one, when
\* there is nothing between them.
LEMMA RankedIs ==
  ASSUME NEW n \in Nat, NEW f \in [1 .. n -> Int], NEW k \in 1 .. n
  PROVE  Ranked(f, k) \in Range(f)
<1> DEFINE UpTo(v) == {i \in DOMAIN f : f[i] <= v}
           Below(v) == {i \in DOMAIN f : f[i] < v}
           V == Range(f)
           W == {v \in V : k <= Cardinality(UpTo(v))}
           D == 1 .. n
<1>0. DOMAIN f = D
  OBVIOUS
<1>1. IsFiniteSet(D) /\ Cardinality(D) = n
  BY FS_Interval
<1>2. V = {f[i] : i \in D}
  BY DEF Range
<1>3. V \subseteq Int /\ \A i \in D : f[i] \in V
  BY <1>2
<1>4. IsFiniteSet(V)
  <2>1. f \in [D -> V] /\ \A y \in V : \E i \in D : f[i] = y
    <3>1. \A i \in D : f[i] \in V
      BY <1>3
    <3>2. f \in [D -> V]
      <4> HIDE DEF V
      <4> QED BY <3>1
    <3> QED BY <1>2, <3>2
  <2> HIDE DEF D, V
  <2>2. f \in Surjection(D, V)
    BY <2>1 DEF Surjection
  <2> QED BY <1>1, <2>2, FS_Surjection
<1>5. \A v : IsFiniteSet(UpTo(v)) /\ Cardinality(UpTo(v)) \in Nat
             /\ IsFiniteSet(Below(v)) /\ Cardinality(Below(v)) \in Nat
  <2> TAKE v
  <2>1. UpTo(v) \in SUBSET D /\ Below(v) \in SUBSET D
    BY <1>0
  <2> HIDE DEF UpTo, Below, D
  <2> QED BY <1>1, <2>1, FS_Subset, FS_CardinalityType
<1>6. PICK m \in D : \A i \in D : f[i] <= f[m]
  <2>1. V # {}
    BY <1>3
  <2>2. PICK x \in V : \A y \in V : x >= y
    <3> HIDE DEF V
    <3> QED BY <1>3, <1>4, <2>1, Extremes
  <2>3. PICK m \in D : x = f[m]
    BY <1>2
  <2>4. \A i \in D : f[i] <= f[m]
    BY <1>3, <2>2, <2>3
  <2> QED BY <2>4
<1>7. f[m] \in W
  <2>1. UpTo(f[m]) = D
    BY <1>0, <1>6
  <2>2. Cardinality(UpTo(f[m])) = n
    BY <1>1, <2>1
  <2> HIDE DEF UpTo
  <2> QED BY <1>3, <2>2
<1>8. PICK v \in W : \A y \in W : v <= y
  <2>1. W \in SUBSET V
    OBVIOUS
  <2>2. IsFiniteSet(W)
    <3> HIDE DEF W, V
    <3> QED BY <1>4, <2>1, FS_Subset
  <2>3. W \subseteq Int /\ W # {}
    <3> HIDE DEF W, V
    <3> QED BY <1>3, <1>7, <2>1
  <2> HIDE DEF W
  <2> QED BY <2>2, <2>3, Extremes
<1>9. v \in V /\ k <= Cardinality(UpTo(v)) /\ v \in Int
  BY <1>3
<1>10. Cardinality(Below(v)) < k
  <2>1. CASE Below(v) = {}
    <3>1. Cardinality(Below(v)) = 0
      <4> HIDE DEF Below
      <4> QED BY <2>1, FS_EmptySet
    <3> QED BY <3>1
  <2>2. CASE Below(v) # {}
    <3> DEFINE U == {y \in V : y < v}
    <3>1. U \in SUBSET V /\ U # {} /\ U \subseteq Int
      BY <1>0, <1>3, <2>2
    <3>2. IsFiniteSet(U)
      <4> HIDE DEF U, V
      <4> QED BY <1>4, <3>1, FS_Subset
    <3>3. PICK u \in U : \A y \in U : u >= y
      <4> HIDE DEF U
      <4> QED BY <3>1, <3>2, Extremes
    <3>4. u \in V /\ u < v /\ u \in Int
      BY <1>3
    <3>5. UpTo(u) = Below(v)
      BY <1>0, <1>3, <1>9, <3>3, <3>4
    <3>6. u \notin W
      <4> HIDE DEF W
      <4> QED BY <1>8, <1>9, <3>4
    <3>7. ~ (k <= Cardinality(UpTo(u)))
      <4> HIDE DEF UpTo, V
      <4> QED BY <3>4, <3>6
    <3> HIDE DEF UpTo, Below
    <3> QED BY <1>5, <3>5, <3>7
  <2> QED BY <2>1, <2>2
<1>11. \E w \in Range(f) : /\ Cardinality({i \in DOMAIN f : f[i] < w}) < k
                           /\ k <= Cardinality({i \in DOMAIN f : f[i] <= w})
  BY <1>9, <1>10
<1> QED BY <1>11 DEF Ranked

\* Products of naturals are monotone.
LEMMA TimesLeq ==
  ASSUME NEW r \in Nat, NEW a \in Nat, NEW b \in Nat, a <= b
  PROVE  r * a <= r * b
<1>1. PICK d \in Nat : b = a + d
  <2>1. b - a \in Nat /\ b = a + (b - a)
    OBVIOUS
  <2> QED BY <2>1
<1>2. PICK x \in Nat, y \in Nat : x = r * a /\ y = r * d
  OBVIOUS
<1>3. r * b = x + y
  BY <1>1, <1>2
<1> QED BY <1>2, <1>3

\* The percentile lies between the least and the greatest loss.
LEMMA PercentileIs ==
  ASSUME NEW n \in Nat, n > 0, NEW f \in Seq(Nat), Len(f) = n, NEW m \in 1 .. n,
         \A i \in 1 .. n : f[i] <= f[m]
  PROVE  P95Times20(f) \in Int /\ P95Times20(f) <= 20 * f[m]
<1>1. f \in [1 .. n -> Int] /\ DOMAIN f = 1 .. n /\ \A i \in 1 .. n : f[i] \in Nat
  OBVIOUS
<1>2. PICK M \in Nat : M = f[m]
  BY <1>1
<1>3. \A k \in 1 .. n : Ranked(f, k) \in Nat /\ Ranked(f, k) <= M
  <2> TAKE k \in 1 .. n
  <2>1. Ranked(f, k) \in Range(f)
    BY <1>1, RankedIs
  <2>2. PICK i \in 1 .. n : Ranked(f, k) = f[i]
    BY <1>1, <2>1 DEF Range
  <2> QED BY <1>1, <1>2, <2>2
<1> DEFINE pos == 19 * (n - 1)
<1>4. PICK p \in Nat, q \in Nat, part \in 0 .. 19 :
        p = pos /\ q = pos \div 20 /\ part = pos % 20 /\ p = 20 * q + part
  <2>1. PICK p \in Nat : p = pos
    OBVIOUS
  <2>2. PICK q \in Int, part \in Int : q = p \div 20 /\ part = p % 20
    OBVIOUS
  <2>3. p = 20 * q + part /\ 0 <= part /\ part < 20
    BY <2>2
  <2>4. q \in Nat /\ part \in 0 .. 19
    BY <2>3
  <2> HIDE DEF pos
  <2> QED BY <2>1, <2>2, <2>3, <2>4
<1>5. q + 1 \in 1 .. n /\ (part # 0 => q + 2 \in 1 .. n)
  BY <1>4
<1>6. P95Times20(f) = IF part = 0 THEN 20 * Ranked(f, q + 1)
                      ELSE (20 - part) * Ranked(f, q + 1) + part * Ranked(f, (q + 1) + 1)
  <2>1. pos = 19 * (Len(f) - 1)
    OBVIOUS
  <2> HIDE DEF pos
  <2> QED BY <1>4, <2>1 DEF P95Times20
<1>7. PICK a \in Nat : a = Ranked(f, q + 1) /\ a <= M
  BY <1>3, <1>5
<1>8. CASE part = 0
  <2>1. P95Times20(f) = 20 * a
    BY <1>6, <1>7, <1>8
  <2> QED BY <1>2, <1>7, <2>1
<1>9. CASE part # 0
  <2>1. PICK b \in Nat : b = Ranked(f, (q + 1) + 1) /\ b <= M
    <3>1. (q + 1) + 1 \in 1 .. n
      BY <1>4, <1>5, <1>9
    <3> QED BY <1>3, <3>1
  <2>2. P95Times20(f) = (20 - part) * a + part * b
    BY <1>6, <1>7, <1>9, <2>1
  <2>3. PICK x \in Nat, y \in Nat : x = (20 - part) * a /\ y = part * b
    BY <1>4
  <2>4. x <= (20 - part) * M /\ y <= part * M
    <3>1. PICK r \in Nat, t \in Nat : r = 20 - part /\ t = part
      BY <1>4
    <3>2. r * a <= r * M /\ t * b <= t * M
      BY <1>7, <2>1, TimesLeq
    <3> QED BY <2>3, <3>1, <3>2
  <2>5. (20 - part) * M + part * M = 20 * M
    BY <1>4
  <2>6. (20 - part) * M \in Nat /\ part * M \in Nat
    BY <1>4
  <2>7. x + y <= 20 * M
    BY <2>3, <2>4, <2>5, <2>6
  <2> QED BY <1>2, <2>2, <2>3, <2>7
<1> QED BY <1>8, <1>9

\* The losses of a timeline are a list of naturals.
LEMMA LossesAre ==
  ASSUME NEW bs \in Seq(Buckets)
  PROVE  /\ Losses(bs) \in Seq(Nat) /\ Len(Losses(bs)) = Len(bs)
         /\ \A i \in DOMAIN bs : Losses(bs)[i] = bs[i].pct /\ bs[i].pct \in Nat
<1>1. PICK n \in Nat : n = Len(bs) /\ DOMAIN bs = 1 .. n
  OBVIOUS
<1>2. \A i \in 1 .. n : bs[i] \in Buckets
  BY <1>1
<1>3. \A i \in 1 .. n : bs[i].pct \in Nat
  BY <1>2, BucketIs
<1>4. Losses(bs) = [i \in 1 .. n |-> bs[i].pct]
  BY <1>1 DEF Losses
<1> QED BY <1>1, <1>3, <1>4

\* The threshold is at least one percent, and no more than the worst second's
\* loss when that is.
LEMMA ThresholdIs ==
  ASSUME NEW bs \in Seq(Buckets), bs # <<>>
  PROVE  /\ Threshold(bs) \in Int /\ Threshold(bs) >= 2000
         /\ \E m \in DOMAIN bs : /\ \A i \in DOMAIN bs : bs[i].pct <= bs[m].pct
                                 /\ bs[m].pct >= 100 => Threshold(bs) <= 20 * bs[m].pct
<1>1. PICK n \in Nat : n = Len(bs) /\ DOMAIN bs = 1 .. n /\ n > 0
  OBVIOUS
<1>2. PICK f \in Seq(Nat) : /\ f = Losses(bs) /\ Len(f) = n
                            /\ \A i \in 1 .. n : f[i] = bs[i].pct /\ f[i] \in Nat
  BY <1>1, LossesAre
<1>3. PICK m \in 1 .. n : \A i \in 1 .. n : f[i] <= f[m]
  <2>1. PICK j \in Nat : n = j + 1
    <3>1. n - 1 \in Nat /\ n = (n - 1) + 1
      BY <1>1
    <3> QED BY <3>1
  <2>2. f \in [1 .. j + 1 -> Int]
    BY <1>2, <2>1
  <2>3. \E m \in 1 .. j + 1 : \A i \in 1 .. j + 1 : f[i] <= f[m]
    BY <2>2, Greatest
  <2> QED BY <2>1, <2>3
<1>4. PICK p \in Int : p = P95Times20(f) /\ p <= 20 * f[m]
  BY <1>1, <1>2, <1>3, PercentileIs
<1>5. Threshold(bs) = Max({2000, p})
  <2>1. Threshold(bs) = Max({20 * 100, p})
    BY <1>2, <1>4 DEF Threshold
  <2>2. 20 * 100 = 2000
    OBVIOUS
  <2> QED BY <2>1, <2>2
<1>6. Threshold(bs) \in {2000, p} /\ Threshold(bs) >= 2000
  <2>1. PICK x \in Int : x = 2000
    OBVIOUS
  <2>2. Max({x, p}) \in {x, p} /\ Max({x, p}) >= x
    BY MaxOfTwo
  <2> QED BY <1>5, <2>1, <2>2
<1>7. Threshold(bs) \in Int
  BY <1>4, <1>6
<1>8. bs[m].pct >= 100 => Threshold(bs) <= 20 * bs[m].pct
  <2>1. f[m] \in Nat /\ f[m] = bs[m].pct
    BY <1>2
  <2> QED BY <1>4, <1>6, <2>1
<1>9. \A i \in 1 .. n : bs[i].pct <= bs[m].pct
  BY <1>2, <1>3
<1>10. \E k \in DOMAIN bs : /\ \A i \in DOMAIN bs : bs[i].pct <= bs[k].pct
                            /\ bs[k].pct >= 100 => Threshold(bs) <= 20 * bs[k].pct
  <2>1. m \in DOMAIN bs /\ \A i \in DOMAIN bs : bs[i].pct <= bs[m].pct
    BY <1>1, <1>9
  <2> QED BY <1>8, <2>1
<1> QED BY <1>6, <1>7, <1>10

\* Seconds to explain exist when a second lost one percent, and not when none lost.
LEMMA LossEventsAre ==
  ASSUME NEW bs \in Seq(Buckets), bs # <<>>
  PROVE  /\ LossEvents(bs) \subseteq DOMAIN bs
         /\ (\E i \in DOMAIN bs : bs[i].pct >= 100) => LossEvents(bs) # {}
         /\ (\A i \in DOMAIN bs : bs[i].pct = 0) => LossEvents(bs) = {}
         /\ IsFiniteSet(LossEvents(bs)) /\ Cardinality(LossEvents(bs)) \in Nat
<1>1. PICK n \in Nat : n = Len(bs) /\ DOMAIN bs = 1 .. n
  OBVIOUS
<1>2. PICK h \in Int : h = Threshold(bs) /\ h >= 2000
  BY ThresholdIs
<1>3. LossEvents(bs) = {i \in 1 .. n : 20 * bs[i].pct >= h}
  BY <1>1, <1>2 DEF LossEvents
<1>4. ASSUME NEW i \in DOMAIN bs, bs[i].pct >= 100  PROVE LossEvents(bs) # {}
  <2>1. PICK m \in DOMAIN bs : /\ \A j \in DOMAIN bs : bs[j].pct <= bs[m].pct
                               /\ bs[m].pct >= 100 => h <= 20 * bs[m].pct
    BY <1>2, ThresholdIs
  <2>2. bs[i].pct \in Nat /\ bs[m].pct \in Nat /\ bs[i].pct <= bs[m].pct
    BY <2>1, LossesAre
  <2>3. 20 * bs[m].pct >= h
    BY <1>2, <1>4, <2>1, <2>2
  <2> QED BY <1>1, <1>3, <2>1, <2>3
<1>5. (\A i \in DOMAIN bs : bs[i].pct = 0) => LossEvents(bs) = {}
  BY <1>1, <1>2, <1>3
<1>6. IsFiniteSet(1 .. n)
  BY FS_Interval
<1>7. LossEvents(bs) \in SUBSET (1 .. n)
  BY <1>3
<1>8. IsFiniteSet(LossEvents(bs)) /\ Cardinality(LossEvents(bs)) \in Nat
  BY <1>6, <1>7, FS_Subset, FS_CardinalityType
<1> QED BY <1>1, <1>4, <1>5, <1>7, <1>8

\* A prober's table has at most one hop for a TTL.
Distinct(table) ==
  \A i, j \in DOMAIN table : i < j => table[i].ttl < table[j].ttl

\* A hop stands out in at most all the seconds.
LEMMA HitsAre ==
  ASSUME NEW bs, NEW events, IsFiniteSet(events), NEW s, NEW table, NEW i
  PROVE  Hits(bs, events, s, table, i) \in Nat /\ Hits(bs, events, s, table, i) <= Cardinality(events)
<1>1. Cardinality(events) \in Nat
  BY FS_CardinalityType
<1>2. \A U \in SUBSET events : Cardinality(U) \in Nat /\ Cardinality(U) <= Cardinality(events)
  BY FS_Subset, FS_CardinalityType
<1>3. RttHits(bs, events, s, table[i]) \in Nat /\ RttHits(bs, events, s, table[i]) <= Cardinality(events)
  <2> DEFINE U == {e \in events : \E h \in SeenIn(bs[e], s, table[i].ttl) :
                     table[i].baseline > 0 /\ h.rtt > table[i].baseline}
  <2>1. RttHits(bs, events, s, table[i]) = Cardinality(U)
    BY DEF RttHits
  <2>2. U \in SUBSET events
    OBVIOUS
  <2> HIDE DEF U
  <2> QED BY <1>2, <2>1, <2>2
<1>4. LossHits(bs, events, s, table, i) \in Nat /\ LossHits(bs, events, s, table, i) <= Cardinality(events)
  <2> DEFINE U == {e \in events : \E h \in SeenIn(bs[e], s, table[i].ttl) : h.loss > 1}
  <2>1. LossHits(bs, events, s, table, i) = IF RateLimited(table, i) THEN 0 ELSE Cardinality(U)
    BY DEF LossHits
  <2>2. U \in SUBSET events
    OBVIOUS
  <2> HIDE DEF U
  <2>3. LossHits(bs, events, s, table, i) = 0 \/ LossHits(bs, events, s, table, i) = Cardinality(U)
    BY <2>1
  <2> QED BY <1>1, <1>2, <2>2, <2>3
<1>5. PICK a \in Nat, b \in Nat : a = RttHits(bs, events, s, table[i]) /\ b = LossHits(bs, events, s, table, i)
  BY <1>3, <1>4
<1>6. Max({a, b}) \in {a, b}
  BY MaxOfTwo
<1>7. Hits(bs, events, s, table, i) = Max({a, b})
  BY <1>5 DEF Hits
<1> QED BY <1>3, <1>4, <1>5, <1>6, <1>7

\* Verdicts of one prober: each above half of the n seconds, one for a TTL.
Sound(S, source, n) ==
  /\ n \in Nat
  /\ \A x \in S : /\ x \in [ttl : Nat, hits : Nat, source : {source}]
                  /\ x.hits <= n /\ 2 * x.hits > n
  /\ \A x, y \in S : x.ttl = y.ttl => x = y

\* The verdicts of one prober are sound, and about hops in its table.
LEMMA CorrelateIs ==
  ASSUME NEW bs \in Seq(Buckets), bs # <<>>, NEW s,
         NEW table \in Seq(HopViews), Distinct(table)
  PROVE  /\ Sound(Correlate(bs, s, table), s, Cardinality(LossEvents(bs)))
         /\ \A x \in Correlate(bs, s, table) : \E i \in DOMAIN table : x.ttl = table[i].ttl
         /\ LossEvents(bs) = {} => Correlate(bs, s, table) = {}
<1>1. PICK events : /\ events = LossEvents(bs) /\ IsFiniteSet(events)
                    /\ Cardinality(events) \in Nat
  BY LossEventsAre
<1>2. PICK n \in Nat : n = Cardinality(events)
  BY <1>1
<1> DEFINE R == {j \in DOMAIN table : table[j].responds}
           V(i) == [ttl |-> table[i].ttl, hits |-> Hits(bs, events, s, table, i), source |-> s]
<1>3. Correlate(bs, s, table) = {x \in {V(i) : i \in R} : 2 * x.hits > n}
  BY <1>1, <1>2 DEF Correlate
<1>4. \A i \in DOMAIN table : table[i].ttl \in Nat
  <2>1. \A i \in DOMAIN table : table[i] \in HopViews
    OBVIOUS
  <2> QED BY <2>1 DEF HopViews
<1>5. \A i \in DOMAIN table : Hits(bs, events, s, table, i) \in Nat /\ Hits(bs, events, s, table, i) <= n
  BY <1>1, <1>2, HitsAre
<1>6. \A i, j \in DOMAIN table : table[i].ttl = table[j].ttl => i = j
  <2>1. \A i \in DOMAIN table : i \in Int
    OBVIOUS
  <2> QED BY <1>4, <2>1 DEF Distinct
<1>7. \A x \in Correlate(bs, s, table) : \E i \in DOMAIN table : x = V(i) /\ 2 * x.hits > n
  BY <1>3
<1>8. ASSUME NEW x \in Correlate(bs, s, table)
      PROVE  /\ x \in [ttl : Nat, hits : Nat, source : {s}]
             /\ x.hits <= n /\ 2 * x.hits > n
  <2>1. PICK i \in DOMAIN table : x = V(i) /\ 2 * x.hits > n
    BY <1>7
  <2>2. PICK t \in Nat, h \in Nat : t = table[i].ttl /\ h = Hits(bs, events, s, table, i) /\ h <= n
    BY <1>4, <1>5
  <2>3. x = [ttl |-> t, hits |-> h, source |-> s]
    BY <2>1, <2>2
  <2> QED BY <2>1, <2>2, <2>3
<1>9. ASSUME NEW x \in Correlate(bs, s, table), NEW y \in Correlate(bs, s, table), x.ttl = y.ttl
      PROVE  x = y
  <2>1. PICK i \in DOMAIN table : x = V(i)
    BY <1>7
  <2>2. PICK j \in DOMAIN table : y = V(j)
    BY <1>7
  <2>3. table[i].ttl = table[j].ttl
    BY <1>9, <2>1, <2>2
  <2>4. i = j
    BY <1>6, <2>3
  <2> QED BY <2>1, <2>2, <2>4
<1>10. ASSUME NEW x \in Correlate(bs, s, table)
       PROVE  \E i \in DOMAIN table : x.ttl = table[i].ttl
  <2>1. PICK i \in DOMAIN table : x = V(i)
    BY <1>7
  <2>2. x.ttl = table[i].ttl
    BY <2>1
  <2> QED BY <2>2
<1>11. ASSUME events = {}  PROVE Correlate(bs, s, table) = {}
  <2>1. n = 0
    BY <1>2, <1>11, FS_EmptySet
  <2>2. SUFFICES ASSUME NEW x \in Correlate(bs, s, table)  PROVE FALSE
    OBVIOUS
  <2>3. x.hits <= n /\ 2 * x.hits > n /\ x.hits \in Nat
    BY <1>8
  <2> QED BY <2>1, <2>3
<1>12. Sound(Correlate(bs, s, table), s, n)
  BY <1>8, <1>9 DEF Sound
<1> QED BY <1>1, <1>2, <1>10, <1>11, <1>12

\* The merged list keeps each verdict's bounds and names a TTL once; what it
\* ascribes to a prober, that prober blames.
LEMMA MergeIs ==
  ASSUME NEW icmp, NEW tcp, NEW n, Sound(icmp, "icmp", n), Sound(tcp, "tcp", n),
         NEW m, m = MergeSuspects(icmp, tcp)
  PROVE  /\ m \subseteq [ttl : Nat, hits : Nat, source : Sources \cup {"icmp+tcp"}]
         /\ \A x \in m : x.hits <= n /\ 2 * x.hits > n
         /\ \A x, y \in m : x.ttl = y.ttl => x = y
         /\ \A x \in m : x.source \in {"icmp", "icmp+tcp"} => \E y \in icmp : y.ttl = x.ttl
         /\ \A x \in m : x.source \in {"tcp", "icmp+tcp"} => \E y \in tcp : y.ttl = x.ttl
         /\ icmp = {} /\ tcp = {} => m = {}
<1> DEFINE J(a, b) == [ttl |-> a.ttl, hits |-> Max({a.hits, b.hits}), source |-> "icmp+tcp"]
           Both(x) == \E a \in icmp, b \in tcp : a.ttl = b.ttl /\ x = J(a, b)
           Icmp(x) == x \in icmp /\ \A b \in tcp : b.ttl # x.ttl
           Tcp(x) == x \in tcp /\ \A a \in icmp : a.ttl # x.ttl
<1>1. \A x \in m : Both(x) \/ Icmp(x) \/ Tcp(x)
  <2> TAKE x \in m
  <2>1. CASE x \in {[ttl |-> p[1].ttl, hits |-> Max({p[1].hits, p[2].hits}),
                     source |-> "icmp+tcp"] : p \in {p \in icmp \X tcp : p[1].ttl = p[2].ttl}}
    <3>1. PICK p \in icmp \X tcp : /\ p[1].ttl = p[2].ttl
                                   /\ x = [ttl |-> p[1].ttl, hits |-> Max({p[1].hits, p[2].hits}),
                                           source |-> "icmp+tcp"]
      BY <2>1
    <3>2. p[1] \in icmp /\ p[2] \in tcp /\ x = J(p[1], p[2])
      BY <3>1
    <3> QED BY <3>1, <3>2
  <2>2. CASE x \in {a \in icmp : \A b \in tcp : b.ttl # a.ttl}
    BY <2>2
  <2>3. CASE x \in {b \in tcp : \A a \in icmp : a.ttl # b.ttl}
    BY <2>3
  <2>4. m = {[ttl |-> p[1].ttl, hits |-> Max({p[1].hits, p[2].hits}),
                     source |-> "icmp+tcp"] : p \in {p \in icmp \X tcp : p[1].ttl = p[2].ttl}}
            \cup {a \in icmp : \A b \in tcp : b.ttl # a.ttl}
            \cup {b \in tcp : \A a \in icmp : a.ttl # b.ttl}
    BY DEF MergeSuspects
  <2> QED BY <2>1, <2>2, <2>3, <2>4
<1>2. n \in Nat
  BY DEF Sound
<1>3. \A x \in icmp : /\ x \in [ttl : Nat, hits : Nat, source : {"icmp"}]
                      /\ x.hits <= n /\ 2 * x.hits > n
  BY DEF Sound
<1>4. \A x \in tcp : /\ x \in [ttl : Nat, hits : Nat, source : {"tcp"}]
                     /\ x.hits <= n /\ 2 * x.hits > n
  BY DEF Sound
<1>5. /\ \A x, y \in icmp : x.ttl = y.ttl => x = y
      /\ \A x, y \in tcp : x.ttl = y.ttl => x = y
  BY DEF Sound
<1>6. ASSUME NEW x, Both(x)
      PROVE  /\ x \in [ttl : Nat, hits : Nat, source : Sources \cup {"icmp+tcp"}]
             /\ x.hits <= n /\ 2 * x.hits > n
             /\ \E a \in icmp : a.ttl = x.ttl
             /\ \E a \in tcp : a.ttl = x.ttl
  <2>1. PICK a \in icmp, b \in tcp : a.ttl = b.ttl /\ x = J(a, b)
    BY <1>6
  <2>2. PICK t \in Nat, p \in Nat, q \in Nat : t = a.ttl /\ p = a.hits /\ q = b.hits
    BY <1>3, <1>4
  <2>3. Max({p, q}) \in {p, q}
    BY MaxOfTwo
  <2>4. PICK h \in {p, q} : x = [ttl |-> t, hits |-> h, source |-> "icmp+tcp"]
    BY <2>1, <2>2, <2>3
  <2>5. p <= n /\ 2 * p > n /\ q <= n /\ 2 * q > n
    BY <1>3, <1>4, <2>2
  <2>6. h \in Nat /\ h <= n /\ 2 * h > n
    BY <2>4, <2>5
  <2>7. x.ttl = a.ttl /\ x.ttl = b.ttl /\ x.hits = h
    BY <2>1, <2>2, <2>4
  <2>8. x \in [ttl : Nat, hits : Nat, source : Sources \cup {"icmp+tcp"}]
    BY <2>4, <2>6
  <2> QED BY <2>6, <2>7, <2>8
<1>7. \A x : Both(x) => x.source = "icmp+tcp"
  OBVIOUS
<1>8. ASSUME NEW x, NEW y, Both(x), Both(y), x.ttl = y.ttl
      PROVE  x = y
  <2>1. PICK a \in icmp, b \in tcp : a.ttl = b.ttl /\ x = J(a, b)
    BY <1>8
  <2>2. PICK c \in icmp, d \in tcp : c.ttl = d.ttl /\ y = J(c, d)
    BY <1>8
  <2>3. x.ttl = a.ttl /\ y.ttl = c.ttl
    BY <2>1, <2>2
  <2>4. a = c /\ b = d
    BY <1>5, <1>8, <2>1, <2>2, <2>3
  <2> QED BY <2>1, <2>2, <2>4
<1> HIDE DEF Both
<1>9. m \subseteq [ttl : Nat, hits : Nat, source : Sources \cup {"icmp+tcp"}]
  <2>1. ASSUME NEW x \in m
        PROVE  x \in [ttl : Nat, hits : Nat, source : Sources \cup {"icmp+tcp"}]
    <3>1. CASE Both(x)
      BY <1>6, <3>1
    <3>2. CASE Icmp(x)
      BY <1>3, <3>2 DEF Sources
    <3>3. CASE Tcp(x)
      BY <1>4, <3>3 DEF Sources
    <3> QED BY <1>1, <3>1, <3>2, <3>3
  <2> QED BY <2>1
<1>10. \A x \in m : x.hits <= n /\ 2 * x.hits > n
  BY <1>1, <1>3, <1>4, <1>6
<1>11. ASSUME NEW x \in m, NEW y \in m, x.ttl = y.ttl
       PROVE  x = y
  <2>1. CASE Both(x)
    <3>1. (\E a \in icmp : a.ttl = y.ttl) /\ (\E a \in tcp : a.ttl = y.ttl)
      BY <1>6, <1>11, <2>1
    <3>2. Both(y)
      BY <1>1, <3>1
    <3> QED BY <1>8, <1>11, <2>1, <3>2
  <2>2. CASE Both(y)
    <3>1. (\E a \in icmp : a.ttl = x.ttl) /\ (\E a \in tcp : a.ttl = x.ttl)
      BY <1>6, <1>11, <2>2
    <3>2. Both(x)
      BY <1>1, <3>1
    <3> QED BY <1>8, <1>11, <2>2, <3>2
  <2>3. CASE ~ Both(x) /\ ~ Both(y)
    <3>1. (Icmp(x) \/ Tcp(x)) /\ (Icmp(y) \/ Tcp(y))
      BY <1>1, <2>3
    <3> QED BY <1>5, <1>11, <3>1
  <2> QED BY <2>1, <2>2, <2>3
<1>12. ASSUME NEW x \in m, x.source \in {"icmp", "icmp+tcp"}
       PROVE  \E y \in icmp : y.ttl = x.ttl
  <2>1. CASE Both(x)
    BY <1>6, <2>1
  <2>2. CASE Icmp(x)
    BY <2>2
  <2>3. CASE Tcp(x)
    <3>1. x.source = "tcp"
      BY <1>4, <2>3
    <3> QED BY <1>12, <3>1
  <2> QED BY <1>1, <2>1, <2>2, <2>3
<1>13. ASSUME NEW x \in m, x.source \in {"tcp", "icmp+tcp"}
       PROVE  \E y \in tcp : y.ttl = x.ttl
  <2>1. CASE Both(x)
    BY <1>6, <2>1
  <2>2. CASE Tcp(x)
    BY <2>2
  <2>3. CASE Icmp(x)
    <3>1. x.source = "icmp"
      BY <1>3, <2>3
    <3> QED BY <1>13, <3>1
  <2> QED BY <1>1, <2>1, <2>2, <2>3
<1>14. ASSUME icmp = {}, tcp = {}  PROVE m = {}
  <2>1. SUFFICES ASSUME NEW x \in m  PROVE FALSE
    OBVIOUS
  <2>2. CASE Both(x)
    BY <1>6, <1>14, <2>2
  <2>3. CASE Icmp(x) \/ Tcp(x)
    BY <1>14, <2>3
  <2> QED BY <1>1, <2>2, <2>3
<1> QED BY <1>9, <1>10, <1>11, <1>12, <1>13, <1>14

\* What the correlator needs of the state it reads.
Typed ==
  /\ buckets \in Seq(Buckets)
  /\ hops \in [Sources -> Seq(HopViews)]
  /\ \A s \in Sources : Distinct(hops[s])

\* So are the merged verdicts.
LEMMA SuspectsAre ==
  ASSUME Typed
  PROVE  LET n == Cardinality(LossEvents(buckets))
         IN  /\ Suspects \subseteq [ttl : Nat, hits : Nat, source : Sources \cup {"icmp+tcp"}]
             /\ \A x \in Suspects : x.hits <= n /\ 2 * x.hits > n
             /\ \A x, y \in Suspects : x.ttl = y.ttl => x = y
             /\ \A s \in Sources : \A x \in Suspects :
                  x.source \in {s, "icmp+tcp"} => \E i \in DOMAIN hops[s] : hops[s][i].ttl = x.ttl
             /\ (\A i \in DOMAIN buckets : buckets[i].pct = 0) => Suspects = {}
<1> DEFINE n == Cardinality(LossEvents(buckets))
<1>1. n \in Nat
  <2>1. CASE buckets = <<>>
    <3>1. LossEvents(buckets) = {}
      <4>1. DOMAIN buckets = {}
        BY <2>1
      <4> QED BY <4>1 DEF LossEvents
    <3> QED BY <3>1, FS_EmptySet
  <2>2. CASE buckets # <<>>
    BY <2>2, LossEventsAre DEF Typed
  <2> QED BY <2>1, <2>2
<1>2. ASSUME NEW s \in Sources
      PROVE  /\ Sound(Of(s), s, n)
             /\ \A x \in Of(s) : \E i \in DOMAIN hops[s] : x.ttl = hops[s][i].ttl
             /\ (\A i \in DOMAIN buckets : buckets[i].pct = 0) => Of(s) = {}
  <2>1. CASE buckets = <<>>
    <3>1. Of(s) = {}
      BY <2>1 DEF Of
    <3> HIDE DEF n
    <3> QED BY <1>1, <3>1 DEF Sound
  <2>2. CASE buckets # <<>>
    <3>1. Of(s) = Correlate(buckets, s, hops[s])
      BY <2>2 DEF Of
    <3>2. buckets \in Seq(Buckets) /\ hops[s] \in Seq(HopViews) /\ Distinct(hops[s])
      BY DEF Typed
    <3>3. /\ Sound(Correlate(buckets, s, hops[s]), s, n)
          /\ \A x \in Correlate(buckets, s, hops[s]) : \E i \in DOMAIN hops[s] : x.ttl = hops[s][i].ttl
          /\ LossEvents(buckets) = {} => Correlate(buckets, s, hops[s]) = {}
      BY <2>2, <3>2, CorrelateIs
    <3>4. (\A i \in DOMAIN buckets : buckets[i].pct = 0) => LossEvents(buckets) = {}
      BY <2>2, <3>2, LossEventsAre
    <3> QED BY <3>1, <3>3, <3>4
  <2> QED BY <2>1, <2>2
<1> HIDE DEF n
<1>3. "icmp" \in Sources /\ "tcp" \in Sources /\ \A s \in Sources : s = "icmp" \/ s = "tcp"
  BY DEF Sources
<1>4. Sound(Of("icmp"), "icmp", n) /\ Sound(Of("tcp"), "tcp", n)
  BY <1>2, <1>3
<1>5. PICK icmp, tcp, m : icmp = Of("icmp") /\ tcp = Of("tcp") /\ m = Suspects
  OBVIOUS
<1>6. m = MergeSuspects(icmp, tcp)
  BY <1>5 DEF Suspects
<1>7. /\ m \subseteq [ttl : Nat, hits : Nat, source : Sources \cup {"icmp+tcp"}]
      /\ \A x \in m : x.hits <= n /\ 2 * x.hits > n
      /\ \A x, y \in m : x.ttl = y.ttl => x = y
      /\ \A x \in m : x.source \in {"icmp", "icmp+tcp"} => \E y \in icmp : y.ttl = x.ttl
      /\ \A x \in m : x.source \in {"tcp", "icmp+tcp"} => \E y \in tcp : y.ttl = x.ttl
      /\ icmp = {} /\ tcp = {} => m = {}
  <2>1. Sound(icmp, "icmp", n) /\ Sound(tcp, "tcp", n)
    BY <1>4, <1>5
  <2> QED BY <1>6, <2>1, MergeIs
<1>8. ASSUME NEW s \in Sources, NEW x \in m, x.source \in {s, "icmp+tcp"}
      PROVE  \E i \in DOMAIN hops[s] : hops[s][i].ttl = x.ttl
  <2>1. PICK y \in Of(s) : y.ttl = x.ttl
    BY <1>3, <1>5, <1>7, <1>8
  <2>2. PICK i \in DOMAIN hops[s] : y.ttl = hops[s][i].ttl
    BY <1>2
  <2> QED BY <2>1, <2>2
<1>9. (\A i \in DOMAIN buckets : buckets[i].pct = 0) => m = {}
  BY <1>2, <1>3, <1>5, <1>7
<1> QED BY <1>5, <1>7, <1>8, <1>9 DEF n

-----------------------------------------------------------------------------
(* Marks change nothing a verdict rests on. *)

\* Two tables that differ in their marks only.
Alike(a, b) ==
  /\ DOMAIN a = DOMAIN b
  /\ \A i \in DOMAIN a :
       /\ a[i].ttl = b[i].ttl /\ a[i].responds = b[i].responds /\ a[i].rtt = b[i].rtt
       /\ a[i].baseline = b[i].baseline /\ a[i].loss = b[i].loss

\* Two timelines whose tables do.
AlikeSeconds(bs, cs) ==
  /\ DOMAIN bs = DOMAIN cs
  /\ \A i \in DOMAIN bs :
       /\ bs[i].t = cs[i].t /\ bs[i].recv = cs[i].recv
       /\ bs[i].lost = cs[i].lost /\ bs[i].pct = cs[i].pct
       /\ \A s \in Sources : Alike(bs[i].hops[s], cs[i].hops[s])

\* Marks do not change which seconds are explained,
LEMMA LossEventsKept ==
  ASSUME NEW bs, NEW cs, AlikeSeconds(bs, cs)
  PROVE  LossEvents(bs) = LossEvents(cs)
<1>1. DOMAIN bs = DOMAIN cs /\ \A i \in DOMAIN bs : bs[i].pct = cs[i].pct
  BY DEF AlikeSeconds
<1>2. Losses(bs) = Losses(cs)
  BY <1>1 DEF Losses
<1>3. Threshold(bs) = Threshold(cs)
  BY <1>2 DEF Threshold
<1>4. PICK h : h = Threshold(bs) /\ h = Threshold(cs)
  BY <1>3
<1>5. LossEvents(bs) = {i \in DOMAIN bs : 20 * bs[i].pct >= h}
      /\ LossEvents(cs) = {i \in DOMAIN cs : 20 * cs[i].pct >= h}
  BY <1>4 DEF LossEvents
<1> QED BY <1>1, <1>5

\* nor how often a hop stands out in them,
LEMMA HitsKept ==
  ASSUME NEW bs, NEW cs, AlikeSeconds(bs, cs), NEW s \in Sources,
         NEW a, NEW b, DOMAIN a \subseteq Nat, Len(a) = Len(b), Alike(a, b),
         \A i \in DOMAIN a : i + 1 .. Len(a) \subseteq DOMAIN a,
         NEW events, events \subseteq DOMAIN bs, NEW i \in DOMAIN a
  PROVE  Hits(bs, events, s, a, i) = Hits(cs, events, s, b, i)
<1>1. ASSUME NEW e \in events
      PROVE  /\ DOMAIN bs[e].hops[s] = DOMAIN cs[e].hops[s]
             /\ \A k \in DOMAIN bs[e].hops[s] :
                  /\ bs[e].hops[s][k].ttl = cs[e].hops[s][k].ttl
                  /\ bs[e].hops[s][k].rtt = cs[e].hops[s][k].rtt
                  /\ bs[e].hops[s][k].loss = cs[e].hops[s][k].loss
  BY DEF AlikeSeconds, Alike
<1>2. \A k \in DOMAIN a : /\ a[k].ttl = b[k].ttl /\ a[k].responds = b[k].responds
                          /\ a[k].baseline = b[k].baseline /\ a[k].loss = b[k].loss
  BY DEF Alike
<1>3. RttHits(bs, events, s, a[i]) = RttHits(cs, events, s, b[i])
  <2>1. ASSUME NEW e \in events
        PROVE  (\E h \in SeenIn(bs[e], s, a[i].ttl) : a[i].baseline > 0 /\ h.rtt > a[i].baseline)
                 <=> (\E h \in SeenIn(cs[e], s, b[i].ttl) : b[i].baseline > 0 /\ h.rtt > b[i].baseline)
    BY <1>1, <1>2 DEF SeenIn, ToSet
  <2>2. {e \in events : \E h \in SeenIn(bs[e], s, a[i].ttl) :
           a[i].baseline > 0 /\ h.rtt > a[i].baseline}
        = {e \in events : \E h \in SeenIn(cs[e], s, b[i].ttl) :
           b[i].baseline > 0 /\ h.rtt > b[i].baseline}
    BY <2>1
  <2> QED BY <2>2 DEF RttHits
<1>4. LossHits(bs, events, s, a, i) = LossHits(cs, events, s, b, i)
  <2>1. RateLimited(a, i) = RateLimited(b, i)
    <3>1. \A j \in i + 1 .. Len(a) : /\ a[j].responds = b[j].responds
                                     /\ a[j].loss = b[j].loss
      BY <1>2
    <3>2. a[i].loss = b[i].loss /\ Len(a) = Len(b)
      BY <1>2
    <3>3. RateLimited(a, i) <=> RateLimited(b, i)
      BY <3>1, <3>2 DEF RateLimited
    <3>4. RateLimited(a, i) \in BOOLEAN /\ RateLimited(b, i) \in BOOLEAN
      BY DEF RateLimited
    <3> QED BY <3>3, <3>4
  <2>2. ASSUME NEW e \in events
        PROVE  (\E h \in SeenIn(bs[e], s, a[i].ttl) : h.loss > 1)
                 <=> (\E h \in SeenIn(cs[e], s, b[i].ttl) : h.loss > 1)
    <3>1. PICK x, y, t : /\ x = bs[e].hops[s] /\ y = cs[e].hops[s]
                         /\ t = a[i].ttl /\ t = b[i].ttl
      BY <1>2
    <3>2. DOMAIN x = DOMAIN y
          /\ \A k \in DOMAIN x : x[k].ttl = y[k].ttl /\ x[k].loss = y[k].loss
      BY <1>1, <3>1
    <3>3. (\E h \in SeenIn(bs[e], s, t) : h.loss > 1)
            <=> \E k \in DOMAIN x : x[k].ttl = t /\ x[k].loss > 1
      BY <3>1 DEF SeenIn, ToSet
    <3>4. (\E h \in SeenIn(cs[e], s, t) : h.loss > 1)
            <=> \E k \in DOMAIN y : y[k].ttl = t /\ y[k].loss > 1
      BY <3>1 DEF SeenIn, ToSet
    <3> QED BY <3>1, <3>2, <3>3, <3>4
  <2>3. {e \in events : \E h \in SeenIn(bs[e], s, a[i].ttl) : h.loss > 1}
        = {e \in events : \E h \in SeenIn(cs[e], s, b[i].ttl) : h.loss > 1}
    BY <2>2
  <2> QED BY <2>1, <2>3 DEF LossHits
<1> QED BY <1>3, <1>4 DEF Hits

\* nor the verdict.
LEMMA CorrelateKept ==
  ASSUME NEW bs, NEW cs, AlikeSeconds(bs, cs), NEW s \in Sources,
         NEW a \in Seq(HopViews), NEW b \in Seq(HopViews), Alike(a, b)
  PROVE  Correlate(bs, s, a) = Correlate(cs, s, b)
<1>1. PICK events : events = LossEvents(bs) /\ events = LossEvents(cs)
  BY LossEventsKept
<1>2. events \subseteq DOMAIN bs
  BY <1>1 DEF LossEvents
<1>3. PICK n \in Nat : n = Len(a) /\ DOMAIN a = 1 .. n
  OBVIOUS
<1>4. DOMAIN b = 1 .. n /\ Len(b) = n
  <2>1. PICK m \in Nat : m = Len(b) /\ DOMAIN b = 1 .. m
    OBVIOUS
  <2>2. 1 .. m = 1 .. n
    BY <1>3, <2>1 DEF Alike
  <2>3. m = n
    BY <2>2
  <2> QED BY <2>1, <2>3
<1>5. DOMAIN a \subseteq Nat /\ \A i \in DOMAIN a : i + 1 .. Len(a) \subseteq DOMAIN a
  BY <1>3
<1>6. \A i \in DOMAIN a : Hits(bs, events, s, a, i) = Hits(cs, events, s, b, i)
  BY <1>2, <1>3, <1>4, <1>5, HitsKept
<1>7. \A i \in DOMAIN a : a[i].ttl = b[i].ttl /\ a[i].responds = b[i].responds
  BY DEF Alike
<1>8. {j \in DOMAIN a : a[j].responds} = {j \in DOMAIN b : b[j].responds}
  BY <1>3, <1>4, <1>7
<1>9. {[ttl |-> a[i].ttl, hits |-> Hits(bs, events, s, a, i), source |-> s] :
                 i \in {j \in DOMAIN a : a[j].responds}}
      = {[ttl |-> b[i].ttl, hits |-> Hits(cs, events, s, b, i), source |-> s] :
                 i \in {j \in DOMAIN b : b[j].responds}}
  <2>1. \A i \in {j \in DOMAIN a : a[j].responds} :
          [ttl |-> a[i].ttl, hits |-> Hits(bs, events, s, a, i), source |-> s]
            = [ttl |-> b[i].ttl, hits |-> Hits(cs, events, s, b, i), source |-> s]
    BY <1>6, <1>7
  <2> QED BY <1>8, <2>1
<1> QED BY <1>1, <1>9 DEF Correlate

-----------------------------------------------------------------------------
(* Marks. *)

\* A hop with its mark set to v.
Flagged(h, v) == [h EXCEPT !.suspect = v]

\* The other fields stay.
LEMMA FlaggedIs ==
  ASSUME NEW h \in HopViews, NEW v \in BOOLEAN
  PROVE  /\ Flagged(h, v) \in HopViews /\ Flagged(h, v).suspect = v
         /\ Flagged(h, v).ttl = h.ttl /\ Flagged(h, v).responds = h.responds
         /\ Flagged(h, v).rtt = h.rtt /\ Flagged(h, v).baseline = h.baseline
         /\ Flagged(h, v).loss = h.loss
<1>1. HopViews = [ttl : Nat, responds : BOOLEAN, rtt : Nat, baseline : Nat,
                  loss : 0 .. 100, suspect : BOOLEAN]
  BY DEF HopViews
<1>2. PICK a, r, q, m, l : /\ a = h.ttl /\ r = h.responds /\ q = h.rtt
                           /\ m = h.baseline /\ l = h.loss
  OBVIOUS
<1>3. a \in Nat /\ r \in BOOLEAN /\ q \in Nat /\ m \in Nat /\ l \in 0 .. 100
  BY <1>1, <1>2
<1>4. Flagged(h, v) = [ttl |-> a, responds |-> r, rtt |-> q, baseline |-> m,
                       loss |-> l, suspect |-> v]
  <2>1. h = [ttl |-> h.ttl, responds |-> h.responds, rtt |-> h.rtt,
             baseline |-> h.baseline, loss |-> h.loss, suspect |-> h.suspect]
    BY <1>1
  <2>2. PICK u : u = h.suspect
    OBVIOUS
  <2>3. h = [ttl |-> a, responds |-> r, rtt |-> q, baseline |-> m, loss |-> l, suspect |-> u]
    BY <1>2, <2>1, <2>2, Zenon
  <2> QED BY <2>3 DEF Flagged
<1>5. Flagged(h, v) \in HopViews
  BY <1>1, <1>3, <1>4
<1> QED BY <1>2, <1>4, <1>5

\* A copy of the table with other marks.
Copies(table, r, f) ==
  /\ table \in Seq(HopViews)
  /\ f \in [DOMAIN table -> BOOLEAN]
  /\ r = [i \in DOMAIN table |-> Flagged(table[i], f[i])]

\* It is the same table but for them.
LEMMA CopyIs ==
  ASSUME NEW table, NEW r, NEW f, Copies(table, r, f)
  PROVE  /\ r \in Seq(HopViews) /\ Alike(table, r)
         /\ \A i \in DOMAIN table : r[i].suspect = f[i]
         /\ Distinct(table) => Distinct(r)
<1>1. PICK n \in Nat : n = Len(table) /\ DOMAIN table = 1 .. n
  BY DEF Copies
<1>2. \A i \in 1 .. n : table[i] \in HopViews /\ f[i] \in BOOLEAN
  BY <1>1 DEF Copies
<1>3. r = [i \in 1 .. n |-> Flagged(table[i], f[i])]
  BY <1>1 DEF Copies
<1>4. \A i \in 1 .. n : r[i] = Flagged(table[i], f[i])
  BY <1>3
<1>5. ASSUME NEW i \in 1 .. n
      PROVE  /\ r[i] \in HopViews /\ r[i].suspect = f[i]
             /\ r[i].ttl = table[i].ttl /\ r[i].responds = table[i].responds
             /\ r[i].rtt = table[i].rtt /\ r[i].baseline = table[i].baseline
             /\ r[i].loss = table[i].loss
  BY <1>2, <1>4, FlaggedIs
<1>6. DOMAIN r = 1 .. n
  BY <1>3
<1>7. r \in Seq(HopViews)
  <2>1. r \in [1 .. n -> HopViews]
    BY <1>3, <1>5
  <2> QED BY <2>1
<1>8. Alike(table, r)
  BY <1>1, <1>5, <1>6 DEF Alike
<1>9. Distinct(table) => Distinct(r)
  BY <1>1, <1>5, <1>6 DEF Distinct
<1> QED BY <1>1, <1>5, <1>7, <1>8, <1>9

\* A mark is that of a hop in the table.
LEMMA MarksAre ==
  ASSUME NEW s, NEW table
  PROVE  \A p : p \in Marks(s, table)
                  <=> \E i \in DOMAIN table : table[i].suspect /\ p = <<s, table[i].ttl>>
BY DEF Marks

\* An unmarked table has no marks.
LEMMA UnmarkedIs ==
  ASSUME NEW table \in Seq(HopViews), NEW s
  PROVE  /\ Unmarked(table) \in Seq(HopViews) /\ Alike(table, Unmarked(table))
         /\ Marks(s, Unmarked(table)) = {}
         /\ Distinct(table) => Distinct(Unmarked(table))
<1>1. PICK f : f = [i \in DOMAIN table |-> FALSE]
  OBVIOUS
<1>2. PICK r : r = Unmarked(table)
  OBVIOUS
<1>3. Copies(table, r, f)
  BY <1>1, <1>2 DEF Copies, Unmarked, Flagged
<1>4. /\ r \in Seq(HopViews) /\ Alike(table, r)
      /\ \A i \in DOMAIN table : r[i].suspect = f[i]
      /\ Distinct(table) => Distinct(r)
  BY <1>3, CopyIs
<1>5. \A i \in DOMAIN r : ~ r[i].suspect
  BY <1>1, <1>4 DEF Alike
<1>6. Marks(s, r) = {}
  BY <1>5, MarksAre
<1> QED BY <1>2, <1>4, <1>6

\* A marked one has those it had and the TTLs it was given, all of them if it has the hops.
LEMMA WithMarksIs ==
  ASSUME NEW table \in Seq(HopViews), NEW ttls, NEW s
  PROVE  /\ WithMarks(table, ttls) \in Seq(HopViews) /\ Alike(table, WithMarks(table, ttls))
         /\ Distinct(table) => Distinct(WithMarks(table, ttls))
         /\ Marks(s, WithMarks(table, ttls)) \subseteq Marks(s, table) \cup ({s} \X ttls)
         /\ (\A t \in ttls : \E i \in DOMAIN table : table[i].ttl = t)
              => {s} \X ttls \subseteq Marks(s, WithMarks(table, ttls))
<1>1. PICK f : f = [i \in DOMAIN table |-> table[i].suspect \/ table[i].ttl \in ttls]
  OBVIOUS
<1>2. PICK r : r = WithMarks(table, ttls)
  OBVIOUS
<1>3. Copies(table, r, f)
  <2>1. f \in [DOMAIN table -> BOOLEAN]
    BY <1>1
  <2> QED BY <1>1, <1>2, <2>1 DEF Copies, WithMarks, Flagged
<1>4. /\ r \in Seq(HopViews) /\ Alike(table, r)
      /\ \A i \in DOMAIN table : r[i].suspect = f[i]
      /\ Distinct(table) => Distinct(r)
  BY <1>3, CopyIs
<1>5. /\ DOMAIN r = DOMAIN table
      /\ \A i \in DOMAIN table : /\ r[i].ttl = table[i].ttl
                                 /\ r[i].suspect <=> table[i].suspect \/ table[i].ttl \in ttls
  BY <1>1, <1>4 DEF Alike
<1>6. Marks(s, r) \subseteq Marks(s, table) \cup ({s} \X ttls)
  <2>1. ASSUME NEW p \in Marks(s, r)
        PROVE  p \in Marks(s, table) \cup ({s} \X ttls)
    <3>1. PICK i \in DOMAIN table : r[i].suspect /\ p = <<s, table[i].ttl>>
      BY <1>5, MarksAre
    <3>2. CASE table[i].suspect
      BY <3>1, <3>2, MarksAre
    <3>3. CASE table[i].ttl \in ttls
      BY <3>1, <3>3
    <3> QED BY <1>5, <3>1, <3>2, <3>3
  <2> QED BY <2>1
<1>7. ASSUME \A t \in ttls : \E i \in DOMAIN table : table[i].ttl = t
      PROVE  {s} \X ttls \subseteq Marks(s, r)
  <2>1. ASSUME NEW p \in {s} \X ttls
        PROVE  p \in Marks(s, r)
    <3>1. PICK t \in ttls : p = <<s, t>>
      OBVIOUS
    <3>2. PICK i \in DOMAIN table : table[i].ttl = t
      BY <1>7
    <3>3. i \in DOMAIN r /\ r[i].suspect /\ p = <<s, r[i].ttl>>
      BY <1>5, <3>1, <3>2
    <3> QED BY <3>3, MarksAre
  <2> QED BY <2>1
<1> QED BY <1>2, <1>4, <1>6, <1>7

-----------------------------------------------------------------------------
(* The inductive invariant, and one step for each operation. *)

\* The seconds add up, and each percentage is its second's.
TimelineInv ==
  /\ InOrder(buckets) /\ Percented(buckets)
  /\ AllRecv(buckets) = Previous.recv - since.recv
  /\ Previous.lost - since.lost <= AllLost(buckets)
  /\ AllLost(buckets) <= Previous.lost

\* The tables name a TTL once.
TtlInv == \A s \in Sources : Distinct(hops[s])

\* Marks are of this window, and so is what will be marked; before the report there
\* is no verdict.
MarksInv ==
  /\ MarksAreCurrent
  /\ phase = "measuring" => \A s \in Sources : reached[s] = {}
  /\ \A s \in Pending \ overtaken : TTLsOf(s) \subseteq reached[s]

\* Without the TUI nothing moves between the verdict and the report, and each
\* table gets its marks in its turn.
HighlightInv ==
  ~ tui =>
    /\ phase # "measuring" => verdict = Suspects
    /\ phase \in {"measuring", "correlated"} => Marks("icmp", hops["icmp"]) = {}
    /\ phase \in {"measuring", "correlated", "icmp"} => Marks("tcp", hops["tcp"]) = {}
    /\ phase \in {"icmp", "built"} => Marks("icmp", hops["icmp"]) = {"icmp"} \X TTLsOf("icmp")
    /\ phase = "built" => Marks("tcp", hops["tcp"]) = {"tcp"} \X TTLsOf("tcp")

\* The inductive invariant.
AggIInv == AggTypeOK /\ TimelineInv /\ TtlInv /\ MarksInv /\ HighlightInv

LEMMA SourcesAre ==
  /\ "icmp" \in Sources /\ "tcp" \in Sources
  /\ \A s \in Sources : s = "icmp" \/ s = "tcp"
BY DEF Sources

\* The last snapshot, or zero before the first.
LEMMA PreviousIs ==
  ASSUME AggTypeOK
  PROVE  Previous \in [t : 0 .. MaxSecond, recv : Nat, lost : Nat]
<1>1. 0 \in 0 .. MaxSecond
  BY AggregatorAssumption DEF AggregatorAssumption
<1>2. CASE last = NoStream
  BY <1>1, <1>2 DEF Previous
<1>3. CASE last # NoStream
  BY <1>3 DEF Previous, AggTypeOK
<1> QED BY <1>2, <1>3

\* The invariant gives the correlator what it needs.
LEMMA InvTyped == ASSUME AggTypeOK, TtlInv  PROVE Typed
BY DEF AggTypeOK, TtlInv, Typed

\* Seconds alike but for their hop tables add up to the same.
LEMMA AlikeAddUp ==
  ASSUME NEW bs \in Seq(Buckets), NEW r \in Seq(Buckets), AlikeSeconds(bs, r),
         InOrder(bs), Percented(bs)
  PROVE  InOrder(r) /\ Percented(r) /\ AllRecv(r) = AllRecv(bs) /\ AllLost(r) = AllLost(bs)
<1>1. DOMAIN r = DOMAIN bs
      /\ \A i \in DOMAIN bs : /\ bs[i].t = r[i].t /\ bs[i].recv = r[i].recv
                              /\ bs[i].lost = r[i].lost /\ bs[i].pct = r[i].pct
  BY DEF AlikeSeconds
<1>2. InOrder(r)
  BY <1>1 DEF InOrder
<1>3. Percented(r)
  <2>1. ASSUME NEW i \in DOMAIN r  PROVE r[i].pct = LossPct(r[i])
    <3>1. LossPct(r[i]) = LossPct(bs[i])
      BY <1>1, SamePct
    <3> QED BY <1>1, <3>1 DEF Percented
  <2> QED BY <2>1 DEF Percented
<1>4. [i \in DOMAIN r |-> r[i].recv] = [i \in DOMAIN bs |-> bs[i].recv]
  BY <1>1
<1>5. [i \in DOMAIN r |-> r[i].lost] = [i \in DOMAIN bs |-> bs[i].lost]
  BY <1>1
<1> QED BY <1>2, <1>3, <1>4, <1>5 DEF AllRecv, AllLost

\* The initial states.
LEMMA InitAgg == AggInit => AggIInv
<1> SUFFICES ASSUME AggInit PROVE AggIInv
  OBVIOUS
<1>1. hops = [s \in Sources |-> <<>>] /\ buckets = <<>> /\ last = NoStream
  BY DEF AggInit
<1>2. hops \in [Sources -> Seq(HopViews)]
  <2>1. <<>> \in Seq(HopViews)
    OBVIOUS
  <2> QED BY <1>1, <2>1
<1>3. AggTypeOK
  <2>1. 0 \in 0 .. MaxSecond /\ 0 \in 0 .. MaxSnapshots /\ 0 \in 0 .. MaxSweeps
    BY AggregatorAssumption DEF AggregatorAssumption
  <2>2. buckets \in Seq(Buckets)
    BY <1>1
  <2>3. sweeps \in [Sources -> [n : 0 .. MaxSweeps, t : 0 .. MaxSecond]]
    BY <2>1 DEF AggInit
  <2>4. since \in [recv : Nat, lost : Nat]
    BY DEF AggInit
  <2>5. tui \in BOOLEAN /\ phase = "measuring" /\ verdict = {} /\ snapshots = 0
    BY DEF AggInit
  <2>6. reached \in [Sources -> SUBSET Nat] /\ overtaken = {}
    BY DEF AggInit
  <2> QED BY <1>1, <1>2, <2>1, <2>2, <2>3, <2>4, <2>5, <2>6 DEF AggTypeOK
<1>4. AllRecv(buckets) = 0 /\ AllLost(buckets) = 0
  BY <1>1, <1>3, SumsAreCounts DEF AggTypeOK
<1>5. TimelineInv
  <2>1. Previous = [t |-> 0, recv |-> 0, lost |-> 0] /\ since = [recv |-> 0, lost |-> 0]
    BY <1>1 DEF Previous, AggInit
  <2>2. InOrder(buckets) /\ Percented(buckets)
    BY <1>1 DEF InOrder, Percented
  <2> QED BY <1>4, <2>1, <2>2 DEF TimelineInv
<1>6. \A s \in Sources : hops[s] = <<>>
  BY <1>1
<1>7. TtlInv
  BY <1>6 DEF TtlInv, Distinct
<1>8. \A s \in Sources : Marks(s, hops[s]) = {}
  <2>1. ASSUME NEW s \in Sources  PROVE Marks(s, hops[s]) = {}
    <3>1. DOMAIN hops[s] = {}
      BY <1>6
    <3> QED BY <3>1, MarksAre
  <2> QED BY <2>1
<1>9. MarksInv
  <2>1. DOMAIN buckets = {}
    BY <1>1
  <2>2. MarksAreCurrent
    BY <1>8, <2>1 DEF MarksAreCurrent, Current
  <2>3. phase = "measuring" /\ \A s \in Sources : reached[s] = {}
    BY DEF AggInit
  <2>4. Pending = {}
    BY <2>3 DEF Pending
  <2> QED BY <2>2, <2>3, <2>4 DEF MarksInv
<1>10. HighlightInv
  <2>1. phase = "measuring"
    BY DEF AggInit
  <2> QED BY <1>8, <2>1, SourcesAre DEF HighlightInv
<1> QED BY <1>3, <1>5, <1>7, <1>9, <1>10 DEF AggIInv

\* A snapshot keeps the invariant.
LEMMA IngestStreamKeeps == AggIInv /\ IngestStream => AggIInv'
<1> SUFFICES ASSUME AggIInv, IngestStream PROVE AggIInv'
  OBVIOUS
<1>1. AggTypeOK /\ TimelineInv /\ TtlInv /\ MarksInv /\ HighlightInv
  BY DEF AggIInv
<1>2. PICK step \in Steps, t \in {Previous.t, Previous.t + 1} :
        /\ t <= MaxSecond /\ Previous.lost + step.lost >= 0
        /\ last' = [t |-> t, recv |-> Previous.recv + step.recv,
                    lost |-> Previous.lost + step.lost]
        /\ buckets' = Ingested(buckets, t, step.recv, step.lost)
        /\ snapshots < MaxSnapshots /\ snapshots' = snapshots + 1
  BY DEF IngestStream
<1>3. UNCHANGED <<hops, report, sweeps, since, reached, overtaken>> /\ WorkersRun
  BY DEF IngestStream, window
<1>4. UNCHANGED <<hops, phase, verdict, tui, sweeps, since, reached, overtaken>>
  BY <1>3 DEF report
<1>5. PICK pt, pr, pl : /\ Previous = [t |-> pt, recv |-> pr, lost |-> pl]
                        /\ pt \in 0 .. MaxSecond /\ pr \in Nat /\ pl \in Nat
  BY <1>1, PreviousIs
<1>6. PICK r \in Nat, l \in Int : r = step.recv /\ l = step.lost
  <2>1. step \in [recv : Nat, lost : Int]
    BY AggregatorAssumption DEF AggregatorAssumption
  <2> QED BY <2>1
<1>7. t \in 0 .. MaxSecond
  <2>1. MaxSecond \in Nat /\ (t = pt \/ t = pt + 1) /\ t <= MaxSecond
    BY <1>2, <1>5, AggregatorAssumption DEF AggregatorAssumption
  <2> QED BY <1>5, <2>1
<1>8. buckets \in Seq(Buckets) /\ InOrder(buckets) /\ Percented(buckets)
  BY <1>1 DEF AggTypeOK, TimelineInv
<1>9. Fits(buckets, t, r, l) /\ buckets' = Ingested(buckets, t, r, l)
  BY <1>2, <1>6, <1>7, <1>8 DEF Fits
<1>10. /\ buckets' \in Seq(Buckets) /\ InOrder(buckets') /\ Percented(buckets')
       /\ AllRecv(buckets') = AllRecv(buckets) + r
       /\ l >= 0 => AllLost(buckets') = AllLost(buckets) + l
       /\ l < 0 => AllLost(buckets') = Above(AllLost(buckets), -l)
       /\ TablesFrom(buckets, buckets')
  <2>1. PICK b, c : b = buckets /\ c = buckets' /\ Fits(b, t, r, l) /\ c = Ingested(b, t, r, l)
    BY <1>9
  <2>2. /\ c \in Seq(Buckets) /\ InOrder(c) /\ Percented(c)
        /\ AllRecv(c) = AllRecv(b) + r
        /\ l >= 0 => AllLost(c) = AllLost(b) + l
        /\ l < 0 => AllLost(c) = Above(AllLost(b), -l)
        /\ TablesFrom(b, c)
    BY <2>1, IngestedIs
  <2> QED BY <2>1, <2>2
<1>11. last' = [t |-> t, recv |-> pr + r, lost |-> pl + l] /\ pl + l \in Nat /\ pr + r \in Nat
  BY <1>2, <1>5, <1>6
<1>12. last' \in [t : 0 .. MaxSecond, recv : Nat, lost : Nat]
  BY <1>7, <1>11
<1>13. Previous' = last'
  <2>1. last' # NoStream
    BY <1>12, AggregatorAssumption DEF AggregatorAssumption
  <2> QED BY <2>1 DEF Previous
<1>14. AggTypeOK'
  <2>1. snapshots' \in 0 .. MaxSnapshots
    <3>1. snapshots \in 0 .. MaxSnapshots /\ MaxSnapshots \in Nat
      BY <1>1, AggregatorAssumption DEF AggTypeOK, AggregatorAssumption
    <3> QED BY <1>2, <3>1
  <2> QED BY <1>1, <1>4, <1>10, <1>12, <2>1 DEF AggTypeOK
<1>15. TimelineInv'
  <2>1. PICK sr \in Nat, sl \in Nat : sr = since.recv /\ sl = since.lost
    BY <1>1 DEF AggTypeOK
  <2>2. PICK x \in Nat, y \in Nat : x = AllRecv(buckets) /\ y = AllLost(buckets)
    BY <1>8, SumsAreCounts
  <2>3. x = pr - sr /\ pl - sl <= y /\ y <= pl
    BY <1>1, <1>5, <2>1, <2>2 DEF TimelineInv
  <2>4. Previous'.recv = pr + r /\ Previous'.lost = pl + l /\ since' = since
    BY <1>4, <1>11, <1>13
  <2>5. AllRecv(buckets') = x + r
    BY <1>10, <2>2
  <2>6. (l >= 0 => AllLost(buckets') = y + l) /\ (l < 0 => AllLost(buckets') = Above(y, -l))
    BY <1>10, <2>2
  <2>7. AllRecv(buckets') = (pr + r) - sr
    BY <1>5, <2>3, <2>5
  <2>8. (pl + l) - sl <= AllLost(buckets') /\ AllLost(buckets') <= pl + l
    <3>1. CASE l >= 0
      BY <1>5, <2>3, <2>6, <3>1
    <3>2. CASE l < 0
      <4>1. -l \in Nat /\ AllLost(buckets') = IF y > -l THEN y - (-l) ELSE 0
        BY <2>6, <3>2 DEF Above
      <4> QED BY <1>5, <1>11, <2>3, <3>2, <4>1
    <3> QED BY <3>1, <3>2
  <2> QED BY <1>10, <2>1, <2>4, <2>7, <2>8 DEF TimelineInv
<1>16. TtlInv'
  BY <1>1, <1>4 DEF TtlInv
<1>17. MarksInv'
  <2>1. ASSUME NEW s \in Sources \ overtaken'
        PROVE  /\ Marks(s, hops'[s]) \subseteq {s} \X reached'[s]
               /\ \A i \in DOMAIN buckets' : Marks(s, buckets'[i].hops[s]) \subseteq {s} \X reached'[s]
    <3>1. Marks(s, hops'[s]) \subseteq {s} \X reached'[s]
      BY <1>1, <1>4 DEF MarksInv, MarksAreCurrent, Current
    <3>2. ASSUME NEW i \in DOMAIN buckets'
          PROVE  Marks(s, buckets'[i].hops[s]) \subseteq {s} \X reached'[s]
      <4>1. CASE \E j \in DOMAIN buckets : buckets'[i].hops = buckets[j].hops
        BY <1>1, <1>4, <4>1 DEF MarksInv, MarksAreCurrent, Current
      <4>2. CASE buckets'[i].hops[s] = <<>>
        <5>1. DOMAIN buckets'[i].hops[s] = {}
          BY <4>2
        <5>2. Marks(s, buckets'[i].hops[s]) = {}
          BY <5>1 DEF Marks
        <5> QED BY <5>2
      <4> QED BY <1>10, <4>1, <4>2 DEF TablesFrom
    <3> QED BY <3>1, <3>2
  <2>2. MarksAreCurrent'
    BY <2>1 DEF MarksAreCurrent, Current
  <2>3. Pending' = Pending /\ \A x \in Sources : TTLsOf(x)' = TTLsOf(x)
    BY <1>4 DEF Pending, TTLsOf
  <2>4. Pending \subseteq Sources
    BY DEF Pending, Sources
  <2> QED BY <1>1, <1>4, <2>2, <2>3, <2>4 DEF MarksInv
<1>18. HighlightInv'
  <2>1. ~ tui' => phase' = "measuring" /\ ~ tui
    BY <1>3, <1>4 DEF WorkersRun
  <2>2. ~ tui' => Marks("icmp", hops'["icmp"]) = {} /\ Marks("tcp", hops'["tcp"]) = {}
    BY <1>1, <1>4, <2>1 DEF HighlightInv
  <2> QED BY <2>1, <2>2 DEF HighlightInv
<1> QED BY <1>14, <1>15, <1>16, <1>17, <1>18 DEF AggIInv

\* What is assumed of the tables.
LEMMA TablesAre ==
  ASSUME NEW table \in Tables
  PROVE  table \in Seq(HopViews) /\ Distinct(table)
BY AggregatorAssumption DEF AggregatorAssumption, Distinct

\* The tables of the buckets are typed.
LEMMA BucketHopsAre ==
  ASSUME AggTypeOK
  PROVE  \A i \in DOMAIN buckets : /\ buckets[i] \in Buckets
                                   /\ buckets[i].hops \in [Sources -> Seq(HopViews)]
<1>1. buckets \in Seq(Buckets)
  BY DEF AggTypeOK
<1>2. \A i \in DOMAIN buckets : buckets[i] \in Buckets
  BY <1>1
<1> QED BY <1>2, BucketIs

\* A sweep's table replaces that of its second.
Sweeps(bs, t, s, table, r) ==
  /\ bs \in Seq(Buckets) /\ InOrder(bs) /\ Percented(bs) /\ t \in 0 .. MaxSecond
  /\ s \in Sources /\ table \in Seq(HopViews)
  /\ r = LET at == BucketAt(bs, t) IN [at EXCEPT ![Place(at, t)].hops[s] = table]

\* The sums stay; every table of a second was one before, is empty or is the new one.
LEMMA SweptIs ==
  ASSUME NEW bs, NEW t, NEW s, NEW table, NEW r, Sweeps(bs, t, s, table, r)
  PROVE  /\ r \in Seq(Buckets) /\ InOrder(r) /\ Percented(r)
         /\ AllRecv(r) = AllRecv(bs) /\ AllLost(r) = AllLost(bs)
         /\ \A i \in DOMAIN r : \A x \in Sources :
              \/ \E j \in DOMAIN bs : r[i].hops[x] = bs[j].hops[x]
              \/ r[i].hops[x] = <<>>
              \/ x = s /\ r[i].hops[x] = table
<1>0. /\ bs \in Seq(Buckets) /\ InOrder(bs) /\ Percented(bs) /\ t \in 0 .. MaxSecond
      /\ s \in Sources /\ table \in Seq(HopViews)
  BY DEF Sweeps
<1>1. PICK at, k : at = BucketAt(bs, t) /\ k = Place(at, t)
  OBVIOUS
<1>2. /\ at \in Seq(Buckets) /\ InOrder(at) /\ Percented(at)
      /\ k \in DOMAIN at /\ AllRecv(at) = AllRecv(bs) /\ AllLost(at) = AllLost(bs)
      /\ TablesFrom(bs, at)
  BY <1>0, <1>1, BucketAtIs
<1>3. at[k] \in Buckets
  BY <1>2
<1>4. at[k].hops \in [Sources -> Seq(HopViews)]
  BY <1>3, BucketIs
<1>5. PICK h \in [Sources -> Seq(HopViews)] : h = [at[k].hops EXCEPT ![s] = table]
  <2>1. [at[k].hops EXCEPT ![s] = table] \in [Sources -> Seq(HopViews)]
    BY <1>0, <1>4
  <2> QED BY <2>1
<1>6. PICK c : c = WithHops(at[k], h)
  OBVIOUS
<1>7. /\ c \in Buckets /\ c.t = at[k].t /\ c.recv = at[k].recv /\ c.lost = at[k].lost
      /\ c.pct = at[k].pct /\ c.hops = h
  BY <1>3, <1>6, WithHopsIs
<1>8. r = [at EXCEPT ![k] = c]
  BY <1>1, <1>5, <1>6 DEF WithHops, Sweeps
<1>9. Replaces(at, k, c, r)
  BY <1>2, <1>7, <1>8 DEF Replaces
<1>10. /\ r \in Seq(Buckets) /\ Len(r) = Len(at) /\ InOrder(r)
       /\ r[k] = c /\ \A i \in DOMAIN at \ {k} : r[i] = at[i]
       /\ AllRecv(r) = AllRecv(at) + c.recv - at[k].recv
       /\ AllLost(r) = AllLost(at) + c.lost - at[k].lost
  BY <1>9, ReplacedIs
<1>11. AllRecv(r) = AllRecv(at) /\ AllLost(r) = AllLost(at)
  <2>1. AllRecv(at) \in Nat /\ AllLost(at) \in Nat
    BY <1>2, SumsAreCounts
  <2>2. at[k].recv \in Nat /\ at[k].lost \in Nat
    BY <1>3, BucketIs
  <2> QED BY <1>7, <1>10, <2>1, <2>2
<1>12. DOMAIN r = DOMAIN at
  BY <1>8
<1>13. Percented(r)
  <2>1. ASSUME NEW i \in DOMAIN r  PROVE r[i].pct = LossPct(r[i])
    <3>1. CASE i = k
      <4>1. LossPct(c) = LossPct(at[k])
        BY <1>7, SamePct
      <4> QED BY <1>2, <1>7, <1>10, <3>1, <4>1 DEF Percented
    <3>2. CASE i # k
      BY <1>2, <1>10, <1>12, <3>2 DEF Percented
    <3> QED BY <3>1, <3>2
  <2> QED BY <2>1 DEF Percented
<1>14. ASSUME NEW i \in DOMAIN r, NEW x \in Sources
       PROVE  \/ \E j \in DOMAIN bs : r[i].hops[x] = bs[j].hops[x]
              \/ r[i].hops[x] = <<>>
              \/ x = s /\ r[i].hops[x] = table
  <2>1. \/ \E j \in DOMAIN bs : at[i].hops[x] = bs[j].hops[x]
        \/ at[i].hops[x] = <<>>
    BY <1>2, <1>12 DEF TablesFrom
  <2>2. CASE i # k
    <3>1. r[i] = at[i]
      BY <1>10, <1>12, <2>2
    <3> QED BY <2>1, <3>1
  <2>3. CASE i = k /\ x # s
    <3>1. r[i].hops[x] = at[i].hops[x]
      <4>1. r[i].hops = h
        BY <1>7, <1>10, <2>3
      <4>2. h[x] = at[k].hops[x]
        BY <1>4, <1>5, <2>3
      <4> QED BY <2>3, <4>1, <4>2
    <3> QED BY <2>1, <3>1
  <2>4. CASE i = k /\ x = s
    <3>1. r[i].hops = h /\ h[s] = table
      BY <1>0, <1>4, <1>5, <1>7, <1>10, <2>4
    <3> QED BY <2>4, <3>1
  <2> QED BY <2>2, <2>3, <2>4
<1> QED BY <1>2, <1>10, <1>11, <1>13, <1>14

\* A sweep keeps the invariant.
LEMMA ForwardHopKeeps ==
  ASSUME AggIInv, NEW s \in Sources, IngestForwardHop(s)
  PROVE  AggIInv'
<1>1. AggTypeOK /\ TimelineInv /\ TtlInv /\ MarksInv /\ HighlightInv
  BY DEF AggIInv
<1>2. PICK table \in Tables, t \in sweeps[s].t .. MaxSecond :
        /\ sweeps[s].n < MaxSweeps
        /\ hops' = [hops EXCEPT ![s] = Unmarked(table)]
        /\ buckets' =
             IF s = "tcp" /\ table = <<>> THEN buckets
             ELSE LET at == BucketAt(buckets, t)
                  IN  [at EXCEPT ![Place(at, t)].hops[s] = Unmarked(table)]
        /\ sweeps' = [sweeps EXCEPT ![s] = [n |-> @.n + 1, t |-> t]]
  BY DEF IngestForwardHop
<1>3. UNCHANGED <<last, phase, verdict, tui, snapshots, since, reached, overtaken>> /\ WorkersRun
  BY DEF IngestForwardHop, report, window
<1>4. PICK clean : clean = Unmarked(table)
  OBVIOUS
<1>5. table \in Seq(HopViews) /\ Distinct(table)
  BY TablesAre
<1>6. /\ clean \in Seq(HopViews) /\ Distinct(clean)
      /\ \A x : Marks(x, clean) = {}
  BY <1>4, <1>5, UnmarkedIs
<1>7. hops \in [Sources -> Seq(HopViews)] /\ hops' = [hops EXCEPT ![s] = clean]
  BY <1>1, <1>2, <1>4 DEF AggTypeOK
<1>8. hops' \in [Sources -> Seq(HopViews)] /\ hops'[s] = clean
      /\ \A x \in Sources \ {s} : hops'[x] = hops[x]
  BY <1>6, <1>7
<1>9. sweeps[s].t \in 0 .. MaxSecond /\ sweeps[s].n \in 0 .. MaxSweeps /\ MaxSecond \in Nat
      /\ MaxSweeps \in Nat
  <2>1. sweeps[s] \in [n : 0 .. MaxSweeps, t : 0 .. MaxSecond]
    BY <1>1 DEF AggTypeOK
  <2> QED BY <2>1, AggregatorAssumption DEF AggregatorAssumption
<1>10. t \in 0 .. MaxSecond
  BY <1>9
<1>11. sweeps' \in [Sources -> [n : 0 .. MaxSweeps, t : 0 .. MaxSecond]]
  <2>1. PICK m \in 0 .. MaxSweeps : m = sweeps[s].n + 1
    <3>1. sweeps[s].n + 1 \in 0 .. MaxSweeps
      BY <1>2, <1>9
    <3> QED BY <3>1
  <2>2. PICK y : y = [n |-> m, t |-> t]
    OBVIOUS
  <2>3. y \in [n : 0 .. MaxSweeps, t : 0 .. MaxSecond]
    BY <1>10, <2>2
  <2>4. sweeps' = [sweeps EXCEPT ![s] = y]
    BY <1>2, <2>1, <2>2
  <2>5. sweeps \in [Sources -> [n : 0 .. MaxSweeps, t : 0 .. MaxSecond]]
    BY <1>1 DEF AggTypeOK
  <2> QED BY <2>3, <2>4, <2>5
<1>12. buckets \in Seq(Buckets) /\ InOrder(buckets) /\ Percented(buckets)
  BY <1>1 DEF AggTypeOK, TimelineInv
<1>13. /\ buckets' \in Seq(Buckets) /\ InOrder(buckets') /\ Percented(buckets')
       /\ AllRecv(buckets') = AllRecv(buckets) /\ AllLost(buckets') = AllLost(buckets)
       /\ \A i \in DOMAIN buckets' : \A x \in Sources :
            \/ \E j \in DOMAIN buckets : buckets'[i].hops[x] = buckets[j].hops[x]
            \/ buckets'[i].hops[x] = <<>>
            \/ x = s /\ buckets'[i].hops[x] = clean
  <2>1. PICK b, r : b = buckets /\ r = buckets'
    OBVIOUS
  <2>2. CASE s = "tcp" /\ table = <<>>
    <3>1. r = b
      BY <1>2, <2>1, <2>2
    <3> QED BY <1>12, <2>1, <3>1
  <2>3. CASE ~ (s = "tcp" /\ table = <<>>)
    <3>2. buckets' = LET a == BucketAt(buckets, t)
                     IN  [a EXCEPT ![Place(a, t)].hops[s] = Unmarked(table)]
      BY <1>2, <2>3, Zenon
    <3>3. r = LET at == BucketAt(b, t) IN [at EXCEPT ![Place(at, t)].hops[s] = clean]
      BY <1>4, <2>1, <3>2
    <3>4. Sweeps(b, t, s, clean, r)
      BY <1>6, <1>10, <1>12, <2>1, <3>3 DEF Sweeps
    <3>5. /\ r \in Seq(Buckets) /\ InOrder(r) /\ Percented(r)
          /\ AllRecv(r) = AllRecv(b) /\ AllLost(r) = AllLost(b)
          /\ \A i \in DOMAIN r : \A x \in Sources :
               \/ \E j \in DOMAIN b : r[i].hops[x] = b[j].hops[x]
               \/ r[i].hops[x] = <<>>
               \/ x = s /\ r[i].hops[x] = clean
      BY <3>4, SweptIs
    <3> QED BY <2>1, <3>5
  <2> QED BY <2>2, <2>3
<1>14. AggTypeOK'
  BY <1>1, <1>3, <1>8, <1>11, <1>13 DEF AggTypeOK
<1>15. TimelineInv'
  BY <1>1, <1>3, <1>13 DEF TimelineInv, Previous
<1>16. TtlInv'
  BY <1>1, <1>6, <1>8 DEF TtlInv
<1>17. MarksInv'
  <2>1. ASSUME NEW x \in Sources \ overtaken'
        PROVE  /\ Marks(x, hops'[x]) \subseteq {x} \X reached'[x]
               /\ \A i \in DOMAIN buckets' : Marks(x, buckets'[i].hops[x]) \subseteq {x} \X reached'[x]
    <3>1. Marks(x, hops'[x]) \subseteq {x} \X reached'[x]
      BY <1>1, <1>3, <1>6, <1>8 DEF MarksInv, MarksAreCurrent, Current
    <3>2. ASSUME NEW i \in DOMAIN buckets'
          PROVE  Marks(x, buckets'[i].hops[x]) \subseteq {x} \X reached'[x]
      <4>1. CASE \E j \in DOMAIN buckets : buckets'[i].hops[x] = buckets[j].hops[x]
        BY <1>1, <1>3, <4>1 DEF MarksInv, MarksAreCurrent, Current
      <4>2. CASE buckets'[i].hops[x] = <<>>
        <5>1. DOMAIN buckets'[i].hops[x] = {}
          BY <4>2
        <5>2. Marks(x, buckets'[i].hops[x]) = {}
          BY <5>1 DEF Marks
        <5> QED BY <5>2
      <4>3. CASE buckets'[i].hops[x] = clean
        BY <1>6, <4>3
      <4> QED BY <1>13, <4>1, <4>2, <4>3
    <3> QED BY <3>1, <3>2
  <2>2. MarksAreCurrent'
    BY <2>1 DEF MarksAreCurrent, Current
  <2>3. Pending' = Pending /\ \A x \in Sources : TTLsOf(x)' = TTLsOf(x)
    BY <1>3 DEF Pending, TTLsOf
  <2>4. Pending \subseteq Sources
    BY DEF Pending, Sources
  <2> QED BY <1>1, <1>3, <2>2, <2>3, <2>4 DEF MarksInv
<1>18. HighlightInv'
  <2>1. ~ tui' => phase' = "measuring" /\ phase = "measuring" /\ ~ tui
    BY <1>3 DEF WorkersRun
  <2>2. ASSUME ~ tui', NEW x \in Sources, Marks(x, hops[x]) = {}
        PROVE  Marks(x, hops'[x]) = {}
    BY <1>6, <1>8, <2>2
  <2>3. ~ tui' => Marks("icmp", hops'["icmp"]) = {} /\ Marks("tcp", hops'["tcp"]) = {}
    BY <1>1, <2>1, <2>2, SourcesAre DEF HighlightInv
  <2> QED BY <2>1, <2>3 DEF HighlightInv
<1> QED BY <1>14, <1>15, <1>16, <1>17, <1>18 DEF AggIInv

-----------------------------------------------------------------------------
(* The report, its marks and Reset. *)

\* The verdict is what the correlator says of the state it is taken in.
LEMMA BuildReportKeeps == AggIInv /\ BuildReport => AggIInv'
<1> SUFFICES ASSUME AggIInv, BuildReport PROVE AggIInv'
  OBVIOUS
<1>1. AggTypeOK /\ TimelineInv /\ TtlInv /\ MarksInv /\ HighlightInv
  BY DEF AggIInv
<1>2. /\ phase = "measuring" /\ phase' = "correlated" /\ verdict' = Suspects
      /\ reached' = [s \in Sources |-> Blamed(Suspects, s)]
      /\ UNCHANGED <<buckets, last, hops, tui, snapshots, sweeps, since, overtaken>>
  BY DEF BuildReport
<1>3. Suspects' = Suspects
  BY <1>2 DEF Suspects, Of
<1>4. Suspects \subseteq [ttl : Nat, hits : Nat, source : Sources \cup {"icmp+tcp"}]
  BY <1>1, InvTyped, SuspectsAre
<1>5. AggTypeOK'
  <2>1. \A s \in Sources : Blamed(Suspects, s) \subseteq Nat
    BY <1>4 DEF Blamed
  <2>2. reached' \in [Sources -> SUBSET Nat]
    BY <1>2, <2>1
  <2> QED BY <1>1, <1>2, <1>4, <2>2 DEF AggTypeOK
<1>6. TimelineInv'
  BY <1>1, <1>2 DEF TimelineInv, Previous
<1>7. TtlInv' /\ MarksInv'
  <2>1. \A s \in Sources : reached[s] = {} /\ reached'[s] = Blamed(Suspects, s)
    BY <1>1, <1>2 DEF MarksInv
  <2>2. MarksAreCurrent'
    BY <1>1, <1>2, <2>1 DEF MarksInv, MarksAreCurrent, Current
  <2>3. \A s \in Sources : TTLsOf(s)' = reached'[s]
    BY <1>2, <2>1 DEF TTLsOf
  <2>4. Pending' \subseteq Sources
    BY <1>2 DEF Pending
  <2>5. MarksInv'
    BY <1>2, <2>2, <2>3, <2>4 DEF MarksInv
  <2> QED BY <1>1, <1>2, <2>5 DEF TtlInv
<1>8. HighlightInv'
  BY <1>1, <1>2, <1>3 DEF HighlightInv
<1> QED BY <1>5, <1>6, <1>7, <1>8 DEF AggIInv

\* A prober's marks change neither the counts nor the verdict.
LEMMA MarkIs ==
  ASSUME AggIInv, NEW s \in Sources, NEW from, NEW to, Mark(s, from, to),
         s \in Pending, Pending' \subseteq Pending, to # "measuring"
  PROVE  /\ phase = from /\ phase' = to
         /\ UNCHANGED <<last, verdict, tui, snapshots, sweeps, since, reached, overtaken>>
         /\ buckets' \in Seq(Buckets) /\ hops' \in [Sources -> Seq(HopViews)]
         /\ TimelineInv' /\ TtlInv' /\ MarksInv' /\ Suspects' = Suspects
         /\ hops'[s] = WithMarks(hops[s], TTLsOf(s))
         /\ \A x \in Sources \ {s} : hops'[x] = hops[x]
<1>1. AggTypeOK /\ TimelineInv /\ TtlInv /\ MarksInv
  BY DEF AggIInv
<1>2. PICK T : T = TTLsOf(s)
  OBVIOUS
<1>3. /\ phase = from /\ phase' = to
      /\ hops' = [hops EXCEPT ![s] = WithMarks(hops[s], T)]
      /\ buckets' = [i \in DOMAIN buckets |->
                      [buckets[i] EXCEPT !.hops[s] = WithMarks(buckets[i].hops[s], T)]]
      /\ UNCHANGED <<last, verdict, tui, snapshots, sweeps, since, reached, overtaken>>
  BY <1>2 DEF Mark, window
<1>4. hops \in [Sources -> Seq(HopViews)] /\ buckets \in Seq(Buckets)
  BY <1>1 DEF AggTypeOK
<1>5. /\ WithMarks(hops[s], T) \in Seq(HopViews)
      /\ Alike(hops[s], WithMarks(hops[s], T))
      /\ Distinct(hops[s]) => Distinct(WithMarks(hops[s], T))
      /\ Marks(s, WithMarks(hops[s], T)) \subseteq Marks(s, hops[s]) \cup ({s} \X T)
  BY <1>4, WithMarksIs
<1>6. /\ hops' \in [Sources -> Seq(HopViews)] /\ hops'[s] = WithMarks(hops[s], T)
      /\ \A x \in Sources \ {s} : hops'[x] = hops[x]
  <2>1. PICK w \in Seq(HopViews) : w = WithMarks(hops[s], T)
    BY <1>5
  <2>2. hops' = [hops EXCEPT ![s] = w]
    BY <1>3, <2>1
  <2> QED BY <1>4, <2>1, <2>2
<1>7. \A a : Alike(a, a)
  BY DEF Alike
<1>8. \A x \in Sources : Alike(hops[x], hops'[x])
  <2>1. ASSUME NEW x \in Sources  PROVE Alike(hops[x], hops'[x])
    <3>1. CASE x = s
      BY <1>5, <1>6, <3>1
    <3>2. CASE x # s
      BY <1>6, <1>7, <3>2
    <3> QED BY <3>1, <3>2
  <2> QED BY <2>1
<1>9. TtlInv'
  BY <1>1, <1>5, <1>6 DEF TtlInv
<1>10. DOMAIN buckets' = DOMAIN buckets
  BY <1>3
<1>11. ASSUME NEW i \in DOMAIN buckets
       PROVE  /\ buckets'[i] \in Buckets
              /\ buckets'[i].t = buckets[i].t /\ buckets'[i].recv = buckets[i].recv
              /\ buckets'[i].lost = buckets[i].lost /\ buckets'[i].pct = buckets[i].pct
              /\ buckets'[i].hops[s] = WithMarks(buckets[i].hops[s], T)
              /\ \A x \in Sources \ {s} : buckets'[i].hops[x] = buckets[i].hops[x]
              /\ buckets[i].hops \in [Sources -> Seq(HopViews)]
  <2>1. buckets[i] \in Buckets /\ buckets[i].hops \in [Sources -> Seq(HopViews)]
    BY <1>1, BucketHopsAre
  <2>2. PICK g, w : g = buckets[i].hops /\ w = WithMarks(buckets[i].hops[s], T)
    OBVIOUS
  <2>3. g \in [Sources -> Seq(HopViews)] /\ w \in Seq(HopViews)
    BY <2>1, <2>2, WithMarksIs
  <2>4. PICK h \in [Sources -> Seq(HopViews)] : h = [g EXCEPT ![s] = w]
    <3>1. [g EXCEPT ![s] = w] \in [Sources -> Seq(HopViews)]
      BY <2>3
    <3> QED BY <3>1
  <2>5. PICK c : c = WithHops(buckets[i], h)
    OBVIOUS
  <2>6. /\ c \in Buckets /\ c.t = buckets[i].t /\ c.recv = buckets[i].recv
        /\ c.lost = buckets[i].lost /\ c.pct = buckets[i].pct /\ c.hops = h
    BY <2>1, <2>5, WithHopsIs
  <2>7. buckets'[i] = c
    <3>1. buckets'[i] = [buckets[i] EXCEPT !.hops[s] = WithMarks(buckets[i].hops[s], T)]
      BY <1>3
    <3> QED BY <2>2, <2>4, <2>5, <3>1 DEF WithHops
  <2>8. h[s] = w /\ \A x \in Sources \ {s} : h[x] = g[x]
    BY <2>3, <2>4
  <2> QED BY <2>1, <2>2, <2>6, <2>7, <2>8
<1>12. buckets' \in Seq(Buckets)
  <2>1. PICK n \in Nat : n = Len(buckets) /\ DOMAIN buckets = 1 .. n
    BY <1>4
  <2>2. PICK b : b = buckets'
    OBVIOUS
  <2>3. b = [i \in 1 .. n |-> b[i]]
    BY <1>3, <2>1, <2>2
  <2>4. \A i \in 1 .. n : b[i] \in Buckets
    BY <1>11, <2>1, <2>2
  <2>5. b \in Seq(Buckets)
    BY <2>3, <2>4
  <2> QED BY <2>2, <2>5
<1>13. AlikeSeconds(buckets, buckets')
  <2>1. ASSUME NEW i \in DOMAIN buckets, NEW x \in Sources
        PROVE  Alike(buckets[i].hops[x], buckets'[i].hops[x])
    <3>1. CASE x = s
      <4>1. PICK g : g = buckets[i].hops[s] /\ g \in Seq(HopViews)
        BY <1>11
      <4>2. Alike(g, WithMarks(g, T))
        BY <4>1, WithMarksIs
      <4> QED BY <1>11, <3>1, <4>1, <4>2
    <3>2. CASE x # s
      BY <1>7, <1>11, <3>2
    <3> QED BY <3>1, <3>2
  <2> QED BY <1>10, <1>11, <2>1 DEF AlikeSeconds
<1>14. TimelineInv'
  <2>1. PICK b, c : b = buckets /\ c = buckets'
    OBVIOUS
  <2>2. b \in Seq(Buckets) /\ c \in Seq(Buckets) /\ AlikeSeconds(b, c)
        /\ InOrder(b) /\ Percented(b)
    BY <1>1, <1>4, <1>12, <1>13, <2>1 DEF TimelineInv
  <2>3. InOrder(c) /\ Percented(c) /\ AllRecv(c) = AllRecv(b) /\ AllLost(c) = AllLost(b)
    BY <2>2, AlikeAddUp
  <2>4. last' = last /\ since' = since
    BY <1>3
  <2> QED BY <1>1, <2>1, <2>3, <2>4 DEF TimelineInv, Previous
<1>15. Suspects' = Suspects
  <2>1. PICK b, c, g, h : b = buckets /\ c = buckets' /\ g = hops /\ h = hops'
    OBVIOUS
  <2>2. ASSUME NEW x \in Sources
        PROVE  Correlate(b, x, g[x]) = Correlate(c, x, h[x])
    <3>1. AlikeSeconds(b, c) /\ g[x] \in Seq(HopViews) /\ h[x] \in Seq(HopViews)
          /\ Alike(g[x], h[x])
      BY <1>4, <1>6, <1>8, <1>13, <2>1
    <3> QED BY <3>1, CorrelateKept
  <2>3. b = <<>> <=> c = <<>>
    <3>1. DOMAIN b = DOMAIN c /\ b \in Seq(Buckets) /\ c \in Seq(Buckets)
      BY <1>4, <1>10, <1>12, <2>1
    <3>2. \A z \in Seq(Buckets) : z = <<>> <=> DOMAIN z = {}
      OBVIOUS
    <3> QED BY <3>1, <3>2
  <2>4. \A x \in Sources : Of(x)' = Of(x)
    <3>1. ASSUME NEW x \in Sources
          PROVE  Of(x)' = Of(x)
      <4>1. Of(x) = IF b # <<>> THEN Correlate(b, x, g[x]) ELSE {}
        BY <2>1 DEF Of
      <4>2. Of(x)' = IF c # <<>> THEN Correlate(c, x, h[x]) ELSE {}
        BY <2>1 DEF Of
      <4> QED BY <2>2, <2>3, <4>1, <4>2
    <3> QED BY <3>1
  <2>5. Of("icmp")' = Of("icmp") /\ Of("tcp")' = Of("tcp")
    BY <2>4, SourcesAre
  <2> QED BY <2>5 DEF Suspects
<1>16. MarksInv'
  <2>0. s \notin overtaken => T \subseteq reached[s]
    BY <1>1, <1>2 DEF MarksInv
  <2>1. ASSUME NEW x \in Sources \ overtaken'
        PROVE  /\ Marks(x, hops'[x]) \subseteq {x} \X reached'[x]
               /\ \A i \in DOMAIN buckets' : Marks(x, buckets'[i].hops[x]) \subseteq {x} \X reached'[x]
    <3>1. Marks(x, hops'[x]) \subseteq {x} \X reached'[x]
      <4>1. CASE x = s
        BY <1>1, <1>3, <1>5, <1>6, <2>0, <4>1 DEF MarksInv, MarksAreCurrent, Current
      <4>2. CASE x # s
        BY <1>1, <1>3, <1>6, <4>2 DEF MarksInv, MarksAreCurrent, Current
      <4> QED BY <4>1, <4>2
    <3>2. ASSUME NEW i \in DOMAIN buckets
          PROVE  Marks(x, buckets'[i].hops[x]) \subseteq {x} \X reached'[x]
      <4>1. CASE x = s
        <5>1. Marks(s, WithMarks(buckets[i].hops[s], T))
                \subseteq Marks(s, buckets[i].hops[s]) \cup ({s} \X T)
          BY <1>11, WithMarksIs
        <5>2. Marks(s, buckets[i].hops[s]) \subseteq {s} \X reached[s] /\ T \subseteq reached[s]
          BY <1>1, <1>3, <2>0, <4>1 DEF MarksInv, MarksAreCurrent, Current
        <5>3. Marks(s, buckets'[i].hops[s]) \subseteq {s} \X reached[s]
          BY <1>11, <5>1, <5>2
        <5> QED BY <1>3, <4>1, <5>3
      <4>2. CASE x # s
        BY <1>1, <1>3, <1>11, <4>2 DEF MarksInv, MarksAreCurrent, Current
      <4> QED BY <4>1, <4>2
    <3> QED BY <1>10, <3>1, <3>2
  <2>2. MarksAreCurrent'
    BY <2>1 DEF MarksAreCurrent, Current
  <2>3. \A x \in Sources : TTLsOf(x)' = TTLsOf(x)
    BY <1>3 DEF TTLsOf
  <2>4. Pending' \subseteq Sources
    BY DEF Pending, Sources
  <2> QED BY <1>1, <1>3, <2>2, <2>3, <2>4 DEF MarksInv
<1> QED BY <1>2, <1>3, <1>6, <1>9, <1>12, <1>14, <1>15, <1>16

\* The hops a prober is to mark are in its table.
LEMMA MarksExactly ==
  ASSUME AggIInv, NEW s \in Sources, verdict = Suspects, Marks(s, hops[s]) = {}
  PROVE  Marks(s, WithMarks(hops[s], TTLsOf(s))) = {s} \X TTLsOf(s)
<1>1. Typed /\ hops[s] \in Seq(HopViews)
  BY InvTyped DEF AggIInv, AggTypeOK
<1>2. \A t \in TTLsOf(s) : \E i \in DOMAIN hops[s] : hops[s][i].ttl = t
  <2>1. ASSUME NEW t \in TTLsOf(s)
        PROVE  \E i \in DOMAIN hops[s] : hops[s][i].ttl = t
    <3>1. PICK x \in Suspects : x.source \in {s, "icmp+tcp"} /\ t = x.ttl
      BY DEF TTLsOf, Blamed
    <3> QED BY <1>1, <3>1, SuspectsAre
  <2> QED BY <2>1
<1>3. PICK T : T = TTLsOf(s)
  OBVIOUS
<1>4. /\ Marks(s, WithMarks(hops[s], T)) \subseteq Marks(s, hops[s]) \cup ({s} \X T)
      /\ {s} \X T \subseteq Marks(s, WithMarks(hops[s], T))
  BY <1>1, <1>2, <1>3, WithMarksIs
<1> QED BY <1>3, <1>4

\* The first marks keep the invariant.
LEMMA MarkSuspectsKeeps == AggIInv /\ MarkSuspects => AggIInv'
<1> SUFFICES ASSUME AggIInv, MarkSuspects PROVE AggIInv'
  OBVIOUS
<1>1. AggTypeOK /\ HighlightInv
  BY DEF AggIInv
<1>2. Mark("icmp", "correlated", "icmp") /\ "icmp" \in Sources /\ "tcp" \in Sources \ {"icmp"}
  BY SourcesAre DEF MarkSuspects
<1>0. "icmp" \in Pending /\ Pending' \subseteq Pending
  BY <1>2 DEF Mark, Pending, Sources
<1>3. /\ phase = "correlated" /\ phase' = "icmp"
      /\ UNCHANGED <<last, verdict, tui, snapshots, sweeps, since, reached, overtaken>>
      /\ buckets' \in Seq(Buckets) /\ hops' \in [Sources -> Seq(HopViews)]
      /\ TimelineInv' /\ TtlInv' /\ MarksInv' /\ Suspects' = Suspects
      /\ hops'["icmp"] = WithMarks(hops["icmp"], TTLsOf("icmp"))
      /\ hops'["tcp"] = hops["tcp"]
  BY <1>0, <1>2, MarkIs
<1>4. AggTypeOK'
  BY <1>1, <1>3 DEF AggTypeOK
<1>5. HighlightInv'
  <2>1. TTLsOf("icmp")' = TTLsOf("icmp")
    BY <1>3 DEF TTLsOf
  <2>2. ASSUME ~ tui
        PROVE  /\ verdict' = Suspects' /\ Marks("tcp", hops'["tcp"]) = {}
               /\ Marks("icmp", hops'["icmp"]) = {"icmp"} \X TTLsOf("icmp")
    <3>1. verdict = Suspects /\ Marks("icmp", hops["icmp"]) = {} /\ Marks("tcp", hops["tcp"]) = {}
      BY <1>1, <1>3, <2>2 DEF HighlightInv
    <3> QED BY <1>2, <1>3, <3>1, MarksExactly
  <2> QED BY <1>3, <2>1, <2>2 DEF HighlightInv
<1> QED BY <1>3, <1>4, <1>5 DEF AggIInv

\* So do the second.
LEMMA MarkTCPSuspectsKeeps == AggIInv /\ MarkTCPSuspects => AggIInv'
<1> SUFFICES ASSUME AggIInv, MarkTCPSuspects PROVE AggIInv'
  OBVIOUS
<1>1. AggTypeOK /\ HighlightInv
  BY DEF AggIInv
<1>2. Mark("tcp", "icmp", "built") /\ "tcp" \in Sources /\ "icmp" \in Sources \ {"tcp"}
  BY SourcesAre DEF MarkTCPSuspects
<1>0. "tcp" \in Pending /\ Pending' \subseteq Pending
  BY <1>2 DEF Mark, Pending, Sources
<1>3. /\ phase = "icmp" /\ phase' = "built"
      /\ UNCHANGED <<last, verdict, tui, snapshots, sweeps, since, reached, overtaken>>
      /\ buckets' \in Seq(Buckets) /\ hops' \in [Sources -> Seq(HopViews)]
      /\ TimelineInv' /\ TtlInv' /\ MarksInv' /\ Suspects' = Suspects
      /\ hops'["tcp"] = WithMarks(hops["tcp"], TTLsOf("tcp"))
      /\ hops'["icmp"] = hops["icmp"]
  BY <1>0, <1>2, MarkIs
<1>4. AggTypeOK'
  BY <1>1, <1>3 DEF AggTypeOK
<1>5. HighlightInv'
  <2>1. TTLsOf("icmp")' = TTLsOf("icmp") /\ TTLsOf("tcp")' = TTLsOf("tcp")
    BY <1>3 DEF TTLsOf
  <2>2. ASSUME ~ tui
        PROVE  /\ verdict' = Suspects'
               /\ Marks("icmp", hops'["icmp"]) = {"icmp"} \X TTLsOf("icmp")
               /\ Marks("tcp", hops'["tcp"]) = {"tcp"} \X TTLsOf("tcp")
    <3>1. verdict = Suspects /\ Marks("icmp", hops["icmp"]) = {"icmp"} \X TTLsOf("icmp")
          /\ Marks("tcp", hops["tcp"]) = {}
      BY <1>1, <1>3, <2>2 DEF HighlightInv
    <3> QED BY <1>2, <1>3, <3>1, MarksExactly
  <2> QED BY <1>3, <2>1, <2>2 DEF HighlightInv
<1> QED BY <1>3, <1>4, <1>5 DEF AggIInv

\* So does Reset: nothing is left to mark, and what came before it is remembered in since.
LEMMA ResetKeeps == AggIInv /\ Reset => AggIInv'
<1> SUFFICES ASSUME AggIInv, Reset PROVE AggIInv'
  OBVIOUS
<1>1. AggTypeOK /\ TimelineInv /\ TtlInv
  BY DEF AggIInv
<1>2. /\ tui /\ buckets' = <<>> /\ reached' = [s \in Sources |-> {}] /\ overtaken' = Pending
      /\ hops' = [s \in Sources |-> Unmarked(hops[s])]
      /\ since' = [recv |-> Previous.recv, lost |-> Previous.lost]
      /\ UNCHANGED <<last, phase, verdict, tui, snapshots, sweeps>>
  BY DEF Reset, Cleared, report
<1>3. \A s \in Sources : hops[s] \in Seq(HopViews) /\ Distinct(hops[s])
  BY <1>1 DEF AggTypeOK, TtlInv
<1>4. \A s \in Sources : /\ hops'[s] = Unmarked(hops[s]) /\ hops'[s] \in Seq(HopViews)
                         /\ Distinct(hops'[s]) /\ Marks(s, hops'[s]) = {}
  BY <1>2, <1>3, UnmarkedIs
<1>5. hops' \in [Sources -> Seq(HopViews)]
  <2>1. PICK h : h = hops'
    OBVIOUS
  <2>2. h = [s \in Sources |-> h[s]] /\ \A s \in Sources : h[s] \in Seq(HopViews)
    BY <1>2, <1>4, <2>1
  <2> QED BY <2>1, <2>2
<1>6. PICK pr \in Nat, pl \in Nat : pr = Previous.recv /\ pl = Previous.lost
  BY <1>1, PreviousIs
<1>7. AggTypeOK'
  <2>1. since' \in [recv : Nat, lost : Nat]
    BY <1>2, <1>6
  <2>2. buckets' \in Seq(Buckets)
    BY <1>2
  <2>3. reached' \in [Sources -> SUBSET Nat] /\ overtaken' \subseteq Sources
    BY <1>2 DEF Pending, Sources
  <2> QED BY <1>1, <1>2, <1>5, <2>1, <2>2, <2>3 DEF AggTypeOK
<1>8. TimelineInv'
  <2>0. <<>> \in Seq(Buckets)
    OBVIOUS
  <2>1. PICK b : b = buckets' /\ b = <<>> /\ b \in Seq(Buckets)
    BY <1>2, <2>0
  <2>2. AllRecv(b) = 0 /\ AllLost(b) = 0
    BY <2>1, SumsAreCounts
  <2>3. InOrder(b) /\ Percented(b)
    BY <2>1 DEF InOrder, Percented
  <2>4. Previous' = Previous
    BY <1>2 DEF Previous
  <2>5. since'.recv = pr /\ since'.lost = pl /\ Previous'.recv = pr /\ Previous'.lost = pl
    BY <1>2, <1>6, <2>4
  <2>6. /\ AllRecv(buckets') = 0 /\ AllLost(buckets') = 0
        /\ InOrder(buckets') /\ Percented(buckets')
    BY <2>1, <2>2, <2>3
  <2> QED BY <2>5, <2>6 DEF TimelineInv
<1>9. TtlInv'
  BY <1>4 DEF TtlInv
<1>10. MarksInv'
  <2>1. PICK b : b = buckets' /\ DOMAIN b = {}
    <3>1. DOMAIN <<>> = {}
      OBVIOUS
    <3> QED BY <1>2, <3>1
  <2>2. \A s \in Sources : Marks(s, hops'[s]) \subseteq {s} \X reached'[s]
    BY <1>4
  <2>3. \A s \in Sources : \A i \in DOMAIN buckets' :
          Marks(s, buckets'[i].hops[s]) \subseteq {s} \X reached'[s]
    BY <2>1
  <2>4. \A s \in Sources : reached'[s] = {}
    BY <1>2
  <2>5. Pending' = Pending
    BY <1>2 DEF Pending
  <2>6. MarksAreCurrent'
    BY <2>2, <2>3 DEF MarksAreCurrent, Current
  <2> QED BY <1>2, <2>4, <2>5, <2>6 DEF MarksInv
<1>11. HighlightInv'
  BY <1>2 DEF HighlightInv
<1> QED BY <1>7, <1>8, <1>9, <1>10, <1>11 DEF AggIInv

\* Theorem.  In every reachable state of the aggregator the timeline adds up, its
\* percentages are current, no table names a TTL twice, marks are of this window
\* where they were not overtaken by a Reset, and a report without the TUI marks what it names.
THEOREM AggInvariant == AggSpec => []AggIInv
<1>1. AggInit => AggIInv
  BY InitAgg
<1>2. AggIInv /\ [AggNext]_aggVars => AggIInv'
  <2> SUFFICES ASSUME AggIInv, [AggNext]_aggVars PROVE AggIInv'
    OBVIOUS
  <2>1. CASE IngestStream
    BY <2>1, IngestStreamKeeps
  <2>2. CASE Reset
    BY <2>2, ResetKeeps
  <2>3. CASE \E s \in Sources : IngestForwardHop(s)
    BY <2>3, ForwardHopKeeps
  <2>4. CASE BuildReport
    BY <2>4, BuildReportKeeps
  <2>5. CASE MarkSuspects
    BY <2>5, MarkSuspectsKeeps
  <2>6. CASE MarkTCPSuspects
    BY <2>6, MarkTCPSuspectsKeeps
  <2>7. CASE UNCHANGED aggVars
    <3>1. UNCHANGED <<buckets, last, hops, phase, verdict, tui, snapshots, sweeps, since, reached, overtaken>>
      BY <2>7 DEF aggVars, report, window
    <3>2. Suspects' = Suspects /\ TTLsOf("icmp")' = TTLsOf("icmp") /\ TTLsOf("tcp")' = TTLsOf("tcp")
      BY <3>1 DEF Suspects, Of, TTLsOf
    <3>3. AggTypeOK' /\ TtlInv'
      BY <3>1 DEF AggIInv, AggTypeOK, TtlInv
    <3>6. MarksInv'
      <4>1. MarksAreCurrent' /\ Pending' = Pending
        BY <3>1 DEF AggIInv, MarksInv, MarksAreCurrent, Current, Pending
      <4>2. Pending \subseteq Sources /\ \A s \in Sources : TTLsOf(s)' = TTLsOf(s)
        BY <3>1 DEF Pending, Sources, TTLsOf
      <4> QED BY <3>1, <4>1, <4>2 DEF AggIInv, MarksInv
    <3>4. TimelineInv'
      BY <3>1 DEF AggIInv, TimelineInv, Previous
    <3>5. HighlightInv'
      BY <3>1, <3>2 DEF AggIInv, HighlightInv
    <3> QED BY <3>3, <3>4, <3>5, <3>6 DEF AggIInv
  <2> QED BY <2>1, <2>2, <2>3, <2>4, <2>5, <2>6, <2>7 DEF AggNext
<1> QED BY <1>1, <1>2, PTL DEF AggSpec

\* Theorem.  The timeline is in order, with one bucket for a second, and its
\* seconds add up to the stream's counters, exactly before a Reset, also after
\* unwindLossLocked took late packets back.
THEOREM SecondsAddUp == AggSpec => []TimelineAddsUp
<1>1. AggIInv => TimelineAddsUp
  <2> SUFFICES ASSUME AggIInv PROVE TimelineAddsUp
    OBVIOUS
  <2>1. AggTypeOK /\ TimelineInv
    BY DEF AggIInv
  <2>2. /\ RecvIn(buckets, DOMAIN buckets) = AllRecv(buckets)
        /\ LostIn(buckets, DOMAIN buckets) = AllLost(buckets)
    BY DEF RecvIn, LostIn, AllRecv, AllLost
  <2> QED BY <2>1, <2>2 DEF TimelineAddsUp, TimelineInv
<1> QED BY <1>1, AggInvariant, PTL

\* Theorem.  A test with a second of one percent loss or more has seconds to
\* explain: lossEventThreshold's percentile is never above all of them.
THEOREM LossGetsExamined == AggSpec => []LossIsExamined
<1>1. AggIInv => LossIsExamined
  <2> SUFFICES ASSUME AggIInv, NEW i \in DOMAIN buckets, buckets[i].pct >= 100
               PROVE  LossEvents(buckets) # {}
    BY DEF LossIsExamined
  <2>1. buckets \in Seq(Buckets) /\ buckets # <<>>
    BY DEF AggIInv, AggTypeOK
  <2> QED BY <2>1, LossEventsAre
<1> QED BY <1>1, AggInvariant, PTL

\* Theorem.  Correlate, CorrelateTCP and MergeSuspects blame no hop for a stream
\* that lost nothing, report confidences above one half and up to one, and name a
\* TTL once.
THEOREM VerdictsAreSound == AggSpec => []VerdictsSound
<1>1. AggIInv => VerdictsSound
  <2> SUFFICES ASSUME AggIInv PROVE VerdictsSound
    OBVIOUS
  <2>1. AggTypeOK /\ TimelineInv /\ Typed /\ buckets \in Seq(Buckets)
    BY InvTyped DEF AggIInv, AggTypeOK
  <2>2. ASSUME Previous.lost = 0
        PROVE  Suspects = {}
    <3>1. AllLost(buckets) <= 0
      BY <2>1, <2>2 DEF TimelineInv
    <3>2. ASSUME NEW i \in DOMAIN buckets  PROVE buckets[i].pct = 0
      <4>1. buckets[i] \in Buckets
        BY <2>1
      <4>2. buckets[i].recv \in Nat /\ buckets[i].lost \in Nat
        BY <4>1, BucketIs
      <4>3. buckets[i].lost <= AllLost(buckets) /\ AllLost(buckets) \in Nat
        BY <2>1, SumsAreCounts
      <4>4. buckets[i].lost = 0
        BY <3>1, <4>2, <4>3
      <4>5. LossPct(buckets[i]) = 0
        BY <4>2, <4>4, LossPctIs
      <4> QED BY <2>1, <4>5 DEF TimelineInv, Percented
    <3> QED BY <2>1, <3>2, SuspectsAre
  <2>3. \A x \in Suspects : /\ x.hits <= Cardinality(LossEvents(buckets))
                            /\ 2 * x.hits > Cardinality(LossEvents(buckets))
    BY <2>1, SuspectsAre
  <2>4. \A x, y \in Suspects : x.ttl = y.ttl => x = y
    BY <2>1, SuspectsAre
  <2> QED BY <2>2, <2>3, <2>4 DEF VerdictsSound
<1> QED BY <1>1, AggInvariant, PTL

\* Theorem.  A mark in a table or in a bucket is of a verdict reached since the last
\* Reset, unless that Reset came between buildReportData's verdict and the marking
\* of this table (trace.go:751-765).
THEOREM MarksStayCurrent == AggSpec => []MarksAreCurrent
<1>1. AggIInv => MarksAreCurrent
  BY DEF AggIInv, MarksInv
<1> QED BY <1>1, AggInvariant, PTL

\* Theorem.  Without the TUI, buildReportData leaves exactly the merged suspects
\* marked in each prober's table.
THEOREM ReportIsHighlighted == AggSpec => []ReportHighlights
<1>1. AggIInv => ReportHighlights
  <2> SUFFICES ASSUME AggIInv, ~ tui, phase = "built", NEW s \in Sources
               PROVE  Marks(s, hops[s]) =
                        {<<s, x.ttl>> : x \in {y \in Suspects : y.source \in {s, "icmp+tcp"}}}
    BY DEF ReportHighlights
  <2>1. verdict = Suspects /\ Marks(s, hops[s]) = {s} \X TTLsOf(s)
    BY SourcesAre DEF AggIInv, HighlightInv
  <2>2. TTLsOf(s) = {x.ttl : x \in {y \in Suspects : y.source \in {s, "icmp+tcp"}}}
    BY <2>1 DEF TTLsOf, Blamed
  <2> QED BY <2>1, <2>2
<1> QED BY <1>1, AggInvariant, PTL
=============================================================================
