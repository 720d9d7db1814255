------------------------- MODULE AccumulatorOps_proofs -------------------------
(***************************************************************************)
(* Lemmas about the operators of AccumulatorOps: what each kind of arrival *)
(* does to the counters, how a recorded burst moves the bounds the buckets *)
(* stand for, and how the horizon splits.                                  *)
(***************************************************************************)
EXTENDS AccumulatorOps, FiniteSetTheorems, TLAPS

\* Missing and delivered sequence numbers add up to the horizon.
LEMMA HorizonSplit ==
  ASSUME NEW e \in Nat, NEW D \in SUBSET (0 .. e - 1)
  PROVE  /\ IsFiniteSet(D) /\ IsFiniteSet((0 .. e - 1) \ D)
         /\ Cardinality(D) \in Nat
         /\ Cardinality(D) <= e
         /\ Cardinality((0 .. e - 1) \ D) = e - Cardinality(D)
<1>1. PICK H : H = 0 .. e - 1
  OBVIOUS
<1>2. PICK M : M = H \ D
  OBVIOUS
<1>3. IsFiniteSet(H) /\ Cardinality(H) = e
  BY <1>1, FS_Interval
<1>4. IsFiniteSet(D) /\ IsFiniteSet(M) /\ Cardinality(D) <= e
  <2>1. D \in SUBSET H /\ M \in SUBSET H
    BY <1>1, <1>2
  <2> QED BY <1>3, <2>1, FS_Subset
<1>5. Cardinality(D) \in Nat /\ Cardinality(M) \in Nat
  BY <1>4, FS_CardinalityType
<1>6. Cardinality(D \cup M) = Cardinality(D) + Cardinality(M) - Cardinality(D \cap M)
  BY <1>4, FS_Union
<1>7. D \cup M = H /\ D \cap M = {}
  BY <1>1, <1>2
<1>8. Cardinality(H) = Cardinality(D) + Cardinality(M) - 0
  BY <1>6, <1>7, FS_EmptySet
<1>9. Cardinality(M) = e - Cardinality(D)
  BY <1>3, <1>5, <1>8
<1> QED BY <1>1, <1>2, <1>4, <1>5, <1>9

\* A burst is put in exactly one bucket.
LEMMA RecordBurstType ==
  ASSUME NEW b \in BurstBuckets, NEW n \in Nat
  PROVE  RecordBurst(b, n) \in BurstBuckets
BY DEF BurstBuckets, RecordBurst, Bump

\* A record stays a record of the counters when one field is overwritten.
LEMMA FieldTypes ==
  ASSUME NEW a \in AccumulatorType
  PROVE  /\ \A n \in Nat : /\ [a EXCEPT !.recv = n] \in AccumulatorType
                           /\ [a EXCEPT !.lost = n] \in AccumulatorType
                           /\ [a EXCEPT !.outOfOrder = n] \in AccumulatorType
                           /\ [a EXCEPT !.expectedSeq = n] \in AccumulatorType
                           /\ [a EXCEPT !.maxSeq = n] \in AccumulatorType
         /\ \A S \in SUBSET Nat : [a EXCEPT !.seen = S] \in AccumulatorType
         /\ [a EXCEPT !.seenAny = TRUE] \in AccumulatorType
         /\ \A b \in BurstBuckets : [a EXCEPT !.bursts = b] \in AccumulatorType
BY DEF AccumulatorType

LEMMA CountersAreNumbers ==
  ASSUME NEW a \in AccumulatorType
  PROVE  /\ a.recv \in Nat /\ a.lost \in Nat /\ a.outOfOrder \in Nat
         /\ a.duplicates \in Nat /\ a.localDrops \in Nat
         /\ a.expectedSeq \in Nat
         /\ a.seen \in SUBSET Nat /\ a.bursts \in BurstBuckets
         /\ a.seenAny \in BOOLEAN
BY DEF AccumulatorType

\* Remembering a packet keeps the map a set of sequence numbers.
LEMMA RememberType ==
  ASSUME NEW S \in SUBSET Nat, NEW s \in Nat
  PROVE  Remember(S, s) \in SUBSET Nat
BY DEF Remember

\* What an accepted packet at or past the expected one does to the counters.
LEMMA ForwardArrivalType ==
  ASSUME NEW a \in AccumulatorType, NEW s \in Nat, s >= a.expectedSeq
  PROVE  ForwardArrival(a, s) \in AccumulatorType
<1>1. /\ a.recv + 1 \in Nat /\ a.lost + (s - a.expectedSeq) \in Nat
      /\ s - a.expectedSeq \in Nat /\ s + 1 \in Nat
  BY CountersAreNumbers
<1>2. Remember(a.seen, s) \in SUBSET Nat
  BY CountersAreNumbers, RememberType
<1>3. RecordBurst(a.bursts, s - a.expectedSeq) \in BurstBuckets
  BY <1>1, CountersAreNumbers, RecordBurstType
<1>4. PICK a1 \in AccumulatorType : a1 = [a EXCEPT !.recv = a.recv + 1]
  BY <1>1, FieldTypes
<1>5. PICK a2 \in AccumulatorType :
        a2 = [a1 EXCEPT !.seen = Remember(a.seen, s)]
  BY <1>2, FieldTypes
<1>6. PICK a3 \in AccumulatorType : a3 = [a2 EXCEPT !.seenAny = TRUE]
  BY FieldTypes
<1>7. PICK a4 \in AccumulatorType :
        a4 = [a3 EXCEPT !.lost = a.lost + (s - a.expectedSeq)]
  BY <1>1, FieldTypes
<1>8. PICK a5 \in AccumulatorType :
        a5 = [a4 EXCEPT !.bursts = RecordBurst(a.bursts, s - a.expectedSeq)]
  BY <1>3, FieldTypes
<1>9. PICK a6 \in AccumulatorType : a6 = [a5 EXCEPT !.expectedSeq = s + 1]
  BY <1>1, FieldTypes
<1>10. PICK a7 \in AccumulatorType : a7 = [a6 EXCEPT !.maxSeq = s]
  BY FieldTypes
<1>11. ForwardArrival(a, s) = a7
  BY <1>4, <1>5, <1>6, <1>7, <1>8, <1>9, <1>10
     DEF ForwardArrival, AccumulatorType
<1> QED BY <1>11

LEMMA ForwardArrivalEffect ==
  ASSUME NEW a \in AccumulatorType, NEW s \in Nat
  PROVE  LET f == ForwardArrival(a, s)
         IN  /\ f.recv = a.recv + 1
             /\ f.lost = a.lost + (s - a.expectedSeq)
             /\ f.expectedSeq = s + 1
             /\ f.seen = Remember(a.seen, s)
             /\ f.outOfOrder = a.outOfOrder
             /\ f.duplicates = a.duplicates
             /\ f.localDrops = a.localDrops
             /\ f.bursts = RecordBurst(a.bursts, s - a.expectedSeq)
BY DEF AccumulatorType, ForwardArrival

\* What a packet before the expected one, not in the map, does to them.
LEMMA LateArrivalType ==
  ASSUME NEW a \in AccumulatorType, NEW s \in Nat
  PROVE  LateArrival(a, s) \in AccumulatorType
<1>1. /\ a.recv + 1 \in Nat /\ a.outOfOrder + 1 \in Nat
      /\ (IF a.lost > 0 THEN a.lost - 1 ELSE a.lost) \in Nat
  BY CountersAreNumbers
<1>2. Remember(a.seen, s) \in SUBSET Nat
  BY CountersAreNumbers, RememberType
<1>3. PICK a1 \in AccumulatorType : a1 = [a EXCEPT !.recv = a.recv + 1]
  BY <1>1, FieldTypes
<1>4. PICK a2 \in AccumulatorType :
        a2 = [a1 EXCEPT !.seen = Remember(a.seen, s)]
  BY <1>2, FieldTypes
<1>5. PICK a3 \in AccumulatorType :
        a3 = [a2 EXCEPT !.outOfOrder = a.outOfOrder + 1]
  BY <1>1, FieldTypes
<1>6. PICK a4 \in AccumulatorType :
        a4 = [a3 EXCEPT !.lost = IF a.lost > 0 THEN a.lost - 1 ELSE a.lost]
  BY <1>1, FieldTypes
<1>7. LateArrival(a, s) = a4
  BY <1>3, <1>4, <1>5, <1>6 DEF LateArrival, AccumulatorType
<1> QED BY <1>7

LEMMA LateArrivalEffect ==
  ASSUME NEW a \in AccumulatorType, NEW s \in Nat
  PROVE  LET f == LateArrival(a, s)
         IN  /\ f.recv = a.recv + 1
             /\ f.lost = IF a.lost > 0 THEN a.lost - 1 ELSE a.lost
             /\ f.expectedSeq = a.expectedSeq
             /\ f.seen = Remember(a.seen, s)
             /\ f.outOfOrder = a.outOfOrder + 1
             /\ f.duplicates = a.duplicates
             /\ f.localDrops = a.localDrops
             /\ f.bursts = a.bursts
BY DEF AccumulatorType, LateArrival

\* What a packet whose sequence number is in the map does to them.
LEMMA DuplicateEffect ==
  ASSUME NEW a \in AccumulatorType
  PROVE  LET f == [a EXCEPT !.duplicates = @ + 1]
         IN  /\ f \in AccumulatorType
             /\ f.duplicates = a.duplicates + 1
             /\ f.recv = a.recv /\ f.lost = a.lost
             /\ f.localDrops = a.localDrops
             /\ f.outOfOrder = a.outOfOrder
             /\ f.expectedSeq = a.expectedSeq
             /\ f.seen = a.seen /\ f.bursts = a.bursts
BY DEF AccumulatorType

\* An arrival that is not refused is counted once, as received or as a repeat.
LEMMA ObservedEffect ==
  ASSUME NEW a \in AccumulatorType, NEW s \in Nat, ~Refused(a, s)
  PROVE  LET f == Observed(a, s)
         IN  /\ f \in AccumulatorType
             /\ f.recv + f.duplicates = a.recv + a.duplicates + 1
             /\ f.localDrops = a.localDrops
<1>1. /\ a.recv \in Nat /\ a.duplicates \in Nat /\ a.expectedSeq \in Nat
  BY CountersAreNumbers
<1>2. CASE s \in a.seen
  BY <1>1, <1>2, DuplicateEffect DEF Observed
<1>3. CASE s \notin a.seen /\ s >= a.expectedSeq
  BY <1>1, <1>3, ForwardArrivalType, ForwardArrivalEffect DEF Observed
<1>4. CASE s \notin a.seen /\ ~(s >= a.expectedSeq)
  <2>1. Observed(a, s) = LateArrival(a, s)
    BY <1>4 DEF Observed
  <2>2. LateArrival(a, s) \in AccumulatorType
    BY LateArrivalType
  <2>3. /\ LateArrival(a, s).recv = a.recv + 1
        /\ LateArrival(a, s).duplicates = a.duplicates
        /\ LateArrival(a, s).localDrops = a.localDrops
    BY LateArrivalEffect
  <2> QED BY <1>1, <2>1, <2>2, <2>3
<1> QED BY <1>2, <1>3, <1>4

\* Pulled local drops are added and touch nothing else.
LEMMA LocalDropEffect ==
  ASSUME NEW a \in AccumulatorType, NEW n \in Nat
  PROVE  LET f == LocalDropAdded(a, n)
         IN  /\ f \in AccumulatorType
             /\ f.recv = a.recv /\ f.duplicates = a.duplicates
             /\ f.localDrops = a.localDrops + n
BY DEF AccumulatorType, LocalDropAdded

\* What the counters say when D is the set of numbers observed: lost never
\* exceeds the gaps below the expected one, gaps are at most losses plus what
\* repeats took back, and while D fits the map, lost is exactly the gaps.
Books(a, D) ==
  /\ a.seen \subseteq D /\ D \subseteq 0 .. a.expectedSeq - 1
  /\ a.lost + Cardinality(D) <= a.expectedSeq
  /\ a.expectedSeq <= a.lost + a.recv
  /\ Cardinality(D) <= MaxSeenEntries =>
       a.seen = D /\ a.expectedSeq <= a.lost + Cardinality(D)

LEMMA LocalDropKeepsBooks ==
  ASSUME NEW a \in AccumulatorType, NEW n \in Nat
  PROVE  LET f == LocalDropAdded(a, n)
         IN  /\ f.seen = a.seen /\ f.lost = a.lost /\ f.recv = a.recv
             /\ f.expectedSeq = a.expectedSeq
BY DEF AccumulatorType, LocalDropAdded

LEMMA NewBooks == Books(NewAccumulator, {})
<1>1. Cardinality({}) = 0
  BY FS_EmptySet
<1>2. /\ NewAccumulator.seen = {} /\ NewAccumulator.lost = 0
      /\ NewAccumulator.recv = 0 /\ NewAccumulator.expectedSeq = 0
  BY DEF NewAccumulator
<1> QED BY <1>1, <1>2 DEF Books

\* An arrival at or past the expected one opens a gap and is none itself.
LEMMA ForwardKeepsBooks ==
  ASSUME NEW a \in AccumulatorType, NEW D, Books(a, D),
         NEW s \in Nat, s >= a.expectedSeq
  PROVE  Books(ForwardArrival(a, s), D \cup {s})
<1>1. PICK e \in Nat : e = a.expectedSeq
  BY CountersAreNumbers
<1>2. PICK lost \in Nat : lost = a.lost
  BY CountersAreNumbers
<1>3. PICK recv \in Nat : recv = a.recv
  BY CountersAreNumbers
<1>4. D \in SUBSET (0 .. e - 1)
  BY <1>1 DEF Books
<1>5. IsFiniteSet(D) /\ Cardinality(D) \in Nat
  BY <1>4, HorizonSplit
<1>6. PICK d \in Nat : d = Cardinality(D)
  BY <1>5
<1>7. s \notin D
  BY <1>1, <1>4
<1>8. Cardinality(D \cup {s}) = d + 1
  BY <1>5, <1>6, <1>7, FS_AddElement
<1>9. PICK f : f = ForwardArrival(a, s)
  OBVIOUS
<1>10. /\ f.recv = recv + 1 /\ f.lost = lost + (s - e)
       /\ f.expectedSeq = s + 1 /\ f.seen = Remember(a.seen, s)
  BY <1>1, <1>2, <1>3, <1>9, ForwardArrivalEffect
<1>11. lost + d <= e /\ e <= lost + recv
       /\ (d <= MaxSeenEntries => a.seen = D /\ e <= lost + d)
  BY <1>1, <1>2, <1>3, <1>6 DEF Books
<1>12. D \cup {s} \subseteq 0 .. (s + 1) - 1
  BY <1>1, <1>4
<1>13. f.seen \subseteq D \cup {s}
  BY <1>10 DEF Books, Remember
<1>14. f.lost + (d + 1) <= f.expectedSeq /\ f.expectedSeq <= f.lost + f.recv
  BY <1>10, <1>11
<1>15. ASSUME d + 1 <= MaxSeenEntries
       PROVE  f.seen = D \cup {s} /\ f.expectedSeq <= f.lost + (d + 1)
  <2>1. d <= MaxSeenEntries /\ d < MaxSeenEntries
    BY <1>15, AccumulatorAssumption
  <2>2. a.seen = D /\ e <= lost + d
    BY <1>11, <2>1
  <2>3. f.seen = D \cup {s}
    BY <1>6, <1>10, <2>1, <2>2 DEF Remember
  <2>4. f.expectedSeq <= f.lost + (d + 1)
    BY <1>10, <2>2
  <2> QED BY <2>3, <2>4
<1>16. D \cup {s} \subseteq 0 .. f.expectedSeq - 1
  BY <1>10, <1>12
<1>17. Books(f, D \cup {s})
  BY <1>8, <1>13, <1>14, <1>15, <1>16 DEF Books
<1> QED BY <1>9, <1>17

\* A late arrival takes a loss back if there is one.  When the map has
\* forgotten the number, this may be a loss that was real.
LEMMA LateKeepsBooks ==
  ASSUME NEW a \in AccumulatorType, NEW D, Books(a, D),
         NEW s \in Nat, s < a.expectedSeq, s \notin a.seen
  PROVE  Books(LateArrival(a, s), D \cup {s})
<1>1. PICK e \in Nat : e = a.expectedSeq
  BY CountersAreNumbers
<1>2. PICK lost \in Nat : lost = a.lost
  BY CountersAreNumbers
<1>3. PICK recv \in Nat : recv = a.recv
  BY CountersAreNumbers
<1>4. D \in SUBSET (0 .. e - 1) /\ D \cup {s} \in SUBSET (0 .. e - 1)
  BY <1>1 DEF Books
<1>5. /\ IsFiniteSet(D) /\ Cardinality(D) \in Nat
      /\ Cardinality(D \cup {s}) \in Nat /\ Cardinality(D \cup {s}) <= e
  BY <1>4, HorizonSplit
<1>6. PICK d \in Nat : d = Cardinality(D)
  BY <1>5
<1>7. PICK c \in Nat : c = Cardinality(D \cup {s})
  BY <1>5
<1>8. c <= e /\ d <= c /\ c <= d + 1 /\ (s \notin D => c = d + 1)
  BY <1>5, <1>6, <1>7, FS_AddElement
<1>9. PICK f : f = LateArrival(a, s)
  OBVIOUS
<1>10. /\ f.recv = recv + 1
       /\ lost > 0 => f.lost = lost - 1
       /\ ~(lost > 0) => f.lost = lost
       /\ f.expectedSeq = e /\ f.seen = Remember(a.seen, s)
  BY <1>1, <1>2, <1>3, <1>9, LateArrivalEffect
<1>11. lost + d <= e /\ e <= lost + recv
       /\ (d <= MaxSeenEntries => a.seen = D /\ e <= lost + d)
  BY <1>1, <1>2, <1>3, <1>6 DEF Books
<1>12. f.seen \subseteq D \cup {s}
  BY <1>10 DEF Books, Remember
<1>13. f.lost + c <= e /\ e <= f.lost + f.recv
  BY <1>8, <1>10, <1>11
<1>14. ASSUME c <= MaxSeenEntries
       PROVE  f.seen = D \cup {s} /\ e <= f.lost + c
  <2>1. d <= MaxSeenEntries
    BY <1>8, <1>14, AccumulatorAssumption
  <2>2. a.seen = D /\ e <= lost + d
    BY <1>11, <2>1
  <2>3. c = d + 1
    BY <1>8, <2>2
  <2>4. d < MaxSeenEntries
    BY <1>14, <2>3, AccumulatorAssumption
  <2>5. f.seen = D \cup {s}
    BY <1>6, <1>10, <2>2, <2>4 DEF Remember
  <2>6. lost > 0
    BY <1>8, <2>2, <2>3
  <2>7. e <= f.lost + c
    BY <1>10, <2>2, <2>3, <2>6
  <2> QED BY <2>5, <2>7
<1>15. D \cup {s} \subseteq 0 .. f.expectedSeq - 1
  BY <1>4, <1>10
<1>16. Books(f, D \cup {s})
  BY <1>7, <1>10, <1>12, <1>13, <1>14, <1>15 DEF Books
<1> QED BY <1>9, <1>16

\* Whatever arrives and is not refused, the books stay true of what was seen.
LEMMA ObservedKeepsBooks ==
  ASSUME NEW a \in AccumulatorType, NEW D, Books(a, D),
         NEW s \in Nat, ~Refused(a, s)
  PROVE  Books(Observed(a, s), D \cup {s})
<1>1. a.expectedSeq \in Nat
  BY CountersAreNumbers
<1>2. CASE s \in a.seen
  <2>1. PICK f : f = [a EXCEPT !.duplicates = @ + 1]
    OBVIOUS
  <2>2. /\ f.lost = a.lost /\ f.recv = a.recv
        /\ f.expectedSeq = a.expectedSeq /\ f.seen = a.seen
    BY <2>1, DuplicateEffect
  <2>3. D \cup {s} = D
    BY <1>2 DEF Books
  <2>4. Observed(a, s) = f
    BY <1>2, <2>1 DEF Observed
  <2>5. Books(f, D)
    BY <2>2 DEF Books
  <2> QED BY <2>3, <2>4, <2>5
<1>3. CASE s \notin a.seen /\ s >= a.expectedSeq
  <2>1. Observed(a, s) = ForwardArrival(a, s)
    BY <1>3 DEF Observed
  <2> QED BY <1>3, <2>1, ForwardKeepsBooks
<1>4. CASE s \notin a.seen /\ ~(s >= a.expectedSeq)
  <2>1. Observed(a, s) = LateArrival(a, s)
    BY <1>4 DEF Observed
  <2>2. s < a.expectedSeq
    BY <1>1, <1>4
  <2> QED BY <1>4, <2>1, <2>2, LateKeepsBooks
<1> QED BY <1>2, <1>3, <1>4

\* What the books say of another set E of deliveries: the gaps of E and what
\* was observed of it fit below the expected number, and lost exceeds the
\* gaps by at most what was not observed.
LEMMA LossBrackets ==
  ASSUME NEW a \in AccumulatorType, NEW D, Books(a, D), NEW E, IsFiniteSet(E)
  PROVE  /\ Cardinality(D) \in Nat /\ Cardinality(Missing(a, E)) \in Nat
         /\ D \subseteq E =>
              Cardinality(Missing(a, E)) + Cardinality(D) <= a.expectedSeq
         /\ a.lost <= Cardinality(Missing(a, E)) + Cardinality(E \ D)
<1>1. PICK e \in Nat : e = a.expectedSeq
  BY CountersAreNumbers
<1>2. PICK M : M = (0 .. e - 1) \ D
  OBVIOUS
<1>3. PICK N : N = (0 .. e - 1) \ E
  OBVIOUS
<1>4. D \in SUBSET (0 .. e - 1)
  BY <1>1 DEF Books
<1>5. IsFiniteSet(M) /\ Cardinality(M) = e - Cardinality(D)
      /\ Cardinality(D) \in Nat
  BY <1>2, <1>4, HorizonSplit
<1>6. a.lost <= Cardinality(M) /\ a.lost \in Nat /\ Cardinality(M) \in Nat
  BY <1>1, <1>5, CountersAreNumbers, FS_CardinalityType DEF Books
<1>7. Missing(a, E) = N
  BY <1>1, <1>3 DEF Missing
<1>8. IsFiniteSet(N) /\ Cardinality(N) \in Nat
  <2>1. IsFiniteSet(0 .. e - 1)
    BY FS_Interval
  <2>2. N \in SUBSET (0 .. e - 1)
    BY <1>3
  <2> QED BY <2>1, <2>2, FS_Subset, FS_CardinalityType
<1>9. ASSUME D \subseteq E PROVE Cardinality(N) + Cardinality(D) <= e
  <2>1. N \in SUBSET M
    BY <1>2, <1>3, <1>9
  <2>2. Cardinality(N) <= Cardinality(M)
    BY <1>5, <2>1, FS_Subset
  <2> QED BY <1>5, <1>8, <2>2
<1>10. a.lost <= Cardinality(N) + Cardinality(E \ D)
  <2>1. PICK X : X = E \ D
    OBVIOUS
  <2>2. IsFiniteSet(X)
    BY <2>1, FS_Subset
  <2>3. /\ IsFiniteSet(N \cup X)
        /\ Cardinality(N \cup X)
             = Cardinality(N) + Cardinality(X) - Cardinality(N \cap X)
    BY <1>8, <2>2, FS_Union
  <2>4. M \in SUBSET (N \cup X)
    BY <1>2, <1>3, <2>1
  <2>5. Cardinality(M) <= Cardinality(N \cup X)
    BY <2>3, <2>4, FS_Subset
  <2>6. IsFiniteSet(N \cap X)
    BY <2>2, FS_Subset
  <2>7. /\ Cardinality(X) \in Nat
        /\ Cardinality(N \cap X) \in Nat /\ Cardinality(N \cup X) \in Nat
    BY <2>2, <2>3, <2>6, FS_CardinalityType
  <2> QED BY <1>6, <1>8, <2>1, <2>3, <2>5, <2>7
<1> QED BY <1>1, <1>5, <1>7, <1>8, <1>9, <1>10

LEMMA NewAccumulatorType == NewAccumulator \in AccumulatorType
BY DEF NewAccumulator, NoBursts, AccumulatorType, BurstBuckets

-----------------------------------------------------------------------------
(* The burst histogram. *)

LEMMA ProductGrows ==
  ASSUME NEW m \in Nat, NEW n \in Nat, NEW h \in Nat, m <= n
  PROVE  m * h <= n * h
<1>1. PICK d \in Nat : n = m + d
  BY Z3
<1>2. n * h = m * h + d * h
  BY <1>1, Z3
<1>3. d * h \in Nat /\ m * h \in Nat
  BY <1>1, Z3
<1> QED BY <1>2, <1>3

\* Recording a burst of n adds at most n to what the buckets must stand for,
\* and at least n to what they can stand for.
LEMMA RecordBurstFloor ==
  ASSUME NEW b \in BurstBuckets, NEW n \in Nat
  PROVE  /\ BurstFloor(b) \in Nat
         /\ BurstFloor(RecordBurst(b, n)) <= BurstFloor(b) + n
BY DEF BurstBuckets, BurstFloor, RecordBurst, Bump

LEMMA RecordBurstCeiling ==
  ASSUME NEW b \in BurstBuckets, NEW n \in Nat
  PROVE  BurstCeiling(b) + n <= BurstCeiling(RecordBurst(b, n))
<1>1. PICK c \in BurstBuckets : c = RecordBurst(b, n)
  BY RecordBurstType
<1>2. /\ b.one \in Nat /\ b.two \in Nat /\ b.three9 \in Nat /\ b.ten99 \in Nat
      /\ b.hundredUp \in Nat /\ b.max \in Nat
      /\ c.one \in Nat /\ c.two \in Nat /\ c.three9 \in Nat /\ c.ten99 \in Nat
      /\ c.hundredUp \in Nat /\ c.max \in Nat
  BY DEF BurstBuckets
<1>3. b.max <= c.max
  BY <1>1, <1>2 DEF RecordBurst
<1>4. PICK p \in Nat : p = b.max * b.hundredUp
  BY <1>2, Z3
<1>5. PICK q \in Nat : q = c.max * b.hundredUp
  BY <1>2, Z3
<1>6. p <= q
  BY <1>2, <1>3, <1>4, <1>5, ProductGrows
<1>7. PICK r \in Nat : r = c.max * c.hundredUp
  BY <1>2, Z3
<1>8. CASE n < 100
  <2>1. c.hundredUp = b.hundredUp
    BY <1>1, <1>2, <1>8 DEF RecordBurst, Bump
  <2>2. b.one + 2 * b.two + 9 * b.three9 + 99 * b.ten99 + n
          <= c.one + 2 * c.two + 9 * c.three9 + 99 * c.ten99
    BY <1>1, <1>2, <1>8 DEF RecordBurst, Bump
  <2>3. r = q
    BY <1>5, <1>7, <2>1
  <2>4. b.one + 2 * b.two + 9 * b.three9 + 99 * b.ten99 + p + n
          <= c.one + 2 * c.two + 9 * c.three9 + 99 * c.ten99 + r
    BY <1>2, <1>6, <2>2, <2>3
  <2> QED BY <1>1, <1>4, <1>7, <2>4 DEF BurstCeiling
<1>9. CASE n >= 100
  <2>1. /\ c.one = b.one /\ c.two = b.two /\ c.three9 = b.three9
        /\ c.ten99 = b.ten99 /\ c.hundredUp = b.hundredUp + 1 /\ n <= c.max
    BY <1>1, <1>2, <1>9 DEF RecordBurst, Bump
  <2>2. r = q + c.max
    <3>1. c.max * (b.hundredUp + 1) = c.max * b.hundredUp + c.max
      BY <1>2, Z3
    <3> QED BY <1>5, <1>7, <2>1, <3>1
  <2>3. b.one + 2 * b.two + 9 * b.three9 + 99 * b.ten99 + p + n
          <= c.one + 2 * c.two + 9 * c.three9 + 99 * c.ten99 + r
    BY <1>2, <1>6, <2>1, <2>2
  <2> QED BY <1>1, <1>4, <1>7, <2>3 DEF BurstCeiling
<1> QED BY <1>8, <1>9

LEMMA BurstCeilingType ==
  ASSUME NEW b \in BurstBuckets
  PROVE  BurstCeiling(b) \in Nat
<1>1. /\ b.one \in Nat /\ b.two \in Nat /\ b.three9 \in Nat /\ b.ten99 \in Nat
      /\ b.hundredUp \in Nat /\ b.max \in Nat
  BY DEF BurstBuckets
<1>2. PICK p \in Nat : p = b.max * b.hundredUp
  BY <1>1, Z3
<1> QED BY <1>1, <1>2 DEF BurstCeiling

\* The longest burst so far is in the bucket of its length.
LongestIsIn(b) ==
  \A f \in {"one", "two", "three9", "ten99", "hundredUp"} :
    RecordBurst(NoBursts, b.max)[f] <= b[f]

LEMMA LongestMeans ==
  ASSUME NEW b \in BurstBuckets
  PROVE  LongestIsIn(b) <=> /\ b.max = 1 => b.one >= 1
                            /\ b.max = 2 => b.two >= 1
                            /\ b.max \in 3 .. 9 => b.three9 >= 1
                            /\ b.max \in 10 .. 99 => b.ten99 >= 1
                            /\ b.max >= 100 => b.hundredUp >= 1
BY DEF BurstBuckets, LongestIsIn, RecordBurst, NoBursts, Bump

LEMMA RecordBurstLongest ==
  ASSUME NEW b \in BurstBuckets, NEW n \in Nat, LongestIsIn(b)
  PROVE  LongestIsIn(RecordBurst(b, n))
<1> DEFINE c == RecordBurst(b, n)
<1>1. c \in BurstBuckets
  BY RecordBurstType
<1>2. /\ b.max = 1 => b.one >= 1
      /\ b.max = 2 => b.two >= 1
      /\ b.max \in 3 .. 9 => b.three9 >= 1
      /\ b.max \in 10 .. 99 => b.ten99 >= 1
      /\ b.max >= 100 => b.hundredUp >= 1
  BY LongestMeans
<1>3. /\ c.max = 1 => c.one >= 1
      /\ c.max = 2 => c.two >= 1
      /\ c.max \in 3 .. 9 => c.three9 >= 1
      /\ c.max \in 10 .. 99 => c.ten99 >= 1
      /\ c.max >= 100 => c.hundredUp >= 1
  BY <1>2 DEF BurstBuckets, RecordBurst, Bump
<1> QED BY <1>1, <1>3, LongestMeans
=============================================================================
