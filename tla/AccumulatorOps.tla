---------------------------- MODULE AccumulatorOps ----------------------------
(***************************************************************************)
(* The receiver's counters (internal/stream/stats.go) as a record and the  *)
(* functions its methods compute.  Accumulator.tla gives them a state      *)
(* machine of their own; HubReceiver.tla runs one per session.             *)
(*                                                                         *)
(* Left out: RFC 3550 jitter and elapsed time, which no counter depends    *)
(* on.  The mutex is implicit: every method is one atomic step.            *)
(***************************************************************************)
EXTENDS Integers, FiniteSets

CONSTANTS
  MaxAcceptableGap, \* largest forward jump tolerated once a packet was seen
  MaxSeenEntries,   \* footprint of the duplicate-detection map
  MaxInt64          \* math.MaxInt64: sequence numbers above it are refused

ASSUME AccumulatorAssumption ==
  /\ MaxAcceptableGap \in Nat
  /\ MaxSeenEntries \in Nat
  /\ MaxInt64 \in Nat

-----------------------------------------------------------------------------
\* The loss-burst histogram: runs of 1, 2, 3-9, 10-99 and 100+ lost packets.
NoBursts == [one |-> 0, two |-> 0, three9 |-> 0, ten99 |-> 0,
             hundredUp |-> 0, max |-> 0]

NewAccumulator ==
  [recv |-> 0, lost |-> 0, outOfOrder |-> 0, duplicates |-> 0,
   localDrops |-> 0, kernelDrops |-> 0,
   expectedSeq |-> 0, maxSeq |-> 0, seenAny |-> FALSE, seen |-> {},
   bursts |-> NoBursts]

BurstBuckets == [one : Nat, two : Nat, three9 : Nat, ten99 : Nat,
                 hundredUp : Nat, max : Nat]

AccumulatorType ==
  [recv : Nat, lost : Nat, outOfOrder : Nat, duplicates : Nat,
   localDrops : Nat, kernelDrops : Nat,
   expectedSeq : Nat, maxSeq : Nat, seenAny : BOOLEAN, seen : SUBSET Nat,
   bursts : BurstBuckets]

-----------------------------------------------------------------------------
Bump(n, hit) == IF hit THEN n + 1 ELSE n

\* Slip: the 3-9 bucket stops one short.
RecordBurstShort(b, n) ==
  IF n <= 0 THEN b
  ELSE [b EXCEPT !.one = Bump(@, n = 1), !.two = Bump(@, n = 2),
                 !.three9 = Bump(@, n \in 3 .. 8),
                 !.ten99 = Bump(@, n \in 10 .. 99),
                 !.hundredUp = Bump(@, n >= 100),
                 !.max = IF n > @ THEN n ELSE @]

RecordBurst(b, n) ==
  IF n <= 0 THEN b
  ELSE [one       |-> Bump(b.one, n = 1),
        two       |-> Bump(b.two, n = 2),
        three9    |-> Bump(b.three9, n \in 3 .. 9),
        ten99     |-> Bump(b.ten99, n \in 10 .. 99),
        hundredUp |-> Bump(b.hundredUp, n >= 100),
        max       |-> IF n > b.max THEN n ELSE b.max]

\* Sequence numbers Observe drops before it touches any counter.
Refused(a, s) ==
  \/ s > MaxInt64
  \/ a.seenAny /\ s - a.expectedSeq > MaxAcceptableGap

\* The duplicate map stops growing once it is full.
Remember(seen, s) ==
  IF Cardinality(seen) < MaxSeenEntries THEN seen \cup {s} ELSE seen

\* A packet at or past the expected one: what it jumps over becomes a loss
\* burst.  The first packet is the case expectedSeq = 0.
ForwardArrival(a, s) ==
  [a EXCEPT !.recv = @ + 1,
            !.seen = Remember(@, s),
            !.seenAny = TRUE,
            !.lost = @ + (s - a.expectedSeq),
            !.bursts = RecordBurst(@, s - a.expectedSeq),
            !.expectedSeq = s + 1,
            !.maxSeq = s]

\* Slip: a late arrival is not taken back out of lost.
LateArrivalKept(a, s) ==
  [a EXCEPT !.recv = @ + 1, !.seen = Remember(@, s), !.outOfOrder = @ + 1]

\* A packet before the expected one, not in the map: it was counted lost.
LateArrival(a, s) ==
  [a EXCEPT !.recv = @ + 1,
            !.seen = Remember(@, s),
            !.outOfOrder = @ + 1,
            !.lost = IF @ > 0 THEN @ - 1 ELSE @]

\* Slip: repeats are not looked up.
ObservedBlindly(a, s) ==
  IF Refused(a, s) THEN a
  ELSE IF s >= a.expectedSeq THEN ForwardArrival(a, s)
  ELSE LateArrival(a, s)

Observed(a, s) ==
  IF Refused(a, s) THEN a
  ELSE IF s \in a.seen THEN [a EXCEPT !.duplicates = @ + 1]
  ELSE IF s >= a.expectedSeq THEN ForwardArrival(a, s)
  ELSE LateArrival(a, s)

LocalDropAdded(a, n) == [a EXCEPT !.localDrops = @ + n]

KernelDropsSet(a, n) == [a EXCEPT !.kernelDrops = n]

-----------------------------------------------------------------------------
\* What the counters stand for, given the set of sequence numbers delivered.
Missing(a, delivered) == (0 .. a.expectedSeq - 1) \ delivered

\* The fewest and the most packets the recorded bursts can stand for.
BurstFloor(b) ==
  b.one + 2 * b.two + 3 * b.three9 + 10 * b.ten99 + 100 * b.hundredUp

BurstCeiling(b) ==
  b.one + 2 * b.two + 9 * b.three9 + 99 * b.ten99 + b.max * b.hundredUp
=============================================================================
