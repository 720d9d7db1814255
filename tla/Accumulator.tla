------------------------------ MODULE Accumulator ------------------------------
(***************************************************************************)
(* internal/stream/stats.go: one Accumulator fed by the stats goroutine.   *)
(* The network may lose, repeat and reorder packets at will, so Observe    *)
(* takes any sequence number in any order.                                 *)
(***************************************************************************)
EXTENDS AccumulatorOps

CONSTANTS
  Seqs,        \* the sequence numbers packets carry
  MaxObserved  \* bound: packets counted by the time a behaviour stops

ASSUME SeqsAssumption == Seqs \subseteq Nat /\ MaxObserved \in Nat

VARIABLES
  acc,       \* the counters
  delivered  \* history: every sequence number counted as received so far

vars == <<acc, delivered>>

Init ==
  /\ acc = NewAccumulator
  /\ delivered = {}

Observe(s) ==
  /\ acc.recv + acc.duplicates < MaxObserved
  /\ acc' = Observed(acc, s)
  /\ delivered' = IF Refused(acc, s) THEN delivered ELSE delivered \cup {s}

Next == \E s \in Seqs : Observe(s)

Spec == Init /\ [][Next]_vars

-----------------------------------------------------------------------------
TypeOK ==
  /\ acc \in AccumulatorType
  /\ delivered \subseteq Seqs

\* No sequence number has gone unrecorded: the map was never full when a new
\* one arrived.
AllRemembered == delivered = acc.seen

\* Packets counted as fresh although they were repeats the full map forgot.
Miscounted == acc.recv - Cardinality(delivered)

(* Reported loss brackets the truth: it never exceeds the number of        *)
(* sequence numbers missing below the horizon, and falls short of it by no *)
(* more than the repeats that the full duplicate map let through (Observe, *)
(* the late-arrival roll-back of lost).                                    *)
LossIsBracketed ==
  LET missing == Cardinality(Missing(acc, delivered))
  IN  /\ acc.lost <= missing
      /\ missing <= acc.lost + Miscounted

(* Until the map fills, received plus lost is exactly the horizon, and     *)
(* lost is exactly the set of holes, whatever the order of arrival.        *)
LedgerBalances ==
  AllRemembered =>
    /\ acc.recv + acc.lost = acc.expectedSeq
    /\ acc.lost = Cardinality(Missing(acc, acc.seen))

(* The burst histogram is never out of step with the counters: packets now *)
(* lost or since recovered are as many as the recorded bursts stand for,   *)
(* and the longest burst is in the bucket that covers its length.          *)
BurstsMatchLosses ==
  LET b == acc.bursts
  IN  /\ BurstFloor(b) <= acc.lost + acc.outOfOrder
      /\ AllRemembered => acc.lost + acc.outOfOrder <= BurstCeiling(b)
      /\ \A f \in {"one", "two", "three9", "ten99", "hundredUp"} :
           RecordBurst(NoBursts, b.max)[f] <= b[f]

(* Reported loss equals the number of holes, full map or not: what the     *)
(* comment on the cap says (it bounds the map, not the other counters).    *)
LossUnaffectedByCap == acc.lost = Cardinality(Missing(acc, delivered))

-----------------------------------------------------------------------------
Ledger == INSTANCE PacketLedger WITH
  Capacity <- MaxSeenEntries,
  got      <- delivered,
  arrivals <- acc.recv + acc.duplicates,
  report   <- [recv |-> acc.recv, duplicates |-> acc.duplicates,
               lost |-> acc.lost]

(* Every accepted packet enters the report, which is exact while the       *)
(* duplicate map has room, and off by no more than the repeats it let      *)
(* through afterwards.                                                     *)
ImplementsLedger == Ledger!LedgerSpec
=============================================================================
