----------------------------- MODULE PacketLedger -----------------------------
(***************************************************************************)
(* What the receiver's counters promise: at any moment the report can be   *)
(* checked against the set of packets that arrived, in whatever order they *)
(* did and however often.  It is exact while the distinct packets fit the  *)
(* receiver's memory; after that a repeat may pass for a new packet, and   *)
(* the report is off by no more than the repeats that did.                 *)
(***************************************************************************)
EXTENDS Integers, FiniteSets

CONSTANTS
  Seqs,
  Capacity  \* distinct packets the receiver can remember

VARIABLES
  got,       \* the sequence numbers that arrived
  arrivals,  \* how many packets arrived, repeats included
  report     \* what the receiver says of them

ledgerVars == <<got, arrivals, report>>

\* One past the highest sequence number that arrived.
Horizon(g) == IF g = {} THEN 0 ELSE 1 + CHOOSE m \in g : \A x \in g : x <= m

Holes(g) == Cardinality((0 .. Horizon(g) - 1) \ g)

\* Repeats that passed for new packets.
Unnoticed(g, r) == r.recv - Cardinality(g)

Sound(g, n, r) ==
  /\ r.recv + r.duplicates = n
  /\ Unnoticed(g, r) >= 0
  /\ Cardinality(g) <= Capacity => Unnoticed(g, r) = 0
  /\ r.lost <= Holes(g)
  /\ Holes(g) <= r.lost + Unnoticed(g, r)

LedgerInit ==
  /\ got = {}
  /\ arrivals = 0
  /\ report = [recv |-> 0, duplicates |-> 0, lost |-> 0]

\* A packet arrives, new or not, and is in the report from then on.
Arrive(s) ==
  /\ got' = got \cup {s}
  /\ arrivals' = arrivals + 1
  /\ Sound(got', arrivals', report')

LedgerNext == \E s \in Seqs : Arrive(s)

LedgerSpec == LedgerInit /\ [][LedgerNext]_ledgerVars
=============================================================================
