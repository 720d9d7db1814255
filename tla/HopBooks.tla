------------------------------- MODULE HopBooks -------------------------------
(***************************************************************************)
(* internal/probe/hopstats.go and probe.go: what both hop probers share,   *)
(* the counters of one hop and the settle window.  Round-trip times are    *)
(* left out: they decide nothing.  Addresses are in ReversePath.           *)
(*                                                                         *)
(* Time is counted in sweeps: an age of n is n ticks of the prober's       *)
(* ticker, so the real age is between n - 1 and n + 1 intervals.           *)
(***************************************************************************)
EXTENDS Integers, FiniteSets, FiniteSetsExt

CONSTANTS
  MaxHops,  \* how many TTLs a sweep walks at most
  Window    \* lossTimeout in ticks: 2, or more where its floor of two seconds rules

ASSUME BooksAssumption == MaxHops \in Nat \ {0} /\ Window \in Nat \ {0}

TTLs == 1 .. MaxHops

NewHop == [sent |-> 0, recv |-> 0, inflight |-> 0]

\* snapshot: what is neither answered nor still awaited is lost.
Lost(h) == h.sent - h.inflight - h.recv

\* A probe is registered, is answered, is given up.
Registered(h) == [h EXCEPT !.sent = @ + 1, !.inflight = @ + 1]
Recorded(h) == [h EXCEPT !.recv = @ + 1, !.inflight = @ - 1]
GivenUp(h, n) == [h EXCEPT !.inflight = @ - n]

\* Slip: a probe taken back still counts as sent.
RolledBackHalf(h) == [h EXCEPT !.inflight = @ - 1]

\* rollbackProbe: it never left.
RolledBack(h) == [h EXCEPT !.sent = @ - 1, !.inflight = @ - 1]

\* The last TTL of a sweep: the nearest that ever reached the target.
SweepLimit(terminus) == IF terminus > 0 /\ terminus < MaxHops THEN terminus ELSE MaxHops
Nearest(terminus, ttl) == IF terminus = 0 \/ ttl < terminus THEN ttl ELSE terminus

\* Slip: what is as old as the window is given up at once, and what is not.
ExpiredEarly(inflight, cut) == {p \in inflight : p.age >= Window - 1}

\* prune...InflightLocked: whatever was sent before the cutoff.  A probe whose
\* age is the window is on either side of it, with all that were sent earlier.
Expired(inflight, cut) ==
  {p \in inflight : p.age > Window \/ (p.age = Window /\ p.id < cut)}

\* The hops after the probes in gone are given up.
AfterPrune(hops, gone) ==
  [t \in TTLs |-> GivenUp(hops[t], Cardinality({p \in gone : p.ttl = t}))]

\* One tick passes; an age beyond the window is not told apart.
Older(ps) == {[p EXCEPT !.age = IF @ > Window THEN @ ELSE @ + 1] : p \in ps}
=============================================================================
