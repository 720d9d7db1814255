------------------------------ MODULE KernelDrops ------------------------------
(***************************************************************************)
(* internal/stream/kerneldrops.go with the calls receiver.go makes to it:  *)
(* the host-wide counter of UDP datagrams the kernel dropped, the baseline *)
(* that turns it into a count for the test, and the sampling on every tick *)
(* and before the final snapshot.                                          *)
(***************************************************************************)
EXTENDS Integers

CONSTANTS
  MaxDrops,  \* bound: drops in a behaviour
  Unset      \* no baseline latched yet

ASSUME KernelAssumption == MaxDrops \in Nat /\ Unset \notin Nat

VARIABLES
  host,      \* the kernel's cumulative counter, for the whole host
  baseline,  \* baselineSampler.baseline, Unset until ready
  drops,     \* the accumulator's kernelDrops
  run,       \* Receiver.Run: "running" or "returned"
  total,     \* history: drops since the test started
  before,    \* history: total when the baseline was latched
  sampled,   \* history: total at the last sample that worked
  resets     \* history: the counter moved backward during the test

kernelVars == <<host, baseline, drops, run, total, before, sampled, resets>>

KernelInit ==
  /\ host \in 0 .. 2
  /\ baseline = Unset
  /\ drops = 0
  /\ run = "running"
  /\ total = 0
  /\ before = 0
  /\ sampled = 0
  /\ resets = FALSE

\* The kernel drops a datagram, for this socket or another one.
KernelDrop ==
  /\ total < MaxDrops
  /\ run = "running"
  /\ host' = host + 1
  /\ total' = total + 1
  /\ UNCHANGED <<baseline, drops, run, before, sampled, resets>>

\* The counter is reset or wraps.
CounterReset ==
  /\ run = "running"
  /\ \E n \in 0 .. host - 1 : host' = n
  /\ resets' = TRUE
  /\ UNCHANGED <<baseline, drops, run, total, before, sampled>>

\* Slip: every sample starts over.
AlwaysAnchor(b, n) == n

\* The baseline after a sample: latched by the first, lowered by a reset.
Anchor(b, n) == IF b = Unset \/ n < b THEN n ELSE b

\* Slip: the first sample reports the host's own count.
ReportAbsolute(b, n) == IF b = Unset THEN n ELSE n - Anchor(b, n)

\* What a sample reports.
Report(b, n) == n - Anchor(b, n)

\* One kernelDrops.Sample and SetKernelDrops; an error leaves all as it was.
Sample ==
  \/ /\ baseline' = Anchor(baseline, host)
     /\ drops' = Report(baseline, host)
     /\ before' = IF baseline = Unset THEN total ELSE before
     /\ sampled' = total
  \/ UNCHANGED <<baseline, drops, before, sampled>>

Tick ==
  /\ run = "running"
  /\ Sample
  /\ UNCHANGED <<host, run, total, resets>>

Return ==
  /\ run = "running"
  /\ Sample
  /\ run' = "returned"
  /\ UNCHANGED <<host, total, resets>>

KernelNext == KernelDrop \/ CounterReset \/ Tick \/ Return

KernelSpec == KernelInit /\ [][KernelNext]_kernelVars

-----------------------------------------------------------------------------
KernelTypeOK ==
  /\ host \in Nat
  /\ baseline \in Nat \cup {Unset}
  /\ drops \in Nat
  /\ run \in {"running", "returned"}
  /\ total \in Nat /\ before \in 0 .. total /\ sampled \in 0 .. total
  /\ resets \in BOOLEAN

(* The report never blames the kernel for more than it dropped during the  *)
(* test, whatever the host counted earlier and however it was reset.       *)
NeverOverstates == drops <= total

(* Without a reset, the report leaves out exactly what was dropped before  *)
(* the first sample that worked: later drops are all in it, also those     *)
(* that happened while samples failed.                                     *)
OnlyEarlyDropsMissing ==
  ~resets /\ baseline # Unset => drops = sampled - before
=============================================================================
