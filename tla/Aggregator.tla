------------------------------- MODULE Aggregator -------------------------------
(***************************************************************************)
(* internal/agg/aggregator.go with correlate.go, and buildReportData of    *)
(* cmd/dropline/trace.go: the timeline of buckets, the hop tables of the   *)
(* two probers, the correlator that reads them and the marks it leaves.    *)
(* Every aggregator operation runs under its lock and is one step; the     *)
(* report is built from several of them, with others between when the TUI  *)
(* is up.                                                                  *)
(*                                                                         *)
(* Loss is in hundredths of a percent, rounded down.  Suspects are sets:   *)
(* their order is that of their confidence.  TCP_INFO samples, ports and   *)
(* the reverse direction are overwritten as they come and left out.        *)
(***************************************************************************)
EXTENDS Integers, Sequences, FiniteSets, FiniteSetsExt, SequencesExt

CONSTANTS
  Tables,       \* hop tables a sweep may end with, sorted by TTL
  Steps,        \* what a stream snapshot may add: [recv, lost]
  NoStream,     \* no stream snapshot yet
  MaxSecond,    \* bound: the last second of a test
  MaxSnapshots, \* bound: stream snapshots
  MaxSweeps     \* bound: sweeps of each prober

HopViews == [ttl : Nat, responds : BOOLEAN, rtt : Nat, baseline : Nat,
             loss : 0 .. 100, suspect : BOOLEAN]

ASSUME AggregatorAssumption ==
  /\ MaxSecond \in Nat /\ MaxSnapshots \in Nat /\ MaxSweeps \in Nat
  /\ Steps \subseteq [recv : Nat, lost : Int]
  /\ NoStream \notin [t : 0 .. MaxSecond, recv : Nat, lost : Nat]
  /\ Tables \subseteq Seq(HopViews)
  /\ \A table \in Tables : \A i, j \in DOMAIN table :
       i < j => table[i].ttl < table[j].ttl

\* The hop probers, each with a table of its own.
Sources == {"icmp", "tcp"}

VARIABLES
  buckets,   \* a.buckets
  last,      \* a.last: second, recv and lost of the last stream snapshot
  hops,      \* source -> a.hops, a.tcpHops
  phase,     \* of buildReportData: "measuring", "correlated", "icmp", "built"
  verdict,   \* mergedSuspects
  tui,       \* the TUI is up: the workers run on while the report is built
  snapshots, \* stream snapshots taken in
  sweeps,    \* source -> number and last second of its sweeps
  since,     \* history: recv and lost at the last Reset
  reached,   \* history: source -> TTLs of the verdict reached since the last Reset
  overtaken  \* history: sources whose verdict was reached before the last Reset and
             \* was still to be marked then

report == <<phase, verdict, tui>>
window == <<since, reached, overtaken>>
aggVars == <<buckets, last, hops, report, snapshots, sweeps, window>>

AggInit ==
  /\ buckets = <<>>
  /\ last = NoStream
  /\ hops = [s \in Sources |-> <<>>]
  /\ phase = "measuring" /\ verdict = {} /\ tui \in BOOLEAN
  /\ snapshots = 0
  /\ sweeps = [s \in Sources |-> [n |-> 0, t |-> 0]]
  /\ since = [recv |-> 0, lost |-> 0]
  /\ reached = [s \in Sources |-> {}] /\ overtaken = {}

\* Without the TUI the report waits for the workers.
WorkersRun == phase = "measuring" \/ tui

-----------------------------------------------------------------------------
(* Buckets. *)

LossPct(b) ==
  IF b.recv + b.lost > 0 THEN (10000 * b.lost) \div (b.recv + b.lost) ELSE 0

NewBucket(t) == [t |-> t, recv |-> 0, lost |-> 0, pct |-> 0,
                 hops |-> [s \in Sources |-> <<>>]]

Place(bs, t) == Cardinality({i \in DOMAIN bs : bs[i].t < t}) + 1

\* Slip: a second that has no bucket gets the newest one.
Appended(bs, t) ==
  IF \E i \in DOMAIN bs : bs[i].t = t THEN bs ELSE Append(bs, NewBucket(t))

\* bucketAtLocked: the timeline with a bucket for second t, in its place.
BucketAt(bs, t) ==
  IF \E i \in DOMAIN bs : bs[i].t = t
  THEN bs ELSE InsertAt(bs, Place(bs, t), NewBucket(t))

RecvIn(bs, seconds) == SumFunction([i \in seconds |-> bs[i].recv])
LostIn(bs, seconds) == SumFunction([i \in seconds |-> bs[i].lost])

AtMost(a, b) == IF a < b THEN a ELSE b

\* Slip: the percentages of the other seconds are left as they were.
UnwoundOnly(bs, n) ==
  [i \in DOMAIN bs |->
     LET newer == LostIn(bs, i + 1 .. Len(bs))
         taken == IF newer < n THEN AtMost(bs[i].lost, n - newer) ELSE 0
     IN  [bs[i] EXCEPT !.lost = @ - taken]]

\* unwindLossLocked: n losses are taken back, from the newest second on.
Unwound(bs, n) ==
  [i \in DOMAIN bs |->
     LET newer == LostIn(bs, i + 1 .. Len(bs))
         taken == IF newer < n THEN AtMost(bs[i].lost, n - newer) ELSE 0
         b     == [bs[i] EXCEPT !.lost = @ - taken]
     IN  IF taken > 0 THEN [b EXCEPT !.pct = LossPct(b)] ELSE b]

\* What a snapshot adds to the one before it; the first one counts in full.
Previous == IF last = NoStream THEN [t |-> 0, recv |-> 0, lost |-> 0] ELSE last

\* The bucket of second t takes what was received and lost, or the timeline
\* gives back what late packets recovered.
Ingested(bs, t, recv, lost) ==
  LET at     == BucketAt(bs, t)
      k      == Place(at, t)
      got    == [at EXCEPT ![k].recv = @ + recv]
      booked == IF lost >= 0 THEN [got EXCEPT ![k].lost = @ + lost]
                             ELSE Unwound(got, -lost)
  IN  [booked EXCEPT ![k].pct = LossPct(booked[k])]

\* IngestStream.  The receiver's counters: recv never falls, recv + lost
\* never falls, lost is never negative.
IngestStream ==
  \E step \in Steps, t \in {Previous.t, Previous.t + 1} :
    /\ WorkersRun
    /\ snapshots < MaxSnapshots /\ t <= MaxSecond
    /\ Previous.lost + step.lost >= 0
    /\ last' = [t |-> t, recv |-> Previous.recv + step.recv,
                lost |-> Previous.lost + step.lost]
    /\ buckets' = Ingested(buckets, t, step.recv, step.lost)
    /\ snapshots' = snapshots + 1
    /\ UNCHANGED <<hops, report, sweeps, window>>

-----------------------------------------------------------------------------
(* Hop tables. *)

Unmarked(table) == [i \in DOMAIN table |-> [table[i] EXCEPT !.suspect = FALSE]]

\* IngestForwardHop, IngestForwardTCPHop: the table is replaced, and copied to
\* the bucket of its second by the prober's clock, which may run ahead of the
\* receiver's or behind it.  A table that has hops keeps some; an empty TCP
\* table has no bucket.
IngestForwardHop(s) ==
  \E table \in Tables, t \in sweeps[s].t .. MaxSecond :
    /\ WorkersRun
    /\ sweeps[s].n < MaxSweeps
    /\ table = <<>> => hops[s] = <<>>
    /\ hops' = [hops EXCEPT ![s] = Unmarked(table)]
    /\ buckets' =
         IF s = "tcp" /\ table = <<>> THEN buckets
         ELSE LET at == BucketAt(buckets, t)
              IN  [at EXCEPT ![Place(at, t)].hops[s] = Unmarked(table)]
    /\ sweeps' = [sweeps EXCEPT ![s] = [n |-> @.n + 1, t |-> t]]
    /\ UNCHANGED <<last, report, snapshots, window>>

WithMarks(table, ttls) ==
  [i \in DOMAIN table |->
     [table[i] EXCEPT !.suspect = @ \/ table[i].ttl \in ttls]]

-----------------------------------------------------------------------------
(* The correlator. *)

Losses(bs) == [i \in DOMAIN bs |-> bs[i].pct]

\* The k-th smallest of the seconds' losses.
Ranked(losses, k) ==
  CHOOSE v \in Range(losses) :
    /\ Cardinality({i \in DOMAIN losses : losses[i] < v}) < k
    /\ k <= Cardinality({i \in DOMAIN losses : losses[i] <= v})

\* Type 7 percentile of the seconds' losses, at 0.95, times 20: linear between
\* the two ranks around position 0.95 (n - 1).
P95Times20(losses) ==
  LET pos  == 19 * (Len(losses) - 1)
      lo   == pos \div 20 + 1
      part == pos % 20
  IN  IF part = 0 THEN 20 * Ranked(losses, lo)
      ELSE (20 - part) * Ranked(losses, lo) + part * Ranked(losses, lo + 1)

Threshold(bs) == Max({20 * 100, P95Times20(Losses(bs))})

\* Slip: a second must exceed the threshold.
StrictEvents(bs) ==
  LET threshold == Threshold(bs)
  IN  {i \in DOMAIN bs : 20 * bs[i].pct > threshold}

\* The seconds with loss worth explaining.
LossEvents(bs) ==
  LET threshold == Threshold(bs)
  IN  {i \in DOMAIN bs : 20 * bs[i].pct >= threshold}

\* RateLimitedICMP: a responsive hop further on shows clearly less loss.
RateLimited(table, i) ==
  /\ table[i].loss >= 5
  /\ \E j \in i + 1 .. Len(table) :
       table[j].responds /\ table[j].loss + 5 < table[i].loss

\* What a bucket holds of a TTL.
SeenIn(b, s, ttl) == {h \in ToSet(b.hops[s]) : h.ttl = ttl}

RttHits(bs, events, s, hop) ==
  Cardinality({e \in events : \E h \in SeenIn(bs[e], s, hop.ttl) :
    hop.baseline > 0 /\ h.rtt > hop.baseline})

LossHits(bs, events, s, table, i) ==
  IF RateLimited(table, i) THEN 0
  ELSE Cardinality({e \in events :
         \E h \in SeenIn(bs[e], s, table[i].ttl) : h.loss > 1})

\* The stronger of the two signals.
Hits(bs, events, s, table, i) ==
  Max({RttHits(bs, events, s, table[i]), LossHits(bs, events, s, table, i)})

\* Correlate, CorrelateTCP: responsive hops that stand out in more than half
\* of the seconds with loss.
Correlate(bs, s, table) ==
  LET events == LossEvents(bs)
  IN  {x \in {[ttl |-> table[i].ttl, hits |-> Hits(bs, events, s, table, i),
               source |-> s] :
                 i \in {j \in DOMAIN table : table[j].responds}} :
         2 * x.hits > Cardinality(events)}

\* MergeSuspects: one entry for each TTL, the higher confidence for both.
MergeSuspects(icmp, tcp) ==
  LET both == {p \in icmp \X tcp : p[1].ttl = p[2].ttl}
  IN  {[ttl |-> p[1].ttl, hits |-> Max({p[1].hits, p[2].hits}),
        source |-> "icmp+tcp"] : p \in both}
      \cup {a \in icmp : \A b \in tcp : b.ttl # a.ttl}
      \cup {b \in tcp : \A a \in icmp : a.ttl # b.ttl}

Of(s) == IF buckets # <<>> THEN Correlate(buckets, s, hops[s]) ELSE {}

Suspects == MergeSuspects(Of("icmp"), Of("tcp"))

\* Slip: what both probers blame is marked for neither.
OwnTTLsOf(s) == {x.ttl : x \in {y \in verdict : y.source = s}}

\* The TTLs whose evidence is in this prober's table.
Blamed(suspects, s) == {x.ttl : x \in {y \in suspects : y.source \in {s, "icmp+tcp"}}}

\* suspectTTLsForSource.
TTLsOf(s) == Blamed(verdict, s)

\* buildReportData: the correlator reads a copy.
BuildReport ==
  /\ phase = "measuring"
  /\ phase' = "correlated" /\ verdict' = Suspects
  /\ reached' = [s \in Sources |-> Blamed(Suspects, s)]
  /\ UNCHANGED <<buckets, last, hops, tui, snapshots, sweeps, since, overtaken>>

\* MarkSuspects, MarkTCPSuspects: one after the other.
Mark(s, from, to) ==
  /\ phase = from
  /\ phase' = to
  /\ hops' = [hops EXCEPT ![s] = WithMarks(@, TTLsOf(s))]
  /\ buckets' = [i \in DOMAIN buckets |->
                   [buckets[i] EXCEPT !.hops[s] = WithMarks(@, TTLsOf(s))]]
  /\ UNCHANGED <<last, verdict, tui, snapshots, sweeps, window>>

MarkSuspects == Mark("icmp", "correlated", "icmp")
MarkTCPSuspects == Mark("tcp", "icmp", "built")

\* Slip: the TCP table keeps its marks.
ClearedICMP == [hops EXCEPT !["icmp"] = Unmarked(@)]
Cleared == [s \in Sources |-> Unmarked(hops[s])]

\* The marks of a verdict that are still to come.
Pending == CASE phase = "correlated" -> Sources
             [] phase = "icmp" -> {"tcp"}
             [] OTHER -> {}

\* Reset, a key of the TUI: the timeline starts over, the counters and the
\* tables stay; a report being built goes on.
Reset ==
  /\ tui
  /\ buckets' = <<>>
  /\ hops' = Cleared
  /\ reached' = [s \in Sources |-> {}] /\ overtaken' = Pending
  /\ since' = [recv |-> Previous.recv, lost |-> Previous.lost]
  /\ UNCHANGED <<last, report, snapshots, sweeps>>

-----------------------------------------------------------------------------
AggNext ==
  \/ IngestStream \/ Reset
  \/ \E s \in Sources : IngestForwardHop(s)
  \/ BuildReport \/ MarkSuspects \/ MarkTCPSuspects

AggSpec == AggInit /\ [][AggNext]_aggVars

-----------------------------------------------------------------------------
(* Properties. *)

Buckets == [t : 0 .. MaxSecond, recv : Nat, lost : Nat, pct : 0 .. 10000,
            hops : [Sources -> Seq(HopViews)]]

\* Every variable has its type; no bucket holds a negative count.
AggTypeOK ==
  /\ buckets \in Seq(Buckets)
  /\ last \in [t : 0 .. MaxSecond, recv : Nat, lost : Nat] \cup {NoStream}
  /\ hops \in [Sources -> Seq(HopViews)]
  /\ phase \in {"measuring", "correlated", "icmp", "built"}
  /\ verdict \subseteq [ttl : Nat, hits : Nat,
                        source : Sources \cup {"icmp+tcp"}]
  /\ tui \in BOOLEAN
  /\ snapshots \in 0 .. MaxSnapshots
  /\ sweeps \in [Sources -> [n : 0 .. MaxSweeps, t : 0 .. MaxSecond]]
  /\ since \in [recv : Nat, lost : Nat]
  /\ reached \in [Sources -> SUBSET Nat] /\ overtaken \subseteq Sources

InOrder(bs) == \A i, j \in DOMAIN bs : i < j => bs[i].t < bs[j].t

\* The timeline is in order and has one bucket for a second, whichever of the
\* receiver's and the probers' clocks opened it first; and its seconds add up
\* to the counters.  Before a Reset exactly, also after late packets were taken
\* back; after one, what was received is what came since, and the losses are at
\* least those since and never more than the total.
TimelineAddsUp ==
  LET recv == RecvIn(buckets, DOMAIN buckets)
      lost == LostIn(buckets, DOMAIN buckets)
  IN  /\ AggTypeOK
      /\ InOrder(buckets)
      /\ recv = Previous.recv - since.recv
      /\ Previous.lost - since.lost <= lost
      /\ lost <= Previous.lost

\* A test with a second of one percent loss or more has seconds to explain,
\* also when every second lost the same: the percentile is never above all of
\* them.
LossIsExamined ==
  (\E i \in DOMAIN buckets : buckets[i].pct >= 100) => LossEvents(buckets) # {}

\* A stream that has lost nothing, or got everything back late, blames no hop,
\* whatever the probers saw.  A confidence is a fraction of the seconds with
\* loss, above one half.  A hop is reported once, however many probers blame it.
VerdictsSound ==
  LET seconds == Cardinality(LossEvents(buckets))
  IN  /\ Previous.lost = 0 => Suspects = {}
      /\ \A x \in Suspects : x.hits <= seconds /\ 2 * x.hits > seconds
      /\ \A x, y \in Suspects : x.ttl = y.ttl => x = y

Marks(s, table) ==
  {<<s, table[i].ttl>> : i \in {j \in DOMAIN table : table[j].suspect}}

\* Every mark of a prober's, in its table and in the timeline's copies of it, is
\* of a verdict reached since the last Reset.
Current(s) ==
  /\ Marks(s, hops[s]) \subseteq {s} \X reached[s]
  /\ \A i \in DOMAIN buckets : Marks(s, buckets[i].hops[s]) \subseteq {s} \X reached[s]

\* What aggregator.go:475-477 says: "a re-armed session doesn't keep highlighting
\* hops flagged by the previous test's MarkSuspects".  It does when the Reset
\* falls between the verdict and its marks (trace.go:751-765).
MarksAreOfThisWindow == \A s \in Sources : Current(s)

\* aggregator.go:466-488, trace.go:751-765: but for a Reset just there, while the
\* marks of this prober's table were still to come, no verdict outlives a Reset,
\* whatever was swept, copied into the timeline or marked before it.
MarksAreCurrent == \A s \in Sources \ overtaken : Current(s)

\* Without the TUI the report highlights, in each prober's table, the hops its
\* correlation section names and no others.  With it a sweep that ends between
\* the marks and the report wipes them off, so nothing is claimed.
ReportHighlights ==
  ~tui /\ phase = "built" =>
    \A s \in Sources :
      Marks(s, hops[s]) =
        {<<s, x.ttl>> : x \in {y \in Suspects : y.source \in {s, "icmp+tcp"}}}
=============================================================================
