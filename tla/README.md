# dropline: specifications

`dropline` measures packet loss between two hosts. `dropline serve` listens on
one port, TCP for control sessions and UDP for test streams; `dropline trace`
opens a session, sends numbered UDP packets, probes the hops of the path and
merges everything it learns into one report. The modules in this directory
model the parts of it where the difficulty is in the order of things: what
goroutines do to each other's state, what is counted when packets are lost,
repeated and reordered, and what is cleaned up when something ends early.

## 1. The system

| component | code | state | operations | interacts with |
|---|---|---|---|---|
| accumulator | `internal/stream/stats.go` | counters, horizon `expectedSeq`, capped duplicate map, loss-burst histogram | `Observe`, `AddLocalDrop`, `SetKernelDrops`, `Snapshot` | called by the stats goroutine of a receiver |
| UDP hub | `internal/stream/hub.go` | registry flow id -> queue; per queue: ring, closed flag, drop counter, first source | `Run` (the one drainer), `TryRegister`, `Release`, `closeAll`, `RemoteAddr` | reads the socket, feeds the rings receivers empty |
| receiver | `internal/stream/receiver.go` | accumulator, tick, two goroutines | `Run`, `statHub` (server), `drain`/`stat` (client's reverse stream) | ring of the hub, or its own socket |
| kernel-drop baseline | `internal/stream/kerneldrops.go` | baseline | `Sample` | called by `Receiver.Run` on ticks and at its end |
| sender | `internal/stream/sender.go` | sequence counter, pacing against the start time | `Run` | UDP socket, both directions; its count goes into Final |
| serve session | `cmd/dropline/serve.go` | session slots, registry of sessions, session context, forwarders, reverse stream | `newServeHandler`, `handleSession`, `runReverseStream`, `startReverseTrace`, ... | hub, receiver, control connection, probes |
| TCP probe handler | `cmd/dropline/serve.go` | probe slots, context under the session's | `newProbeHandler` | session registry |
| server loops | `cmd/dropline/serve.go`, `internal/control/server.go` | shared cancel, first error, back-off | `runServerLoops`, `Server.serve` | hub `Run`, accept loop |
| control connection | `internal/control/client.go`, `framing.go` | write mutex, deadlines | `Send`, `Recv` | every goroutine of a session |
| trace client | `cmd/dropline/trace.go` | worker context, wait group, snapshot channels, report | `traceRun`, `runRecvLoop` | control connection, aggregator, probers, TUI |
| aggregator | `internal/agg/aggregator.go` | per-second buckets, hop tables, last snapshots | `Ingest*`, `MarkSuspects`, `Reset`, `Snapshot`, `emit` | fed by five goroutines, feeds the TUI |
| correlation | `internal/agg/correlate.go` | none | `Correlate`, `CorrelateTCP`, `MergeSuspects` | end of a test |
| negotiation | `cmd/dropline/trace.go`, `serve.go` | none | `parseTraceArgs`, `validateHello`, `resolve*`, `resolveReversePathStatus` | Hello and Ready on the control connection |
| reverse path | `serve.go` (`startReverseTrace`, `startReverseTCPHopProbe`), `internal/agg/aggregator.go` (`IngestReverseHop`) | the server's snapshots on their way, the client's reverse table and path status | one message per hop, merge, prune | server's prober, control connection, aggregator |
| ICMP and TCP probers | `internal/probe` | in-flight table, per-hop statistics, terminus, sequence counter or source ports | `Run`, sweeps, demultiplexing of replies, pruning | raw sockets, dials, snapshot channel |
| terminal UI | `internal/tui` | latest snapshot, done flag | key presses, snapshot messages | aggregator's channel, `Reset` |

What is hard, and so what the properties are about:

* **Concurrency.** The drainer looks a queue up and sends to it while sessions
  register and release queues and the hub may be closing them all. The drop
  counter of a queue is bumped by one goroutine and swapped out by another. Up
  to five goroutines send on one control connection. A session context can be
  cancelled from six places.
* **Ordering.** The final snapshot must come after the drain of the ring and
  after the last pull of the hub's drops; Final after every forwarder and after
  the reverse sender has published its count; a slot may be given back only
  after what hangs on it; Ready only after the flow and the session can be
  found.
* **Two sides.** Client and server each decide, with vetoes, which features a
  session has; what one counts is reported by the other.
* **The network.** UDP packets are lost, repeated and reordered; peers stall or
  vanish; Sends time out halfway through a frame; replies come after their
  probe was given up, or are for somebody else's; routes change.
* **Limits.** Full rings, a full duplicate map, all slots taken, a host-wide
  counter that restarts, sequence numbers and source ports that come round,
  rates that do not fit their integer.

`PROJECT.json` lists each of these hazards at its line, with the properties
that would notice it going wrong.

What makes each component correct:

* **Accumulator**: received plus lost equals the horizon and lost equals the
  holes below it, for every order of arrival; a full duplicate map costs no
  more than the repeats it lets through; the burst histogram agrees with the
  counters.
* **Hub and receiver**: no send on a closed channel and no double close; a flow
  id leads to the session that holds it; every datagram the hub accepted is
  counted exactly once, but for those whose number the accumulator refuses; the
  final snapshot covers what was accepted before the cancel; receivers end on a
  cancel and on a hub stop.
* **Kernel drops**: the report never exceeds what was dropped during the test.
* **Serve session**: limits hold; a freed slot is free of its last holder; a
  client told Ready can use what Ready names; the conversation is Ready,
  updates, one terminal message; an ended session frees its slot whatever the
  peer does; a probe does not outlive its session.
* **Server loops**: the two loops fail as one, and the first error is reported.
* **Trace client**: no worker panics; success means a Final and a complete
  report; a saved report is there when saving is offered; a signal and a Final
  both end the test.
* **Aggregator and correlation**: the timeline is in order and adds up to the
  counters, whoever opens a bucket and whatever late packets take back; no loss
  blames nobody and a lossy second is looked at; a confidence is a fraction; a
  hop is blamed once; marks belong to the report they came from, and to its window
  unless a Reset falls between a verdict and its marks (section 6).
* **Negotiation**: both sides go ahead with the same features, except that a client
  without an IPv4 address dials a probe the server refuses; what the client's
  flags let through the server takes, but for its own limits.
* **Reverse path**: the client's table is the server's last snapshot once
  everything has arrived, although it travels and is merged row by row.
* **Reverse stream**: the sender does not overrun its rate or its duration; the
  receiver counts what it took; received and lost add up to what the server
  sent.
* **Probers**: a probe is answered once, or lost after its window, or taken
  back; a reply is credited to its own probe; the prober gives up on a blackout,
  then and only then, and comes back when it is told to.

## 2. The modules

```
PacketLedger            abstract: a report that can be checked against the
     ^                  set of packets that arrived
     | implements
Accumulator ----+
HubReceiver ----+--> AccumulatorOps   Observe and its parts, as operators
ReverseStream --+
KernelDrops             one receiver's kernel-drop counter
ServeSession            sessions, probes and the accept path
ServerLoops             the two loops of the server process
TraceClient             one client session, from Ready to its end
Aggregator              timeline, hop tables and the correlator

ReverseSession          a session's reverse direction, composed of
  +--> Negotiation        flags, Hello, decisions, Ready (operators)
  +--> ReversePath        the path walked back, and the client's table of it
  +--> ReverseStream      sender, direct-conn receiver, report

HopLedger               abstract: what becomes of a probe
     ^
     | implements
IcmpProber ---+
TcpProber ----+--> HopBooks   the counters of a hop, the settle window
                   (ReversePath takes the terminus rule from it)

<M>_proofs              theorems about M; three hold those of their neighbours:
  Counting_proofs         Accumulator, KernelDrops, Aggregator
  ServeSession_proofs     ServeSession, ServerLoops
  ReverseSession_proofs   ReverseSession with its path and stream
MC<M>                   values for TLC; MCCounters those of Accumulator and
                        KernelDrops
```

Modules that one proof module takes together name their specifications apart
(`KernelSpec`, `LoopsSpec`, `AggSpec`).

**AccumulatorOps** (`internal/stream/stats.go`). `Observed(a, s)` is one call of
`Accumulator.Observe`, early returns included: `Refused` (above int64, jump
wider than `maxAcceptableGap`), duplicate, `Remember` (nothing once the map is
full), `ForwardArrival` (gap becomes losses and one burst), `LateArrival` (takes
one loss back). The same operators are used by Accumulator, HubReceiver and
ReverseStream, so what is proved about them is used in all. Jitter and elapsed
time are left out; no counter depends on them.

**Accumulator** feeds `Observed` with any sequence number in any order.
`delivered` is a history variable: what arrived.

**HubReceiver** (`hub.go`, `receiver.go`) composes the hub's drainer with the
receivers that empty its rings. The drainer is a state machine over
`Hub.Run`'s loop: context check, read (or deadline, or failure), gate and
capture of the source, lookup and send under the read lock, `closeAll`.
Sessions call `TryRegister`, are cancelled, `Release`. A receiver has two
goroutines, as in the code: `Run` (tick in two steps: pull the hub's drops,
then the snapshot) and `statHub` (select, then drain). `gated` counts the
datagrams accepted and `atCancel` freezes that history at the cancel. Sequence
numbers are any, so the accumulator refuses some (a jump wider than
`maxAcceptableGap`, a number above int64); no counter of it shows those, and the
history `refused` tells how many they are.

**KernelDrops** (`kerneldrops.go`, and the calls of `receiver.go`). The host
counter may be reset and a sample may fail at any time.

**ServeSession** (`serve.go`, `control/server.go`). The main goroutine of a
session has one program counter for the steps from `Accept` to the deferred
clean-up, which is one action per deferred call, in the order `NextDeferred`
gives. Forwarders, the receive goroutine, the reverse stream and probes are
separate actors. `wire` is what was written on a control connection: a Send to
a stalled peer may fail and leave part of a frame ("torn"). What a Hello says
is abstracted to accepted or rejected.

**ServerLoops** (`runServerLoops`, `Server.serve`). What the hub's loop does is
HubReceiver's; here only that it runs, ends or fails.

**TraceClient** (`trace.go`, with the parts of `aggregator.go` and
`tui/model.go` it meets). The receive loop with what follows it, the watcher,
probers, the reverse receiver, their drainers, the closer, the TUI and
`traceRun` itself are separate actors. An aggregator call is two steps: the
update under the lock, the non-blocking send after it. Snapshots carry no
content. A drainer's channel is abstracted: since producers drop snapshots when
it is full and leave some behind, a drainer may ingest any number at any time.
A panic of the UI's event loop is recovered by bubbletea and makes `tui.Run`
fail; a panic elsewhere ends the process.

**Aggregator** (`aggregator.go`, `correlate.go`, `buildReportData` of
`trace.go`). `Ingested` is one stream snapshot: the bucket of its second takes
the difference to the snapshot before, or `Unwound` gives losses back from the
newest bucket on. Sweeps carry the prober's own clock, so their seconds run
ahead of the stream's or behind. `Correlate` and `MergeSuspects` are operators
on a timeline and a table; loss is in hundredths of a percent and the 95th
percentile is taken exactly, in twentieths, where the code uses floating point.
It is interpolated between two order statistics, and `Ranked` is one of them,
defined by counting what lies below it instead of by sorting. The report is
three steps, as in the code: correlate a copy, mark the ICMP table, mark the
TCP table. Without the TUI the workers have ended by then; with it anything may
come between, and Reset at any time. History: `since`, the counters at the last
Reset; `reached`, the TTLs of the verdict reached since then; `overtaken`, the
probers whose marks were still to come when a Reset threw their verdict's window
away.

**Negotiation** (`trace.go`, `serve.go`) is operators only: `FlagsAccepted` and
`HelloOf` on the client, `Refusals` and `Decisions` on the server, `Outcome` on
the client again. `ProbeLetIn` is the one part of `newProbeHandler` that depends on
the handshake: a probe is compared with the client's IPv4 address, and refused if
there is none. A rate is its number and unit, and the product wraps as int64
does (`AsInt`), so that what keeps a wrapped rate off the wire is the check and
nothing else. Durations are in ticks, finer than the wire's millisecond.

**ReversePath** (`startReverseTrace`, `IngestReverseHop`) takes the server's
prober in whole sweeps and keeps of a hop who answered first and whether the
target did; both are what the tag and the length of the path depend on. One
message per hop, each stamped with the last TTL of its snapshot; snapshots are
dropped when the channel is full; a Send failure ends the forwarder. The TCP
table and channel are the same code a second time, without the status.

**ReverseStream** (`sender.go`, `receiver.go`, `runReverseStream`,
`reverseStreamReport`) has a clock that nothing waits for: any goroutine may run
as late as it likes. The sender's `Interval` is computed as in the code from
rate and packet size, rounded down to a tick (the code's nanosecond), one at
least. `Receiver.Run`, `drain` and `stat` are three actors around one channel;
`Run` ticks, waits for the drainer, closes the channel, waits for `stat`. A
packet may arrive any number of times, in any order, or never.

**ReverseSession** puts the three together: flags, Hello, the server's answer or
refusal, the reverse direction at work before the client has read Ready.
`Followed` bounds which of the negotiated sessions are run as well.

**HopBooks** (`hopstats.go`) and **IcmpProber** (`probe_unix.go`): sweeps,
`recvLoop` and the environment. Time is counted in ticks of the sweep ticker;
an age of `Window` is at the edge of the settle window, so such a probe may or
may not be given up (`cut`: all those sent before some moment). A sweep's limit
is read once, a probe is registered and written in one step because what
`recvLoop` may do in between commutes with the write. `Messages` is what a raw
socket is handed, other programs' echoes included. `run.fatal` is the blackout.

**TcpProber** (`probe_tcp_unix.go`): a sweep is one goroutine per TTL, which
chooses a port, registers it, dials and books the outcome in four critical
sections. A dial ends connected or reset, silent, or refused on the spot. The
end of `Run`, with the socket and the join, is IcmpProber's.

**HopLedger** is what both promise: a probe counted as sent is open until it is
answered, once, or lost, no earlier than the window, or taken back.

Definitions marked *Slip* in a comment are faulty variants of the definition
they stand next to. Nothing uses them; each is the mutation that a property is
tested against (`PROJECT.json`, "mutants").

## 3. The runs

| run | instance | what it shows |
|---|---|---|
| `counters` | 11 sequence numbers that reach every burst bucket, one jump too wide, one above int64; 6 arrivals, map of 4; then 4 kernel drops | The bracket around the loss holds in every order, before and after the map fills; the histogram agrees with the counters; implements PacketLedger; kernel drops are never overstated, and exactly the early ones are missing |
| `hub` | two sessions with one flow id, ring of 1, map of 1, numbers 0, 1 and 3, a gap of 1 at most, 2 reads | No panic, the registry is sound, each accepted datagram is counted once or refused, the final snapshot covers what was accepted before the cancel and its loss is honest; cancel and hub stop end every receiver |
| `serve_slots` | three clients, one flow id, two slots | Limits, clean-up order, Ready is usable |
| `serve_end` | one client, two forwarders, reverse stream, two probes | Conversation, Final's reverse count, the slot is freed, probes end |
| `server_loops` | the code's back-off (5 ms to 1 s) | First error wins; one exit stops both |
| `aggregator` | two probers with two sweeps each, three stream snapshots, two seconds, two hop tables | The timeline is in order and adds up; a lossy second is examined; verdicts are sound; marks are of a verdict reached since the last Reset, unless that Reset overtook them, and where the report says |
| `aggregator_reset` | as `aggregator` | **violation**: a Reset between verdict and marks highlights hops of the new window |
| `trace_client` | one prober, reverse stream, both output modes, channel of 1 | No worker panics, a report is stored before saving is offered, success has a report, signals and Final end the test |
| `trace_reset` | no updates, no reverse packets | **violation**: `[r]` after the close panics the event loop |
| `reverse` | one option at a time at and past its limits, times every preference, against sixteen servers; a reverse trace of 3 hops and a reverse stream of 3 packets followed to their end | Both sides agree; accepted flags are served; the client's table mirrors the server's; the receiver's books, the report and the pace |
| `icmp_prober` | 2 hops, window 2, 8 sequence numbers, 5 sweeps | Replies are credited to their own probe; the blackout; implements HopLedger; Run returns |
| `tcp_prober` | 2 hops, window 1, 6 source ports, 4 sweeps, one refused dial, answers up to two sweeps late | At intervals of a second or more, where the floor of four sweeps is the range, no registration overwrites another; implements HopLedger |

The type invariants are parts of other properties rather than properties of
their own: `SlotCoversResources`, `FirstErrorWins`, `TimelineAddsUp`, `SaveReady`,
`BlackoutEscalates` and `RangeSuffices` each have their module's type invariant
as a conjunct. `Conversation` has `WithinLimits`, the session, probe and connection
limits.

Why the bounds are enough:

* A ring of one is full after one packet, so every packet may meet a full ring;
  the drainer has one packet in hand at a time.
* Two sessions on one flow id are all that can be in play around a release: the
  one that leaves and the one that takes over. Drainer, Run and statHub act
  between any two steps of either.
* Two slots and three clients: one client can always be refused, and a freed
  slot can be taken while its last holder still unwinds. The clients are
  interchangeable (they ask for the same flow id), which is the symmetry used.
* In `serve_end` a forwarder's batch is two frames, so a session can end between
  the two; two probes with one slot compete for it and for pending connections.
  The refusal of a probe because all probe slots are taken needs a third
  pending connection and is not reached with these bounds.
* The duplicate map holds four of up to six packets, so it fills with two
  arrivals to go.
* In `aggregator` two seconds are an older and a newer one, so buckets open out
  of order, losses are taken back from the older, and the percentile lies
  between two values. Three snapshots are a loss, one before or after a Reset,
  and its recovery. The steps include a second below one percent; the tables a
  slow lossy hop, a silent one and a rate-limited one.
* In `hub` each of three numbers may come first, second, twice, late or into a
  full ring, with either session; 3 is refused when 0 is all that came before. Two
  reads are few; the run's invariants are theorems for any number of them
  (section 5). The map is full after one packet; a repeat it has forgotten takes
  a third read, which `MCHubLoss.cfg` has (one session, four reads, four
  numbers, `FinalLossIsHonest` alone).
* In `reverse` the limits are the code's scaled down (63 bits to 4, ports to
  1..3), so that each boundary has a value on it and one past it; a rate of 4 or
  6 units of 4 wraps to a negative one. Three hops are a path that can shrink
  twice; two snapshots queued and two messages on the wire let an old end of the
  path arrive after a newer one is known to the server. The ring and the
  snapshot channel hold one. The stream lasts four ticks at three bits a tick: a
  packet of eight bits every 2 2/3 ticks, rounded down to two, so three packets
  and a rate that the rounding does exceed. The clock goes two ticks further.
* In `icmp_prober` eight numbers are the fewest the module's assumption allows
  with this window; they come round in the fifth sweep. With `SendThreshold` 1
  two sweeps without a probe are a blackout. In `tcp_prober` six ports come
  round in the fourth sweep, with a window of one sweep and a range of three
  where the code has two and four; answers are as late as the range allows.
  There a blackout is not reached, the count of bad sweeps is IcmpProber's.
  "Unreachable" dials are in `MCTcpPortReuse.cfg` only.
* The channel to the TUI holds one snapshot, so a send meets it full, empty and
  closed. Resets, sweeps and server updates are not counted, hence not bounded;
  `MaxNet` bounds the messages under way.

`CHECK_DEADLOCK FALSE` is in every configuration because these systems stop: a
test has a bounded number of packets, a session ends, a server returns, a
client exits. That they stop where they should is what the liveness properties
are for.

## 4. Fairness

Safety needs none. For liveness, each module assumes that a goroutine which
can take a step does, and no more:

* HubReceiver: the drainer's steps (the socket read has a deadline), the
  receivers' steps. Strong fairness where `select` chooses among ready cases
  and a tick could win again and again (`RunCancelled`). Nobody is assumed to
  cancel, to send or to register.
* ServeSession: session and forwarder steps; every Send ends, by WriteTimeout
  at the latest; a closed peer is noticed by the receive goroutine. The session
  deadline is *not* assumed to pass and the peer is not assumed to read: a slot
  is freed for the reason the property names.
* ServerLoops: both loops look at their context within 100 ms (read deadline,
  closed listener, back-off select).
* IcmpProber: Run's steps and, strongly, its branch for a done context: Go's
  `select` does not prefer ticks for ever. `recvLoop` is assumed to leave its
  read only once the socket is closed, since nothing else need wake it.
* TraceClient: goroutines run; probers and drainers notice their context
  (strong where `select` may prefer a snapshot); the TUI's event loop serves
  snapshots and its context even while keys keep arriving. Neither the server
  nor the user is assumed to do anything.

## 5. What is proved

Theorems hold for every value of the constants that satisfies the modules'
assumptions. Every invariant and every refinement that a passing run checks is one;
TLC agreed with each inductive invariant before its proof was begun.

**Accumulator** (`Counting_proofs`, lemmas about the operators in
`AccumulatorOps_proofs`), assuming only that bounds and sequence numbers are
natural. The inductive invariant `IInv` is `TypeOK`, `HorizonInv` (the horizon
is one past the highest number delivered; with n numbers delivered, lost + n <=
horizon <= lost + recv) and `MapInv` (the map differs from what was delivered
only once it is full; until then recv is n). The
properties alone are not inductive: they speak of holes, and a step changes
the horizon, so a step needs to know where the horizon is. From it:
`LossBracket`, and two facts no run needs to check any more, `TypeCorrect` and
`LedgerBalance` (until the map fills, received plus lost is the horizon, which
PacketLedger asks for too). `BurstsMatch` adds `BurstInv`, the same about floor
and ceiling of the histogram. `LedgerRefinement` is the implementation of
`PacketLedger`, step by step, from `IInv`.

**KernelDrops** (same module): `NoOverstatement` and
`OnlyEarlyMissing`, for any number of drops: the host counter has moved away
from the baseline by no more than what was dropped since, and by exactly that
without a reset.

**Aggregator** (same module), for any hop tables sorted by TTL, any steps of the
counters, and any number of seconds, snapshots and sweeps
(`AggregatorAssumption`). `AggIInv` has five parts. The type invariant.
`TimelineInv`: the seconds are in order, the percentage of each is that of its
counts, and their sums stand to the counters and to the last Reset as
`TimelineAddsUp` says; the percentages are part of it because `VerdictsSound`
needs to know that a stream without loss has none. `TtlInv`: no table names a
TTL twice, from which a verdict is unique. `MarksInv`: marks are of the verdict
reached since the last Reset, and what is still to be marked is too, but for the
probers in `overtaken`; `MarksAreCurrent` alone says nothing of marks to come. And
`HighlightInv`: without the TUI the verdict taken stays what the correlator
would say now, and each table has exactly its marks once its turn has come.

The sums are the larger part of the work. `SumFunction` is a recursive function
over the subsets of a finite set; the first lemmas show that it is the one sum
there is, by induction over subsets in a first-order form (a nonempty family of
subsets of a finite set has a minimal one, `MinimalSubset`). From there: a sum
changes by what one argument changes (`SumUpdate`), ignores how arguments are
named and a zero inserted among them (`SumRenamed`, `SumInserted`), and what
`unwindLossLocked` takes back from the end of a list comes off the sum, or all
there is (`SumUnwound`). `BucketAtIs`, `UnwoundIs` and `IngestedIs` lift that to
the timeline. For the correlator, `PercentileIs` bounds the interpolated
percentile by the greatest loss, which is why a second with one percent of loss
is never below the threshold (`LossGetsExamined`); `CorrelateIs` and `MergeIs`
carry the bounds of a verdict through the merge (`VerdictsAreSound`); and
`CorrelateKept` shows that marks do not change what the correlator would say,
which is what makes `ReportIsHighlighted` inductive across the two marking
steps. `SecondsAddUp` and `MarksStayCurrent` are direct.

**HubReceiver** (`HubReceiver_proofs`), for any number of sessions, flows and
ports, any ring size and any finite set of natural numbers for the senders to
choose from: refused packets are counted apart, nothing is assumed to rule
them out. `IInv` is the type invariant, `RegistryInv`
(flows, handles and open channels agree, and while the drainer is between
lookup and send its target is still registered: the read lock), `FreshInv`
(nothing is on the books of a session that has not registered) and the
accounting equation. From it:
`TypeCorrect`, `ChannelSafety`, `RegistrySound`, `Accounting`. `FinalCovers`
needs `CoverInv` on top: statHub leaves only an empty ring behind, after the
cancel or with the channel closed, so that counters and pending drops together
hold all that was accepted by the cancel. `LossIsHonest` adds `HonestInv`:
for some subset D of the accepted numbers, those observed, lost never exceeds the
gaps of D, and while D fits the duplicate map lost is exactly those gaps; and what
was accepted but neither in D nor in the ring was dropped or refused, one by one
(`CountedOrRefused`). D has to
be quantified: once the map is full no variable says what it is. Beyond the
map's room (2^18 entries in the code) a repeat passes for a late arrival and
takes a loss back, so the loss can be too small by as many repeats as the hub
accepted, and by no more (`RepeatsAreAccepted`).

**ServeSession** (`ServeSession_proofs`), for any number of clients, probes and
forwarders, any flow ids and any limits. `ResourceInv` says which of slot, flow
id and registry entry a handler holds at each point of `handleSession`, the
deferred calls included, and that holders of one flow id are one.
`GoroutineInv`: no goroutine of a session runs before Ready or after the join.
`ReverseInv`: the reverse sender's count, its stored copy and the one in Final
agree once the sender is done. `WireInv`: nothing is written before the reply to
Hello, and what ends the conversation is its last frame. `LimitsInv`: slots,
probes being read and open connections are finitely many and within their
limits. `SlotsAreExclusive`, `ReadyKeepsItsPromise`, `ConversationIsOrdered` and
`FinalIsComplete` follow; none is inductive alone, since each speaks of one
phase and is established in another.

**ServerLoops** (same module): `FirstErrorIsReturned`, for any back-off:
`LoopsInv` adds that the listener is closed by the context only, so that the
error of a closed listener is met with the context done, and swallowed.

**TraceClient** (`TraceClient_proofs`), for any probers, capacity of the channel
and number of messages. `SendersInv`: who may be between an aggregator's lock
and its send; nobody that has gone, so after the close only the UI's own
goroutine, whose panic is the finding of section 6. `StagesInv`: what a Final
leads to, with and without a TUI. `ReportInv`: without a TUI nobody is left to
rebuild a table while the report is built. `NoWorkerPanics`, `ReportIsThere`,
`SuccessIsComplete`.

**ReverseSession** (`ReverseSession_proofs`), for any command line that the flag
package can produce, any server and any limits. `SidesAgree` and `FlagsServed`
follow from `AgreeInv`, which keeps the records of the handshake tied to each
other stage by stage: a Hello is that of accepted flags and two different flow
ids, a decision that of the Hello, an outcome that of both. What the two
properties then compare are operators on the same Hello. What they compare is
two sets of operators, the server's and the client's; they differ for a client
without an IPv4 address, whose probe is dialled and refused, and
`BothSidesAgree` says that this is the only case. `PaceKeeps` is about the
sender, for any rate, packet size and duration: `PaceInv` adds that the packet
before the last had its slot within the duration, without which the check at the
loop head says nothing about the write after it. What it bounds is slots and the
rate of what was written so far; a goroutine that is late between its look at
the duration and the write writes as late as it runs. The rounding of the
interval is why the rate can be exceeded, by less than a tick in each interval.

Its stream: `BooksAreKept` assumes `NoneRefused`: the packets that duration and
interval allow, a number `PaceHolds` bounds, stay within the gap the accumulator
accepts (2^20) and int64. Past that a jump can be refused, and a refused packet
is counted nowhere. `ReportAddsUp` assumes `MapHasRoom` too: they fit the map of
duplicates (2^18), without which a forgotten repeat counts as received and the
report no longer adds up. Neither follows from the negotiation, which
allows sessions of more packets than that. `StreamInv` is in four parts: shape of the
receiver's state machine (the channel is closed only after the drainer is gone,
`stat` only after that), the count of what was accepted, where packets come
from (nothing is seen that was not written), and that each snapshot's received
count is at most the number of different packets that arrived.

Its path: `TableIsTheSnapshot`, for any path and any lengths of the queues.
`PathInv` follows a snapshot from the server's prober over its channel, the
forwarder and the wire into the client's table: what the path ends at never moves
away, so a later snapshot is never longer (`QueueInv`, `WirePathInv`); the
forwarder holds the rest of the snapshot whose sent rows end the wire; and the
table starts with the rows of it that arrived, and has none past its end
(`TableInv`). The last part is what a test would hardly reach: the table is the
snapshot only when nothing is under way, and at every other moment it mixes two.

**IcmpProber** (`IcmpProber_proofs`), for any number of hops, any window, delay
and threshold, as long as the sequence space is wider than the probes that can
still matter (`IcmpAssumption`; with 65535 numbers and at most 255 hops the code
is far from it). `NumberInv`: a probe's number is its place in the count modulo
the space, and its age bounds how many went after it; so two probes of one
number that matter are one (`NoReplyStrays`). `TableInv`: a hop awaits exactly
as many answers as the table holds for it; ids are unique. `BlackInv`: a sweep's
failures equal its probes exactly when none left. They give
`GivesUpWhenBlackedOut` and `TableImplementsLedger`, the refinement of
HopLedger.

**TcpProber** (`TcpProber_proofs`), for any number of hops. Ports are handed out
round a range, so the argument is about how far the cursor has come since a
probe's port was chosen: `PlaceInv` bounds that by the sweeps since, less the
goroutines that have yet to choose; one too old for the bound is pruned before
the next sweep can come round. `HoldInv` says the same of ports that goroutines
hold and have not registered yet, `WireInv` of answers under way, `TableInv`
that a hop awaits as many answers as the table has. `TableMatches` and
`TableImplementsLedger` assume `WindowFits`, a window and two sweeps fit into the
range: so it is at sweeps of a second or slower, where the range is four sweeps
and the window two. `--mtr-interval` goes down to 100 ms; at half a second it does
not hold, and nor does the property (`MCTcpPortReuse.cfg`, section 6). These
theorems say nothing of such sessions. `PortsSuffice` also assumes
`DelayFits`, that no answer is later than the range is wide. It is about the
network, the code cannot see to it: a later answer is credited to the port's
next probe.

What stays with the model checker is all liveness (`ReceiverReturns`,
`EndedSessionFreesSlot`, `ProbeEndsWithSession`, `EitherExitStopsBoth`,
`TestEnds`, `ProberReturns`), because the proof system has no rules for ENABLED
and fairness.

## 6. Where code and comments part

Two disagreements are runs (`PROJECT.json`, "findings"):

* `trace_reset`: pressing `[r]` in the short time between `close(snaps)` and
  the UI noticing sends on a closed channel. The guard reads the model's own
  `done` flag, which is set later than the channel is closed. trace.go:805-806
  says the channel is closed "once all senders have exited".
* `aggregator_reset`: `buildReportData` takes its verdict from one `Snapshot` and
  marks it in two later calls (trace.go:751-765). An `[r]` in between clears the marks
  first, and the old verdict then highlights hops of the new window.
  aggregator.go:475-477 says Reset clears the marks "so a re-armed session doesn't
  keep highlighting hops flagged by the previous test's MarkSuspects".
  `MarksAreCurrent` is what holds in spite of it.

Four have a configuration that reproduces them and no run of their own:

* `MCAccumulatorCapLoss.cfg` (module MCCounters, `LossUnaffectedByCap`): the cap
  of the duplicate map does change the loss: a repeat the full map has forgotten
  passes for a late arrival and takes a loss back. stats.go:143-144 says that the
  cap bounds the map's footprint, "not the rest of the receiver's stats".
* `MCTraceReverse.cfg` (MCTraceClient, `HonestReverseCount`): the reverse receiver's
  final snapshot is dropped; up to one tick of packets it did count is reported
  as lost, in spite of the 200 ms spent waiting for them (trace.go:817-819).
* `MCTcpPortReuse.cfg` (MCTcpProber, `InflightMatchesTable`): a source port is
  chosen and registered in two critical sections. With one slot free, two
  goroutines of a sweep get it; the second overwrites the first, and that hop
  keeps a probe in flight for good, which is the leak probe_tcp_unix.go:282-286
  says is avoided. It takes sweeps of half a second, which `--mtr-interval`
  allows: there the range is the window and one sweep, of which
  probe_tcp_unix.go:87-91 says that a port slot "cannot be reused while a previous
  probe at that slot is still inside the loss window".
* `MCProbeRefused.cfg` (MCReverseSession, `ProbesAreWelcome`): a client whose control
  connection comes over IPv6 is told that corroboration is on, dials, and every probe
  of it is refused (serve.go:934). messages.go:141-143 says "on" means that "the
  server is prepared to accept a TCP corroboration probe connection for this
  session".

Further divergences, in prose only. `messages.go` says that every local drop
inflates the loss; it does only if a later packet arrives and the dropped one
was not a repeat. The comment of `Correlate` gives the threshold as
`> max(0.5, p95)`, the code uses `>= max(1.0, p95)`; Aggregator models the code.
`suspectTTLsForSource` promises that the TUI's test-complete view highlights the
hops of the report; a sweep that ends after the marks replaces the table without
them, and with the TUI the workers are told to stop only after the report is
built; `ReportHighlights` therefore speaks of the other modes. A hop's address is
that of the first responder, and the NAT tag compares it: when routes change and
the target answers at a TTL that a router answered for first, the path is tagged
as ending at a NAT (hopstats.go:42-50, serve.go:740-742). A `--duration` below a
millisecond passes the client's check and is refused by the server as zero.

## 7. What is not modelled, and the plan

Parts of modelled components:

* Collisions of ICMP identifiers, of which there are 2^16: another prober's probes
  carry another identifier.
* For TCP probers at intervals below a second, more than the counterexample of
  section 6: `tcp_prober` and its theorems are about a second or more.
* Rate limiting of probe reads (serve.go:980): what it enforces is a rate, and
  the width of its product matters after a gigabyte only.
* Framing and the packet header: fixed layouts without state.
* Round-trip times, jitter, TCP_INFO: no decision depends on them.
* How several TCP probers get ranges of their own (`nextTCPSrcPortBase`), and the
  Windows probers, which are other programs on other system calls.
* The client's TCP corroboration probe, and the parts of the report that are
  copied rather than decided.

Whole components: rendering, the report's JSON and text, privilege checks,
service control, the platform samplers (system calls or layout, no state of
their own), the command dispatcher, the end-to-end harness (a test program).

The plan that is left is about proofs:

1. What the report says of a stream that outgrows the map, in the way
   `FinalLossIsHonest` says it of the hub's receivers: by how much at most it
   can be off.
2. The safety half of the liveness properties: that a cancelled receiver, an
   ended session and a finished test always have a step left until they are done.
