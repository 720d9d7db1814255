----------------------------- MODULE ReverseStream -----------------------------
(***************************************************************************)
(* The reverse UDP stream: runReverseStream and stream.Sender on the       *)
(* server (serve.go, sender.go), the direct-conn Receiver of the client    *)
(* with its drainer and stat goroutine (receiver.go), the snapshots on     *)
(* their way into the aggregator, and reverseStreamReport (trace.go).      *)
(*                                                                         *)
(* Time is counted in ticks of clock, which nothing waits for: a goroutine *)
(* may run as late as it likes.  The network loses, repeats and reorders.  *)
(* Packets of other flows and tokens are skipped and change nothing.  The  *)
(* client's forward stream uses the same Sender on a connected socket.     *)
(***************************************************************************)
EXTENDS AccumulatorOps, SequencesExt

CONSTANTS
  StreamBPS, StreamPacket,  \* the rate of the Hello, and its packet size in bytes
  TicksPerSecond,           \* the resolution of the sender's clock
  Duration,    \* ticks the stream lasts, 0 for no end
  StreamRing,  \* ReceiverConfig.RingSize
  StreamCap,   \* capacity of reverseSnaps
  MaxClock,    \* bound: ticks in a behaviour
  MaxArrivals  \* bound: packets the client's socket is handed

ASSUME StreamAssumption ==
  /\ StreamBPS \in Nat \ {0} /\ StreamPacket \in Nat \ {0}
  /\ TicksPerSecond \in Nat \ {0} /\ Duration \in Nat /\ StreamRing \in Nat \ {0}
  /\ StreamCap \in Nat \ {0} /\ MaxClock \in Nat /\ MaxArrivals \in Nat

Nobody == -1

VARIABLES
  clock,
  sessionDone,  \* the server's session context
  sender,       \* pc, seq (packets written), when it started
  finalSent,    \* FinalStats.ReverseSent, Nobody before Final
  streamWire,   \* packets on their way to the client
  workersDone,  \* the client's workerCtx
  drainer,      \* drain: pc and the packet in its hands
  ring,         \* the channel to stat: packets, closed
  stat,         \* "off", "running", "gone"
  run,          \* Receiver.Run: "off", "loop", "joining", "closing", "returned"
  acc,          \* its Accumulator
  reverseSnaps, \* the channel of snapshots
  lastReverse,  \* what the aggregator ingested last
  report,       \* ReverseStreamReport
  arrived,      \* history: the packets drain accepted, one by one
  sentOnClosed  \* history: a send on the closed ring

streamVars == <<clock, sessionDone, sender, finalSent, streamWire, workersDone,
                drainer, ring, stat, run, acc, reverseSnaps, lastReverse,
                report, arrived, sentOnClosed>>
serverVars == <<sessionDone, sender, finalSent>>
receiverVars == <<drainer, ring, stat, run, acc, arrived, sentOnClosed>>
clientVars == <<workersDone, reverseSnaps, lastReverse, report>>

NoView == [recv |-> 0, lost |-> 0]

StreamInit ==
  /\ clock = 0 /\ sessionDone = FALSE
  /\ sender = [pc |-> "off", seq |-> 0, t0 |-> 0]
  /\ finalSent = Nobody /\ streamWire = {} /\ workersDone = FALSE
  /\ drainer = [pc |-> "off", seq |-> 0]
  /\ ring = [ch |-> <<>>, closed |-> FALSE]
  /\ stat = "off" /\ run = "off" /\ acc = NewAccumulator
  /\ reverseSnaps = <<>> /\ lastReverse = NoView /\ report = <<>>
  /\ arrived = <<>> /\ sentOnClosed = FALSE

-----------------------------------------------------------------------------
(* The server. *)

\* runReverseStream: the client's first forward packet told where to send to; or
\* the session was over before there was one.
SenderStart ==
  /\ sender.pc = "off" /\ finalSent = Nobody
  /\ sender' = [sender EXCEPT !.pc = "top", !.t0 = clock]
  /\ UNCHANGED <<clock, sessionDone, finalSent, streamWire, receiverVars, clientVars>>

\* Slip: one more packet at the very end.
OverAfter(elapsed) == Duration > 0 /\ elapsed > Duration

DurationOver(elapsed) == Duration > 0 /\ elapsed >= Duration

\* Sender.Run, loop head: the context, then the duration.
SenderCheck ==
  /\ sender.pc = "top"
  /\ sender' = [sender EXCEPT !.pc =
       IF sessionDone \/ DurationOver(clock - sender.t0) THEN "gone" ELSE "pacing"]
  /\ UNCHANGED <<clock, sessionDone, finalSent, streamWire, receiverVars, clientVars>>

\* A packet's bits, and the clock ticks between packets: rounded down, one at
\* least.
Bits == StreamPacket * 8
PacketTicks(bits) == LET ticks == (bits * TicksPerSecond) \div StreamBPS
                     IN  IF ticks < 1 THEN 1 ELSE ticks

\* Slip: a rate in bits divides bytes.
BytesInterval == PacketTicks(StreamPacket)

Interval == PacketTicks(Bits)

\* When a packet may leave, counted from the start: late ones do not move the
\* rest, the sender catches up.
Due(seq) == seq * Interval

\* waitUntil, then the write.  A context that ends during a wait is seen there or
\* at the loop head, according to the interval.
SenderWrite ==
  /\ sender.pc = "pacing"
  /\ clock - sender.t0 >= Due(sender.seq)
  /\ streamWire' = streamWire \cup {sender.seq}
  /\ sender' = [sender EXCEPT !.pc = "top", !.seq = @ + 1]
  /\ UNCHANGED <<clock, sessionDone, finalSent, receiverVars, clientVars>>

\* The wait is cut short, or the write fails: both end the sender for good.
SenderStop ==
  /\ sender.pc = "pacing"
  /\ sender' = [sender EXCEPT !.pc = "gone"]
  /\ UNCHANGED <<clock, sessionDone, finalSent, streamWire, receiverVars, clientVars>>

\* The deadline, a client that hangs up, a shutdown.
SessionEnds ==
  /\ ~sessionDone
  /\ sessionDone' = TRUE
  /\ UNCHANGED <<clock, sender, finalSent, streamWire, receiverVars, clientVars>>

\* Slip: Final is built as soon as the session is over.
NotWaitedFor == TRUE

\* reverseStreamWG.Wait: a sender that is running is waited for, one that still
\* waits for the first packet gives up with the session.
SenderJoined == sender.pc \in {"off", "gone"}

\* buildFinal: the count the sender stored when it returned.
SendFinal ==
  /\ sessionDone /\ finalSent = Nobody /\ SenderJoined
  /\ finalSent' = IF sender.pc = "gone" THEN sender.seq ELSE 0
  /\ UNCHANGED <<clock, sessionDone, sender, streamWire, receiverVars, clientVars>>

-----------------------------------------------------------------------------
(* The client's Receiver. *)

\* Run starts the drainer and stat.
ReceiverStart ==
  /\ run = "off"
  /\ run' = "loop" /\ stat' = "running" /\ drainer' = [drainer EXCEPT !.pc = "reading"]
  /\ UNCHANGED <<clock, serverVars, streamWire, ring, acc, arrived, sentOnClosed, clientVars>>

\* drain: a packet is read; the same datagram may come again.  A done context is
\* seen between two reads only.
DrainRead(s) ==
  /\ drainer.pc = "reading"
  /\ s \in streamWire /\ Len(arrived) < MaxArrivals
  /\ drainer' = [pc |-> "holding", seq |-> s]
  /\ arrived' = Append(arrived, s)
  /\ UNCHANGED <<clock, serverVars, streamWire, ring, stat, run, acc, sentOnClosed, clientVars>>

\* drain: into the ring, or counted as a local drop; never waiting.
DrainPut ==
  /\ drainer.pc = "holding"
  /\ drainer' = [drainer EXCEPT !.pc = "reading"]
  /\ IF Len(ring.ch) < StreamRing
     THEN ring' = [ring EXCEPT !.ch = Append(@, drainer.seq)] /\ UNCHANGED acc
     ELSE acc' = LocalDropAdded(acc, 1) /\ UNCHANGED ring
  /\ sentOnClosed' = (sentOnClosed \/ ring.closed)
  /\ UNCHANGED <<clock, serverVars, streamWire, stat, run, arrived, clientVars>>

\* drain ends with its context, at the latest one read deadline later, or for
\* good with a read error that is not a timeout: the server's port is closed.
DrainExit ==
  /\ drainer.pc = "reading"
  /\ drainer' = [drainer EXCEPT !.pc = "gone"]
  /\ UNCHANGED <<clock, serverVars, streamWire, ring, stat, run, acc, arrived,
                 sentOnClosed, clientVars>>

\* stat: one observation, or the end of a closed and empty channel.
StatObserve ==
  /\ stat = "running" /\ ring.ch # <<>>
  /\ acc' = Observed(acc, Head(ring.ch))
  /\ ring' = [ring EXCEPT !.ch = Tail(@)]
  /\ UNCHANGED <<clock, serverVars, streamWire, drainer, stat, run, arrived,
                 sentOnClosed, clientVars>>

StatExit ==
  /\ stat = "running" /\ ring.ch = <<>> /\ ring.closed
  /\ stat' = "gone"
  /\ UNCHANGED <<clock, serverVars, streamWire, drainer, ring, run, acc, arrived,
                 sentOnClosed, clientVars>>

\* Run's tick: a snapshot is offered; a full channel drops it.
RunTick ==
  /\ run = "loop"
  /\ Len(reverseSnaps) < StreamCap
  /\ reverseSnaps' = Append(reverseSnaps, [recv |-> acc.recv, lost |-> acc.lost])
  /\ UNCHANGED <<clock, serverVars, streamWire, receiverVars, workersDone, lastReverse, report>>

RunDone ==
  /\ run = "loop" /\ workersDone
  /\ run' = "joining"
  /\ UNCHANGED <<clock, serverVars, streamWire, drainer, ring, stat, acc, arrived,
                 sentOnClosed, clientVars>>

\* Slip: the channel is closed as soon as the context is done.
NoDrainerWait == TRUE

DrainerJoined == drainer.pc = "gone"

\* drainerWG.Wait, then the channel is closed: stat ends when it is empty.
RunClose ==
  /\ run = "joining" /\ DrainerJoined
  /\ ring' = [ring EXCEPT !.closed = TRUE]
  /\ run' = "closing"
  /\ UNCHANGED <<clock, serverVars, streamWire, drainer, stat, acc, arrived,
                 sentOnClosed, clientVars>>

\* statsWG.Wait; the final snapshot is discarded by the caller.
RunReturn ==
  /\ run = "closing" /\ stat = "gone"
  /\ run' = "returned"
  /\ UNCHANGED <<clock, serverVars, streamWire, drainer, ring, stat, acc, arrived,
                 sentOnClosed, clientVars>>

-----------------------------------------------------------------------------
(* The client's session. *)

\* IngestReverseStream keeps the last snapshot; its drainer ends with workerCtx.
IngestReverseStream ==
  /\ reverseSnaps # <<>>
  /\ lastReverse' = Head(reverseSnaps)
  /\ reverseSnaps' = Tail(reverseSnaps)
  /\ UNCHANGED <<clock, serverVars, streamWire, receiverVars, workersDone, report>>

\* reverseStreamReport: the receiver misses losses at the tail, the server's
\* count shows them.
EffectiveLoss(sent, view) ==
  IF sent - view.recv > view.lost THEN sent - view.recv ELSE view.lost

\* Final is read, the grace has passed: the report, then the workers are told,
\* unless the user has quit by now.
BuildReport ==
  /\ finalSent # Nobody /\ report = <<>>
  /\ report' = <<[sent |-> finalSent, recv |-> lastReverse.recv,
                  lost |-> EffectiveLoss(finalSent, lastReverse)]>>
  /\ workersDone' = TRUE
  /\ UNCHANGED <<clock, serverVars, streamWire, receiverVars, reverseSnaps, lastReverse>>

\* A signal, a lost connection: no report.
ClientEnds ==
  /\ ~workersDone
  /\ workersDone' = TRUE
  /\ UNCHANGED <<clock, serverVars, streamWire, receiverVars, reverseSnaps, lastReverse, report>>

StreamTick ==
  /\ clock < MaxClock
  /\ clock' = clock + 1
  /\ UNCHANGED <<serverVars, streamWire, receiverVars, clientVars>>

ServerStreamNext ==
  SenderStart \/ SenderCheck \/ SenderWrite \/ SenderStop \/ SessionEnds \/ SendFinal
ClientStreamNext ==
  \/ ReceiverStart \/ DrainPut \/ DrainExit \/ StatObserve \/ StatExit
  \/ RunTick \/ RunDone \/ RunClose \/ RunReturn
  \/ IngestReverseStream \/ BuildReport \/ ClientEnds
  \/ \E s \in streamWire : DrainRead(s)

-----------------------------------------------------------------------------
(* Properties. *)

\* receiver.go:185-257, 281-335: every packet the drainer accepted is counted
\* once, dropped and counted, or on its way; when Run returns none is on its way;
\* and nothing is sent on the channel Run closed.
ReceiverKeepsBooks ==
  LET counted == acc.recv + acc.duplicates + acc.localDrops
      held == IF drainer.pc = "holding" THEN 1 ELSE 0
  IN  /\ Len(arrived) = counted + Len(ring.ch) + held
      /\ run = "returned" => counted = Len(arrived)
      /\ ~sentOnClosed

\* trace.go:1189-1223: the report's received and lost packets add up to what the
\* server sent, and no packet that did not arrive is missing from the losses,
\* tail losses included.
ReportBalances ==
  \A i \in DOMAIN report :
    /\ report[i].recv + report[i].lost = report[i].sent
    /\ report[i].lost >= report[i].sent - Cardinality(ToSet(arrived))

\* sender.go:110-157: what was written after the first packet is within the rate
\* for the time that passed, but for the tick at most that each interval is
\* rounded down by, and also when a goroutine that ran late has caught up; and no
\* packet belongs to a slot a full interval past the duration.  When a packet is
\* written is not bounded: the goroutine may be late between its look at the
\* duration and the write.
PaceHolds ==
  LET later == sender.seq - 1
  IN  /\ later > 0 =>
           later * Bits * TicksPerSecond <= (clock - sender.t0 + later) * StreamBPS
      /\ Duration > 0 /\ later > 0 => (later - 1) * Interval < Duration
=============================================================================
