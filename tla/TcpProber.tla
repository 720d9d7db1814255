------------------------------- MODULE TcpProber -------------------------------
(***************************************************************************)
(* internal/probe/probe_tcp_unix.go: the TCP hop prober.  A sweep is one   *)
(* goroutine per TTL: it takes a source port from the prober's own range,  *)
(* registers the probe under it, dials, and books the result; recvLoop     *)
(* books the ICMP answers by source port.  The port is taken in one        *)
(* critical section and registered in another.                             *)
(*                                                                         *)
(* The network loses, delays and repeats answers, up to MaxDelay ticks     *)
(* after the probe.  Ages are counted in ticks of the sweep ticker; a dial *)
(* takes no longer than one.                                               *)
(***************************************************************************)
EXTENDS HopBooks

CONSTANTS
  RangeFactor,   \* tcpProbeRangeFactor
  MaxDelay,      \* bound: ticks after which a probe has no answer any more
  MaxSweeps,     \* bound: sweeps in a behaviour
  MaxRefused,    \* bound: dials refused for a reason outside the prober
  SendThreshold, \* sendErrBackoffThreshold
  NoPort,        \* a goroutine has no port
  Foreign,       \* the id of a probe that is not this prober's
  DialStarts     \* how a dial may begin

ASSUME TcpAssumption ==
  /\ RangeFactor \in Nat \ {0} /\ MaxDelay \in Nat /\ MaxSweeps \in Nat
  /\ MaxRefused \in Nat
  /\ SendThreshold \in Nat \ {0}
  /\ DialStarts \subseteq {"dialing", "unreachable", "refused"}

\* Slip: the window and its headroom, however few sweeps that is.
NoFloor == Window + 1

\* computeTCPRangeSize: the sweeps of a settle window and one of headroom, but
\* never fewer than the factor.  The factor governs at intervals of a second or
\* more, where the window is two sweeps; below that the first term does.
SweepsPerWindow == IF Window + 1 < RangeFactor THEN RangeFactor ELSE Window + 1
RangeSize == MaxHops * SweepsPerWindow
Ports == 0 .. RangeSize - 1

ASSUME NoneAssumption == NoPort \notin Ports /\ Foreign \notin Nat

VARIABLES
  \* The prober.
  portCursor, inflight, hops, terminus,
  run,       \* Run: pc, whether every probe failed so far, consecBadSweeps
  probe,     \* per TTL its goroutine: pc, port, id
  tick,      \* the ticker's channel holds a tick
  \* The environment and history.
  wire,      \* probes that left and may still be answered
  issued,    \* probes registered so far: the id of the next one
  sweeps,    \* sweeps begun
  strayed    \* an answer was booked for another probe than its own

vars == <<portCursor, inflight, hops, terminus, run, probe, tick,
          wire, issued, sweeps, strayed>>

NoProbe == [pc |-> "idle", port |-> NoPort, id |-> 0]

\* sweep: one goroutine per TTL up to the limit, which is read once.
Sweeping(bad) ==
  [pc |-> "sweep", allFailed |-> TRUE, bad |-> bad]
Started(term) ==
  [t \in TTLs |-> [NoProbe EXCEPT !.pc = IF t <= SweepLimit(term) THEN "alloc" ELSE "idle"]]

Init ==
  /\ portCursor = 0 /\ inflight = {} /\ terminus = 0
  /\ hops = [t \in TTLs |-> NewHop]
  /\ tick = FALSE
  /\ run = Sweeping(0) /\ probe = Started(0)
  /\ wire = {} /\ issued = 0 /\ sweeps = 1 /\ strayed = FALSE

-----------------------------------------------------------------------------
(* One probe. *)

Busy(port) == \E p \in inflight : p.port = port

\* nextSrcPort: how far the cursor walks to the next slot not in flight.
FirstFree(c) ==
  CHOOSE k \in 0 .. RangeSize :
    /\ k < RangeSize => ~Busy((c + k) % RangeSize)
    /\ \A j \in 0 .. k - 1 : Busy((c + j) % RangeSize)

\* Every slot in flight: no probe, no counter, no failure.
Allocate(t) ==
  LET k == FirstFree(portCursor)
  IN  /\ probe[t].pc = "alloc"
      /\ IF k < RangeSize
         THEN /\ probe' = [probe EXCEPT ![t].pc = "register",
                                        ![t].port = (portCursor + k) % RangeSize]
              /\ portCursor' = (portCursor + k + 1) % RangeSize
              /\ UNCHANGED run
         ELSE /\ probe' = [probe EXCEPT ![t] = NoProbe]
              /\ run' = [run EXCEPT !.allFailed = FALSE]
              /\ UNCHANGED portCursor
      /\ UNCHANGED <<inflight, hops, terminus, tick, wire, issued, sweeps, strayed>>

\* The probes taken back so far, or about to be.
TakenBack == issued - MapThenSumSet(LAMBDA t : hops[t].sent, TTLs)
               + Cardinality({t \in TTLs : probe[t].pc = "refused"})

Dialing(t) == probe[t].pc \in {"dialing", "unreachable"}

\* probe: registered under its port, whatever the port was in use for; then the
\* dial begins.  The SYN leaves, or the network is unreachable, or the dial is
\* refused: another process or a dial of this prober has the port, or the socket
\* options are rejected.
Register(t, start) ==
  LET port == probe[t].port
      p == [port |-> port, ttl |-> t, id |-> issued, age |-> 0]
      taken == \E u \in TTLs \ {t} : probe[u].port = port /\ Dialing(u)
  IN  /\ probe[t].pc = "register"
      /\ IF taken THEN start = "refused" ELSE start \in DialStarts
      /\ start = "refused" => taken \/ TakenBack < MaxRefused
      /\ inflight' = {q \in inflight : q.port # port} \cup {p}
      /\ hops' = [hops EXCEPT ![t] = Registered(@)]
      /\ issued' = issued + 1
      /\ wire' = IF start = "dialing" THEN wire \cup {p} ELSE wire
      /\ probe' = [probe EXCEPT ![t].pc = start, ![t].id = issued]
      /\ run' = [run EXCEPT !.allFailed = @ /\ start = "refused"]
      /\ UNCHANGED <<portCursor, terminus, tick, sweeps, strayed>>

\* The entry under the goroutine's port, whosever it is.
Mine(t) == {p \in inflight : p.port = probe[t].port}

\* recordTerminus: connected or reset, the target was reached at this TTL; unless
\* the probe was given up or answered before.
Reached(t) ==
  /\ probe[t].pc = "dialing"
  /\ inflight' = inflight \ Mine(t)
  /\ IF Mine(t) = {} THEN UNCHANGED <<hops, terminus>>
     ELSE /\ hops' = [hops EXCEPT ![t] = Recorded(@)]
          /\ terminus' = Nearest(terminus, t)
  /\ strayed' = (strayed \/ \E p \in Mine(t) : p.id # probe[t].id)
  /\ probe' = [probe EXCEPT ![t] = NoProbe]
  /\ UNCHANGED <<portCursor, run, tick, wire, issued, sweeps>>

\* Timed out, unreachable or cancelled: the probe is left to recvLoop and emit.
Silent(t) ==
  /\ Dialing(t)
  /\ probe' = [probe EXCEPT ![t] = NoProbe]
  /\ UNCHANGED <<portCursor, inflight, hops, terminus, run, tick, wire, issued, sweeps, strayed>>

\* rollbackProbe: the counters are taken back, if the entry is still there.
Refused(t) ==
  /\ probe[t].pc = "refused"
  /\ inflight' = inflight \ Mine(t)
  /\ hops' = [hops EXCEPT ![t] = IF Mine(t) = {} THEN @ ELSE RolledBack(@)]
  /\ probe' = [probe EXCEPT ![t] = NoProbe]
  /\ UNCHANGED <<portCursor, terminus, run, tick, wire, issued, sweeps, strayed>>

-----------------------------------------------------------------------------
(* Run. *)

\* sweep waits for its goroutines; emit gives old probes up; too many sweeps in
\* a row in which no probe left end the prober.  The first sweep is not
\* compared; it cannot reach the threshold.
Emit(cut) ==
  LET gone == Expired(inflight, cut)
      bad == IF run.allFailed THEN run.bad + 1 ELSE 0
      fatal == bad > SendThreshold
  IN  /\ run.pc = "sweep" /\ \A t \in TTLs : probe[t].pc = "idle"
      /\ inflight' = inflight \ gone
      /\ hops' = AfterPrune(hops, gone)
      /\ run' = [pc |-> IF fatal THEN "closing" ELSE "waiting", allFailed |-> TRUE,
                 bad |-> bad]
      /\ UNCHANGED <<portCursor, terminus, probe, tick, wire, issued, sweeps, strayed>>

\* The select: a tick starts a sweep, a done context ends the prober.  Until it
\* is seen a done context only makes dials end unanswered; the end itself, with
\* the socket and recvLoop, is IcmpProber's.
TakeTick ==
  /\ run.pc = "waiting" /\ tick
  /\ sweeps < MaxSweeps
  /\ tick' = FALSE
  /\ run' = Sweeping(run.bad) /\ probe' = Started(terminus)
  /\ sweeps' = sweeps + 1
  /\ UNCHANGED <<portCursor, inflight, hops, terminus, wire, issued, strayed>>

SeeDone ==
  /\ run.pc = "waiting"
  /\ run' = [run EXCEPT !.pc = "closing"]
  /\ UNCHANGED <<portCursor, inflight, hops, terminus, probe, tick, wire, issued, sweeps, strayed>>

-----------------------------------------------------------------------------
(* recvLoop and the environment. *)

\* What the raw socket may be handed: TimeExceeded for a SYN of this prober, or
\* for one of another connection from the same port to another host or port; and
\* the same because a fragment was never completed.
Messages ==
  [code : {"in transit", "reassembly"},
   about : wire \cup [port : Ports, id : {Foreign}]]

\* parseTCPReply: the embedded destination has to be this prober's target.
ParseTCPReply(m) ==
  IF m.code = "in transit" /\ m.about.id # Foreign THEN "TimeExceeded" ELSE "ignore"

\* Booked for the probe its source port is registered for, if there is one.
Fold(m) ==
  LET w == m.about
      mine == {p \in inflight : p.port = w.port}
  IN  /\ run.pc # "closing"
      /\ ParseTCPReply(m) # "ignore" /\ mine # {}
      /\ inflight' = inflight \ mine
      /\ hops' = [t \in TTLs |-> IF \E p \in mine : p.ttl = t THEN Recorded(hops[t])
                                                              ELSE hops[t]]
      /\ strayed' = (strayed \/ \E p \in mine : p.id # w.id)
      /\ UNCHANGED <<portCursor, terminus, run, probe, tick, wire, issued, sweeps>>

\* A dial is given up after one interval and everything else is quick: a sweep
\* sees at most one tick go by.
Tick ==
  /\ ~tick
  /\ \A t \in TTLs : probe[t].pc = "idle" \/ Dialing(t)
  /\ inflight' = Older(inflight)
  /\ wire' = {[w EXCEPT !.age = @ + 1] : w \in {v \in wire : v.age < MaxDelay}}
  /\ tick' = TRUE
  /\ UNCHANGED <<portCursor, hops, terminus, run, probe, issued, sweeps, strayed>>

Next ==
  \/ \E t \in TTLs :
       \/ Allocate(t)
       \/ \E start \in DialStarts \cup {"refused"} : Register(t, start)
       \/ Reached(t) \/ Silent(t) \/ Refused(t)
  \/ \E cut \in 0 .. issued : Emit(cut)
  \/ TakeTick \/ SeeDone
  \/ (\E m \in Messages : Fold(m))
  \/ Tick

Spec == Init /\ [][Next]_vars

-----------------------------------------------------------------------------
(* Properties. *)

Ledger == INSTANCE HopLedger WITH
  Hops <- TTLs, Settle <- Window,
  open <- {[id |-> p.id, ttl |-> p.ttl, age |-> p.age] : p \in inflight},
  sent <- [t \in TTLs |-> hops[t].sent],
  recv <- [t \in TTLs |-> hops[t].recv],
  lost <- [t \in TTLs |-> Lost(hops[t])]

\* probe_tcp_unix.go:303-407: dial results, ICMP answers, roll-backs and pruning
\* may each be the one that settles a probe; whichever comes first does, and the
\* others leave the table alone.
ImplementsHopLedger == Ledger!LedgerSpec

TypeOK ==
  /\ portCursor \in Ports /\ terminus \in 0 .. MaxHops
  /\ \A t \in TTLs : Lost(hops[t]) >= 0 /\ hops[t].inflight >= 0
  /\ \A p, q \in inflight : p.port = q.port => p = q

\* probe_tcp_unix.go:99-101, 280-288: where the factor covers the window and two
\* sweeps more, as at intervals of a second or more (two and two in four), every
\* goroutine of a sweep finds a slot, even if all the others take theirs first;
\* so no two of them ever hold the same one, and an answer is booked only for the
\* probe it is about, also when its source port was in use before (532-552).
\* It is not so below a second, where the range is the window and one sweep
\* (line 98) although lines 87-91 say that it is: emit prunes at the end of a
\* sweep, so at its start the window, one sweep past it and the new one are all
\* in the table.  MCTcpPortReuse.cfg shows what comes of that.
RangeSuffices ==
  LET waiting == {t \in TTLs : probe[t].pc \in {"alloc", "register"}}
  IN  /\ TypeOK
      /\ Cardinality({p \in Ports : ~Busy(p)}) >= Cardinality(waiting)
      /\ \A t, u \in TTLs : t # u /\ probe[t].port = probe[u].port
                              => probe[t].port = NoPort
      /\ ~strayed

\* What probe_tcp_unix.go:282-286 says: "overwriting it would leak the old hop's
\* inflight counter": a hop awaits as many answers as it has probes in the table.
InflightMatchesTable ==
  \A t \in TTLs : hops[t].inflight = Cardinality({p \in inflight : p.ttl = t})
=============================================================================
