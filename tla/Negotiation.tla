------------------------------ MODULE Negotiation ------------------------------
(***************************************************************************)
(* What client and server agree on before a test: the flags parseTraceArgs *)
(* accepts, the Hello traceRun makes of them, validateHello's refusals,    *)
(* the server's decisions and what the client makes of the Ready           *)
(* (cmd/dropline/trace.go, serve.go).  Pure operators: ReverseSession      *)
(* has the state.                                                          *)
(*                                                                         *)
(* Texts are abstracted: a rate is the number and the unit of its flag, a  *)
(* duration and an interval are counted in clock ticks, TicksPerMS to the  *)
(* millisecond the wire has room for.  Version, mode and token are not     *)
(* options and never wrong between these two programs.                     *)
(***************************************************************************)
EXTENDS Integers

CONSTANTS
  MaxInt,         \* math.MaxInt64
  TicksPerMS,
  MinPacket, MaxPacket,            \* HeaderSize, MaxPacketSize
  MinIntervalMS, MaxIntervalMS,    \* of --mtr-interval, on both sides
  MaxSessionMS,   \* maxSessionDurationMS
  MaxPort, MaxTTL \* 65535, 255

ASSUME NegotiationAssumption ==
  /\ MaxInt \in Nat /\ TicksPerMS \in Nat \ {0}
  /\ MinIntervalMS \in Nat \ {0} /\ MaxIntervalMS \in Nat

-----------------------------------------------------------------------------
(* The client's flags. *)

\* parseReverseTrace, parseReverseStream, parseTCPCorroborate, parseTCPHopProbe.
Modes == {"on", "off", "auto"}

\* A product as int64 holds it.
AsInt(n) == LET m == n % (2 * (MaxInt + 1)) IN IF m > MaxInt THEN m - 2 * (MaxInt + 1) ELSE m

Rate(r) == AsInt(r.n * r.unit)

\* Slip: the product is not looked at.
RateIsPositive(r) == r.n > 0

\* parseRate: the product has to fit.
RateFits(r) == r.n > 0 /\ r.n <= MaxInt \div r.unit

\* parseTraceArgs: probe rate and port are checked whether they are used or not.
FlagsAccepted(f) ==
  /\ RateFits(f.rate) /\ RateFits(f.probeRate)
  /\ f.port \in 1 .. MaxPort
  /\ f.packetSize \in MinPacket .. MaxPacket
  /\ f.maxHops \in 1 .. MaxTTL
  /\ f.duration > 0
  /\ f.interval \in MinIntervalMS * TicksPerMS .. MaxIntervalMS * TicksPerMS

\* traceRun: what is off is sent as zero.
HelloOf(f, flowID, reverseFlowID) ==
  [rate |-> Rate(f.rate), packetSize |-> f.packetSize,
   durationMS |-> f.duration \div TicksPerMS,
   intervalMS |-> f.interval \div TicksPerMS,
   flowID |-> flowID,
   trace |-> f.trace,
   stream |-> f.stream,
   reverseFlowID |-> IF f.stream = "off" THEN 0 ELSE reverseFlowID,
   corroborate |-> f.corroborate,
   probeRate |-> IF f.corroborate = "off" THEN 0 ELSE Rate(f.probeRate),
   hopProbe |-> f.hopProbe,
   port |-> IF f.hopProbe = "on" THEN f.port ELSE 0]

-----------------------------------------------------------------------------
(* The server's answer. *)

\* validateHello: everything that is wrong; the code names the first.
Refusals(h, srv) ==
  {r \in {"packet size", "duration", "duration cap", "rate", "rate cap",
          "interval", "probe rate", "probe rate cap", "port"} :
     CASE r = "packet size" -> h.packetSize \notin MinPacket .. MaxPacket
       [] r = "duration" -> h.durationMS <= 0
       [] r = "duration cap" -> h.durationMS > MaxSessionMS
       [] r = "rate" -> h.rate <= 0
       [] r = "rate cap" -> srv.maxRate > 0 /\ h.rate > srv.maxRate
       [] r = "interval" -> h.intervalMS \notin {0} \cup MinIntervalMS .. MaxIntervalMS
       [] r = "probe rate" -> h.probeRate < 0
       [] r = "probe rate cap" ->
            h.corroborate # "off" /\ srv.maxRate > 0 /\ h.probeRate > srv.maxRate
       [] r = "port" -> h.hopProbe = "on" /\ h.port < 1}

\* resolveReverseTrace, resolveTCPCorroborate: "auto" asks for it.
WalksBack(pref, capable) == pref # "off" /\ capable
Corroborates(pref) == pref # "off"

\* resolveTCPHopProbe: "auto" does not.
ProbesBack(pref, capable) == pref = "on" /\ capable

\* resolveReverseStream: not without a flow id of its own.
StreamsBack(pref, reverseFlowID, flowID) ==
  pref \in {"on", "auto"} /\ reverseFlowID \notin {0, flowID}

\* handleSession, with its vetoes: a peer without an IPv4 address, a server that
\* sends no reverse stream.
Decisions(h, srv) ==
  LET stream == /\ StreamsBack(h.stream, h.reverseFlowID, h.flowID)
                /\ srv.ipv4 /\ srv.allowStream
  IN  [trace |-> WalksBack(h.trace, srv.capable) /\ srv.ipv4,
       stream |-> stream,
       reverseFlowID |-> IF stream THEN h.reverseFlowID ELSE 0,
       corroborate |-> Corroborates(h.corroborate),
       hopProbe |-> ProbesBack(h.hopProbe, srv.capable) /\ srv.ipv4]

\* newProbeHandler: corroboration was negotiated, and the probe comes from the
\* IPv4 address of the control connection; a session without one lets none in.
ProbeLetIn(ready, srv) == ready.corroborate /\ srv.ipv4

-----------------------------------------------------------------------------
(* The client reads Ready. *)

\* resolveReversePathStatus.
PathStatus(pref, on) ==
  IF pref = "off" THEN "disabled_by_client"
  ELSE IF on THEN "ok" ELSE "disabled_by_server"

\* Slip: the client goes by what it asked for.
OutcomeAsAsked(f, h, ready) ==
  [status |-> PathStatus(f.trace, ready.trace), stream |-> f.stream # "off",
   dial |-> ready.corroborate /\ Rate(f.probeRate) > 0]

\* The reverse stream is on only if the server echoes the flow id; a probe is
\* dialled if the server agreed and there is a rate for it.
Outcome(f, h, ready) ==
  [status |-> PathStatus(f.trace, ready.trace),
   stream |-> ready.stream /\ ready.reverseFlowID = h.reverseFlowID
                           /\ h.reverseFlowID # 0,
   dial |-> ready.corroborate /\ Rate(f.probeRate) > 0]
=============================================================================
